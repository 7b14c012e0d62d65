# Risk Sentinel: a verification development

Risk Sentinel polls the logs of an EVM chain, normalizes them into signals,
evaluates rules on them and sends alerts. This directory holds TLA+ modules
translated from its source, TLC configurations that check them on small
instances, and TLAPS proofs of theorems that hold for every instance. Paths
below are relative to the repository's root.

## 1. Inventory

    RPC node <- JsonRpcClient <- ChainAdapter <- EventSource  (thread 1)
                                                    | ring of 65536 signals (SPSC)
                                                 RiskEngine   (thread 2) -> six rules
                                                    | queue with mutex and condition variable
                                                 AlertDispatcher (thread 3) -> deduplicator -> channels
    main thread: start, wait for a stop request, shut down, join
    signal thread: turns SIGINT/SIGTERM into request_stop()
    health server: a pool of HTTP workers that read heartbeats, the database, a gauge

| Component | State | Operations | Talks to | What makes it correct |
|---|---|---|---|---|
| Event source (`src/events/EventSource.cpp`) | cursor, cached head, current range, cold-start flag, running flag | `run`, `poll_once`, `push_blocking`, `stop` | adapter (calls that throw), ring (blocks when full) | no log skipped or repeated without cause, ranges never past the head, a backtest covers exactly its range, it ends when stopped |
| Checkpoint store (`src/db_checkpoint_store.cpp`) | one row per chain | `get_or_init_checkpoint`, `upsert_checkpoint` (no caller) | read once at start | a restart leaves no gap |
| Normalization (`src/events/normalize.cpp`) | none | `normalize`, `classify_topic0` | called by the source | each log becomes the right signal, with amounts the log contains |
| Ring (`rigtorp::SPSCQueue`) | two indices, two cached indices, slots | `try_push`, `front`, `pop` | source and engine, and the main thread at shutdown | every signal out once and in order |
| Risk engine (`src/risk/risk_engine.cpp`) | routing table, drain mode, running flag | `register_rule`, `run`, `stop` | ring, rules, dispatcher | every signal meets the rules of its type |
| Rules (`src/risk/rules`) | configuration; the oracle rule also its last observations | `evaluate` | called by the engine | alerts exactly when documented |
| Dispatcher (`src/risk/alert_dispatcher.cpp`) | queue, running flag, counters | `dispatch`, `run`, `stop`, `add_channel` | deduplicator, channels (may throw) | every alert suppressed or offered to each channel once, counters add up, stop empties the queue |
| Deduplicator (`src/risk/alert_deduplicator.cpp`) | table key -> time, count of calls | `should_suppress`, `cleanup_stale_entries` | called by the dispatcher | suppresses within the window and only then; pruning is not observable |
| Channels (`src/risk/*_alert_channel.cpp`) | endpoints | `send` | HTTP, files, console | tell failures |
| Live application (`src/app/app.cpp`, `src/main.cpp`) | stop flag, condition variable, threads | `init`, `run`, `request_stop`, `stop_orderly_`, `join_threads_` | everything | a stop request ends the process with no work lost |
| Backtest application (`src/backtest/backtest_app.cpp`) | threads | `run` | source, engine, dispatcher with a file channel | the report is complete, the run ends |
| Health server (`src/health`) | heartbeats, the shared connection | `/readyz`, `/healthz`, `stop` | threads, database, metrics | ready means working, not ready has a cause |
| JSON-RPC client, chain adapters (`src/rpc`, `src/chains`) | counters, gauge | `call`, `latestBlock`, `getLogs` | node | calls are counted, a success is dated; a log that cannot be read is not dropped |
| Start of the service (`App::init_*`, `load_*`, `register_rules_`, `start_threads_`) | connection, seven tables of rules, readiness file | one loader per table, each with its own error handling | database, rules, health server | every good row is in effect and nothing else is; the readiness file tells of a running service |
| Backtest configuration (`src/backtest/backtest_config.cpp`) | none | `load_backtest_config` | a YAML document | the same rules as the service makes of the same rows |
| Conversions (`include/sentinel/events/utils/hex.hpp`) | none | hex to bytes, decimal to 256 bits and back, comparison | loaders, rules, normalization | what a text denotes, or an error |
| Secrets and admin tool (`src/security`, `src/admin`) | master key, sealed rows | `encrypt-secret`, `encrypt`, `decrypt`, `hmac_sha256_hex` | webhook rows, webhook channel | a request is signed with the customer's secret or not sent at all |
| Alert formatting, metrics, logging | none that is read back | | | not modelled, section 6 |

The hard behaviours are the ones `PROJECT.json` lists under `hazards`: batches
abandoned half-way, ranges halved while the head moves, a ring with a second
producer during shutdown, a stop flag overwritten or a wakeup lost, waits that
time out, a pruned table on a clock that may be set back, sends that fail
silently, concurrent probes on one connection, a server told to stop before it listens,
unsigned differences of times on a clock that is set,
nodes that lag behind each other, loaders that stop in the middle of a table,
one configuration read by two parsers, a readiness file that outlives its
process.

## 2. Modules

| Module | Models | Correspondence |
|---|---|---|
| `BlockFeed` | abstract: logs in chain order, at least once unless the node asked left one out (`Miss`), cursor never ahead of them | refined by `EventSource` |
| `EventSource` | `EventSource::run` and `poll_once` | `next_block_`, `cold_start_`, `cached_chain_head_`, `running_` are the members; `range` is the range chosen, halved on errors; `pc` tells the RPC calls and the pushes apart, so that `stop`, new blocks and the engine fall between them. A log is a number in chain order, `out_` the fill of the ring. `Malformed` logs are those `normalize` throws on, `Unparsable` ones those the adapter throws on, which fails the whole `getLogs`. The node that answers `getLogs` may be up to `MaxLag` blocks behind the one that told the head, and answers short. `origin`, `repeated`, `exposed`, `missed` are history |
| `CheckpointRestart` | `init_db_` and `get_or_init_checkpoint` around an `EventSource` | `Restart` kills the process at any point and starts it again |
| `AlertWindow` | abstract: a table of send times that forgets nothing | refined by `AlertDeduplicator`, on clocks that are set back too |
| `AlertDeduplicator` | `should_suppress` with its pruning, `build_key` | `last_fired_ms_` and `alerts_processed_since_cleanup_` are the members, `now` the system clock, which `StepBack` sets back |
| `SpscRing` | external: `rigtorp::SPSCQueue` | a push in three steps (load and test, construct, publish), for each producer; `front` and `pop` apart, as the engine lowers its gauge between them; cached indices kept |
| `AlertQueue` | queue and thread life cycle of the dispatcher | `DispatcherStart` stores `running_`, as `run()` does on its own thread |
| `Pipeline` | engine and dispatcher over ring and queue | signals are numbers; those in `Firing` raise an alert, whose deduplication key is `KeyOf` its signal. `taken` are the alerts the dispatcher took off the queue, `offered` those it let through to the channels: an alert may be held back only when one with its key was let through before (`Suppress`); when it is, windows and clock decide, in `AlertDeduplicator` |
| `BacktestRun` | `BacktestApp::run` | composes `Pipeline` with an instance of `EventSource`; the one-step push of `EventSource` becomes the ring's three steps, and its `out_` is the fill of the real ring. `mpc` is the main thread's place in the script; waits may time out at any moment |
| `BatchSource` | the source as the live shutdown sees it | batches of any size, the stop flag looked at between batches only |
| `LiveApp` | `App::run`, `request_stop`, `stop_orderly_`, `join_threads_` | composes `BatchSource` and `Pipeline`; the wait is split into predicate, block and wake-up; the pill into the ring's three steps. `server` is the health server's thread, which begins to listen in its own time; a stop before that is lost. `probe` is a readiness request inside the database, which may never come back; the server is stopped and joined first |
| `BacktestReport` | dispatcher and `FileAlertChannel` of a backtest | composes `AlertDeduplicator` with a channel that writes lines, counts what it was given and never throws |
| `AlertDispatcher` | `AlertDispatcher::run` with deduplicator and channels | composes `AlertQueue` and `AlertDeduplicator`; each channel's `send` throws or not as its code can; what it delivers stays inside it |
| `Selection` | loops that append some elements of a sequence to another | one recursive function, which the proofs unfold |
| `Conversions` | `hex.hpp` | texts are sequences of digits with a prefix and a letter case; the algorithms, digit by digit, as recursive functions over any radix and width; `Denotes` is the reference, the number a text stands for |
| `RiskRules` | `normalize`, routing, the six rules | a pure function from a raw log and the oracle's observations to alerts; data words and thresholds are words of `Conversions`, compared by `greater_be_256` |
| `RuleTables` | the `load_*` functions of `app.cpp` and of `backtest_config.cpp` | one operator per loader for a row (a configuration, skipped, or throws), `live_*` for the service and `parse_*` for a backtest, and one for what becomes of the table when a row throws; `TableRow` and `TableConfig` are the types of a row and of what a loader makes of it |
| `Secrets` | `crypto.cpp`, `encrypt_secret.cpp`, `load_webhook_channels_`, the signature | a ciphertext is a record of key, secret and nonce that opens with that key and untouched only (OpenSSL, external) |
| `Startup` | `main`, `App::init`, the loaders in order, the readiness file, `BacktestApp` up to its threads | `phase` and `at` are how far the start has come; each query may fail or take the connection with it; the process may be killed anywhere and started again; the readiness file may fail to be written and to be removed |
| `Health` | heartbeats, `evaluate_readiness`, the database probe, stop of the server; `JsonRpcClient::call` as far as readiness sees it | `ppc` is the check a request has come to; `tpc` what a thread is doing; `now` is the steady clock, `now + lead` the system clock, which `SetClock` sets; `call` dates a success by the latter in the gauge that readiness reads, `heard` by the former |
| `EventSourceProofs`, `AlertDispatcherProofs`, `PipelineProofs`, `LiveAppProofs`, `BacktestRunProofs`, `ConversionsProofs`, `RiskRulesProofs`, `ServiceProofs` | theorems and the lemmas they rest on | section 5 |
| `MC*` | constants for TLC | |

`EventSource` is at the centre: it implements `BlockFeed`, and `BacktestRun`,
with the ring, the threads and the shutdown around it, implements `EventSource`;
both refinements are proved, so that what is proved of the source holds in the
composition.

Definitions named `Name_Something` next to `Name` are deliberate faults: each
property is shown to fail when `Name` is replaced by one of them, so that no
property holds by construction (`mutants` in `PROJECT.json`).

## 3. Runs

Each run is `tlc -config <name>.cfg <MC module>`; `PROJECT.json` has the list.

*Event source.* `EventSourceLive` polls from a cold start against nodes that
refuse wide ranges and lag, with a log `normalize` refuses and one the adapter
cannot read: nothing is skipped but what the node asked did not return, repeats
come from abandoned batches only, everything before the log that cannot be read
is delivered, nothing behind it is, `stop` ends the thread, and the abstract
feed is implemented.

*Threads.* `BacktestRun` and `LiveShutdown` run the shutdown scripts over all
interleavings of source, engine, dispatcher, main and signal thread, with every
wait timing out or not. In a backtest, on a node that answers single blocks
only, the source pushes exactly its range (`BacktestExact`), each log is
evaluated once and in order, the run ends unless the dispatcher's `running_` was
set again after `stop()`, and a run whose waits did not time out has put every
alert of its range to the deduplicator, in chain order, and has offered to the
channels all but those that follow one with the same key (`ReportComplete`; that
the deduplicator drops too many of these in a backtest is the run
`BacktestDedup`). In the live application the guarantees are conditional, and
the properties name the conditions:
* order, unless the two producers of the ring were inside `try_push` at once
  (`IntactUnlessRaced`);
* the pill as a barrier and alerts handled, unless a wait ran out
  (`PillIsBarrier`, `AlertsHandled`);
* a stop request ends `run()`, unless its wakeup was lost, a readiness probe
  never comes back from the database, the health server was told to stop before
  it listened, the source is stuck on a full ring, or the dispatcher's
  `running_` was set again after `stop()` (`ShutdownCompletes`: of the threads
  and calls modelled, these five can hang and no other);
* the depth gauge is the fill of the ring, short of a push not yet counted, of
  a signal the engine has counted out and not yet popped and, from the pill on,
  of one more (`DepthGauge`).

*Dispatcher.* `DispatcherLive`: each alert is suppressed or offered to every
channel once and in order, whichever of them throws; the counters add up; on a
clock that is set back and forth no duplicate gets out early (`SendsAreSpaced`)
and the pruned table decides as `AlertWindow` does; every alert is handled. An
alert is suppressed only after an earlier one about the same customer, rule,
chain and token has been offered to every channel (`SuppressedWasSent`). Offered
is not delivered: the key is recorded before the sends, and a webhook or Telegram
message that fails is neither repeated nor does it let its successors through;
only the console, which is always there (`src/app/app.cpp:232`), has the alert
for certain.

*Rules.* `RulesAlerts`: any sequence of logs of all kinds, with data that is
short, odd, oversized or illegible; the oracle rule compares with the last valid
answer of the feed, amounts are the number in the log, thresholds are compared
as numbers (`ThresholdsHonoured`: above for most rules, from equality on for
mint and burn), a transfer is reported as a mint or burn or as a large transfer
according to its addresses, and one above its thresholds is
(`TransferReportedOnce`).

*Start and configuration.* `ConfigLoad` takes every text of up to four digits
through both parsers, every pair of rows of a few kinds through each loader, and
one fixed database through failures, kills and restarts:
* `RowsInEffect`: an enabled, well-formed row is in effect under the key its
  rule looks up, unless its own query failed or a row before it in its own table
  ended the loader; `NothingInvented`: what is in effect some row asks for. Two
  things make a rule watch something else, and both are in the models: a text
  that is no complete address, and a JSON `chain_id` that is no unsigned integer,
  which `src/app/app.cpp:353` casts to one;
* `BacktestAgrees`: rows a backtest accepts give the service the same tables, but
  for the differences the property names (`alert_on_infinite` left out, a `0X`
  prefix, bridge rules without a registry);
* `ReadyFileTruthful`: the readiness file is there only for a running service, or
  after one that was ready was killed or could not remove it; that the service
  could read all its tables it does not say;
* `SecretsHold`: with rows damaged and keys changed, a request is signed with the
  secret its customer holds, unsigned only where none was set up, and one row
  that does not open costs no other endpoint.

*Health.* `HealthProbes`: two requests at once, on a system clock that is set
back or forth; a stuck thread is noticed, not ready has one of five causes (a thread away from its loop, the database, another
request inside the same connection's transaction, a silent node, a system clock
set forward), ready means that every thread has begun to work, no probe sees a
pipeline half torn down. A ready service has heard from its node within
`rpc_max_silence_ms`, but for as much as the clock was set back since it started
(`RpcOutageNoticed`): the grace for a gauge that is still 0 never applies, since
the source's constructor has called the node, and only a success is dated.

The runs marked `violation` each state one sentence of the repository that the
code does not live up to; `findings` in `PROJECT.json` quotes it:

| Run | What the code does |
|---|---|
| `LiveRing` | the Stop pill comes from a second producer: a signal is lost or overtaken |
| `CheckpointFresh` | the checkpoint row is never advanced: a restart skips to the head |
| `RulesRemoved` | governance, mint/burn and oracle alerts are raised for removed logs |
| `RulesEquality` | a mint or burn of exactly its threshold is reported, where the README says "exceeds" |
| `BacktestDedup` | a replay deduplicates on the machine's clock: alerts hours apart on the chain become one line |

Read off the code while modelling it, without a run of its own:
* `request_stop` notifies without the mutex (`src/app/app.cpp:106`),
  `push_blocking` ignores `running_` (`src/events/EventSource.cpp:70`), `run()`
  sets `running_` (`src/risk/alert_dispatcher.cpp:69`): three exceptions of
  `ShutdownCompletes`; the others are `SELECT 1` without a timeout
  (`src/app/app.cpp:270`) and a stop of the HTTP server that does nothing until
  its thread listens (`src/health/health_server.cpp:64-77`).
* A readiness probe fails while another one is inside its transaction, a
  connection once lost is never reopened (`src/app/app.cpp:267-269`), and a
  thread inside a slow call looks stale: among the causes of `NoFalseAlarm`. A
  system clock set back hides a silent node for as long
  (`src/health/health_checks.cpp:75`): the allowance of `RpcOutageNoticed`.
* The source sets `last_processed_block`, before the engine has seen the
  batch; README.md:223 says "fully processed by the risk engine".
* `alerts_sent_total` counts sends whose HTTP error the channel swallowed.
* README.md:421-424 says too wide a range is retried without end; it is halved.
* `OracleUpdateRule` truncates to whole basis points.
* `nlohmann::json` casts a negative, fractional or boolean `chain_id` to
  `uint64_t` (`src/app/app.cpp:353`): the condition on chains in `Honours`.
* A row that does not parse ends the loader of its table and the service starts
  with the rows before it (`src/app/app.cpp:524`): the condition of `RowsInEffect`.
* A killed process leaves its readiness file, and so does one that cannot remove
  it (`src/app/app.cpp:938-949`): the conditions of `ReadyFileTruthful`. A service
  that could not read its tables writes it like any other.
* An RPC response that is not JSON is counted neither as success nor as error.

### Bounds

| Bound | Value | Why it is enough |
|---|---|---|
| `MaxHead`, `MaxLag` | 3-5 blocks, 1 | more than two ranges, a range that is halved, a head that moves while a batch is under way, a node one block short of it |
| `Logs` | 5-6, with blocks of none, one and two logs | batches abandoned before, at and after a block boundary |
| `RpcLimit` | 1-2 of 3-4 blocks | ranges that are refused, halved and accepted |
| `Capacity` | 2 | the ring is full, wraps around and is empty |
| `MaxSignals` | 3 | one signal in the engine, one in the ring, one at the producer |
| `MaxRestarts` | 1 | one crash at any point; after it the state is an initial one |
| `MaxTime` (dispatcher, report) | 3 | past the longest window of 2, and back |
| `CleanupEvery` | 2 | pruning between two alerts of one key; that the longest window is the right limit for pruning, by however little another one is shorter, is proved (`PruningIsInvisible`) |
| `MaxAlerts` | 3 | sent, suppressed, sent again; two alerts that differ in their chain only, and one without chain and token |
| `KeyOf` | `s \div 4` over `Firing`: signals 1 and 3 share a key, 5 (backtest) has its own | an alert that may be held back, and one that may not |
| `Nibble`, `Radix`, `WordWidth`, `AddressWidth` | 2, 3, 2, 1 (16, 10, 32, 20 in the code) | words of 0..15: texts that are too short, too long, odd and too large by one are all enumerated, and a carry passes both bytes |
| `scenario.faults`, `.starts`, `.provisions` | up to 2 each | a fault in one start and its consequence in the next; two rows of secrets, one of them damaged |
| `U32`, `U64` (rules) | 4, 65536 | answers and changes on both sides of each |
| `U64`, `Coerced` (start) | 4; a boolean and a fraction | a negative `chain_id` wraps, other values are cut |
| `MaxRetries` | 2 (15 in the code) | a retry that succeeds and one too many |
| `MaxBps`, `MaxDecimals` | 3, 2 | the ranges of the oracle rows, with both ends and one beyond each |
| `MaxTime`, `TickLength` (health) | 3, 2 | two instants, 1 and 3: a heartbeat of the present one is fresh (`HeartbeatMaxAge = 1`), one of the instant before is stale, and the node was silent for two seconds, one more than `RpcMaxSilence` |
| `Leads`, `MaxSets` | 0-1, 1 | the clock is set back or forward by one second, before, between and after a call: a silence of two is over the limit of `RpcOutageNoticed` all the same |
| `Probes`, `MaxCalls` (health) | 2, 1 | two requests at once; one call, answered or not, after the constructor's |
| `Threads` (health) | source and dispatcher | the engine's thread never calls out; as to heartbeats the three are alike |

Deadlock is not checked: every system here may come to rest - a stopped
process, an exhausted range, a clock at its bound. What must not come to rest
is stated as liveness instead.

### Fairness

* Threads are scheduled (weak fairness of each thread's steps): nothing in the
  code depends on priorities. Waits with a timeout end.
* `EventSource`: the engine drains the ring and the chain grows (weak). An RPC
  call retried without end succeeds in the end (strong fairness of the three
  calls, for ranges the node accepts): the loop retries for ever, and a node
  that never answers again delivers nothing whatever the code does.
* `LiveApp`: a probe whose query is answered at all comes back (weak); the hung
  one is the case in which it is not. The health server's thread gets to
  `listen()` (weak), at whatever time.
* No fairness on stop requests, failures, lags, timeouts, restarts or the clock.
* `RiskRules`, `Health`, `Startup` and the restarts are checked for safety only.

## 4. Modelling decisions

* Orderings weaker than sequential consistency are not modelled: the flags are
  atomics, and the ring's indices are released and acquired as its library
  requires for one producer. With two producers, what the model shows is only
  some of what the build may do.
* Two threads that use one `pqxx::connection` are a data race; the model takes
  the outcome that libpqxx documents, a refused second transaction. In `Health`
  a `SELECT 1` always ends; the one that does not is in `LiveApp`, where it
  matters to the shutdown.
* A node answers `getLogs` with an error, completely, or short by the blocks it
  does not have yet. A reorganisation shows in the `removed` flag of logs only.
* Seals are ideal: a ciphertext opens with its key and untouched, or not at all;
  an HMAC tells secrets apart. The length of the key and of the nonce are tested
  as in the code.
* The service's configuration rows keep the types of their columns; the JSON of
  `large_transfer` rows may have any type in any field. What a cast makes of a
  JSON number that is no 64-bit integer is the constant `Coerced`, any function
  into `uint64_t`: that covers a `double` beyond the range, whose cast is
  undefined in C++.
* httplib is modelled from its use: `stop()` takes effect on a listening server
  only, `listen()` does not remember an earlier `stop()`, and it returns when the
  requests it accepted are answered. In `Health`, whose properties are about
  requests, the server is stopped when it listens; the lost stop is in `LiveApp`.
* Hex texts keep their prefix and letter case: three tables are keyed by the
  text, three by its bytes, and which rows both parsers accept turns on them.
* Logging, message texts, JSON, histograms and the RPC counters are left out.
* Thresholds, amounts and answers of the rules are small numbers; the widths that
  matter (a data word, 64 bits) are constants.

## 5. Proofs

`tlapm <module>.tla` for each of the eight `*Proofs` modules checks them.
Assumptions are the named `ASSUME`s of the models, which TLC evaluates on every
run: logs are ordered by block; ranges, limits and capacities are positive; a
backtest's first block comes before its last; there is a longest window; a
channel is registered once; no chain or token is written as the text that stands
for none (`AlertsAssumption`); what a cast of a JSON number gives has 64 bits
(`JsonAssumption`); an idle loop is shorter than a heartbeat's age
(`HealthAssumption`); what a node answers has the types of the JSON-RPC
schema, thresholds are words, and a spike threshold has 32 bits; rows of the
database have the types of their columns and the defaults of absent fields the
types of those (`RowsAssumption`, `DefaultsAssumption`), and the values that
stand for an exception, a skipped row, a NULL or a refused secret are none of the
values they are told apart from (`ThrowsAssumption`, `OutcomeAssumption`,
`SecretsAssumption`). How many rows there are, and in which order good, bad and
disabled ones come, is not assumed.

*Event source* (`EventSourceProofs`). `NothingSkipped`, `RepeatsOnlyAfterAbort`,
`NeverPastHead` and `BacktestExact` are not inductive. `IInv` adds `BatchInv` -
a batch in flight is what remains of its range, the rest of that range was
pushed or missed, and a log at or past the cursor that was pushed belongs to the
batch in flight or to an abandoned one - and `StartInv`, which ties the cold
start to an empty history and the exit to an exhausted range. With
`MalformedInv` (no malformed log was or is about to be pushed)
`MalformedHoldsUp` shows that nothing passes a log that cannot be normalized;
with `OrderInv`, on a chain without such logs, `EachLogOnce` shows that nothing
is pushed twice. The hypothesis is needed: a batch abandoned at a malformed log
is pushed again from its start, without end. `Refinement` maps every step to a
step of `BlockFeed` or a stutter.

*Deduplicator and dispatcher* (`AlertDispatcherProofs`). The deduplicator's
`IInv` says that the table holds, for each key, the time it was last let
through, unless that entry was prunable at the latest reading of the clock. From
it follow `NoUnjustifiedSuppression`, `DuplicatesAreSpaced` and
`PruningIsInvisible`, the refinement of `AlertWindow`, on any clock.
`DispatcherInv` places every alert - queued, in hand, suppressed or completed -
at each step of the dispatcher's thread, and counts per channel what the loop
over the channels has done for the alert in hand; `NoAlertLost`,
`CountersAreExact` and `StopLeavesNothing` follow. `UsesDeduplicator` shows that
the dispatcher's steps are steps of the deduplicator or leave it alone, so that
its results hold in the composition (`DispatcherSpacesDuplicates`,
`DispatcherKeepsPromise`). `SuppressedWasSent` needs both sides: `Traced` says
that a key the deduplicator has let through is the key of an item completed or
just being offered, so that at the next question, when nothing is being offered,
it is of one completed (`DuplicatesWereSent`).

*Ring, engine and alerts* (`PipelineProofs`, lemmas). For a ring of any size: the
slots between the two indices, read around the end, are the signals not yet
popped; a stale cached index errs on the safe side only; publishing appends one
signal and popping removes the first. The alerts of a sequence of signals
(`AlertsOf`, a recursive function over its length) grow by at most the last one.
Between `front` and `pop` the signal at the front stays there, whatever the
producers do (`FrontSeen`). Each alert taken off the queue but the one in hand
was offered, or follows one with its key that was (`SettledSoFar`); when the
dispatcher is at rest that is all of them (`SettledAtRest`).

*Live application* (`LiveAppProofs`). `IInv` describes, as long as the two
producers have not collided, the stream of signals the ring holds and where the
pill is in it, and, always, that the alerts queued and taken are those of the
signals processed, and how far threads are when the script has come to
each of its steps. `RingIsIntactUnlessRaced`, `PillWaitsForSignals`,
`NoAlertUnhandled` and `GaugeFollowsRing` follow; the latter counts the signal in
hand between the gauge's step and the pop (`GaugeAtPop`).

*Backtest* (`BacktestRunProofs`). `ImplementsSource` maps the ring's three steps
to the source's one: the source's `out_` is the number of signals in the ring,
which publishing and popping change by one. `IInv` adds to the ring's and the
script's invariants those of `EventSourceProofs` under that mapping.
`BacktestIsExact` and `AlertsSurviveTimeouts` hold without hypothesis;
`EngineSeesChainOrder` and `ReportIsComplete` for a range without malformed logs,
on which a backtest does not end and the engine sees logs again.

*Conversions* (`ConversionsProofs`). The value of a word's bytes is
the value of its hex digits (`HexValue`), the first byte that differs decides
which of two words denotes more (`GreaterIsGreater`), the long division of
`uint256_be_to_decimal` divides the number (`DivModDivides`), and its digits
denote what they were made from (`DecimalDenotes`), for every width and radix.
The other way, one round of `decimal_to_be_256` multiplies by the radix and adds
a digit, and the carry that is left says whether that still fits
(`MulAddDenotes`); hence the loop returns the word its text denotes and throws
exactly when there is none: `DecimalToWord`. `SpelledIsParsed`: the bytes a hex
text spells are the bytes `parse_hex_bytes` returns.

*Rules* (`RiskRulesProofs`). `FeedInv` says that the oracle
rule's map holds, of every feed, the last valid answer shown; with `DivAbove` and
`SpikeIsExact` (what the division and the saturation of the basis points leave
out never decides) it gives `SpikesAreReal`. The other three rest on what the
conversions denote, and on the digits of `to_string` (`ToStringDenotes`). With
them `ThresholdsAreNumbers`, `TransfersAreReportedOnce` and `AmountsAreExact` are
a matter of the cases of `normalize`, which exclude one another
(`NormalizeCases`): the kind of a transfer's alert is the kind of its addresses
(`RightKind`), and above the thresholds there is one (`DueIsReported`).

*Start and configuration* (`ServiceProofs`). `PhaseInv` types the phases of the
start; with it `ReadyFileIsTruthful` follows from where the file is written and
what the two ways to leave it behind record. The tables are argued in three
layers:
* one row: for each of the seven loaders, a well-formed row becomes a
  configuration that honours it, a row that becomes a configuration is honoured
  by it, and a row that spoils the loader is the only kind that throws
  (`EveryRowTaken`, `RegistryTaken`); both parsers make the same of a row the
  backtest accepts, but for the differences `Plain` names (`YamlAgrees`);
* one table of any length: what is kept are configurations of rows in their order
  (`KeptElements`), up to the row that ends the loader (`LoadedHonours`,
  `LoadedInEffect`), and the two programs keep the same (`TablesAgree`);
* the process: `RowsInEffect` and the others are not inductive, because they say
  nothing of a start that is still under way. `TablesInv` does: a table is empty
  or all its loader makes of its rows, and the latter once that loader has run
  and its query has not failed, through faults, kills and restarts. `BacktestInv`
  says that a backtest that succeeded has taken every row it was given.

`RowsAreInEffect`, `NothingIsInvented` and `BacktestsAgree` follow from
`ConfigInv`, their conjunction.

*Secrets* (`ServiceProofs`). `RowsInv` describes what the admin tool wrote:
each row is NULL or a seal of the secret its customer was told, under the key of
that moment, unless it was damaged since, and an endpoint has one row.
`WebhooksInv` says that the running service holds exactly what opens of those
rows under its key, or nothing after a failed query. That a row which opens gives
the secret its customer holds (`OpenedRow`), and that each endpoint comes from a
row of its own (`EndpointsOfRows`), then give `SecretsAreHeld`.

*Health* (`ServiceProofs`). `HealthInv` ties what each request has concluded so
far to what it read and when; the heartbeat properties follow. `RpcInv` ties the
gauge to the two clocks: the date it holds is ahead of what the system clock now
says of that moment by no more than the clock has been set back, and there is
one before the server can be asked. So a request whose check passed has heard
from the node within the limit, but for what was set back (`OutagesAreNoticed`),
and one whose check failed has the node's silence or a clock set forward recorded
as its cause (`AlarmsHaveCauses`).

*Induction over data.* The library's induction theorems take an operator, which
the provers cannot instantiate. The proofs use `LeastElement` instead: the set of
counterexamples, if it is not empty, has a least member, and the case before it
is none. The same argument shows that a recursive function satisfies its own
equation (`AlertsUpToExists`, `ValueExists`, `RestExists`, `DigitsExist`), once
and for all for loops whose step is given as a function (`RecursionExists`, and
`Induction` over a set in the place of a predicate). The loops that build tables
and words are written as recursive functions for that reason (`ChosenUpTo`,
`CarryUpTo`, `ResultUpTo`).
`RECURSIVE` operators are not used.

*Only model-checked.* Liveness (`EveryLogDelivered`, `StopEndsRun`,
`EndsUnlessStopOverwritten`, `ShutdownCompletes`, `EveryAlertHandled`): fairness
and `ENABLED` are beyond the prover. Every safety invariant of a passing run is
stated by a theorem.

## 6. Scope

Modelled: every component of section 1 whose state the program reads back, in
the order of section 2, which is that of importance - the feed, the
deduplicator, the threads and their shutdown, the dispatcher, the rules, health,
and the start with its configuration.

### Not modelled

* Alert formatting (`src/risk/alert_formatter.cpp`): wording and layout only;
  nothing reads a message back.
* Metrics and logging: registration of series, histograms and sinks. The gauges
  and counters that the program reads, or whose sums mean something, are
  variables of the components that set them. The RPC counters are not: an answer
  that is not JSON is counted neither as success nor as error
  (`src/rpc/JsonRpcClient.cpp:124`), which is a defect of a display only.
* Building and parsing of HTTP requests and JSON, in the adapters, the RPC client
  and the channels: libraries, no state. Their failures are outcomes of the
  actions that call them.
* `upsert_checkpoint` and `to_be_256` have no caller in the program.
