------------------------------ MODULE Startup ------------------------------
(***************************************************************************)
(* From main() to a running service, or out again: App::run up to its wait *)
(* (src/app/app.cpp: init_db_, init_modules_, register_rules_,             *)
(* start_threads_, the readiness file) over the rows of configuration      *)
(* (RuleTables) and the webhook secrets (Secrets), with starts that fail,  *)
(* connections that break on the way and processes that are killed; and    *)
(* the backtest of src/main.cpp over the same rows.  The shutdown itself   *)
(* is module LiveApp's.                                                    *)
(***************************************************************************)
EXTENDS RuleTables, Secrets

CONSTANTS CommonRows,    \* rows of every table
          Scenarios,     \* what differs: the rows of one table; the keys to begin
                         \* with; headers of a backtest's document; and the
                         \* bounds: faults, starts, provisions
          MaxRetries     \* connection attempts: 15

ASSUME RowsAssumption ==
  /\ CommonRows = [t \in Tables |-> CommonRows[t]]
  /\ \A t \in Tables : CommonRows[t] \in Seq(TableRow(t))
  /\ \A s \in Scenarios : s.table \in Tables /\ s.rows \in Seq(TableRow(s.table))

VARIABLES scenario,      \* which of them this is; never changes
          phase,         \* how far the process has come; "down": none runs
          exitCode,      \* of the last process that ended; -1: none, or killed
          retries, conn, \* attempts left, and conn_
          at,            \* which loader is next
          tables,        \* the rules' tables
          customer_webhooks_,
          health_server_,  \* the health server is up
          readyFile,     \* the readiness file exists
          lost,          \* history: tables lost to an SQL error or a broken connection
          leftBehind,    \* history: a ready process was killed, or could not remove the
                         \* file, since the last clean end
          budget,        \* starts and faults left
          backtest       \* exit code and tables of a backtest of the same rows

processVars == <<phase, exitCode, retries, conn, at, tables, customer_webhooks_,
                 health_server_, readyFile, lost, leftBehind>>
vars == <<scenario, processVars, budget, backtest, secretVars>>

database == [CommonRows EXCEPT ![scenario.table] = scenario.rows]

\* The order of init_modules_; large_transfer follows in register_rules_, and
\* the registry and the bridge rules share a transaction.
LoadOrder == <<"customers", "governance", "mint_burn", "approval", "bridge", "oracle", "webhooks">>

NoTables   == [t \in Tables |-> << >>]
Nothing    == [t \in Tables \cup {"webhooks"} |-> "no"]
NoBacktest == [exit |-> -1, tables |-> NoTables]

Init ==
  /\ scenario \in Scenarios
  /\ phase = "down" /\ exitCode = -1 /\ retries = 0 /\ conn = "none" /\ at = 0
  /\ tables = NoTables /\ customer_webhooks_ = << >>
  /\ health_server_ = FALSE /\ readyFile = FALSE /\ lost = Nothing /\ leftBehind = FALSE
  /\ budget = [starts |-> scenario.starts, faults |-> scenario.faults]
  /\ backtest = NoBacktest
  /\ SecretsInit /\ masterKey \in scenario.keys
----------------------------------------------------------------------------
(* Before the process starts *)

Elsewhere == UNCHANGED <<scenario, budget, backtest>>
Down      == phase = "down"

\* A step that may go wrong spends a fault when it does.
Fault(ok) == /\ ok \/ budget.faults > 0
             /\ budget' = IF ok THEN budget ELSE [budget EXCEPT !.faults = @ - 1]

\* Rows are provisioned, damaged and the key is changed between processes:
\* a running one has read them already.
Provision ==
  /\ Down /\ Len(webhookRows) < scenario.provisions
  /\ \E customer \in Owners, url \in Urls :
       \/ \E s \in {Secret("given", n) : n \in GivenSecrets} \cup {Empty} : EncryptSecret(customer, url, s)
       \/ InsertUnsigned(customer, url)
  /\ UNCHANGED <<processVars>> /\ Elsewhere

Mishap ==
  /\ Down /\ scenario.provisions > 0 /\ budget.faults > 0
  /\ budget' = [budget EXCEPT !.faults = @ - 1]
  /\ ChangeKey \/ \E i \in DOMAIN webhookRows : DamageRow(i)
  /\ UNCHANGED <<scenario, processVars, backtest>>

\* main(): sentinel backtest config.yaml, with the enabled rows as its items.
\* A node that does not tell its chain id or a report that cannot be opened
\* ends it before any thread runs.  It shares nothing with the service; it is
\* taken before the first start.
Backtest(header, opened) ==
  LET cfg == load_backtest_config(header, [t \in Tables |-> Selected(t, database[t])])
  IN  /\ Down /\ backtest = NoBacktest /\ budget.starts = scenario.starts
      /\ Fault(opened)
      /\ backtest' = IF cfg = Throws THEN [exit |-> 4, tables |-> NoTables]
                     ELSE IF ~header.rpc_url THEN [exit |-> 3, tables |-> NoTables]
                     ELSE IF ~opened THEN [exit |-> 4, tables |-> NoTables]
                     ELSE [exit |-> 0, tables |-> cfg]
      /\ UNCHANGED <<scenario, processVars, secretVars>>
----------------------------------------------------------------------------
(* App::run *)

Still == UNCHANGED <<scenario, backtest, secretVars>>

Start == /\ Down /\ budget.starts > 0
         /\ budget' = [budget EXCEPT !.starts = @ - 1]
         /\ phase' = "connect" /\ retries' = MaxRetries /\ conn' = "none"
         /\ tables' = NoTables /\ customer_webhooks_' = << >>
         /\ health_server_' = FALSE /\ lost' = Nothing /\ at' = 1
         /\ UNCHANGED <<exitCode, readyFile, leftBehind>> /\ Still

\* run() returns before it has started any thread.
GiveUp(code) == /\ phase' = "down" /\ exitCode' = code /\ conn' = "none"
                /\ UNCHANGED <<retries, at, tables, customer_webhooks_, health_server_,
                               readyFile, lost, leftBehind>>

Advance(to) == /\ phase' = to
               /\ UNCHANGED <<exitCode, at, tables, customer_webhooks_, health_server_,
                              readyFile, lost, leftBehind>>

\* init_db_: DATABASE_URL is empty.
NoDatabaseUrl == /\ phase = "connect" /\ retries = MaxRetries /\ Fault(FALSE)
                 /\ GiveUp(2) /\ Still

\* One of the attempts to connect.
Connect(ok) ==
  /\ phase = "connect" /\ Fault(ok)
  /\ IF ok THEN Advance("checkpoint") /\ conn' = "open" /\ UNCHANGED retries
     ELSE IF retries = 1 THEN GiveUp(2)
     ELSE Advance("connect") /\ retries' = retries - 1 /\ UNCHANGED conn
  /\ Still

\* ensure_schema and get_or_init_checkpoint.
ReadCheckpoint(ok) ==
  /\ phase = "checkpoint" /\ Fault(ok)
  /\ IF ok THEN Advance("modules") /\ UNCHANGED <<retries, conn>> ELSE GiveUp(2)
  /\ Still

\* init_modules_ up to the loaders: no RPC_URL, an unknown chain, a metrics
\* port in use or a node that does not tell its chain id throw.
BuildModules(ok) ==
  /\ phase = "modules" /\ Fault(ok)
  /\ IF ok THEN Advance("load") /\ UNCHANGED <<retries, conn>> ELSE GiveUp(3)
  /\ Still

Rows(t) == database[t]

\* What the loader of t leaves, by how its query went: "ok", or an SQL error,
\* or a connection that breaks or is broken already.
Loaded(t, went) == IF went # "ok" THEN << >>
                   ELSE IF t = "bridge" THEN load_bridge_rules(database)
                   ELSE load_configs(t, Rows(t))

Went(went) == /\ went = "ok"   => conn = "open"
              /\ went = "sql"  => conn = "open"
              /\ Fault(went = "ok" \/ (went = "conn" /\ conn = "broken"))
              /\ conn' = IF went = "conn" THEN "broken" ELSE conn

\* Each loader catches what its query throws and the start goes on.
LoadTable(t, went) ==
  /\ phase = "load" /\ t = LoadOrder[at] /\ t \notin {"bridge", "webhooks"}
  /\ Went(went)
  /\ tables' = [tables EXCEPT ![t] = Loaded(t, went)]
  /\ lost' = IF went = "ok" THEN lost ELSE [lost EXCEPT ![t] = went]
  /\ at' = at + 1
  /\ UNCHANGED <<phase, exitCode, retries, customer_webhooks_, health_server_, readyFile, leftBehind>>
  /\ Still

\* Two queries: the registry may be read and the rules not.
LoadBridge(first, second) ==
  /\ phase = "load" /\ LoadOrder[at] = "bridge"
  /\ first # "ok" => second = first
  /\ Went(IF first = "ok" THEN second ELSE first)
  /\ tables' = [tables EXCEPT !["bridge_contracts"] = Loaded("bridge_contracts", first),
                              !["bridge"] = Loaded("bridge", second)]
  /\ lost' = [lost EXCEPT !["bridge_contracts"] = IF first = "ok" THEN @ ELSE first,
                          !["bridge"] = IF second = "ok" THEN @ ELSE second]
  /\ at' = at + 1
  /\ UNCHANGED <<phase, exitCode, retries, customer_webhooks_, health_server_, readyFile, leftBehind>>
  /\ Still

\* Without a usable key there is no query that could fail.
LoadWebhooks(went) ==
  /\ phase = "load" /\ LoadOrder[at] = "webhooks"
  /\ IF parse_master_key_hex(masterKey)
     THEN /\ Went(went)
          /\ customer_webhooks_' = IF went = "ok" THEN load_webhook_channels(webhookRows) ELSE << >>
          /\ lost' = IF went = "ok" THEN lost ELSE [lost EXCEPT !["webhooks"] = went]
     ELSE went = "ok" /\ UNCHANGED <<budget, conn, customer_webhooks_, lost>>
  /\ phase' = "register"
  /\ UNCHANGED <<exitCode, retries, at, tables, health_server_, readyFile, leftBehind>>
  /\ Still

\* register_rules_ loads the last table, then every rule is registered.
RegisterRules(went) ==
  /\ phase = "register"
  /\ Went(went)
  /\ tables' = [tables EXCEPT !["large_transfer"] = Loaded("large_transfer", went)]
  /\ lost' = IF went = "ok" THEN lost ELSE [lost EXCEPT !["large_transfer"] = went]
  /\ phase' = "threads"
  /\ UNCHANGED <<exitCode, retries, at, customer_webhooks_, health_server_, readyFile, leftBehind>>
  /\ Still

\* start_threads_: a health server that cannot listen is done without.
StartThreads(ok) ==
  /\ phase = "threads" /\ Fault(ok)
  /\ health_server_' = ok /\ phase' = "started"
  /\ UNCHANGED <<exitCode, retries, conn, at, tables, customer_webhooks_, readyFile, lost, leftBehind>>
  /\ Still

\* Nobody looks whether the file could be written.
WriteReadinessFile(ok) ==
  /\ phase = "started" /\ phase' = "running" /\ Fault(ok)
  /\ readyFile' = (readyFile \/ ok)
  /\ UNCHANGED <<exitCode, retries, conn, at, tables, customer_webhooks_, health_server_,
                 lost, leftBehind>>
  /\ Still

\* A stop: the threads are joined and the process ends, whatever becomes of
\* the file.
Ended == /\ phase = "running" /\ phase' = "down" /\ exitCode' = 0
         /\ health_server_' = FALSE /\ conn' = "none"
         /\ UNCHANGED <<retries, at, tables, customer_webhooks_, lost>> /\ Still

\* Fault: an orderly stop leaves the readiness file.
Stop_LeavesFile(removed) == Ended /\ Fault(removed) /\ leftBehind' = FALSE /\ UNCHANGED readyFile

\* remove_readiness_file_: a removal that fails is logged, and the file stays.
Stop(removed) == /\ Ended /\ Fault(removed)
                 /\ readyFile' = IF removed THEN FALSE ELSE readyFile
                 /\ leftBehind' = readyFile'

\* The process is killed: nothing is cleaned up.
Kill == /\ ~Down /\ Fault(FALSE)
        /\ phase' = "down" /\ exitCode' = -1 /\ conn' = "none" /\ health_server_' = FALSE
        /\ leftBehind' = (leftBehind \/ phase = "running")
        /\ UNCHANGED <<retries, at, tables, customer_webhooks_, readyFile, lost>>
        /\ Still

Outcome == {"ok", "sql", "conn"}

Next == \/ Provision \/ Mishap \/ Start \/ NoDatabaseUrl \/ Kill
        \/ \E ok \in BOOLEAN : \/ \E header \in scenario.documents : Backtest(header, ok)
                               \/ Connect(ok) \/ ReadCheckpoint(ok)
                               \/ BuildModules(ok) \/ StartThreads(ok)
                               \/ WriteReadinessFile(ok) \/ Stop(ok)
        \/ \E went \in Outcome : \/ \E t \in Tables : LoadTable(t, went)
                                 \/ \E first \in Outcome : LoadBridge(first, went)
                                 \/ LoadWebhooks(went) \/ RegisterRules(went)

Spec == Init /\ [][Next]_vars
----------------------------------------------------------------------------
(* Properties *)

Running == phase = "running"
Owned(t) == Selected(t, Rows(t))

\* What a row says, in the reference's terms: the address its text spells, in
\* whatever letter case, and numbers.
Spells(text, bytes) == text.prefix = "0x" /\ text.digits = hex_text(bytes).digits

ChainOf(t, row)     == IF t = "large_transfer" THEN Or(row.chain_id, DefaultChain) ELSE row.chain_id
AddressOf(t, row)   == IF t = "large_transfer" THEN Or(row.address, DefaultToken) ELSE row.address
ThresholdOf(t, row) == IF t = "large_transfer" THEN Or(row.threshold, DefaultThreshold) ELSE row.threshold

WellFormed(t, row) ==
  /\ t = "large_transfer" => row.chain_id # WrongType /\ row.address # WrongType /\ row.threshold # WrongType
  /\ ChainOf(t, row) \in Nat
  /\ \E bytes \in Address : Spells(AddressOf(t, row), bytes)
  /\ t \in {"large_transfer", "approval", "bridge"} => Fits(ThresholdOf(t, row))
  /\ t = "mint_burn" => Fits(row.mint_threshold) /\ Fits(row.burn_threshold)
  /\ t = "oracle" => row.bps \in 1..MaxBps /\ row.decimals \in 0..MaxDecimals

\* The row that would end its table's loader early.
Spoils(t, row) == CASE t = "large_transfer" -> FALSE
                    [] t \in {"governance", "oracle"} -> row.chain_id < 0
                    [] OTHER -> ~WellFormed(t, row)

\* How the rule of the table looks a log's address up.
LooksUp(t, bytes) == IF t \in {"governance", "mint_burn", "approval"} THEN hex_text(bytes) ELSE bytes

SameNumbers(t, cfg, row) ==
  /\ t \in {"large_transfer", "approval", "bridge"} =>
       Denotes(Byte, cfg.threshold) = Denotes(Radix, ThresholdOf(t, row))
  /\ t = "mint_burn" => /\ Denotes(Byte, cfg.mint_threshold) = Denotes(Radix, row.mint_threshold)
                        /\ Denotes(Byte, cfg.burn_threshold) = Denotes(Radix, row.burn_threshold)
  /\ t = "oracle" => cfg.spike_threshold_bps = row.bps /\ cfg.decimals = row.decimals

\* The configuration is this row's, and it watches the chain the row names and
\* the address it spells, where they are a chain id and a complete address.
Honours(t, cfg, row) ==
  /\ cfg.customer_id = row.customer_id
  /\ ChainOf(t, row) \in Nat => cfg.chain_id = ChainOf(t, row)
  /\ SameNumbers(t, cfg, row)
  /\ \A bytes \in Address : Spells(AddressOf(t, row), bytes) => cfg.key = LooksUp(t, bytes)

Readable(t) == /\ lost[t] = "no"
               /\ t = "bridge" => /\ lost["bridge_contracts"] = "no"
                                  /\ Owned("bridge_contracts") # << >>
                                  /\ \A i \in DOMAIN Owned("bridge_contracts") :
                                       WellFormed("bridge_contracts", Owned("bridge_contracts")[i])

\* README: "All rule configs are loaded from PostgreSQL at startup".  In a
\* running service every enabled and well-formed row is in effect, under the
\* key its rule looks logs up by, unless its query failed or a row before it
\* in the same table ended the loader: nothing in one table, and no bad
\* large_transfer or oracle row, costs any other row.
RowsInEffect ==
  Running => \A t \in RuleTypes : Readable(t) =>
    \A i \in DOMAIN Owned(t) :
      WellFormed(t, Owned(t)[i]) /\ (\A j \in 1..(i - 1) : ~Spoils(t, Owned(t)[j]))
        => \E k \in DOMAIN tables[t] : Honours(t, tables[t][k], Owned(t)[i])

\* No configuration is in effect that no row asks for: the thresholds are the
\* numbers the texts denote - none is cut to fit 256 bits - and what is
\* watched is what is written.  Two things can make a rule watch something
\* else: a text that is no complete address, and a JSON chain_id that is no
\* unsigned integer, which is cast to one.
NothingInvented ==
  \A t \in RuleTypes : \A k \in DOMAIN tables[t] :
    \E i \in DOMAIN Owned(t) : Honours(t, tables[t][k], Owned(t)[i])

\* The readiness file outlives its service only when a process that was ready
\* has been killed, or could not remove it at its stop; a start that fails, at
\* whatever step, leaves none.  It does not say that every table was read.
ReadyFileTruthful == readyFile => Running \/ leftBehind

\* The rows a backtest accepts give the live service the same tables.  Two
\* things differ: an approval row that leaves alert_on_infinite out, and a
\* large_transfer address that begins with 0X, which only the backtest takes;
\* and the live service does not read bridge rules without a registry.
Plain(t, row) == /\ t = "approval" => row.alert_on_infinite # Missing
                 /\ t = "large_transfer" => row.address = Missing \/ row.address.prefix # "0X"
BacktestAgrees ==
  Running /\ backtest.exit = 0 => \A t \in RuleTypes :
    /\ lost[t] = "no" /\ \A i \in DOMAIN Owned(t) : Plain(t, Owned(t)[i])
    /\ t = "bridge" => tables["bridge_contracts"] # << >>
    => tables[t] = backtest.tables[t]

\* Every request to an endpoint is signed with the secret its customer was
\* given, and goes unsigned only where none was ever set up - however rows
\* were damaged and the key changed; and no other row's damage costs an
\* endpoint that can still be opened.
RowOf(e) == CHOOSE i \in DOMAIN webhookRows :
  webhookRows[i].customer_id = e.customer_id /\ webhookRows[i].url = e.url
Endpoints == {customer_webhooks_[k] : k \in DOMAIN customer_webhooks_}
SecretsHold ==
  Running =>
    /\ \A e \in Endpoints :
         IF webhookRows[RowOf(e)].hmac_secret_encrypted = Null THEN signature(e) = Unsigned
         ELSE signature(e) # Unsigned /\ signature(e) = hmac_sha256_hex(told[RowOf(e)].secret)
    /\ lost["webhooks"] = "no" /\ parse_master_key_hex(masterKey) =>
         \A i \in DOMAIN webhookRows \ damaged :
           webhookRows[i].hmac_secret_encrypted = Null \/ told[i].key = masterKey
             => \E e \in Endpoints : RowOf(e) = i
=============================================================================
