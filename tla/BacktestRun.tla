---------------------------- MODULE BacktestRun ----------------------------
(***************************************************************************)
(* BacktestApp::run (src/backtest/backtest_app.cpp) from the start of the  *)
(* threads: wait for the source, push the Stop pill, wait for the engine   *)
(* to drain, stop and join the engine, then stop and join the dispatcher.  *)
(*                                                                         *)
(* The source is EventSource itself, composed with the ring, the engine    *)
(* and the dispatcher of Pipeline: the push EventSource takes in one step  *)
(* is the three steps of SpscRing here, and its count of signals in the    *)
(* ring is what lies between the ring's indices.                           *)
(***************************************************************************)
EXTENDS Pipeline, SequencesExt

CONSTANTS Logs, BlockOf, Malformed, Unparsable, StartBlock, BacktestEnd,
          MaxBlockRange, RpcLimit, MaxLag, MaxHead

ASSUME BacktestAssumption == Logs = Signals /\ ~Metrics

\* EventSource's assumptions on the chain and the configuration, of a backtest.
ASSUME SourceAssumption ==
  /\ Malformed \subseteq Logs /\ Unparsable \subseteq Logs
  /\ BlockOf \in [Logs -> Nat]
  /\ \A k, l \in Logs : k < l => BlockOf[k] <= BlockOf[l]
  /\ StartBlock \in Nat /\ BacktestEnd \in Nat /\ StartBlock < BacktestEnd
  /\ MaxBlockRange \in Nat \ {0} /\ RpcLimit \in Nat \ {0}
  /\ MaxLag \in Nat /\ MaxHead \in Nat

VARIABLES pc, running_, next_block_, cold_start_, cached_chain_head_, range,
          batch, head, origin, delivered, repeated, exposed, missed,
          spc,       \* where the source is within try_push
          mpc,       \* where the main thread is
          timedOut   \* history: one of the two 30-second waits ran out

sourceVars == <<pc, running_, next_block_, cold_start_, cached_chain_head_, range,
                batch, head, origin, delivered, repeated, exposed, missed>>
mainVars   == <<mpc, timedOut>>
vars       == <<pipelineVars, sourceVars, spc, mainVars>>

SignalsWaiting == Cardinality({i \in DOMAIN Waiting : Waiting[i] # Pill})

Src == INSTANCE EventSource WITH out_ <- SignalsWaiting

Init == /\ PipelineInit /\ Src!Init
        /\ spc = "idle" /\ mpc = "joinSource" /\ timedOut = FALSE
----------------------------------------------------------------------------
(* The source thread *)

SourcePoll == /\ UNCHANGED <<pipelineVars, spc, mainVars>>
              /\ Src!Poll

\* Fault: the index is taken without a look at the room there is.
SourceLoad_NoRoomCheck ==
  /\ pc = "push" /\ spc = "idle"
  /\ loaded' = [loaded EXCEPT !["source"] = writeIdx_]
  /\ spc' = "write"
  /\ UNCHANGED <<slots, writeIdx_, readIdx_, readIdxCache_, writeIdxCache_,
                 engineVars, depth, alertVars, sourceVars, mainVars>>

\* push_blocking: try again until there is room.
SourceLoad == /\ pc = "push" /\ spc = "idle"
              /\ LoadIndex("source")
              /\ spc' = "write"
              /\ UNCHANGED <<engineVars, depth, alertVars, sourceVars, mainVars>>

SourceWrite == /\ spc = "write"
               /\ \E l \in Logs : Src!IsFirst(l) /\ ConstructSlot("source", l)
               /\ spc' = "publish"
               /\ UNCHANGED <<engineVars, depth, alertVars, sourceVars, mainVars>>

SourcePublish == /\ spc = "publish"
                 /\ PublishIndex("source")
                 /\ spc' = "idle"
                 /\ \E l \in Logs : Src!PushLog(l)
                 /\ UNCHANGED <<engineVars, depth, alertVars, mainVars>>

Source == SourcePoll \/ SourceLoad \/ SourceWrite \/ SourcePublish

\* External: the chain grows.
NewBlock == /\ UNCHANGED <<pipelineVars, spc, mainVars>>
            /\ Src!NewBlock
----------------------------------------------------------------------------
(* The main thread *)

others == <<pipelineVars, sourceVars, spc>>

\* A step of the script that changes nothing but the main thread's place.
Goto(from, to) == mpc = from /\ mpc' = to

\* Faults: a join or a wait that does not wait.
JoinSource_NoWait == Goto("joinSource", "pill") /\ UNCHANGED <<others, timedOut>>
Drained_NoWait    == Goto("drain", "stopEngine") /\ UNCHANGED <<others, timedOut>>
JoinEngine_NoWait == Goto("joinEngine", "stopDispatcher") /\ UNCHANGED <<others, timedOut>>

JoinSource == /\ pc = "done" /\ Goto("joinSource", "pill")
              /\ UNCHANGED <<others, timedOut>>

PillLoad == /\ LoadIndex("main") /\ Goto("pill", "pillWrite")
            /\ UNCHANGED <<engineVars, depth, alertVars, sourceVars, spc, timedOut>>

PillWrite == /\ ConstructSlot("main", Pill) /\ Goto("pillWrite", "pillPublish")
             /\ UNCHANGED <<engineVars, depth, alertVars, sourceVars, spc, timedOut>>

PillPublish == /\ PublishIndex("main") /\ Goto("pillPublish", "drain")
               /\ UNCHANGED <<engineVars, depth, alertVars, sourceVars, spc, timedOut>>

\* kDrainTimeout passes with the ring full: the drain wait follows anyway.
PillTimeout == /\ ~HasRoom /\ Goto("pill", "drain")
               /\ timedOut' = TRUE
               /\ UNCHANGED others

Drained == /\ finished_ /\ Goto("drain", "stopEngine")
           /\ UNCHANGED <<others, timedOut>>

DrainTimeout == /\ ~finished_ /\ Goto("drain", "stopEngine")
                /\ timedOut' = TRUE
                /\ UNCHANGED others

StopEngine == /\ Goto("stopEngine", "joinEngine")
              /\ engineRunning' = FALSE
              /\ UNCHANGED <<epc, finished_, drain_mode, signal, processed, ringVars,
                             depth, alertVars, sourceVars, spc, timedOut>>

JoinEngine == /\ epc = "done" /\ Goto("joinEngine", "stopDispatcher")
              /\ UNCHANGED <<others, timedOut>>

StopDispatcher == /\ DispatcherStop /\ Goto("stopDispatcher", "joinDispatcher")
                  /\ UNCHANGED <<ringVars, engineVars, depth, taken, offered, sourceVars, spc, timedOut>>

JoinDispatcher == /\ dpc = "done" /\ Goto("joinDispatcher", "returned")
                  /\ UNCHANGED <<others, timedOut>>

Main == \/ JoinSource \/ PillLoad \/ PillWrite \/ PillPublish \/ PillTimeout
        \/ Drained \/ DrainTimeout \/ StopEngine \/ JoinEngine
        \/ StopDispatcher \/ JoinDispatcher

Engine     == EngineStep /\ UNCHANGED <<sourceVars, spc, mainVars>>
Dispatcher == DispatcherStep /\ UNCHANGED <<sourceVars, spc, mainVars>>

Next == Source \/ NewBlock \/ Engine \/ Dispatcher \/ Main

\* Every thread is scheduled; every wait is woken or times out; the chain
\* grows and an RPC call retried for ever is answered in the end.
AnsweredRefresh == UNCHANGED <<pipelineVars, spc, mainVars>> /\ Src!RefreshHead(head)
AnsweredStart   == UNCHANGED <<pipelineVars, spc, mainVars>> /\ Src!ColdStart(head)
AnsweredLogs    == UNCHANGED <<pipelineVars, spc, mainVars>> /\ Src!GetLogs(head)
Spec == Init /\ [][Next]_vars
             /\ WF_vars(Source) /\ WF_vars(Engine) /\ WF_vars(Dispatcher) /\ WF_vars(Main)
             /\ WF_vars(NewBlock) /\ SF_vars(AnsweredRefresh)
             /\ SF_vars(AnsweredStart) /\ SF_vars(AnsweredLogs)
----------------------------------------------------------------------------
(* Properties *)

\* EventSourceConfig: a backtest "processes [start_block, backtest_end_block]
\* inclusive and then exits run() cleanly".  The property of EventSource, of
\* the source at work in the pipeline.
BacktestExact == Src!BacktestExact

\* The composition implements EventSource, whose one-step push this justifies:
\* the three steps of try_push take effect when the index is published, never
\* beyond the ring's capacity, and the engine's pop is the drain it assumes.
ImplementsEventSource == Src!Spec

\* With the source joined before the pill is pushed the ring never has two
\* producers at work: the engine sees what the source pushed, each signal once
\* and in order, up to those that still wait in the ring.
InChainOrder(s) == \A i, j \in DOMAIN s : i < j => s[i] < s[j]
InOrderOnce ==
  /\ InChainOrder(processed)
  /\ ToSet(processed) \cup (ToSet(Waiting) \ {Pill}) = delivered

\* "a JSON Lines report of every alert that would have fired" (README): when
\* no wait ran out, the dispatcher has dealt with the alert of each log of the
\* range that a node returned, in chain order and no other, before run()
\* returns; and each is in the report, or one with its key is before it.
InRange == {l \in Logs : BlockOf[l] \in StartBlock..BacktestEnd}
ReportComplete ==
  mpc = "returned" /\ ~timedOut =>
     /\ InChainOrder(taken) /\ ToSet(taken) = (InRange \ missed) \cap Firing
     /\ Settled

\* Even when a wait ran out, no alert that a rule raised is left in the queue
\* or lost on the way out of it: the engine is joined before the dispatcher is
\* told to stop.
NoAlertDropped ==
  mpc = "returned" => taken = AlertsOf(processed) /\ queue_ = << >>

\* The run returns, although the chain may not have reached the last block
\* when it starts and a node may refuse every range wider than RpcLimit -
\* unless the dispatcher's thread was so late that run() set running_ again
\* after stop() had cleared it.
StopOverwritten == mpc = "joinDispatcher" /\ dispatcherRunning
EndsUnlessStopOverwritten == <>(mpc = "returned" \/ StopOverwritten)
=============================================================================
