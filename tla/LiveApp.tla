------------------------------ MODULE LiveApp ------------------------------
(***************************************************************************)
(* The live service's main thread (src/app/app.cpp: run from the wait on,  *)
(* stop_orderly_, join_threads_) and the signal thread of main.cpp, over   *)
(* the pipeline threads, the health server's thread and its workers.       *)
(* stop_orderly_ ends the health server first; unlike a backtest it then   *)
(* pushes the Stop pill and stops the dispatcher before any pipeline       *)
(* thread is joined.                                                       *)
(***************************************************************************)
EXTENDS BatchSource

VARIABLES mpc,              \* where the main thread is
          stop_requested_,
          wpc,              \* the signal thread: before, within, after request_stop
          server,           \* the health server's thread
          probe,            \* a /readyz request in SELECT 1; hung: it gets no answer
          timedOut,         \* history: a shutdown_drain_timeout ran out
          barrier,          \* history: signals pushed when the source was told to stop
          raced             \* history: both producers were inside try_push at once

appVars == <<mpc, stop_requested_, wpc, server, probe>>
history == <<timedOut, barrier>>
threads == <<pipelineVars, sourceVars>>
vars    == <<threads, appVars, history, raced>>

Init == /\ PipelineInit /\ SourceInit
        /\ mpc = "predicate" /\ stop_requested_ = FALSE /\ wpc = "idle"
        /\ server = "starting" /\ probe = "none"
        /\ timedOut = FALSE /\ barrier = 0 /\ raced = FALSE
----------------------------------------------------------------------------
(* request_stop, on the signal thread *)

StoreFlag == /\ wpc = "idle" /\ wpc' = "notify"
             /\ stop_requested_' = TRUE
             /\ UNCHANGED <<mpc, server, probe, threads, history>>

\* notify_all without run_mutex_: it reaches the main thread only if that is
\* already blocked in the wait.
NotifyAll == /\ wpc = "notify" /\ wpc' = "done"
             /\ mpc' = IF mpc = "asleep" THEN "predicate" ELSE mpc
             /\ UNCHANGED <<stop_requested_, server, probe, threads, history>>
----------------------------------------------------------------------------
(* The health server: its thread, and workers whose db_probe has no timeout *)

\* start() left the thread to get to listen(), which returns at once when the
\* port is in use.
Listen == /\ server = "starting"
          /\ server' \in {"listening", "closed"}
          /\ UNCHANGED <<mpc, stop_requested_, wpc, probe, threads, history>>

\* A database that accepts the query may never answer it.
ProbeBegin == /\ server = "listening" /\ probe = "none"
              /\ probe' \in {"select", "hung"}
              /\ UNCHANGED <<mpc, stop_requested_, wpc, server, threads, history>>

ProbeEnd == /\ probe = "select" /\ probe' = "none"
            /\ UNCHANGED <<mpc, stop_requested_, wpc, server, threads, history>>
----------------------------------------------------------------------------
(* run(): the wait *)

Goto(from, to) == /\ mpc = from /\ mpc' = to
                  /\ UNCHANGED <<stop_requested_, wpc, server, probe>>

\* The predicate is evaluated; when false the thread is about to block.
Predicate == /\ IF stop_requested_ THEN Goto("predicate", "stopServer")
                                   ELSE Goto("predicate", "blocking")
             /\ UNCHANGED <<threads, history>>

Block == Goto("blocking", "asleep") /\ UNCHANGED <<threads, history>>
----------------------------------------------------------------------------
(* stop_orderly_ and join_threads_ *)

\* health_server_->stop(): httplib closes a listening socket, and does nothing
\* for a server that does not listen yet; listen() will not know of it.
StopServer == /\ mpc = "stopServer" /\ mpc' = "joinServer"
              /\ server' = IF server = "listening" THEN "closed" ELSE server
              /\ UNCHANGED <<stop_requested_, wpc, probe, threads, history>>

\* The thread ends when listen() has returned and the workers have answered
\* what they had accepted.
JoinServer == /\ server = "closed" /\ probe = "none"
              /\ Goto("joinServer", "stopSource")
              /\ UNCHANGED <<threads, history>>

\* event_source_->stop(): only a flag, and the thread is not joined yet.
StopSource == /\ Goto("stopSource", "pill")
              /\ sourceRunning' = FALSE
              /\ barrier' = sent
              /\ UNCHANGED <<spc, sent, batchEnd, ringVars,
                             engineVars, depth, alertVars, timedOut>>

PillLoad == /\ LoadIndex("main") /\ Goto("pill", "pillWrite")
            /\ UNCHANGED <<sourceVars, engineVars, depth, alertVars, history>>

PillWrite == /\ ConstructSlot("main", Pill) /\ Goto("pillWrite", "pillPublish")
             /\ UNCHANGED <<sourceVars, engineVars, depth, alertVars, history>>

PillPublish == /\ PublishIndex("main") /\ Goto("pillPublish", "drain")
               /\ UNCHANGED <<sourceVars, engineVars, depth, alertVars, history>>

\* The ring stays full: no drain wait, the engine is stopped at once.
PillTimeout == /\ ~HasRoom /\ Goto("pill", "stopEngine")
               /\ timedOut' = TRUE
               /\ UNCHANGED <<threads, barrier>>

\* Fault: the drain wait does not wait.
Drained_NoWait == Goto("drain", "stopEngine") /\ UNCHANGED <<threads, history>>

Drained == /\ finished_ /\ Goto("drain", "stopEngine")
           /\ UNCHANGED <<threads, history>>

DrainTimeout == /\ ~finished_ /\ Goto("drain", "stopEngine")
                /\ timedOut' = TRUE
                /\ UNCHANGED <<threads, barrier>>

StopEngine == /\ Goto("stopEngine", "stopDispatcher")
              /\ engineRunning' = FALSE
              /\ UNCHANGED <<epc, finished_, drain_mode, signal, processed, ringVars,
                             sourceVars, depth, alertVars, history>>

StopDispatcher == /\ DispatcherStop /\ Goto("stopDispatcher", "joinSource")
                  /\ UNCHANGED <<ringVars, sourceVars, engineVars, depth, taken, offered, history>>

JoinSource == /\ spc = "done" /\ Goto("joinSource", "joinEngine")
              /\ UNCHANGED <<threads, history>>

JoinEngine == /\ epc = "done" /\ Goto("joinEngine", "joinDispatcher")
              /\ UNCHANGED <<threads, history>>

JoinDispatcher == /\ dpc = "done" /\ Goto("joinDispatcher", "returned")
                  /\ UNCHANGED <<threads, history>>

MainStep == \/ Predicate \/ Block \/ StopServer \/ JoinServer \/ StopSource
            \/ PillLoad \/ PillWrite \/ PillPublish \/ PillTimeout
            \/ Drained \/ DrainTimeout \/ StopEngine \/ StopDispatcher
            \/ JoinSource \/ JoinEngine \/ JoinDispatcher

\* A producer is inside try_push from the load of the index to its store.
MidPush   == spc \in {"write", "publish"} /\ mpc \in {"pillWrite", "pillPublish"}
NoteRace  == raced' = (raced \/ MidPush')
AppAtRest == UNCHANGED <<appVars, history>>

Source       == SourceStep /\ AppAtRest /\ NoteRace
Engine       == EngineStep /\ UNCHANGED sourceVars /\ AppAtRest /\ NoteRace
Dispatcher   == DispatcherStep /\ UNCHANGED sourceVars /\ AppAtRest /\ NoteRace
Main         == MainStep /\ NoteRace
SignalThread == (StoreFlag \/ NotifyAll) /\ NoteRace
Server       == Listen /\ NoteRace
ProbeArrives == ProbeBegin /\ NoteRace
ProbeReturns == ProbeEnd /\ NoteRace

Next == \/ Source \/ Engine \/ Dispatcher \/ Main \/ SignalThread
        \/ Server \/ ProbeArrives \/ ProbeReturns

\* Every thread is scheduled; every timed wait ends; a query that is answered
\* at all is answered some day.
Spec == Init /\ [][Next]_vars
             /\ WF_vars(Source) /\ WF_vars(Engine) /\ WF_vars(Dispatcher)
             /\ WF_vars(Main) /\ WF_vars(SignalThread) /\ WF_vars(Server)
             /\ WF_vars(ProbeReturns)
----------------------------------------------------------------------------
(* Properties that hold *)

\* As long as the pill and the source's signals were not pushed at the same
\* time, the engine sees every signal once and in order: the only thing that
\* breaks the ring is its second producer.
IntactUnlessRaced == ~raced => processed = FirstSignals(Len(processed))

\* The pill is a barrier: when neither wait ran out and the producers did not
\* collide, every signal pushed before the source was told to stop has been
\* evaluated when run() returns.
PillIsBarrier == mpc = "returned" /\ ~timedOut /\ ~raced => Len(processed) >= barrier

\* When neither wait ran out, the dispatcher has taken each alert the engine
\* raised, in order, and dealt with it by the time run() returns: stop() leaves
\* the queue to be emptied.
AlertsHandled == mpc = "returned" /\ ~timedOut => Settled /\ taken = AlertsOf(processed)

\* The ring_buffer_depth gauge (README: "Current number of signals in the SPSC
\* ring buffer") against the ring: short of it by a push not counted yet, by a
\* signal counted out and not popped yet, and from the pill on by the pill,
\* which is counted out and never in.
PillSent == drain_mode \/ \E i \in DOMAIN Waiting : Waiting[i] = Pill
DepthGauge == ~raced =>
  depth = Fill - (IF spc = "count" THEN 1 ELSE 0) - (IF epc = "take" THEN 1 ELSE 0)
               - (IF PillSent THEN 1 ELSE 0)

\* The five ways a stop request can fail to end run(): its notification came
\* between the predicate and the wait; the health server's thread began to
\* listen after it was told to stop; a readiness probe never comes back from
\* the database, and the health server is joined first; the source waits for
\* room in a ring nobody drains any more; the dispatcher thread set running_
\* after stop() had cleared it.
WakeupLost      == mpc = "asleep" /\ wpc = "done"
ListensForEver  == mpc = "joinServer" /\ server = "listening"
ProbeHung       == mpc = "joinServer" /\ probe = "hung"
SourceStuck     == mpc = "joinSource" /\ spc = "load" /\ epc = "done" /\ ~HasRoom
StopOverwritten == /\ mpc \in {"joinSource", "joinEngine", "joinDispatcher"}
                   /\ dispatcherRunning

\* app.hpp: run() "Blocks until shutdown is requested".  Once it is, run()
\* returns or is in one of these five states: the pipeline's threads add no
\* other way to hang, whatever the timeouts and the ring's producers do.
ShutdownCompletes ==
  stop_requested_ ~> \/ mpc = "returned" \/ WakeupLost \/ ListensForEver
                     \/ ProbeHung \/ SourceStuck \/ StopOverwritten
----------------------------------------------------------------------------
(* What the README says and the code does not do *)

\* README: the ring is a "single-producer / single-consumer lock-free queue";
\* a signal that was pushed is evaluated once, in its turn.
RingIntact == processed = FirstSignals(Len(processed))
=============================================================================
