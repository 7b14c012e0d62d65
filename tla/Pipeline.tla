------------------------------ MODULE Pipeline ------------------------------
(***************************************************************************)
(* The pipeline behind the event source: the ring buffer, RiskEngine::run  *)
(* in full, and AlertDispatcher's queue.  BacktestRun puts the EventSource *)
(* in front of it, LiveApp the batches of BatchSource; both add the main   *)
(* thread, which stops the others.                                         *)
(***************************************************************************)
EXTENDS Integers, Sequences, SpscRing, AlertQueue

CONSTANTS Signals,     \* the signals a source pushes, numbered in chain order
          Firing,      \* the signals some rule raises an alert for
          KeyOf,       \* the deduplication key of each of those alerts
          Pill,        \* the ControlSignal with command Stop
          Metrics      \* whether the threads are given a Metrics object

ASSUME PipelineAssumption ==
  /\ Signals \subseteq Nat /\ Firing \subseteq Signals
  /\ Pill \notin Signals /\ NoSignal \notin Signals /\ Pill # NoSignal
  /\ DOMAIN KeyOf = Firing
  /\ Metrics \in BOOLEAN
  /\ {"source", "main"} \subseteq Producers

VARIABLES epc, engineRunning, finished_, drain_mode, signal,
          depth,       \* the ring_buffer_depth gauge
          processed,   \* history: signals the engine popped, in order
          taken,       \* history: alerts the dispatcher took off its queue, in order
          offered      \* history: the places in taken of those sent to the channels

engineVars == <<epc, engineRunning, finished_, drain_mode, signal, processed>>
alertVars  == <<queueVars, taken, offered>>
pipelineVars == <<ringVars, engineVars, depth, alertVars>>

PipelineInit ==
  /\ RingInit /\ QueueInit
  /\ epc = "loop" /\ engineRunning = TRUE /\ finished_ = FALSE
  /\ drain_mode = FALSE /\ signal = NoSignal
  /\ depth = 0 /\ processed = << >>
  /\ taken = << >> /\ offered = {}
----------------------------------------------------------------------------
(* RiskEngine::run *)

\* Fault: the pill is not counted out.
Lowered_ExceptPill(x) == depth' = IF Metrics /\ x # Pill THEN depth - 1 ELSE depth

\* The gauge goes down for whatever is at the front.
Lowered(x) == depth' = IF Metrics THEN depth - 1 ELSE depth

\* A signal is at the front: it is counted out before it leaves the ring.
EngineFront == /\ epc = "loop" /\ engineRunning
               /\ LoadFront /\ Lowered(front)
               /\ epc' = "take"
               /\ UNCHANGED <<engineRunning, finished_, drain_mode, signal, processed,
                              alertVars>>

\* Move the signal out, pop it, and drain on the pill.
Consume(x) ==
  /\ epc = "take"
  /\ Pop
  /\ signal' = x
  /\ IF x = Pill
     THEN epc' = "loop" /\ drain_mode' = TRUE /\ UNCHANGED processed
     ELSE /\ epc' = "evaluate"
          /\ processed' = Append(processed, x)
          /\ UNCHANGED drain_mode
  /\ UNCHANGED <<engineRunning, finished_, depth, alertVars>>

\* Fault: the signal is read after the pop.
EngineTake_ReadsAfterPop == Consume(slots[Succ(readIdx_)])

EngineTake == Consume(front)

\* The rules routed to the signal's type run; their alerts are dispatched.
EngineEvaluate ==
  /\ epc = "evaluate"
  /\ IF signal \in Firing THEN dispatch(signal) ELSE UNCHANGED queueVars
  /\ epc' = "loop"
  /\ UNCHANGED <<engineRunning, finished_, drain_mode, signal, processed, depth,
                 ringVars, taken, offered>>

LeaveLoop == /\ epc = "loop"
             /\ epc' = "done"
             /\ finished_' = TRUE
             /\ UNCHANGED <<engineRunning, drain_mode, signal, processed, depth,
                            ringVars, alertVars>>

\* Fault: stop() is not looked at, only the pill ends the loop.
EngineExit_IgnoresStop == drain_mode /\ IsEmpty /\ LeaveLoop

\* The loop ends: the ring is empty in drain mode, or stop() was called.
EngineExit == (~engineRunning \/ (drain_mode /\ IsEmpty)) /\ LeaveLoop
----------------------------------------------------------------------------
(* AlertDispatcher *)

SameKey(i, j) == KeyOf[taken[i]] = KeyOf[taken[j]]

\* should_suppress(alert, now_ms) may only hold an alert back whose key it let
\* through before; whether it does is up to the windows and the clock, which
\* module AlertDeduplicator has.
Suppress == /\ \E i \in offered : SameKey(i, Len(taken))
            /\ UNCHANGED offered

\* Otherwise every channel is offered the alert.
Offer == offered' = offered \cup {Len(taken)}

DispatcherStep ==
  /\ \/ TakeAlert /\ taken' = Append(taken, Head(queue_)) /\ UNCHANGED offered
     \/ BackToWait /\ (Suppress \/ Offer) /\ UNCHANGED taken
     \/ (DispatcherStart \/ DispatcherExit) /\ UNCHANGED <<taken, offered>>
  /\ UNCHANGED <<ringVars, engineVars, depth>>

EngineStep == EngineFront \/ EngineTake \/ EngineEvaluate \/ EngineExit
----------------------------------------------------------------------------
\* Signals between the two indices, from the front on.
Ahead(from, to) == IF from <= to THEN to - from ELSE to - from + Capacity + 1
Fill    == Ahead(readIdx_, writeIdx_)
Waiting == [i \in 1..Fill |-> slots[Wrap(readIdx_ + i - 1)]]

\* Alerts, in the order their signals were pushed: those of the first n, and
\* of all of them.
AlertsUpTo(s) ==
  LET alerts[n \in 0..Len(s)] ==
        IF n = 0 THEN << >>
        ELSE IF s[n] \in Firing THEN Append(alerts[n - 1], s[n]) ELSE alerts[n - 1]
  IN  alerts
AlertsOf(s) == AlertsUpTo(s)[Len(s)]

\* Each alert taken so far was sent to the channels, or one with its key was
\* before it.
Settled == \A j \in DOMAIN taken : \E i \in offered : i <= j /\ SameKey(i, j)
=============================================================================
