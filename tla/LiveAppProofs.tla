--------------------------- MODULE LiveAppProofs ---------------------------
(***************************************************************************)
(* Proofs about the shutdown of the live service for every ring size, any  *)
(* number of signals and any choice of those that raise alerts.            *)
(***************************************************************************)
EXTENDS LiveApp, PipelineProofs

\* The stages of the main thread's script.
BeforePill     == {"predicate", "blocking", "asleep", "stopServer", "joinServer", "stopSource",
                   "pill", "pillWrite", "pillPublish"}
DispatcherTold == {"joinSource", "joinEngine", "joinDispatcher", "returned"}
EngineTold     == {"stopDispatcher"} \cup DispatcherTold
WaitOver       == {"stopEngine"} \cup EngineTold

TypeOK ==
  /\ RingTypeOK /\ EngineTypeOK
  /\ engineRunning \in BOOLEAN /\ finished_ \in BOOLEAN /\ drain_mode \in BOOLEAN
  /\ dispatcherRunning \in BOOLEAN /\ timedOut \in BOOLEAN /\ raced \in BOOLEAN
  /\ dpc \in {"start", "loop", "handle", "done"}
  /\ mpc \in BeforePill \cup {"drain"} \cup WaitOver
  /\ spc \in {"loop", "load", "write", "publish", "count", "done"}
  /\ sent \in 0..MaxSignals /\ batchEnd \in 0..MaxSignals /\ barrier \in 0..MaxSignals
  /\ depth \in Int

\* Who has told whom to stop, and what that means: with no wait run out, the
\* engine is done before the dispatcher is told, so the queue stays empty
\* once run() of the dispatcher has returned.
StopOrder ==
  /\ finished_ <=> epc = "done"
  /\ finished_ => drain_mode \/ ~engineRunning
  /\ ~engineRunning => mpc \in EngineTold
  /\ mpc \in WaitOver /\ ~timedOut => epc = "done" /\ drain_mode
  /\ dpc \in {"loop", "handle"} /\ ~dispatcherRunning => mpc \in DispatcherTold
  /\ dpc = "done" => mpc \in DispatcherTold
  /\ dpc = "done" /\ ~timedOut => queue_ = << >>
  /\ mpc = "returned" => dpc = "done"

\* The batch being pushed and the barrier.
BatchInv ==
  /\ spc \in {"load", "write", "publish"} => sent < batchEnd
  /\ barrier <= sent

\* A producer inside try_push is alone there: it has the write index, room, and
\* after the second step its element in the slot.
PushInv ==
  /\ ~MidPush
  /\ spc \in {"write", "publish"} => Reserved /\ loaded["source"] = writeIdx_
  /\ mpc \in {"pillWrite", "pillPublish"} => Reserved /\ loaded["main"] = writeIdx_
  /\ spc = "publish" => slots[writeIdx_] = sent + 1
  /\ mpc = "pillPublish" => slots[writeIdx_] = Pill

\* The gauge, less a signal counted out that is not popped yet.
GaugeAtPop == depth + (IF epc = "take" THEN 1 ELSE 0)

\* The signals sent, those popped and those waiting, the pill and the gauge.
\* Every signal sent before the barrier is in front of the pill.
StreamAt(k) ==
  /\ InTransit(FirstSignals(sent), k)
  /\ mpc \in BeforePill => k > Fill /\ ~drain_mode
  /\ drain_mode => k > Fill /\ Len(processed) >= barrier
  /\ k <= Fill => Len(processed) + k - 1 >= barrier
  /\ GaugeAtPop = Fill - (IF spc = "count" THEN 1 ELSE 0)
                  - (IF drain_mode \/ k <= Fill THEN 1 ELSE 0)

RaceFree == CachesBehind /\ PushInv /\ \E k \in 1..(Fill + 1) : StreamAt(k)

IInv == /\ TypeOK /\ StopOrder /\ FrontSeen /\ AlertsInOrder /\ SettledSoFar /\ BatchInv
        /\ ~raced => RaceFree
----------------------------------------------------------------------------
\* The sequence 1..n: its length, its elements and its extension by one.
LEMMA FirstSignalsFacts ==
  ASSUME NEW n \in 0..MaxSignals
  PROVE  /\ FirstSignals(n) \in Seq(Signals) /\ Len(FirstSignals(n)) = n
         /\ \A i \in 1..n : FirstSignals(n)[i] = i
         /\ n < MaxSignals => Append(FirstSignals(n), n + 1) = FirstSignals(n + 1)
<1>1. n \in Nat /\ MaxSignals \in Nat /\ \A i \in 1..n : i \in Signals
  BY BatchAssumption
<1>2. FirstSignals(n) \in Seq(Signals) /\ Len(FirstSignals(n)) = n
  BY <1>1 DEF FirstSignals
<1>3. ASSUME n < MaxSignals PROVE Append(FirstSignals(n), n + 1) = FirstSignals(n + 1)
  <2>1. n + 1 \in Nat /\ n + 1 \in 0..MaxSignals /\ \A i \in 1..(n + 1) : i \in Signals
    BY <1>1, <1>3, BatchAssumption
  <2>2. /\ FirstSignals(n + 1) \in Seq(Signals) /\ Len(FirstSignals(n + 1)) = n + 1
    BY <2>1 DEF FirstSignals
  <2>3. /\ Append(FirstSignals(n), n + 1) \in Seq(Signals)
        /\ Len(Append(FirstSignals(n), n + 1)) = n + 1
    BY <1>1, <1>2, <2>1
  <2>4. \A i \in 1..(n + 1) : Append(FirstSignals(n), n + 1)[i] = FirstSignals(n + 1)[i]
    BY <1>1, <1>2, <2>1 DEF FirstSignals
  <2> QED BY <2>2, <2>3, <2>4
<1> QED BY <1>2, <1>3 DEF FirstSignals

\* The application starts with an empty ring and an empty queue.
LEMMA InitInv == Init => IInv
<1> SUFFICES ASSUME Init PROVE IInv
    OBVIOUS
<1> USE DEF Init, SourceInit
<1>1. /\ RingInv /\ Fill = 0 /\ EngineTypeOK /\ FrontSeen /\ AlertsInOrder /\ SettledSoFar
  BY RingStart, AlertsStart DEF PipelineInit
<1>2. /\ epc = "loop" /\ engineRunning = TRUE /\ finished_ = FALSE /\ drain_mode = FALSE
      /\ dispatcherRunning = FALSE /\ dpc = "start" /\ depth = 0 /\ processed = << >>
  BY DEF PipelineInit, QueueInit
<1>3. 0 \in 0..MaxSignals
  BY BatchAssumption
<1>4. TypeOK
  <2>1. /\ engineRunning \in BOOLEAN /\ finished_ \in BOOLEAN /\ drain_mode \in BOOLEAN
        /\ dispatcherRunning \in BOOLEAN /\ timedOut \in BOOLEAN /\ raced \in BOOLEAN
    BY <1>2, Zenon
  <2> QED BY <1>1, <1>2, <1>3, <2>1 DEF TypeOK, RingInv, BeforePill
<1>5. StopOrder /\ BatchInv
  BY <1>2, BatchAssumption DEF StopOrder, BatchInv, WaitOver, EngineTold, DispatcherTold
<1>6. PushInv
  BY DEF PushInv, MidPush
<1>7. StreamAt(1)
  <2>1. FirstSignals(0) \in Seq(Signals) /\ Len(FirstSignals(0)) = 0
    BY <1>3, FirstSignalsFacts
  <2>2. InTransit(FirstSignals(sent), 1)
    BY <1>1, <1>2, <2>1 DEF InTransit
  <2>3. ~drain_mode /\ ~(1 <= Fill) /\ 1 > Fill /\ spc # "count"
    BY <1>1, <1>2
  <2>4. GaugeAtPop = Fill - (IF spc = "count" THEN 1 ELSE 0)
                     - (IF drain_mode \/ 1 <= Fill THEN 1 ELSE 0)
    <3>1. (IF drain_mode \/ 1 <= Fill THEN 1 ELSE 0) = 0
      BY <2>3
    <3>2. (IF spc = "count" THEN 1 ELSE 0) = 0
      BY <2>3
    <3>3. GaugeAtPop = Fill - 0 - 0
      BY <1>1, <1>2 DEF GaugeAtPop
    <3> QED BY <3>1, <3>2, <3>3, Zenon
  <2> QED BY <2>2, <2>3, <2>4 DEF StreamAt
<1> QED BY <1>1, <1>4, <1>5, <1>6, <1>7 DEF IInv, RaceFree, RingInv

\* How a step can touch the ring, and how the engine and the dispatcher.
LEMMA StepKinds ==
  ASSUME IInv, [Next]_vars
  PROVE  /\ \/ UNCHANGED ringVars
            \/ \E p \in Producers, x \in Contents :
                 LoadIndex(p) \/ ConstructSlot(p, x) \/ PublishIndex(p) \/ LoadFront \/ Pop
         /\ \/ EngineStep \/ DispatcherStep
            \/ UNCHANGED <<epc, signal, processed, taken, queue_>>
         /\ EngineStep \/ UNCHANGED <<epc, readIdx_, writeIdxCache_>>
         /\ DispatcherStep \/ UNCHANGED <<dpc, taken, offered>>
<1>1. "source" \in Producers /\ "main" \in Producers /\ Pill \in Contents
  BY PipelineAssumption DEF Contents
<1>2. spc = "write" => sent + 1 \in Contents
  BY BatchAssumption DEF IInv, TypeOK, BatchInv, Contents
<1>3. CASE Source
  <2>1. UNCHANGED <<epc, signal, processed, taken, queue_, dpc, offered>>
    BY <1>3 DEF Source, SourceStep, SourceBatch, SourceLoad, SourceWrite, SourcePublish,
                SourceCount, SourceExit, engineVars, queueVars, alertVars
  <2>2. CASE SourceLoad
    BY <1>1, <2>1, <2>2 DEF SourceLoad, LoadIndex
  <2>3. CASE SourceWrite
    BY <1>1, <1>2, <2>1, <2>3 DEF SourceWrite, ConstructSlot
  <2>4. CASE SourcePublish
    BY <1>1, <2>1, <2>4 DEF SourcePublish, PublishIndex
  <2>5. CASE SourceBatch \/ SourceCount \/ SourceExit
    BY <2>1, <2>5 DEF SourceBatch, SourceCount, SourceExit, ringVars
  <2> QED BY <1>3, <2>2, <2>3, <2>4, <2>5 DEF Source, SourceStep
<1>4. CASE Engine
  <2>1. LoadFront \/ Pop \/ UNCHANGED ringVars
    BY <1>4 DEF Engine, EngineStep, EngineFront, EngineTake, Consume, EngineEvaluate, EngineExit,
                LeaveLoop
  <2>2. UNCHANGED <<dpc, taken, offered>>
    BY <1>4 DEF Engine, EngineStep, EngineFront, EngineTake, Consume, EngineEvaluate, dispatch,
                EngineExit, LeaveLoop, queueVars, alertVars
  <2> QED BY <1>1, <1>4, <2>1, <2>2 DEF Engine
<1>5. CASE Dispatcher
  BY <1>5 DEF Dispatcher, DispatcherStep, engineVars, ringVars
<1>6. CASE Main
  <2>1. UNCHANGED <<epc, signal, processed, taken, queue_, dpc, offered>>
    BY <1>6 DEF Main, MainStep, Predicate, Block, StopServer, JoinServer, StopSource, PillLoad,
                PillWrite, PillPublish, PillTimeout, Drained, DrainTimeout, StopEngine,
                StopDispatcher, DispatcherStop, JoinSource, JoinEngine, JoinDispatcher,
                threads, pipelineVars, engineVars, queueVars, alertVars
  <2>2. CASE PillLoad
    BY <1>1, <2>1, <2>2 DEF PillLoad, LoadIndex
  <2>3. CASE PillWrite
    BY <1>1, <2>1, <2>3 DEF PillWrite, ConstructSlot
  <2>4. CASE PillPublish
    BY <1>1, <2>1, <2>4 DEF PillPublish, PublishIndex
  <2>5. ASSUME ~PillLoad, ~PillWrite, ~PillPublish PROVE UNCHANGED ringVars
    BY <1>6, <2>5 DEF Main, MainStep, Predicate, Block, StopServer, JoinServer, StopSource,
                PillTimeout, Drained, DrainTimeout, StopEngine,
                StopDispatcher, DispatcherStop, JoinSource, JoinEngine, JoinDispatcher,
                threads, pipelineVars
  <2> QED BY <2>1, <2>2, <2>3, <2>4, <2>5 DEF ringVars
<1>7. CASE SignalThread \/ Server \/ ProbeArrives \/ ProbeReturns \/ UNCHANGED vars
  BY <1>7 DEF SignalThread, StoreFlag, NotifyAll, Server, Listen, ProbeArrives, ProbeBegin, ProbeReturns,
              ProbeEnd, vars, threads, pipelineVars, ringVars, engineVars, queueVars, alertVars
<1> QED BY <1>3, <1>4, <1>5, <1>6, <1>7 DEF Next

\* What a step of each thread leaves alone.
LEMMA Frames ==
  ASSUME [Next]_vars
  PROVE  /\ \/ SourceStep
            \/ UNCHANGED <<spc, sent, batchEnd>> /\ (sourceRunning' = FALSE \/ UNCHANGED sourceRunning)
         /\ \/ MainStep
            \/ UNCHANGED <<timedOut, barrier, engineRunning>>
               /\ (mpc' = mpc \/ (mpc = "asleep" /\ mpc' = "predicate"))
         /\ EngineStep \/ (UNCHANGED <<epc, finished_, drain_mode>> /\ (MainStep \/ UNCHANGED engineRunning))
         /\ DispatcherStep \/ (UNCHANGED dpc /\ (MainStep \/ UNCHANGED dispatcherRunning))
<1> USE DEF AppAtRest, appVars, history, sourceVars
<1>1. CASE Source
  BY <1>1 DEF Source, SourceStep, SourceBatch, SourceLoad, SourceWrite, SourcePublish,
              SourceCount, SourceExit, engineVars, queueVars, alertVars
<1>2. CASE Engine
  BY <1>2 DEF Engine, EngineStep, EngineFront, EngineTake, Consume, EngineEvaluate, dispatch, EngineExit,
              LeaveLoop, queueVars, alertVars
<1>3. CASE Dispatcher
  BY <1>3 DEF Dispatcher, DispatcherStep, engineVars
<1>4. CASE Main
  BY <1>4 DEF Main, MainStep, Predicate, Block, StopServer, JoinServer, StopSource, PillLoad,
              PillWrite, PillPublish, PillTimeout, Drained, DrainTimeout, StopEngine,
              StopDispatcher, DispatcherStop, JoinSource, JoinEngine, JoinDispatcher,
              threads, pipelineVars, engineVars, queueVars, alertVars
<1>5. CASE SignalThread \/ Server \/ ProbeArrives \/ ProbeReturns \/ UNCHANGED vars
  BY <1>5 DEF SignalThread, StoreFlag, NotifyAll, Server, Listen, ProbeArrives, ProbeBegin, ProbeReturns,
              ProbeEnd, vars, threads, pipelineVars, engineVars, queueVars, alertVars
<1> QED BY <1>1, <1>2, <1>3, <1>4, <1>5 DEF Next

\* The source's steps inside and between its batches.
LEMMA BatchStep ==
  ASSUME IInv, [Next]_vars
  PROVE  /\ spc' \in {"loop", "load", "write", "publish", "count", "done"}
         /\ sent' \in 0..MaxSignals /\ batchEnd' \in 0..MaxSignals /\ barrier' \in 0..MaxSignals
         /\ BatchInv'
<1>1. /\ spc \in {"loop", "load", "write", "publish", "count", "done"}
      /\ sent \in Nat /\ batchEnd \in Nat /\ barrier \in Nat /\ MaxSignals \in Nat
      /\ sent <= MaxSignals /\ batchEnd <= MaxSignals /\ barrier <= sent
      /\ spc \in {"load", "write", "publish"} => sent < batchEnd
  BY BatchAssumption DEF IInv, TypeOK, BatchInv
<1>2. CASE SourceStep /\ UNCHANGED barrier
  <2>1. \/ /\ spc = "loop" /\ batchEnd' \in (sent + 1)..MaxSignals /\ spc' = "load" /\ sent' = sent
        \/ /\ spc = "load" /\ spc' = "write" /\ UNCHANGED <<sent, batchEnd>>
        \/ /\ spc = "write" /\ spc' = "publish" /\ UNCHANGED <<sent, batchEnd>>
        \/ /\ spc = "publish" /\ spc' = "count" /\ sent' = sent + 1 /\ UNCHANGED batchEnd
        \/ /\ spc = "count" /\ spc' = IF sent < batchEnd THEN "load" ELSE "loop"
           /\ UNCHANGED <<sent, batchEnd>>
        \/ spc = "loop" /\ spc' = "done" /\ UNCHANGED <<sent, batchEnd>>
    BY <1>2 DEF SourceStep, SourceBatch, SourceLoad, SourceWrite, SourcePublish, SourceCount,
                SourceExit
  <2> QED BY <1>1, <1>2, <2>1 DEF BatchInv
<1>3. CASE UNCHANGED <<spc, sent, batchEnd>> /\ (barrier' = sent \/ UNCHANGED barrier)
  BY <1>1, <1>3 DEF BatchInv
<1>4. barrier' = sent \/ UNCHANGED barrier
  BY Frames DEF MainStep, Predicate, Block, StopServer, JoinServer, StopSource, PillLoad,
              PillWrite, PillPublish, PillTimeout, Drained, DrainTimeout, StopEngine,
              StopDispatcher, JoinSource, JoinEngine, JoinDispatcher, history
<1>5. (SourceStep /\ UNCHANGED barrier) \/ UNCHANGED <<spc, sent, batchEnd>>
  <2>1. CASE Source
    BY <2>1 DEF Source, AppAtRest, history
  <2>2. CASE Main
    BY <2>2 DEF Main, MainStep, Predicate, Block, StopServer, JoinServer, StopSource, PillLoad,
              PillWrite, PillPublish, PillTimeout, Drained, DrainTimeout, StopEngine,
              StopDispatcher, JoinSource, JoinEngine, JoinDispatcher, threads, sourceVars
  <2>3. CASE Engine \/ Dispatcher \/ SignalThread \/ Server \/ ProbeArrives \/ ProbeReturns \/ UNCHANGED vars
    BY <2>3 DEF Engine, Dispatcher, SignalThread, StoreFlag, NotifyAll, Server, Listen, ProbeArrives, ProbeBegin,
              ProbeReturns, ProbeEnd, vars, threads, sourceVars
  <2> QED BY <2>1, <2>2, <2>3 DEF Next
<1> QED BY <1>2, <1>3, <1>4, <1>5

\* Every step keeps the flags and the order of the shutdown script.
LEMMA StopStep ==
  ASSUME IInv, [Next]_vars
  PROVE  /\ engineRunning' \in BOOLEAN /\ finished_' \in BOOLEAN /\ drain_mode' \in BOOLEAN
         /\ dispatcherRunning' \in BOOLEAN /\ timedOut' \in BOOLEAN
         /\ dpc' \in {"start", "loop", "handle", "done"}
         /\ mpc' \in BeforePill \cup {"drain"} \cup WaitOver
         /\ StopOrder'
<1> DEFINE Types ==
         /\ engineRunning \in BOOLEAN /\ finished_ \in BOOLEAN /\ drain_mode \in BOOLEAN
         /\ dispatcherRunning \in BOOLEAN /\ timedOut \in BOOLEAN
         /\ dpc \in {"start", "loop", "handle", "done"}
         /\ mpc \in BeforePill \cup {"drain"} \cup WaitOver
<1> SUFFICES Types' /\ StopOrder'
    OBVIOUS
<1>1. Types /\ StopOrder /\ epc \in {"loop", "take", "evaluate", "done"}
  BY DEF IInv, TypeOK, EngineTypeOK
<1> USE DEF BeforePill, WaitOver, EngineTold, DispatcherTold, StopOrder
<1>2. CASE UNCHANGED <<engineRunning, finished_, drain_mode, dispatcherRunning, timedOut, dpc,
                       epc, queue_>>
           /\ (mpc' = mpc \/ (mpc = "asleep" /\ mpc' = "predicate"))
  BY <1>1, <1>2
<1>3. CASE Engine
  <2>0. UNCHANGED <<engineRunning, dispatcherRunning, timedOut, dpc, mpc>>
    BY <1>3 DEF Engine, EngineStep, EngineFront, EngineTake, Consume, EngineEvaluate, dispatch, EngineExit,
              LeaveLoop, queueVars, alertVars, AppAtRest, appVars, history
  <2>1. CASE EngineFront \/ EngineTake
    <3>1. /\ epc \in {"loop", "take"} /\ epc' \in {"loop", "take", "evaluate"}
          /\ finished_' = finished_ /\ queue_' = queue_
          /\ drain_mode' = TRUE \/ drain_mode' = drain_mode
      BY <2>1 DEF EngineFront, EngineTake, Consume, queueVars, alertVars
    <3> QED BY <1>1, <2>0, <3>1
  <2>2. CASE EngineEvaluate
    <3>1. epc = "evaluate" /\ epc' = "loop" /\ UNCHANGED <<finished_, drain_mode>>
      BY <2>2 DEF EngineEvaluate
    <3> QED BY <1>1, <2>0, <3>1
  <2>3. CASE EngineExit
    <3>1. /\ epc = "loop" /\ epc' = "done" /\ finished_' = TRUE /\ (~engineRunning \/ drain_mode)
          /\ UNCHANGED <<drain_mode, queue_>>
      BY <2>3 DEF EngineExit, LeaveLoop, queueVars, alertVars
    <3> QED BY <1>1, <2>0, <3>1
  <2> QED BY <1>3, <2>1, <2>2, <2>3 DEF Engine, EngineStep
<1>4. CASE Dispatcher
  <2>0. UNCHANGED <<engineRunning, finished_, drain_mode, timedOut, mpc, epc>>
    BY <1>4 DEF Dispatcher, DispatcherStep, engineVars, AppAtRest, appVars, history
  <2>1. \/ dpc = "loop" /\ dpc' = "handle" /\ UNCHANGED dispatcherRunning /\ queue_ # << >>
        \/ dpc = "start" /\ dpc' = "loop" /\ dispatcherRunning' = TRUE
        \/ /\ dpc = "loop" /\ dpc' = "done" /\ ~dispatcherRunning /\ queue_ = << >>
           /\ UNCHANGED <<dispatcherRunning, queue_>>
        \/ dpc = "handle" /\ dpc' = "loop" /\ UNCHANGED dispatcherRunning
    BY <1>4 DEF Dispatcher, DispatcherStep, TakeAlert, DispatcherStart, DispatcherExit, BackToWait
  <2> QED BY <1>1, <2>0, <2>1
<1>5. CASE Main
  <2>1. CASE Predicate \/ Block \/ StopServer \/ JoinServer \/ StopSource \/ PillLoad
             \/ PillWrite \/ PillPublish
    <3>1. /\ mpc \in BeforePill /\ mpc' \in BeforePill \cup {"drain"}
          /\ UNCHANGED <<engineRunning, finished_, drain_mode, dispatcherRunning, timedOut, dpc,
                         epc, queue_>>
      BY <2>1 DEF Predicate, Block, StopServer, JoinServer, StopSource, PillLoad, PillWrite,
                PillPublish, Goto, threads, pipelineVars, engineVars, queueVars, alertVars, history
    <3> QED BY <1>1, <3>1
  <2>2. CASE PillTimeout \/ DrainTimeout
    <3>1. /\ mpc \in {"pill", "drain"} /\ mpc' = "stopEngine" /\ timedOut' = TRUE
          /\ UNCHANGED <<engineRunning, finished_, drain_mode, dispatcherRunning, dpc, epc, queue_>>
      BY <2>2 DEF PillTimeout, DrainTimeout, Goto, threads, pipelineVars, engineVars, queueVars, alertVars
    <3> QED BY <1>1, <3>1
  <2>3. CASE Drained
    <3>1. /\ mpc = "drain" /\ mpc' = "stopEngine" /\ finished_
          /\ UNCHANGED <<engineRunning, finished_, drain_mode, dispatcherRunning, timedOut, dpc,
                         epc, queue_>>
      BY <2>3 DEF Drained, Goto, threads, pipelineVars, engineVars, queueVars, alertVars, history
    <3> QED BY <1>1, <3>1
  <2>4. CASE StopEngine
    <3>1. /\ mpc = "stopEngine" /\ mpc' = "stopDispatcher" /\ engineRunning' = FALSE
          /\ UNCHANGED <<finished_, drain_mode, dispatcherRunning, timedOut, dpc, epc, queue_>>
      BY <2>4 DEF StopEngine, Goto, queueVars, alertVars, history
    <3> QED BY <1>1, <3>1
  <2>5. CASE StopDispatcher
    <3>1. /\ mpc = "stopDispatcher" /\ mpc' = "joinSource" /\ dispatcherRunning' = FALSE
          /\ UNCHANGED <<engineRunning, finished_, drain_mode, timedOut, dpc, epc, queue_>>
      BY <2>5 DEF StopDispatcher, DispatcherStop, Goto, engineVars, history
    <3> QED BY <1>1, <3>1
  <2>6. CASE JoinSource \/ JoinEngine \/ JoinDispatcher
    <3>1. /\ mpc \in DispatcherTold /\ mpc' \in DispatcherTold
          /\ mpc' = "returned" => dpc = "done"
          /\ UNCHANGED <<engineRunning, finished_, drain_mode, dispatcherRunning, timedOut, dpc,
                         epc, queue_>>
      BY <2>6 DEF JoinSource, JoinEngine, JoinDispatcher, Goto, threads, pipelineVars, engineVars,
                queueVars, alertVars, history
    <3> QED BY <1>1, <3>1
  <2> QED BY <1>5, <2>1, <2>2, <2>3, <2>4, <2>5, <2>6 DEF Main, MainStep
<1>6. CASE Source \/ SignalThread \/ Server \/ ProbeArrives \/ ProbeReturns \/ UNCHANGED vars
  <2>1. /\ UNCHANGED <<engineRunning, finished_, drain_mode, dispatcherRunning, timedOut, dpc, epc, queue_>>
        /\ mpc' = mpc \/ (mpc = "asleep" /\ mpc' = "predicate")
    <3>1. CASE Source
      BY <3>1 DEF Source, SourceStep, SourceBatch, SourceLoad, SourceWrite, SourcePublish,
                SourceCount, SourceExit, engineVars, queueVars, alertVars, AppAtRest, appVars, history
    <3>2. CASE SignalThread \/ Server \/ ProbeArrives \/ ProbeReturns \/ UNCHANGED vars
      BY <3>2 DEF SignalThread, StoreFlag, NotifyAll, Server, Listen, ProbeArrives, ProbeBegin,
              ProbeReturns, ProbeEnd, vars, threads, pipelineVars, engineVars, queueVars, alertVars, history,
              appVars
    <3> QED BY <1>6, <3>1, <3>2
  <2> QED BY <1>2, <2>1
<1> QED BY <1>3, <1>4, <1>5, <1>6 DEF Next

\* While the producers do not collide, every step keeps the stream in order.
LEMMA RaceStep ==
  ASSUME IInv, [Next]_vars, ~raced'
  PROVE  RaceFree'
<1> USE DEF BeforePill
<1>1. ~raced /\ ~MidPush'
  <2>1. CASE UNCHANGED vars
    BY <2>1 DEF vars, threads, sourceVars, appVars, MidPush, IInv, RaceFree, PushInv
  <2>2. CASE Next
    <3>1. raced' = (raced \/ MidPush')
      BY <2>2 DEF Next, Source, Engine, Dispatcher, Main, SignalThread, Server, ProbeArrives, ProbeReturns,
                  NoteRace
    <3> QED BY <3>1
  <2> QED BY <2>1, <2>2
<1>2. RaceFree /\ RingInv /\ EngineTypeOK /\ BatchInv
  BY <1>1 DEF IInv, TypeOK, RingInv, RaceFree
<1>3. PICK k \in 1..(Fill + 1) : StreamAt(k)
  BY <1>2 DEF RaceFree
<1>4. PICK st : st = FirstSignals(sent)
  OBVIOUS
<1>5. InTransit(st, k) /\ PushInv
  BY <1>2, <1>3, <1>4 DEF StreamAt, RaceFree
<1>6. /\ Fill \in Nat /\ k \in Nat \ {0} /\ sent \in 0..MaxSignals /\ sent \in Nat /\ barrier \in Nat
      /\ Len(processed) \in Nat /\ GaugeAtPop \in Int /\ MaxSignals \in Nat
      /\ "source" \in Producers /\ "main" \in Producers
  BY <1>2, <1>3, FillBounds, RingAssumption, BatchAssumption, PipelineAssumption
     DEF RingInv, IInv, TypeOK, EngineTypeOK, GaugeAtPop
\* Only places changed, none of them inside try_push, and maybe the barrier.
<1>7. ASSUME UNCHANGED <<ringVars, processed, sent, drain_mode, GaugeAtPop>>,
             spc' = "count" <=> spc = "count",
             spc' \in {"write", "publish"} => spc' = spc,
             mpc' \in {"pillWrite", "pillPublish"} => mpc' = mpc,
             mpc' \in BeforePill => mpc \in BeforePill,
             UNCHANGED barrier \/ mpc \in BeforePill
      PROVE  RaceFree'
  <2>1. /\ CachesBehind' /\ Reserved' = Reserved /\ Fill' = Fill /\ Waiting' = Waiting
    BY <1>2, <1>7, RingAtRest DEF RingInv
  <2>2. PushInv'
    BY <1>1, <1>5, <1>7, <2>1 DEF PushInv, ringVars
  <2>3. InTransit(FirstSignals(sent), k)'
    BY <1>3, <1>7, <2>1 DEF InTransit, StreamAt, FirstSignals
  <2>4. StreamAt(k)'
    <3>1. /\ drain_mode => k > Fill /\ Len(processed) >= barrier'
          /\ k <= Fill => Len(processed) + k - 1 >= barrier'
      <4>1. CASE UNCHANGED barrier
        BY <1>3, <4>1 DEF StreamAt
      <4>2. CASE mpc \in BeforePill
        BY <1>3, <1>6, <4>2 DEF StreamAt
      <4> QED BY <1>7, <4>1, <4>2
    <3>2. mpc' \in BeforePill => k > Fill /\ ~drain_mode
      BY <1>3, <1>7 DEF StreamAt
    <3>3. GaugeAtPop = Fill - (IF spc' = "count" THEN 1 ELSE 0)
                       - (IF drain_mode \/ k <= Fill THEN 1 ELSE 0)
      BY <1>3, <1>7 DEF StreamAt
    <3> QED BY <1>7, <2>1, <2>3, <3>1, <3>2, <3>3 DEF StreamAt
  <2> QED BY <1>3, <2>1, <2>2, <2>4 DEF RaceFree

\* A producer reads the index, or writes its slot.
<1>8. ASSUME RingInv', Fill' = Fill, Waiting' = Waiting, PushInv',
             UNCHANGED <<processed, sent, drain_mode, GaugeAtPop, barrier>>,
             spc' = "count" <=> spc = "count", mpc' \in BeforePill => mpc \in BeforePill
      PROVE  RaceFree'
  <2>1. InTransit(FirstSignals(sent), k)'
    BY <1>3, <1>8 DEF InTransit, StreamAt, FirstSignals
  <2>2. StreamAt(k)'
    BY <1>3, <1>8, <2>1 DEF StreamAt
  <2> QED BY <1>3, <1>8, <2>2 DEF RaceFree, RingInv
<1>9. CASE Source
  <2>0. UNCHANGED <<processed, drain_mode, barrier, mpc, epc>>
    BY <1>9 DEF Source, SourceStep, SourceBatch, SourceLoad, SourceWrite, SourcePublish,
                SourceCount, SourceExit, engineVars, AppAtRest, appVars, history
  <2>1. CASE SourceBatch \/ SourceExit
    BY <1>7, <2>0, <2>1 DEF SourceBatch, SourceExit, GaugeAtPop
  <2>2. CASE SourceLoad
    <3>1. LoadIndex("source") /\ spc = "load" /\ spc' = "write" /\ UNCHANGED <<sent, GaugeAtPop>>
      BY <2>0, <2>2 DEF SourceLoad, GaugeAtPop
    <3>2. /\ RingInv' /\ Reserved' /\ Fill' = Fill /\ Waiting' = Waiting
          /\ loaded' = [loaded EXCEPT !["source"] = writeIdx_'] /\ slots' = slots
      BY <1>2, <1>6, <3>1, RingLoad
    <3>3. loaded'["source"] = writeIdx_'
      BY <1>2, <1>6, <3>2 DEF RingInv, RingTypeOK
    <3>4. PushInv'
      BY <1>1, <3>1, <3>2, <3>3 DEF PushInv, MidPush
    <3> QED BY <1>8, <2>0, <3>1, <3>2, <3>4
  <2>3. CASE SourceWrite
    <3>1. ConstructSlot("source", sent + 1) /\ spc = "write" /\ spc' = "publish"
          /\ UNCHANGED <<sent, GaugeAtPop>>
      BY <2>0, <2>3 DEF SourceWrite, GaugeAtPop
    <3>2. sent + 1 \in Contents /\ loaded["source"] = writeIdx_ /\ Reserved
      BY <1>5, <1>6, <3>1, BatchAssumption DEF PushInv, IInv, TypeOK, BatchInv, Contents
    <3>3. /\ RingInv' /\ Reserved' = Reserved /\ Fill' = Fill /\ Waiting' = Waiting
          /\ slots'[writeIdx_'] = sent + 1 /\ UNCHANGED <<loaded, writeIdx_>>
      BY <1>2, <1>6, <3>1, <3>2, RingConstruct
    <3>4. PushInv'
      BY <1>1, <3>1, <3>2, <3>3 DEF PushInv, MidPush
    <3> QED BY <1>8, <2>0, <3>1, <3>3, <3>4
  <2>4. CASE SourcePublish
    <3>1. PublishIndex("source") /\ spc = "publish" /\ spc' = "count" /\ sent' = sent + 1
          /\ UNCHANGED GaugeAtPop
      BY <2>0, <2>4 DEF SourcePublish, GaugeAtPop
    <3>2. /\ Reserved /\ loaded["source"] = writeIdx_ /\ slots[writeIdx_] = sent + 1
          /\ sent + 1 \in Signals /\ sent < MaxSignals
      BY <1>5, <1>6, <3>1, BatchAssumption DEF PushInv, IInv, TypeOK, BatchInv
    <3>3. RingInv' /\ Fill' = Fill + 1
      BY <1>2, <1>6, <3>1, <3>2, RingPublish
    <3>4. PICK x \in Signals : x = sent + 1
      BY <3>2
    <3>5. PICK j : InTransit(Append(st, x), j)' /\ j = IF k <= Fill THEN k ELSE Fill' + 1
      BY <1>2, <1>5, <1>6, <2>0, <3>1, <3>2, <3>4, TransitPush
    <3>6. Append(st, x) = FirstSignals(sent')
      BY <1>4, <1>6, <3>1, <3>2, <3>4, FirstSignalsFacts
    <3>7. InTransit(FirstSignals(sent), j)'
      BY <3>5, <3>6 DEF InTransit
    <3>8. /\ j > Fill' <=> k > Fill
          /\ j <= Fill' => j = k
          /\ j <= Fill' <=> k <= Fill
          /\ j \in 1..(Fill' + 1)
      BY <1>6, <1>3, <3>3, <3>5
    <3>9. StreamAt(j)'
      <4>1. GaugeAtPop' = Fill' - (IF spc' = "count" THEN 1 ELSE 0)
                           - (IF drain_mode' \/ j <= Fill' THEN 1 ELSE 0)
        <5>1. GaugeAtPop = Fill - 0 - (IF drain_mode \/ k <= Fill THEN 1 ELSE 0)
          BY <1>3, <3>1 DEF StreamAt
        <5>2. (IF drain_mode' \/ j <= Fill' THEN 1 ELSE 0) = (IF drain_mode \/ k <= Fill THEN 1 ELSE 0)
          BY <2>0, <3>8
        <5> QED BY <1>6, <3>1, <3>3, <5>1, <5>2
      <4> QED BY <1>3, <2>0, <3>7, <3>8, <4>1 DEF StreamAt
    <3>10. PushInv'
      <4>1. mpc \notin {"pillWrite", "pillPublish"}
        BY <1>5, <3>1 DEF PushInv, MidPush
      <4> QED BY <2>0, <3>1, <4>1 DEF PushInv, MidPush
    <3> QED BY <3>3, <3>8, <3>9, <3>10 DEF RaceFree, RingInv
  <2>5. CASE SourceCount
    <3>1. /\ spc = "count" /\ spc' \in {"load", "loop"} /\ GaugeAtPop' = GaugeAtPop + 1 /\ UNCHANGED <<sent, ringVars>>
      BY <2>0, <2>5 DEF SourceCount, GaugeAtPop, IInv, TypeOK
    <3>2. /\ CachesBehind' /\ Reserved' = Reserved /\ Fill' = Fill /\ Waiting' = Waiting
      BY <1>2, <3>1, RingAtRest DEF RingInv
    <3>3. PushInv'
      BY <1>1, <1>5, <2>0, <3>1, <3>2 DEF PushInv, ringVars
    <3>4. InTransit(FirstSignals(sent), k)'
      BY <1>3, <2>0, <3>1, <3>2 DEF InTransit, StreamAt, FirstSignals
    <3>5. GaugeAtPop' = Fill' - (IF spc' = "count" THEN 1 ELSE 0)
                         - (IF drain_mode' \/ k <= Fill' THEN 1 ELSE 0)
      <4>1. GaugeAtPop = Fill - 1 - (IF drain_mode \/ k <= Fill THEN 1 ELSE 0)
        BY <1>3, <3>1 DEF StreamAt
      <4>2. (IF drain_mode' \/ k <= Fill' THEN 1 ELSE 0) = (IF drain_mode \/ k <= Fill THEN 1 ELSE 0)
        BY <2>0, <3>2
      <4> QED BY <1>6, <3>1, <3>2, <4>1, <4>2
    <3>6. StreamAt(k)'
      BY <1>3, <2>0, <3>1, <3>2, <3>4, <3>5 DEF StreamAt
    <3> QED BY <1>3, <3>2, <3>3, <3>6 DEF RaceFree
  <2> QED BY <1>9, <2>1, <2>2, <2>3, <2>4, <2>5 DEF Source, SourceStep
<1>10. CASE Engine
  <2>0. UNCHANGED <<spc, sent, barrier, mpc>>
    BY <1>10 DEF Engine, sourceVars, AppAtRest, appVars, history
  <2>1. CASE EngineEvaluate \/ EngineExit
    BY <1>7, <2>0, <2>1 DEF EngineEvaluate, EngineExit, LeaveLoop, GaugeAtPop
  <2>3. CASE EngineFront
    <3>1. LoadFront /\ UNCHANGED <<processed, drain_mode, GaugeAtPop>>
      BY <2>3, BatchAssumption DEF EngineFront, Lowered, GaugeAtPop, IInv, TypeOK
    <3>2. /\ RingInv' /\ Fill' = Fill /\ Waiting' = Waiting /\ Reserved' = Reserved
          /\ UNCHANGED <<slots, writeIdx_, loaded>>
      BY <1>2, <3>1, RingFront
    <3>3. PushInv'
      BY <1>1, <1>5, <2>0, <3>2 DEF PushInv
    <3> QED BY <1>8, <2>0, <3>1, <3>2, <3>3
  <2>2. CASE EngineTake
    <3>1. Pop /\ GaugeAtPop' = GaugeAtPop - 1 /\ readIdx_ # writeIdxCache_
      BY <2>2 DEF EngineTake, Consume, GaugeAtPop, FrontSeen, IInv, TypeOK
    <3>2. /\ RingInv' /\ Fill \in Nat \ {0} /\ Fill' = Fill - 1 /\ (Reserved => Reserved')
          /\ UNCHANGED <<slots, writeIdx_, loaded>>
      BY <1>2, <3>1, RingPop
    <3>3. PushInv'
      BY <1>1, <1>5, <2>0, <3>2 DEF PushInv
    <3>4. \E j \in 1..(Fill' + 1) : StreamAt(j)'
      <4>1. GaugeAtPop = Fill - (IF spc = "count" THEN 1 ELSE 0)
                         - (IF drain_mode \/ k <= Fill THEN 1 ELSE 0)
        BY <1>3 DEF StreamAt
      <4>2. CASE /\ k = 1 /\ k <= Fill /\ drain_mode' /\ processed' = processed
                 /\ \E j : InTransit(st, j)' /\ j > Fill'
        <5>1. PICK j : InTransit(st, j)' /\ j > Fill'
          BY <4>2
        <5>2. InTransit(FirstSignals(sent), j)' /\ j \in 1..(Fill' + 1)
          BY <1>4, <2>0, <5>1 DEF InTransit, FirstSignals
        <5>3. Len(processed') >= barrier'
          BY <1>3, <1>6, <2>0, <4>2 DEF StreamAt
        <5>4. ~(j <= Fill')
          BY <3>2, <5>1, <5>2
        <5>5. GaugeAtPop' = Fill' - (IF spc' = "count" THEN 1 ELSE 0)
                             - (IF drain_mode' \/ j <= Fill' THEN 1 ELSE 0)
          <6>1. GaugeAtPop = Fill - (IF spc = "count" THEN 1 ELSE 0) - 1
            BY <4>1, <4>2
          <6>2. (IF drain_mode' \/ j <= Fill' THEN 1 ELSE 0) = 1
            BY <4>2
          <6> QED BY <1>6, <2>0, <3>1, <3>2, <6>1, <6>2
        <5>6. mpc \notin BeforePill
          BY <1>3, <1>6, <4>2 DEF StreamAt
        <5>7. StreamAt(j)'
          BY <2>0, <4>2, <5>1, <5>2, <5>3, <5>4, <5>5, <5>6 DEF StreamAt
        <5> QED BY <5>2, <5>7
      <4>3. CASE /\ k # 1 /\ drain_mode' = drain_mode
                 /\ Len(processed') = Len(processed) + 1
                 /\ InTransit(st, k - 1)'
        <5>1. InTransit(FirstSignals(sent), k - 1)' /\ k - 1 \in 1..(Fill' + 1)
          BY <1>4, <2>0, <4>3 DEF InTransit, FirstSignals
        <5>2. (k - 1 <= Fill' <=> k <= Fill) /\ (k - 1 > Fill' <=> k > Fill)
          BY <1>6, <3>2
        <5>3. GaugeAtPop' = Fill' - (IF spc' = "count" THEN 1 ELSE 0)
                             - (IF drain_mode' \/ k - 1 <= Fill' THEN 1 ELSE 0)
          <6>1. (IF drain_mode' \/ k - 1 <= Fill' THEN 1 ELSE 0) = (IF drain_mode \/ k <= Fill THEN 1 ELSE 0)
            BY <4>3, <5>2
          <6> QED BY <1>6, <2>0, <3>1, <3>2, <4>1, <6>1
        <5>4. /\ drain_mode => Len(processed) + 1 >= barrier
              /\ k <= Fill => Len(processed) + 1 + (k - 1) - 1 >= barrier
          BY <1>3, <1>6 DEF StreamAt
        <5>5. StreamAt(k - 1)'
          BY <1>3, <1>6, <2>0, <4>3, <5>1, <5>2, <5>3, <5>4 DEF StreamAt
        <5> QED BY <5>1, <5>5
      <4> QED BY <1>2, <1>5, <2>2, <4>2, <4>3, TransitTake DEF IInv
    <3> QED BY <3>2, <3>3, <3>4 DEF RaceFree, RingInv
  <2> QED BY <1>10, <2>1, <2>2, <2>3 DEF Engine, EngineStep
<1>11. CASE Main
  <2>1. CASE PillLoad
    <3>1. LoadIndex("main") /\ mpc = "pill" /\ mpc' = "pillWrite"
          /\ UNCHANGED <<spc, sent, GaugeAtPop, processed, drain_mode, barrier>>
      BY <2>1 DEF PillLoad, Goto, sourceVars, engineVars, history, GaugeAtPop
    <3>2. /\ RingInv' /\ Reserved' /\ Fill' = Fill /\ Waiting' = Waiting
          /\ loaded' = [loaded EXCEPT !["main"] = writeIdx_'] /\ slots' = slots
      BY <1>2, <1>6, <3>1, RingLoad
    <3>3. loaded'["main"] = writeIdx_'
      BY <1>2, <1>6, <3>2 DEF RingInv, RingTypeOK
    <3>4. PushInv'
      BY <1>1, <3>1, <3>2, <3>3 DEF PushInv, MidPush
    <3> QED BY <1>8, <3>1, <3>2, <3>4
  <2>2. CASE PillWrite
    <3>1. ConstructSlot("main", Pill) /\ mpc = "pillWrite" /\ mpc' = "pillPublish"
          /\ UNCHANGED <<spc, sent, GaugeAtPop, processed, drain_mode, barrier>>
      BY <2>2 DEF PillWrite, Goto, sourceVars, engineVars, history, GaugeAtPop
    <3>2. Pill \in Contents /\ loaded["main"] = writeIdx_ /\ Reserved
      BY <1>5, <3>1 DEF PushInv, Contents
    <3>3. /\ RingInv' /\ Reserved' = Reserved /\ Fill' = Fill /\ Waiting' = Waiting
          /\ slots'[writeIdx_'] = Pill /\ UNCHANGED <<loaded, writeIdx_>>
      BY <1>2, <1>6, <3>1, <3>2, RingConstruct
    <3>4. PushInv'
      BY <1>1, <3>1, <3>2, <3>3 DEF PushInv, MidPush
    <3> QED BY <1>8, <3>1, <3>3, <3>4
  <2>3. CASE PillPublish
    <3>1. PublishIndex("main") /\ mpc = "pillPublish" /\ mpc' = "drain"
          /\ UNCHANGED <<spc, sent, GaugeAtPop, processed, drain_mode, barrier>>
      BY <2>3 DEF PillPublish, Goto, sourceVars, engineVars, history, GaugeAtPop
    <3>2. /\ Reserved /\ loaded["main"] = writeIdx_ /\ slots[writeIdx_] = Pill
          /\ k > Fill /\ ~drain_mode
      BY <1>3, <1>5, <3>1 DEF PushInv, StreamAt
    <3>3. RingInv' /\ Fill' = Fill + 1
      BY <1>2, <1>6, <3>1, <3>2, RingPublish
    <3>4. InTransit(st, k)' /\ k = Fill'
      BY <1>2, <1>5, <1>6, <3>1, <3>2, TransitPill
    <3>5. InTransit(FirstSignals(sent), k)'
      BY <1>4, <3>1, <3>4 DEF InTransit, FirstSignals
    <3>6. Len(processed) + k - 1 >= barrier
      <4>1. Len(st) = sent
        BY <1>4, <1>6, FirstSignalsFacts
      <4>2. Len(st) = Len(processed) + Fill
        BY <1>5, <1>6, <3>2 DEF InTransit
      <4> QED BY <1>2, <1>6, <3>3, <3>4, <4>1, <4>2 DEF BatchInv
    <3>7. GaugeAtPop' = Fill' - (IF spc' = "count" THEN 1 ELSE 0)
                         - (IF drain_mode' \/ k <= Fill' THEN 1 ELSE 0)
      <4>1. (IF drain_mode \/ k <= Fill THEN 1 ELSE 0) = 0
        BY <1>6, <3>2
      <4>2. (IF drain_mode' \/ k <= Fill' THEN 1 ELSE 0) = 1
        BY <1>6, <3>3, <3>4
      <4>3. GaugeAtPop = Fill - (IF spc = "count" THEN 1 ELSE 0) - 0
        BY <1>3, <4>1 DEF StreamAt
      <4> QED BY <1>6, <3>1, <3>3, <4>2, <4>3
    <3>8. StreamAt(k)'
      BY <1>6, <3>1, <3>2, <3>3, <3>4, <3>5, <3>6, <3>7 DEF StreamAt
    <3>9. PushInv'
      <4>1. spc \notin {"write", "publish"}
        BY <1>5, <3>1 DEF PushInv, MidPush
      <4> QED BY <3>1, <4>1 DEF PushInv, MidPush
    <3>10. k \in 1..(Fill' + 1)
      BY <1>6, <3>3, <3>4
    <3> QED BY <3>3, <3>8, <3>9, <3>10 DEF RaceFree, RingInv
  <2>4. CASE StopSource
    BY <1>7, <2>4 DEF StopSource, Goto, engineVars, GaugeAtPop
  <2>5. CASE \/ Predicate \/ Block \/ StopServer \/ JoinServer \/ PillTimeout \/ Drained
             \/ DrainTimeout \/ StopEngine \/ StopDispatcher \/ JoinSource \/ JoinEngine
             \/ JoinDispatcher
    <3>1. /\ UNCHANGED <<ringVars, processed, sent, drain_mode, GaugeAtPop, spc, barrier>>
          /\ mpc' \notin {"pillWrite", "pillPublish"}
          /\ mpc' \in BeforePill => mpc \in BeforePill
      BY <2>5 DEF Predicate, Block, StopServer, JoinServer, PillTimeout, Drained, DrainTimeout,
                StopEngine, StopDispatcher, JoinSource, JoinEngine, JoinDispatcher, Goto, threads,
                pipelineVars, engineVars, sourceVars, history, GaugeAtPop
    <3> QED BY <1>7, <3>1
  <2> QED BY <1>11, <2>1, <2>2, <2>3, <2>4, <2>5 DEF Main, MainStep
<1>12. CASE Dispatcher \/ SignalThread \/ Server \/ ProbeArrives \/ ProbeReturns \/ UNCHANGED vars
  <2>1. /\ UNCHANGED <<ringVars, processed, sent, drain_mode, GaugeAtPop, spc, barrier>>
        /\ mpc' = mpc \/ (mpc = "asleep" /\ mpc' = "predicate")
    BY <1>12 DEF Dispatcher, DispatcherStep, SignalThread, StoreFlag, NotifyAll, Server, Listen, ProbeArrives,
              ProbeBegin, ProbeReturns, ProbeEnd, vars, threads, pipelineVars, engineVars,
              sourceVars, history, appVars, AppAtRest, GaugeAtPop
  <2> QED BY <1>7, <2>1
<1> QED BY <1>9, <1>10, <1>11, <1>12 DEF Next

\* Every step of every thread keeps the invariant.
LEMMA StepInv == IInv /\ [Next]_vars => IInv'
<1> SUFFICES ASSUME IInv, [Next]_vars PROVE IInv'
    OBVIOUS
<1>1. RingTypeOK'
  <2>1. CASE UNCHANGED ringVars
    BY <2>1, RingAtRest DEF IInv, TypeOK
  <2>2. CASE \E p \in Producers, x \in Contents :
               LoadIndex(p) \/ ConstructSlot(p, x) \/ PublishIndex(p) \/ LoadFront \/ Pop
    BY <2>2, RingTypeStep DEF IInv, TypeOK
  <2> QED BY <2>1, <2>2, StepKinds
<1>2. EngineTypeOK' /\ AlertsInOrder' /\ FrontSeen' /\ SettledSoFar'
  BY StepKinds, AlertsKept, FrontKept, SettledKept DEF IInv, TypeOK
<1>3. raced' \in BOOLEAN
  BY DEF Next, Source, Engine, Dispatcher, Main, SignalThread, Server, ProbeArrives, ProbeReturns,
         NoteRace, vars, IInv, TypeOK
<1>4. depth' \in Int
  <2>1. depth' \in {depth, depth + 1, depth - 1}
    BY DEF Next, Source, SourceStep, SourceBatch, SourceLoad, SourceWrite, SourcePublish,
           SourceCount, SourceExit, Engine, EngineStep, EngineFront, EngineTake, Consume, Lowered,
           EngineEvaluate, EngineExit, LeaveLoop, Dispatcher, DispatcherStep, Main, MainStep,
           Predicate, Block, StopServer, JoinServer, StopSource, PillLoad, PillWrite, PillPublish,
           PillTimeout, Drained, DrainTimeout, StopEngine, StopDispatcher, JoinSource, JoinEngine,
           JoinDispatcher, SignalThread, StoreFlag, NotifyAll, Server, Listen, ProbeArrives, ProbeBegin,
           ProbeReturns, ProbeEnd, vars, threads, pipelineVars
  <2> QED BY <2>1 DEF IInv, TypeOK
<1>5. TypeOK' /\ StopOrder' /\ BatchInv'
  BY <1>1, <1>2, <1>3, <1>4, BatchStep, StopStep DEF TypeOK
<1>6. ~raced' => RaceFree'
  BY RaceStep
<1> QED BY <1>2, <1>5, <1>6 DEF IInv

\* The inductive invariant holds in every reachable state.
THEOREM InvariantHolds == Spec => []IInv
BY InitInv, StepInv, PTL DEF Spec

\* The engine sees every signal once and in order until the pill and a signal
\* are pushed at the same time: the ring's second producer is the only thing
\* that breaks it.
THEOREM RingIsIntactUnlessRaced == Spec => []IntactUnlessRaced
<1>1. IInv => IntactUnlessRaced
  <2> SUFFICES ASSUME IInv, ~raced PROVE processed = FirstSignals(Len(processed))
    BY DEF IntactUnlessRaced
  <2>1. PICK k : InTransit(FirstSignals(sent), k)
    BY DEF IInv, RaceFree, StreamAt
  <2>2. /\ processed \in Seq(Contents) /\ Len(processed) \in Nat /\ sent \in 0..MaxSignals
        /\ Fill \in Nat
    BY FillBounds, RingAssumption DEF IInv, TypeOK, EngineTypeOK
  <2>3. Len(processed) <= sent
    BY <2>1, <2>2, FirstSignalsFacts DEF InTransit
  <2>4. \A i \in 1..Len(processed) : processed[i] = i
    BY <2>1, <2>2, <2>3, FirstSignalsFacts DEF InTransit
  <2> QED BY <2>2, <2>4 DEF FirstSignals
<1> QED BY <1>1, InvariantHolds, PTL

\* When neither wait ran out and the producers did not collide, every signal
\* pushed before the source was told to stop is evaluated before run() returns.
THEOREM PillWaitsForSignals == Spec => []PillIsBarrier
<1>1. IInv => PillIsBarrier
  BY DEF IInv, PillIsBarrier, StopOrder, WaitOver, EngineTold, DispatcherTold, RaceFree, StreamAt
<1> QED BY <1>1, InvariantHolds, PTL

\* When neither wait ran out, every alert raised has been taken and settled when
\* run() returns - also when the producers collided.
THEOREM NoAlertUnhandled == Spec => []AlertsHandled
<1>1. IInv => AlertsHandled
  <2> SUFFICES ASSUME IInv, mpc = "returned", ~timedOut
               PROVE  Settled /\ taken = AlertsOf(processed)
    BY DEF AlertsHandled
  <2>1. queue_ = << >> /\ epc = "done" /\ dpc = "done"
    BY DEF IInv, StopOrder, WaitOver, EngineTold, DispatcherTold
  <2>2. taken \o << >> = taken
    BY DEF IInv, TypeOK, EngineTypeOK
  <2>3. Settled
    BY <2>1, SettledAtRest DEF IInv, TypeOK
  <2> QED BY <2>1, <2>2, <2>3 DEF IInv, AlertsInOrder
<1> QED BY <1>1, InvariantHolds, PTL

\* The gauge is what the ring holds, short of the push not counted yet, of the
\* signal counted out and not popped yet and, for good, of the pill.
THEOREM GaugeFollowsRing == Spec => []DepthGauge
<1>1. IInv => DepthGauge
  <2> SUFFICES ASSUME IInv, ~raced
               PROVE  depth = Fill - (IF spc = "count" THEN 1 ELSE 0)
                                   - (IF epc = "take" THEN 1 ELSE 0) - (IF PillSent THEN 1 ELSE 0)
    BY DEF DepthGauge
  <2>1. PICK k \in 1..(Fill + 1) : StreamAt(k)
    BY DEF IInv, RaceFree
  <2>2. Fill \in Nat /\ DOMAIN Waiting = 1..Fill /\ Len(processed) \in Nat
    BY FillBounds, RingAssumption DEF IInv, TypeOK, EngineTypeOK
  <2>3. (\E i \in DOMAIN Waiting : Waiting[i] = Pill) <=> k <= Fill
    <3>1. ASSUME k <= Fill PROVE k \in DOMAIN Waiting /\ Waiting[k] = Pill
      BY <2>1, <2>2, <3>1 DEF StreamAt, InTransit
    <3>2. ASSUME NEW i \in DOMAIN Waiting, Waiting[i] = Pill PROVE i = k
      BY <2>1, <2>2, <3>2, PillPlace DEF StreamAt, IInv, TypeOK
    <3> QED BY <2>2, <3>1, <3>2
  <2>4. PillSent <=> drain_mode \/ k <= Fill
    BY <2>3 DEF PillSent
  <2>5. (IF PillSent THEN 1 ELSE 0) = (IF drain_mode \/ k <= Fill THEN 1 ELSE 0)
    BY <2>4
  <2>6. GaugeAtPop = Fill - (IF spc = "count" THEN 1 ELSE 0) - (IF PillSent THEN 1 ELSE 0)
    BY <2>1, <2>5 DEF StreamAt
  <2> QED BY <2>2, <2>6 DEF GaugeAtPop, IInv, TypeOK
<1> QED BY <1>1, InvariantHolds, PTL
=============================================================================
