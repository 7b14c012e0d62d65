------------------------- MODULE BacktestRunProofs -------------------------
(***************************************************************************)
(* Proofs about a backtest for every chain, range, ring size and choice of *)
(* the signals that raise alerts: the source in the pipeline implements    *)
(* EventSource, so what is proved of EventSource holds of it, and the      *)
(* report is complete.                                                     *)
(***************************************************************************)
EXTENDS BacktestRun, PipelineProofs, FiniteSetTheorems

\* The theorems about EventSource, of the source of this run.
SrcP == INSTANCE EventSourceProofs WITH out_ <- SignalsWaiting

\* What EventSource assumes of its chain and its configuration holds here.
LEMMA SourceAssumptions == SrcP!ChainAssumption /\ SrcP!ConfigAssumption
BY SourceAssumption, BacktestAssumption, PipelineAssumption, RingAssumption
   DEF SrcP!ChainAssumption, SrcP!ConfigAssumption

\* The two instances are of the same module: their actions are the same.
LEMMA SameInit == Src!Init => SrcP!Init
BY DEF Src!Init, SrcP!Init

\* The two instances of EventSource, with and without its proofs, take the same steps.
LEMMA SameNext == [Src!Next]_Src!vars => [SrcP!Next]_SrcP!vars
<1> USE DEF Src!vars, Src!cursor, Src!shared, Src!threadVars, Src!history,
            SrcP!vars, SrcP!cursor, SrcP!shared, SrcP!threadVars, SrcP!history,
            Src!MinBlockRange, SrcP!MinBlockRange, Src!AtMost, SrcP!AtMost, Src!AtLeast, SrcP!AtLeast,
            Src!to_block, SrcP!to_block, Src!LogsIn, SrcP!LogsIn, Src!Visible, SrcP!Visible,
            Src!HeadIsStale, SrcP!HeadIsStale, Src!Clip, SrcP!Clip,
            Src!ChooseRange, SrcP!ChooseRange, Src!RangeExhausted, SrcP!RangeExhausted,
            Src!IsFirst, SrcP!IsFirst, Src!PushLog, SrcP!PushLog, Src!MoveCursor, SrcP!MoveCursor
<1>1. Src!Iterate = SrcP!Iterate /\ Src!Exit = SrcP!Exit
  BY DEF Src!Iterate, SrcP!Iterate, Src!Exit, SrcP!Exit
<1>2. ASSUME NEW seen
      PROVE  Src!ColdStart(seen) = SrcP!ColdStart(seen) /\ Src!RefreshHead(seen) = SrcP!RefreshHead(seen)
             /\ Src!GetLogs(seen) = SrcP!GetLogs(seen)
  BY DEF Src!ColdStart, SrcP!ColdStart, Src!RefreshHead, SrcP!RefreshHead, Src!GetLogs, SrcP!GetLogs
<1>3. Src!UseCachedHead = SrcP!UseCachedHead /\ Src!LatestBlockFails = SrcP!LatestBlockFails
      /\ Src!GetLogsFails = SrcP!GetLogsFails /\ Src!AdvanceCursor = SrcP!AdvanceCursor
      /\ Src!Stop = SrcP!Stop /\ Src!NewBlock = SrcP!NewBlock /\ Src!Drain = SrcP!Drain
  BY DEF Src!UseCachedHead, SrcP!UseCachedHead, Src!LatestBlockFails, SrcP!LatestBlockFails,
         Src!GetLogsFails, SrcP!GetLogsFails, Src!AdvanceCursor, SrcP!AdvanceCursor,
         Src!Stop, SrcP!Stop, Src!NewBlock, SrcP!NewBlock, Src!Drain, SrcP!Drain
<1>4. ASSUME NEW l
      PROVE  Src!Normalize(l) = SrcP!Normalize(l) /\ Src!NormalizeFails(l) = SrcP!NormalizeFails(l)
             /\ Src!PushBlocking(l) = SrcP!PushBlocking(l)
  BY DEF Src!Normalize, SrcP!Normalize, Src!NormalizeFails, SrcP!NormalizeFails,
         Src!PushBlocking, SrcP!PushBlocking
<1>5. Src!Next = SrcP!Next
  BY <1>1, <1>2, <1>3, <1>4 DEF Src!Next, SrcP!Next, Src!Thread, SrcP!Thread, Src!Poll, SrcP!Poll
<1> QED BY <1>5

\* What EventSource keeps, its counterpart here keeps.
LEMMA SourceKeepsInv == SrcP!IInv /\ [Src!Next]_Src!vars => SrcP!IInv'
BY SourceAssumptions, SrcP!StepInv, SameNext

\* The source starts in its invariants.
LEMMA SourceStart == Src!Init => SrcP!IInv /\ SrcP!OrderInv
BY SourceAssumptions, SrcP!InitInv, SrcP!OrderStart, SameInit

\* A step of the source keeps its order, on a range without malformed logs.
LEMMA SourceOrderStep ==
  ASSUME Malformed = {}, SrcP!IInv, SrcP!OrderInv, [Src!Next]_Src!vars
  PROVE  SrcP!OrderInv'
BY SourceAssumptions, SrcP!OrderStep, SameNext
----------------------------------------------------------------------------
(* The inductive invariant *)

BeforePill     == {"joinSource", "pill", "pillWrite", "pillPublish"}
DispatcherTold == {"joinDispatcher", "returned"}
EngineJoined   == {"stopDispatcher"} \cup DispatcherTold
EngineTold     == {"joinEngine"} \cup EngineJoined
WaitOver       == {"stopEngine"} \cup EngineTold

TypeOK ==
  /\ RingTypeOK /\ EngineTypeOK
  /\ engineRunning \in BOOLEAN /\ finished_ \in BOOLEAN /\ drain_mode \in BOOLEAN
  /\ dispatcherRunning \in BOOLEAN /\ timedOut \in BOOLEAN
  /\ dpc \in {"start", "loop", "handle", "done"}
  /\ mpc \in BeforePill \cup {"drain"} \cup WaitOver
  /\ spc \in {"idle", "write", "publish"}

\* Who has told whom to stop, and what that means: the engine is joined before
\* the dispatcher is told, so the queue stays empty once the dispatcher's run()
\* has returned; and unless a wait ran out the engine saw the pill.
StopOrder ==
  /\ finished_ <=> epc = "done"
  /\ finished_ => drain_mode \/ ~engineRunning
  /\ ~engineRunning => mpc \in EngineTold
  /\ mpc \in WaitOver /\ ~timedOut => epc = "done" /\ drain_mode
  /\ mpc \in EngineJoined => epc = "done"
  /\ dpc \in {"loop", "handle"} /\ ~dispatcherRunning => mpc \in DispatcherTold
  /\ dpc = "done" => mpc \in DispatcherTold /\ queue_ = << >>
  /\ mpc = "returned" => dpc = "done"

\* The source is done before the main thread pushes: each producer inside
\* try_push is alone there, has the write index and room, and after the second
\* step its element in the slot.
PushInv ==
  /\ mpc # "joinSource" => pc = "done"
  /\ spc # "idle" => pc = "push" /\ Reserved /\ loaded["source"] = writeIdx_
  /\ spc = "publish" => \A l \in Logs : Src!IsFirst(l) => slots[writeIdx_] = l
  /\ mpc \in {"pillWrite", "pillPublish"} => Reserved /\ loaded["main"] = writeIdx_
  /\ mpc = "pillPublish" => slots[writeIdx_] = Pill

\* The signals pushed, the engine's and those in the ring, are the logs
\* delivered, in chain order when none is malformed; the pill comes last.
StreamAt(st, k) ==
  /\ InTransit(st, k)
  /\ ToSet(st) = delivered
  /\ Malformed = {} => InChainOrder(st)
  /\ mpc \in BeforePill => k > Fill /\ ~drain_mode
  /\ k <= Fill => k = Fill /\ ~drain_mode
  /\ drain_mode => Fill = 0

SourceInv == SrcP!IInv /\ (Malformed = {} => SrcP!OrderInv)

IInv == /\ TypeOK /\ StopOrder /\ FrontSeen /\ AlertsInOrder /\ SettledSoFar
        /\ CachesBehind /\ PushInv /\ SourceInv /\ \E st, k : StreamAt(st, k)
----------------------------------------------------------------------------
\* The count EventSource keeps of the ring leaves the pill out.
LEMMA CountWaiting ==
  ASSUME EngineTypeOK, RingTypeOK, NEW st, NEW k, InTransit(st, k)
  PROVE  SignalsWaiting = IF k <= Fill THEN Fill - 1 ELSE Fill
<1>1. Fill \in Nat /\ k \in Nat \ {0} /\ DOMAIN Waiting = 1..Fill
  BY FillBounds, RingAssumption DEF InTransit
<1>2. IsFiniteSet(1..Fill) /\ Cardinality(1..Fill) = Fill
  BY <1>1, FS_Interval
<1>3. {i \in DOMAIN Waiting : Waiting[i] # Pill} = (1..Fill) \ {k}
  BY <1>1, PillPlace
<1>4. CASE k <= Fill
  <2>1. k \in 1..Fill
    BY <1>1, <1>4
  <2> QED BY <1>2, <1>3, <1>4, <2>1, FS_RemoveElement DEF SignalsWaiting
<1>5. CASE ~(k <= Fill)
  <2>1. (1..Fill) \ {k} = 1..Fill
    BY <1>1, <1>5
  <2> QED BY <1>2, <1>3, <1>5, <2>1 DEF SignalsWaiting
<1> QED BY <1>4, <1>5

\* The same of the next state.
Counted ==
  EngineTypeOK /\ RingTypeOK =>
    \A st, k : InTransit(st, k) => SignalsWaiting = IF k <= Fill THEN Fill - 1 ELSE Fill

\* The same after a step.
LEMMA CountNext == Counted'
<1>1. Counted
  BY CountWaiting DEF Counted
<1> QED BY <1>1, PTL

\* The fill stays within the ring after a step.
LEMMA FillNext == (RingTypeOK => Fill \in 0..Capacity)'
<1>1. RingTypeOK => Fill \in 0..Capacity
  BY FillBounds
<1> QED BY <1>1, PTL

\* Steps that leave the ring's contents and the engine's history alone.
LEMMA StreamAtRest ==
  ASSUME Fill' = Fill, Waiting' = Waiting, NEW st, NEW k, StreamAt(st, k),
         UNCHANGED <<processed, delivered, drain_mode>>, mpc' \in BeforePill => mpc \in BeforePill
  PROVE  StreamAt(st, k)' /\ SignalsWaiting' = SignalsWaiting
BY TransitAtRest DEF StreamAt, SignalsWaiting

\* What poll_once does outside the push.
LEMMA PollFrame ==
  ASSUME Src!Poll
  PROVE  pc \notin {"push", "done"} /\ UNCHANGED <<delivered, SignalsWaiting>>
BY DEF Src!Poll, Src!Iterate, Src!Exit, Src!ColdStart, Src!RefreshHead, Src!UseCachedHead,
       Src!LatestBlockFails, Src!GetLogs, Src!GetLogsFails, Src!Normalize, Src!NormalizeFails,
       Src!AdvanceCursor, Src!MoveCursor, Src!shared, Src!history

\* A backtest starts with everything empty and the script at its beginning.
LEMMA InitInv == Init => IInv
<1> SUFFICES ASSUME Init PROVE IInv
    OBVIOUS
<1> USE DEF Init
<1>1. /\ RingInv /\ Fill = 0 /\ EngineTypeOK /\ FrontSeen /\ AlertsInOrder /\ SettledSoFar
  BY RingStart, AlertsStart DEF PipelineInit
<1>2. /\ epc = "loop" /\ engineRunning = TRUE /\ finished_ = FALSE /\ drain_mode = FALSE
      /\ dispatcherRunning = FALSE /\ dpc = "start" /\ processed = << >>
  BY DEF PipelineInit, QueueInit
<1>3. TypeOK
  <2>1. /\ engineRunning \in BOOLEAN /\ finished_ \in BOOLEAN /\ drain_mode \in BOOLEAN
        /\ dispatcherRunning \in BOOLEAN /\ timedOut \in BOOLEAN
    BY <1>2, Zenon
  <2> QED BY <1>1, <1>2, <2>1 DEF TypeOK, RingInv, BeforePill
<1>4. StopOrder
  BY <1>2 DEF StopOrder, WaitOver, EngineTold, EngineJoined, DispatcherTold
<1>5. PushInv
  BY DEF PushInv
<1>6. SourceInv
  BY SourceStart DEF SourceInv
<1>7. StreamAt(<< >>, 1)
  <2>1. InTransit(<< >>, 1)
    BY <1>1, <1>2 DEF InTransit
  <2>2. ToSet(<< >>) = {} /\ delivered = {}
    BY DEF ToSet, Src!Init
  <2>3. InChainOrder(<< >>)
    BY DEF InChainOrder
  <2> QED BY <1>1, <1>2, <2>1, <2>2, <2>3 DEF StreamAt
<1> QED BY <1>1, <1>3, <1>4, <1>5, <1>6, <1>7 DEF IInv, RingInv

\* How a step can touch the ring, and how the engine and the dispatcher.
LEMMA StepKinds ==
  ASSUME IInv, [Next]_vars
  PROVE  /\ \/ UNCHANGED ringVars
            \/ \E p \in Producers, x \in Contents :
                 LoadIndex(p) \/ ConstructSlot(p, x) \/ PublishIndex(p) \/ LoadFront \/ Pop
         /\ \/ EngineStep \/ DispatcherStep
            \/ UNCHANGED <<epc, signal, processed, taken, queue_>>
         /\ EngineStep \/ UNCHANGED <<epc, readIdx_, writeIdxCache_>>
         /\ DispatcherStep \/ UNCHANGED <<dpc, taken, offered>>
<1>1. "source" \in Producers /\ "main" \in Producers /\ Pill \in Contents
  BY PipelineAssumption DEF Contents
<1>2. \A l \in Logs : l \in Contents
  BY BacktestAssumption DEF Contents
<1>3. CASE Source
  <2>1. UNCHANGED <<epc, signal, processed, taken, queue_, dpc, offered>>
    BY <1>3 DEF Source, SourcePoll, SourceLoad, SourceWrite, SourcePublish, pipelineVars,
                engineVars, queueVars, alertVars
  <2>2. CASE SourceLoad
    BY <1>1, <2>1, <2>2 DEF SourceLoad, LoadIndex
  <2>3. CASE SourceWrite
    BY <1>1, <1>2, <2>1, <2>3 DEF SourceWrite, ConstructSlot
  <2>4. CASE SourcePublish
    BY <1>1, <2>1, <2>4 DEF SourcePublish, PublishIndex
  <2>5. CASE SourcePoll
    BY <2>1, <2>5 DEF SourcePoll, pipelineVars, ringVars
  <2> QED BY <1>3, <2>2, <2>3, <2>4, <2>5 DEF Source
<1>4. CASE Engine
  <2>1. LoadFront \/ Pop \/ UNCHANGED ringVars
    BY <1>4 DEF Engine, EngineStep, EngineFront, EngineTake, Consume, EngineEvaluate, EngineExit,
                LeaveLoop
  <2>2. UNCHANGED <<dpc, taken, offered>>
    BY <1>4 DEF Engine, EngineStep, EngineFront, EngineTake, Consume, EngineEvaluate, dispatch,
                EngineExit, LeaveLoop, queueVars, alertVars
  <2> QED BY <1>1, <1>4, <2>1, <2>2 DEF Engine
<1>5. CASE Dispatcher
  BY <1>5 DEF Dispatcher, DispatcherStep, engineVars, ringVars
<1>6. CASE Main
  <2>1. UNCHANGED <<epc, signal, processed, taken, queue_, dpc, offered>>
    BY <1>6 DEF Main, JoinSource, PillLoad, PillWrite, PillPublish, PillTimeout, Drained,
                DrainTimeout, StopEngine, JoinEngine, StopDispatcher, DispatcherStop,
                JoinDispatcher, others, pipelineVars, engineVars, queueVars, alertVars
  <2>2. CASE PillLoad
    BY <1>1, <2>1, <2>2 DEF PillLoad, LoadIndex
  <2>3. CASE PillWrite
    BY <1>1, <2>1, <2>3 DEF PillWrite, ConstructSlot
  <2>4. CASE PillPublish
    BY <1>1, <2>1, <2>4 DEF PillPublish, PublishIndex
  <2>5. ASSUME ~PillLoad, ~PillWrite, ~PillPublish PROVE UNCHANGED ringVars
    BY <1>6, <2>5 DEF Main, JoinSource, PillTimeout, Drained, DrainTimeout, StopEngine,
                      JoinEngine, StopDispatcher, JoinDispatcher, others, pipelineVars
  <2> QED BY <2>1, <2>2, <2>3, <2>4, <2>5 DEF ringVars
<1>7. CASE NewBlock \/ UNCHANGED vars
  BY <1>7 DEF NewBlock, vars, pipelineVars, ringVars, engineVars, queueVars, alertVars
<1> QED BY <1>3, <1>4, <1>5, <1>6, <1>7 DEF Next

\* The order in which the threads are stopped.
LEMMA StopStep ==
  ASSUME IInv, [Next]_vars
  PROVE  /\ engineRunning' \in BOOLEAN /\ finished_' \in BOOLEAN /\ drain_mode' \in BOOLEAN
         /\ dispatcherRunning' \in BOOLEAN /\ timedOut' \in BOOLEAN
         /\ dpc' \in {"start", "loop", "handle", "done"}
         /\ mpc' \in BeforePill \cup {"drain"} \cup WaitOver
         /\ StopOrder'
<1> DEFINE Types ==
         /\ engineRunning \in BOOLEAN /\ finished_ \in BOOLEAN /\ drain_mode \in BOOLEAN
         /\ dispatcherRunning \in BOOLEAN /\ timedOut \in BOOLEAN
         /\ dpc \in {"start", "loop", "handle", "done"}
         /\ mpc \in BeforePill \cup {"drain"} \cup WaitOver
<1> SUFFICES Types' /\ StopOrder'
    OBVIOUS
<1>1. Types /\ StopOrder /\ epc \in {"loop", "take", "evaluate", "done"}
  BY DEF IInv, TypeOK, EngineTypeOK
<1> USE DEF BeforePill, WaitOver, EngineTold, EngineJoined, DispatcherTold, StopOrder
<1>2. CASE UNCHANGED <<engineRunning, finished_, drain_mode, dispatcherRunning, timedOut, dpc,
                       epc, queue_, mpc>>
  BY <1>1, <1>2
<1>3. CASE Engine
  <2>0. UNCHANGED <<engineRunning, dispatcherRunning, timedOut, dpc, mpc>>
    BY <1>3 DEF Engine, EngineStep, EngineFront, EngineTake, Consume, EngineEvaluate, dispatch, EngineExit,
              LeaveLoop, queueVars, alertVars, mainVars
  <2>1. CASE EngineFront \/ EngineTake
    <3>1. /\ epc \in {"loop", "take"} /\ epc' \in {"loop", "take", "evaluate"}
          /\ finished_' = finished_ /\ queue_' = queue_
          /\ drain_mode' = TRUE \/ drain_mode' = drain_mode
      BY <2>1 DEF EngineFront, EngineTake, Consume, queueVars, alertVars
    <3> QED BY <1>1, <2>0, <3>1
  <2>2. CASE EngineEvaluate
    <3>1. epc = "evaluate" /\ epc' = "loop" /\ UNCHANGED <<finished_, drain_mode>>
      BY <2>2 DEF EngineEvaluate
    <3> QED BY <1>1, <2>0, <3>1
  <2>3. CASE EngineExit
    <3>1. /\ epc = "loop" /\ epc' = "done" /\ finished_' = TRUE /\ (~engineRunning \/ drain_mode)
          /\ UNCHANGED <<drain_mode, queue_>>
      BY <2>3 DEF EngineExit, LeaveLoop, queueVars, alertVars
    <3> QED BY <1>1, <2>0, <3>1
  <2> QED BY <1>3, <2>1, <2>2, <2>3 DEF Engine, EngineStep
<1>4. CASE Dispatcher
  <2>0. UNCHANGED <<engineRunning, finished_, drain_mode, timedOut, mpc, epc>>
    BY <1>4 DEF Dispatcher, DispatcherStep, engineVars, mainVars
  <2>1. \/ /\ dpc = "start" /\ dispatcherRunning' = TRUE /\ dpc' = "loop" /\ queue_' = queue_
        \/ /\ dpc = "loop" /\ dpc' = "handle" /\ UNCHANGED dispatcherRunning
        \/ /\ dpc = "loop" /\ queue_ = << >> /\ ~dispatcherRunning /\ dpc' = "done"
           /\ UNCHANGED <<queue_, dispatcherRunning>>
        \/ dpc = "handle" /\ dpc' = "loop" /\ UNCHANGED <<queue_, dispatcherRunning>>
    BY <1>4 DEF Dispatcher, DispatcherStep, DispatcherStart, TakeAlert, DispatcherExit, BackToWait
  <2> QED BY <1>1, <2>0, <2>1
<1>5. CASE Main
  <2>0. UNCHANGED <<finished_, drain_mode, dpc, epc, queue_>>
    BY <1>5 DEF Main, JoinSource, PillLoad, PillWrite, PillPublish, PillTimeout, Drained,
                DrainTimeout, StopEngine, JoinEngine, StopDispatcher, DispatcherStop,
                JoinDispatcher, others, pipelineVars, engineVars, queueVars, alertVars
  <2>1. CASE JoinSource \/ PillLoad \/ PillWrite \/ PillPublish \/ PillTimeout
    <3>1. /\ UNCHANGED <<engineRunning, dispatcherRunning>>
          /\ mpc \in BeforePill /\ mpc' \in BeforePill \cup {"drain"}
          /\ timedOut' \in {timedOut, TRUE}
      BY <2>1 DEF JoinSource, PillLoad, PillWrite, PillPublish, PillTimeout, Goto, others,
                  pipelineVars, engineVars, queueVars, alertVars
    <3> QED BY <1>1, <2>0, <3>1
  <2>2. CASE Drained
    <3>1. /\ UNCHANGED <<engineRunning, dispatcherRunning, timedOut>>
          /\ mpc = "drain" /\ mpc' = "stopEngine" /\ finished_
      BY <2>2 DEF Drained, Goto, others, pipelineVars, engineVars, queueVars, alertVars
    <3> QED BY <1>1, <2>0, <3>1
  <2>3. CASE DrainTimeout
    <3>1. /\ UNCHANGED <<engineRunning, dispatcherRunning>> /\ timedOut' = TRUE
          /\ mpc = "drain" /\ mpc' = "stopEngine"
      BY <2>3 DEF DrainTimeout, Goto, others, pipelineVars, engineVars, queueVars, alertVars
    <3> QED BY <1>1, <2>0, <3>1
  <2>4. CASE StopEngine
    <3>1. /\ UNCHANGED <<dispatcherRunning, timedOut>> /\ engineRunning' = FALSE
          /\ mpc = "stopEngine" /\ mpc' = "joinEngine"
      BY <2>4 DEF StopEngine, Goto, queueVars, alertVars
    <3> QED BY <1>1, <2>0, <3>1
  <2>5. CASE JoinEngine
    <3>1. /\ UNCHANGED <<engineRunning, dispatcherRunning, timedOut>>
          /\ mpc = "joinEngine" /\ mpc' = "stopDispatcher" /\ epc = "done"
      BY <2>5 DEF JoinEngine, Goto, others, pipelineVars, engineVars, queueVars, alertVars
    <3> QED BY <1>1, <2>0, <3>1
  <2>6. CASE StopDispatcher
    <3>1. /\ UNCHANGED <<engineRunning, timedOut>> /\ dispatcherRunning' = FALSE
          /\ mpc = "stopDispatcher" /\ mpc' = "joinDispatcher"
      BY <2>6 DEF StopDispatcher, DispatcherStop, Goto, engineVars
    <3> QED BY <1>1, <2>0, <3>1
  <2>7. CASE JoinDispatcher
    <3>1. /\ UNCHANGED <<engineRunning, dispatcherRunning, timedOut>>
          /\ mpc = "joinDispatcher" /\ mpc' = "returned" /\ dpc = "done"
      BY <2>7 DEF JoinDispatcher, Goto, others, pipelineVars, engineVars, queueVars, alertVars
    <3> QED BY <1>1, <2>0, <3>1
  <2> QED BY <1>5, <2>1, <2>2, <2>3, <2>4, <2>5, <2>6, <2>7 DEF Main
<1>6. CASE Source \/ NewBlock \/ UNCHANGED vars
  <2>1. UNCHANGED <<engineRunning, finished_, drain_mode, dispatcherRunning, timedOut, dpc,
                    epc, queue_, mpc>>
    BY <1>6 DEF Source, SourcePoll, SourceLoad, SourceWrite, SourcePublish, NewBlock, vars,
                pipelineVars, engineVars, queueVars, alertVars, mainVars
  <2> QED BY <1>2, <2>1
<1> QED BY <1>3, <1>4, <1>5, <1>6 DEF Next

\* The next log goes to the end of the stream, behind every log pushed before.
LEMMA LongerStream ==
  ASSUME NEW st \in Seq(Signals), NEW l \in Signals
  PROVE  /\ ToSet(Append(st, l)) = ToSet(st) \cup {l}
         /\ InChainOrder(st) /\ (\A k \in ToSet(st) : k < l) => InChainOrder(Append(st, l))
<1> DEFINE u == Append(st, l)
<1>1. /\ Len(st) \in Nat /\ DOMAIN st = 1..Len(st) /\ DOMAIN u = 1..(Len(st) + 1)
      /\ u[Len(st) + 1] = l /\ \A i \in 1..Len(st) : u[i] = st[i]
  OBVIOUS
<1> HIDE DEF u
<1>2. ToSet(u) = ToSet(st) \cup {l}
  <2>1. ASSUME NEW i \in DOMAIN u PROVE u[i] \in ToSet(st) \cup {l}
    <3>1. i = Len(st) + 1 \/ i \in 1..Len(st)
      BY <1>1
    <3> QED BY <1>1, <3>1 DEF ToSet
  <2>2. ASSUME NEW i \in DOMAIN st PROVE st[i] \in ToSet(u)
    <3>1. i \in DOMAIN u /\ u[i] = st[i]
      BY <1>1
    <3> QED BY <3>1 DEF ToSet
  <2>3. l \in ToSet(u)
    <3>1. Len(st) + 1 \in DOMAIN u
      BY <1>1
    <3> QED BY <1>1, <3>1 DEF ToSet
  <2> QED BY <2>1, <2>2, <2>3 DEF ToSet
<1>3. ASSUME InChainOrder(st), \A k \in ToSet(st) : k < l PROVE InChainOrder(u)
  <2> SUFFICES ASSUME NEW i \in DOMAIN u, NEW j \in DOMAIN u, i < j PROVE u[i] < u[j]
    BY DEF InChainOrder
  <2>1. i \in DOMAIN st /\ u[i] = st[i]
    BY <1>1
  <2>2. CASE j = Len(st) + 1
    BY <1>1, <1>3, <2>1, <2>2 DEF ToSet
  <2>3. CASE j # Len(st) + 1
    <3>1. j \in DOMAIN st /\ u[j] = st[j]
      BY <1>1, <2>3
    <3> QED BY <1>3, <2>1, <3>1 DEF InChainOrder
  <2> QED BY <2>2, <2>3
<1> QED BY <1>2, <1>3 DEF u

\* A step that leaves what EventSource sees alone is a stutter of it.
LEMMA SourceAtRest ==
  ASSUME UNCHANGED sourceVars, SignalsWaiting' = SignalsWaiting
  PROVE  UNCHANGED Src!vars
BY DEF sourceVars, Src!vars, Src!threadVars, Src!cursor, Src!shared, Src!history

\* The push of EventSource: it takes effect when the index is published.
LEMMA PublishStep ==
  ASSUME IInv, SourcePublish
  PROVE  CachesBehind' /\ PushInv' /\ (\E st, k : StreamAt(st, k)') /\ Src!Next
<1>1. PICK l \in Logs : Src!PushLog(l)
  BY DEF SourcePublish
<1>2. PICK st, k : StreamAt(st, k)
  BY DEF IInv
<1>3. /\ spc = "publish" /\ PublishIndex("source") /\ spc' = "idle"
      /\ UNCHANGED <<processed, drain_mode, mpc, epc>>
  BY DEF SourcePublish, engineVars, mainVars
<1>4. /\ l \in Signals /\ "source" \in Producers /\ RingInv /\ EngineTypeOK
      /\ mpc \in BeforePill \cup {"drain"} \cup WaitOver
  BY BacktestAssumption, PipelineAssumption DEF IInv, TypeOK, RingInv
<1>5. /\ pc = "push" /\ Reserved /\ loaded["source"] = writeIdx_ /\ mpc = "joinSource"
      /\ Src!IsFirst(l)
  BY <1>1, <1>3 DEF IInv, PushInv, Src!PushLog
<1>6. slots[writeIdx_] = l
  BY <1>3, <1>5 DEF IInv, PushInv
<1>7. /\ RingInv' /\ Fill' = Fill + 1
  BY <1>3, <1>4, <1>5, RingPublish
<1>8. k > Fill /\ ~drain_mode /\ InTransit(st, k) /\ ToSet(st) = delivered /\ st \in Seq(Signals)
      /\ k = Fill + 1 /\ Fill \in Nat
  BY <1>2, <1>4, <1>5, FillBounds, RingAssumption DEF StreamAt, BeforePill, InTransit, RingInv
<1>9. PICK j : InTransit(Append(st, l), j)' /\ j = Fill' + 1
  <2>1. PICK j : InTransit(Append(st, l), j)' /\ j = IF k <= Fill THEN k ELSE Fill' + 1
    BY <1>3, <1>4, <1>5, <1>6, <1>8, TransitPush
  <2> QED BY <1>8, <2>1
<1>10. StreamAt(Append(st, l), j)'
  <2>1. ToSet(Append(st, l)) = delivered'
    BY <1>1, <1>4, <1>8, LongerStream DEF Src!PushLog
  <2>2. Malformed = {} => InChainOrder(Append(st, l))
    <3> SUFFICES ASSUME Malformed = {} PROVE InChainOrder(Append(st, l))
      OBVIOUS
    <3>1. InChainOrder(st)
      BY <1>2 DEF StreamAt
    <3>2. \A i \in delivered : i < l
      BY <1>5 DEF IInv, SourceInv, SrcP!OrderInv, Src!IsFirst
    <3> QED BY <1>4, <1>8, <3>1, <3>2, LongerStream
  <2>3. ~drain_mode' /\ j > Fill' /\ ~(j <= Fill')
    BY <1>3, <1>7, <1>8, <1>9
  <2> QED BY <1>9, <2>1, <2>2, <2>3 DEF StreamAt
<1>11. PushInv'
  BY <1>3, <1>5 DEF PushInv
<1>12. Src!PushBlocking(l)
  <2>1. EngineTypeOK'
    BY <1>4, StepKinds, AlertsKept DEF IInv, RingInv, Next, Source, TypeOK
  <2>2. SignalsWaiting = Fill /\ SignalsWaiting' = Fill'
    <3>1. SignalsWaiting = Fill
      BY <1>4, <1>8, CountWaiting DEF RingInv
    <3>2. (SignalsWaiting = IF j <= Fill THEN Fill - 1 ELSE Fill)'
      BY <1>7, <1>9, <2>1, CountNext DEF RingInv, Counted
    <3> QED BY <1>7, <1>8, <1>9, <3>1, <3>2
  <2>3. Fill' \in 0..Capacity
    BY <1>7, FillNext DEF RingInv
  <2> QED BY <1>1, <1>7, <1>8, <2>2, <2>3, RingAssumption DEF Src!PushBlocking
<1> QED BY <1>7, <1>10, <1>11, <1>12 DEF RingInv, Src!Next, Src!Thread

\* The engine's pop: of a signal it is the drain of EventSource, of the pill
\* nothing the source could tell.
LEMMA TakeStep ==
  ASSUME IInv, Engine, EngineTake
  PROVE  CachesBehind' /\ PushInv' /\ (\E st, k : StreamAt(st, k)') /\ [Src!Next]_Src!vars
<1>1. PICK st, k : StreamAt(st, k)
  BY DEF IInv
<1>2. UNCHANGED <<sourceVars, spc, mainVars>> /\ Pop /\ readIdx_ # writeIdxCache_
  BY DEF Engine, EngineTake, Consume, IInv, FrontSeen
<1>3. RingInv /\ EngineTypeOK /\ InTransit(st, k)
  BY <1>1 DEF IInv, TypeOK, RingInv, StreamAt
<1>4. /\ RingInv' /\ Fill \in Nat \ {0} /\ Fill' = Fill - 1
      /\ (Reserved => Reserved') /\ UNCHANGED <<slots, writeIdx_, loaded>>
  BY <1>2, <1>3, RingPop
<1>5. EngineTypeOK'
  BY <1>3, StepKinds, AlertsKept DEF IInv, RingInv, Next, TypeOK, Engine
<1>6. PushInv'
  <2>1. \A l : Src!IsFirst(l)' = Src!IsFirst(l)
    BY <1>2 DEF sourceVars, Src!IsFirst
  <2> QED BY <1>2, <1>4, <2>1 DEF IInv, PushInv, sourceVars, mainVars
<1>7. k \in Nat /\ UNCHANGED <<delivered, mpc>>
  BY <1>2, <1>3, <1>4 DEF InTransit, sourceVars, mainVars
<1>8. SignalsWaiting = IF k <= Fill THEN Fill - 1 ELSE Fill
  BY <1>3, CountWaiting DEF RingInv
<1>9. CASE /\ k = 1 /\ k <= Fill /\ drain_mode' /\ processed' = processed
           /\ \E j : InTransit(st, j)' /\ j > Fill'
  <2>1. PICK j : InTransit(st, j)' /\ j > Fill'
    BY <1>9
  <2>2. Fill = 1 /\ Fill' = 0 /\ mpc \notin BeforePill
    BY <1>1, <1>4, <1>7, <1>9 DEF StreamAt
  <2>3. StreamAt(st, j)'
    BY <1>1, <1>7, <1>9, <2>1, <2>2 DEF StreamAt, InTransit
  <2>4. (SignalsWaiting = IF j <= Fill THEN Fill - 1 ELSE Fill)'
    BY <1>4, <1>5, <2>1, CountNext DEF RingInv, Counted
  <2>5. SignalsWaiting' = SignalsWaiting
    BY <1>8, <1>9, <2>1, <2>2, <2>4 DEF InTransit
  <2> QED BY <1>2, <1>4, <1>6, <2>3, <2>5, SourceAtRest DEF RingInv
<1>10. CASE k # 1 /\ drain_mode' = drain_mode /\ InTransit(st, k - 1)'
  <2>1. PICK j \in Nat : j = k - 1
    BY <1>3, <1>4, <1>7, <1>10 DEF InTransit
  <2>2. InTransit(st, j)'
    BY <1>10, <2>1
  <2>3. j <= Fill' <=> k <= Fill
    BY <1>4, <1>7, <2>1
  <2>4. StreamAt(st, j)'
    <3>1. mpc' \in BeforePill => j > Fill' /\ ~drain_mode'
      BY <1>1, <1>4, <1>7, <1>10, <2>1 DEF StreamAt
    <3>2. j <= Fill' => j = Fill' /\ ~drain_mode'
      BY <1>1, <1>4, <1>7, <1>10, <2>1 DEF StreamAt
    <3>3. ~drain_mode'
      BY <1>1, <1>4, <1>10 DEF StreamAt
    <3> QED BY <1>1, <1>7, <2>2, <3>1, <3>2, <3>3 DEF StreamAt
  <2>5. (SignalsWaiting = IF j <= Fill THEN Fill - 1 ELSE Fill)'
    BY <1>4, <1>5, <2>2, CountNext DEF RingInv, Counted
  <2>6. SignalsWaiting > 0 /\ SignalsWaiting' = SignalsWaiting - 1
    <3>1. CASE k <= Fill
      BY <1>3, <1>4, <1>7, <1>8, <1>10, <2>3, <2>5, <3>1 DEF InTransit
    <3>2. CASE ~(k <= Fill)
      BY <1>4, <1>8, <2>3, <2>5, <3>2
    <3> QED BY <3>1, <3>2
  <2>7. Src!Drain
    BY <1>2, <2>6 DEF Src!Drain, sourceVars, Src!threadVars, Src!cursor, Src!history
  <2> QED BY <1>4, <1>6, <2>4, <2>7 DEF RingInv, Src!Next
<1> QED BY <1>3, <1>9, <1>10, TransitTake DEF IInv

\* The ring, the producers and the stream are kept by every step, and every
\* step is one of EventSource or invisible to it.
LEMMA RingStep ==
  ASSUME IInv, [Next]_vars
  PROVE  CachesBehind' /\ PushInv' /\ (\E st, k : StreamAt(st, k)') /\ [Src!Next]_Src!vars
<1>0. PICK st, k : StreamAt(st, k)
  BY DEF IInv
<1>1. /\ RingInv /\ EngineTypeOK /\ PushInv /\ CachesBehind
      /\ mpc \in BeforePill \cup {"drain"} \cup WaitOver
      /\ spc \in {"idle", "write", "publish"}
      /\ "source" \in Producers /\ "main" \in Producers
  BY PipelineAssumption DEF IInv, TypeOK, RingInv
<1>2. CASE SourcePoll
  <2>1. /\ UNCHANGED ringVars /\ UNCHANGED <<processed, drain_mode, spc, mpc>> /\ Src!Poll
    BY <1>2 DEF SourcePoll, pipelineVars, engineVars, mainVars
  <2>2. pc \notin {"push", "done"} /\ UNCHANGED delivered
    BY <2>1, PollFrame
  <2>3. CachesBehind' /\ StreamAt(st, k)'
    BY <1>0, <1>1, <2>1, <2>2, RingAtRest, StreamAtRest
  <2>4. mpc = "joinSource" /\ spc = "idle"
    BY <1>1, <2>2 DEF PushInv
  <2>5. PushInv'
    BY <2>1, <2>4 DEF PushInv
  <2> QED BY <2>1, <2>3, <2>5 DEF Src!Next, Src!Thread
<1>3. CASE NewBlock
  <2>1. /\ UNCHANGED ringVars /\ UNCHANGED <<processed, drain_mode, spc, mpc>> /\ Src!NewBlock
    BY <1>3 DEF NewBlock, pipelineVars, engineVars, mainVars
  <2>2. UNCHANGED <<pc, batch, delivered>>
    BY <2>1 DEF Src!NewBlock, Src!threadVars, Src!history
  <2>3. CachesBehind' /\ StreamAt(st, k)' /\ Reserved' = Reserved
    BY <1>0, <1>1, <2>1, <2>2, RingAtRest, StreamAtRest
  <2>4. PushInv'
    BY <1>1, <2>1, <2>2, <2>3 DEF PushInv, ringVars, Src!IsFirst
  <2> QED BY <2>1, <2>3, <2>4 DEF Src!Next
<1>4. CASE SourceLoad
  <2>1. /\ LoadIndex("source") /\ pc = "push" /\ spc = "idle" /\ spc' = "write"
        /\ UNCHANGED <<processed, drain_mode, sourceVars, mainVars>>
    BY <1>4 DEF SourceLoad, engineVars
  <2>2. /\ RingInv' /\ Reserved' /\ Fill' = Fill /\ Waiting' = Waiting
        /\ loaded' = [loaded EXCEPT !["source"] = writeIdx_']
    BY <1>1, <2>1, RingLoad
  <2>3. StreamAt(st, k)' /\ SignalsWaiting' = SignalsWaiting
    BY <1>0, <2>1, <2>2, StreamAtRest DEF sourceVars, mainVars
  <2>4. loaded'["source"] = writeIdx_' /\ mpc = "joinSource"
    BY <1>1, <2>1, <2>2 DEF RingInv, RingTypeOK, PushInv
  <2>5. PushInv'
    BY <2>1, <2>2, <2>4 DEF PushInv, sourceVars, mainVars
  <2> QED BY <2>1, <2>2, <2>3, <2>5, SourceAtRest DEF RingInv
<1>5. CASE SourceWrite
  <2>1. PICK l \in Logs : Src!IsFirst(l) /\ ConstructSlot("source", l)
    BY <1>5 DEF SourceWrite
  <2>2. /\ spc = "write" /\ spc' = "publish" /\ l \in Contents
        /\ UNCHANGED <<processed, drain_mode, sourceVars, mainVars>>
    BY <1>5, BacktestAssumption DEF SourceWrite, engineVars, Contents
  <2>3. pc = "push" /\ Reserved /\ loaded["source"] = writeIdx_ /\ mpc = "joinSource"
    BY <1>1, <2>2 DEF PushInv
  <2>4. /\ RingInv' /\ Reserved' = Reserved /\ Fill' = Fill /\ Waiting' = Waiting
        /\ slots'[writeIdx_'] = l /\ UNCHANGED <<loaded, writeIdx_>>
    BY <1>1, <2>1, <2>2, <2>3, RingConstruct
  <2>5. StreamAt(st, k)' /\ SignalsWaiting' = SignalsWaiting
    BY <1>0, <2>2, <2>4, StreamAtRest DEF sourceVars, mainVars
  <2>6. \A i \in Logs : Src!IsFirst(i)' => i = l
    BY <2>1, <2>2, BacktestAssumption, PipelineAssumption DEF Src!IsFirst, sourceVars
  <2>7. PushInv'
    BY <2>2, <2>3, <2>4, <2>6 DEF PushInv, sourceVars, mainVars
  <2> QED BY <2>2, <2>4, <2>5, <2>7, SourceAtRest DEF RingInv
<1>6. CASE SourcePublish
  BY <1>6, PublishStep
<1>7. CASE Engine
  <2>1. CASE EngineTake
    BY <1>7, <2>1, TakeStep
  <2>2. CASE EngineEvaluate \/ EngineExit
    <3>1. /\ UNCHANGED ringVars /\ UNCHANGED <<processed, drain_mode, sourceVars, spc, mainVars>>
      BY <1>7, <2>2 DEF Engine, EngineEvaluate, EngineExit, LeaveLoop
    <3>2. /\ CachesBehind' /\ StreamAt(st, k)' /\ Reserved' = Reserved
          /\ SignalsWaiting' = SignalsWaiting
      BY <1>0, <1>1, <3>1, RingAtRest, StreamAtRest DEF sourceVars, mainVars
    <3>3. PushInv'
      BY <1>1, <3>1, <3>2 DEF PushInv, ringVars, sourceVars, mainVars, Src!IsFirst
    <3> QED BY <3>1, <3>2, <3>3, SourceAtRest
  <2>3. CASE EngineFront
    <3>1. LoadFront /\ UNCHANGED <<processed, drain_mode, sourceVars, spc, mainVars>>
      BY <1>7, <2>3 DEF Engine, EngineFront
    <3>2. /\ RingInv' /\ Fill' = Fill /\ Waiting' = Waiting /\ Reserved' = Reserved
          /\ UNCHANGED <<slots, writeIdx_, loaded>>
      BY <1>1, <3>1, RingFront
    <3>3. StreamAt(st, k)' /\ SignalsWaiting' = SignalsWaiting
      BY <1>0, <3>1, <3>2, StreamAtRest DEF sourceVars, mainVars
    <3>4. PushInv'
      BY <1>1, <3>1, <3>2 DEF PushInv, sourceVars, mainVars, Src!IsFirst
    <3> QED BY <3>1, <3>2, <3>3, <3>4, SourceAtRest DEF RingInv
  <2> QED BY <1>7, <2>1, <2>2, <2>3 DEF Engine, EngineStep
<1>8. CASE PillLoad
  <2>1. /\ LoadIndex("main") /\ mpc = "pill" /\ mpc' = "pillWrite"
        /\ UNCHANGED <<processed, drain_mode, sourceVars, spc>>
    BY <1>8 DEF PillLoad, Goto, engineVars
  <2>2. /\ RingInv' /\ Reserved' /\ Fill' = Fill /\ Waiting' = Waiting
        /\ loaded' = [loaded EXCEPT !["main"] = writeIdx_']
    BY <1>1, <2>1, RingLoad
  <2>3. StreamAt(st, k)' /\ SignalsWaiting' = SignalsWaiting
    BY <1>0, <2>1, <2>2, StreamAtRest DEF sourceVars, BeforePill
  <2>4. loaded'["main"] = writeIdx_' /\ pc = "done" /\ spc = "idle"
    BY <1>1, <2>1, <2>2 DEF RingInv, RingTypeOK, PushInv
  <2>5. PushInv'
    BY <2>1, <2>2, <2>4 DEF PushInv, sourceVars
  <2> QED BY <2>1, <2>2, <2>3, <2>5, SourceAtRest DEF RingInv
<1>9. CASE PillWrite
  <2>1. /\ ConstructSlot("main", Pill) /\ mpc = "pillWrite" /\ mpc' = "pillPublish"
        /\ UNCHANGED <<processed, drain_mode, sourceVars, spc>> /\ Pill \in Contents
    BY <1>9 DEF PillWrite, Goto, engineVars, Contents
  <2>2. pc = "done" /\ spc = "idle" /\ Reserved /\ loaded["main"] = writeIdx_
    BY <1>1, <2>1 DEF PushInv
  <2>3. /\ RingInv' /\ Reserved' = Reserved /\ Fill' = Fill /\ Waiting' = Waiting
        /\ slots'[writeIdx_'] = Pill /\ UNCHANGED <<loaded, writeIdx_>>
    BY <1>1, <2>1, <2>2, RingConstruct
  <2>4. StreamAt(st, k)' /\ SignalsWaiting' = SignalsWaiting
    BY <1>0, <2>1, <2>3, StreamAtRest DEF sourceVars, BeforePill
  <2>5. PushInv'
    BY <2>1, <2>2, <2>3 DEF PushInv, sourceVars
  <2> QED BY <2>1, <2>3, <2>4, <2>5, SourceAtRest DEF RingInv
<1>10. CASE PillPublish
  <2>1. /\ PublishIndex("main") /\ mpc = "pillPublish" /\ mpc' = "drain"
        /\ UNCHANGED <<processed, drain_mode, epc, signal, taken, queue_, sourceVars, spc>>
    BY <1>10 DEF PillPublish, Goto, engineVars, queueVars, alertVars
  <2>2. /\ pc = "done" /\ spc = "idle" /\ Reserved /\ loaded["main"] = writeIdx_
        /\ slots[writeIdx_] = Pill
    BY <1>1, <2>1 DEF PushInv
  <2>3. RingInv' /\ Fill' = Fill + 1
    BY <1>1, <2>1, <2>2, RingPublish
  <2>4. k > Fill /\ ~drain_mode /\ InTransit(st, k)
    BY <1>0, <2>1 DEF StreamAt, BeforePill
  <2>5. InTransit(st, k)' /\ k = Fill'
    BY <1>1, <2>1, <2>2, <2>4, TransitPill
  <2>6. StreamAt(st, k)'
    BY <1>0, <2>1, <2>4, <2>5 DEF StreamAt, BeforePill, sourceVars
  <2>7. PushInv'
    BY <2>1, <2>2 DEF PushInv, sourceVars
  <2>8. SignalsWaiting' = SignalsWaiting
    <3>1. SignalsWaiting = IF k <= Fill THEN Fill - 1 ELSE Fill
      BY <1>1, <2>4, CountWaiting DEF RingInv
    <3>2. EngineTypeOK'
      BY <1>1, <2>1 DEF EngineTypeOK
    <3>3. (SignalsWaiting = IF k <= Fill THEN Fill - 1 ELSE Fill)'
      BY <2>3, <2>5, <3>2, CountNext DEF RingInv, Counted
    <3>4. Fill \in Nat
      BY <1>1, FillBounds, RingAssumption DEF RingInv
    <3> QED BY <2>3, <2>4, <2>5, <3>1, <3>3, <3>4
  <2> QED BY <2>1, <2>3, <2>6, <2>7, <2>8, SourceAtRest DEF RingInv
<1>11. CASE \/ JoinSource \/ PillTimeout \/ Drained \/ DrainTimeout \/ StopEngine \/ JoinEngine
            \/ StopDispatcher \/ JoinDispatcher \/ Dispatcher \/ UNCHANGED vars
  <2>1. /\ UNCHANGED ringVars /\ UNCHANGED <<processed, drain_mode, sourceVars, spc>>
        /\ mpc' = "joinSource" => mpc = "joinSource"
        /\ mpc' # "joinSource" => mpc # "joinSource" \/ pc = "done"
        /\ mpc' \notin {"pillWrite", "pillPublish"} \/ mpc' = mpc
        /\ mpc' \in BeforePill => mpc \in BeforePill
    BY <1>11 DEF JoinSource, PillTimeout, Drained, DrainTimeout, StopEngine, JoinEngine,
                 StopDispatcher, JoinDispatcher, Dispatcher, DispatcherStep, vars, Goto, others,
                 pipelineVars, engineVars, mainVars, BeforePill
  <2>2. /\ CachesBehind' /\ StreamAt(st, k)' /\ Reserved' = Reserved
        /\ SignalsWaiting' = SignalsWaiting
    BY <1>0, <1>1, <2>1, RingAtRest, StreamAtRest DEF sourceVars
  <2>3. PushInv'
    <3>1. \A l : Src!IsFirst(l)' = Src!IsFirst(l)
      BY <2>1 DEF Src!IsFirst, sourceVars
    <3> QED BY <1>1, <2>1, <2>2, <3>1 DEF PushInv, ringVars, sourceVars
  <2> QED BY <2>1, <2>2, <2>3, SourceAtRest
<1> QED BY <1>2, <1>3, <1>4, <1>5, <1>6, <1>7, <1>8, <1>9, <1>10, <1>11 DEF Next, Source, Main

\* Every step of every thread keeps the invariant.
LEMMA StepInv == IInv /\ [Next]_vars => IInv'
<1> SUFFICES ASSUME IInv, [Next]_vars PROVE IInv'
    OBVIOUS
<1>1. RingTypeOK'
  <2>1. CASE UNCHANGED ringVars
    BY <2>1, RingAtRest DEF IInv, TypeOK
  <2>2. ASSUME NEW p \in Producers, NEW x \in Contents,
               LoadIndex(p) \/ ConstructSlot(p, x) \/ PublishIndex(p) \/ LoadFront \/ Pop
        PROVE  RingTypeOK'
    BY <2>2, RingTypeStep DEF IInv, TypeOK
  <2> QED BY <2>1, <2>2, StepKinds
<1>2. EngineTypeOK' /\ AlertsInOrder' /\ FrontSeen' /\ SettledSoFar'
  BY StepKinds, AlertsKept, FrontKept, SettledKept DEF IInv, TypeOK
<1>3. spc' \in {"idle", "write", "publish"}
  BY DEF IInv, TypeOK, Next, Source, SourcePoll, SourceLoad, SourceWrite, SourcePublish, NewBlock,
         Engine, Dispatcher, Main, JoinSource, PillLoad, PillWrite, PillPublish, PillTimeout,
         Drained, DrainTimeout, StopEngine, JoinEngine, StopDispatcher, JoinDispatcher, others, vars
<1>4. TypeOK' /\ StopOrder'
  BY <1>1, <1>2, <1>3, StopStep DEF TypeOK
<1>5. SourceInv'
  BY RingStep, SourceKeepsInv, SourceOrderStep DEF IInv, SourceInv
<1> QED BY <1>2, <1>4, <1>5, RingStep DEF IInv

\* The inductive invariant holds in every reachable state.
THEOREM InvariantHolds == Spec => []IInv
BY InitInv, StepInv, PTL DEF Spec

\* A backtest's source at work in the pipeline, with try_push in its three steps
\* and the pill in the same ring, implements EventSource: every result about
\* EventSource's safety is one about the pipeline.
THEOREM ImplementsSource == Spec => ImplementsEventSource
<1>1. Init => Src!Init
  BY DEF Init
<1>2. IInv /\ [Next]_vars => [Src!Next]_Src!vars
  BY RingStep
<1> QED BY <1>1, <1>2, InvariantHolds, PTL DEF Spec, ImplementsEventSource, Src!Spec

\* When the source's thread has ended, the logs of the configured range have
\* been pushed, but for those a lagging node left out, and no others.
THEOREM BacktestIsExact == Spec => []BacktestExact
<1>1. IInv => BacktestExact
  <2> SUFFICES ASSUME IInv, pc = "done"
               PROVE  /\ delivered \subseteq Src!LogsIn(StartBlock, BacktestEnd)
                      /\ Src!LogsIn(StartBlock, BacktestEnd) \subseteq delivered \cup missed
    BY DEF BacktestExact, Src!BacktestExact
  <2> USE DEF IInv, SourceInv, SrcP!IInv, SrcP!TypeOK
  <2>1. /\ next_block_ = BacktestEnd + 1 /\ origin = StartBlock
        /\ BacktestEnd \in Nat /\ BacktestEnd # 0 /\ StartBlock \in Nat
    BY SourceAssumption DEF SrcP!StartInv, SrcP!NeverPastHead, SrcP!RangeExhausted
  <2>2. Src!LogsIn(StartBlock, BacktestEnd) \subseteq delivered \cup missed
    BY <2>1 DEF SrcP!NothingSkipped, SrcP!LogsIn, Src!LogsIn
  <2>3. delivered \subseteq Src!LogsIn(StartBlock, BacktestEnd)
    BY <2>1, SourceAssumption DEF SrcP!BatchInv, Src!LogsIn
  <2> QED BY <2>2, <2>3
<1> QED BY <1>1, InvariantHolds, PTL

\* On a chain without malformed logs (a log that normalize refuses makes the
\* source push the start of its batch again), the engine sees what the source
\* pushed, once and in chain order, up to what still waits in the ring.
THEOREM EngineSeesChainOrder == ASSUME Malformed = {} PROVE Spec => []InOrderOnce
<1>1. IInv => InOrderOnce
  <2> SUFFICES ASSUME IInv PROVE InOrderOnce
    OBVIOUS
  <2>1. PICK st, k : StreamAt(st, k)
    BY DEF IInv
  <2>2. /\ EngineTypeOK /\ RingTypeOK /\ InTransit(st, k) /\ InChainOrder(st) /\ ToSet(st) = delivered
    BY <2>1 DEF IInv, TypeOK, StreamAt
  <2>3. /\ Fill \in Nat /\ DOMAIN Waiting = 1..Fill /\ Len(processed) \in Nat
        /\ DOMAIN processed = 1..Len(processed) /\ DOMAIN st = 1..Len(st) /\ Len(st) \in Nat
        /\ k \in Nat \ {0} /\ k <= Fill + 1
        /\ Len(st) = Len(processed) + Fill - (IF k <= Fill THEN 1 ELSE 0)
    BY <2>2, FillBounds, RingAssumption DEF InTransit, EngineTypeOK
  <2>4. /\ k <= Fill => k = Fill
        /\ Len(processed) <= Len(st)
    BY <2>1, <2>3 DEF StreamAt
  <2>5. \A i \in DOMAIN processed : i \in DOMAIN st /\ processed[i] = st[i]
    BY <2>2, <2>3, <2>4 DEF InTransit
  <2>6. InChainOrder(processed)
    BY <2>2, <2>5 DEF InChainOrder
  <2>7. ASSUME NEW i \in DOMAIN Waiting, Waiting[i] # Pill PROVE Waiting[i] \in delivered
    <3>1. i # k /\ i < k /\ Len(processed) + i \in DOMAIN st
      BY <2>2, <2>3, <2>4, <2>7, PillPlace
    <3>2. Waiting[i] = st[Len(processed) + i]
      BY <2>2, <2>3, <3>1 DEF InTransit
    <3> QED BY <2>2, <3>1, <3>2 DEF ToSet
  <2>8. ASSUME NEW n \in DOMAIN st PROVE st[n] \in ToSet(processed) \cup (ToSet(Waiting) \ {Pill})
    <3>1. CASE n <= Len(processed)
      <4>1. n \in DOMAIN processed
        BY <2>3, <3>1
      <4> QED BY <2>5, <4>1 DEF ToSet
    <3>2. CASE n > Len(processed)
      <4>1. PICK i \in Nat : i = n - Len(processed)
        BY <2>3, <3>2
      <4>2. i \in 1..Fill /\ i < k /\ i # k /\ Len(processed) + i = n
        BY <2>3, <2>4, <3>2, <4>1
      <4>3. Waiting[i] = st[n] /\ Waiting[i] # Pill
        BY <2>2, <4>2, PillPlace DEF InTransit
      <4> QED BY <2>3, <4>2, <4>3 DEF ToSet
    <3> QED BY <2>3, <3>1, <3>2
  <2>9. ToSet(processed) \subseteq delivered
    BY <2>2, <2>5 DEF ToSet
  <2>10. delivered \subseteq ToSet(processed) \cup (ToSet(Waiting) \ {Pill})
    BY <2>2, <2>8 DEF ToSet
  <2>11. ToSet(Waiting) \ {Pill} \subseteq delivered
    BY <2>7 DEF ToSet
  <2> QED BY <2>6, <2>9, <2>10, <2>11 DEF InOrderOnce
<1> QED BY <1>1, InvariantHolds, PTL

\* Whatever wait ran out, no alert that a rule raised is dropped: when the run
\* returns the dispatcher has taken the alerts of every signal the engine popped.
THEOREM AlertsSurviveTimeouts == Spec => []NoAlertDropped
<1>1. IInv => NoAlertDropped
  <2> SUFFICES ASSUME IInv, mpc = "returned" PROVE taken = AlertsOf(processed) /\ queue_ = << >>
    BY DEF NoAlertDropped
  <2>1. queue_ = << >> /\ epc = "done"
    BY DEF IInv, StopOrder, EngineJoined, DispatcherTold
  <2>2. taken \o << >> = taken
    BY DEF IInv, TypeOK, EngineTypeOK
  <2> QED BY <2>1, <2>2 DEF IInv, AlertsInOrder
<1> QED BY <1>1, InvariantHolds, PTL

\* The alerts of signals in chain order are in chain order, one for each of the
\* signals that raise one.
LEMMA AlertsOfOrdered ==
  ASSUME NEW s \in Seq(Signals), InChainOrder(s)
  PROVE  InChainOrder(AlertsOf(s)) /\ ToSet(AlertsOf(s)) = ToSet(s) \cap Firing
<1> DEFINE upTo(n) == {s[i] : i \in 1..n}
           Holds(n) == /\ AlertsUpTo(s)[n] \in Seq(Signals) /\ InChainOrder(AlertsUpTo(s)[n])
                       /\ ToSet(AlertsUpTo(s)[n]) = upTo(n) \cap Firing
           Bad == {n \in 0..Len(s) : ~Holds(n)}
<1>1. /\ AlertsUpTo(s)[0] = << >>
      /\ \A n \in 1..Len(s) : AlertsUpTo(s)[n] = NextAlerts(s, AlertsUpTo(s), n)
  BY AlertsUpToRecursion
<1>2. Len(s) \in Nat /\ DOMAIN s = 1..Len(s) /\ \A i \in 1..Len(s) : s[i] \in Signals
  OBVIOUS
<1>3. Holds(0)
  <2>1. upTo(0) = {} /\ ToSet(<< >>) = {} /\ InChainOrder(<< >>)
    BY DEF ToSet, InChainOrder
  <2> QED BY <1>1, <2>1
<1>4. Bad = {}
  <2> SUFFICES ASSUME Bad # {} PROVE FALSE
    OBVIOUS
  <2>1. PICK n \in Bad : \A k \in Bad : n <= k
    <3>1. Bad \subseteq Nat
      BY <1>2
    <3> HIDE DEF Bad
    <3> QED BY <3>1, LeastElement
  <2>2. n \in 1..Len(s) /\ n - 1 \in 0..Len(s) /\ n - 1 \notin Bad /\ n \in Nat
    <3>1. n # 0
      BY <1>3, <2>1
    <3> HIDE DEF Holds
    <3> QED BY <1>2, <2>1, <3>1
  <2>3. Holds(n - 1)
    BY <2>2
  <2>4. upTo(n) = upTo(n - 1) \cup {s[n]}
    <3>1. \A i : i \in 1..n <=> i \in 1..(n - 1) \/ i = n
      BY <2>2
    <3> QED BY <3>1
  <2>5. \A x \in upTo(n - 1) : x < s[n]
    BY <1>2, <2>2 DEF InChainOrder
  <2> DEFINE a == AlertsUpTo(s)[n - 1]
  <2>6. a \in Seq(Signals) /\ InChainOrder(a) /\ ToSet(a) = upTo(n - 1) \cap Firing
    BY <2>3
  <2>7. AlertsUpTo(s)[n] = IF s[n] \in Firing THEN Append(a, s[n]) ELSE a
    BY <1>1, <2>2 DEF NextAlerts
  <2>8. s[n] \in Signals
    BY <1>2, <2>2
  <2> HIDE DEF a, upTo
  <2>9. CASE s[n] \in Firing
    <3>1. Append(a, s[n]) \in Seq(Signals)
      BY <2>6, <2>8
    <3>2. /\ ToSet(Append(a, s[n])) = ToSet(a) \cup {s[n]}
          /\ InChainOrder(Append(a, s[n]))
      BY <2>5, <2>6, <2>8, LongerStream
    <3> QED BY <2>1, <2>4, <2>6, <2>7, <2>9, <3>1, <3>2
  <2>10. CASE s[n] \notin Firing
    BY <2>1, <2>4, <2>6, <2>7, <2>10
  <2> QED BY <2>9, <2>10
<1>5. Holds(Len(s))
  <2> HIDE DEF Holds
  <2>1. Len(s) \in 0..Len(s)
    BY <1>2
  <2> QED BY <1>4, <2>1
<1>6. upTo(Len(s)) = ToSet(s)
  BY <1>2 DEF ToSet
<1> QED BY <1>5, <1>6 DEF AlertsOf

\* On a chain without malformed logs, a backtest that returned with no wait run
\* out has taken one alert for each log of the range that raises one, in chain
\* order, and no other, but for logs a node left out; each of them was sent to
\* the channels, or came after one with its key that was.
THEOREM ReportIsComplete == ASSUME Malformed = {} PROVE Spec => []ReportComplete
<1>1. IInv /\ BacktestExact /\ NoAlertDropped => ReportComplete
  <2> SUFFICES ASSUME IInv, BacktestExact, NoAlertDropped, mpc = "returned", ~timedOut
               PROVE  /\ InChainOrder(taken) /\ ToSet(taken) = (InRange \ missed) \cap Firing
                      /\ Settled
    BY DEF ReportComplete
  <2>1. PICK st, k : StreamAt(st, k)
    BY DEF IInv
  <2>2. /\ EngineTypeOK /\ InTransit(st, k) /\ InChainOrder(st) /\ ToSet(st) = delivered
        /\ drain_mode /\ Fill = 0
    BY <2>1 DEF IInv, TypeOK, StreamAt, StopOrder, WaitOver, EngineTold, EngineJoined, DispatcherTold
  <2>3. st \in Seq(Signals) /\ processed = st
    <3>1. /\ Len(st) = Len(processed) /\ st \in Seq(Signals) /\ processed \in Seq(Contents)
          /\ \A i \in 1..Len(processed) : processed[i] = st[i]
      BY <2>2 DEF InTransit, EngineTypeOK
    <3>2. st \in Seq(Contents)
      BY <3>1 DEF Contents
    <3> QED BY <3>1, <3>2
  <2>4. taken = AlertsOf(st)
    BY <2>3 DEF NoAlertDropped
  <2>5. delivered = InRange \ missed
    <3>1. pc = "done"
      BY DEF IInv, PushInv
    <3>2. InRange = Src!LogsIn(StartBlock, BacktestEnd) /\ BacktestEnd # 0
      BY SourceAssumption DEF InRange, Src!LogsIn
    <3>3. delivered \subseteq InRange /\ InRange \subseteq delivered \cup missed
      BY <3>1, <3>2 DEF BacktestExact, Src!BacktestExact
    <3>4. missed \cap delivered = {}
      BY DEF IInv, SourceInv, SrcP!OrderInv
    <3> QED BY <3>3, <3>4
  <2>6. dpc = "done"
    BY DEF IInv, StopOrder
  <2>7. Settled
    BY <2>6, SettledAtRest DEF IInv, TypeOK
  <2> QED BY <2>2, <2>3, <2>4, <2>5, <2>7, AlertsOfOrdered
<1> QED BY <1>1, InvariantHolds, BacktestIsExact, AlertsSurviveTimeouts, PTL
=============================================================================
