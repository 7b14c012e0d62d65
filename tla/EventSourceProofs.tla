------------------------- MODULE EventSourceProofs -------------------------
(***************************************************************************)
(* Proofs about EventSource for every chain, configuration and capacity.   *)
(***************************************************************************)
EXTENDS EventSource, TLAPS

USE ChainAssumption, ConfigAssumption DEF cursor, shared, threadVars, history, vars, MinBlockRange

\* The range poll_once chooses is positive and ends at or before the head it
\* was computed from.
LEMMA ChosenRange ==
  ASSUME TypeOK, NEW h \in Nat, next_block_ <= h, ChooseRange(h)
  PROVE  /\ pc' = "fetch" /\ range' \in Nat /\ range' >= 1
         /\ next_block_ + range' - 1 <= h
  BY DEF TypeOK, ChooseRange, AtMost, AtLeast

\* Halving a range keeps it positive and no wider than it was.
LEMMA HalvedRange ==
  ASSUME NEW r \in Nat, r > 1
  PROVE  AtLeast(r \div 2, MinBlockRange) \in 1..r
  BY DEF AtLeast

\* The head a refresh caches is a block number no later than the real head,
\* nor, in a backtest, than the last block.
LEMMA ClippedHead ==
  ASSUME TypeOK, NEW seen \in Visible
  PROVE  /\ Clip(seen) \in Nat /\ Clip(seen) <= head
         /\ BacktestEnd # 0 => Clip(seen) <= BacktestEnd
  BY DEF TypeOK, Clip, AtMost, Visible

\* What a getLogs call returns is part of the range asked for, and all of it
\* when no node lags.
LEMMA AnsweredLogs ==
  ASSUME IInv, NEW seen \in Visible, pc = "fetch"
  PROVE  LET answer == LogsIn(next_block_, AtMost(to_block, seen))
             asked  == LogsIn(next_block_, to_block)
         IN  answer \subseteq asked /\ asked \subseteq Logs /\ (MaxLag = 0 => answer = asked)
<1>1. to_block \in Int /\ seen \in Nat /\ (MaxLag = 0 => to_block <= seen)
  BY DEF IInv, TypeOK, NeverPastHead, Visible, to_block
<1> QED BY <1>1 DEF AtMost, LogsIn, IInv, TypeOK

\* The source starts with an empty history, cold or at the backtest's first block.
LEMMA InitInv == Init => IInv
<1> SUFFICES ASSUME Init PROVE IInv
    OBVIOUS
<1>1. cold_start_ \in BOOLEAN
  BY Zenon DEF Init
<1>2. TypeOK
  BY <1>1 DEF Init, TypeOK
<1>3. NothingSkipped /\ RepeatsOnlyAfterAbort /\ NeverPastHead
  BY DEF Init, NothingSkipped, RepeatsOnlyAfterAbort, NeverPastHead, LogsIn
<1>4. BatchInv
  BY DEF Init, BatchInv, InBatch
<1>5. StartInv
  <2>1. cold_start_ => StartBlock = 0
    BY Zenon DEF Init
  <2> QED BY <2>1 DEF Init, StartInv
<1> QED BY <1>2, <1>3, <1>4, <1>5 DEF IInv

\* Every step of the source, and of its environment, keeps the invariant.
LEMMA StepInv == IInv /\ [Next]_vars => IInv'
<1> SUFFICES ASSUME IInv, [Next]_vars PROVE IInv'
    OBVIOUS
<1> USE DEF IInv, TypeOK, NothingSkipped, RepeatsOnlyAfterAbort, NeverPastHead,
            BatchInv, StartInv, InBatch, Pushed, LogsIn, to_block, RangeExhausted
<1>1. CASE Iterate
  BY <1>1 DEF Iterate
<1>2. CASE Exit
  BY <1>2 DEF Exit
<1>3. ASSUME NEW seen \in Visible, ColdStart(seen) PROVE IInv'
  <2>1. /\ Clip(seen) \in Nat /\ Clip(seen) <= head
        /\ BacktestEnd # 0 => Clip(seen) <= BacktestEnd
    BY ClippedHead
  <2>2. TypeOK'
    BY <1>3, <2>1 DEF ColdStart
  <2>3. NothingSkipped' /\ RepeatsOnlyAfterAbort' /\ NeverPastHead'
    BY <1>3, <2>1 DEF ColdStart
  <2>4. BatchInv' /\ StartInv'
    BY <1>3, <2>1 DEF ColdStart
  <2> QED BY <2>2, <2>3, <2>4 DEF IInv
<1>4. ASSUME NEW seen \in Visible, RefreshHead(seen) PROVE IInv'
  <2> DEFINE h == Clip(seen)
  <2>1. h \in Nat /\ h <= head /\ (BacktestEnd # 0 => h <= BacktestEnd)
    BY ClippedHead
  <2>2. CASE next_block_ > h
    BY <1>4, <2>1, <2>2 DEF RefreshHead, ChooseRange
  <2>3. CASE next_block_ <= h
    <3>1. ChooseRange(h) /\ cached_chain_head_' = h
      BY <1>4 DEF RefreshHead
    <3>2. /\ pc' = "fetch" /\ range' \in Nat /\ range' >= 1
          /\ next_block_ + range' - 1 <= h
      BY <2>1, <2>3, <3>1, ChosenRange
    <3> QED BY <1>4, <2>1, <3>1, <3>2 DEF RefreshHead
  <2> QED BY <2>1, <2>2, <2>3
<1>5. CASE UseCachedHead
  <2>1. next_block_ <= cached_chain_head_ /\ ChooseRange(cached_chain_head_)
    BY <1>5 DEF UseCachedHead, HeadIsStale
  <2>2. /\ pc' = "fetch" /\ range' \in Nat /\ range' >= 1
        /\ next_block_ + range' - 1 <= cached_chain_head_
    BY <2>1, ChosenRange
  <2>3. /\ pc = "poll"
        /\ UNCHANGED <<running_, next_block_, cold_start_, cached_chain_head_,
                       batch, head, out_, history>>
    BY <1>5 DEF UseCachedHead
  <2>4. ~cold_start_
    BY <1>5 DEF UseCachedHead, HeadIsStale
  <2>5. TypeOK' /\ NothingSkipped' /\ RepeatsOnlyAfterAbort'
    BY <2>2, <2>3
  <2>6. NeverPastHead'
    BY <2>2, <2>3
  <2>7. BatchInv'
    BY <2>2, <2>3
  <2>8. StartInv'
    BY <2>2, <2>3, <2>4
  <2> QED BY <2>5, <2>6, <2>7, <2>8 DEF IInv
<1>6. CASE LatestBlockFails
  BY <1>6 DEF LatestBlockFails
<1>7. ASSUME NEW seen \in Visible, GetLogs(seen) PROVE IInv'
  <2> DEFINE answer == LogsIn(next_block_, AtMost(to_block, seen))
             asked  == LogsIn(next_block_, to_block)
  <2>1. answer \subseteq asked /\ asked \subseteq Logs /\ (MaxLag = 0 => answer = asked)
    BY <1>7, AnsweredLogs DEF GetLogs
  <2>2. /\ pc = "fetch" /\ pc' = "batch" /\ batch' = answer
        /\ missed' = missed \cup (asked \ answer)
        /\ UNCHANGED <<cursor, range, shared, origin, delivered, repeated, exposed>>
    BY <1>7 DEF GetLogs
  <2>3. asked' = asked
    BY <2>2
  <2> HIDE DEF answer
  <2>4. TypeOK' /\ NothingSkipped' /\ RepeatsOnlyAfterAbort' /\ NeverPastHead'
    BY <2>1, <2>2
  <2>5. BatchInv'
    BY <2>1, <2>2, <2>3
  <2>6. StartInv'
    BY <2>2
  <2> QED BY <2>4, <2>5, <2>6 DEF IInv
<1>8. CASE GetLogsFails
  <2>1. range > 1 => range' \in 1..range /\ pc' = pc
    BY <1>8, HalvedRange DEF GetLogsFails
  <2>2. range <= 1 => range' = range /\ pc' = "loop"
    BY <1>8 DEF GetLogsFails
  <2> QED BY <1>8, <2>1, <2>2 DEF GetLogsFails
<1>9. ASSUME NEW l \in Logs, Normalize(l) PROVE IInv'
  BY <1>9 DEF Normalize
<1>10. ASSUME NEW l \in Logs, NormalizeFails(l) PROVE IInv'
  BY <1>10 DEF NormalizeFails
<1>11. ASSUME NEW l \in Logs, PushBlocking(l) PROVE IInv'
  BY <1>11 DEF PushBlocking, PushLog, IsFirst
<1>12. CASE AdvanceCursor
  BY <1>12 DEF AdvanceCursor, MoveCursor
<1>13. CASE Stop
  BY <1>13 DEF Stop
<1>14. CASE NewBlock
  BY <1>14 DEF NewBlock
<1>15. CASE Drain
  BY <1>15 DEF Drain
<1>16. CASE UNCHANGED vars
  BY <1>16
<1> QED
  BY <1>1, <1>2, <1>3, <1>4, <1>5, <1>6, <1>7, <1>8, <1>9, <1>10, <1>11, <1>12,
     <1>13, <1>14, <1>15, <1>16 DEF Next, Thread, Poll

\* The inductive invariant holds in every reachable state.
THEOREM InvariantHolds == Spec => []IInv
<1>1. Init => IInv
  BY InitInv
<1>2. IInv /\ [Next]_vars => IInv'
  BY StepInv
<1> QED BY <1>1, <1>2, PTL DEF Spec

\* Type correctness.
THEOREM TypeCorrect == Spec => []TypeOK
<1>1. IInv => TypeOK
  BY DEF IInv
<1> QED BY <1>1, InvariantHolds, PTL

\* poll_once never moves the cursor over a log that is not in the ring, for
\* any chain, any range limit of the node and any pattern of failures.
THEOREM NoLogSkipped == Spec => []NothingSkipped
<1>1. IInv => NothingSkipped
  BY DEF IInv
<1> QED BY <1>1, InvariantHolds, PTL

\* A log enters the ring twice only when normalize threw after its first push.
THEOREM NoNeedlessRepeat == Spec => []RepeatsOnlyAfterAbort
<1>1. IInv => RepeatsOnlyAfterAbort
  BY DEF IInv
<1> QED BY <1>1, InvariantHolds, PTL

\* No range ever reaches past the head the source knows of, nor past the end of
\* a backtest, for any growth of the chain, node limit and lag.
THEOREM RangesStayBehindHead == Spec => []NeverPastHead
<1>1. IInv => NeverPastHead
  BY DEF IInv
<1> QED BY <1>1, InvariantHolds, PTL

\* When a backtest's run() returns, the logs of the configured range have been
\* pushed, but for those a lagging node left out, and no others.
THEOREM BacktestCoversRange == Spec => []BacktestExact
<1>1. IInv => BacktestExact
  <2> SUFFICES ASSUME IInv, pc = "done", BacktestEnd # 0
               PROVE  /\ delivered \subseteq LogsIn(StartBlock, BacktestEnd)
                      /\ LogsIn(StartBlock, BacktestEnd) \subseteq delivered \cup missed
    BY DEF BacktestExact
  <2>1. next_block_ = BacktestEnd + 1 /\ origin = StartBlock
    BY DEF IInv, TypeOK, StartInv, NeverPastHead, RangeExhausted
  <2>2. LogsIn(StartBlock, BacktestEnd) \subseteq delivered \cup missed
    BY <2>1 DEF IInv, NothingSkipped
  <2>3. delivered \subseteq LogsIn(StartBlock, BacktestEnd)
    BY <2>1 DEF IInv, TypeOK, BatchInv, LogsIn
  <2> QED BY <2>2, <2>3
<1> QED BY <1>1, InvariantHolds, PTL

\* EventSource implements BlockFeed: in chain order, at least once, and the
\* cursor passes only what was handed over.
THEOREM Refinement == Spec => ImplementsBlockFeed
<1>1. Init => Feed!FeedInit
  BY DEF Init, Feed!FeedInit
<1>2. IInv /\ [Next]_vars => [Feed!FeedNext]_Feed!feedVars
  <2> SUFFICES ASSUME IInv, [Next]_vars PROVE [Feed!FeedNext]_Feed!feedVars
    OBVIOUS
  <2> USE DEF Feed!feedVars
  <2>1. ASSUME NEW seen \in Visible, ColdStart(seen)
        PROVE  [Feed!FeedNext]_Feed!feedVars
    <3>1. CASE BacktestEnd = 0
      <4>1. /\ next_block_' \in Nat /\ origin' = next_block_'
            /\ delivered' = delivered /\ missed' = missed
        BY <2>1, <3>1, ClippedHead DEF ColdStart, IInv
      <4>2. /\ StartBlock = 0 /\ delivered = {} /\ next_block_ = StartBlock
        BY <2>1 DEF ColdStart, IInv, StartInv
      <4> QED BY <3>1, <4>1, <4>2 DEF Feed!FeedNext, Feed!JumpToHead
    <3>2. CASE BacktestEnd # 0
      BY <2>1, <3>2 DEF ColdStart, IInv, StartInv
    <3> QED BY <3>1, <3>2
  <2>2. ASSUME NEW l \in Logs, PushBlocking(l) PROVE Feed!FeedNext
    <3>1. BlockOf[l] >= next_block_ /\ BlockOf[l] <= to_block
      BY <2>2 DEF PushBlocking, PushLog, IsFirst, IInv, TypeOK, BatchInv, InBatch, LogsIn
    <3>2. ASSUME NEW k \in Logs, k < l, BlockOf[k] >= next_block_
          PROVE  k \in delivered \cup missed
      <4>1. k \notin batch
        BY <2>2, <3>2 DEF PushBlocking, PushLog, IsFirst
      <4>2. k \in LogsIn(next_block_, to_block)
        BY <3>1, <3>2 DEF LogsIn, IInv, TypeOK, to_block
      <4> QED BY <2>2, <4>1, <4>2 DEF PushBlocking, PushLog, IInv, BatchInv, InBatch, Pushed
    <3>3. Feed!Deliver(l)
      BY <2>2, <3>1, <3>2 DEF Feed!Deliver, PushBlocking, PushLog
    <3> QED BY <3>3 DEF Feed!FeedNext
  <2>3. CASE AdvanceCursor
    <3>1. /\ next_block_' = to_block + 1 /\ next_block_' \in Nat
          /\ next_block_' > next_block_
          /\ BacktestEnd # 0 => next_block_' <= BacktestEnd + 1
      BY <2>3 DEF AdvanceCursor, MoveCursor, to_block, IInv, TypeOK, NeverPastHead
    <3>2. LogsIn(next_block_, next_block_' - 1) \subseteq delivered \cup missed
      <4>1. next_block_' - 1 = to_block
        BY <3>1 DEF IInv, TypeOK, to_block
      <4> QED BY <2>3, <4>1 DEF AdvanceCursor, MoveCursor, IInv, BatchInv, InBatch, Pushed
    <3> QED BY <2>3, <3>1, <3>2
            DEF AdvanceCursor, MoveCursor, Feed!FeedNext, Feed!Advance, Feed!LogsIn, LogsIn
  <2>4. ASSUME NEW seen \in Visible, GetLogs(seen)
        PROVE  [Feed!FeedNext]_Feed!feedVars
    <3> DEFINE answer == LogsIn(next_block_, AtMost(to_block, seen))
               asked  == LogsIn(next_block_, to_block)
    <3>1. asked \subseteq Logs /\ (MaxLag = 0 => answer = asked)
      BY <2>4, AnsweredLogs DEF GetLogs
    <3>2. missed' = missed \cup (asked \ answer) /\ UNCHANGED <<next_block_, origin, delivered>>
      BY <2>4 DEF GetLogs
    <3>3. \A l \in asked : BlockOf[l] >= next_block_
      BY DEF LogsIn, IInv, TypeOK
    <3> HIDE DEF asked, answer
    <3>4. CASE MaxLag = 0
      BY <3>1, <3>2, <3>4
    <3>5. CASE MaxLag > 0
      BY <3>1, <3>2, <3>3, <3>5 DEF Feed!FeedNext, Feed!Miss
    <3> QED BY <3>4, <3>5
  <2>5. CASE /\ Next /\ ~AdvanceCursor /\ ~(\E l \in Logs : PushBlocking(l))
             /\ ~(\E seen \in Visible : ColdStart(seen) \/ GetLogs(seen))
    BY <2>5 DEF Next, Thread, Poll, Iterate, Exit, RefreshHead, UseCachedHead,
                LatestBlockFails, GetLogsFails, Normalize, NormalizeFails,
                Stop, NewBlock, Drain
  <2>6. CASE UNCHANGED vars
    BY <2>6
  <2> QED BY <2>1, <2>2, <2>3, <2>4, <2>5, <2>6
<1> QED BY <1>1, <1>2, InvariantHolds, PTL DEF Spec, ImplementsBlockFeed, Feed!FeedSpec

\* Behind a log that cannot be processed the source stands still: every log
\* that was ever pushed precedes each malformed log, and the block of each
\* unparsable log, from the block polling began at on.
THEOREM MalformedHoldsUp == Spec => []MalformedBlocks
<1>1. Init => MalformedInv
  BY DEF Init, MalformedInv, MalformedBlocks
<1>2. IInv /\ MalformedInv /\ [Next]_vars => MalformedInv'
  <2> SUFFICES ASSUME IInv, MalformedInv, [Next]_vars PROVE MalformedInv'
    OBVIOUS
  <2>1. ASSUME NEW seen \in Visible, ColdStart(seen) PROVE MalformedInv'
    <3>1. delivered = {} /\ delivered' = {} /\ pc' = "loop" /\ batch' = batch
      BY <2>1 DEF ColdStart, IInv, StartInv
    <3> QED BY <3>1 DEF MalformedInv, MalformedBlocks
  <2>2. ASSUME NEW l \in Logs, Normalize(l) PROVE MalformedInv'
    <3>1. \A k \in batch' : IsFirst(k)' => k = l
      BY <2>2 DEF Normalize, IsFirst, IInv, TypeOK
    <3> QED BY <2>2, <3>1 DEF Normalize, MalformedInv, MalformedBlocks
  <2>3. ASSUME NEW l \in Logs, PushBlocking(l) PROVE MalformedInv'
    <3>1. l \notin Malformed /\ l \notin Unparsable /\ l \in batch
      BY <2>3 DEF PushBlocking, PushLog, IsFirst, MalformedInv
    <3>2. BlockOf[l] \in next_block_..to_block
      BY <2>3 DEF PushBlocking, PushLog, IsFirst, IInv, BatchInv, InBatch, LogsIn
    \* A log of the range that is refused and was not left out is in the batch.
    <3>3. ASSUME NEW m \in (Malformed \cup Unparsable) \ missed, BlockOf[m] >= origin,
                 BlockOf[m] <= BlockOf[l]
          PROVE  m \in batch
      <4>1. m \in Logs /\ m \notin delivered
        BY <3>3 DEF MalformedInv
      <4>2. BlockOf[m] \in Nat /\ BlockOf[m] >= next_block_
        BY <3>3, <4>1 DEF IInv, TypeOK, NothingSkipped, LogsIn
      <4>3. m \in LogsIn(next_block_, to_block)
        BY <3>2, <3>3, <4>1, <4>2 DEF LogsIn, to_block, IInv, TypeOK
      <4> QED BY <2>3, <3>3, <4>1, <4>3 DEF PushBlocking, PushLog, IInv, BatchInv, InBatch, Pushed
    <3>4. ASSUME NEW m \in Malformed \ missed, BlockOf[m] >= origin PROVE l < m
      <4>1. SUFFICES ASSUME m < l PROVE FALSE
        BY <3>1, <3>4
      <4>2. BlockOf[m] <= BlockOf[l]
        BY <3>4, <4>1
      <4> QED BY <2>3, <3>3, <3>4, <4>1, <4>2 DEF PushBlocking, PushLog, IsFirst
    <3>5. ASSUME NEW m \in Unparsable \ missed, BlockOf[m] >= origin
          PROVE  BlockOf[l] < BlockOf[m]
      BY <3>3, <3>5 DEF MalformedInv
    <3>6. /\ delivered' = delivered \cup {l} /\ batch' = batch \ {l} /\ pc' = "batch"
          /\ UNCHANGED <<origin, missed>>
      BY <2>3 DEF PushBlocking, PushLog
    <3> QED BY <3>1, <3>4, <3>5, <3>6 DEF MalformedInv, MalformedBlocks
  <2>4. ASSUME NEW seen \in Visible, GetLogs(seen) PROVE MalformedInv'
    <3>1. /\ batch' \cap Unparsable = {} /\ missed \subseteq missed' /\ pc' = "batch"
          /\ UNCHANGED <<origin, delivered>>
      BY <2>4 DEF GetLogs
    <3> QED BY <3>1 DEF MalformedInv, MalformedBlocks
  <2>5. CASE /\ Next /\ ~(\E l \in Logs : Normalize(l) \/ PushBlocking(l))
             /\ ~(\E seen \in Visible : ColdStart(seen) \/ GetLogs(seen))
    <3>1. /\ UNCHANGED <<delivered, origin, missed>> /\ batch' \subseteq batch
          /\ pc' = "push" => pc = "push" /\ UNCHANGED batch
      BY <2>5 DEF Next, Thread, Poll, Iterate, Exit, RefreshHead, UseCachedHead, ChooseRange,
                  LatestBlockFails, GetLogsFails, NormalizeFails, AdvanceCursor,
                  MoveCursor, Stop, NewBlock, Drain
    <3> QED BY <3>1 DEF MalformedInv, MalformedBlocks, IsFirst
  <2>6. CASE UNCHANGED vars
    BY <2>6 DEF MalformedInv, MalformedBlocks, IsFirst
  <2> QED BY <2>1, <2>2, <2>3, <2>4, <2>5, <2>6
<1>3. MalformedInv => MalformedBlocks
  BY DEF MalformedInv
<1> QED BY <1>1, <1>2, <1>3, InvariantHolds, PTL DEF Spec

\* On a chain without malformed logs no batch is abandoned: what was pushed
\* precedes what is still to be pushed, and what a node left out lies behind
\* the cursor or in the range of the batch in flight, and is never pushed.
OrderInv ==
  /\ exposed = {}
  /\ \A k \in delivered, l \in batch : k < l
  /\ missed \cap (delivered \cup batch) = {}
  /\ \A l \in missed : BlockOf[l] < next_block_ \/ (InBatch /\ BlockOf[l] <= to_block)
  /\ cold_start_ => missed = {}

\* Nothing has been pushed at the start.
LEMMA OrderStart == Init => OrderInv
BY DEF Init, OrderInv

\* Every step of the source keeps that order.
LEMMA OrderStep ==
  ASSUME Malformed = {}, IInv, OrderInv, [Next]_vars
  PROVE  OrderInv'
<1>1. ASSUME NEW seen \in Visible, ColdStart(seen) PROVE OrderInv'
  <2>1. /\ missed' = {} /\ delivered' = {} /\ exposed' = exposed
    BY <1>1 DEF ColdStart, IInv, StartInv, OrderInv
  <2> QED BY <2>1 DEF OrderInv
<1>2. ASSUME NEW seen \in Visible, GetLogs(seen) PROVE OrderInv'
  <2> DEFINE answer == LogsIn(next_block_, AtMost(to_block, seen))
             asked  == LogsIn(next_block_, to_block)
  <2>1. answer \subseteq asked /\ asked \subseteq Logs
    BY <1>2, AnsweredLogs DEF GetLogs
  <2>2. /\ pc = "fetch" /\ pc' = "batch" /\ batch' = answer
        /\ missed' = missed \cup (asked \ answer)
        /\ UNCHANGED <<cursor, range, origin, delivered, exposed>>
    BY <1>2 DEF GetLogs
  <2>3. /\ \A l \in asked : BlockOf[l] >= next_block_ /\ BlockOf[l] <= to_block
        /\ to_block' = to_block /\ to_block \in Int /\ next_block_ \in Nat
    BY <2>2 DEF LogsIn, IInv, TypeOK, to_block
  <2> HIDE DEF asked, answer
  <2>4. \A k \in delivered \cup missed : k \in Logs /\ BlockOf[k] < next_block_
    BY <2>2 DEF OrderInv, IInv, TypeOK, BatchInv, InBatch
  <2>5. \A k \in delivered, l \in answer : k < l
    <3> SUFFICES ASSUME NEW k \in delivered, NEW l \in answer, ~(k < l) PROVE FALSE
      OBVIOUS
    <3>1. k \in Logs /\ l \in Logs /\ k \in Nat /\ l \in Nat
      BY <2>1, <2>4
    <3>2. BlockOf[k] < BlockOf[l] /\ BlockOf[k] \in Nat /\ BlockOf[l] \in Nat
      BY <2>1, <2>3, <2>4, <3>1
    <3>3. l < k \/ l = k
      BY <3>1
    <3> QED BY <3>1, <3>2, <3>3
  <2>6. ~cold_start_
    BY <2>2 DEF IInv, StartInv
  <2>7. missed' \cap (delivered' \cup batch') = {}
    <3>1. \A l \in asked : l \notin delivered /\ l \notin missed
      BY <2>1, <2>3, <2>4
    <3> QED BY <2>1, <2>2, <3>1 DEF OrderInv
  <2>8. \A l \in missed' : BlockOf[l] < next_block_' \/ (InBatch' /\ BlockOf[l] <= to_block')
    BY <2>1, <2>2, <2>3, <2>4 DEF InBatch
  <2> QED BY <2>2, <2>5, <2>6, <2>7, <2>8 DEF OrderInv
<1>3. ASSUME NEW l \in Logs, PushBlocking(l) PROVE OrderInv'
  <2>1. /\ l \in batch /\ (\A k \in batch : l <= k) /\ batch \subseteq Logs
        /\ batch' = batch \ {l} /\ delivered' = delivered \cup {l}
        /\ pc = "push" /\ pc' = "batch"
        /\ UNCHANGED <<cursor, range, exposed, missed>>
    BY <1>3 DEF PushBlocking, PushLog, IsFirst, IInv, TypeOK
  <2> QED BY <2>1 DEF OrderInv, InBatch, to_block
<1>4. CASE AdvanceCursor
  <2>1. /\ pc = "batch" /\ pc' = "loop" /\ next_block_' = to_block + 1
        /\ UNCHANGED <<cold_start_, batch, exposed, missed, delivered>>
        /\ to_block \in Int /\ next_block_ \in Nat /\ next_block_ <= to_block
    BY <1>4 DEF AdvanceCursor, MoveCursor, IInv, TypeOK, NeverPastHead, to_block
  <2>2. \A l \in missed : BlockOf[l] \in Nat
    BY DEF IInv, TypeOK
  <2> QED BY <2>1, <2>2 DEF OrderInv
<1>5. CASE /\ Next /\ ~AdvanceCursor /\ ~(\E l \in Logs : PushBlocking(l))
           /\ ~(\E seen \in Visible : ColdStart(seen) \/ GetLogs(seen))
  <2>1. ~(\E l \in Logs : NormalizeFails(l))
    BY DEF NormalizeFails
  <2>2. /\ UNCHANGED <<next_block_, cold_start_, batch, exposed, missed, delivered>>
        /\ InBatch => InBatch' /\ UNCHANGED range
    BY <1>5, <2>1 DEF Next, Thread, Poll, Iterate, Exit, RefreshHead, UseCachedHead,
                LatestBlockFails, GetLogsFails, Normalize, Stop, NewBlock, Drain, InBatch
  <2> QED BY <2>2 DEF OrderInv, to_block
<1>6. CASE UNCHANGED vars
  BY <1>6 DEF OrderInv, InBatch, to_block
<1> QED BY <1>1, <1>2, <1>3, <1>4, <1>5, <1>6

\* On a chain without malformed logs every log is pushed at most once, and never
\* one that an earlier answer left out, whatever calls fail and however nodes lag.
THEOREM EachLogOnce ==
  ASSUME Malformed = {} PROVE Spec => [](repeated = {} /\ delivered \cap missed = {})
<1>1. Init => OrderInv
  BY OrderStart
<1>2. IInv /\ OrderInv /\ [Next]_vars => OrderInv'
  BY OrderStep
<1>3. IInv /\ OrderInv => repeated = {} /\ delivered \cap missed = {}
  BY DEF IInv, RepeatsOnlyAfterAbort, OrderInv
<1> QED BY <1>1, <1>2, <1>3, InvariantHolds, PTL DEF Spec
=============================================================================
