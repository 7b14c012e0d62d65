---------------------------- MODULE EventSource ----------------------------
(***************************************************************************)
(* The EventSource thread: run(), poll_once() and push_blocking() of       *)
(* src/events/EventSource.cpp.  One batch is: refresh the chain head when  *)
(* the cursor passed it, choose a block range, fetch its logs (halving the *)
(* range on errors), then normalize and push the logs one by one, and only *)
(* then move the cursor.  An exception anywhere abandons the batch and     *)
(* run() polls again from the same cursor.                                 *)
(*                                                                         *)
(* A log is a natural number, in chain order; its payload is abstracted    *)
(* away.  The ring buffer is its fill level: RiskEngine drains it.         *)
(***************************************************************************)
EXTENDS Integers

CONSTANTS Logs,           \* the logs of the chain, numbered in chain order
          BlockOf,        \* BlockOf[l] is the block of log l
          Malformed,      \* the logs normalize throws on, every time
          Unparsable,     \* the logs getLogs of the adapter throws on
          StartBlock,     \* EventSourceConfig::start_block
          BacktestEnd,    \* EventSourceConfig::backtest_end_block; 0: live
          MaxBlockRange,  \* EventSourceConfig::max_block_range
          RpcLimit,       \* the widest range the node answers
          MaxLag,         \* how many blocks a node may be behind the head
          MaxHead,        \* bound: the chain stops growing here
          Capacity        \* slots of the ring buffer

ASSUME ChainAssumption ==
  /\ Logs \subseteq Nat /\ Malformed \subseteq Logs /\ Unparsable \subseteq Logs
  /\ BlockOf \in [Logs -> Nat]
  /\ \A k, l \in Logs : k < l => BlockOf[k] <= BlockOf[l]

\* load_backtest_config accepts only start_block < end_block and a positive
\* max_block_range.
ASSUME ConfigAssumption ==
  /\ StartBlock \in Nat
  /\ BacktestEnd \in Nat
  /\ BacktestEnd # 0 => StartBlock < BacktestEnd
  /\ MaxBlockRange \in Nat \ {0}
  /\ RpcLimit \in Nat \ {0}
  /\ MaxLag \in Nat
  /\ MaxHead \in Nat
  /\ Capacity \in Nat \ {0}

VARIABLES pc,                 \* where the thread is
          running_,
          next_block_,
          cold_start_,
          cached_chain_head_,
          range,              \* poll_once's local range
          batch,              \* logs fetched and not yet pushed
          head,               \* the chain's real head
          out_,               \* signals in the ring buffer
          origin,             \* history: where live polling began
          delivered,          \* history: logs pushed at least once
          repeated,           \* history: logs pushed more than once
          exposed,            \* history: logs pushed by an abandoned batch
          missed              \* history: logs a lagging node left out

cursor     == <<next_block_, cold_start_, cached_chain_head_>>
shared     == <<running_, head, out_>>
threadVars == <<pc, cursor, range, batch>>
history    == <<origin, delivered, repeated, exposed, missed>>
vars       == <<threadVars, shared, history>>

LogsIn(from, to) == {l \in Logs : BlockOf[l] \in from..to}

\* External: the heads a call may see.  Behind a load balancer each call is
\* answered by some node, which may lag behind the chain.
Visible == {v \in 0..head : v >= head - MaxLag}

AtMost(a, b)  == IF a <= b THEN a ELSE b
AtLeast(a, b) == IF a >= b THEN a ELSE b

\* EventSourceConfig::min_block_range keeps its default everywhere.
MinBlockRange == 1

\* The last block of the range being polled.
to_block == next_block_ + range - 1

Init == /\ pc = "loop"
        /\ running_ = TRUE
        /\ next_block_ = StartBlock
        /\ cold_start_ = (StartBlock = 0)
        /\ cached_chain_head_ = 0
        /\ range = 0
        /\ batch = {}
        /\ head = 0
        /\ out_ = 0
        /\ origin = StartBlock
        /\ delivered = {}
        /\ repeated = {}
        /\ exposed = {}
        /\ missed = {}
----------------------------------------------------------------------------
\* Fault: the end of a backtest taken as exclusive.
RangeExhausted_Exclusive == BacktestEnd # 0 /\ next_block_ >= BacktestEnd

RangeExhausted == BacktestEnd # 0 /\ next_block_ > BacktestEnd

\* run(): enter one iteration of the loop.
Iterate == /\ pc = "loop"
           /\ running_ /\ ~RangeExhausted
           /\ pc' = "poll"
           /\ UNCHANGED <<cursor, range, batch, shared, history>>

\* Fault: the loop does not look at running_.
Exit_IgnoresStop == /\ pc = "loop" /\ RangeExhausted
                    /\ pc' = "done"
                    /\ UNCHANGED <<cursor, range, batch, shared, history>>

\* run(): stop() was called, or the backtest range is used up.
Exit == /\ pc = "loop"
        /\ ~running_ \/ RangeExhausted
        /\ pc' = "done"
        /\ UNCHANGED <<cursor, range, batch, shared, history>>

HeadIsStale == cached_chain_head_ = 0 \/ next_block_ > cached_chain_head_

\* latestBlock(), clipped to the backtest range.
Clip(h) == IF BacktestEnd # 0 THEN AtMost(h, BacktestEnd) ELSE h

\* Fault: a full range is asked for however near the head is.
ChooseRange_IgnoresHead(h) ==
  IF next_block_ > h THEN pc' = "loop" /\ UNCHANGED range
                     ELSE range' = MaxBlockRange /\ pc' = "fetch"

\* With head h known, choose the range to fetch, or go idle.
ChooseRange(h) ==
  IF next_block_ > h
  THEN pc' = "loop" /\ UNCHANGED range
  ELSE /\ range' = AtLeast(AtMost(MaxBlockRange, h - next_block_ + 1), MinBlockRange)
       /\ pc' = "fetch"

\* The first refresh of a source without a checkpoint only sets the cursor.
ColdStart(seen) ==
  /\ pc = "poll" /\ HeadIsStale /\ cold_start_
  /\ cached_chain_head_' = Clip(seen)
  /\ next_block_' = IF BacktestEnd = 0 THEN cached_chain_head_' ELSE next_block_
  /\ origin' = next_block_'
  /\ cold_start_' = FALSE
  /\ pc' = "loop"
  /\ UNCHANGED <<range, batch, shared, delivered, repeated, exposed, missed>>

RefreshHead(seen) ==
  /\ pc = "poll" /\ HeadIsStale /\ ~cold_start_
  /\ cached_chain_head_' = Clip(seen)
  /\ ChooseRange(cached_chain_head_')
  /\ UNCHANGED <<next_block_, cold_start_, batch, shared, history>>

\* Still behind the head seen earlier: no RPC for the head.
UseCachedHead ==
  /\ pc = "poll" /\ ~HeadIsStale
  /\ ChooseRange(cached_chain_head_)
  /\ UNCHANGED <<cursor, batch, shared, history>>

\* latestBlock() throws; run() logs it and polls again.
LatestBlockFails ==
  /\ pc = "poll" /\ HeadIsStale
  /\ pc' = "loop"
  /\ UNCHANGED <<cursor, range, batch, shared, history>>

\* getLogs(next_block_, to_block) answers, with what the node asked has seen of
\* those blocks; the adapter throws on a log it cannot parse.  The batch
\* timestamp that follows falls back to the system clock on an error, so it
\* cannot fail the batch.
GetLogs(seen) ==
  LET answer == LogsIn(next_block_, AtMost(to_block, seen))
  IN  /\ pc = "fetch"
      /\ range <= RpcLimit
      /\ answer \cap Unparsable = {}
      /\ batch' = answer
      /\ missed' = missed \cup (LogsIn(next_block_, to_block) \ answer)
      /\ pc' = "batch"
      /\ UNCHANGED <<cursor, range, shared, origin, delivered, repeated, exposed>>

\* Fault: the batch is given up at once instead of being halved.
GetLogsFails_NoShrink ==
  /\ pc = "fetch" /\ pc' = "loop"
  /\ UNCHANGED <<cursor, range, batch, shared, history>>

\* getLogs throws: halve the range, or give the batch up at the minimum.
GetLogsFails ==
  /\ pc = "fetch"
  /\ IF range <= MinBlockRange
     THEN pc' = "loop" /\ UNCHANGED range
     ELSE range' = AtLeast(range \div 2, MinBlockRange) /\ UNCHANGED pc
  /\ UNCHANGED <<cursor, batch, shared, history>>

\* Fault: the logs of a batch are pushed in any order.
IsFirst_AnyOrder(l) == l \in batch

\* The log the loop over the batch has reached.
IsFirst(l) == l \in batch /\ \A k \in batch : l <= k

\* normalize accepts the next log.
Normalize(l) ==
  /\ pc = "batch" /\ IsFirst(l) /\ l \notin Malformed
  /\ pc' = "push"
  /\ UNCHANGED <<cursor, range, batch, shared, history>>

\* Fault: a malformed log is left out and the batch goes on.
NormalizeFails_DropsLog(l) ==
  /\ pc = "batch" /\ IsFirst(l) /\ l \in Malformed
  /\ batch' = batch \ {l}
  /\ UNCHANGED <<pc, cursor, range, shared, history>>

\* normalize throws on a malformed log: the logs of the batch already pushed
\* stay in the ring, and the cursor stays where it was.
NormalizeFails(l) ==
  /\ pc = "batch" /\ IsFirst(l) /\ l \in Malformed
  /\ exposed' = exposed \cup (delivered \cap (LogsIn(next_block_, to_block) \ batch))
  /\ batch' = {}
  /\ pc' = "loop"
  /\ UNCHANGED <<cursor, range, shared, origin, delivered, repeated, missed>>

\* try_push of the log succeeds: what that is to the source.
PushLog(l) ==
  /\ pc = "push" /\ IsFirst(l)
  /\ batch' = batch \ {l}
  /\ delivered' = delivered \cup {l}
  /\ repeated' = IF l \in delivered THEN repeated \cup {l} ELSE repeated
  /\ pc' = "batch"
  /\ UNCHANGED <<cursor, range, running_, head, origin, exposed, missed>>

\* Fault: a full ring does not hold the producer back.
PushBlocking_NoRoomCheck(l) == out_' = out_ + 1 /\ PushLog(l)

\* push_blocking: waits while the ring is full, whatever running_ says.
PushBlocking(l) == /\ out_ < Capacity
                   /\ out_' = out_ + 1
                   /\ PushLog(l)

\* The whole batch is in the ring: only now does the cursor move.
MoveCursor(block) ==
  /\ pc = "batch" /\ batch = {}
  /\ next_block_' = block
  /\ pc' = "loop"
  /\ UNCHANGED <<cold_start_, cached_chain_head_, range, batch, shared, history>>

\* Faults: the cursor skips a block, or stays on the last block of the batch.
AdvanceCursor_SkipsBlock == MoveCursor(to_block + 2)
AdvanceCursor_Repeats    == MoveCursor(to_block)

AdvanceCursor == MoveCursor(to_block + 1)

\* stop(), called by App's main thread; a backtest never calls it.
Stop == /\ BacktestEnd = 0 /\ running_
        /\ running_' = FALSE
        /\ UNCHANGED <<threadVars, head, out_, history>>

\* External: the chain grows, and RiskEngine pops a signal.
NewBlock == /\ head < MaxHead
            /\ head' = head + 1
            /\ UNCHANGED <<threadVars, running_, out_, history>>

Drain == /\ out_ > 0
         /\ out_' = out_ - 1
         /\ UNCHANGED <<threadVars, running_, head, history>>

\* All the thread does but for the push.
Poll == \/ Iterate \/ Exit
        \/ (\E seen \in Visible : ColdStart(seen))
        \/ (\E seen \in Visible : RefreshHead(seen))
        \/ UseCachedHead \/ LatestBlockFails
        \/ (\E seen \in Visible : GetLogs(seen)) \/ GetLogsFails
        \/ (\E l \in Logs : Normalize(l)) \/ (\E l \in Logs : NormalizeFails(l))
        \/ AdvanceCursor

Thread == Poll \/ \E l \in Logs : PushBlocking(l)

Next == Thread \/ Stop \/ NewBlock \/ Drain

\* The thread is scheduled, the engine drains, the chain grows; an RPC call
\* retried for ever is answered in the end, and by a node that is up to date.
Fairness == /\ WF_vars(Thread) /\ WF_vars(Drain) /\ WF_vars(NewBlock)
            /\ SF_vars(ColdStart(head)) /\ SF_vars(RefreshHead(head))
            /\ SF_vars(GetLogs(head))

Spec     == Init /\ [][Next]_vars
FairSpec == Spec /\ Fairness
----------------------------------------------------------------------------
(* Properties *)

TypeOK ==
  /\ pc \in {"loop", "poll", "fetch", "batch", "push", "done"}
  /\ running_ \in BOOLEAN /\ cold_start_ \in BOOLEAN
  /\ next_block_ \in Nat /\ cached_chain_head_ \in Nat /\ range \in Nat
  /\ head \in 0..MaxHead /\ out_ \in 0..Capacity /\ origin \in Nat
  /\ batch \subseteq Logs /\ delivered \subseteq Logs
  /\ repeated \subseteq Logs /\ exposed \subseteq Logs /\ missed \subseteq Logs

\* No log is skipped by the source: whatever mixture of failed calls, halved
\* ranges, abandoned batches and lagging nodes led here, every log between the
\* block polling began at and the cursor was pushed to the ring, but for those
\* a node left out of an answer because it had not seen their block - and if no
\* node lags, there are none (poll_once, lines 126-187).
NothingSkipped == /\ LogsIn(origin, next_block_ - 1) \subseteq delivered \cup missed
                  /\ MaxLag = 0 => missed = {}

\* Only an exception of normalize in the middle of a batch makes the source
\* push a log again: RPC errors, shrunk ranges and head refreshes never do
\* (poll_once advances the cursor only after line 184's loop).
RepeatsOnlyAfterAbort == repeated \subseteq exposed

\* The source never asks for a block past the head it knows of, nor, in a
\* backtest, past backtest_end_block: a range that overshot would move the
\* cursor over blocks that do not exist yet (lines 95-98, 122-128, 187).
NeverPastHead ==
  /\ pc \in {"fetch", "batch", "push"} => range >= 1 /\ to_block <= cached_chain_head_
  /\ cached_chain_head_ <= head
  /\ BacktestEnd # 0 => cached_chain_head_ <= BacktestEnd /\ next_block_ <= BacktestEnd + 1

\* EventSourceConfig: a backtest "processes [start_block, backtest_end_block]
\* inclusive and then exits run() cleanly" - what has been pushed at the exit
\* is that range, with no log past it, and lacks only what a node left out.
BacktestExact ==
  pc = "done" /\ BacktestEnd # 0 =>
    /\ delivered \subseteq LogsIn(StartBlock, BacktestEnd)
    /\ LogsIn(StartBlock, BacktestEnd) \subseteq delivered \cup missed

\* Why the three facts above hold, as one inductive invariant: a batch in
\* flight is what remains of its range, what is gone from it was pushed or never
\* in the answer, and a log at or past the cursor that was pushed belongs to the batch in flight
\* or to one that normalize abandoned.
InBatch == pc \in {"batch", "push"}
Pushed  == LogsIn(next_block_, to_block) \ batch
BatchInv ==
  /\ InBatch => batch \subseteq LogsIn(next_block_, to_block) /\ Pushed \subseteq delivered \cup missed
  /\ ~InBatch => batch = {}
  /\ \A l \in delivered : BlockOf[l] >= next_block_ =>
                            l \in exposed \/ (InBatch /\ l \in Pushed)
  /\ \A l \in delivered : /\ BlockOf[l] >= origin
                          /\ BacktestEnd # 0 => BlockOf[l] <= BacktestEnd
StartInv ==
  /\ cold_start_ => /\ StartBlock = 0 /\ next_block_ = StartBlock
                    /\ cached_chain_head_ = 0
                    /\ delivered = {} /\ pc \in {"loop", "poll", "done"}
  /\ BacktestEnd # 0 => origin = StartBlock /\ running_
  /\ pc = "done" => ~running_ \/ RangeExhausted
  /\ origin <= next_block_
IInv == /\ TypeOK /\ NothingSkipped /\ RepeatsOnlyAfterAbort /\ NeverPastHead
        /\ BatchInv /\ StartInv

\* A log that cannot be processed holds the source up for good: nothing after a
\* malformed log, and nothing of an unparsable log's block or after it, is ever
\* pushed, so no log is evaluated out of its place behind a gap.
MalformedBlocks ==
  \A m \in (Malformed \cup Unparsable) \ missed : BlockOf[m] >= origin =>
    \A l \in delivered : /\ m \in Malformed => l < m
                         /\ m \in Unparsable => BlockOf[l] < BlockOf[m]

\* What makes it inductive: no such log was pushed or is about to be.
MalformedInv ==
  /\ delivered \cap (Malformed \cup Unparsable) = {}
  /\ batch \cap Unparsable = {}
  /\ pc = "push" => \A l \in batch : IsFirst(l) => l \notin Malformed
  /\ MalformedBlocks

\* The contract the rest of the pipeline relies on: in order, at least once.
Feed == INSTANCE BlockFeed WITH cursor <- next_block_
ImplementsBlockFeed == Feed!FeedSpec

\* Live: a log at or past the cursor that is on the chain is pushed sooner or
\* later, unless a node left it out or the source is stopped - also when a
\* malformed log after it, maybe in the same batch, or an unparsable log in a
\* later block, maybe in the same range, makes poll_once throw every time.
HeldUp(l) == \/ \E k \in Malformed : k <= l /\ BlockOf[k] >= next_block_
             \/ \E k \in Unparsable : BlockOf[k] \in next_block_..BlockOf[l]
EveryLogDelivered ==
  \A l \in Logs :
    (~cold_start_ /\ BlockOf[l] \in next_block_..head /\ ~HeldUp(l))
      ~> (l \in delivered \cup missed \/ ~running_)

\* "Clean shutdown" (EventSource.hpp:48): after stop() run() returns, provided
\* the ring is still being drained.
StopEndsRun == ~running_ ~> pc = "done"
=============================================================================
