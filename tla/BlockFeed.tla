----------------------------- MODULE BlockFeed -----------------------------
(***************************************************************************)
(* What the ring buffer may rely on from a block source, whatever the RPC  *)
(* node does: logs arrive in chain order from the cursor on, each at least *)
(* once, and the cursor never passes a log that was not handed over, save   *)
(* the logs a lagging node left out.                                       *)
(* EventSource is shown to implement this specification.                   *)
(***************************************************************************)
EXTENDS Integers

CONSTANTS Logs,        \* the logs of the chain, numbered in chain order
          BlockOf,     \* the block each log is in
          StartBlock,  \* EventSourceConfig::start_block
          BacktestEnd, \* EventSourceConfig::backtest_end_block, 0 in live mode
          MaxLag       \* how many blocks a node may be behind the head

VARIABLES cursor,      \* the next block to hand over
          origin,      \* the first block the feed is responsible for
          delivered,   \* the logs handed over at least once
          missed       \* the logs a lagging node left out

feedVars == <<cursor, origin, delivered, missed>>

LogsIn(from, to) == {l \in Logs : BlockOf[l] \in from..to}

FeedInit == /\ cursor = StartBlock
            /\ origin = StartBlock
            /\ delivered = {}
            /\ missed = {}

\* Without a checkpoint a live feed chooses where to begin, before any log.
JumpToHead == /\ StartBlock = 0 /\ BacktestEnd = 0
              /\ delivered = {}
              /\ cursor = StartBlock
              /\ cursor' \in Nat
              /\ origin' = cursor'
              /\ UNCHANGED <<delivered, missed>>

\* Only a node behind the head may leave logs out, and only of blocks that
\* were not yet passed.
Miss == /\ MaxLag > 0
        /\ missed \subseteq missed'
        /\ \A l \in missed' \ missed : l \in Logs /\ BlockOf[l] >= cursor
        /\ UNCHANGED <<cursor, origin, delivered>>

\* A log is handed over only after every earlier log at or past the cursor.
Deliver(l) == /\ BlockOf[l] >= cursor
              /\ \A k \in Logs : k < l /\ BlockOf[k] >= cursor => k \in delivered \cup missed
              /\ delivered' = delivered \cup {l}
              /\ UNCHANGED <<cursor, origin, missed>>

Advance == /\ cursor' \in Nat /\ cursor' > cursor
           /\ BacktestEnd # 0 => cursor' <= BacktestEnd + 1
           /\ LogsIn(cursor, cursor' - 1) \subseteq delivered \cup missed
           /\ UNCHANGED <<origin, delivered, missed>>

FeedNext == JumpToHead \/ Miss \/ Advance \/ \E l \in Logs : Deliver(l)

FeedSpec == FeedInit /\ [][FeedNext]_feedVars
=============================================================================
