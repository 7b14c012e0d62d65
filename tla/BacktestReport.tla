--------------------------- MODULE BacktestReport ---------------------------
(***************************************************************************)
(* The JSON Lines report of a backtest: alerts of past blocks go through   *)
(* the same AlertDeduplicator as in the live service and what it lets      *)
(* through is written by FileAlertChannel.  AlertDispatcher::run reads the *)
(* system clock for every alert, so the windows run on the time of the     *)
(* replay; the customer of the live service would have been alerted, and   *)
(* deduplicated, at the time of the blocks.                                *)
(***************************************************************************)
EXTENDS AlertDeduplicator

CONSTANTS WriteFails,  \* whether the output file may refuse a line
          MaxAlerts    \* bound: alerts the rules raise

VARIABLES blockTime,    \* timestamp of the block being replayed
          raised,       \* alerts raised so far
          alert_count_, \* lines written
          liveSent,     \* history: when the live service last sent each key
          liveCount     \* history: alerts the live service would have sent

reportVars == <<vars, blockTime, raised, alert_count_, liveSent, liveCount>>

ReportInit == /\ Init
              /\ blockTime = 0 /\ raised = 0 /\ alert_count_ = 0
              /\ liveSent = [k \in Keys |-> Never] /\ liveCount = 0

\* FileAlertChannel::send: a line that cannot be written is logged and not
\* counted; the deduplicator has recorded the alert all the same.
WriteLine(ok) == alert_count_' = IF ok THEN alert_count_ + 1 ELSE alert_count_

\* What the live service decides at the time of the block.
LiveSuppresses(k) == liveSent[k] # Never /\ blockTime - liveSent[k] < WindowOf(k)

\* AlertDispatcher::run takes the next alert.
Replay(alert) ==
  LET key == build_key(alert)
  IN  /\ raised < MaxAlerts
      /\ raised' = raised + 1
      /\ should_suppress(key)
      /\ IF Recent(key)
         THEN UNCHANGED alert_count_
         ELSE \E ok \in {TRUE, ~WriteFails} : WriteLine(ok)
      /\ IF LiveSuppresses(key)
         THEN UNCHANGED <<liveSent, liveCount>>
         ELSE /\ liveSent' = [liveSent EXCEPT ![key] = blockTime]
              /\ liveCount' = liveCount + 1
      /\ UNCHANGED blockTime

\* The replay reaches a later block, and the system clock advances: nothing
\* ties the one to the other.
NextBlock == /\ blockTime' \in (blockTime + 1)..MaxTime
             /\ UNCHANGED <<vars, raised, alert_count_, liveSent, liveCount>>

Clock == /\ Tick
         /\ UNCHANGED <<blockTime, raised, alert_count_, liveSent, liveCount>>

ReportNext == NextBlock \/ Clock \/ \E a \in Alerts : Replay(a)

ReportSpec == ReportInit /\ [][ReportNext]_reportVars
----------------------------------------------------------------------------
(* What the README says and the code does not do *)

\* README: "the alert count in the JSONL is what a customer would actually
\* see", with the dedup windows of production.
CountIsWhatCustomersSee == alert_count_ = liveCount
=============================================================================
