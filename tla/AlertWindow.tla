---------------------------- MODULE AlertWindow ----------------------------
(***************************************************************************)
(* What deduplication promises: an alert is suppressed only while the      *)
(* window of one with the same key that was let through has not passed on  *)
(* the clock, and let through only once it has - on the clock, or on the   *)
(* latest time the clock showed, when it was set back since.  On a clock   *)
(* that is never set back that decides every alert.  The promise knows     *)
(* nothing of the table that AlertDeduplicator prunes.                     *)
(***************************************************************************)
EXTENDS Integers

CONSTANTS Keys,      \* deduplication keys
          Window(_)  \* the window of a key

VARIABLES now,       \* the clock the dispatcher reads
          peak,      \* the latest time it ever showed
          lastSent,  \* when each key was last let through; Never at first
          verdict    \* the last decision

windowVars == <<now, peak, lastSent, verdict>>

Never == -1
NoVerdict == [key |-> << >>, suppressed |-> FALSE, at |-> 0]

WindowInit == /\ now = 0 /\ peak = 0
              /\ lastSent = [k \in Keys |-> Never]
              /\ verdict = NoVerdict

Suppress(k) == /\ lastSent[k] # Never /\ now - lastSent[k] < Window(k)
               /\ verdict' = [key |-> k, suppressed |-> TRUE, at |-> now]
               /\ UNCHANGED <<now, peak, lastSent>>

LetThrough(k) == /\ lastSent[k] = Never \/ peak - lastSent[k] >= Window(k)
                 /\ verdict' = [key |-> k, suppressed |-> FALSE, at |-> now]
                 /\ lastSent' = [lastSent EXCEPT ![k] = now]
                 /\ UNCHANGED <<now, peak>>

SetClock == /\ now' \in Nat
            /\ peak' = IF now' > peak THEN now' ELSE peak
            /\ UNCHANGED <<lastSent, verdict>>

WindowNext == SetClock \/ \E k \in Keys : Suppress(k) \/ LetThrough(k)

WindowSpec == WindowInit /\ [][WindowNext]_windowVars
=============================================================================
