----------------------- MODULE AlertDispatcherProofs -----------------------
(***************************************************************************)
(* Proofs about AlertDeduplicator for every set of alerts, every table of  *)
(* windows, every pruning interval and every clock; and about              *)
(* AlertDispatcher, which uses it, for every choice of channels and        *)
(* endpoints and every outcome of every send().                            *)
(***************************************************************************)
EXTENDS AlertDispatcher, FiniteSetTheorems, TLAPS
----------------------------------------------------------------------------
(* The deduplicator *)

\* The pruning limit is at least the window of every key, the default one
\* included.
LEMMA LongestWindow ==
  /\ max_configured_window_ms_ \in Nat
  /\ \A k \in Keys : WindowOf(k) \in Nat /\ WindowOf(k) <= max_configured_window_ms_
<1>1. /\ max_configured_window_ms_ \in Windows
      /\ \A w \in Windows : w <= max_configured_window_ms_
  BY WindowAssumption DEF max_configured_window_ms_
<1>2. \A k \in Keys : WindowOf(k) \in Windows
  BY DEF WindowOf, Windows
<1> QED BY <1>1, <1>2, WindowAssumption

\* The deduplicator starts with an empty table.
LEMMA InitInv == Init => IInv
<1> SUFFICES ASSUME Init PROVE IInv
    OBVIOUS
<1>1. DOMAIN last_fired_ms_ = {}
  BY DEF Init
<1>2. TypeOK
  BY <1>1, WindowAssumption DEF Init, TypeOK
<1>3. TableInv
  BY <1>1 DEF Init, TableInv, Never
<1>4. SuppressionJustified
  BY DEF Init, SuppressionJustified, NoVerdict
<1> QED BY <1>2, <1>3, <1>4 DEF IInv

\* Recording a key that is let through sets its entry to the clock and leaves
\* the others; a suppressed key changes nothing.
LEMMA RecordedTable ==
  ASSUME IInv, NEW k \in Keys
  PROVE  LET sent == IF Recent(k) THEN lastSent ELSE [lastSent EXCEPT ![k] = now]
         IN  /\ DOMAIN Recorded(k) = DOMAIN last_fired_ms_ \cup {k}
             /\ \A x \in DOMAIN Recorded(k) : /\ Recorded(k)[x] \in Nat
                                              /\ Recorded(k)[x] = sent[x]
<1>1. CASE Recent(k)
  BY <1>1 DEF Recorded, Recent, Tracked, IInv, TypeOK, TableInv
<1>2. CASE ~Recent(k)
  BY <1>2 DEF Recorded, IInv, TypeOK, TableInv
<1> QED BY <1>1, <1>2

\* One call of should_suppress keeps the invariant, whether or not it prunes.
LEMMA SuppressInv ==
  ASSUME IInv, NEW k \in Keys, should_suppress(k)
  PROVE  IInv'
<1> DEFINE sent == IF Recent(k) THEN lastSent ELSE [lastSent EXCEPT ![k] = now]
           T    == Recorded(k)
           max  == max_configured_window_ms_
<1>1. /\ lastSent' = sent /\ now' = now /\ peak' = peak
      /\ verdict' = [key |-> k, suppressed |-> Recent(k), at |-> now]
  BY DEF should_suppress
<1>2. /\ DOMAIN T = DOMAIN last_fired_ms_ \cup {k}
      /\ \A x \in DOMAIN T : T[x] \in Nat /\ T[x] = sent[x]
  BY RecordedTable
<1>3. /\ DOMAIN last_fired_ms_' \subseteq DOMAIN T
      /\ \A x \in DOMAIN last_fired_ms_' : last_fired_ms_'[x] = T[x]
      /\ \A x \in DOMAIN T \ DOMAIN last_fired_ms_' : now - T[x] > max
      /\ alerts_processed_since_cleanup_' \in Nat
  BY DEF should_suppress, cleanup_stale_entries, Stale, IInv, TypeOK
<1>4. sent \in [Keys -> Nat \cup {Never}] /\ \A x \in Keys : sent[x] <= peak
  BY DEF IInv, TypeOK, TableInv
<1>5. Recent(k) \in BOOLEAN
  BY Zenon DEF Recent
<1>6. TypeOK'
  <2>1. verdict' \in [key : Keys, suppressed : BOOLEAN, at : Nat]
    BY <1>1, <1>5 DEF IInv, TypeOK
  <2>2. DOMAIN last_fired_ms_' \subseteq Keys
    BY <1>2, <1>3 DEF IInv, TypeOK
  <2> QED BY <1>1, <1>2, <1>3, <1>4, <2>1, <2>2 DEF IInv, TypeOK
<1>7. TableInv'
  <2>1. \A x \in Keys \ DOMAIN last_fired_ms_' :
           sent[x] = Never \/ peak - sent[x] > max
    <3> SUFFICES ASSUME NEW x \in Keys, x \notin DOMAIN last_fired_ms_'
                 PROVE  sent[x] = Never \/ peak - sent[x] > max
      OBVIOUS
    <3>1. CASE x \in DOMAIN T
      BY <3>1, <1>2, <1>3, LongestWindow DEF IInv, TypeOK, TableInv
    <3>2. CASE x \notin DOMAIN T
      <4>1. x # k /\ x \notin DOMAIN last_fired_ms_ /\ sent[x] = lastSent[x]
        BY <3>2, <1>2 DEF IInv, TypeOK
      <4> QED BY <4>1 DEF IInv, TableInv
    <3> QED BY <3>1, <3>2
  <2> QED BY <1>1, <1>2, <1>3, <1>4, <2>1 DEF IInv, TableInv, max_configured_window_ms_, Windows
<1>8. SuppressionJustified'
  <2> SUFFICES ASSUME Recent(k)
               PROVE  lastSent[k] # Never /\ now < lastSent[k] + WindowOf(k)
    BY <1>1 DEF SuppressionJustified, WindowOf, Never
  <2> QED BY LongestWindow DEF Recent, Tracked, IInv, TypeOK, TableInv, Never
<1> QED BY <1>6, <1>7, <1>8 DEF IInv

\* Every step keeps the invariant.
LEMMA StepInv == IInv /\ [Next]_vars => IInv'
<1> SUFFICES ASSUME IInv, [Next]_vars PROVE IInv'
    OBVIOUS
<1>1. CASE Tick
  <2>1. \A k \in Keys : lastSent[k] \in Int
    BY DEF IInv, TypeOK, Never
  <2>2. peak' \in 0..MaxTime /\ peak' >= peak /\ now' <= peak' /\ now' \in 0..MaxTime
    BY <1>1, WindowAssumption DEF Tick, IInv, TypeOK
  <2>4. TypeOK'
    BY <1>1, <2>2 DEF Tick, IInv, TypeOK
  <2>5. TableInv'
    <3>1. /\ lastSent' = lastSent /\ last_fired_ms_' = last_fired_ms_
      BY <1>1 DEF Tick
    <3>2. /\ peak \in Int /\ peak' \in Int /\ peak' >= peak
      BY <2>2, WindowAssumption DEF IInv, TypeOK
    <3>3. \A k \in Keys : lastSent[k] <= peak'
      BY <2>1, <3>2 DEF IInv, TableInv
    <3>4. \A k \in Keys \ DOMAIN last_fired_ms_ :
             lastSent[k] = Never \/ peak' - lastSent[k] > max_configured_window_ms_
      BY <2>1, <3>2, LongestWindow DEF IInv, TableInv
    <3> QED BY <2>2, <3>1, <3>3, <3>4 DEF IInv, TableInv
  <2>6. SuppressionJustified'
    BY <1>1 DEF Tick, IInv, SuppressionJustified, WindowOf
  <2> QED BY <2>4, <2>5, <2>6 DEF IInv
<1>2. CASE StepBack
  <2>1. TypeOK'
    BY <1>2, WindowAssumption DEF StepBack, IInv, TypeOK
  <2>2. TableInv'
    BY <1>2, WindowAssumption
       DEF StepBack, IInv, TypeOK, TableInv, max_configured_window_ms_, Windows
  <2>3. SuppressionJustified'
    BY <1>2 DEF StepBack, IInv, SuppressionJustified, WindowOf
  <2> QED BY <2>1, <2>2, <2>3 DEF IInv
<1>3. ASSUME NEW a \in Alerts, should_suppress(build_key(a)) PROVE IInv'
  <2>1. build_key(a) \in Keys
    BY DEF Keys
  <2> QED BY <1>3, <2>1, SuppressInv
<1>4. CASE UNCHANGED vars
  BY <1>4 DEF vars, IInv, TypeOK, TableInv, SuppressionJustified, WindowOf,
              max_configured_window_ms_, Windows
<1> QED BY <1>1, <1>2, <1>3, <1>4 DEF Next

\* The inductive invariant holds in every reachable state.
THEOREM InvariantHolds == Spec => []IInv
<1>1. Init => IInv
  BY InitInv
<1>2. IInv /\ [Next]_vars => IInv'
  BY StepInv
<1> QED BY <1>1, <1>2, PTL DEF Spec

\* Type correctness.
THEOREM TypeCorrect == Spec => []TypeOK
<1>1. IInv => TypeOK
  BY DEF IInv
<1> QED BY <1>1, InvariantHolds, PTL

\* Nothing is suppressed without a recent alert of the same key.
THEOREM NoUnjustifiedSuppression == Spec => []SuppressionJustified
<1>1. IInv => SuppressionJustified
  BY DEF IInv
<1> QED BY <1>1, InvariantHolds, PTL

\* The heart of the next two theorems: when a key is let through again, the
\* clock has shown a time a window after the last time it was.
LEMMA LetThroughLate ==
  ASSUME IInv, NEW k \in Keys, ~Recent(k), lastSent[k] # Never
  PROVE  peak - lastSent[k] >= WindowOf(k)
<1>1. lastSent[k] \in Nat /\ now \in Nat /\ peak \in Nat /\ now <= peak
  BY WindowAssumption DEF IInv, TypeOK, TableInv
<1>2. CASE Tracked(k)
  <2>1. last_fired_ms_[k] = lastSent[k] /\ ~(now - last_fired_ms_[k] < WindowOf(k))
    BY <1>2 DEF Recent, Tracked, IInv, TableInv
  <2> QED BY <1>1, <2>1, LongestWindow
<1>3. CASE ~Tracked(k)
  <2>1. peak - lastSent[k] > max_configured_window_ms_
    BY <1>3 DEF Tracked, IInv, TableInv
  <2> QED BY <1>1, <2>1, LongestWindow
<1> QED BY <1>2, <1>3

\* Pruning the table and setting the clock back never let a duplicate out
\* before the clock has shown a whole window since the last one.
THEOREM DuplicatesAreSpaced == Spec => SendsAreSpaced
<1> DEFINE Spaced == \A k \in Keys : (lastSent[k] # Never /\ lastSent'[k] # lastSent[k])
                                        => peak - lastSent[k] >= WindowOf(k)
<1>1. IInv /\ [Next]_vars => [Spaced]_vars
  <2> SUFFICES ASSUME IInv, Next, NEW k \in Keys,
                      lastSent[k] # Never, lastSent'[k] # lastSent[k]
               PROVE  peak - lastSent[k] >= WindowOf(k)
    OBVIOUS
  <2>1. PICK a \in Alerts : should_suppress(build_key(a))
    BY DEF Next, Tick, StepBack
  <2>2. ~Recent(build_key(a)) /\ k = build_key(a)
    BY <2>1 DEF should_suppress, IInv, TypeOK
  <2> QED BY <2>2, LetThroughLate
<1> QED BY <1>1, InvariantHolds, PTL DEF Spec, SendsAreSpaced

\* Pruning is invisible: every answer is one AlertWindow, which forgets
\* nothing, allows.
THEOREM PruningIsInvisible == Spec => ImplementsWindow
<1>1. Init => Promise!WindowInit
  BY DEF Init, Promise!WindowInit, NoVerdict, Promise!NoVerdict, Never, Promise!Never
<1>2. IInv /\ [Next]_vars => [Promise!WindowNext]_Promise!windowVars
  <2> SUFFICES ASSUME IInv, [Next]_vars PROVE [Promise!WindowNext]_Promise!windowVars
    OBVIOUS
  <2>1. CASE Tick
    BY <2>1, WindowAssumption
       DEF Tick, IInv, TypeOK, Promise!WindowNext, Promise!SetClock
  <2>2. CASE StepBack
    BY <2>2, WindowAssumption
       DEF StepBack, IInv, TypeOK, TableInv, Promise!WindowNext, Promise!SetClock
  <2>3. ASSUME NEW a \in Alerts, should_suppress(build_key(a))
        PROVE  Promise!WindowNext
    <3> DEFINE k == build_key(a)
    <3>1. k \in Keys
      BY DEF Keys
    <3>2. CASE Recent(k)
      <4>1. lastSent[k] # Never /\ now - lastSent[k] < WindowOf(k)
        BY <3>1, <3>2, LongestWindow DEF Recent, Tracked, IInv, TypeOK, TableInv, Never
      <4>2. /\ verdict' = [key |-> k, suppressed |-> TRUE, at |-> now]
            /\ UNCHANGED <<now, peak, lastSent>>
        <5>1. Recent(k) = TRUE
          BY <3>2 DEF Recent
        <5>2. /\ verdict' = [key |-> k, suppressed |-> Recent(k), at |-> now]
              /\ lastSent' = IF Recent(k) THEN lastSent ELSE [lastSent EXCEPT ![k] = now]
              /\ UNCHANGED <<now, peak>>
          BY <2>3 DEF should_suppress
        <5> QED BY <3>2, <5>1, <5>2
      <4>3. Promise!Suppress(k)
        BY <4>1, <4>2 DEF Promise!Suppress, Promise!Never, Never
      <4> QED BY <3>1, <4>3 DEF Promise!WindowNext
    <3>3. CASE ~Recent(k)
      <4>1. lastSent[k] = Never \/ peak - lastSent[k] >= WindowOf(k)
        BY <3>1, <3>3, LetThroughLate
      <4>2. /\ verdict' = [key |-> k, suppressed |-> FALSE, at |-> now]
            /\ lastSent' = [lastSent EXCEPT ![k] = now]
            /\ UNCHANGED <<now, peak>>
        <5>1. Recent(k) = FALSE
          BY <3>3 DEF Recent
        <5>2. /\ verdict' = [key |-> k, suppressed |-> Recent(k), at |-> now]
              /\ lastSent' = IF Recent(k) THEN lastSent ELSE [lastSent EXCEPT ![k] = now]
              /\ UNCHANGED <<now, peak>>
          BY <2>3 DEF should_suppress
        <5>3. verdict' = [key |-> k, suppressed |-> FALSE, at |-> now]
          BY <5>1, <5>2
        <5>4. lastSent' = [lastSent EXCEPT ![k] = now]
          BY <3>3, <5>2
        <5> QED BY <5>2, <5>3, <5>4
      <4>3. Promise!LetThrough(k)
        BY <4>1, <4>2 DEF Promise!LetThrough, Promise!Never, Never
      <4> QED BY <3>1, <4>3 DEF Promise!WindowNext
    <3> QED BY <3>2, <3>3
  <2>4. CASE UNCHANGED vars
    BY <2>4 DEF vars, Promise!windowVars
  <2> QED BY <2>1, <2>2, <2>3, <2>4 DEF Next
<1> QED BY <1>1, <1>2, InvariantHolds, PTL DEF Spec, ImplementsWindow, Promise!WindowSpec
----------------------------------------------------------------------------
(* The dispatcher *)

\* Items run() has taken off the queue, and those it is done with.
Taken    == Len(dispatched) - Len(queue_)
Finished == IF current = 0 THEN Taken ELSE Taken - 1

DispatcherTypeOK ==
  /\ dispatched \in Seq(Alerts) /\ queue_ \in Seq(Nat)
  /\ suppressed \in Seq(Nat) /\ completed \in Seq(Nat)
  /\ current \in Nat /\ nextChannel \in Nat
  /\ dpc \in {"start", "loop", "handle", "done"}
  /\ dispatcherRunning \in BOOLEAN /\ stopCalled \in BOOLEAN
  /\ alerts_sent_total \in [Names -> Nat] /\ alerts_send_failures_total \in [Names -> Nat]
  /\ alerts_deduplicated_total \in Nat

\* The queue holds the items dispatched last, in order; the item in hand is
\* the one before them.
QueueInv ==
  /\ Len(queue_) <= Len(dispatched)
  /\ \A i \in DOMAIN queue_ : queue_[i] = Taken + i
  /\ dpc = "handle" <=> current # 0
  /\ current # 0 => current = Taken
  /\ current = 0 => nextChannel = 0
  /\ nextChannel <= Len(channels_) + 1

\* The items done with are all before the one in hand, and each was done with
\* once.
AccountInv ==
  /\ Elements(suppressed) \cup Elements(completed) = 1..Finished
  /\ Elements(suppressed) \cap Elements(completed) = {}
  /\ Len(suppressed) + Len(completed) = Finished

\* run() is past its first line and running_ is clear only after stop(), and
\* it has returned only with the queue empty, which it then stays.
LifeInv ==
  /\ dpc \in {"loop", "handle"} => dispatcherRunning \/ stopCalled
  /\ dpc = "done" => stopCalled /\ queue_ = << >>

DispatcherInv == DispatcherTypeOK /\ QueueInv /\ AccountInv /\ LifeInv /\ CountersAddUp
----------------------------------------------------------------------------
\* Appending to a history adds one element.
LEMMA ElementsOfAppend ==
  ASSUME NEW s \in Seq(Nat), NEW x \in Nat
  PROVE  Elements(Append(s, x)) = Elements(s) \cup {x}
<1>1. /\ DOMAIN Append(s, x) = 1..(Len(s) + 1) /\ DOMAIN s = 1..Len(s) /\ Len(s) \in Nat
      /\ \A i \in 1..Len(s) : Append(s, x)[i] = s[i]
      /\ Append(s, x)[Len(s) + 1] = x
  OBVIOUS
<1>2. \A y \in Elements(Append(s, x)) : y \in Elements(s) \cup {x}
  BY <1>1 DEF Elements
<1>3. \A y \in Elements(s) \cup {x} : y \in Elements(Append(s, x))
  <2>1. x \in Elements(Append(s, x))
    BY <1>1 DEF Elements
  <2>2. \A y \in Elements(s) : y \in Elements(Append(s, x))
    BY <1>1 DEF Elements
  <2> QED BY <2>1, <2>2
<1> QED BY <1>2, <1>3

\* The state the dispatcher is constructed in.
LEMMA DispatcherInitInv == DispatcherInit => DispatcherInv
<1> SUFFICES ASSUME DispatcherInit PROVE DispatcherInv
    OBVIOUS
<1> USE DEF DispatcherInit, QueueInit
<1>1. DispatcherTypeOK
  <2>1. /\ dispatched \in Seq(Alerts) /\ queue_ \in Seq(Nat)
        /\ suppressed \in Seq(Nat) /\ completed \in Seq(Nat)
    OBVIOUS
  <2>2. /\ alerts_sent_total \in [Names -> Nat] /\ alerts_send_failures_total \in [Names -> Nat]
    OBVIOUS
  <2> QED BY <2>1, <2>2 DEF DispatcherTypeOK
<1>2. QueueInv
  BY DispatcherAssumption DEF QueueInv
<1>3. AccountInv
  BY DEF AccountInv, Finished, Taken, Elements
<1>4. LifeInv
  BY DEF LifeInv
<1>5. CountersAddUp
  BY DispatcherAssumption DEF CountersAddUp, Names
<1> QED BY <1>1, <1>2, <1>3, <1>4, <1>5 DEF DispatcherInv

\* A send() counts for its channel, once, and for no other.
LEMMA SendCounts ==
  ASSUME DispatcherInv, Send
  PROVE  /\ nextChannel \in DOMAIN channels_ /\ nextChannel' = nextChannel + 1
         /\ alerts_sent_total' \in [Names -> Nat]
         /\ alerts_send_failures_total' \in [Names -> Nat]
         /\ \A i \in DOMAIN channels_ :
              LET c == channels_[i]
              IN  alerts_sent_total'[c] + alerts_send_failures_total'[c]
                    = alerts_sent_total[c] + alerts_send_failures_total[c]
                        + (IF i = nextChannel THEN 1 ELSE 0)
<1>1. nextChannel \in DOMAIN channels_
  BY DEF Send, SendThen
<1> DEFINE ch == channels_[nextChannel]
<1>2. PICK threw : Count(threw, ch) /\ nextChannel' = nextChannel + 1
  BY DEF Send, SendThen
<1>3. /\ \A i \in DOMAIN channels_ : channels_[i] \in Names /\ (channels_[i] = ch => i = nextChannel)
      /\ alerts_sent_total \in [Names -> Nat] /\ alerts_send_failures_total \in [Names -> Nat]
  BY <1>1, DispatcherAssumption DEF Names, DispatcherInv, DispatcherTypeOK
<1>4. CASE threw
  BY <1>1, <1>2, <1>3, <1>4 DEF Count
<1>5. CASE ~threw
  BY <1>1, <1>2, <1>3, <1>5 DEF Count
<1> QED BY <1>1, <1>2, <1>4, <1>5

\* Every step keeps the invariant.
LEMMA DispatcherStepInv ==
  ASSUME DispatcherInv, [DispatcherNext]_dispatcherVars
  PROVE  DispatcherInv'
<1> USE DEF DispatcherInv
<1>0. Len(channels_) \in Nat /\ DOMAIN channels_ = 1..Len(channels_)
  BY DispatcherAssumption
<1>1. ASSUME NEW a \in Alerts, Dispatch(a) PROVE DispatcherInv'
  <2>1. /\ queue_' = Append(queue_, Len(dispatched) + 1)
        /\ dispatched' = Append(dispatched, a)
        /\ ~stopCalled
        /\ UNCHANGED <<dispatcherRunning, dpc, stopCalled, current, nextChannel, suppressed,
                       completed, alerts_sent_total, alerts_send_failures_total,
                       alerts_deduplicated_total>>
    BY <1>1 DEF Dispatch, dispatch, sendVars, counters
  <2>2. DispatcherTypeOK'
    BY <2>1 DEF DispatcherTypeOK
  <2>3. /\ Len(queue_') = Len(queue_) + 1 /\ Len(dispatched') = Len(dispatched) + 1
        /\ Taken' = Taken /\ Finished' = Finished /\ Taken \in Int
    BY <2>1 DEF DispatcherTypeOK, Taken, Finished
  <2>4. QueueInv'
    <3>1. \A i \in DOMAIN queue_' : queue_'[i] = Taken + i
      BY <2>1 DEF DispatcherTypeOK, QueueInv, Taken
    <3> QED BY <2>1, <2>3, <3>1 DEF DispatcherTypeOK, QueueInv
  <2>5. AccountInv'
    BY <2>1, <2>3 DEF AccountInv, Elements
  <2>6. LifeInv' /\ CountersAddUp'
    BY <2>1 DEF LifeInv, CountersAddUp
  <2> QED BY <2>2, <2>4, <2>5, <2>6
<1>2. CASE StopDispatcher
  <2>1. /\ stopCalled' = TRUE /\ dispatcherRunning' = FALSE
        /\ UNCHANGED <<queue_, dispatched, dpc, current, nextChannel, suppressed,
                       completed, alerts_sent_total, alerts_send_failures_total,
                       alerts_deduplicated_total>>
    BY <1>2 DEF StopDispatcher, DispatcherStop, sendVars, counters
  <2>2. DispatcherTypeOK'
    BY <2>1 DEF DispatcherTypeOK
  <2>3. QueueInv' /\ LifeInv'
    BY <2>1 DEF QueueInv, LifeInv, Taken
  <2>4. AccountInv'
    <3>1. Taken' = Taken
      BY <2>1 DEF Taken
    <3>2. Finished' = Finished
      BY <2>1, <3>1 DEF Finished
    <3> QED BY <2>1, <3>2 DEF AccountInv, Elements
  <2>5. CountersAddUp'
    BY <2>1 DEF CountersAddUp
  <2> QED BY <2>2, <2>3, <2>4, <2>5
<1>3. CASE Clock \/ UNCHANGED dispatcherVars
  <2>1. UNCHANGED <<queueVars, dispatched, stopCalled, sendVars>>
    BY <1>3 DEF Clock, dispatcherVars
  <2> USE DEF queueVars, sendVars, counters
  <2>2. DispatcherTypeOK'
    BY <2>1 DEF DispatcherTypeOK
  <2>3. QueueInv' /\ LifeInv'
    BY <2>1 DEF QueueInv, LifeInv, Taken
  <2>4. AccountInv'
    <3>1. Taken' = Taken
      BY <2>1 DEF Taken
    <3>2. Finished' = Finished
      BY <2>1, <3>1 DEF Finished
    <3> QED BY <2>1, <3>2 DEF AccountInv, Elements
  <2>5. CountersAddUp'
    BY <2>1 DEF CountersAddUp
  <2> QED BY <2>2, <2>3, <2>4, <2>5
<1>4. CASE Enter \/ Leave
  <2>1. /\ dpc # "handle" /\ dpc' \in {"loop", "done"}
        /\ dpc' = "loop" => dispatcherRunning' = TRUE
        /\ dpc' = "done" => queue_ = << >> /\ ~dispatcherRunning /\ dpc = "loop"
        /\ dispatcherRunning' \in BOOLEAN
        /\ UNCHANGED <<queue_, dispatched, stopCalled, sendVars>>
    BY <1>4 DEF Enter, Leave, DispatcherStart, DispatcherExit, DispatcherTypeOK
  <2> USE DEF sendVars, counters
  <2>2. DispatcherTypeOK'
    BY <2>1 DEF DispatcherTypeOK
  <2>3. QueueInv' /\ LifeInv'
    BY <2>1 DEF QueueInv, LifeInv, Taken
  <2>4. AccountInv'
    <3>1. Taken' = Taken
      BY <2>1 DEF Taken
    <3>2. Finished' = Finished
      BY <2>1, <3>1 DEF Finished
    <3> QED BY <2>1, <3>2 DEF AccountInv, Elements
  <2>5. CountersAddUp'
    BY <2>1 DEF CountersAddUp
  <2> QED BY <2>2, <2>3, <2>4, <2>5
<1>5. CASE Take
  <2>1. /\ dpc = "loop" /\ dpc' = "handle" /\ queue_ # << >>
        /\ queue_' = Tail(queue_) /\ current' = Head(queue_)
        /\ UNCHANGED <<dispatcherRunning, dispatched, stopCalled, nextChannel, suppressed,
                       completed, alerts_sent_total, alerts_send_failures_total,
                       alerts_deduplicated_total>>
    BY <1>5 DEF Take, TakeInto, TakeAlert, counters
  <2>2. /\ Len(queue_) \in Nat \ {0} /\ Len(queue_') = Len(queue_) - 1
        /\ \A i \in DOMAIN queue_' : i + 1 \in DOMAIN queue_ /\ queue_'[i] = queue_[i + 1]
        /\ queue_' \in Seq(Nat) /\ current' = queue_[1] /\ 1 \in DOMAIN queue_
        /\ Len(dispatched) \in Nat
    BY <2>1 DEF DispatcherTypeOK
  <2>3. Taken \in Nat /\ Taken' = Taken + 1 /\ current = 0 /\ current' = Taken + 1
    <3>1. Taken \in Nat /\ current = 0
      BY <2>1, <2>2 DEF QueueInv, Taken
    <3>2. Taken' = Taken + 1
      BY <2>1, <2>2 DEF Taken
    <3>3. current' = Taken + 1
      <4> HIDE DEF Taken
      <4> QED BY <2>2, <3>1 DEF QueueInv
    <3> QED BY <3>1, <3>2, <3>3
  <2>4. Finished' = Finished
    BY <2>3 DEF Finished
  <2>5. DispatcherTypeOK'
    BY <2>1, <2>2, <2>3 DEF DispatcherTypeOK
  <2>6. QueueInv'
    <3>1. \A i \in DOMAIN queue_' : queue_'[i] = Taken' + i
      <4> SUFFICES ASSUME NEW i \in DOMAIN queue_' PROVE queue_'[i] = Taken' + i
        OBVIOUS
      <4>1. i \in Nat /\ queue_'[i] = Taken + (i + 1)
        BY <2>2 DEF QueueInv
      <4> QED BY <2>3, <4>1
    <3> QED BY <2>1, <2>2, <2>3, <3>1 DEF QueueInv
  <2>7. AccountInv'
    BY <2>1, <2>4 DEF AccountInv, Elements
  <2>8. LifeInv' /\ CountersAddUp'
    BY <2>1 DEF LifeInv, CountersAddUp
  <2> QED BY <2>5, <2>6, <2>7, <2>8

\* Being done with the item in hand adds it to one of the histories.
<1>6. ASSUME dpc = "handle", current # 0, current' = 0, UNCHANGED <<queue_, dispatched>>,
             \/ suppressed' = Append(suppressed, current) /\ completed' = completed
             \/ completed' = Append(completed, current) /\ suppressed' = suppressed
      PROVE  AccountInv'
  <2>1. /\ Taken' = Taken /\ Finished' = Taken /\ Finished = Taken - 1 /\ current = Taken
        /\ current \in Nat /\ current # 0
    BY <1>6 DEF Taken, Finished, QueueInv, DispatcherTypeOK
  <2>2. 1..Taken = 1..(Taken - 1) \cup {current} /\ current \notin 1..(Taken - 1)
    BY <2>1
  <2>3. CASE suppressed' = Append(suppressed, current) /\ completed' = completed
    <3>1. /\ Elements(suppressed)' = Elements(suppressed) \cup {current}
          /\ Elements(completed)' = Elements(completed)
      <4>1. /\ Elements(suppressed)' = Elements(Append(suppressed, current))
            /\ Elements(completed)' = Elements(completed)
        BY <2>3 DEF Elements
      <4>2. suppressed \in Seq(Nat) /\ current \in Nat
        BY <2>1 DEF DispatcherTypeOK
      <4>3. Elements(Append(suppressed, current)) = Elements(suppressed) \cup {current}
        BY <4>2, ElementsOfAppend
      <4> QED BY <4>1, <4>3
    <3>2. Len(suppressed') = Len(suppressed) + 1 /\ Len(completed') = Len(completed)
      BY <2>1, <2>3 DEF DispatcherTypeOK
    <3> QED BY <2>1, <2>2, <3>1, <3>2 DEF AccountInv, DispatcherTypeOK
  <2>4. CASE completed' = Append(completed, current) /\ suppressed' = suppressed
    <3>1. /\ Elements(completed)' = Elements(completed) \cup {current}
          /\ Elements(suppressed)' = Elements(suppressed)
      <4>1. /\ Elements(completed)' = Elements(Append(completed, current))
            /\ Elements(suppressed)' = Elements(suppressed)
        BY <2>4 DEF Elements
      <4>2. completed \in Seq(Nat) /\ current \in Nat
        BY <2>1 DEF DispatcherTypeOK
      <4>3. Elements(Append(completed, current)) = Elements(completed) \cup {current}
        BY <4>2, ElementsOfAppend
      <4> QED BY <4>1, <4>3
    <3>2. Len(completed') = Len(completed) + 1 /\ Len(suppressed') = Len(suppressed)
      BY <2>1, <2>4 DEF DispatcherTypeOK
    <3> QED BY <2>1, <2>2, <3>1, <3>2 DEF AccountInv, DispatcherTypeOK
  <2> QED BY <1>6, <2>3, <2>4
<1>7. CASE Deduplicate
  <2>1. /\ dpc = "handle" /\ current # 0 /\ nextChannel = 0
        /\ UNCHANGED <<dispatched, stopCalled, alerts_sent_total,
                       alerts_send_failures_total, completed, queue_, dispatcherRunning>>
    BY <1>7 DEF Deduplicate, BackToWait, queueVars
  <2>2. CASE Recent(build_key(dispatched[current]))
    <3>1. /\ alerts_deduplicated_total' = alerts_deduplicated_total + 1
          /\ suppressed' = Append(suppressed, current)
          /\ current' = 0 /\ dpc' = "loop" /\ nextChannel' = nextChannel
      BY <1>7, <2>2 DEF Deduplicate, BackToWait
    <3>2. AccountInv'
      BY <1>6, <2>1, <3>1
    <3>3. DispatcherTypeOK'
      BY <2>1, <3>1 DEF DispatcherTypeOK
    <3>4. QueueInv' /\ LifeInv' /\ CountersAddUp'
      BY <1>0, <2>1, <3>1 DEF QueueInv, LifeInv, CountersAddUp, Taken, DispatcherTypeOK
    <3> QED BY <3>2, <3>3, <3>4
  <2>3. CASE ~Recent(build_key(dispatched[current]))
    <3>1. /\ nextChannel' = 1
          /\ UNCHANGED <<alerts_deduplicated_total, suppressed, current, dpc>>
      BY <1>7, <2>3 DEF Deduplicate, queueVars
    <3>2. DispatcherTypeOK'
      BY <2>1, <3>1 DEF DispatcherTypeOK
    <3>3. QueueInv' /\ LifeInv'
      BY <1>0, <2>1, <3>1 DEF QueueInv, LifeInv, Taken
    <3>4. AccountInv'
      BY <2>1, <3>1 DEF AccountInv, Taken, Finished, Elements
    <3>5. CountersAddUp'
      BY <1>0, <2>1, <3>1 DEF CountersAddUp
    <3> QED BY <3>2, <3>3, <3>4, <3>5
  <2> QED BY <2>2, <2>3
<1>8. CASE Send
  <2>1. /\ dpc = "handle" /\ nextChannel \in DOMAIN channels_
        /\ UNCHANGED <<queue_, dispatcherRunning, dpc, dispatched, stopCalled, current,
                       alerts_deduplicated_total, suppressed, completed>>
    BY <1>8 DEF Send, SendThen, queueVars
  <2>2. /\ nextChannel' = nextChannel + 1
        /\ alerts_sent_total' \in [Names -> Nat]
        /\ alerts_send_failures_total' \in [Names -> Nat]
    BY <1>8, SendCounts
  <2>3. DispatcherTypeOK' /\ QueueInv' /\ LifeInv' /\ AccountInv'
    <3>1. DispatcherTypeOK'
      BY <2>1, <2>2 DEF DispatcherTypeOK
    <3>2. QueueInv' /\ LifeInv'
      BY <1>0, <2>1, <2>2 DEF QueueInv, LifeInv, Taken, DispatcherTypeOK
    <3>3. AccountInv'
      BY <2>1 DEF AccountInv, Taken, Finished, Elements
    <3> QED BY <3>1, <3>2, <3>3
  <2>4. CountersAddUp'
    <3> SUFFICES ASSUME NEW i \in DOMAIN channels_
                 PROVE  alerts_sent_total'[channels_[i]] + alerts_send_failures_total'[channels_[i]]
                          = Len(completed) + (IF nextChannel + 1 > i THEN 1 ELSE 0)
      BY <2>1, <2>2 DEF CountersAddUp
    <3>1. alerts_sent_total'[channels_[i]] + alerts_send_failures_total'[channels_[i]]
            = Len(completed) + (IF nextChannel > i THEN 1 ELSE 0)
                + (IF i = nextChannel THEN 1 ELSE 0)
      BY <1>8, SendCounts DEF CountersAddUp
    <3>2. nextChannel \in Nat /\ i \in Nat /\ Len(completed) \in Nat
      BY <1>0, <2>1 DEF DispatcherTypeOK
    <3>3. CASE i = nextChannel
      BY <3>1, <3>2, <3>3
    <3>4. CASE i < nextChannel
      BY <3>1, <3>2, <3>4
    <3>5. CASE i > nextChannel
      <4>1. ~(nextChannel > i) /\ ~(nextChannel + 1 > i) /\ i # nextChannel
        BY <3>2, <3>5
      <4> QED BY <3>1, <3>2, <4>1
    <3> QED BY <3>2, <3>3, <3>4, <3>5
  <2> QED BY <2>3, <2>4
<1>9. CASE Finish
  <2>1. /\ nextChannel > Len(channels_) /\ dpc = "handle" /\ dpc' = "loop"
        /\ completed' = Append(completed, current) /\ current' = 0 /\ nextChannel' = 0
        /\ UNCHANGED <<queue_, dispatcherRunning, dispatched, stopCalled, suppressed,
                       alerts_sent_total, alerts_send_failures_total,
                       alerts_deduplicated_total>>
    BY <1>9 DEF Finish, BackToWait, counters
  <2>2. AccountInv'
    BY <1>6, <2>1 DEF QueueInv
  <2>3. DispatcherTypeOK' /\ QueueInv' /\ LifeInv'
    BY <1>0, <2>1 DEF DispatcherTypeOK, QueueInv, LifeInv, Taken
  <2>4. CountersAddUp'
    <3>1. Len(completed') = Len(completed) + 1 /\ Len(completed) \in Nat
      BY <2>1 DEF DispatcherTypeOK
    <3> QED BY <1>0, <2>1, <3>1 DEF CountersAddUp, DispatcherTypeOK
  <2> QED BY <2>2, <2>3, <2>4
<1> QED BY <1>1, <1>2, <1>3, <1>4, <1>5, <1>7, <1>8, <1>9 DEF DispatcherNext, Run

\* The inductive invariant holds in every reachable state.
THEOREM DispatcherInvariant == DispatcherSpec => []DispatcherInv
<1>1. DispatcherInv /\ [DispatcherNext]_dispatcherVars => DispatcherInv'
  BY DispatcherStepInv
<1> QED BY <1>1, DispatcherInitInv, PTL DEF DispatcherSpec

\* Between dispatch() and the channels no alert is lost, handled twice or
\* overtaken, whatever the channels throw.
THEOREM NoAlertLost == DispatcherSpec => []EveryAlertAccounted
<1>1. DispatcherInv => EveryAlertAccounted
  <2> SUFFICES ASSUME DispatcherInv PROVE EveryAlertAccounted
    OBVIOUS
  <2>1. CASE current = 0
    <3>1. Cardinality(InHand) = 0 /\ InHand = {}
      BY <2>1, FS_EmptySet DEF InHand
    <3> QED BY <2>1, <3>1 DEF EveryAlertAccounted, DispatcherInv, DispatcherTypeOK,
                              AccountInv, Finished, Taken
  <2>2. CASE current # 0
    <3>1. Cardinality(InHand) = 1 /\ InHand = {Taken}
      BY <2>2, FS_Singleton DEF InHand, DispatcherInv, QueueInv
    <3>2. Taken \in Nat \ {0} /\ Finished = Taken - 1
      BY <2>2 DEF DispatcherInv, DispatcherTypeOK, QueueInv, Finished
    <3>3. 1..Taken = 1..(Taken - 1) \cup {Taken}
      BY <3>2
    <3>4. /\ Elements(suppressed) \cup Elements(completed) = 1..(Taken - 1)
          /\ Elements(suppressed) \cap Elements(completed) = {}
          /\ Len(suppressed) + Len(completed) = Taken - 1
      BY <3>2 DEF DispatcherInv, AccountInv
    <3>5. Elements(suppressed) \cup Elements(completed) \cup InHand = 1..Taken
      BY <3>1, <3>3, <3>4
    <3>6. Len(suppressed) + Len(completed) + Cardinality(InHand) = Taken
      BY <3>1, <3>2, <3>4 DEF DispatcherInv, DispatcherTypeOK
    <3> QED BY <3>4, <3>5, <3>6 DEF EveryAlertAccounted, Taken
  <2> QED BY <2>1, <2>2
<1> QED BY <1>1, DispatcherInvariant, PTL

\* Every channel counts every alert it was given exactly once, as sent or as
\* failed, and the suppressed ones are counted apart.
THEOREM CountersAreExact == DispatcherSpec => []CountersAddUp
<1>1. DispatcherInv => CountersAddUp
  BY DEF DispatcherInv
<1> QED BY <1>1, DispatcherInvariant, PTL

\* run() returns only when every alert has been done with.
THEOREM StopLeavesNothing == DispatcherSpec => []StopDrainsQueue
<1>1. DispatcherInv => StopDrainsQueue
  <2> SUFFICES ASSUME DispatcherInv, dpc = "done"
               PROVE  Len(suppressed) + Len(completed) = Len(dispatched)
    BY DEF StopDrainsQueue
  <2>1. current = 0 /\ Len(queue_) = 0 /\ Len(dispatched) \in Nat
    BY DEF DispatcherInv, DispatcherTypeOK, QueueInv, LifeInv
  <2> QED BY <2>1 DEF DispatcherInv, AccountInv, Finished, Taken
<1> QED BY <1>1, DispatcherInvariant, PTL
----------------------------------------------------------------------------
\* What the dispatcher does to the deduplicator is what AlertDeduplicator
\* says: run() asks it about alerts that were dispatched, one at a time, and
\* nothing else touches its table.
THEOREM UsesDeduplicator == DispatcherSpec => Spec
<1>1. DispatcherInit => Init
  BY DEF DispatcherInit
<1>2. DispatcherInv /\ [DispatcherNext]_dispatcherVars => [Next]_vars
  <2> SUFFICES ASSUME DispatcherInv, [DispatcherNext]_dispatcherVars PROVE [Next]_vars
    OBVIOUS
  <2>1. CASE Deduplicate
    <3>1. /\ should_suppress(build_key(dispatched[current]))
          /\ dpc = "handle" /\ current # 0
      BY <2>1 DEF Deduplicate
    <3>2. current \in 1..Len(dispatched)
      BY <3>1 DEF DispatcherInv, DispatcherTypeOK, QueueInv, Taken
    <3>3. dispatched[current] \in Alerts
      BY <3>2 DEF DispatcherInv, DispatcherTypeOK
    <3> QED BY <3>1, <3>3 DEF Next
  <2>2. CASE Clock
    BY <2>2 DEF Clock, Next
  <2>3. ASSUME ~Deduplicate, ~Clock PROVE UNCHANGED vars
    BY <2>3 DEF DispatcherNext, Run, Enter, Take, TakeInto, Send, SendThen, Finish, Leave,
                StopDispatcher, Dispatch, dispatcherVars
  <2> QED BY <2>1, <2>2, <2>3
<1> QED BY <1>1, <1>2, DispatcherInvariant, PTL DEF DispatcherSpec, Spec

\* Hence duplicates are spaced by their window as the dispatcher runs.
THEOREM DispatcherSpacesDuplicates == DispatcherSpec => SendsAreSpaced
BY UsesDeduplicator, DuplicatesAreSpaced, PTL

\* And the dispatcher suppresses as AlertWindow promises.
THEOREM DispatcherKeepsPromise == DispatcherSpec => ImplementsWindow
BY UsesDeduplicator, PruningIsInvisible, PTL

----------------------------------------------------------------------------
(* What a suppressed alert is a duplicate of *)

\* The items should_suppress let through: those offered to every channel and
\* the one being offered.
LetThrough == Elements(completed) \cup (IF nextChannel = 0 THEN {} ELSE {current})

\* A key the deduplicator has let through is the key of such an item.
Traced == \A k \in Keys : lastSent[k] # Never =>
            \E m \in LetThrough : build_key(dispatched[m]) = k

SentInv == Traced /\ SuppressedWasSent

\* One key, one subject.
LEMMA KeyIsSubject ==
  ASSUME NEW a \in Alerts, NEW b \in Alerts, build_key(a) = build_key(b)
  PROVE  SameSubject(a, b)
<1>1. /\ a.customer_id = b.customer_id /\ a.rule_type = b.rule_type
      /\ (IF a.chain_id = NoValue THEN "-" ELSE a.chain_id)
           = (IF b.chain_id = NoValue THEN "-" ELSE b.chain_id)
      /\ (IF a.token_address = NoValue THEN "" ELSE a.token_address)
           = (IF b.token_address = NoValue THEN "" ELSE b.token_address)
  BY DEF build_key
<1>2. /\ a.chain_id # "-" /\ a.token_address # "" /\ b.chain_id # "-" /\ b.token_address # ""
  BY AlertsAssumption
<1>3. a.chain_id = b.chain_id /\ a.token_address = b.token_address
  BY <1>1, <1>2
<1> QED BY <1>1, <1>3 DEF SameSubject

\* The items let through have been dispatched.
LEMMA LetThroughDispatched ==
  ASSUME DispatcherInv
  PROVE  /\ LetThrough \subseteq 1..Len(dispatched)
         /\ Elements(suppressed) \subseteq 1..Len(dispatched)
         /\ Elements(completed) \subseteq 1..Len(dispatched)
         /\ \A m \in 1..Len(dispatched) : dispatched[m] \in Alerts
<1>1. /\ Len(dispatched) \in Nat /\ Len(queue_) \in Nat /\ Len(queue_) <= Len(dispatched)
      /\ Taken \in 0..Len(dispatched) /\ current \in Nat
  BY DEF DispatcherInv, DispatcherTypeOK, QueueInv, Taken
<1>2. Finished \in Int /\ Finished <= Len(dispatched)
  BY <1>1 DEF Finished
<1>3. /\ Elements(suppressed) \subseteq 1..Len(dispatched)
      /\ Elements(completed) \subseteq 1..Len(dispatched)
  <2>1. Elements(suppressed) \cup Elements(completed) = 1..Finished
    BY DEF DispatcherInv, AccountInv
  <2>2. 1..Finished \subseteq 1..Len(dispatched)
    BY <1>1, <1>2
  <2> QED BY <2>1, <2>2
<1>4. nextChannel # 0 => current \in 1..Len(dispatched)
  BY <1>1 DEF DispatcherInv, QueueInv
<1>5. \A m \in 1..Len(dispatched) : dispatched[m] \in Alerts
  BY DEF DispatcherInv, DispatcherTypeOK
<1> QED BY <1>3, <1>4, <1>5 DEF LetThrough

\* What is let through stays so, and so does what was dispatched.
LEMMA SentKept ==
  ASSUME DispatcherInv, SentInv, UNCHANGED <<lastSent, suppressed>>,
         Elements(completed) \subseteq Elements(completed)',
         LetThrough \subseteq LetThrough',
         \A m \in 1..Len(dispatched) : dispatched'[m] = dispatched[m]
  PROVE  SentInv'
<1>1. Traced'
  <2> SUFFICES ASSUME NEW k \in Keys, lastSent[k] # Never
               PROVE  \E m \in LetThrough' : build_key(dispatched'[m]) = k
    BY DEF Traced, Keys, build_key
  <2>1. PICK m \in LetThrough : build_key(dispatched[m]) = k
    BY DEF SentInv, Traced
  <2>2. m \in 1..Len(dispatched)
    BY LetThroughDispatched
  <2> QED BY <2>1, <2>2
<1>2. SuppressedWasSent'
  <2> SUFFICES ASSUME NEW n \in Elements(suppressed)
               PROVE  \E m \in Elements(completed)' :
                        m < n /\ SameSubject(dispatched'[m], dispatched'[n])
    BY DEF SuppressedWasSent, Elements, SameSubject
  <2>1. PICK m \in Elements(completed) : m < n /\ SameSubject(dispatched[m], dispatched[n])
    BY DEF SentInv, SuppressedWasSent
  <2>2. m \in 1..Len(dispatched) /\ n \in 1..Len(dispatched)
    BY LetThroughDispatched
  <2> QED BY <2>1, <2>2
<1> QED BY <1>1, <1>2 DEF SentInv

\* Every step keeps it: a key is recorded for the item in hand, which is then
\* offered to every channel before the next one is taken.
LEMMA SentStep ==
  ASSUME DispatcherInv, DispatcherInv', IInv, SentInv, [DispatcherNext]_dispatcherVars
  PROVE  SentInv'
<1>1. CASE Deduplicate
  <2> DEFINE key == build_key(dispatched[current])
  <2>1. /\ dpc = "handle" /\ current # 0 /\ nextChannel = 0 /\ should_suppress(key)
        /\ UNCHANGED <<dispatched, completed>>
    BY <1>1 DEF Deduplicate
  <2>2. current \in 1..Len(dispatched) /\ current = Taken /\ Finished = Taken - 1
    BY <2>1 DEF DispatcherInv, DispatcherTypeOK, QueueInv, Taken, Finished
  <2>3. dispatched[current] \in Alerts /\ key \in Keys
    BY <2>2, LetThroughDispatched DEF Keys
  <2>4. LetThrough = Elements(completed) /\ Elements(completed)' = Elements(completed)
    BY <2>1 DEF LetThrough, Elements
  <2>5. CASE Recent(key)
    <3>1. /\ suppressed' = Append(suppressed, current) /\ nextChannel' = 0
          /\ lastSent' = lastSent
      BY <1>1, <2>1, <2>5 DEF Deduplicate, should_suppress
    <3>2. lastSent[key] # Never
      BY <2>5 DEF Recent, Tracked, IInv, TypeOK, TableInv, Never
    <3>3. PICK m \in Elements(completed) : build_key(dispatched[m]) = key
      BY <2>3, <2>4, <3>2 DEF SentInv, Traced
    <3>4. m < current
      <4>1. m \in 1..Finished
        BY <3>3 DEF DispatcherInv, AccountInv
      <4> QED BY <2>2, <4>1
    <3>5. SameSubject(dispatched[m], dispatched[current])
      BY <2>3, <3>3, KeyIsSubject, LetThroughDispatched
    <3>6. Elements(suppressed)' = Elements(suppressed) \cup {current}
      <4>1. suppressed \in Seq(Nat) /\ current \in Nat
        BY DEF DispatcherInv, DispatcherTypeOK
      <4>2. Elements(suppressed)' = Elements(Append(suppressed, current))
        BY <3>1 DEF Elements
      <4> QED BY <4>1, <4>2, ElementsOfAppend
    <3>7. SuppressedWasSent'
      <4> SUFFICES ASSUME NEW n \in Elements(suppressed) \cup {current}
                   PROVE  \E l \in Elements(completed) :
                            l < n /\ SameSubject(dispatched[l], dispatched[n])
        BY <2>1, <2>4, <3>6 DEF SuppressedWasSent, SameSubject
      <4>1. CASE n = current
        BY <3>3, <3>4, <3>5, <4>1
      <4>2. CASE n # current
        BY <4>2 DEF SentInv, SuppressedWasSent
      <4> QED BY <4>1, <4>2
    <3>8. LetThrough' = LetThrough
      BY <2>4, <3>1 DEF LetThrough
    <3>9. Traced'
      BY <2>1, <3>1, <3>8 DEF SentInv, Traced
    <3> QED BY <3>7, <3>9 DEF SentInv
  <2>6. CASE ~Recent(key)
    <3>1. /\ nextChannel' = 1 /\ UNCHANGED <<suppressed, current>>
          /\ lastSent' = [lastSent EXCEPT ![key] = now]
      BY <1>1, <2>1, <2>6 DEF Deduplicate, should_suppress
    <3>2. LetThrough' = Elements(completed) \cup {current}
      BY <2>4, <3>1 DEF LetThrough
    <3>3. Traced'
      <4> SUFFICES ASSUME NEW k \in Keys, lastSent'[k] # Never
                   PROVE  \E m \in Elements(completed) \cup {current} :
                            build_key(dispatched[m]) = k
        BY <2>1, <3>2 DEF Traced
      <4>1. CASE k = key
        BY <4>1
      <4>2. CASE k # key
        <5>1. lastSent[k] # Never
          BY <3>1, <4>2 DEF IInv, TypeOK
        <5> QED BY <2>4, <5>1 DEF SentInv, Traced
      <4> QED BY <4>1, <4>2
    <3>4. SuppressedWasSent'
      BY <2>1, <2>4, <3>1 DEF SentInv, SuppressedWasSent, Elements, SameSubject
    <3> QED BY <3>3, <3>4 DEF SentInv
  <2> HIDE DEF key
  <2> QED BY <2>5, <2>6
<1>2. CASE Finish
  <2>1. /\ completed' = Append(completed, current) /\ nextChannel' = 0 /\ nextChannel # 0
        /\ UNCHANGED <<dispatched, suppressed, lastSent>>
    BY <1>2, DispatcherAssumption DEF Finish, vars
  <2>2. Elements(completed)' = Elements(completed) \cup {current}
    <3>1. completed \in Seq(Nat) /\ current \in Nat
      BY DEF DispatcherInv, DispatcherTypeOK
    <3>2. Elements(completed)' = Elements(Append(completed, current))
      BY <2>1 DEF Elements
    <3> QED BY <3>1, <3>2, ElementsOfAppend
  <2>3. LetThrough' = LetThrough
    BY <2>1, <2>2 DEF LetThrough
  <2> QED BY <2>1, <2>2, <2>3, SentKept
<1>3. CASE Send
  <2>1. /\ UNCHANGED <<completed, suppressed, dispatched, current, lastSent>>
        /\ nextChannel \in DOMAIN channels_ /\ nextChannel' = nextChannel + 1
    BY <1>3, SendCounts DEF Send, SendThen, vars
  <2>2. nextChannel # 0 /\ nextChannel' # 0
    BY <2>1, DispatcherAssumption
  <2>3. LetThrough' = LetThrough /\ Elements(completed)' = Elements(completed)
    BY <2>1, <2>2 DEF LetThrough, Elements
  <2> QED BY <2>1, <2>3, SentKept
<1>4. CASE Take
  <2>1. /\ UNCHANGED <<completed, suppressed, dispatched, nextChannel, lastSent>> /\ dpc = "loop"
    BY <1>4 DEF Take, TakeInto, TakeAlert, vars
  <2>2. nextChannel = 0
    BY <2>1 DEF DispatcherInv, QueueInv
  <2>3. LetThrough' = LetThrough /\ Elements(completed)' = Elements(completed)
    BY <2>1, <2>2 DEF LetThrough, Elements
  <2> QED BY <2>1, <2>3, SentKept
<1>5. ASSUME NEW a \in Alerts, Dispatch(a) PROVE SentInv'
  <2>1. /\ UNCHANGED <<completed, suppressed, current, nextChannel, lastSent>>
        /\ dispatched' = Append(dispatched, a)
    BY <1>5 DEF Dispatch, sendVars, vars
  <2>2. \A m \in 1..Len(dispatched) : dispatched'[m] = dispatched[m]
    BY <2>1 DEF DispatcherInv, DispatcherTypeOK
  <2>3. LetThrough' = LetThrough /\ Elements(completed)' = Elements(completed)
    BY <2>1 DEF LetThrough, Elements
  <2> QED BY <2>1, <2>2, <2>3, SentKept
<1>6. CASE StopDispatcher \/ Clock \/ Enter \/ Leave \/ UNCHANGED dispatcherVars
  <2>1. UNCHANGED <<completed, suppressed, dispatched, current, nextChannel, lastSent>>
    BY <1>6 DEF StopDispatcher, Clock, Tick, StepBack, Enter, Leave, dispatcherVars, sendVars, vars
  <2>2. LetThrough' = LetThrough /\ Elements(completed)' = Elements(completed)
    BY <2>1 DEF LetThrough, Elements
  <2> QED BY <2>1, <2>2, SentKept
<1> QED BY <1>1, <1>2, <1>3, <1>4, <1>5, <1>6 DEF DispatcherNext, Run

\* By the time an alert is dropped as a duplicate, an earlier one about the same
\* customer, rule, chain and token has been offered to every channel.
THEOREM DuplicatesWereSent == DispatcherSpec => []SuppressedWasSent
<1>1. DispatcherInit => SentInv
  BY DEF DispatcherInit, Init, SentInv, Traced, SuppressedWasSent, Elements
<1>2. DispatcherInv /\ DispatcherInv' /\ IInv /\ SentInv /\ [DispatcherNext]_dispatcherVars
        => SentInv'
  BY SentStep
<1>3. SentInv => SuppressedWasSent
  BY DEF SentInv
<1> QED BY <1>1, <1>2, <1>3, DispatcherInvariant, UsesDeduplicator, InvariantHolds, PTL
        DEF DispatcherSpec
=============================================================================
