--------------------------- MODULE PipelineProofs ---------------------------
(***************************************************************************)
(* What Pipeline's parts do, for every ring size and every set of signals: *)
(* the alerts of a sequence, by induction over its length, and the steps   *)
(* of a ring whose producers do not collide.  LiveAppProofs and            *)
(* BacktestRunProofs rest on these lemmas.                                 *)
(***************************************************************************)
EXTENDS Pipeline, SequenceTheorems, WellFoundedInduction, TLAPS

\* Every nonempty set of naturals has a least element: induction, in the form
\* used below (look at the least counterexample).
LEMMA LeastElement ==
  ASSUME NEW S, S \subseteq Nat, S # {}
  PROVE  \E m \in S : \A k \in S : m <= k
<1>1. PICK m \in S : \A k \in S : <<k, m>> \notin OpToRel(<, Nat)
  BY WFMin, NatLessThanWellFounded
<1>2. \A k \in S : ~(k < m)
  BY <1>1 DEF OpToRel
<1> QED BY <1>2

\* AlertsUpTo(s) satisfies its own recursion.
NextAlerts(s, f, n) == IF s[n] \in Firing THEN Append(f[n - 1], s[n]) ELSE f[n - 1]

\* A function with that recursion exists, for any sequence.
LEMMA AlertsUpToExists ==
  ASSUME NEW S, NEW s \in Seq(S)
  PROVE  \E f : f = [n \in 0..Len(s) |-> IF n = 0 THEN << >> ELSE NextAlerts(s, f, n)]
<1> DEFINE Upto(m) == \E f : f = [n \in 0..m |-> IF n = 0 THEN << >> ELSE NextAlerts(s, f, n)]
           Bad == {m \in Nat : ~Upto(m)}
<1> HIDE DEF Upto
<1>1. Bad = {}
  <2> SUFFICES ASSUME Bad # {} PROVE FALSE
    OBVIOUS
  <2>1. PICK m \in Bad : \A k \in Bad : m <= k
    <3>1. Bad \subseteq Nat
      OBVIOUS
    <3> QED BY <3>1, LeastElement
  <2>2. m # 0
    <3>1. [n \in 0..0 |-> << >>]
            = [n \in 0..0 |-> IF n = 0 THEN << >> ELSE NextAlerts(s, [k \in 0..0 |-> << >>], n)]
      BY \A n \in 0..0 : n = 0
    <3>2. Upto(0)
      BY <3>1 DEF Upto
    <3> QED BY <3>2
  <2>3. m \in Nat /\ m - 1 \in Nat /\ Upto(m - 1)
    BY <2>1, <2>2
  <2>4. PICK f : f = [n \in 0..(m - 1) |-> IF n = 0 THEN << >> ELSE NextAlerts(s, f, n)]
    BY <2>3 DEF Upto
  <2> DEFINE g == [n \in 0..m |-> IF n = m THEN NextAlerts(s, f, m) ELSE f[n]]
  <2>5. \A n \in 0..m : g[n] = IF n = 0 THEN << >> ELSE NextAlerts(s, g, n)
    <3> SUFFICES ASSUME NEW n \in 0..m
                 PROVE  g[n] = IF n = 0 THEN << >> ELSE NextAlerts(s, g, n)
      OBVIOUS
    <3>1. CASE n = m
      <4>1. g[n - 1] = f[m - 1]
        BY <2>2, <2>3, <3>1
      <4> QED BY <2>2, <3>1, <4>1 DEF NextAlerts
    <3>2. CASE n # m
      <4>1. n \in 0..(m - 1)
        BY <2>3, <3>2
      <4>2. f[n] = IF n = 0 THEN << >> ELSE NextAlerts(s, f, n)
        BY <2>4, <4>1
      <4>3. n # 0 => g[n - 1] = f[n - 1]
        BY <2>3, <4>1
      <4> QED BY <3>2, <4>1, <4>2, <4>3 DEF NextAlerts
    <3> QED BY <3>1, <3>2
  <2>6. g = [n \in 0..m |-> IF n = 0 THEN << >> ELSE NextAlerts(s, g, n)]
    BY <2>5
  <2>7. Upto(m)
    BY <2>6 DEF Upto
  <2> QED BY <2>1, <2>7
<1>2. Len(s) \in Nat
  OBVIOUS
<1>3. Upto(Len(s))
  BY <1>1, <1>2
<1> QED BY <1>3 DEF Upto

\* So AlertsUpTo is one.
LEMMA AlertsUpToRecursion ==
  ASSUME NEW S, NEW s \in Seq(S)
  PROVE  /\ AlertsUpTo(s)[0] = << >>
         /\ \A n \in 1..Len(s) : AlertsUpTo(s)[n] = NextAlerts(s, AlertsUpTo(s), n)
<1> DEFINE f == AlertsUpTo(s)
<1>1. f = CHOOSE g : g = [n \in 0..Len(s) |-> IF n = 0 THEN << >> ELSE NextAlerts(s, g, n)]
  BY DEF AlertsUpTo, NextAlerts
<1>2. f = [n \in 0..Len(s) |-> IF n = 0 THEN << >> ELSE NextAlerts(s, f, n)]
  <2> HIDE DEF f
  <2> QED BY <1>1, AlertsUpToExists
<1> HIDE DEF f
<1>3. Len(s) \in Nat
  OBVIOUS
<1>4. f[0] = << >>
  BY <1>2, <1>3
<1>5. \A n \in 1..Len(s) : f[n] = NextAlerts(s, f, n)
  BY <1>2, <1>3
<1> QED BY <1>4, <1>5 DEF f

\* What one signal more adds to the alerts.
LEMMA AlertsOfAppend ==
  ASSUME NEW S, NEW s \in Seq(S), NEW x \in S
  PROVE  AlertsOf(Append(s, x)) = IF x \in Firing THEN Append(AlertsOf(s), x) ELSE AlertsOf(s)
<1> DEFINE t == Append(s, x)
           Bad == {n \in 0..Len(s) : AlertsUpTo(t)[n] # AlertsUpTo(s)[n]}
<1>1. /\ t \in Seq(S) /\ Len(t) = Len(s) + 1 /\ Len(s) \in Nat
      /\ \A n \in 1..Len(s) : t[n] = s[n]
      /\ t[Len(s) + 1] = x
  OBVIOUS
<1> HIDE DEF t
<1>2. /\ AlertsUpTo(s)[0] = << >>
      /\ \A n \in 1..Len(s) : AlertsUpTo(s)[n] = NextAlerts(s, AlertsUpTo(s), n)
  BY AlertsUpToRecursion
<1>3. /\ AlertsUpTo(t)[0] = << >>
      /\ \A n \in 1..Len(t) : AlertsUpTo(t)[n] = NextAlerts(t, AlertsUpTo(t), n)
  BY <1>1, AlertsUpToRecursion
<1>4. Bad = {}
  <2> SUFFICES ASSUME Bad # {} PROVE FALSE
    OBVIOUS
  <2>1. PICK n \in Bad : \A k \in Bad : n <= k
    <3>1. Bad \subseteq Nat
      BY <1>1
    <3> QED BY <3>1, LeastElement
  <2>2. n \in 1..Len(s) /\ n - 1 \in 0..Len(s) /\ n - 1 \notin Bad
    BY <1>1, <1>2, <1>3, <2>1
  <2>3. AlertsUpTo(t)[n - 1] = AlertsUpTo(s)[n - 1]
    BY <2>2
  <2>4. AlertsUpTo(t)[n] = AlertsUpTo(s)[n]
    BY <1>1, <1>2, <1>3, <2>2, <2>3 DEF NextAlerts
  <2> QED BY <2>1, <2>4
<1>5. AlertsUpTo(t)[Len(s)] = AlertsUpTo(s)[Len(s)]
  BY <1>1, <1>4
<1>6. AlertsUpTo(t)[Len(s) + 1] = NextAlerts(t, AlertsUpTo(t), Len(s) + 1)
  BY <1>1, <1>3
<1>7. Len(s) + 1 - 1 = Len(s)
  BY <1>1
<1>8. AlertsOf(t) = IF x \in Firing THEN Append(AlertsOf(s), x) ELSE AlertsOf(s)
  BY <1>1, <1>5, <1>6, <1>7 DEF AlertsOf, NextAlerts
<1> QED BY <1>8 DEF t

\* No signal, no alert.
LEMMA AlertsOfEmpty == AlertsOf(<< >>) = << >>
<1>1. << >> \in Seq({}) /\ Len(<< >>) = 0
  OBVIOUS
<1> QED BY <1>1, AlertsUpToRecursion DEF AlertsOf

\* What is queued goes on from what was taken: dispatch() appends to the
\* two together, and taking an alert moves the boundary between them.
LEMMA QueuedBehindTaken ==
  ASSUME NEW S, NEW h \in Seq(S), NEW q \in Seq(S)
  PROVE  /\ h \o q \in Seq(S)
         /\ \A x \in S : h \o Append(q, x) = Append(h \o q, x)
         /\ q # << >> => Append(h, Head(q)) \o Tail(q) = h \o q
<1>1. h \o q \in Seq(S)
  OBVIOUS
<1>2. ASSUME NEW x \in S PROVE h \o Append(q, x) = Append(h \o q, x)
  <2>1. Append(q, x) = q \o <<x>> /\ Append(h \o q, x) = (h \o q) \o <<x>>
    BY <1>1, AppendIsConcat
  <2>2. <<x>> \in Seq(S)
    OBVIOUS
  <2> QED BY <2>1, <2>2, ConcatAssociative
<1>3. ASSUME q # << >> PROVE Append(h, Head(q)) \o Tail(q) = h \o q
  <2>1. Head(q) \in S /\ Tail(q) \in Seq(S) /\ <<Head(q)>> \in Seq(S)
    BY <1>3
  <2>2. Append(h, Head(q)) = h \o <<Head(q)>>
    BY <2>1, AppendIsConcat
  <2>3. <<Head(q)>> \o Tail(q) = q
    BY <1>3
  <2> QED BY <2>1, <2>2, <2>3, ConcatAssociative
<1> QED BY <1>1, <1>2, <1>3
----------------------------------------------------------------------------
(* The ring, while at most one producer is inside try_push *)

Contents == Signals \cup {Pill, NoSignal}

RingTypeOK ==
  /\ slots \in [Slots -> Contents]
  /\ writeIdx_ \in Slots /\ readIdx_ \in Slots
  /\ readIdxCache_ \in Slots /\ writeIdxCache_ \in Slots
  /\ loaded \in [Producers -> Slots]

\* A cached index is one the other side has passed: the producers see no more
\* room than there is, and the consumer no more signals.
CachesBehind ==
  /\ Fill <= Ahead(readIdxCache_, writeIdx_)
  /\ Ahead(readIdx_, writeIdxCache_) <= Fill

RingInv == RingTypeOK /\ CachesBehind

\* The producer's cache leaves room for the slot being written.
Reserved == Ahead(readIdxCache_, writeIdx_) < Capacity

\* A ring holds at most its capacity.
LEMMA FillBounds ==
  ASSUME RingTypeOK PROVE Fill \in 0..Capacity /\ DOMAIN Waiting = 1..Fill
BY RingAssumption DEF RingTypeOK, Fill, Ahead, Slots, Waiting

\* A new ring is empty.
LEMMA RingStart == RingInit => RingInv /\ Fill = 0
BY RingAssumption DEF RingInit, RingInv, RingTypeOK, CachesBehind, Fill, Ahead, Slots, Contents

\* Steps that do not touch the ring.
LEMMA RingAtRest ==
  ASSUME UNCHANGED ringVars
  PROVE  /\ RingTypeOK' = RingTypeOK /\ CachesBehind' = CachesBehind /\ Reserved' = Reserved
         /\ Fill' = Fill /\ Waiting' = Waiting /\ IsEmpty' = IsEmpty /\ HasRoom' = HasRoom
BY DEF ringVars, RingTypeOK, CachesBehind, Reserved, Fill, Waiting, Ahead, IsEmpty, HasRoom,
       FrontCache, RoomCache

\* Types survive every step of every producer, also of producers that collide.
LEMMA RingTypeStep ==
  ASSUME RingTypeOK, NEW p \in Producers, NEW x \in Contents,
         LoadIndex(p) \/ ConstructSlot(p, x) \/ PublishIndex(p) \/ LoadFront \/ Pop
  PROVE  RingTypeOK'
<1>0. \A i \in Slots : Succ(i) \in Slots
  BY RingAssumption DEF Slots, Succ, Wrap
<1>1. CASE LoadIndex(p)
  BY <1>1 DEF LoadIndex, RingTypeOK, RoomCache
<1>2. CASE ConstructSlot(p, x)
  BY <1>2 DEF ConstructSlot, RingTypeOK
<1>3. CASE PublishIndex(p)
  BY <1>0, <1>3 DEF PublishIndex, RingTypeOK
<1>4. CASE LoadFront
  BY <1>4 DEF LoadFront, RingTypeOK, FrontCache
<1>5. CASE Pop
  BY <1>0, <1>5 DEF Pop, RingTypeOK
<1> QED BY <1>1, <1>2, <1>3, <1>4, <1>5

\* The room test never succeeds on a full ring, and fails only on one.
LEMMA RoomIsReal ==
  ASSUME RingInv
  PROVE  /\ HasRoom <=> Fill < Capacity
         /\ HasRoom => Ahead(RoomCache, writeIdx_) < Capacity /\ Fill <= Ahead(RoomCache, writeIdx_)
         /\ IsEmpty <=> Fill = 0
BY RingAssumption DEF RingInv, RingTypeOK, CachesBehind, HasRoom, RoomCache, IsEmpty, FrontCache,
                      Fill, Ahead, Succ, Wrap, Slots

\* The first step of a push, which may refresh the cached read index.
LEMMA RingLoad ==
  ASSUME RingInv, NEW p \in Producers, LoadIndex(p)
  PROVE  /\ RingInv' /\ Reserved' /\ Fill' = Fill /\ Waiting' = Waiting
         /\ loaded' = [loaded EXCEPT ![p] = writeIdx_'] /\ slots' = slots
<1>1. UNCHANGED <<slots, writeIdx_, readIdx_, writeIdxCache_>> /\ readIdxCache_' = RoomCache
      /\ HasRoom /\ loaded' = [loaded EXCEPT ![p] = writeIdx_]
  BY DEF LoadIndex
<1>2. Fill' = Fill /\ Waiting' = Waiting
  BY <1>1 DEF Fill, Waiting, Ahead
<1>3. RingTypeOK'
  BY <1>1 DEF RingInv, RingTypeOK, RoomCache
<1>4. Ahead(readIdxCache_, writeIdx_)' = Ahead(RoomCache, writeIdx_)
  BY <1>1 DEF Ahead
<1>5. CachesBehind' /\ Reserved'
  BY <1>1, <1>2, <1>4, RoomIsReal DEF CachesBehind, Reserved, RingInv, Ahead
<1> QED BY <1>1, <1>2, <1>3, <1>5 DEF RingInv

\* The second step of a push writes a slot that nobody reads.
LEMMA RingConstruct ==
  ASSUME RingInv, NEW p \in Producers, loaded[p] = writeIdx_, NEW x \in Contents,
         ConstructSlot(p, x)
  PROVE  /\ RingInv' /\ Reserved' = Reserved /\ Fill' = Fill /\ Waiting' = Waiting
         /\ slots'[writeIdx_'] = x /\ UNCHANGED <<loaded, writeIdx_>>
<1>1. /\ UNCHANGED <<writeIdx_, readIdx_, readIdxCache_, writeIdxCache_, loaded>>
      /\ slots' = [slots EXCEPT ![writeIdx_] = x]
  BY DEF ConstructSlot
<1>2. Fill' = Fill /\ Reserved' = Reserved /\ CachesBehind'
  BY <1>1 DEF RingInv, CachesBehind, Fill, Ahead, Reserved
<1>3. RingTypeOK'
  BY <1>1 DEF RingInv, RingTypeOK
<1>4. \A i \in 1..Fill : Wrap(readIdx_ + i - 1) # writeIdx_
  BY RingAssumption DEF RingInv, RingTypeOK, Fill, Ahead, Wrap, Slots
<1>5. \A i \in 1..Fill : slots'[Wrap(readIdx_ + i - 1)] = slots[Wrap(readIdx_ + i - 1)]
  BY <1>1, <1>4 DEF RingInv, RingTypeOK
<1>6. Waiting' = Waiting
  BY <1>1, <1>2, <1>5 DEF Waiting
<1>7. slots'[writeIdx_'] = x
  BY <1>1 DEF RingInv, RingTypeOK
<1> QED BY <1>1, <1>2, <1>3, <1>6, <1>7 DEF RingInv

\* The third step of a push makes the signal visible.
LEMMA RingPublish ==
  ASSUME RingInv, Reserved, NEW p \in Producers, loaded[p] = writeIdx_, PublishIndex(p)
  PROVE  /\ RingInv' /\ Fill' = Fill + 1
         /\ \A i \in 1..Fill : Waiting'[i] = Waiting[i]
         /\ Waiting'[Fill + 1] = slots[writeIdx_]
         /\ UNCHANGED <<slots, loaded>>
<1>1. /\ UNCHANGED <<slots, readIdx_, readIdxCache_, writeIdxCache_, loaded>>
      /\ writeIdx_' = Succ(writeIdx_)
  BY DEF PublishIndex
<1>2. writeIdx_' \in Slots /\ RingTypeOK'
  BY <1>1, RingAssumption DEF RingInv, RingTypeOK, Succ, Wrap, Slots
<1>3. Fill' = Fill + 1 /\ CachesBehind'
  BY <1>1, RingAssumption DEF RingInv, RingTypeOK, CachesBehind, Reserved, Fill, Ahead, Succ,
                              Wrap, Slots
<1>4. Fill \in Nat
  BY FillBounds, RingAssumption DEF RingInv
<1>5. Waiting' = [i \in 1..(Fill + 1) |-> slots[Wrap(readIdx_ + i - 1)]]
  BY <1>1, <1>3 DEF Waiting
<1>6. Wrap(readIdx_ + (Fill + 1) - 1) = writeIdx_
  BY RingAssumption DEF RingInv, RingTypeOK, Fill, Ahead, Wrap, Slots
<1>7. \A i \in 1..Fill : Waiting'[i] = Waiting[i]
  <2> SUFFICES ASSUME NEW i \in 1..Fill PROVE Waiting'[i] = Waiting[i]
    OBVIOUS
  <2>1. i \in 1..(Fill + 1)
    BY <1>4
  <2>2. Waiting'[i] = slots[Wrap(readIdx_ + i - 1)]
    BY <1>5, <2>1
  <2> QED BY <2>2 DEF Waiting
<1>8. Waiting'[Fill + 1] = slots[writeIdx_]
  BY <1>4, <1>5, <1>6
<1> QED BY <1>1, <1>2, <1>3, <1>7, <1>8 DEF RingInv

\* front() finds a signal only in a ring that holds one.
LEMMA RingFront ==
  ASSUME RingInv, LoadFront
  PROVE  /\ RingInv' /\ Fill' = Fill /\ Waiting' = Waiting /\ Reserved' = Reserved
         /\ readIdx_' # writeIdxCache_'
         /\ UNCHANGED <<slots, writeIdx_, loaded>>
<1>1. /\ UNCHANGED <<slots, writeIdx_, readIdx_, readIdxCache_, loaded>> /\ ~IsEmpty
      /\ writeIdxCache_' = FrontCache
  BY DEF LoadFront
<1>2. RingTypeOK' /\ Fill' = Fill /\ Waiting' = Waiting /\ Reserved' = Reserved
  BY <1>1 DEF RingInv, RingTypeOK, FrontCache, Fill, Ahead, Waiting, Reserved
<1>3. CachesBehind'
  <2>1. Fill \in Nat
    BY FillBounds, RingAssumption DEF RingInv
  <2>2. Ahead(readIdxCache_, writeIdx_)' = Ahead(readIdxCache_, writeIdx_)
    BY <1>1 DEF Ahead
  <2>3. Ahead(readIdx_, writeIdxCache_)' = Ahead(readIdx_, FrontCache)
    BY <1>1 DEF Ahead
  <2>4. Ahead(readIdx_, FrontCache) <= Fill
    BY <2>1 DEF RingInv, CachesBehind, FrontCache, Fill
  <2> QED BY <1>2, <2>2, <2>3, <2>4 DEF RingInv, CachesBehind
<1>4. readIdx_' # writeIdxCache_'
  BY <1>1 DEF IsEmpty
<1> QED BY <1>1, <1>2, <1>3, <1>4 DEF RingInv

\* A pop of what front() found gives up the first slot.
LEMMA RingPop ==
  ASSUME RingInv, readIdx_ # writeIdxCache_, Pop
  PROVE  /\ RingInv' /\ Fill \in Nat \ {0} /\ Fill' = Fill - 1
         /\ \A i \in 1..(Fill - 1) : Waiting'[i] = Waiting[i + 1]
         /\ front = Waiting[1] /\ (Reserved => Reserved')
         /\ UNCHANGED <<slots, writeIdx_, loaded>>
<1>1. /\ UNCHANGED <<slots, writeIdx_, readIdxCache_, writeIdxCache_, loaded>>
      /\ readIdx_' = Succ(readIdx_)
  BY DEF Pop
<1>2. readIdx_' \in Slots /\ RingTypeOK'
  BY <1>1, RingAssumption DEF RingInv, RingTypeOK, Succ, Wrap, Slots
<1>3. Fill \in Nat \ {0}
  BY RingAssumption DEF RingInv, RingTypeOK, CachesBehind, Fill, Ahead, Slots
<1>4. Fill' = Fill - 1 /\ CachesBehind'
  BY <1>1, <1>3, RingAssumption DEF RingInv, RingTypeOK, CachesBehind, Fill, Ahead, Succ, Wrap,
                              Slots
<1>5. \A i \in 1..(Fill - 1) : Wrap(readIdx_' + i - 1) = Wrap(readIdx_ + (i + 1) - 1)
  BY <1>1, <1>3, RingAssumption DEF RingInv, RingTypeOK, Fill, Ahead, Succ, Wrap, Slots
<1>6. \A i \in 1..(Fill - 1) : Waiting'[i] = Waiting[i + 1]
  <2> SUFFICES ASSUME NEW i \in 1..(Fill - 1) PROVE Waiting'[i] = Waiting[i + 1]
    OBVIOUS
  <2>1. Waiting'[i] = slots[Wrap(readIdx_' + i - 1)]
    BY <1>1, <1>4 DEF Waiting
  <2>2. i + 1 \in 1..Fill
    BY <1>3
  <2>3. Waiting[i + 1] = slots[Wrap(readIdx_ + (i + 1) - 1)]
    BY <2>2 DEF Waiting
  <2> QED BY <1>5, <2>1, <2>3
<1>7. front = Waiting[1]
  <2>1. Wrap(readIdx_ + 1 - 1) = readIdx_
    BY RingAssumption DEF RingInv, RingTypeOK, Wrap, Slots
  <2> QED BY <1>3, <2>1 DEF front, Waiting
<1>8. Reserved => Reserved'
  BY <1>1 DEF Reserved, Ahead
<1> QED BY <1>1, <1>2, <1>3, <1>4, <1>6, <1>7, <1>8 DEF RingInv
----------------------------------------------------------------------------
(* The engine and the dispatcher *)

EngineTypeOK ==
  /\ epc \in {"loop", "take", "evaluate", "done"}
  /\ signal \in Contents /\ processed \in Seq(Contents)
  /\ taken \in Seq(Contents) /\ queue_ \in Seq(Contents)

\* Between front() and pop() the engine's copy of the write index is past its
\* read index.
FrontSeen == epc = "take" => readIdx_ # writeIdxCache_

\* The alerts of what the engine popped are those taken, then those queued,
\* then the one it is about to dispatch.
AlertsInOrder ==
  AlertsOf(processed) = IF epc = "evaluate" /\ signal \in Firing
                        THEN Append(taken \o queue_, signal) ELSE taken \o queue_

\* Every alert taken, but for the one in hand, was sent to the channels or
\* has one with its key before it that was.
SettledSoFar ==
  /\ dpc = "handle" => taken # << >>
  /\ offered \subseteq 1..Len(taken)
  /\ \A j \in 1..Len(taken) :
       (dpc = "handle" /\ j = Len(taken)) \/ \E i \in offered : i <= j /\ SameKey(i, j)

\* No alert has been raised at the start.
LEMMA AlertsStart ==
  PipelineInit => EngineTypeOK /\ FrontSeen /\ AlertsInOrder /\ SettledSoFar
<1> SUFFICES ASSUME PipelineInit
             PROVE  EngineTypeOK /\ FrontSeen /\ AlertsInOrder /\ SettledSoFar
    OBVIOUS
<1>1. /\ epc = "loop" /\ signal = NoSignal /\ dpc = "start" /\ offered = {}
      /\ processed = << >> /\ taken = << >> /\ queue_ = << >>
  BY DEF PipelineInit, QueueInit
<1>2. EngineTypeOK
  BY <1>1 DEF EngineTypeOK, Contents
<1>3. << >> \o << >> = << >>
  OBVIOUS
<1>4. SettledSoFar /\ FrontSeen
  BY <1>1 DEF SettledSoFar, FrontSeen
<1> QED BY <1>1, <1>2, <1>3, <1>4, AlertsOfEmpty DEF AlertsInOrder

\* front() and pop() follow each other.
LEMMA FrontKept ==
  ASSUME FrontSeen, EngineStep \/ UNCHANGED <<epc, readIdx_, writeIdxCache_>>
  PROVE  FrontSeen'
<1>1. CASE EngineFront
  BY <1>1 DEF EngineFront, LoadFront, IsEmpty, FrontSeen
<1>2. CASE EngineTake \/ EngineEvaluate \/ EngineExit
  BY <1>2 DEF EngineTake, Consume, EngineEvaluate, EngineExit, LeaveLoop, FrontSeen
<1> QED BY <1>1, <1>2 DEF EngineStep, FrontSeen

\* Taking an alert puts it in hand; it leaves the hand settled.
LEMMA SettledKept ==
  ASSUME EngineTypeOK, SettledSoFar, DispatcherStep \/ UNCHANGED <<dpc, taken, offered>>
  PROVE  SettledSoFar'
<1>0. taken \in Seq(Contents) /\ queue_ \in Seq(Contents) /\ Len(taken) \in Nat
  BY DEF EngineTypeOK
<1>1. CASE TakeAlert /\ taken' = Append(taken, Head(queue_)) /\ UNCHANGED offered
  <2>1. Len(taken') = Len(taken) + 1 /\ \A i \in 1..Len(taken) : taken'[i] = taken[i]
    BY <1>0, <1>1 DEF TakeAlert
  <2>2. taken' # << >> /\ offered' \subseteq 1..Len(taken')
    BY <1>0, <1>1, <2>1 DEF SettledSoFar
  <2>3. dpc = "loop" /\ dpc' = "handle"
    BY <1>1 DEF TakeAlert
  <2>4. ASSUME NEW j \in 1..Len(taken'), j # Len(taken')
        PROVE  \E i \in offered' : i <= j /\ SameKey(i, j)'
    <3>1. j \in 1..Len(taken)
      BY <1>0, <2>1, <2>4
    <3>2. PICK i \in offered : i <= j /\ SameKey(i, j)
      BY <2>3, <3>1 DEF SettledSoFar
    <3>3. SameKey(i, j)'
      BY <2>1, <3>1, <3>2 DEF SameKey, SettledSoFar
    <3> QED BY <1>1, <3>2, <3>3
  <2> QED BY <2>2, <2>3, <2>4 DEF SettledSoFar
<1>2. CASE BackToWait /\ (Suppress \/ Offer) /\ UNCHANGED taken
  <2>1. dpc = "handle" /\ dpc' = "loop" /\ taken' = taken /\ taken # << >> /\ Len(taken) > 0
    BY <1>0, <1>2 DEF BackToWait, SettledSoFar
  <2>2. offered \subseteq offered' /\ offered' \subseteq 1..Len(taken')
    <3>1. Len(taken) \in 1..Len(taken) /\ offered \subseteq 1..Len(taken)
      BY <1>0, <2>1 DEF SettledSoFar
    <3>2. offered' = offered \/ offered' = offered \cup {Len(taken)}
      BY <1>2 DEF Suppress, Offer
    <3> QED BY <2>1, <3>1, <3>2
  <2>3. \A i, j : SameKey(i, j)' <=> SameKey(i, j)
    BY <2>1 DEF SameKey
  <2>4. \E i \in offered' : i <= Len(taken) /\ SameKey(i, Len(taken))
    <3>1. CASE Suppress
      <4>1. PICK i \in offered : SameKey(i, Len(taken))
        BY <3>1 DEF Suppress
      <4>2. i \in 1..Len(taken)
        BY <4>1 DEF SettledSoFar
      <4> QED BY <1>0, <2>2, <4>1, <4>2
    <3>2. CASE Offer
      BY <1>0, <3>2 DEF Offer, SameKey
    <3> QED BY <1>2, <3>1, <3>2
  <2>5. ASSUME NEW j \in 1..Len(taken') PROVE \E i \in offered' : i <= j /\ SameKey(i, j)'
    <3>1. CASE j = Len(taken)
      BY <2>3, <2>4, <3>1
    <3>2. CASE j # Len(taken)
      <4>1. PICK i \in offered : i <= j /\ SameKey(i, j)
        BY <2>1, <2>5, <3>2 DEF SettledSoFar
      <4> QED BY <2>2, <2>3, <4>1
    <3> QED BY <3>1, <3>2
  <2> QED BY <2>1, <2>2, <2>5 DEF SettledSoFar
<1>3. CASE (DispatcherStart \/ DispatcherExit) /\ UNCHANGED <<taken, offered>>
  <2>1. dpc # "handle" /\ dpc' # "handle"
    BY <1>3 DEF DispatcherStart, DispatcherExit
  <2> QED BY <1>3, <2>1 DEF SettledSoFar, SameKey
<1>4. CASE UNCHANGED <<dpc, taken, offered>>
  BY <1>4 DEF SettledSoFar, SameKey
<1> QED BY <1>1, <1>2, <1>3, <1>4 DEF DispatcherStep

\* When nothing is in hand, everything taken is settled.
LEMMA SettledAtRest ==
  ASSUME EngineTypeOK, SettledSoFar, dpc # "handle" PROVE Settled
BY DEF EngineTypeOK, SettledSoFar, Settled

\* Popping, evaluating and taking an alert keep that order; nothing is lost
\* whatever the ring delivered.
LEMMA AlertsKept ==
  ASSUME EngineTypeOK, RingTypeOK, AlertsInOrder,
         EngineStep \/ DispatcherStep \/ UNCHANGED <<epc, signal, processed, taken, queue_>>
  PROVE  EngineTypeOK' /\ AlertsInOrder'
<1>0. front \in Contents
  BY DEF RingTypeOK, front
<1>1. CASE EngineTake
  <2>1. /\ epc = "take" /\ signal' = front /\ UNCHANGED <<queue_, taken>>
        /\ \/ front = Pill /\ epc' = "loop" /\ UNCHANGED processed
           \/ front # Pill /\ epc' = "evaluate" /\ processed' = Append(processed, front)
    BY <1>1 DEF EngineTake, Consume, queueVars, alertVars
  <2>2. EngineTypeOK'
    <3>1. Append(processed, front) \in Seq(Contents) /\ processed \in Seq(Contents)
      BY <1>0 DEF EngineTypeOK
    <3>2. processed' \in Seq(Contents)
      BY <2>1, <3>1
    <3>3. epc' \in {"loop", "take", "evaluate", "done"}
      BY <2>1
    <3> QED BY <1>0, <2>1, <3>2, <3>3 DEF EngineTypeOK
  <2>3. CASE epc' = "loop" /\ UNCHANGED processed
    <3>1. epc' = "loop" /\ AlertsOf(processed') = taken' \o queue_'
      BY <2>1, <2>3 DEF AlertsInOrder
    <3> QED BY <2>2, <3>1 DEF AlertsInOrder
  <2>4. CASE epc' = "evaluate" /\ processed' = Append(processed, front)
    <3>1. AlertsOf(processed') = IF front \in Firing THEN Append(AlertsOf(processed), front)
                                 ELSE AlertsOf(processed)
      BY <1>0, <2>4, AlertsOfAppend DEF EngineTypeOK
    <3>2. AlertsOf(processed) = taken \o queue_
      BY <2>1 DEF AlertsInOrder
    <3> QED BY <2>1, <2>2, <2>4, <3>1, <3>2 DEF AlertsInOrder
  <2> QED BY <2>1, <2>2, <2>3, <2>4
<1>2. CASE EngineEvaluate
  <2>1. /\ epc = "evaluate" /\ epc' = "loop" /\ UNCHANGED <<signal, processed, taken>>
        /\ queue_' = IF signal \in Firing THEN Append(queue_, signal) ELSE queue_
    BY <1>2 DEF EngineEvaluate, dispatch, queueVars
  <2>2. EngineTypeOK'
    BY <2>1 DEF EngineTypeOK
  <2>3. signal \in Firing => taken \o Append(queue_, signal) = Append(taken \o queue_, signal)
    BY QueuedBehindTaken DEF EngineTypeOK
  <2> QED BY <2>1, <2>2, <2>3 DEF AlertsInOrder
<1>3. CASE TakeAlert /\ taken' = Append(taken, Head(queue_)) /\ UNCHANGED engineVars
  <2>1. /\ queue_ # << >> /\ queue_' = Tail(queue_) /\ taken' = Append(taken, Head(queue_))
        /\ UNCHANGED <<epc, signal, processed>>
    BY <1>3 DEF TakeAlert, engineVars
  <2>2. EngineTypeOK'
    BY <2>1 DEF EngineTypeOK
  <2>3. taken' \o queue_' = taken \o queue_
    BY <2>1, QueuedBehindTaken DEF EngineTypeOK
  <2> QED BY <2>1, <2>2, <2>3 DEF AlertsInOrder
<1>4. CASE /\ UNCHANGED <<signal, processed, taken, queue_>>
           /\ epc' \in {"take", "done"} /\ epc = "loop"
  BY <1>4 DEF EngineTypeOK, AlertsInOrder
<1>5. CASE UNCHANGED <<epc, signal, processed, taken, queue_>>
  BY <1>5 DEF EngineTypeOK, AlertsInOrder
<1>6. EngineExit \/ EngineFront => /\ UNCHANGED <<signal, processed, taken, queue_>>
                                   /\ epc' \in {"take", "done"} /\ epc = "loop"
  BY DEF EngineExit, EngineFront, LeaveLoop, queueVars, alertVars
<1>7. DispatcherStep =>
        \/ TakeAlert /\ taken' = Append(taken, Head(queue_)) /\ UNCHANGED engineVars
        \/ UNCHANGED <<epc, signal, processed, taken, queue_>>
  BY DEF DispatcherStep, DispatcherStart, DispatcherExit, BackToWait, engineVars
<1> QED BY <1>1, <1>2, <1>3, <1>4, <1>5, <1>6, <1>7 DEF EngineStep
----------------------------------------------------------------------------
(* The stream of signals through the ring *)

\* The signals st, in the order they were pushed: the engine popped the first
\* ones, the others wait in the ring, with the pill among them in place k; no
\* pill waits when k is past the last.
InTransit(st, k) ==
  /\ st \in Seq(Signals) /\ k \in 1..(Fill + 1)
  /\ Len(st) = Len(processed) + Fill - (IF k <= Fill THEN 1 ELSE 0)
  /\ \A i \in 1..Len(processed) : processed[i] = st[i]
  /\ \A i \in 1..Fill :
       Waiting[i] = IF i = k THEN Pill
                    ELSE IF i < k THEN st[Len(processed) + i] ELSE st[Len(processed) + i - 1]

\* The pill is in place k and nowhere else.
LEMMA PillPlace ==
  ASSUME EngineTypeOK, RingTypeOK, NEW st, NEW k, InTransit(st, k), NEW i \in 1..Fill
  PROVE  Waiting[i] = Pill <=> i = k
<1>1. /\ Fill \in Nat /\ Len(processed) \in Nat /\ Len(st) \in Nat /\ st \in Seq(Signals)
      /\ k \in Nat /\ Len(st) = Len(processed) + Fill - (IF k <= Fill THEN 1 ELSE 0)
      /\ Waiting[i] = IF i = k THEN Pill
                      ELSE IF i < k THEN st[Len(processed) + i] ELSE st[Len(processed) + i - 1]
  <2>1. Fill \in Nat
    BY FillBounds, RingAssumption
  <2>2. Len(processed) \in Nat
    BY DEF EngineTypeOK
  <2>3. /\ st \in Seq(Signals) /\ k \in 1..(Fill + 1)
        /\ Len(st) = Len(processed) + Fill - (IF k <= Fill THEN 1 ELSE 0)
        /\ Waiting[i] = IF i = k THEN Pill
                        ELSE IF i < k THEN st[Len(processed) + i]
                             ELSE st[Len(processed) + i - 1]
    BY DEF InTransit
  <2>4. k \in Nat /\ Len(st) \in Nat
    BY <2>1, <2>3
  <2> QED BY <2>1, <2>2, <2>3, <2>4
<1>2. CASE i = k
  BY <1>1, <1>2
<1>3. CASE i < k
  <2>1. Len(processed) + i \in 1..Len(st) /\ i # k
    BY <1>1, <1>3
  <2>2. Waiting[i] \in Signals
    BY <1>1, <1>3, <2>1
  <2> QED BY <2>1, <2>2, PipelineAssumption
<1>4. CASE i > k
  <2>1. k <= Fill /\ k >= 1
    BY <1>1, <1>4 DEF InTransit
  <2>2. Len(st) = Len(processed) + Fill - 1
    BY <1>1, <2>1
  <2>3. Len(processed) + i - 1 \in 1..Len(st) /\ i # k /\ ~(i < k)
    BY <1>1, <1>4, <2>1, <2>2
  <2>4. Waiting[i] \in Signals
    BY <1>1, <2>3
  <2> QED BY <2>3, <2>4, PipelineAssumption
<1> QED BY <1>1, <1>2, <1>3, <1>4

\* The pill is at the front just when k = 1.
LEMMA PillInFront ==
  ASSUME EngineTypeOK, RingTypeOK, NEW st, NEW k, InTransit(st, k), Fill > 0
  PROVE  /\ Waiting[1] = Pill <=> k = 1
         /\ k # 1 => Waiting[1] = st[Len(processed) + 1] /\ Len(processed) < Len(st)
<1>1. Fill \in Nat /\ k \in Nat /\ Len(processed) \in Nat /\ Len(st) \in Nat /\ 1 \in 1..Fill
  BY FillBounds, RingAssumption DEF InTransit, EngineTypeOK
<1>2. CASE k = 1
  BY <1>1, <1>2 DEF InTransit
<1>3. CASE k # 1
  <2>1. Waiting[1] = st[Len(processed) + 1]
    BY <1>1, <1>3 DEF InTransit
  <2>2. Len(processed) < Len(st)
    BY <1>1, <1>3 DEF InTransit
  <2>3. st[Len(processed) + 1] \in Signals
    BY <1>1, <2>2 DEF InTransit
  <2> QED BY <1>3, <2>1, <2>2, <2>3, PipelineAssumption
<1> QED BY <1>2, <1>3

\* The engine pops the pill, or the next signal of the stream.
LEMMA TransitTake ==
  ASSUME EngineTypeOK, RingInv, FrontSeen, NEW st, NEW k, InTransit(st, k), EngineTake
  PROVE  \/ /\ k = 1 /\ k <= Fill /\ drain_mode' /\ processed' = processed
            /\ \E j : InTransit(st, j)' /\ j > Fill'
         \/ /\ k # 1 /\ drain_mode' = drain_mode
            /\ Len(processed') = Len(processed) + 1
            /\ InTransit(st, k - 1)'
<1>1. /\ Fill \in Nat \ {0} /\ Fill' = Fill - 1
      /\ \A i \in 1..(Fill - 1) : Waiting'[i] = Waiting[i + 1]
      /\ front = Waiting[1]
  BY RingPop DEF EngineTake, Consume, FrontSeen
<1>2. k \in Nat \ {0} /\ Len(processed) \in Nat /\ Len(st) \in Nat /\ k <= Fill + 1
  BY <1>1 DEF InTransit, EngineTypeOK
<1>3. /\ front = Pill <=> k = 1
      /\ k # 1 => front = st[Len(processed) + 1] /\ Len(processed) < Len(st)
  BY <1>1, PillInFront DEF RingInv
<1>4. CASE k = 1
  <2>1. processed' = processed /\ drain_mode' = TRUE
    BY <1>3, <1>4 DEF EngineTake, Consume
  <2>2. PICK j \in Nat : j = Fill' + 1
    BY <1>1
  <2>3. InTransit(st, j)'
    <3>1. \A i \in 1..Fill' : Waiting'[i] = st[Len(processed) + i]
      <4> SUFFICES ASSUME NEW i \in 1..Fill' PROVE Waiting'[i] = st[Len(processed) + i]
        OBVIOUS
      <4>1. i \in Nat /\ i \in 1..(Fill - 1) /\ i + 1 \in 1..Fill /\ ~(i + 1 = k) /\ ~(i + 1 < k)
        BY <1>1, <1>4
      <4>2. Waiting[i + 1] = st[Len(processed) + (i + 1) - 1]
        BY <4>1 DEF InTransit
      <4>3. Len(processed) + (i + 1) - 1 = Len(processed) + i
        BY <1>2, <4>1
      <4> QED BY <1>1, <4>1, <4>2, <4>3
    <3>2. \A i \in 1..Fill' : i < j /\ i # j
      BY <1>1, <2>2
    <3>3. Len(st) = Len(processed) + Fill' /\ ~(j <= Fill') /\ j \in 1..(Fill' + 1)
      BY <1>1, <1>2, <1>4, <2>2 DEF InTransit
    <3>4. Len(st) = Len(processed') + Fill' - (IF j <= Fill' THEN 1 ELSE 0)
      BY <1>1, <1>2, <2>1, <3>3
    <3> QED BY <2>1, <3>1, <3>2, <3>3, <3>4 DEF InTransit
  <2> QED BY <1>1, <1>4, <2>1, <2>2, <2>3
<1>5. CASE k # 1
  <2>1. processed' = Append(processed, st[Len(processed) + 1]) /\ drain_mode' = drain_mode
    BY <1>3, <1>5 DEF EngineTake, Consume
  <2>2. /\ Len(processed') = Len(processed) + 1
        /\ \A i \in 1..Len(processed) : processed'[i] = processed[i]
        /\ processed'[Len(processed) + 1] = st[Len(processed) + 1]
    BY <2>1 DEF EngineTypeOK
  <2>3. InTransit(st, k - 1)'
    <3>1. \A i \in 1..Len(processed') : processed'[i] = st[i]
      BY <1>2, <2>2 DEF InTransit
    <3>2. \A i \in 1..Fill' :
            Waiting'[i] = IF i = k - 1 THEN Pill
                          ELSE IF i < k - 1 THEN st[Len(processed') + i]
                          ELSE st[Len(processed') + i - 1]
      <4> SUFFICES ASSUME NEW i \in 1..Fill'
                   PROVE  Waiting'[i] = IF i = k - 1 THEN Pill
                                        ELSE IF i < k - 1 THEN st[Len(processed') + i]
                                        ELSE st[Len(processed') + i - 1]
        OBVIOUS
      <4>1. /\ i \in Nat /\ i \in 1..(Fill - 1) /\ i + 1 \in 1..Fill
            /\ i = k - 1 <=> i + 1 = k
            /\ i < k - 1 <=> i + 1 < k
        BY <1>1, <1>2
      <4>2. Waiting'[i] = Waiting[i + 1]
        BY <1>1, <4>1
      <4>3. Waiting[i + 1] = IF i + 1 = k THEN Pill
                             ELSE IF i + 1 < k THEN st[Len(processed) + (i + 1)]
                             ELSE st[Len(processed) + (i + 1) - 1]
        BY <4>1 DEF InTransit
      <4>4. /\ Len(processed) + (i + 1) = Len(processed') + i
            /\ Len(processed) + (i + 1) - 1 = Len(processed') + i - 1
        BY <1>2, <2>2, <4>1
      <4> QED BY <4>1, <4>2, <4>3, <4>4
    <3>3. /\ Len(st) = Len(processed') + Fill' - (IF k - 1 <= Fill' THEN 1 ELSE 0)
          /\ k - 1 \in 1..(Fill' + 1)
      BY <1>1, <1>2, <1>5, <2>2 DEF InTransit
    <3> QED BY <3>1, <3>2, <3>3 DEF InTransit
  <2> QED BY <1>5, <2>1, <2>2, <2>3
<1> QED BY <1>4, <1>5

\* A signal published goes to the end of the stream, behind the pill if that
\* waits.
LEMMA TransitPush ==
  ASSUME EngineTypeOK, RingInv, Reserved, NEW p \in Producers, loaded[p] = writeIdx_,
         PublishIndex(p), processed' = processed,
         NEW st, NEW k, InTransit(st, k), NEW x \in Signals, slots[writeIdx_] = x
  PROVE  \E j : /\ InTransit(Append(st, x), j)'
                /\ j = IF k <= Fill THEN k ELSE Fill' + 1
<1>1. /\ Fill' = Fill + 1 /\ Waiting'[Fill + 1] = x
      /\ \A i \in 1..Fill : Waiting'[i] = Waiting[i]
  BY RingPublish
<1>2. /\ Fill \in Nat /\ Len(processed) \in Nat /\ Len(st) \in Nat
      /\ k \in Nat \ {0} /\ k <= Fill + 1
      /\ Len(st) = Len(processed) + Fill - (IF k <= Fill THEN 1 ELSE 0)
  BY FillBounds, RingAssumption DEF InTransit, EngineTypeOK, RingInv
<1>3. PICK j \in Nat : j = IF k <= Fill THEN k ELSE Fill' + 1
  BY <1>1, <1>2
<1> DEFINE u == Append(st, x)
<1>4. /\ u \in Seq(Signals) /\ Len(u) = Len(st) + 1 /\ u[Len(st) + 1] = x
      /\ \A i \in 1..Len(st) : u[i] = st[i]
  BY DEF InTransit
<1> HIDE DEF u
<1>5. \A i \in 1..Len(processed') : processed'[i] = u[i]
  BY <1>2, <1>4 DEF InTransit
<1>6. ASSUME NEW i \in 1..Fill'
      PROVE  Waiting'[i] = IF i = j THEN Pill
                           ELSE IF i < j THEN u[Len(processed') + i] ELSE u[Len(processed') + i - 1]
  <2>1. CASE i = Fill + 1
    <3>1. CASE k <= Fill
      <4>1. i # j /\ ~(i < j) /\ Len(processed') + i - 1 = Len(st) + 1
        BY <1>2, <1>3, <2>1, <3>1
      <4> QED BY <1>1, <1>4, <2>1, <4>1
    <3>2. CASE ~(k <= Fill)
      <4>1. i # j /\ i < j /\ Len(processed') + i = Len(st) + 1
        BY <1>1, <1>2, <1>3, <2>1, <3>2
      <4> QED BY <1>1, <1>4, <2>1, <4>1
    <3> QED BY <3>1, <3>2
  <2>2. CASE i # Fill + 1
    <3>1. i \in 1..Fill /\ i \in Nat
      BY <1>1, <1>2, <2>2
    <3>2. Waiting'[i] = IF i = k THEN Pill
                        ELSE IF i < k THEN st[Len(processed) + i] ELSE st[Len(processed) + i - 1]
      BY <1>1, <3>1 DEF InTransit
    <3>3. (i = k <=> i = j) /\ (i < k <=> i < j)
      BY <1>1, <1>2, <1>3, <3>1
    <3>4. CASE i = k
      BY <3>2, <3>3, <3>4
    <3>5. CASE i < k
      <4>1. Len(processed) + i \in 1..Len(st) /\ i # k
        BY <1>2, <3>1, <3>5
      <4> QED BY <1>4, <3>2, <3>3, <3>5, <4>1
    <3>6. CASE i > k
      <4>1. Len(processed) + i - 1 \in 1..Len(st) /\ i # k /\ ~(i < k)
        BY <1>2, <3>1, <3>6
      <4> QED BY <1>4, <3>2, <3>3, <4>1
    <3> QED BY <1>2, <3>1, <3>4, <3>5, <3>6
  <2> QED BY <2>1, <2>2
<1>7. /\ Len(u) = Len(processed') + Fill' - (IF j <= Fill' THEN 1 ELSE 0)
      /\ j \in 1..(Fill' + 1)
  BY <1>1, <1>2, <1>3, <1>4
<1>8. InTransit(u, j)'
  BY <1>4, <1>5, <1>6, <1>7 DEF InTransit
<1> QED BY <1>3, <1>8 DEF u

\* The pill published goes to the end of the ring.
LEMMA TransitPill ==
  ASSUME EngineTypeOK, RingInv, Reserved, NEW p \in Producers, loaded[p] = writeIdx_,
         PublishIndex(p), processed' = processed,
         NEW st, NEW k, InTransit(st, k), k > Fill, slots[writeIdx_] = Pill
  PROVE  InTransit(st, k)' /\ k = Fill'
<1>1. /\ Fill' = Fill + 1 /\ Waiting'[Fill + 1] = Pill
      /\ \A i \in 1..Fill : Waiting'[i] = Waiting[i]
  BY RingPublish
<1>2. /\ Fill \in Nat /\ Len(processed) \in Nat /\ Len(st) \in Nat /\ k = Fill + 1
      /\ Len(st) = Len(processed) + Fill
  BY FillBounds, RingAssumption DEF InTransit, EngineTypeOK, RingInv
<1>3. ASSUME NEW i \in 1..Fill'
      PROVE  Waiting'[i] = IF i = k THEN Pill
                           ELSE IF i < k THEN st[Len(processed') + i]
                           ELSE st[Len(processed') + i - 1]
  <2>1. CASE i = k
    BY <1>1, <1>2, <2>1
  <2>2. CASE i # k
    <3>1. i \in 1..Fill /\ i < k
      BY <1>1, <1>2, <2>2
    <3> QED BY <1>1, <2>2, <3>1 DEF InTransit
  <2> QED BY <2>1, <2>2
<1>4. k \in 1..(Fill' + 1) /\ k <= Fill' /\ Len(st) = Len(processed') + Fill' - 1
  BY <1>1, <1>2
<1> QED BY <1>1, <1>2, <1>3, <1>4 DEF InTransit

\* Steps that leave the ring's contents and the engine's history alone.
LEMMA TransitAtRest ==
  ASSUME Fill' = Fill, Waiting' = Waiting, processed' = processed, NEW st, NEW k, InTransit(st, k)
  PROVE  InTransit(st, k)'
BY DEF InTransit
=============================================================================
