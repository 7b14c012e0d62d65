------------------------------ MODULE SpscRing ------------------------------
(***************************************************************************)
(* rigtorp::SPSCQueue, the RingBuffer of include/sentinel/risk/signal.hpp  *)
(* (a library: modelled from how the threads use it).  A push is three     *)
(* steps - read the write index and test for room, construct the slot,     *)
(* publish the index - and is safe for one producer.  The indices are      *)
(* those of the library, caches included, so that what two producers do to *)
(* each other is what the build can do; a popped slot keeps its bytes.     *)
(***************************************************************************)
EXTENDS Integers

CONSTANTS Capacity,   \* slots the application asked for
          Producers,  \* threads that call try_push
          NoSignal    \* content of a slot never written

ASSUME RingAssumption == Capacity \in Nat \ {0}

VARIABLES slots, writeIdx_, readIdx_,
          readIdxCache_,   \* the producers' copy of readIdx_
          writeIdxCache_,  \* the consumer's copy of writeIdx_
          loaded           \* the write index each producer has read

ringVars == <<slots, writeIdx_, readIdx_, readIdxCache_, writeIdxCache_, loaded>>

\* The library allocates one slot more than asked for.
Slots == 0..Capacity
Wrap(i) == IF i > Capacity THEN i - (Capacity + 1) ELSE i
Succ(i) == Wrap(i + 1)

RingInit == /\ slots = [i \in Slots |-> NoSignal]
            /\ writeIdx_ = 0 /\ readIdx_ = 0
            /\ readIdxCache_ = 0 /\ writeIdxCache_ = 0
            /\ loaded = [p \in Producers |-> 0]

\* try_push, first step: reload the cached read index only when the cache says
\* full, and fail when the ring is full.
RoomCache == IF Succ(writeIdx_) = readIdxCache_ THEN readIdx_ ELSE readIdxCache_
HasRoom   == Succ(writeIdx_) # RoomCache

LoadIndex(p) == /\ HasRoom
                /\ loaded' = [loaded EXCEPT ![p] = writeIdx_]
                /\ readIdxCache_' = RoomCache
                /\ UNCHANGED <<slots, writeIdx_, readIdx_, writeIdxCache_>>

ConstructSlot(p, x) == /\ slots' = [slots EXCEPT ![loaded[p]] = x]
                       /\ UNCHANGED <<writeIdx_, readIdx_, readIdxCache_,
                                      writeIdxCache_, loaded>>

PublishIndex(p) == /\ writeIdx_' = Succ(loaded[p])
                   /\ UNCHANGED <<slots, readIdx_, readIdxCache_, writeIdxCache_, loaded>>

\* front(): null when the reloaded write index still equals the read index.
FrontCache == IF readIdx_ = writeIdxCache_ THEN writeIdx_ ELSE writeIdxCache_
IsEmpty    == readIdx_ = FrontCache
front      == slots[readIdx_]

\* A front() that found a signal.
LoadFront == /\ ~IsEmpty
             /\ writeIdxCache_' = FrontCache
             /\ UNCHANGED <<slots, writeIdx_, readIdx_, readIdxCache_, loaded>>

\* pop(), of the signal front() returned.
Pop == /\ readIdx_' = Succ(readIdx_)
       /\ UNCHANGED <<slots, writeIdx_, readIdxCache_, writeIdxCache_, loaded>>
=============================================================================
