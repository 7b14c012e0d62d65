---------------------------- MODULE BatchSource ----------------------------
(***************************************************************************)
(* EventSource reduced to what the live service's shutdown depends on:     *)
(* batches of any size pushed one signal at a time, and a stop flag that   *)
(* is looked at between batches only.  Module EventSource has the rest.    *)
(***************************************************************************)
EXTENDS Pipeline

CONSTANT MaxSignals  \* bound: signals the source has to push

\* App gives every thread its Metrics object.
ASSUME BatchAssumption == MaxSignals \in Nat /\ Signals = 1..MaxSignals /\ Metrics

VARIABLES spc, sourceRunning, sent, batchEnd

sourceVars == <<spc, sourceRunning, sent, batchEnd>>

SourceInit == spc = "loop" /\ sourceRunning = TRUE /\ sent = 0 /\ batchEnd = 0

\* run(): another batch, of any size; the flag is looked at only here.
SourceBatch == /\ spc = "loop" /\ sourceRunning
               /\ batchEnd' \in (sent + 1)..MaxSignals
               /\ spc' = "load"
               /\ UNCHANGED <<sourceRunning, sent, ringVars,
                              engineVars, depth, alertVars>>

\* push_blocking: try again until there is room.
SourceLoad == /\ spc = "load"
              /\ LoadIndex("source")
              /\ spc' = "write"
              /\ UNCHANGED <<sourceRunning, sent, batchEnd,
                             engineVars, depth, alertVars>>

SourceWrite == /\ spc = "write"
               /\ ConstructSlot("source", sent + 1)
               /\ spc' = "publish"
               /\ UNCHANGED <<sourceRunning, sent, batchEnd,
                              engineVars, depth, alertVars>>

SourcePublish == /\ spc = "publish"
                 /\ PublishIndex("source")
                 /\ sent' = sent + 1
                 /\ spc' = "count"
                 /\ UNCHANGED <<sourceRunning, batchEnd,
                                engineVars, depth, alertVars>>

\* The gauge goes up after the push; after the last one the batch is complete.
SourceCount == /\ spc = "count"
               /\ depth' = depth + 1
               /\ spc' = IF sent < batchEnd THEN "load" ELSE "loop"
               /\ UNCHANGED <<sourceRunning, sent, batchEnd, ringVars, engineVars,
                              alertVars>>

SourceExit == /\ spc = "loop" /\ ~sourceRunning
              /\ spc' = "done"
              /\ UNCHANGED <<sourceRunning, sent, batchEnd,
                             ringVars, engineVars, depth, alertVars>>

SourceStep == \/ SourceBatch \/ SourceLoad \/ SourceWrite \/ SourcePublish
              \/ SourceCount \/ SourceExit

\* The first n signals in order: what an intact ring hands to the engine.
FirstSignals(n) == [i \in 1..n |-> i]
=============================================================================
