------------------------- MODULE CheckpointRestart -------------------------
(***************************************************************************)
(* EventSource across restarts of the process: App::init_db_ reads the     *)
(* chain's row of the checkpoints table (src/db_checkpoint_store.cpp) into *)
(* start_block.  upsert_checkpoint has no caller, so the row keeps what it *)
(* was first given: 0, or what an operator wrote (StartBlock).             *)
(***************************************************************************)
EXTENDS EventSource

CONSTANT MaxRestarts  \* bound: how often the process is started again

VARIABLES restarts,
          began        \* history: where the first process began; Unset before

restartVars == <<vars, restarts, began>>

Unset == -1

\* SELECT last_block, or INSERT 0: in both cases what was there from the start.
get_or_init_checkpoint == StartBlock

RestartInit == Init /\ restarts = 0 /\ began = Unset

\* A step of the running process.
Running == /\ Next
           /\ began' = IF began = Unset /\ ~cold_start_' THEN origin' ELSE began
           /\ UNCHANGED restarts

\* The process dies, or ends, at any point and is started anew: the ring and
\* the cursor are gone, the chain has moved on or not.
Restart ==
  /\ restarts < MaxRestarts
  /\ restarts' = restarts + 1
  /\ pc' = "loop" /\ running_' = TRUE
  /\ next_block_' = get_or_init_checkpoint
  /\ cold_start_' = (get_or_init_checkpoint = 0)
  /\ cached_chain_head_' = 0 /\ range' = 0 /\ batch' = {} /\ out_' = 0
  /\ origin' = get_or_init_checkpoint
  /\ UNCHANGED <<head, delivered, repeated, exposed, missed, began>>

RestartNext == Running \/ Restart

RestartSpec == RestartInit /\ [][RestartNext]_restartVars

\* README: the checkpoint is the "Per-chain last-processed block".  Whatever
\* restarts happened, every log between the first block ever polled and the
\* cursor was pushed by one of the processes.
NoGapAcrossRestarts ==
  began # Unset /\ ~cold_start_ => LogsIn(began, next_block_ - 1) \subseteq delivered \cup missed
=============================================================================
