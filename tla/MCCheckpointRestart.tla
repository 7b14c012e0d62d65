------------------------ MODULE MCCheckpointRestart ------------------------
(* Four logs over blocks 1 to 3; one restart at any point.                 *)
EXTENDS CheckpointRestart

MCLogs    == 1..4
MCBlockOf == <<1, 2, 2, 3>>
=============================================================================
