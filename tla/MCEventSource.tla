--------------------------- MODULE MCEventSource ---------------------------
(* A small chain for EventSource: six logs over blocks 1 to 5, two of them *)
(* in block 3, of which the second is malformed; block 5 holds one that    *)
(* the adapter cannot parse.                                               *)
EXTENDS EventSource

MCLogs       == 1..6
MCBlockOf    == <<1, 2, 3, 3, 4, 5>>
MCMalformed  == {4}
MCUnparsable == {6}
=============================================================================
