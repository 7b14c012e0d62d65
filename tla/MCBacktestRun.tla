--------------------------- MODULE MCBacktestRun ---------------------------
(* Four logs over blocks 1 to 3, and one in a block past the range.         *)
EXTENDS BacktestRun
MCProducers == {"source", "main"}
MCSignals   == 1..5
MCBlockOf   == <<1, 1, 2, 3, 4>>
MCFiring    == {s \in Signals : s % 2 = 1}
MCKeyOf     == [s \in Firing |-> s \div 4]
=============================================================================
