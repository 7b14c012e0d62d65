----------------------------- MODULE MCLiveApp -----------------------------
EXTENDS LiveApp
MCProducers == {"source", "main"}
MCSignals   == 1..MaxSignals
MCFiring    == {s \in Signals : s % 2 = 1}
MCKeyOf     == [s \in Firing |-> s \div 4]
=============================================================================
