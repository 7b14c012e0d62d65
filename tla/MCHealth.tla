------------------------------ MODULE MCHealth ------------------------------
EXTENDS Health, TLC

\* The probes are alike: no action and no property tells them apart.
Symmetry == Permutations(Probes)
=============================================================================
