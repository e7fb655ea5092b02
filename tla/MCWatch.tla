------------------------------- MODULE MCWatch -------------------------------
EXTENDS Watch, TLC

Symmetry == Permutations(Runs)
=============================================================================
