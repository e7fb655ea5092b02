---------------------------- MODULE MCSharedFiles ----------------------------
EXTENDS SharedFiles, TLC

Symmetry == Permutations(Processes) \union Permutations(Replies) \union Permutations(Messages)
=============================================================================
