----------------------------- MODULE MCRouting -----------------------------
(* The routing of replies, for TLC: both kinds of chat, either store.      *)
EXTENDS Routing, TLC

Symmetry == Permutations(Sessions) \cup Permutations(Names)
=============================================================================
