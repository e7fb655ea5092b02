------------------------------ MODULE MCBridge ------------------------------
(* Instances of Bridge for TLC. *)
EXTENDS Bridge, TLC

(* Threads, wait calls and posts are interchangeable. *)
Symmetry == Permutations(Threads) \cup Permutations(Waits) \cup Permutations(Posts)

=============================================================================
