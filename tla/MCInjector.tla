----------------------------- MODULE MCInjector -----------------------------
(* Instances of Injector for TLC. *)
EXTENDS Injector, TLC

(* Replies, chats and senders are interchangeable. *)
Symmetry == Permutations(Replies) \cup Permutations(Chats) \cup Permutations(Senders)
=============================================================================
