----------------------------- MODULE MCTaskDeque -----------------------------
(* The deque on small instances: three tasks in a ring of two, two thieves. *)
EXTENDS TaskDeque, TLC

Symmetry == Permutations(Tasks) \cup Permutations(Thieves)
=============================================================================
