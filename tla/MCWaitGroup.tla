----------------------------- MODULE MCWaitGroup -----------------------------
(* Fibers, completers and a main thread around one group.                   *)
EXTENDS WaitGroup
=============================================================================
