-------------------------- MODULE MCSchedulerMutex --------------------------
(* Two or three fibers and a spinning thread around one lock.               *)
EXTENDS SchedulerMutex
=============================================================================
