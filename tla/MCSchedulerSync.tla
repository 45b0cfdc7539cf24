--------------------------- MODULE MCSchedulerSync ---------------------------
(* Fibers and a spinning thread around one mutex, one condition variable    *)
(* and one semaphore.                                                       *)
EXTENDS SchedulerSync
=============================================================================
