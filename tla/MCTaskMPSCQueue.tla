--------------------------- MODULE MCTaskMPSCQueue ---------------------------
(* Two producers and three tasks, so that batches, single pushes and the    *)
(* stub meet; tasks that were popped are pushed again.                      *)
EXTENDS TaskMPSCQueue
=============================================================================
