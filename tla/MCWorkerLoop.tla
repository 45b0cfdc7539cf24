---------------------------- MODULE MCWorkerLoop ----------------------------
(***************************************************************************)
(* Two workers, one thread outside the pool and five programs: a fiber     *)
(* task with a forked fast job, of high priority; a fiber task that        *)
(* yields, suspends or is handed back once; one fast job under Pause,      *)
(* Resume and Join; a fiber task that is refused a fiber once, with an     *)
(* immediate task; and an immediate task that is refused one.  RunsOnce is *)
(* checked with the tasks that are refused alone.                          *)
(***************************************************************************)
EXTENDS WorkerLoop

CONSTANTS a, b, f, g, i, j, k

MCMixes == {{a, f}, {b}, {j}, {g, i}, {k}}
MCRefused == {{g}, {k}}
MCControlled == {{j}}
MCMaxNaps == [t \in Tasks |-> IF t = b THEN 1 ELSE 0]
MCMaxMisses == [t \in Tasks |-> IF t \in {g, k} THEN 1 ELSE 0]
=============================================================================
