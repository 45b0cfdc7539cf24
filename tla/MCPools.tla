------------------------------- MODULE MCPools -------------------------------
(***************************************************************************)
(* The pools of the scheduler.  A behaviour starts the workers with their  *)
(* fibers, or runs the program of a client on slots of the allocator; the  *)
(* two share nothing but the worker threads.                               *)
(*                                                                         *)
(* Start-up: machines with one to seven CPUs, with and without SMT and     *)
(* shared caches; on one of them tasks take and give back fibers.          *)
(*                                                                         *)
(* Programs: a caller and two workers share four slots, and ranges longer  *)
(* than two are split.  They take every form a call can have: the flat     *)
(* loop, the splitter, the call on the spot, the loop that does not wait   *)
(* and the empty range; each starts while tasks or free slots of an        *)
(* earlier call are still with the workers.  The empty program stands for  *)
(* the behaviours that are about the start.                                *)
(***************************************************************************)
EXTENDS StartPool, ParallelFor

M(cpus, cores, caches, load) ==
  [cpus |-> cpus, cores |-> cores, caches |-> caches, load |-> load]

Pairs == <<{0, 1}, {2, 3}, {4, 5}, {6}>>
Laptop == M(3, <<{0, 1}, {2}>>, <<{0, 1}, {0, 1, 2}>>, 4)
MCMachines ==
  { Laptop,
    M(1, <<{0}>>, NoInfo, 0),
    M(4, NoInfo, << >>, 0),
    M(5, <<{0}, {1}, {2}, {3}, {4}>>, <<{1, 2}, {3, 4}, {0, 1, 2, 3, 4}>>, 0),
    M(7, Pairs, Pairs \o <<{0, 1, 2, 3}, {4, 5, 6}>>, 0),
    M(7, Pairs, <<{0, 1, 2, 3, 4, 5, 6}>> \o Pairs, 0),
    M(6, <<{0, 3}, {1, 4}, {2, 5}>>, NoInfo, 0) }

Call(o, a, b, c) == [op |-> o, start |-> a, end |-> b, chunk |-> c]

NoProgram == << >>
MCScripts ==
  { NoProgram,
    <<Call("for", 1, 6, 2), Call("for", 0, 5, 1)>>,
    <<Call("NB", 0, 5, 1), Call("for", 0, 3, 2)>>,
    <<Call("FJ", 0, 6, 2), Call("for", 0, 2, 1), Call("NB", 0, 0, 0)>> }

PoolsInit ==
  /\ StartInit /\ Init
  /\ theScript # NoProgram => machine = Laptop /\ num_workers = 2

PoolsNext ==
  \/ theScript = NoProgram /\ StartNext /\ UNCHANGED vars
  \/ theScript # NoProgram /\ Next /\ UNCHANGED systemVars

PoolsSpec ==
  /\ PoolsInit /\ [][PoolsNext]_<<systemVars, vars>>
  /\ WF_vars(CallerStep \/ Step(Caller)) /\ \A t \in Workers : WF_vars(Step(t))
==============================================================================
