------------------------------ MODULE StartPool ------------------------------
(***************************************************************************)
(* TaskScheduler::Init and StartPool: size the pool, prepare the epoch     *)
(* slots, query the topology, make the fibers and start the workers, which *)
(* number themselves while the main thread waits for them; after that the  *)
(* client's tasks take and return fibers (FiberPool).                      *)
(*                                                                         *)
(* Worker q is pinned to logical CPU q + 1, the main thread is CPU 0.      *)
(***************************************************************************)
EXTENDS FiberPool

CONSTANTS
  Machines,   \* what the operating system reports: [cpus, cores, caches, load]; cores
              \* and caches are sequences of sets of CPUs, or NoInfo if the query failed;
              \* load bounds the tasks that hold a fiber
  PoolSizes,  \* the sizes a client asks for
  NoInfo

\* A CPU belongs to one core; its caches may share CPUs.
ASSUME MachinesAssumption ==
  /\ PoolSizes \subseteq Nat
  /\ \A m \in Machines :
       /\ m.cpus \in Nat \ {0} /\ m.load \in Nat
       /\ m.cores = NoInfo \/ m.cores \in Seq(SUBSET Nat)
       /\ m.caches = NoInfo \/ m.caches \in Seq(SUBSET Nat)
       /\ m.cores # NoInfo =>
            \A i, j \in DOMAIN m.cores : i # j => m.cores[i] \cap m.cores[j] = {}

VARIABLES
  machine,
  mpc,            \* where the main thread is in StartPool
  num_workers,
  threadEpochs,   \* number of epoch slots for bare threads
  siblingQIndex, clusterMates,
  wpc,            \* of each worker: "none", "created", "released", "numbered", "ready"
  thread_counter, thread_id   \* ids of the workers and of Main

startVars == <<machine, mpc, num_workers, threadEpochs, siblingQIndex, clusterMates, wpc,
               thread_counter, thread_id>>
systemVars == <<poolVars, startVars>>

Main == -1
Empty == << >>
StartInit ==
  /\ machine \in Machines /\ mpc = "init" /\ num_workers \in PoolSizes
  /\ threadEpochs = 0 /\ siblingQIndex = Empty /\ clusterMates = Empty
  /\ wpc = Empty /\ thread_counter = 0 /\ thread_id = Empty
  /\ stackBase = Empty /\ available = Empty /\ localFibers = Empty /\ activeCapacity = Empty
  /\ stolen = Empty /\ returned = Empty /\ fat = Empty /\ fiberOf = Empty /\ parked = {}
-----------------------------------------------------------------------------
(* BuildTopology                                                           *)

\* qIndexOf: the pool workers among the CPUs of a mask (n workers).
QsInGroup(n, mask) == {cpu - 1 : cpu \in mask} \cap (0 .. n - 1)

\* siblingQIndex: exactly two pool workers on one core
Siblings(n, cores) ==
  [q \in 0 .. n - 1 |->
     LET pairs == {g \in {QsInGroup(n, cores[i]) : i \in DOMAIN cores} :
                     q \in g /\ Cardinality(g) = 2}
     IN  IF pairs = {} THEN -1 ELSE CHOOSE r \in UNION pairs : r # q]

\* Mutant: the first group of a worker is kept.
MatesAfterFirst(n, sibling, mates, mask) ==
  LET g == QsInGroup(n, mask) IN
  [q \in 0 .. n - 1 |->
     IF q \in g /\ Cardinality(g) > 1 /\ mates[q] = {}
       THEN g \ {q, sibling[q]} ELSE mates[q]]

\* The effect of one cache mask on clusterMates.
MatesAfter(n, sibling, mates, mask) ==
  LET g == QsInGroup(n, mask) IN
  [q \in 0 .. n - 1 |->
     IF q \in g /\ Cardinality(g) > 1 /\ Cardinality(g) > Cardinality(mates[q]) + 1
       THEN g \ {q, sibling[q]} ELSE mates[q]]

Mates(n, sibling, caches) ==
  IF caches = NoInfo THEN [q \in 0 .. n - 1 |-> (0 .. n - 1) \ {q, sibling[q]}]
  ELSE LET after[i \in 0 .. Len(caches)] ==
             IF i = 0 THEN [q \in 0 .. n - 1 |-> {}]
             ELSE MatesAfter(n, sibling, after[i - 1], caches[i])
       IN  after[Len(caches)]

BuildTopology(n) ==
  /\ siblingQIndex' = Siblings(n, IF machine.cores = NoInfo THEN << >> ELSE machine.cores)
  /\ clusterMates' = Mates(n, siblingQIndex', machine.caches)
-----------------------------------------------------------------------------
(* StartPool, on the main thread.                                          *)

GetSafeTC == IF machine.cpus <= 1 THEN 1 ELSE machine.cpus - 1

\* Mutant: one epoch slot for each worker and none for the main thread.
PrepareWorkersOnly ==
  /\ mpc = "init" /\ mpc' = "pool"
  /\ num_workers' = IF num_workers = 0 \/ num_workers > GetSafeTC THEN GetSafeTC ELSE num_workers
  /\ threadEpochs' = num_workers' /\ BuildTopology(num_workers')
  /\ UNCHANGED <<poolVars, machine, wpc, thread_counter, thread_id>>

\* The size, EpochManager::Init and the topology; no other thread runs yet.
Prepare ==
  /\ mpc = "init" /\ mpc' = "pool"
  /\ num_workers' = IF num_workers = 0 \/ num_workers > GetSafeTC THEN GetSafeTC ELSE num_workers
  /\ threadEpochs' = num_workers' + 1 /\ BuildTopology(num_workers')
  /\ UNCHANGED <<poolVars, machine, wpc, thread_counter, thread_id>>

\* GlobalFiberPool::Create and the workers' queues
CreatePool ==
  LET n == machine.cpus - 1
      coreCount == IF n = 0 THEN 4 ELSE n IN
  /\ mpc = "pool" /\ mpc' = "spawn"
  /\ Create(coreCount * StandardPerCore, coreCount * HeavyPerCore)
  /\ UNCHANGED <<localFibers, activeCapacity, stolen, returned, fat, fiberOf, parked, machine,
                 num_workers, threadEpochs, siblingQIndex, clusterMates, wpc, thread_counter,
                 thread_id>>

NewWorker == Cardinality(DOMAIN wpc)
Extend(f, x, v) == [y \in DOMAIN f \cup {x} |-> IF y = x THEN v ELSE f[y]]

\* workers.push_back and std::thread of StartWorker(i + 1) ...
SpawnWorker ==
  /\ mpc = "spawn" /\ NewWorker < num_workers /\ mpc' = "release"
  /\ wpc' = Extend(wpc, NewWorker, "created")
  /\ UNCHANGED <<poolVars, machine, num_workers, threadEpochs, siblingQIndex, clusterMates,
                 thread_counter, thread_id>>

\* ... whose lambda waits until the thread is pinned to its CPU.
ReleaseWorker ==
  /\ mpc = "release" /\ mpc' = "spawn"
  /\ wpc' = [wpc EXCEPT ![NewWorker - 1] = "released"]
  /\ UNCHANGED <<poolVars, machine, num_workers, threadEpochs, siblingQIndex, clusterMates,
                 thread_counter, thread_id>>

\* Mutant: the main thread numbers itself without waiting for the workers.
MainNumberedEarly ==
  /\ mpc = "spawn" /\ NewWorker = num_workers
  /\ mpc' = "active" /\ thread_id' = Extend(thread_id, Main, thread_counter)
  /\ thread_counter' = thread_counter + 1
  /\ UNCHANGED <<poolVars, machine, num_workers, threadEpochs, siblingQIndex, clusterMates, wpc>>

\* Every worker is ready: the main thread takes the next id, the pool is active.
MainNumbered ==
  /\ mpc = "spawn" /\ NewWorker = num_workers /\ \A w \in DOMAIN wpc : wpc[w] = "ready"
  /\ mpc' = "active" /\ thread_id' = Extend(thread_id, Main, thread_counter)
  /\ thread_counter' = thread_counter + 1
  /\ UNCHANGED <<poolVars, machine, num_workers, threadEpochs, siblingQIndex, clusterMates, wpc>>

StartStep == Prepare \/ CreatePool \/ SpawnWorker \/ ReleaseWorker \/ MainNumbered
-----------------------------------------------------------------------------
(* The worker's thread.                                                    *)

NumberWorker(w) ==
  /\ wpc[w] = "released" /\ wpc' = [wpc EXCEPT ![w] = "numbered"]
  /\ thread_id' = Extend(thread_id, w, thread_counter)
  /\ thread_counter' = thread_counter + 1
  /\ UNCHANGED <<poolVars, machine, mpc, num_workers, threadEpochs, siblingQIndex, clusterMates>>

\* idealCapacity; localCache.Initialize; the first iteration of Worker
EnterLoop(w) ==
  /\ wpc[w] = "numbered" /\ wpc' = [wpc EXCEPT ![w] = "ready"]
  /\ activeCapacity' = Extend(activeCapacity, w, Capacity(Max({PerCore \div 2, MinCapacity})))
  /\ localFibers' = Extend(localFibers, w, << >>) /\ stolen' = Extend(stolen, w, << >>)
  /\ returned' = Extend(returned, w, 0) /\ fat' = Extend(fat, w, "idle")
  /\ fiberOf' = Extend(fiberOf, w, NoFiber)
  /\ UNCHANGED <<stackBase, available, parked, machine, mpc, num_workers, threadEpochs,
                 siblingQIndex, clusterMates, thread_counter, thread_id>>

\* A task of the client that has no fiber yet.
NewTask(w) ==
  /\ mpc = "active" /\ fat[w] = "idle" /\ Cardinality(FibersInUse) < machine.load
  /\ Goto(w, "pop")
  /\ UNCHANGED <<stackBase, available, localFibers, activeCapacity, stolen, returned, fiberOf,
                 parked, startVars>>

StartNext ==
  \/ StartStep
  \/ \E w \in DOMAIN wpc : NumberWorker(w) \/ EnterLoop(w)
  \/ \E w \in Cached : NewTask(w) \/ (FiberStep(w) /\ UNCHANGED startVars)

StartSpec == StartInit /\ [][StartNext]_systemVars
-----------------------------------------------------------------------------
(* Properties.                                                             *)

\* Once the pool is active the workers have the ids 0 .. n - 1 in some order
\* and the main thread has n; every id, also before, has its epoch slot.
ThreadIdsValid ==
  /\ \A x \in DOMAIN thread_id : thread_id[x] < threadEpochs
  /\ \A x, y \in DOMAIN thread_id : x # y => thread_id[x] # thread_id[y]
  /\ mpc = "active" => thread_id[Main] = num_workers

\* Whom a worker may steal from: its cluster, its sibling, and the random
\* choice, which skips the worker itself (res = rand % (n - 1); res++).
Victims(w) ==
  clusterMates[w] \cup ({siblingQIndex[w]} \ {-1})
  \cup {IF r = w THEN r + 1 ELSE r : r \in 0 .. num_workers - 2}

\* A worker's sibling is the one other worker of its core and the relation is
\* symmetric; its mates are the rest of a largest cache group; it is no victim
\* of its own, and every worker is a victim of somebody (its deque can drain
\* while it runs a task that never ends).
Groups(q, seq) == {g \in {QsInGroup(num_workers, seq[i]) : i \in DOMAIN seq} : q \in g}
TopologySound ==
  mpc \notin {"init"} =>
    \A q \in 0 .. num_workers - 1 :
      LET s == siblingQIndex[q] IN
      /\ s # -1 => s # q /\ siblingQIndex[s] = q /\ {q, s} \in Groups(q, machine.cores)
      /\ s = -1 /\ machine.cores # NoInfo =>
           \A g \in Groups(q, machine.cores) : Cardinality(g) # 2
      /\ machine.caches # NoInfo /\ clusterMates[q] # {} =>
           \E g \in Groups(q, machine.caches) :
             /\ clusterMates[q] = g \ {q, s}
             /\ \A h \in Groups(q, machine.caches) : Cardinality(h) <= Cardinality(g)
      /\ num_workers > 1 =>
           /\ q \notin Victims(q) /\ Victims(q) \subseteq 0 .. num_workers - 1
           /\ \E w \in 0 .. num_workers - 1 : q \in Victims(w)
==============================================================================
