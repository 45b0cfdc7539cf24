------------------------------ MODULE FiberPool ------------------------------
(***************************************************************************)
(* GlobalFiberPool, ThreadLocalCache and FiberStackArena: where the fibers *)
(* that run no task are.  Each worker has a LIFO cache; an empty cache is  *)
(* refilled from the global queue, a full one spills its top half into it. *)
(* A fiber may be parked by one worker and finish, and so be released, on  *)
(* another one.  The heavy and the standard fibers share one queue.        *)
(*                                                                         *)
(* The global queue (moodycamel::ConcurrentQueue, external) is a bag:      *)
(* any fiber may come out, one enqueue or try_dequeue is one step, and     *)
(* size_approx is exact.                                                   *)
(***************************************************************************)
EXTENDS Integers, FiniteSets, SequencesExt, FiniteSetsExt

CONSTANTS
  StandardPerCore, HeavyPerCore,  \* 64 and 8: fibers made per core
  StackUnit,    \* size of a standard stack (64 K); a heavy one is 8 times it
  MinCapacity,  \* 16: least idealCapacity
  MaxCapacity,  \* 256: the array of a cache
  NoFiber

PerCore == StandardPerCore + HeavyPerCore
ASSUME PoolAssumption ==
  /\ StandardPerCore \in Nat /\ HeavyPerCore \in Nat /\ PerCore > 0
  /\ StackUnit \in Nat \ {0} /\ MinCapacity \in Nat /\ MaxCapacity \in Nat /\ MaxCapacity >= 2
  /\ NoFiber \notin Nat

VARIABLES
  stackBase,    \* of each fiber: [arena, from, size]; its domain is the fibers
  available,    \* GlobalFiberPool::availableFibers: copies of each fiber in it
  localFibers,  \* ThreadLocalCache of each worker, the first `count` entries
  activeCapacity,
  stolen,       \* StealBatch: what a refill has got so far
  returned,     \* ReturnBatch: how many of the spilled half are enqueued
  fat,          \* where a worker is: idle, pop, pop2, failed, run, spill
  fiberOf,      \* the fiber it runs or releases
  parked        \* fibers of suspended tasks

poolVars == <<stackBase, available, localFibers, activeCapacity, stolen, returned, fat,
              fiberOf, parked>>

Fibers == DOMAIN stackBase
Cached == DOMAIN localFibers     \* the workers
Goto(w, p) == fat' = [fat EXCEPT ![w] = p]
Half(w) == activeCapacity[w] \div 2
-----------------------------------------------------------------------------
(* Construction.                                                           *)

\* FiberStackArena::AllocateStack bumps an offset; the lowest page of a stack
\* is made inaccessible.
Stack(arena, i, size) == [arena |-> arena, from |-> i * size, size |-> size]

\* GlobalFiberPool(standardCount, heavyCount)
Create(standardCount, heavyCount) ==
  /\ stackBase' = [f \in 1 .. standardCount + heavyCount |->
       IF f <= standardCount THEN Stack("standard", f - 1, StackUnit)
       ELSE Stack("heavy", f - standardCount - 1, 8 * StackUnit)]
  /\ available' = [f \in DOMAIN stackBase' |-> 1]

\* ThreadLocalCache::Initialize
Capacity(runtimeCapacity) == Max({2, Min({runtimeCapacity, MaxCapacity})})
-----------------------------------------------------------------------------
(* Thread::AcquireFiber                                                    *)

InQueue == {f \in Fibers : available[f] > 0}

\* localCache.Pop of a cache that is not empty
PopCached(w) ==
  /\ fat[w] = "pop" /\ localFibers[w] # << >>
  /\ fiberOf' = [fiberOf EXCEPT ![w] = Last(localFibers[w])]
  /\ localFibers' = [localFibers EXCEPT ![w] = Front(@)] /\ Goto(w, "run")
  /\ UNCHANGED <<stackBase, available, activeCapacity, stolen, returned, parked>>

\* Mutant: a refill is not bounded by the capacity of the cache.
StealOneUnbounded(w) ==
  /\ fat[w] \in {"pop", "pop2"} /\ localFibers[w] = << >> /\ InQueue # {}
  /\ available' = [available EXCEPT ![Min(InQueue)] = @ - 1]
  /\ stolen' = [stolen EXCEPT ![w] = Append(@, Min(InQueue))]
  /\ UNCHANGED <<stackBase, localFibers, activeCapacity, returned, fat, fiberOf, parked>>

\* Otherwise StealInto takes fibers until it has activeCapacity of them ...
\* (Any fiber of the queue may come out; they differ in their stacks only, so
\* one of them stands for all.)
StealOne(w) ==
  /\ fat[w] \in {"pop", "pop2"} /\ localFibers[w] = << >>
  /\ Len(stolen[w]) < activeCapacity[w]
  /\ InQueue # {}
  /\ available' = [available EXCEPT ![Min(InQueue)] = @ - 1]
  /\ stolen' = [stolen EXCEPT ![w] = Append(@, Min(InQueue))]
  /\ UNCHANGED <<stackBase, localFibers, activeCapacity, returned, fat, fiberOf, parked>>

\* ... or sees the queue empty.  With nothing, AcquireFiber pops once more and
\* then returns null.
StealEnds(w) ==
  /\ fat[w] \in {"pop", "pop2"} /\ localFibers[w] = << >>
  /\ Len(stolen[w]) = activeCapacity[w] \/ InQueue = {}
  /\ stolen' = [stolen EXCEPT ![w] = << >>]
  /\ \/ /\ stolen[w] # << >> /\ Goto(w, "run")
        /\ fiberOf' = [fiberOf EXCEPT ![w] = Last(stolen[w])]
        /\ localFibers' = [localFibers EXCEPT ![w] = Front(stolen[w])]
     \/ /\ stolen[w] = << >> /\ Goto(w, IF fat[w] = "pop" THEN "pop2" ELSE "failed")
        /\ UNCHANGED <<fiberOf, localFibers>>
  /\ UNCHANGED <<stackBase, available, activeCapacity, returned, parked>>

\* Without a fiber the worker yields and tries the task again.  The copy of the
\* task that it leaves behind is WorkerLoop's NoFiber.
AcquireRetry(w) ==
  /\ fat[w] = "failed" /\ Goto(w, "pop")
  /\ UNCHANGED <<stackBase, available, localFibers, activeCapacity, stolen, returned, fiberOf,
                 parked>>
-----------------------------------------------------------------------------
(* The task suspends, goes on elsewhere, and ends: Thread::ReleaseFiber.   *)

ParkFiber(w) ==
  /\ fat[w] = "run" /\ parked' = parked \cup {fiberOf[w]}
  /\ fiberOf' = [fiberOf EXCEPT ![w] = NoFiber] /\ Goto(w, "idle")
  /\ UNCHANGED <<stackBase, available, localFibers, activeCapacity, stolen, returned>>

ResumeFiber(w, f) ==
  /\ fat[w] = "idle" /\ f \in parked /\ parked' = parked \ {f}
  /\ fiberOf' = [fiberOf EXCEPT ![w] = f] /\ Goto(w, "run")
  /\ UNCHANGED <<stackBase, available, localFibers, activeCapacity, stolen, returned>>

\* ThreadLocalCache::Push: into the cache, or first spill half of it.
ReleaseFiber(w) ==
  /\ fat[w] = "run"
  /\ \/ /\ Len(localFibers[w]) < activeCapacity[w] /\ Goto(w, "idle")
        /\ localFibers' = [localFibers EXCEPT ![w] = Append(@, fiberOf[w])]
        /\ fiberOf' = [fiberOf EXCEPT ![w] = NoFiber]
     \/ /\ Len(localFibers[w]) >= activeCapacity[w] /\ Goto(w, "spill")
        /\ UNCHANGED <<localFibers, fiberOf>>
  /\ UNCHANGED <<stackBase, available, activeCapacity, stolen, returned, parked>>

\* The i-th fiber of the top half, in the order ReturnBatch enqueues them.
Spilled(w, i) == localFibers[w][Len(localFibers[w]) - Half(w) + i]

ReturnOne(w) ==
  /\ fat[w] = "spill" /\ returned[w] < Half(w)
  /\ returned' = [returned EXCEPT ![w] = @ + 1]
  /\ available' = [available EXCEPT ![Spilled(w, returned[w] + 1)] = @ + 1]
  /\ UNCHANGED <<stackBase, localFibers, activeCapacity, stolen, fat, fiberOf, parked>>

\* Mutant: the bottom half is kept out of the cache instead of the top half.
SpillDoneWrongHalf(w) ==
  /\ fat[w] = "spill" /\ returned[w] = Half(w) /\ Goto(w, "idle")
  /\ localFibers' = [localFibers EXCEPT ![w] =
       Append(SubSeq(@, Half(w) + 1, Len(@)), fiberOf[w])]
  /\ fiberOf' = [fiberOf EXCEPT ![w] = NoFiber] /\ returned' = [returned EXCEPT ![w] = 0]
  /\ UNCHANGED <<stackBase, available, activeCapacity, stolen, parked>>

SpillDone(w) ==
  /\ fat[w] = "spill" /\ returned[w] = Half(w) /\ Goto(w, "idle")
  /\ localFibers' = [localFibers EXCEPT ![w] =
       Append(SubSeq(@, 1, Len(@) - Half(w)), fiberOf[w])]
  /\ fiberOf' = [fiberOf EXCEPT ![w] = NoFiber] /\ returned' = [returned EXCEPT ![w] = 0]
  /\ UNCHANGED <<stackBase, available, activeCapacity, stolen, parked>>

\* Everything but the start of a task, which takes a worker from idle to pop.
FiberStep(w) ==
  \/ PopCached(w) \/ StealOne(w) \/ StealEnds(w) \/ AcquireRetry(w)
  \/ ParkFiber(w) \/ (\E f \in parked : ResumeFiber(w, f))
  \/ ReleaseFiber(w) \/ ReturnOne(w) \/ SpillDone(w)
-----------------------------------------------------------------------------
(* Properties.                                                             *)

\* Where a fiber is: copies in the queue, and places in the caches, the refills
\* and the hands of the workers.  An entry ReturnBatch has already enqueued is
\* no longer the cache's, although it is still in its array.
InCache(w) ==
  {i \in DOMAIN localFibers[w] :
     ~\E j \in 1 .. returned[w] : i = Len(localFibers[w]) - Half(w) + j}
Owners(f) ==
  {<<"queue", 0, i>> : i \in 1 .. available[f]}
  \cup {<<"parked", 0, 0>> : g \in {f} \cap parked}
  \cup {<<"run", w, 0>> : w \in {v \in Cached : fiberOf[v] = f}}
  \cup (UNION {{<<"cache", w, i>> : i \in {j \in InCache(w) : localFibers[w][j] = f}} : w \in Cached})
  \cup (UNION {{<<"stolen", w, i>> : i \in {j \in DOMAIN stolen[w] : stolen[w][j] = f}} : w \in Cached})

Disjoint(s, r) == s.arena # r.arena \/ s.from + s.size <= r.from \/ r.from + r.size <= s.from

\* A fiber has exactly one owner: two workers that got the same one would run
\* on one stack, one without an owner is lost.  No two fibers share a part of a
\* stack, and no cache is overrun.
FiberOwnedOnce ==
  /\ \A f \in Fibers : Cardinality(Owners(f)) = 1
  /\ \A f, g \in Fibers : f # g => Disjoint(stackBase[f], stackBase[g])
  /\ \A w \in Cached : Len(localFibers[w]) <= activeCapacity[w]

\* AcquireFiber gives up only when the tasks of the others hold all the fibers
\* that their caches have no room for: a worker never hoards what another needs.
FibersInUse == parked \cup {fiberOf[w] : w \in {v \in Cached : fiberOf[v] # NoFiber}}
CacheRoom(workers) == UNION {{v} \X (1 .. activeCapacity[v]) : v \in workers}
AcquireFailsWhenBusy ==
  [][\A w \in Cached : fat[w] # "failed" /\ fat'[w] = "failed" =>
       Cardinality(FibersInUse) + Cardinality(CacheRoom(Cached \ {w})) >= Cardinality(Fibers)
    ]_poolVars
==============================================================================
