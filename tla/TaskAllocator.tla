---------------------------- MODULE TaskAllocator ----------------------------
(***************************************************************************)
(* TaskAllocator: fixed slots on intrusive free lists.  Each thread has a  *)
(* cache it uses without a lock; an empty cache is refilled with up to     *)
(* BATCH slots of the shared list, one of more than 2 * BATCH slots gives  *)
(* the excess over BATCH back.  The thread-local steps around the two      *)
(* critical sections are part of them, except that the chain flush has     *)
(* peeled off is in nobody's list until it is spliced on.                  *)
(***************************************************************************)
EXTENDS Integers, FiniteSets, SequencesExt, FiniteSetsExt

CONSTANTS
  Slots,
  BATCH,
  Threads,
  None

ASSUME AllocatorAssumption == BATCH \in Nat \ {0} /\ IsFiniteSet(Slots) /\ None \notin Slots

VARIABLES
  shared,    \* the list at sharedHead
  cache,     \* the list of each thread's Cache; its length is Cache::count
  peeled,    \* what a thread's flush has taken off its cache
  liveCount

allocVars == <<shared, cache, peeled, liveCount>>

AllocInit ==
  /\ shared = SetToSeq(Slots) /\ cache = [t \in Threads |-> << >>]
  /\ peeled = [t \in Threads |-> << >>] /\ liveCount = 0

\* refill: detach the first BATCH slots, or all there are.
Refill(t) ==
  /\ cache[t] = << >> /\ shared # << >>
  /\ LET moved == Min({BATCH, Len(shared)}) IN
       /\ cache' = [cache EXCEPT ![t] = SubSeq(shared, 1, moved)]
       /\ shared' = SubSeq(shared, moved + 1, Len(shared))
  /\ UNCHANGED <<peeled, liveCount>>

\* Alloc returns the head of the cache ...
Alloc(t, slot) ==
  /\ cache[t] # << >> /\ slot = Head(cache[t])
  /\ cache' = [cache EXCEPT ![t] = Tail(@)] /\ liveCount' = liveCount + 1
  /\ UNCHANGED <<shared, peeled>>

\* ... or null, when the shared list has nothing for it either.
Exhausted(t) == cache[t] = << >> /\ shared = << >>

\* Mutant: flush leaves the last slot of its chain in the cache as well.
FreeKeepsOne(t, slot) ==
  LET c == <<slot>> \o cache[t]
      toMove == IF Len(c) > 2 * BATCH THEN Len(c) - BATCH ELSE 0 IN
  /\ cache' = [cache EXCEPT ![t] = SubSeq(c, IF toMove = 0 THEN 1 ELSE toMove, Len(c))]
  /\ peeled' = [peeled EXCEPT ![t] = SubSeq(c, 1, toMove)]
  /\ liveCount' = liveCount - 1 /\ UNCHANGED shared

\* Free, and the part of flush that needs no lock.
Free(t, slot) ==
  LET c == <<slot>> \o cache[t]
      toMove == IF Len(c) > 2 * BATCH THEN Len(c) - BATCH ELSE 0 IN
  /\ cache' = [cache EXCEPT ![t] = SubSeq(c, toMove + 1, Len(c))]
  /\ peeled' = [peeled EXCEPT ![t] = SubSeq(c, 1, toMove)]
  /\ liveCount' = liveCount - 1 /\ UNCHANGED shared

\* The critical section of flush.
Splice(t) ==
  /\ peeled[t] # << >> /\ shared' = peeled[t] \o shared
  /\ peeled' = [peeled EXCEPT ![t] = << >>] /\ UNCHANGED <<cache, liveCount>>
-----------------------------------------------------------------------------
\* Where the free lists name a slot: the list and the position in it.
Find(slot, s) == {j \in DOMAIN s : s[j] = slot}
FreePlaces(slot) ==
  {<<"shared", None, j>> : j \in Find(slot, shared)}
  \cup (UNION {{<<"cache", t, j>> : j \in Find(slot, cache[t])} : t \in Threads})
  \cup (UNION {{<<"peeled", t, j>> : j \in Find(slot, peeled[t])} : t \in Threads})
=============================================================================
