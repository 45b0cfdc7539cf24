------------------------------ MODULE TaskDeque ------------------------------
(***************************************************************************)
(* TaskDeque.h: the Chase-Lev work-stealing deque every worker owns two of *)
(* (hiPri and loPri).  One owner pushes and pops at the bottom, any number *)
(* of thieves steal at the top.  A step is one access to a shared atomic   *)
(* or to a buffer slot; the fences of the code make these accesses         *)
(* sequentially consistent where it matters (the seq_cst fence between the *)
(* bottom_ store and the top_ load of pop_bottom, and between the two      *)
(* loads of steal).                                                        *)
(*                                                                         *)
(* held is the set of tasks that belong to some caller.  The owner may     *)
(* push any of them: a task that was taken may come back (a yielding fiber *)
(* is pushed again by the worker that ran it).                             *)
(***************************************************************************)
EXTENDS Integers, Sequences

CONSTANTS
  Tasks,      \* the tasks, compared by identity (Task* in the code)
  Thieves,    \* workers and helpers that call steal() on this deque
  Capacity,   \* capacity_: a power of two, so  i & mask_  is  i % Capacity
  MaxBatch,   \* BATCH_SIZE of Thread::Worker, the longest batch pushed
  MaxIndex,   \* bound on bottom_, the number of pushes explored
  NoTask      \* an empty buffer slot (nullptr)

ASSUME CapacityAssumption == Capacity \in Nat \ {0}
ASSUME BoundsAssumption   == MaxBatch \in Nat \ {0} /\ MaxIndex \in Nat
ASSUME NoTaskAssumption   == NoTask \notin Tasks

VARIABLES
  top,      \* top_
  bottom,   \* bottom_
  buffer,   \* buffer_
  held,     \* tasks owned by callers
  opc,      \* the owner's program counter
  ob,       \* the owner's local b
  oend,     \* the value the owner will store into bottom_ to finish a pop
  oitems,   \* the owner's local items: the batch of the push under way
  tpc,      \* each thief's program counter
  tt,       \* each thief's local t
  titem     \* each thief's local item

vars == <<top, bottom, buffer, held, opc, ob, oend, oitems, tpc, tt, titem>>
ownerVars == <<opc, ob, oend, oitems>>
thiefVars == <<tpc, tt, titem>>

Slot(i) == i % Capacity      \* i & mask_

Init ==
  /\ top = 0 /\ bottom = 0
  /\ buffer = [s \in 0 .. Capacity - 1 |-> NoTask]
  /\ held = Tasks
  /\ opc = "idle" /\ ob = 0 /\ oend = 0 /\ oitems = << >>
  /\ tpc = [th \in Thieves |-> "idle"]
  /\ tt = [th \in Thieves |-> 0]
  /\ titem = [th \in Thieves |-> NoTask]
-----------------------------------------------------------------------------
(* push_bottom (a batch of one) and push_bottom_batch.                     *)

\* A batch is a sequence of different tasks that the owner holds.
Batches(S) ==
  {s \in UNION {[1 .. n -> S] : n \in 1 .. MaxBatch} :
     \A i, j \in DOMAIN s : i # j => s[i] # s[j]}

\* Read bottom_ and top_.  When the batch does not fit the call returns false
\* and changes nothing, so only the other case is a step.
PushBegin(items) ==
  /\ opc = "idle"
  /\ bottom + Len(items) <= MaxIndex
  /\ (bottom + Len(items)) - top <= Capacity
  /\ opc' = "push" /\ ob' = bottom /\ oitems' = items
  /\ UNCHANGED <<top, bottom, buffer, held, oend, thiefVars>>

\* buffer_[(b + i) & mask_] = items[i], one slot at a time; ob is b + i.
PushWrite ==
  /\ opc = "push" /\ ob < bottom + Len(oitems)
  /\ buffer' = [buffer EXCEPT ![Slot(ob)] = oitems[ob - bottom + 1]]
  /\ ob' = ob + 1
  /\ UNCHANGED <<top, bottom, held, opc, oend, oitems, thiefVars>>

\* bottom_.store(b + count): the batch becomes visible to thieves at once.
PushPublish ==
  /\ opc = "push" /\ ob = bottom + Len(oitems)
  /\ bottom' = ob
  /\ held' = held \ {oitems[i] : i \in DOMAIN oitems}
  /\ opc' = "idle" /\ oitems' = << >>
  /\ UNCHANGED <<top, buffer, ob, oend, thiefVars>>
-----------------------------------------------------------------------------
(* pop_bottom.                                                             *)

\* First look at the two indices; t >= b means empty and nothing happens.
PopBegin ==
  /\ opc = "idle"
  /\ top < bottom
  /\ opc' = "reserve" /\ ob' = bottom - 1
  /\ UNCHANGED <<top, bottom, buffer, held, oend, oitems, thiefVars>>

\* bottom_.store(b), announcing the pop to thieves.
PopReserve ==
  /\ opc = "reserve"
  /\ bottom' = ob
  /\ opc' = "load"
  /\ UNCHANGED <<top, buffer, held, ob, oend, oitems, thiefVars>>

\* Mutant: the last task is taken without the CAS on top_.
PopTakeWithoutCas ==
  /\ opc = "load" /\ top <= ob
  /\ held' = held \cup {buffer[Slot(ob)]}
  /\ opc' = "idle"
  /\ UNCHANGED <<top, bottom, buffer, ob, oend, oitems, thiefVars>>

\* The second load of top_ decides.  More than one task left: the bottom one
\* is the owner's without further synchronisation.
PopTake ==
  /\ opc = "load" /\ top < ob
  /\ held' = held \cup {buffer[Slot(ob)]}
  /\ opc' = "idle"
  /\ UNCHANGED <<top, bottom, buffer, ob, oend, oitems, thiefVars>>

\* Exactly one left: the owner must race the thieves for it.
PopContend ==
  /\ opc = "load" /\ top = ob
  /\ opc' = "cas"
  /\ UNCHANGED <<top, bottom, buffer, held, ob, oend, oitems, thiefVars>>

\* None left: restore bottom_ to the t just loaded.
PopEmpty ==
  /\ opc = "load" /\ top > ob
  /\ opc' = "restore" /\ oend' = top
  /\ UNCHANGED <<top, bottom, buffer, held, ob, oitems, thiefVars>>

\* compare_exchange_strong(t, t + 1) on top_, t = b.
PopCasWin ==
  /\ opc = "cas" /\ top = ob
  /\ top' = ob + 1
  /\ held' = held \cup {buffer[Slot(ob)]}
  /\ opc' = "restore" /\ oend' = ob + 1
  /\ UNCHANGED <<bottom, buffer, ob, oitems, thiefVars>>

PopCasLose ==
  /\ opc = "cas" /\ top # ob
  /\ opc' = "restore" /\ oend' = ob + 1
  /\ UNCHANGED <<top, bottom, buffer, held, ob, oitems, thiefVars>>

PopRestore ==
  /\ opc = "restore"
  /\ bottom' = oend
  /\ opc' = "idle"
  /\ UNCHANGED <<top, buffer, held, ob, oend, oitems, thiefVars>>

Owner ==
  \/ \E items \in Batches(held) : PushBegin(items)
  \/ PushWrite \/ PushPublish
  \/ PopBegin \/ PopReserve \/ PopTake \/ PopContend \/ PopEmpty
  \/ PopCasWin \/ PopCasLose \/ PopRestore
-----------------------------------------------------------------------------
(* steal.                                                                  *)

StealLoadTop(th) ==
  /\ tpc[th] = "idle"
  /\ tpc' = [tpc EXCEPT ![th] = "bottom"]
  /\ tt' = [tt EXCEPT ![th] = top]
  /\ UNCHANGED <<top, bottom, buffer, held, titem, ownerVars>>

\* t < b is tested against a fresh bottom_; otherwise steal returns nullopt.
StealLoadBottom(th) ==
  /\ tpc[th] = "bottom"
  /\ tpc' = [tpc EXCEPT ![th] = IF tt[th] < bottom THEN "read" ELSE "idle"]
  /\ UNCHANGED <<top, bottom, buffer, held, tt, titem, ownerVars>>

\* The slot is read before the CAS: by then it may have been reused.
StealRead(th) ==
  /\ tpc[th] = "read"
  /\ tpc' = [tpc EXCEPT ![th] = "cas"]
  /\ titem' = [titem EXCEPT ![th] = buffer[Slot(tt[th])]]
  /\ UNCHANGED <<top, bottom, buffer, held, tt, ownerVars>>

StealCasWin(th) ==
  /\ tpc[th] = "cas" /\ top = tt[th]
  /\ top' = top + 1
  /\ held' = held \cup {titem[th]}
  /\ tpc' = [tpc EXCEPT ![th] = "idle"]
  /\ UNCHANGED <<bottom, buffer, tt, titem, ownerVars>>

StealCasLose(th) ==
  /\ tpc[th] = "cas" /\ top # tt[th]
  /\ tpc' = [tpc EXCEPT ![th] = "idle"]
  /\ UNCHANGED <<top, bottom, buffer, held, tt, titem, ownerVars>>

Thief(th) ==
  \/ StealLoadTop(th) \/ StealLoadBottom(th) \/ StealRead(th)
  \/ StealCasWin(th) \/ StealCasLose(th)

Next == Owner \/ \E th \in Thieves : Thief(th)

Spec == Init /\ [][Next]_vars
-----------------------------------------------------------------------------
(* Properties.                                                             *)

\* One past the last index that still belongs to the deque.  While a pop has
\* lowered bottom_ but not yet decided, index bottom_ is still in play.
Avail == IF opc \in {"load", "cas", "restore"} THEN bottom + 1 ELSE bottom

\* The tasks the deque still has to hand out.
Live == {buffer[Slot(i)] : i \in top .. Avail - 1}

TypeOK ==
  /\ top \in Nat /\ bottom \in Nat /\ ob \in Nat /\ oend \in Nat
  /\ buffer \in [0 .. Capacity - 1 -> Tasks \cup {NoTask}]
  /\ held \subseteq Tasks
  /\ opc \in {"idle", "push", "reserve", "load", "cas", "restore"}
  /\ oitems \in Seq(Tasks)
  /\ tpc \in [Thieves -> {"idle", "bottom", "read", "cas"}]
  /\ tt \in [Thieves -> Nat]
  /\ titem \in [Thieves -> Tasks \cup {NoTask}]

\* No task is handed out twice: what the deque still offers is disjoint from
\* what callers hold, and no task sits in two live slots.  (The double claim
\* that TaskDeque.h:16-22 names as the reason there is no batched steal.)
NoDoubleClaim ==
  /\ Live \cap held = {}
  /\ \A i, j \in top .. Avail - 1 : buffer[Slot(i)] = buffer[Slot(j)] => i = j

\* No task is dropped: each is held or still in a live slot, whatever mix of
\* pops, steals and wrap-arounds has happened.
NothingLost == Tasks \subseteq Live \cup held

\* The index arithmetic is safe: b - t never wraps below zero (size_t) and
\* never exceeds the capacity, so a push never overwrites a live slot.
IndicesOrdered == top <= Avail /\ Avail - top <= Capacity

\* What a push under way has done so far: the batch fits above the live slots,
\* still belongs to the caller, and its first ob - bottom_ tasks are written.
PushInv ==
  opc = "push" =>
    /\ bottom <= ob /\ ob <= bottom + Len(oitems)
    /\ bottom + Len(oitems) <= top + Capacity
    /\ \A i \in 1 .. Len(oitems) : oitems[i] \in held
    /\ \A i, j \in 1 .. Len(oitems) : oitems[i] = oitems[j] => i = j
    /\ \A i \in bottom .. ob - 1 : buffer[Slot(i)] = oitems[i - bottom + 1]

\* What a pop under way knows about the indices.
PopInv ==
  /\ opc = "reserve" => bottom = ob + 1
  /\ opc \in {"load", "cas", "restore"} => ob = bottom
  /\ opc = "cas" => top >= ob
  /\ opc = "restore" => oend = bottom + 1 /\ top = bottom + 1

\* A thief whose t is still the top has read the task that its CAS will claim,
\* however the ring was reused since; a stale t can no longer win.
ThiefInv ==
  \A th \in Thieves :
    /\ tt[th] <= top
    /\ tpc[th] \in {"read", "cas"} /\ tt[th] = top => top < Avail
    /\ tpc[th] = "cas" /\ tt[th] = top => titem[th] = buffer[Slot(top)]

\* The inductive strengthening of the safety invariants.
DequeInv ==
  /\ TypeOK
  /\ IndicesOrdered /\ PushInv /\ PopInv /\ ThiefInv
  /\ Live \subseteq Tasks
  /\ NoDoubleClaim /\ NothingLost

\* The deque implements the task bag: each push publishes its batch in one
\* step and each successful pop or steal takes exactly one task out.
Bag == INSTANCE TaskBag WITH bag <- Live
RefinesTaskBag == Bag!Spec
=============================================================================
