---------------------------- MODULE LockFreeList ----------------------------
(***************************************************************************)
(* LockFreeList (LockFreeList.h): a sorted list whose next pointers carry  *)
(* a mark.  remove marks the next pointer of a cell and then unlinks it;   *)
(* find unlinks the marked cells it meets.  Every operation runs inside an *)
(* EpochGuard.  One step is one access to a next pointer; a key never      *)
(* changes after the cell is linked.                                       *)
(***************************************************************************)
EXTENDS Epochs, FiniteSets

CONSTANTS
  Cells,        \* slots of the TaskAllocator the list can get
  Head0, Tail0, \* the two sentinels
  MaxKey,       \* keys are 1 .. MaxKey; the sentinels have 0 and MaxKey + 1
  First,        \* the cell with key 1 that the list holds at the start
  Scripts       \* scripts[t]: the calls thread t makes, in order

ASSUME ListAssumption == MaxKey \in Nat /\ First \in Cells /\ {Head0, Tail0} \cap Cells = {}

VARIABLES
  next,      \* LNodeBase::next of each cell: [val, mark]
  key,       \* LNodeBase::key
  allocated, \* cells the list owns
  pc,        \* where a thread is in its call
  script,    \* the calls it has still to make, the current one first
  pred, curr, succ,   \* its locals
  epoch,     \* the epoch it has read and not used yet
  seen,      \* the keys for_each has called func with; contains: {key} for true
  entry,     \* the keys in the list, and those removed, when the call began
  removed,   \* keys some remove has returned true for
  added      \* keys some add has returned true for

listVars == <<next, key, allocated, pc, script, pred, curr, succ, epoch, seen, entry,
              removed, added>>
vars == <<epochVars, listVars>>
locals == <<pred, curr, succ>>
history == <<seen, entry, removed, added>>

AllCells == Cells \cup {Head0, Tail0}
Ref(c, m) == [val |-> c, mark |-> m]

ListInit ==
  /\ EpochInit
  /\ next = [c \in AllCells |-> Ref(IF c = Head0 THEN First ELSE Tail0, FALSE)]
  /\ key = [c \in AllCells |-> IF c = Head0 THEN 0 ELSE IF c = First THEN 1 ELSE MaxKey + 1]
  /\ allocated = {Head0, First, Tail0}
  /\ pc = [t \in Threads |-> "idle"] /\ script \in Scripts
  /\ pred = [t \in Threads |-> Head0] /\ curr = pred /\ succ = pred
  /\ epoch = [t \in Threads |-> 0] /\ seen = [t \in Threads |-> {}]
  /\ entry = [t \in Threads |-> [there |-> {}, gone |-> {}]]
  /\ removed = {} /\ added = {1}

At(t, p) == pc' = [pc EXCEPT ![t] = p]
Op(t)    == Head(script[t]).op
Key(t)   == Head(script[t]).key
InCall(t) == script[t] # << >>

\* LMarkablePointer::compareAndSet(curr, new, false, false) on pred->next
CanSet(t) == next[pred[t]] = Ref(curr[t], FALSE)

\* The cells linked from the head, and the set of keys they stand for.
Nth[n \in 0 .. Cardinality(AllCells)] ==
  IF n = 0 THEN Head0 ELSE IF Nth[n - 1] = Tail0 THEN Tail0 ELSE next[Nth[n - 1]].val
Linked == {Nth[n] : n \in 0 .. Cardinality(AllCells)}
Keys == {key[c] : c \in {d \in Linked \ {Head0, Tail0} : ~next[d].mark}}
-----------------------------------------------------------------------------
(* The guard around every operation.                                       *)

ReadEpoch(t) ==
  /\ pc[t] = "idle" /\ InCall(t) /\ tick[t] = "no"
  /\ epoch' = [epoch EXCEPT ![t] = globalEpoch] /\ At(t, "enter")
  /\ UNCHANGED <<epochVars, next, key, allocated, script, locals, history>>

EnterGuard(t) ==
  /\ pc[t] = "enter" /\ Enter(t, epoch[t])
  /\ At(t, IF Op(t) \in {"add", "remove"} THEN "find" ELSE "walk")
  /\ curr' = [curr EXCEPT ![t] = Head0] /\ seen' = [seen EXCEPT ![t] = {}]
  /\ entry' = [entry EXCEPT ![t] = [there |-> Keys, gone |-> removed]]
  /\ UNCHANGED <<globalEpoch, incoming, pending, tick, toScan, minEpoch, next, key,
                 allocated, script, pred, succ, epoch, removed, added>>

\* Every return: the guard's destructor; the locals are gone.
Return(t) ==
  /\ pc[t] = "return" /\ Leave(t) /\ At(t, "idle")
  /\ script' = [script EXCEPT ![t] = Tail(@)]
  /\ pred' = [pred EXCEPT ![t] = Head0] /\ curr' = [curr EXCEPT ![t] = Head0]
  /\ succ' = [succ EXCEPT ![t] = Head0] /\ epoch' = [epoch EXCEPT ![t] = 0]
  /\ UNCHANGED <<globalEpoch, incoming, pending, tick, toScan, minEpoch, next, key,
                 allocated, history>>
-----------------------------------------------------------------------------
(* Window::find                                                            *)

FindStart(t) ==
  /\ pc[t] = "find"
  /\ pred' = [pred EXCEPT ![t] = Head0]
  /\ curr' = [curr EXCEPT ![t] = next[Head0].val] /\ At(t, "window")
  /\ UNCHANGED <<epochVars, next, key, allocated, script, succ, epoch, history>>

FindStep(t) ==
  /\ pc[t] = "window"
  /\ succ' = [succ EXCEPT ![t] = next[curr[t]].val]
  /\ \/ next[curr[t]].mark /\ At(t, "snip") /\ UNCHANGED <<pred, curr>>
     \/ /\ ~next[curr[t]].mark /\ key[curr[t]] >= Key(t)
        /\ At(t, "found") /\ UNCHANGED <<pred, curr>>
     \/ /\ ~next[curr[t]].mark /\ key[curr[t]] < Key(t)
        /\ pred' = [pred EXCEPT ![t] = curr[t]]
        /\ curr' = [curr EXCEPT ![t] = next[curr[t]].val] /\ UNCHANGED pc
  /\ UNCHANGED <<epochVars, next, key, allocated, script, epoch, history>>

\* Mutant: a failed CAS is tried again with the same window.
SnipAgain(t) ==
  /\ pc[t] = "snip"
  /\ \/ /\ CanSet(t) /\ next' = [next EXCEPT ![pred[t]] = Ref(succ[t], FALSE)]
        /\ curr' = [curr EXCEPT ![t] = succ[t]] /\ At(t, "window")
     \/ ~CanSet(t) /\ UNCHANGED <<pc, next, curr>>
  /\ UNCHANGED <<epochVars, key, allocated, script, pred, succ, epoch, history>>

\* A marked cell is unlinked; a failed CAS starts again from the head.
Snip(t) ==
  /\ pc[t] = "snip"
  /\ \/ /\ CanSet(t) /\ next' = [next EXCEPT ![pred[t]] = Ref(succ[t], FALSE)]
        /\ curr' = [curr EXCEPT ![t] = succ[t]] /\ At(t, "window")
     \/ ~CanSet(t) /\ At(t, "find") /\ UNCHANGED <<next, curr>>
  /\ UNCHANGED <<epochVars, key, allocated, script, pred, succ, epoch, history>>
-----------------------------------------------------------------------------
(* add                                                                     *)

AddRefused(t) ==
  /\ pc[t] = "found" /\ Op(t) = "add" /\ key[curr[t]] = Key(t) /\ At(t, "return")
  /\ UNCHANGED <<epochVars, next, key, allocated, script, locals, epoch, history>>

\* A fresh cell (succ holds it) in front of curr; nobody else sees it yet.
\* A cell that was freed is handed out again before an unused one.
AddAlloc(t) ==
  /\ pc[t] = "found" /\ Op(t) = "add" /\ key[curr[t]] # Key(t)
  /\ Cells \ allocated # {}
  /\ LET c == CHOOSE d \in Cells \ allocated : TRUE IN
       /\ allocated' = allocated \cup {c}
       /\ key' = [key EXCEPT ![c] = Key(t)]
       /\ next' = [next EXCEPT ![c] = Ref(curr[t], FALSE)]
       /\ succ' = [succ EXCEPT ![t] = c]
  /\ At(t, "link")
  /\ UNCHANGED <<epochVars, script, pred, curr, epoch, history>>

\* Mutant: the cell is linked without looking whether the window still holds.
AddLinkBlind(t) ==
  /\ pc[t] = "link"
  /\ next' = [next EXCEPT ![pred[t]] = Ref(succ[t], FALSE)]
  /\ added' = added \cup {Key(t)} /\ At(t, "return")
  /\ UNCHANGED <<epochVars, key, allocated, script, locals, epoch, seen, entry, removed>>

\* A failed CAS tries again with another cell and keeps the first one.
AddLink(t) ==
  /\ pc[t] = "link"
  /\ \/ /\ CanSet(t) /\ next' = [next EXCEPT ![pred[t]] = Ref(succ[t], FALSE)]
        /\ added' = added \cup {Key(t)} /\ At(t, "return")
     \/ ~CanSet(t) /\ At(t, "find") /\ UNCHANGED <<next, added>>
  /\ UNCHANGED <<epochVars, key, allocated, script, locals, epoch, seen, entry, removed>>
-----------------------------------------------------------------------------
(* remove                                                                  *)

RemoveFinds(t) ==
  /\ pc[t] = "found" /\ Op(t) = "remove"
  /\ \/ key[curr[t]] # Key(t) /\ At(t, "return") /\ UNCHANGED succ
     \/ /\ key[curr[t]] = Key(t) /\ At(t, "mark")
        /\ succ' = [succ EXCEPT ![t] = next[curr[t]].val]
  /\ UNCHANGED <<epochVars, next, key, allocated, script, pred, curr, epoch, history>>

\* attemptMark(succ, true): it is content with a mark somebody else has set.
AttemptMark(t) ==
  /\ pc[t] = "mark"
  /\ \/ next[curr[t]].val # succ[t] /\ At(t, "find") /\ UNCHANGED <<next, removed>>
     \/ /\ next[curr[t]].val = succ[t] /\ At(t, "unlink")
        /\ next' = [next EXCEPT ![curr[t]].mark = TRUE]
        /\ removed' = removed \cup {Key(t)}
  /\ UNCHANGED <<epochVars, key, allocated, script, locals, epoch, seen, entry, added>>

\* The CAS that unlinks; its result is not looked at.
Unlink(t) ==
  /\ pc[t] = "unlink" /\ At(t, "stamp")
  /\ next' = IF CanSet(t) THEN [next EXCEPT ![pred[t]] = Ref(succ[t], FALSE)] ELSE next
  /\ UNCHANGED <<epochVars, key, allocated, script, locals, epoch, history>>

RemoveStamp(t) ==
  /\ pc[t] = "stamp" /\ epoch' = [epoch EXCEPT ![t] = globalEpoch] /\ At(t, "retire")
  /\ UNCHANGED <<epochVars, next, key, allocated, script, locals, history>>

\* Mutant: the epoch is the one the guard was entered with, less one.
RemoveRetireEarly(t) ==
  /\ pc[t] = "retire" /\ RetirePtr(curr[t], epoch[t] - 1) /\ At(t, "return")
  /\ UNCHANGED <<globalEpoch, localEpoch, pending, tick, toScan, minEpoch, next, key,
                 allocated, script, locals, epoch, history>>

RemoveRetire(t) ==
  /\ pc[t] = "retire" /\ RetirePtr(curr[t], epoch[t]) /\ At(t, "return")
  /\ UNCHANGED <<globalEpoch, localEpoch, pending, tick, toScan, minEpoch, next, key,
                 allocated, script, locals, epoch, history>>
-----------------------------------------------------------------------------
(* for_each and contains walk without changing anything.                   *)

\* Mutant: for_each stops at a marked cell.
ForEachStops(t) ==
  /\ pc[t] = "walk" /\ Op(t) = "for_each"
  /\ seen' = IF curr[t] = Head0 \/ next[curr[t]].mark THEN seen
               ELSE [seen EXCEPT ![t] = @ \cup {key[curr[t]]}]
  /\ At(t, IF next[curr[t]].mark THEN "return" ELSE "advance")
  /\ UNCHANGED <<epochVars, next, key, allocated, script, locals, epoch, entry, removed, added>>

\* for_each: the mark, and func for a cell without one ...
ForEachStep(t) ==
  /\ pc[t] = "walk" /\ Op(t) = "for_each" /\ At(t, "advance")
  /\ seen' = IF curr[t] = Head0 \/ next[curr[t]].mark THEN seen
               ELSE [seen EXCEPT ![t] = @ \cup {key[curr[t]]}]
  /\ UNCHANGED <<epochVars, next, key, allocated, script, locals, epoch, entry, removed, added>>

\* ... and then, read again, the successor.
ForEachAdvance(t) ==
  /\ pc[t] = "advance"
  /\ curr' = [curr EXCEPT ![t] = next[curr[t]].val]
  /\ At(t, IF next[curr[t]].val = Tail0 THEN "return" ELSE "walk")
  /\ UNCHANGED <<epochVars, next, key, allocated, script, pred, succ, epoch, history>>

\* contains: seen holds the key when the answer is true.
ContainsStep(t) ==
  /\ pc[t] = "walk" /\ Op(t) = "contains"
  /\ \/ /\ key[curr[t]] < Key(t)
        /\ curr' = [curr EXCEPT ![t] = next[curr[t]].val] /\ UNCHANGED <<pc, seen>>
     \/ /\ key[curr[t]] >= Key(t) /\ At(t, "return") /\ UNCHANGED curr
        /\ seen' = IF key[curr[t]] = Key(t) /\ ~next[curr[t]].mark
                     THEN [seen EXCEPT ![t] = {Key(t)}] ELSE seen
  /\ UNCHANGED <<epochVars, next, key, allocated, script, pred, succ, epoch, entry, removed,
                 added>>
-----------------------------------------------------------------------------
\* A worker calls Tick between two tasks; slabDeleter gives the cells back.
TickBetween(t) ==
  /\ pc[t] = "idle"
  /\ \/ TickStep(t) /\ UNCHANGED listVars
     \/ /\ Reclaim(t) /\ allocated' = allocated \ Reclaimable
        /\ UNCHANGED <<next, key, pc, script, locals, epoch, history>>

ListStep(t) ==
  \/ ReadEpoch(t) \/ EnterGuard(t) \/ Return(t)
  \/ FindStart(t) \/ FindStep(t) \/ Snip(t)
  \/ AddRefused(t) \/ AddAlloc(t) \/ AddLink(t)
  \/ RemoveFinds(t) \/ AttemptMark(t) \/ Unlink(t) \/ RemoveStamp(t) \/ RemoveRetire(t)
  \/ ForEachStep(t) \/ ForEachAdvance(t) \/ ContainsStep(t)

Next == \E t \in Threads : ListStep(t) \/ TickBetween(t)
Spec == ListInit /\ [][Next]_vars /\ \A t \in Threads : WF_vars(ListStep(t) \/ TickBetween(t))
-----------------------------------------------------------------------------
(* Properties.                                                             *)

\* The set the list stands for is exact: a key add has reported stays, whatever
\* the others do to its neighbours, until a remove marks it, and only then
\* goes.  (The scripts do not add a key again that they remove.)
SetIsExact == Keys = added \ removed

\* The cells a thread may still read inside its guard.
Held(t) ==
  IF pc[t] \in {"idle", "enter", "find", "return"} THEN {}
  ELSE {curr[t]} \cup (IF pc[t] \in {"window", "snip", "found", "link", "unlink"}
                         THEN {pred[t]} ELSE {})
                 \cup (IF pc[t] = "snip" THEN {succ[t]} ELSE {})
\* No cell is handed to its deleter while somebody inside a guard can still
\* read it: what the epochs are for.
GuardProtects == \A t \in Threads : Held(t) \subseteq allocated

\* A walk sees every key that is in the list from its start to its end, although
\* cells next to the walker come and go, and none that was removed before.
WalksAreHonest ==
  \A t \in Threads :
    pc[t] = "return" /\ Op(t) \in {"for_each", "contains"} =>
      LET stable == entry[t].there \ removed IN
        /\ (IF Op(t) = "contains" THEN stable \cap {Key(t)} ELSE stable) \subseteq seen[t]
        /\ seen[t] \subseteq added \ entry[t].gone

\* Every call returns: a thread retries only because another one has succeeded.
CallsReturn == <>(\A t \in Threads : script[t] = << >>)
=============================================================================
