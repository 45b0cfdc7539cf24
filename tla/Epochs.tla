------------------------------- MODULE Epochs -------------------------------
(***************************************************************************)
(* EpochManager and EpochGuard (Epochs.h): memory that concurrent readers  *)
(* may still hold is retired with the epoch of its removal and freed once  *)
(* every reader that was inside a guard then has left it.  The clients     *)
(* (LockFreeList, TaskDAG) decide who reads and who retires what.          *)
(***************************************************************************)
EXTENDS Integers, Sequences, SequencesExt

CONSTANTS
  Threads,         \* the contexts that own an epoch slot: fibers and threads
  Participants,    \* the same as a sequence: the order of the scan
  NoEpoch,         \* SIZE_MAX: not inside a guard
  MaxEpoch,        \* bound on globalEpoch
  ReclaimAbove     \* retired pointers before a Tick (512 in the code)

ASSUME EpochBounds ==
  /\ MaxEpoch \in Nat /\ ReclaimAbove \in Nat /\ NoEpoch > MaxEpoch
  /\ Range(Participants) = Threads

VARIABLES
  globalEpoch,
  localEpoch,   \* the epoch slot of each thread
  incoming,     \* RetirePtr's queue of [ptr, epoch]
  pending,      \* what the reclaimer took from it and could not free yet
  tick,         \* where a thread is in Tick
  toScan,       \* MinActiveEpoch: the slots not looked at yet
  minEpoch      \* MinActiveEpoch: the minimum so far

epochVars == <<globalEpoch, localEpoch, incoming, pending, tick, toScan, minEpoch>>

EpochInit ==
  /\ globalEpoch = 0 /\ localEpoch = [t \in Threads |-> NoEpoch]
  /\ incoming = << >> /\ pending = << >>
  /\ tick = [t \in Threads |-> "no"] /\ toScan = << >> /\ minEpoch = 0

reclaiming == \E t \in Threads : tick[t] \in {"drain", "load", "scan", "free"}
TickAt(t, p) == tick' = [tick EXCEPT ![t] = p]
-----------------------------------------------------------------------------
\* EpochGuard: the constructor stores an epoch it has read before.
Enter(t, epoch) == localEpoch' = [localEpoch EXCEPT ![t] = epoch]
Leave(t) == localEpoch' = [localEpoch EXCEPT ![t] = NoEpoch]

RetirePtr(p, epoch) == incoming' = Append(incoming, [ptr |-> p, epoch |-> epoch])
-----------------------------------------------------------------------------
(* Tick = AdvanceEpoch; TryReclaim.                                         *)

\* retiredCount > 512, then AdvanceEpoch
TickAdvance(t) ==
  /\ tick[t] = "no" /\ Len(incoming) + Len(pending) > ReclaimAbove
  /\ globalEpoch < MaxEpoch
  /\ globalEpoch' = globalEpoch + 1 /\ TickAt(t, "cas")
  /\ UNCHANGED <<localEpoch, incoming, pending, toScan, minEpoch>>

\* One reclaimer at a time, the others return.
TryReclaim(t) ==
  /\ tick[t] = "cas" /\ TickAt(t, IF reclaiming THEN "no" ELSE "drain")
  /\ UNCHANGED <<globalEpoch, localEpoch, incoming, pending, toScan, minEpoch>>

Drain(t) ==
  /\ tick[t] = "drain" /\ TickAt(t, "load")
  /\ pending' = pending \o incoming /\ incoming' = << >>
  /\ UNCHANGED <<globalEpoch, localEpoch, toScan, minEpoch>>

\* MinActiveEpoch starts from the global epoch ...
LoadGlobal(t) ==
  /\ tick[t] = "load" /\ TickAt(t, "scan")
  /\ minEpoch' = globalEpoch /\ toScan' = Participants
  /\ UNCHANGED <<globalEpoch, localEpoch, incoming, pending>>

\* ... and reads the slots one after the other.
MinActiveEpoch(t) ==
  /\ tick[t] = "scan" /\ toScan # << >>
  /\ minEpoch' = IF localEpoch[Head(toScan)] < minEpoch
                   THEN localEpoch[Head(toScan)] ELSE minEpoch
  /\ toScan' = Tail(toScan)
  /\ TickAt(t, IF Len(toScan) = 1 THEN "free" ELSE "scan")
  /\ UNCHANGED <<globalEpoch, localEpoch, incoming, pending>>

Safe(r) == r.epoch < minEpoch

\* The pointers Reclaim hands to their deleters.
Reclaimable == {r.ptr : r \in {q \in Range(pending) : Safe(q)}}

\* The survivors among the first i, which Reclaim moves to the front.
Kept[i \in 0 .. Len(pending)] ==
  IF i = 0 THEN << >>
  ELSE IF Safe(pending[i]) THEN Kept[i - 1] ELSE Append(Kept[i - 1], pending[i])

Reclaim(t) ==
  /\ tick[t] = "free" /\ TickAt(t, "no") /\ pending' = Kept[Len(pending)]
  /\ UNCHANGED <<globalEpoch, localEpoch, incoming, toScan, minEpoch>>

\* All of Tick that frees nothing.
TickStep(t) ==
  TickAdvance(t) \/ TryReclaim(t) \/ Drain(t) \/ LoadGlobal(t) \/ MinActiveEpoch(t)

RetiredPtrs == {r.ptr : r \in Range(incoming \o pending)}
=============================================================================
