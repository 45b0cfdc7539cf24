-------------------------- MODULE NamedEventProofs --------------------------
(***************************************************************************)
(* Direct and named events for any number of fibers, events, names and     *)
(* signalling threads.  The invariant follows the wake-up of a waiting     *)
(* fiber: it is in one place, the waiter field of the event, the set of    *)
(* waiters of the name, the to_wake of one SignalAll, or one Resume call.  *)
(***************************************************************************)
EXTENDS NamedEvent, FiberProofs

EventFpc == {"run", "acquire", "acquired", "parkable", "published", "armed"}
EventTypeOK ==
  /\ waiter \in [Events -> Fibers \cup {None}]
  /\ fpc \in [Fibers -> EventFpc]
  /\ fev \in [Fibers -> Events \cup {None}]
  /\ armed \subseteq [wait : [fiber : Fibers, event : Events, number : Int], copy : 1 .. Copies]
  /\ uses \in [Fibers -> Int]
  /\ plan \in Plans
  /\ waiters \in [Names -> SUBSET Fibers]
  /\ wname \in [Fibers -> Names \cup {None}]
  /\ armedAll \subseteq [fiber : Fibers, name : Names, number : Int]
  /\ toWake \in [Resumers -> SUBSET Fibers]

Bare == "bare" \in plan.calls

\* What a fiber waits on: an event of its own, or a name, from the start of
\* the wait to its end.
OpenWaits ==
  \A f \in Fibers :
    /\ fev[f] = None \/ wname[f] = None
    /\ fpc[f] \in {"run", "acquire"} <=> fev[f] = None /\ wname[f] = None
    /\ Bare => fpc[f] = "run"

\* Where the fiber is in a wait and what its status is.
EventStatus ==
  \A f \in Fibers :
    /\ fpc[f] \in {"acquire", "acquired"} => status[f] = "RUNNING"
    /\ fpc[f] = "parkable" => status[f] = "WANTS_SUSPEND"
    /\ fpc[f] = "published" => status[f] \in {"WANTS_SUSPEND", "SUSPEND_SIGNALED"}
    /\ fpc[f] = "armed" => status[f] \notin {"DEAD", "WANTS_YIELD"} /\ f \notin pool
    /\ fpc[f] = "run" /\ ~Bare =>
         status[f] \notin {"WANTS_SUSPEND", "SUSPEND_SIGNALED", "SUSPENDED"}
StillHere ==
  \A w \in Workers : wpc[w] \in {"back", "push"} => fpc[wfib[w]] \in {"run", "armed"}

Sleeps(f) == fpc[f] \in {"published", "armed"} /\ status[f] \in {"WANTS_SUSPEND", "SUSPENDED"}
Resuming(r, f) == rpc[r] \in {"load", "cas_suspended", "cas_wants"} /\ rfib[r] = f

OneWakeUp ==
  /\ \A e \in Events, f \in Fibers : waiter[e] = f => fev[f] = e /\ Sleeps(f)
  /\ \A n \in Names : \A f \in waiters[n] : wname[f] = n /\ Sleeps(f)
  /\ \A r \in Resumers : \A f \in toWake[r] :
       /\ Sleeps(f) /\ wname[f] # None /\ \A n \in Names : f \notin waiters[n]
       /\ \A q \in Resumers : f \in toWake[q] => q = r
  /\ ~Bare => \A r \in Resumers : \A f \in Fibers : Resuming(r, f) =>
       /\ Sleeps(f)
       /\ \A e \in Events : waiter[e] # f
       /\ \A n \in Names : f \notin waiters[n]
       /\ \A q \in Resumers : f \notin toWake[q] /\ (Resuming(q, f) => q = r)

NamedInv == FiberInv /\ EventTypeOK /\ OpenWaits /\ EventStatus /\ StillHere /\ OneWakeUp

\* An event belongs to one wait at a time, and the one signal that was armed
\* for the wait is the one that ends it.
OwnSignal ==
  /\ \A f \in Fibers : fev[f] # None =>
       fev[f] \notin freeq /\ \A g \in Fibers : fev[g] = fev[f] => g = f
  /\ \A f \in Fibers : fpc[f] = "published" /\ fev[f] # None => waiter[fev[f]] = f
  /\ \A s \in armed :
       /\ waiter[s.wait.event] = s.wait.fiber /\ s.wait = Wait(s.wait.fiber)
       /\ fpc[s.wait.fiber] = "armed"
  /\ \A f \in Fibers : fpc[f] = "armed" /\ fev[f] # None =>
       waiter[fev[f]] = f \/ Wait(f) \in fired
-----------------------------------------------------------------------------
USE NamesAssumption, BareApart, NoneAssumption
USE DEF fiberVars, workerVars, resumeVars, waitVars, vars, namedVars, SetStatus, WorkerAt,
        ResumerAt, FiberAt, EventFpc

(* A step is a step of the fiber life cycle, or none.                       *)

LEMMA NamedStepIsFiberStep ==
  ASSUME FiberInv, EventTypeOK, [NamedNext]_allVars
  PROVE  [FiberNext]_fiberVars
<1>1. ASSUME NEW w \in Workers, DirectCode(w) PROVE [FiberNext]_fiberVars
  <2>1. CASE CallWait(w) \/ (\E e \in Events : Acquire(w, e)) \/ Publish(w) \/ Arm(w) \/ Release(w)
    BY <2>1 DEF CallWait, Acquire, Publish, Arm, Release
  <2>2. CASE BecomeParkable(w) \/ Leave(w) \/ TaskDone(w) \/ Yield(w)
    BY <2>2 DEF BecomeParkable, Leave, TaskDone, Yield, FiberNext
  <2> QED BY <1>1, <2>1, <2>2 DEF DirectCode, FiberCode
<1>2. ASSUME NEW w \in Workers, NamedCode(w) PROVE [FiberNext]_fiberVars
  <2>1. CASE (\E n \in Names : CallNamed(w, n)) \/ AddWaiter(w) \/ ArmNamed(w) \/ NamedReturn(w)
    BY <2>1 DEF CallNamed, AddWaiter, ArmNamed, NamedReturn
  <2>2. CASE BecomeParkable(w) \/ Leave(w)
    BY <2>2 DEF BecomeParkable, Leave, FiberNext
  <2> QED BY <1>2, <2>1, <2>2 DEF NamedCode
<1>3. ASSUME NEW w \in Workers, WorkerStep(w) \/ BareSuspend(w) PROVE [FiberNext]_fiberVars
  BY <1>3 DEF BareSuspend, FiberNext
<1>4. ASSUME NEW w \in Workers, NEW f \in Fibers, NewTask(w, f) PROVE [FiberNext]_fiberVars
  BY <1>4 DEF NewTask, FiberNext
<1>5. ASSUME NEW r \in Resumers, ResumerCode(r) PROVE [FiberNext]_fiberVars
  <2>1. CASE Resume(r)
    BY <2>1 DEF FiberNext
  <2>2. CASE WakeNext(r)
    <3>1. PICK f \in toWake[r] : ResumeCall(r, f)
      BY <2>2 DEF WakeNext
    <3>2. f \in Fibers
      BY <3>1 DEF EventTypeOK
    <3> QED BY <2>2, <3>1, <3>2 DEF WakeNext, FiberNext
  <2>3. ASSUME NEW s \in armed, Signal(r, s) PROVE [FiberNext]_fiberVars
    <3>1. s.wait.event \in Events
      BY DEF EventTypeOK
    <3>2. waiter[s.wait.event] \in Fibers \cup {None}
      BY <3>1 DEF EventTypeOK
    <3> QED BY <2>3, <3>2 DEF Signal, FiberNext
  <2>4. ASSUME NEW s \in armedAll, SignalAll(r, s) PROVE [FiberNext]_fiberVars
    BY <2>4 DEF SignalAll
  <2> QED BY <1>5, <2>1, <2>2, <2>3, <2>4 DEF ResumerCode
<1>6. ASSUME NEW r \in Resumers, NEW f \in Fibers, BareResume(r, f) PROVE [FiberNext]_fiberVars
  BY <1>6 DEF BareResume, FiberNext
<1>7. ASSUME NEW r \in Resumers, NEW f \in Fibers, NEW n \in Names, SignalOne(r, f, n)
      PROVE  [FiberNext]_fiberVars
  BY <1>7 DEF SignalOne, FiberNext
<1>8. CASE UNCHANGED allVars
  BY <1>8 DEF allVars
<1> QED BY <1>1, <1>2, <1>3, <1>4, <1>5, <1>6, <1>7, <1>8 DEF NamedNext, WorkerCode
-----------------------------------------------------------------------------
(* The invariant, action by action.  FiberInv' is in the hypotheses:       *)
(* FiberStep and the lemma above give it.  First what a step has to leave  *)
(* alone.                                                                  *)

LEMMA TypeKept ==
  ASSUME EventTypeOK, OpenWaits, UNCHANGED <<waitVars, namedVars>>
  PROVE  EventTypeOK' /\ OpenWaits'
BY DEF EventTypeOK, OpenWaits, Bare

LEMMA WakeUpKept ==
  ASSUME EventTypeOK, OneWakeUp, UNCHANGED <<waiters, toWake, plan>>,
         \A e \in Events : waiter'[e] \in {waiter[e], None},
         \A f \in Fibers : Sleeps(f) => Sleeps(f)' /\ fev'[f] = fev[f] /\ wname'[f] = wname[f],
         ~Bare => \A r \in Resumers, f \in Fibers : Resuming(r, f)' => Resuming(r, f)
  PROVE  OneWakeUp'
<1>1. Bare' <=> Bare
  BY DEF Bare
<1>2. /\ \A n \in Names : waiters[n] \subseteq Fibers
      /\ \A r \in Resumers : toWake[r] \subseteq Fibers
  BY DEF EventTypeOK
<1>3. \A e \in Events, f \in Fibers : waiter'[e] = f => fev'[f] = e /\ Sleeps(f)' /\ waiter[e] = f
  BY DEF OneWakeUp
<1> QED BY <1>1, <1>2, <1>3 DEF OneWakeUp

\* A fiber that a worker runs is with that worker only.
LEMMA OneWorker ==
  ASSUME FiberInv, NEW w \in Workers, wpc[w] # "loop"
  PROVE  wfib[w] \in Fibers /\ \A v \in Workers : wpc[v] # "loop" /\ wfib[v] = wfib[w] => v = w
BY DEF FiberInv, WorkerStatus, AtMostOnePlace, WithWorker

\* A Resume call has done what it was for: g is awake.
LEMMA WakeUpUsed ==
  ASSUME EventTypeOK, OneWakeUp, ~Bare, UNCHANGED <<waiter, waiters, toWake, plan, fev, wname>>,
         NEW r \in Resumers, NEW g \in Fibers, Resuming(r, g),
         \A f \in Fibers \ {g} : Sleeps(f) => Sleeps(f)',
         \A q \in Resumers, f \in Fibers : Resuming(q, f)' => Resuming(q, f) /\ f # g
  PROVE  OneWakeUp'
<1>1. ~Bare'
  BY DEF Bare
<1>2. /\ \A n \in Names : waiters[n] \subseteq Fibers
      /\ \A q \in Resumers : toWake[q] \subseteq Fibers
  BY DEF EventTypeOK
<1>3. /\ \A e \in Events : waiter[e] # g
      /\ \A n \in Names : g \notin waiters[n]
      /\ \A q \in Resumers : g \notin toWake[q]
  BY DEF OneWakeUp
<1>4. \A e \in Events, f \in Fibers : waiter'[e] = f => fev'[f] = e /\ Sleeps(f)' /\ waiter[e] = f
  BY <1>3 DEF OneWakeUp
<1> QED BY <1>1, <1>2, <1>3, <1>4 DEF OneWakeUp

\* A signal takes g out of the place where its wake-up was and resumes it.
LEMMA WakeUpMoved ==
  ASSUME EventTypeOK, OneWakeUp, UNCHANGED <<fpc, status, fev, wname, plan>>,
         NEW r \in Resumers, NEW g \in Fibers, Sleeps(g),
         ~Bare => \A q \in Resumers : ~Resuming(q, g),
         \A e \in Events : waiter'[e] \in {waiter[e], None} /\ waiter'[e] # g,
         \A n \in Names : waiters'[n] \subseteq waiters[n] /\ g \notin waiters'[n],
         \A q \in Resumers : toWake'[q] \subseteq toWake[q] /\ g \notin toWake'[q],
         \A q \in Resumers, f \in Fibers : Resuming(q, f)' => Resuming(q, f) \/ (q = r /\ f = g)
  PROVE  OneWakeUp'
<1>1. Bare' <=> Bare
  BY DEF Bare
<1>2. /\ \A n \in Names : waiters[n] \subseteq Fibers
      /\ \A q \in Resumers : toWake[q] \subseteq Fibers
  BY DEF EventTypeOK
<1>3. \A f : Sleeps(f)' <=> Sleeps(f)
  BY DEF Sleeps
<1>4. \A e \in Events, f \in Fibers : waiter'[e] = f => fev'[f] = e /\ Sleeps(f)' /\ waiter[e] = f
  BY <1>3 DEF OneWakeUp
<1>5. \A n \in Names : \A f \in waiters'[n] : wname'[f] = n /\ Sleeps(f)'
  BY <1>2, <1>3 DEF OneWakeUp
<1>6. \A q \in Resumers : \A f \in toWake'[q] :
        /\ Sleeps(f)' /\ wname'[f] # None /\ \A n \in Names : f \notin waiters'[n]
        /\ \A p \in Resumers : f \in toWake'[p] => p = q
  BY <1>2, <1>3 DEF OneWakeUp
<1>7. ASSUME ~Bare, NEW q \in Resumers, NEW f \in Fibers, Resuming(q, f)'
      PROVE  /\ Sleeps(f)'
             /\ \A e \in Events : waiter'[e] # f
             /\ \A n \in Names : f \notin waiters'[n]
             /\ \A p \in Resumers : f \notin toWake'[p] /\ (Resuming(p, f)' => p = q)
  <2>1. CASE f = g
    BY <1>3, <1>7, <2>1
  <2>2. CASE f # g
    <3>1. Resuming(q, f)
      BY <1>7, <2>2
    <3>2. \A e \in Events : waiter[e] # f
      BY <1>7, <3>1 DEF OneWakeUp
    <3> QED BY <1>3, <1>7, <2>2, <3>1, <3>2 DEF OneWakeUp
  <2> QED BY <2>1, <2>2
<1> QED BY <1>1, <1>4, <1>5, <1>6, <1>7 DEF OneWakeUp

\* Nothing sleeps on an event beside bare suspensions.
LEMMA BareAwake == ASSUME OpenWaits, Bare, NEW f \in Fibers PROVE ~Sleeps(f)
BY DEF OpenWaits, Sleeps

LEMMA NamedSwitchIn ==
  ASSUME NamedInv, FiberInv', NEW w \in Workers, NEW f \in Fibers, SwitchIn(w, f), UNCHANGED <<waitVars, namedVars>>
  PROVE  NamedInv'
<1> USE DEF NamedInv, SwitchIn, FiberInv, FiberTypeOK
<1>1. EventTypeOK' /\ OpenWaits'
  BY TypeKept
<1>2. EventStatus'
  BY DEF EventStatus, RestingStatus, Bare
<1>3. StillHere'
  BY DEF StillHere
<1>4. OneWakeUp'
  <2>1. \A f1 \in Fibers : Sleeps(f1) =>
          Sleeps(f1)' /\ fev'[f1] = fev[f1] /\ wname'[f1] = wname[f1]
    BY DEF Sleeps, RestingStatus
  <2>2. ~Bare => \A q \in Resumers, f1 \in Fibers : Resuming(q, f1)' => Resuming(q, f1)
    BY DEF Resuming
  <2> QED BY <2>1, <2>2, WakeUpKept
<1> QED BY <1>1, <1>2, <1>3, <1>4

LEMMA NamedTaskDone ==
  ASSUME NamedInv, FiberInv', NEW w \in Workers, wname[wfib[w]] = None, TaskDone(w), UNCHANGED namedVars
  PROVE  NamedInv'
<1> USE DEF NamedInv, TaskDone, Finish, Ask, FiberInv, FiberTypeOK
<1>1. EventTypeOK' /\ OpenWaits'
  BY TypeKept
<1>2. EventStatus'
  BY DEF EventStatus, Bare
<1>3. StillHere'
  BY DEF StillHere
<1>4. OneWakeUp'
  <2>1. \A f1 \in Fibers : Sleeps(f1) =>
          Sleeps(f1)' /\ fev'[f1] = fev[f1] /\ wname'[f1] = wname[f1]
    BY DEF Sleeps
  <2>2. ~Bare => \A q \in Resumers, f1 \in Fibers : Resuming(q, f1)' => Resuming(q, f1)
    BY DEF Resuming
  <2> QED BY <2>1, <2>2, WakeUpKept
<1> QED BY <1>1, <1>2, <1>3, <1>4

LEMMA NamedLeave ==
  ASSUME NamedInv, FiberInv', NEW w \in Workers, Leave(w), UNCHANGED namedVars
  PROVE  NamedInv'
<1> USE DEF NamedInv, Leave, SwitchOut, FiberInv, FiberTypeOK
<1>1. EventTypeOK' /\ OpenWaits'
  BY TypeKept
<1>2. EventStatus'
  BY DEF EventStatus, Bare
<1>3. StillHere'
  BY DEF StillHere
<1>4. OneWakeUp'
  <2>1. \A f1 \in Fibers : Sleeps(f1) =>
          Sleeps(f1)' /\ fev'[f1] = fev[f1] /\ wname'[f1] = wname[f1]
    BY DEF Sleeps
  <2>2. ~Bare => \A q \in Resumers, f1 \in Fibers : Resuming(q, f1)' => Resuming(q, f1)
    BY DEF Resuming
  <2> QED BY <2>1, <2>2, WakeUpKept
<1> QED BY <1>1, <1>2, <1>3, <1>4

LEMMA NamedRetire ==
  ASSUME NamedInv, FiberInv', NEW w \in Workers, Retire(w), UNCHANGED <<waitVars, namedVars>>
  PROVE  NamedInv'
<1> USE DEF NamedInv, Retire, FiberInv, FiberTypeOK
<1>1. EventTypeOK' /\ OpenWaits'
  BY TypeKept
<1>2. EventStatus'
  BY DEF EventStatus, Bare
<1>3. StillHere'
  BY DEF StillHere
<1>4. OneWakeUp'
  <2>1. \A f1 \in Fibers : Sleeps(f1) =>
          Sleeps(f1)' /\ fev'[f1] = fev[f1] /\ wname'[f1] = wname[f1]
    BY DEF Sleeps
  <2>2. ~Bare => \A q \in Resumers, f1 \in Fibers : Resuming(q, f1)' => Resuming(q, f1)
    BY DEF Resuming
  <2> QED BY <2>1, <2>2, WakeUpKept
<1> QED BY <1>1, <1>2, <1>3, <1>4

LEMMA NamedMakeReady ==
  ASSUME NamedInv, FiberInv', NEW w \in Workers, MakeReady(w), UNCHANGED <<waitVars, namedVars>>
  PROVE  NamedInv'
<1> USE DEF NamedInv, MakeReady, FiberInv, FiberTypeOK
<1>1. EventTypeOK' /\ OpenWaits'
  BY TypeKept
<1>2. EventStatus'
  BY DEF EventStatus, StillHere, Bare
<1>3. StillHere'
  BY DEF StillHere
<1>4. OneWakeUp'
  <2>1. \A f1 \in Fibers : Sleeps(f1) =>
          Sleeps(f1)' /\ fev'[f1] = fev[f1] /\ wname'[f1] = wname[f1]
    BY DEF Sleeps
  <2>2. ~Bare => \A q \in Resumers, f1 \in Fibers : Resuming(q, f1)' => Resuming(q, f1)
    BY DEF Resuming
  <2> QED BY <2>1, <2>2, WakeUpKept
<1> QED BY <1>1, <1>2, <1>3, <1>4

LEMMA NamedPushBack ==
  ASSUME NamedInv, FiberInv', NEW w \in Workers, PushBack(w), UNCHANGED <<waitVars, namedVars>>
  PROVE  NamedInv'
<1> USE DEF NamedInv, PushBack, FiberInv, FiberTypeOK
<1>1. EventTypeOK' /\ OpenWaits'
  BY TypeKept
<1>2. EventStatus'
  BY DEF EventStatus, Bare
<1>3. StillHere'
  BY DEF StillHere
<1>4. OneWakeUp'
  <2>1. \A f1 \in Fibers : Sleeps(f1) =>
          Sleeps(f1)' /\ fev'[f1] = fev[f1] /\ wname'[f1] = wname[f1]
    BY DEF Sleeps
  <2>2. ~Bare => \A q \in Resumers, f1 \in Fibers : Resuming(q, f1)' => Resuming(q, f1)
    BY DEF Resuming
  <2> QED BY <2>1, <2>2, WakeUpKept
<1> QED BY <1>1, <1>2, <1>3, <1>4

LEMMA NamedPark ==
  ASSUME NamedInv, FiberInv', NEW w \in Workers, Park(w), UNCHANGED <<waitVars, namedVars>>
  PROVE  NamedInv'
<1> USE DEF NamedInv, Park, FiberInv, FiberTypeOK
<1>1. EventTypeOK' /\ OpenWaits'
  BY TypeKept
<1>2. EventStatus'
  BY DEF EventStatus, StillHere, Bare
<1>3. StillHere'
  BY DEF StillHere
<1>4. OneWakeUp'
  <2>1. \A f1 \in Fibers : Sleeps(f1) =>
          Sleeps(f1)' /\ fev'[f1] = fev[f1] /\ wname'[f1] = wname[f1]
    BY DEF Sleeps
  <2>2. ~Bare => \A q \in Resumers, f1 \in Fibers : Resuming(q, f1)' => Resuming(q, f1)
    BY DEF Resuming
  <2> QED BY <2>1, <2>2, WakeUpKept
<1> QED BY <1>1, <1>2, <1>3, <1>4

LEMMA NamedBareSuspend ==
  ASSUME NamedInv, FiberInv', NEW w \in Workers, BareSuspend(w)
  PROVE  NamedInv'
<1> USE DEF NamedInv, BareSuspend, AskSuspend, Ask, FiberInv, FiberTypeOK
<1>1. EventTypeOK' /\ OpenWaits'
  BY TypeKept
<1>2. EventStatus'
  BY DEF EventStatus, Bare
<1>3. StillHere'
  BY DEF StillHere
<1>4. OneWakeUp'
  <2>1. \A f1 \in Fibers : Sleeps(f1) =>
          Sleeps(f1)' /\ fev'[f1] = fev[f1] /\ wname'[f1] = wname[f1]
    BY DEF Sleeps
  <2>2. ~Bare => \A q \in Resumers, f1 \in Fibers : Resuming(q, f1)' => Resuming(q, f1)
    BY DEF Resuming
  <2> QED BY <2>1, <2>2, WakeUpKept
<1> QED BY <1>1, <1>2, <1>3, <1>4

LEMMA NamedResumeLoad ==
  ASSUME NamedInv, FiberInv', NEW r \in Resumers, ResumeLoad(r), UNCHANGED <<waitVars, namedVars>>
  PROVE  NamedInv'
<1> USE DEF NamedInv, ResumeLoad, FiberInv, FiberTypeOK
<1>0. rpc[r] # "idle" /\ rfib[r] \in Fibers
  BY DEF RestingStatus
<1>a. ~Bare /\ rpc[r] \in {"load", "cas_suspended", "cas_wants"} =>
        Sleeps(rfib[r]) /\ Resuming(r, rfib[r])
  BY <1>0 DEF OneWakeUp, Resuming
<1>1. EventTypeOK' /\ OpenWaits'
  BY TypeKept
<1>2. EventStatus'
  BY <1>0, <1>a DEF EventStatus, Bare
<1>3. StillHere'
  BY DEF StillHere
<1>4. OneWakeUp'
  <2>1. \A f1 \in Fibers : Sleeps(f1) =>
          Sleeps(f1)' /\ fev'[f1] = fev[f1] /\ wname'[f1] = wname[f1]
    BY DEF Sleeps
  <2>2. ~Bare => \A q \in Resumers, f1 \in Fibers : Resuming(q, f1)' => Resuming(q, f1)
    BY DEF Resuming
  <2> QED BY <2>1, <2>2, WakeUpKept
<1> QED BY <1>1, <1>2, <1>3, <1>4

LEMMA NamedResumeCasSuspended ==
  ASSUME NamedInv, FiberInv', NEW r \in Resumers, ResumeCasSuspended(r), UNCHANGED <<waitVars, namedVars>>
  PROVE  NamedInv'
<1> USE DEF NamedInv, ResumeCasSuspended, FiberInv, FiberTypeOK
<1>0. rpc[r] # "idle" /\ rfib[r] \in Fibers
  BY DEF RestingStatus
<1>a. ~Bare /\ rpc[r] \in {"load", "cas_suspended", "cas_wants"} =>
        Sleeps(rfib[r]) /\ Resuming(r, rfib[r])
  BY <1>0 DEF OneWakeUp, Resuming
<1>1. EventTypeOK' /\ OpenWaits'
  BY TypeKept
<1>2. EventStatus'
  BY <1>0, <1>a DEF EventStatus, Bare
<1>3. StillHere'
  BY DEF StillHere
<1>4. OneWakeUp'
  <2>1. CASE ~Bare /\ status[rfib[r]] = "SUSPENDED"
    <3>1. PICK g \in Fibers : g = rfib[r]
      BY <1>0
    <3>2. status' = [status EXCEPT ![g] = "READY"] /\ rpc' = [rpc EXCEPT ![r] = "requeue"]
          /\ rfib' = rfib
      BY <2>1, <3>1
    <3>3. \A f1 \in Fibers \ {g} : Sleeps(f1) => Sleeps(f1)'
      BY <3>2 DEF Sleeps
    <3>4. \A q \in Resumers, f1 \in Fibers : Resuming(q, f1)' => Resuming(q, f1) /\ q # r
      BY <3>2 DEF Resuming
    <3>5. Resuming(r, g)
      BY <1>a, <2>1, <3>1
    <3>6. \A q \in Resumers, f1 \in Fibers : Resuming(q, f1)' => Resuming(q, f1) /\ f1 # g
      BY <2>1, <3>4, <3>5 DEF OneWakeUp
    <3> QED BY <2>1, <3>3, <3>5, <3>6, WakeUpUsed
  <2>2. CASE Bare \/ status[rfib[r]] # "SUSPENDED"
    <3>1. \A f1 \in Fibers : Sleeps(f1) =>
            Sleeps(f1)' /\ fev'[f1] = fev[f1] /\ wname'[f1] = wname[f1]
      BY <2>2, BareAwake DEF Sleeps
    <3>2. ~Bare => \A q \in Resumers, f1 \in Fibers : Resuming(q, f1)' => Resuming(q, f1)
      BY <2>2 DEF Resuming
    <3> QED BY <3>1, <3>2, WakeUpKept
  <2> QED BY <2>1, <2>2
<1> QED BY <1>1, <1>2, <1>3, <1>4

LEMMA NamedResumeCasWants ==
  ASSUME NamedInv, FiberInv', NEW r \in Resumers, ResumeCasWants(r), UNCHANGED <<waitVars, namedVars>>
  PROVE  NamedInv'
<1> USE DEF NamedInv, ResumeCasWants, FiberInv, FiberTypeOK
<1>0. rpc[r] # "idle" /\ rfib[r] \in Fibers
  BY DEF RestingStatus
<1>a. ~Bare /\ rpc[r] \in {"load", "cas_suspended", "cas_wants"} =>
        Sleeps(rfib[r]) /\ Resuming(r, rfib[r])
  BY <1>0 DEF OneWakeUp, Resuming
<1>1. EventTypeOK' /\ OpenWaits'
  BY TypeKept
<1>2. EventStatus'
  BY <1>0, <1>a DEF EventStatus, OpenWaits, Bare, Sleeps
<1>3. StillHere'
  BY DEF StillHere
<1>4. OneWakeUp'
  <2>1. CASE ~Bare /\ status[rfib[r]] = "WANTS_SUSPEND"
    <3>1. PICK g \in Fibers : g = rfib[r]
      BY <1>0
    <3>2. status' = [status EXCEPT ![g] = "SUSPEND_SIGNALED"] /\ rpc' = [rpc EXCEPT ![r] = "idle"]
          /\ rfib' = rfib
      BY <2>1, <3>1
    <3>3. \A f1 \in Fibers \ {g} : Sleeps(f1) => Sleeps(f1)'
      BY <3>2 DEF Sleeps
    <3>4. \A q \in Resumers, f1 \in Fibers : Resuming(q, f1)' => Resuming(q, f1) /\ q # r
      BY <3>2 DEF Resuming
    <3>5. Resuming(r, g)
      BY <1>a, <2>1, <3>1
    <3>6. \A q \in Resumers, f1 \in Fibers : Resuming(q, f1)' => Resuming(q, f1) /\ f1 # g
      BY <2>1, <3>4, <3>5 DEF OneWakeUp
    <3> QED BY <2>1, <3>3, <3>5, <3>6, WakeUpUsed
  <2>2. CASE Bare \/ status[rfib[r]] # "WANTS_SUSPEND"
    <3>1. \A f1 \in Fibers : Sleeps(f1) =>
            Sleeps(f1)' /\ fev'[f1] = fev[f1] /\ wname'[f1] = wname[f1]
      BY <2>2, BareAwake DEF Sleeps
    <3>2. ~Bare => \A q \in Resumers, f1 \in Fibers : Resuming(q, f1)' => Resuming(q, f1)
      BY <2>2 DEF Resuming
    <3> QED BY <3>1, <3>2, WakeUpKept
  <2> QED BY <2>1, <2>2
<1> QED BY <1>1, <1>2, <1>3, <1>4

LEMMA NamedResumeRequeue ==
  ASSUME NamedInv, FiberInv', NEW r \in Resumers, ResumeRequeue(r), UNCHANGED <<waitVars, namedVars>>
  PROVE  NamedInv'
<1> USE DEF NamedInv, ResumeRequeue, FiberInv, FiberTypeOK
<1>0. rpc[r] # "idle" /\ rfib[r] \in Fibers
  BY DEF RestingStatus
<1>a. ~Bare /\ rpc[r] \in {"load", "cas_suspended", "cas_wants"} =>
        Sleeps(rfib[r]) /\ Resuming(r, rfib[r])
  BY <1>0 DEF Resuming
<1>1. EventTypeOK' /\ OpenWaits'
  BY TypeKept
<1>2. EventStatus'
  BY <1>0, <1>a DEF EventStatus, Bare
<1>3. StillHere'
  BY DEF StillHere
<1>4. OneWakeUp'
  <2>1. \A f1 \in Fibers : Sleeps(f1) =>
          Sleeps(f1)' /\ fev'[f1] = fev[f1] /\ wname'[f1] = wname[f1]
    BY DEF Sleeps
  <2>2. ~Bare => \A q \in Resumers, f1 \in Fibers : Resuming(q, f1)' => Resuming(q, f1)
    BY DEF Resuming
  <2> QED BY <2>1, <2>2, WakeUpKept
<1> QED BY <1>1, <1>2, <1>3, <1>4

LEMMA NamedBareResume ==
  ASSUME NamedInv, FiberInv', NEW r \in Resumers, NEW f \in Fibers, BareResume(r, f)
  PROVE  NamedInv'
<1> USE DEF NamedInv, BareResume, ResumeCall, FiberInv, FiberTypeOK
<1>1. EventTypeOK' /\ OpenWaits'
  BY TypeKept
<1>2. EventStatus'
  BY DEF EventStatus, Bare
<1>3. StillHere'
  BY DEF StillHere
<1>4. OneWakeUp'
  <2>1. Bare
    BY DEF Bare
  <2>2. \A f1 \in Fibers : Sleeps(f1) =>
          Sleeps(f1)' /\ fev'[f1] = fev[f1] /\ wname'[f1] = wname[f1]
    BY DEF Sleeps
  <2> QED BY <2>1, <2>2, WakeUpKept
<1> QED BY <1>1, <1>2, <1>3, <1>4

LEMMA NamedNewTask ==
  ASSUME NamedInv, FiberInv', NEW w \in Workers, NEW f \in Fibers, NewTask(w, f), UNCHANGED namedVars
  PROVE  NamedInv'
<1> USE DEF NamedInv, NewTask, StartTask
<1>0. /\ wpc[w] = "loop" /\ f \in pool /\ status[f] \in {"READY", "DEAD"} /\ fpc[f] = "run"
      /\ uses[f] + 1 \in Int
  <2>1. wpc[w] = "loop" /\ f \in pool /\ status[f] \in {"READY", "DEAD"}
    BY DEF FiberInv, RestingStatus
  <2>2. fpc[f] = "run"
    BY <2>1 DEF EventStatus, EventTypeOK
  <2>3. uses[f] \in Int
    BY DEF EventTypeOK
  <2> QED BY <2>1, <2>2, <2>3
<1>1. EventTypeOK'
  BY <1>0 DEF EventTypeOK
<1>2. OpenWaits'
  BY <1>0 DEF OpenWaits, Bare
<1>3. EventStatus'
  BY <1>0 DEF EventStatus, Bare
<1>4. StillHere'
  BY <1>0 DEF StillHere
<1>5. OneWakeUp'
  <2>1. \A f1 \in Fibers : Sleeps(f1) =>
          Sleeps(f1)' /\ fev'[f1] = fev[f1] /\ wname'[f1] = wname[f1]
    BY <1>0 DEF Sleeps
  <2>2. ~Bare => \A q \in Resumers, f1 \in Fibers : Resuming(q, f1)' => Resuming(q, f1)
    BY DEF Resuming
  <2> QED BY <2>1, <2>2, WakeUpKept
<1> QED BY <1>1, <1>2, <1>3, <1>4, <1>5

LEMMA NamedYield ==
  ASSUME NamedInv, FiberInv', NEW w \in Workers, wname[wfib[w]] = None, Yield(w), UNCHANGED namedVars
  PROVE  NamedInv'
<1> USE DEF NamedInv, Yield, AskYield, Ask
<1>0. /\ wfib[w] \in Fibers /\ \A v \in Workers : wpc[v] # "loop" /\ wfib[v] = wfib[w] => v = w
      /\ wpc[w] = "on" => status[wfib[w]] = "RUNNING"
  BY OneWorker DEF FiberInv, WorkerStatus
<1>1. EventTypeOK'
  BY <1>0 DEF EventTypeOK
<1>2. OpenWaits'
  BY <1>0 DEF OpenWaits, Bare
<1>3. EventStatus'
  BY <1>0 DEF EventStatus, Bare
<1>4. StillHere'
  BY <1>0 DEF StillHere
<1>5. OneWakeUp'
  <2>1. \A f1 \in Fibers : Sleeps(f1) =>
          Sleeps(f1)' /\ fev'[f1] = fev[f1] /\ wname'[f1] = wname[f1]
    BY <1>0 DEF Sleeps
  <2>2. ~Bare => \A q \in Resumers, f1 \in Fibers : Resuming(q, f1)' => Resuming(q, f1)
    BY DEF Resuming
  <2> QED BY <2>1, <2>2, WakeUpKept
<1> QED BY <1>1, <1>2, <1>3, <1>4, <1>5

LEMMA NamedCallWait ==
  ASSUME NamedInv, FiberInv', NEW w \in Workers, wname[wfib[w]] = None, May(wfib[w], "direct"), CallWait(w), UNCHANGED namedVars
  PROVE  NamedInv'
<1> USE DEF NamedInv, CallWait
<1>0. /\ wfib[w] \in Fibers /\ \A v \in Workers : wpc[v] # "loop" /\ wfib[v] = wfib[w] => v = w
      /\ wpc[w] = "on" => status[wfib[w]] = "RUNNING"
  BY OneWorker DEF FiberInv, WorkerStatus
<1>1. EventTypeOK'
  BY <1>0 DEF EventTypeOK
<1>2. OpenWaits'
  BY <1>0 DEF OpenWaits, EventTypeOK, Bare, May
<1>3. EventStatus'
  BY <1>0 DEF EventStatus, Bare
<1>4. StillHere'
  BY <1>0 DEF StillHere
<1>5. OneWakeUp'
  <2>1. \A f1 \in Fibers : Sleeps(f1) =>
          Sleeps(f1)' /\ fev'[f1] = fev[f1] /\ wname'[f1] = wname[f1]
    BY <1>0 DEF Sleeps
  <2>2. ~Bare => \A q \in Resumers, f1 \in Fibers : Resuming(q, f1)' => Resuming(q, f1)
    BY DEF Resuming
  <2> QED BY <2>1, <2>2, WakeUpKept
<1> QED BY <1>1, <1>2, <1>3, <1>4, <1>5

LEMMA NamedAcquire ==
  ASSUME NamedInv, FiberInv', NEW w \in Workers, NEW e \in Events, wname[wfib[w]] = None, Acquire(w, e), UNCHANGED namedVars
  PROVE  NamedInv'
<1> USE DEF NamedInv, Acquire
<1>0. /\ wfib[w] \in Fibers /\ \A v \in Workers : wpc[v] # "loop" /\ wfib[v] = wfib[w] => v = w
      /\ wpc[w] = "on" => status[wfib[w]] = "RUNNING"
  BY OneWorker DEF FiberInv, WorkerStatus
<1>1. EventTypeOK'
  BY <1>0 DEF EventTypeOK
<1>2. OpenWaits'
  BY <1>0 DEF OpenWaits, EventTypeOK, Bare
<1>3. EventStatus'
  BY <1>0 DEF EventStatus, Bare
<1>4. StillHere'
  BY <1>0 DEF StillHere
<1>5. OneWakeUp'
  <2>1. ~Sleeps(wfib[w])
    BY <1>0 DEF Sleeps
  <2>2. \A f1 \in Fibers : Sleeps(f1) =>
          Sleeps(f1)' /\ fev'[f1] = fev[f1] /\ wname'[f1] = wname[f1]
    BY <1>0, <2>1 DEF Sleeps
  <2>3. \A q \in Resumers, f1 \in Fibers : Resuming(q, f1)' <=> Resuming(q, f1)
    BY DEF Resuming
  <2>4. \A e1 \in Events : waiter'[e1] \in {waiter[e1], None}
    BY DEF EventTypeOK
  <2> QED BY <2>2, <2>3, <2>4, WakeUpKept
<1> QED BY <1>1, <1>2, <1>3, <1>4, <1>5

LEMMA NamedBecomeParkable ==
  ASSUME NamedInv, FiberInv', NEW w \in Workers, BecomeParkable(w), UNCHANGED namedVars
  PROVE  NamedInv'
<1> USE DEF NamedInv, BecomeParkable, AskSuspend, Ask
<1>0. /\ wfib[w] \in Fibers /\ \A v \in Workers : wpc[v] # "loop" /\ wfib[v] = wfib[w] => v = w
      /\ wpc[w] = "on" => status[wfib[w]] = "RUNNING"
  BY OneWorker DEF FiberInv, WorkerStatus
<1>1. EventTypeOK'
  BY <1>0 DEF EventTypeOK
<1>2. OpenWaits'
  BY <1>0 DEF OpenWaits, Bare
<1>3. EventStatus'
  BY <1>0 DEF EventStatus, EventTypeOK, Bare, FiberInv, FiberTypeOK
<1>4. StillHere'
  BY <1>0 DEF StillHere
<1>5. OneWakeUp'
  <2>1. \A f1 \in Fibers : Sleeps(f1) =>
          Sleeps(f1)' /\ fev'[f1] = fev[f1] /\ wname'[f1] = wname[f1]
    BY <1>0 DEF Sleeps
  <2>2. ~Bare => \A q \in Resumers, f1 \in Fibers : Resuming(q, f1)' => Resuming(q, f1)
    BY DEF Resuming
  <2> QED BY <2>1, <2>2, WakeUpKept
<1> QED BY <1>1, <1>2, <1>3, <1>4, <1>5

LEMMA NamedPublish ==
  ASSUME NamedInv, FiberInv', NEW w \in Workers, wname[wfib[w]] = None, Publish(w), UNCHANGED namedVars
  PROVE  NamedInv'
<1> USE DEF NamedInv, Publish
<1>0. /\ wfib[w] \in Fibers /\ \A v \in Workers : wpc[v] # "loop" /\ wfib[v] = wfib[w] => v = w
      /\ wpc[w] = "on" => status[wfib[w]] = "RUNNING"
  BY OneWorker DEF WorkerStatus
<1>1. EventTypeOK'
  BY <1>0 DEF EventTypeOK
<1>2. OpenWaits'
  BY <1>0 DEF OpenWaits, Bare
<1>3. EventStatus'
  BY <1>0 DEF EventStatus, Bare
<1>4. StillHere'
  BY <1>0 DEF StillHere
<1>5. OneWakeUp'
  <2>1. PICK f \in Fibers : f = wfib[w]
    BY <1>0
  <2>2. /\ fev[f] \in Events /\ ~Sleeps(f) /\ fpc[f] = "parkable" /\ status[f] = "WANTS_SUSPEND"
        /\ waiter' = [waiter EXCEPT ![fev[f]] = f] /\ fpc' = [fpc EXCEPT ![f] = "published"]
        /\ ~Bare /\ wname[f] = None
    BY <2>1 DEF OpenWaits, EventTypeOK, EventStatus, Sleeps
  <2>3. \A f1 \in Fibers : Sleeps(f1)' <=> Sleeps(f1) \/ f1 = f
    BY <2>2 DEF Sleeps, EventTypeOK
  <2>4. \A q \in Resumers, f1 \in Fibers : Resuming(q, f1)' => Resuming(q, f1) /\ f1 # f
    BY <2>2 DEF Resuming, OneWakeUp
  <2>5. \A e \in Events : waiter'[e] = IF e = fev[f] THEN f ELSE waiter[e]
    BY <2>2 DEF EventTypeOK
  <2>6. /\ \A n \in Names : waiters[n] \subseteq Fibers /\ f \notin waiters[n]
        /\ \A q \in Resumers : toWake[q] \subseteq Fibers /\ f \notin toWake[q]
    BY <2>2 DEF EventTypeOK, OneWakeUp
  <2>7. UNCHANGED <<fev, wname, waiters, toWake, plan>> /\ (Bare' <=> Bare)
    BY DEF Bare
  <2>8. OneWakeUp
    OBVIOUS
  <2> HIDE DEF NamedInv, Publish
  <2>9. \A e \in Events, f1 \in Fibers : waiter'[e] = f1 => fev'[f1] = e /\ Sleeps(f1)'
    BY <2>3, <2>5, <2>7, <2>8 DEF OneWakeUp
  <2>10. /\ \A n \in Names : \A f1 \in waiters'[n] : wname'[f1] = n /\ Sleeps(f1)'
         /\ \A r \in Resumers : \A f1 \in toWake'[r] :
              /\ Sleeps(f1)' /\ wname'[f1] # None /\ \A n \in Names : f1 \notin waiters'[n]
              /\ \A q \in Resumers : f1 \in toWake'[q] => q = r
    BY <2>3, <2>6, <2>7, <2>8 DEF OneWakeUp
  <2>11. \A r \in Resumers : \A f1 \in Fibers : Resuming(r, f1)' =>
            /\ Sleeps(f1)'
            /\ \A e \in Events : waiter'[e] # f1
            /\ \A n \in Names : f1 \notin waiters'[n]
            /\ \A q \in Resumers : f1 \notin toWake'[q] /\ (Resuming(q, f1)' => q = r)
    BY <2>2, <2>3, <2>4, <2>5, <2>7, <2>8 DEF OneWakeUp
  <2> QED BY <2>9, <2>10, <2>11 DEF OneWakeUp
<1> QED BY <1>1, <1>2, <1>3, <1>4, <1>5

LEMMA NamedArm ==
  ASSUME NamedInv, FiberInv', NEW w \in Workers, wname[wfib[w]] = None, Arm(w), UNCHANGED namedVars
  PROVE  NamedInv'
<1> USE DEF NamedInv, Arm
<1>0. /\ wfib[w] \in Fibers /\ \A v \in Workers : wpc[v] # "loop" /\ wfib[v] = wfib[w] => v = w
      /\ wpc[w] = "on" => status[wfib[w]] = "RUNNING"
  BY OneWorker DEF WorkerStatus
<1>1. EventTypeOK'
  <2>1. /\ fev[wfib[w]] \in Events /\ uses[wfib[w]] \in Int
        /\ fpc' \in [Fibers -> EventFpc]
    BY <1>0 DEF EventTypeOK, OpenWaits
  <2>2. Wait(wfib[w]) \in [fiber : Fibers, event : Events, number : Int]
    BY <1>0, <2>1 DEF Wait
  <2>3. armed' \subseteq [wait : [fiber : Fibers, event : Events, number : Int], copy : 1 .. Copies]
    BY <2>2 DEF EventTypeOK
  <2> QED BY <2>1, <2>3 DEF EventTypeOK
<1>2. OpenWaits'
  BY <1>0 DEF OpenWaits, Bare
<1>3. EventStatus'
  <2>1. wfib[w] \notin pool
    BY <1>0 DEF EventStatus, FiberInv, RestingStatus
  <2>2. status[wfib[w]] \in {"WANTS_SUSPEND", "SUSPEND_SIGNALED"}
    BY <1>0 DEF EventStatus
  <2> QED BY <1>0, <2>1, <2>2 DEF EventStatus, Bare
<1>4. StillHere'
  BY <1>0 DEF StillHere
<1>5. OneWakeUp'
  <2>1. \A f1 \in Fibers : Sleeps(f1) =>
          Sleeps(f1)' /\ fev'[f1] = fev[f1] /\ wname'[f1] = wname[f1]
    BY <1>0 DEF Sleeps
  <2>2. ~Bare => \A q \in Resumers, f1 \in Fibers : Resuming(q, f1)' => Resuming(q, f1)
    BY DEF Resuming
  <2> QED BY <2>1, <2>2, WakeUpKept
<1> QED BY <1>1, <1>2, <1>3, <1>4, <1>5

LEMMA NamedRelease ==
  ASSUME NamedInv, FiberInv', NEW w \in Workers, wname[wfib[w]] = None, Release(w), UNCHANGED namedVars
  PROVE  NamedInv'
<1> USE DEF NamedInv, Release
<1>0. /\ wfib[w] \in Fibers /\ \A v \in Workers : wpc[v] # "loop" /\ wfib[v] = wfib[w] => v = w
      /\ wpc[w] = "on" => status[wfib[w]] = "RUNNING"
  BY OneWorker DEF FiberInv, WorkerStatus
<1>1. EventTypeOK'
  BY <1>0 DEF EventTypeOK
<1>2. OpenWaits'
  BY <1>0 DEF OpenWaits, EventTypeOK, Bare
<1>3. EventStatus'
  BY <1>0 DEF EventStatus, Bare
<1>4. StillHere'
  BY <1>0 DEF StillHere
<1>5. OneWakeUp'
  <2>1. \A f1 \in Fibers : Sleeps(f1) =>
          Sleeps(f1)' /\ fev'[f1] = fev[f1] /\ wname'[f1] = wname[f1]
    BY <1>0 DEF Sleeps
  <2>2. ~Bare => \A q \in Resumers, f1 \in Fibers : Resuming(q, f1)' => Resuming(q, f1)
    BY DEF Resuming
  <2> QED BY <2>1, <2>2, WakeUpKept
<1> QED BY <1>1, <1>2, <1>3, <1>4, <1>5

LEMMA NamedCallNamed ==
  ASSUME NamedInv, FiberInv', NEW w \in Workers, NEW n \in Names, CallNamed(w, n)
  PROVE  NamedInv'
<1> USE DEF NamedInv, CallNamed
<1>0. /\ wfib[w] \in Fibers /\ \A v \in Workers : wpc[v] # "loop" /\ wfib[v] = wfib[w] => v = w
      /\ wpc[w] = "on" => status[wfib[w]] = "RUNNING"
  BY OneWorker DEF FiberInv, WorkerStatus
<1>1. EventTypeOK'
  BY <1>0 DEF EventTypeOK
<1>2. OpenWaits'
  BY <1>0 DEF OpenWaits, EventTypeOK, Bare, May
<1>3. EventStatus'
  BY <1>0 DEF EventStatus, Bare
<1>4. StillHere'
  BY <1>0 DEF StillHere
<1>5. OneWakeUp'
  <2>1. \A f1 \in Fibers : Sleeps(f1) =>
          Sleeps(f1)' /\ fev'[f1] = fev[f1] /\ wname'[f1] = wname[f1]
    BY <1>0 DEF Sleeps
  <2>2. ~Bare => \A q \in Resumers, f1 \in Fibers : Resuming(q, f1)' => Resuming(q, f1)
    BY DEF Resuming
  <2> QED BY <2>1, <2>2, WakeUpKept
<1> QED BY <1>1, <1>2, <1>3, <1>4, <1>5

LEMMA NamedAddWaiter ==
  ASSUME NamedInv, FiberInv', NEW w \in Workers, AddWaiter(w)
  PROVE  NamedInv'
<1> USE DEF NamedInv, AddWaiter
<1>0. /\ wfib[w] \in Fibers /\ \A v \in Workers : wpc[v] # "loop" /\ wfib[v] = wfib[w] => v = w
      /\ wpc[w] = "on" => status[wfib[w]] = "RUNNING"
  BY OneWorker DEF WorkerStatus
<1>1. EventTypeOK'
  BY <1>0 DEF EventTypeOK
<1>2. OpenWaits'
  BY <1>0 DEF OpenWaits, Bare
<1>3. EventStatus'
  BY <1>0 DEF EventStatus, Bare
<1>4. StillHere'
  BY <1>0 DEF StillHere
<1>5. OneWakeUp'
  <2>1. PICK f \in Fibers : f = wfib[w]
    BY <1>0
  <2>2. /\ wname[f] \in Names /\ ~Sleeps(f) /\ fpc[f] = "parkable" /\ status[f] = "WANTS_SUSPEND"
        /\ waiters' = [waiters EXCEPT ![wname[f]] = @ \cup {f}]
        /\ fpc' = [fpc EXCEPT ![f] = "published"] /\ ~Bare /\ fev[f] = None
    BY <2>1 DEF OpenWaits, EventTypeOK, EventStatus, Sleeps
  <2>3. \A f1 \in Fibers : Sleeps(f1)' <=> Sleeps(f1) \/ f1 = f
    BY <2>2 DEF Sleeps, EventTypeOK
  <2>4. \A q \in Resumers, f1 \in Fibers : Resuming(q, f1)' => Resuming(q, f1) /\ f1 # f
    BY <2>2 DEF Resuming, OneWakeUp
  <2>5. \A n \in Names : waiters'[n] = IF n = wname[f] THEN waiters[n] \cup {f} ELSE waiters[n]
    BY <2>2, ZenonT(30) DEF EventTypeOK
  <2>6. /\ \A n \in Names : waiters[n] \subseteq Fibers /\ f \notin waiters[n]
        /\ \A q \in Resumers : toWake[q] \subseteq Fibers /\ f \notin toWake[q]
    BY <2>2 DEF EventTypeOK, OneWakeUp
  <2>7. UNCHANGED <<fev, wname, waiter, toWake, plan>> /\ (Bare' <=> Bare)
    BY DEF Bare
  <2>8. OneWakeUp
    OBVIOUS
  <2> HIDE DEF NamedInv, AddWaiter
  <2>9. \A e \in Events, f1 \in Fibers : waiter'[e] = f1 => fev'[f1] = e /\ Sleeps(f1)'
    BY <2>3, <2>5, <2>7, <2>8 DEF OneWakeUp
  <2>10. /\ \A n \in Names : \A f1 \in waiters'[n] : wname'[f1] = n /\ Sleeps(f1)'
         /\ \A r \in Resumers : \A f1 \in toWake'[r] :
              /\ Sleeps(f1)' /\ wname'[f1] # None /\ \A n \in Names : f1 \notin waiters'[n]
              /\ \A q \in Resumers : f1 \in toWake'[q] => q = r
    <3>1. ASSUME NEW n \in Names, NEW f1 \in waiters'[n]
          PROVE  wname'[f1] = n /\ Sleeps(f1)'
      <4>1. CASE f1 \in waiters[n]
        <5>1. f1 \in Fibers /\ wname[f1] = n /\ Sleeps(f1)
          BY <2>6, <2>8, <4>1 DEF OneWakeUp
        <5> QED BY <2>3, <2>7, <5>1
      <4>2. CASE f1 \notin waiters[n]
        <5>1. f1 = f /\ n = wname[f]
          BY <2>5, <3>1, <4>2
        <5> QED BY <2>3, <2>7, <5>1
      <4> QED BY <4>1, <4>2
    <3>2. ASSUME NEW r \in Resumers, NEW f1 \in toWake'[r]
          PROVE  /\ Sleeps(f1)' /\ wname'[f1] # None /\ \A n \in Names : f1 \notin waiters'[n]
                 /\ \A q \in Resumers : f1 \in toWake'[q] => q = r
      <4>1. f1 \in toWake[r] /\ f1 \in Fibers /\ f1 # f
        BY <2>6, <2>7, <3>2
      <4>2. /\ Sleeps(f1) /\ wname[f1] # None /\ \A n \in Names : f1 \notin waiters[n]
            /\ \A q \in Resumers : f1 \in toWake[q] => q = r
        BY <2>8, <4>1 DEF OneWakeUp
      <4>3. \A n \in Names : f1 \notin waiters'[n]
        BY <2>5, <4>1, <4>2
      <4> QED BY <2>3, <2>7, <4>1, <4>2, <4>3
    <3> QED BY <3>1, <3>2
  <2>11. \A r \in Resumers : \A f1 \in Fibers : Resuming(r, f1)' =>
            /\ Sleeps(f1)'
            /\ \A e \in Events : waiter'[e] # f1
            /\ \A n \in Names : f1 \notin waiters'[n]
            /\ \A q \in Resumers : f1 \notin toWake'[q] /\ (Resuming(q, f1)' => q = r)
    BY <2>2, <2>3, <2>4, <2>5, <2>7, <2>8 DEF OneWakeUp
  <2> QED BY <2>9, <2>10, <2>11 DEF OneWakeUp
<1> QED BY <1>1, <1>2, <1>3, <1>4, <1>5

LEMMA NamedArmNamed ==
  ASSUME NamedInv, FiberInv', NEW w \in Workers, ArmNamed(w)
  PROVE  NamedInv'
<1> USE DEF NamedInv, ArmNamed
<1>0. /\ wfib[w] \in Fibers /\ \A v \in Workers : wpc[v] # "loop" /\ wfib[v] = wfib[w] => v = w
      /\ wpc[w] = "on" => status[wfib[w]] = "RUNNING"
  BY OneWorker DEF WorkerStatus
<1>1. EventTypeOK'
  BY <1>0 DEF EventTypeOK
<1>2. OpenWaits'
  BY <1>0 DEF OpenWaits, Bare
<1>3. EventStatus'
  <2>1. wfib[w] \notin pool
    BY <1>0 DEF EventStatus, FiberInv, RestingStatus
  <2>2. status[wfib[w]] \in {"WANTS_SUSPEND", "SUSPEND_SIGNALED"}
    BY <1>0 DEF EventStatus
  <2> QED BY <1>0, <2>1, <2>2 DEF EventStatus, Bare
<1>4. StillHere'
  BY <1>0 DEF StillHere
<1>5. OneWakeUp'
  <2>1. \A f1 \in Fibers : Sleeps(f1) =>
          Sleeps(f1)' /\ fev'[f1] = fev[f1] /\ wname'[f1] = wname[f1]
    BY <1>0 DEF Sleeps
  <2>2. ~Bare => \A q \in Resumers, f1 \in Fibers : Resuming(q, f1)' => Resuming(q, f1)
    BY DEF Resuming
  <2> QED BY <2>1, <2>2, WakeUpKept
<1> QED BY <1>1, <1>2, <1>3, <1>4, <1>5

LEMMA NamedNamedReturn ==
  ASSUME NamedInv, FiberInv', NEW w \in Workers, NamedReturn(w)
  PROVE  NamedInv'
<1> USE DEF NamedInv, NamedReturn
<1>0. /\ wfib[w] \in Fibers /\ \A v \in Workers : wpc[v] # "loop" /\ wfib[v] = wfib[w] => v = w
      /\ wpc[w] = "on" => status[wfib[w]] = "RUNNING"
  BY OneWorker DEF FiberInv, WorkerStatus
<1>1. EventTypeOK'
  BY <1>0 DEF EventTypeOK
<1>2. OpenWaits'
  BY <1>0 DEF OpenWaits, EventTypeOK, Bare
<1>3. EventStatus'
  BY <1>0 DEF EventStatus, Bare
<1>4. StillHere'
  BY <1>0 DEF StillHere
<1>5. OneWakeUp'
  <2>1. \A f1 \in Fibers : Sleeps(f1) =>
          Sleeps(f1)' /\ fev'[f1] = fev[f1] /\ wname'[f1] = wname[f1]
    BY <1>0 DEF Sleeps
  <2>2. ~Bare => \A q \in Resumers, f1 \in Fibers : Resuming(q, f1)' => Resuming(q, f1)
    BY DEF Resuming
  <2> QED BY <2>1, <2>2, WakeUpKept
<1> QED BY <1>1, <1>2, <1>3, <1>4, <1>5

(* The signals.                                                            *)

LEMMA NamedSignalAll ==
  ASSUME NamedInv, FiberInv', NEW r \in Resumers, NEW s \in armedAll, SignalAll(r, s)
  PROVE  NamedInv'
<1> USE DEF NamedInv
<1>0. /\ s.name \in Names /\ waiters[s.name] \subseteq Fibers /\ toWake[r] = {}
      /\ toWake' = [toWake EXCEPT ![r] = waiters[s.name]]
      /\ waiters' = [waiters EXCEPT ![s.name] = {}] /\ armedAll' = armedAll \ {s}
      /\ UNCHANGED <<vars, plan, wname>>
  BY DEF SignalAll, Free, EventTypeOK
<1>a. /\ \A q \in Resumers : toWake'[q] = IF q = r THEN waiters[s.name] ELSE toWake[q]
      /\ \A n \in Names : waiters'[n] = IF n = s.name THEN {} ELSE waiters[n]
  BY <1>0 DEF EventTypeOK
<1>1. EventTypeOK'
  BY <1>0 DEF EventTypeOK
<1>2. OpenWaits' /\ EventStatus' /\ StillHere'
  BY <1>0 DEF OpenWaits, EventStatus, StillHere, Bare
<1>3. OneWakeUp'
  <2>1. \A f \in Fibers : Sleeps(f)' <=> Sleeps(f)
    BY <1>0 DEF Sleeps
  <2>2. \A q \in Resumers, f \in Fibers : Resuming(q, f)' <=> Resuming(q, f)
    BY <1>0 DEF Resuming
  <2>3. UNCHANGED <<fev, wname, waiter>> /\ (Bare' <=> Bare)
    BY <1>0 DEF Bare
  <2>4. /\ \A n \in Names : waiters[n] \subseteq Fibers
        /\ \A q \in Resumers : toWake[q] \subseteq Fibers
    BY DEF EventTypeOK
  <2>5. OneWakeUp
    OBVIOUS
  <2> HIDE DEF NamedInv
  <2>6. /\ \A e \in Events, f \in Fibers : waiter'[e] = f => fev'[f] = e /\ Sleeps(f)'
        /\ \A n \in Names : \A f \in waiters'[n] : wname'[f] = n /\ Sleeps(f)'
    BY <1>a, <2>1, <2>3, <2>4, <2>5 DEF OneWakeUp
  <2>7. \A q \in Resumers : \A f \in toWake'[q] :
          /\ Sleeps(f)' /\ wname'[f] # None /\ \A n \in Names : f \notin waiters'[n]
          /\ \A p \in Resumers : f \in toWake'[p] => p = q
    BY <1>0, <1>a, <2>1, <2>3, <2>4, <2>5 DEF OneWakeUp
  <2>8. ~Bare => \A q \in Resumers : \A f \in Fibers : Resuming(q, f)' =>
          /\ Sleeps(f)'
          /\ \A e \in Events : waiter'[e] # f
          /\ \A n \in Names : f \notin waiters'[n]
          /\ \A p \in Resumers : f \notin toWake'[p] /\ (Resuming(p, f)' => p = q)
    BY <1>0, <1>a, <2>1, <2>2, <2>3, <2>5 DEF OneWakeUp
  <2> QED BY <2>3, <2>6, <2>7, <2>8 DEF OneWakeUp
<1> QED BY <1>1, <1>2, <1>3

LEMMA NamedWakeNext ==
  ASSUME NamedInv, FiberInv', NEW r \in Resumers, WakeNext(r)
  PROVE  NamedInv'
<1> USE DEF NamedInv
<1>0. PICK g \in toWake[r] : ResumeCall(r, g) /\ toWake' = [toWake EXCEPT ![r] = @ \ {g}]
  BY DEF WakeNext
<1>a. g \in Fibers /\ UNCHANGED <<status, pool, workerVars, waitVars, plan, waiters, wname, armedAll>>
  BY <1>0 DEF EventTypeOK, WakeNext
<1>b. \A q \in Resumers : toWake'[q] = IF q = r THEN toWake[r] \ {g} ELSE toWake[q]
  BY <1>0 DEF EventTypeOK
<1>1. EventTypeOK'
  BY <1>0, <1>a DEF EventTypeOK
<1>2. OpenWaits' /\ EventStatus' /\ StillHere'
  BY <1>a DEF OpenWaits, EventStatus, StillHere, Bare
<1>3. OneWakeUp'
  <2>1. /\ Sleeps(g) /\ wname[g] # None /\ fev[g] = None
        /\ \A n \in Names : g \notin waiters[n]
        /\ \A q \in Resumers : g \in toWake[q] => q = r
        /\ ~Bare => \A q \in Resumers : ~Resuming(q, g)
    BY <1>0, <1>a DEF OneWakeUp, OpenWaits
  <2>2. \A e \in Events : waiter'[e] \in {waiter[e], None} /\ waiter'[e] # g
    BY <1>a, <2>1 DEF OneWakeUp
  <2>3. /\ \A n \in Names : waiters'[n] \subseteq waiters[n] /\ g \notin waiters'[n]
        /\ \A q \in Resumers : toWake'[q] \subseteq toWake[q] /\ g \notin toWake'[q]
    BY <1>a, <1>b, <2>1
  <2>4. \A q \in Resumers, f \in Fibers : Resuming(q, f)' => Resuming(q, f) \/ (q = r /\ f = g)
    BY <1>0 DEF Resuming, ResumeCall, FiberInv, FiberTypeOK
  <2>5. UNCHANGED <<fpc, status, fev, wname, plan>>
    BY <1>a
  <2> QED BY <1>a, <2>1, <2>2, <2>3, <2>4, <2>5, WakeUpMoved
<1> QED BY <1>1, <1>2, <1>3

LEMMA NamedSignalOne ==
  ASSUME NamedInv, FiberInv', NEW r \in Resumers, NEW g \in Fibers, NEW n \in Names,
         SignalOne(r, g, n)
  PROVE  NamedInv'
<1> USE DEF NamedInv
<1>0. /\ g \in waiters[n] /\ waiters' = [waiters EXCEPT ![n] = @ \ {g}] /\ ResumeCall(r, g)
      /\ UNCHANGED <<status, pool, workerVars, waitVars, plan, wname, armedAll, toWake>>
  BY DEF SignalOne
<1>a. \A m \in Names : waiters'[m] = IF m = n THEN waiters[n] \ {g} ELSE waiters[m]
  BY <1>0 DEF EventTypeOK
<1>1. EventTypeOK'
  BY <1>0 DEF EventTypeOK
<1>2. OpenWaits' /\ EventStatus' /\ StillHere'
  BY <1>0 DEF OpenWaits, EventStatus, StillHere, Bare
<1>3. OneWakeUp'
  <2>1. /\ Sleeps(g) /\ wname[g] = n /\ fev[g] = None
        /\ \A q \in Resumers : g \notin toWake[q]
        /\ ~Bare => \A q \in Resumers : ~Resuming(q, g)
    BY <1>0 DEF OneWakeUp, OpenWaits
  <2>2. \A e \in Events : waiter'[e] \in {waiter[e], None} /\ waiter'[e] # g
    BY <1>0, <2>1 DEF OneWakeUp
  <2>3. /\ \A m \in Names : waiters'[m] \subseteq waiters[m] /\ g \notin waiters'[m]
        /\ \A q \in Resumers : toWake'[q] \subseteq toWake[q] /\ g \notin toWake'[q]
    BY <1>0, <1>a, <2>1 DEF OneWakeUp
  <2>4. \A q \in Resumers, f \in Fibers : Resuming(q, f)' => Resuming(q, f) \/ (q = r /\ f = g)
    BY <1>0 DEF Resuming, ResumeCall, FiberInv, FiberTypeOK
  <2>5. UNCHANGED <<fpc, status, fev, wname, plan>>
    BY <1>0
  <2> QED BY <2>1, <2>2, <2>3, <2>4, <2>5, WakeUpMoved
<1> QED BY <1>1, <1>2, <1>3

LEMMA NamedSignal ==
  ASSUME NamedInv, FiberInv', NEW r \in Resumers, NEW s \in armed, Signal(r, s), UNCHANGED namedVars
  PROVE  NamedInv'
<1> USE DEF NamedInv
<1>0. PICK e \in Events : e = s.wait.event
  BY DEF EventTypeOK
<1>a. /\ waiter' = [waiter EXCEPT ![e] = None] /\ armed' = armed \ {s}
      /\ UNCHANGED <<status, pool, workerVars, fpc, fev, uses>>
      /\ waiter[e] # None => ResumeCall(r, waiter[e])
      /\ waiter[e] = None => UNCHANGED resumeVars
  BY <1>0 DEF Signal
<1>b. \A e1 \in Events : waiter'[e1] = IF e1 = e THEN None ELSE waiter[e1]
  BY <1>a DEF EventTypeOK
<1>1. EventTypeOK'
  BY <1>a DEF EventTypeOK
<1>2. OpenWaits' /\ EventStatus' /\ StillHere'
  BY <1>a DEF OpenWaits, EventStatus, StillHere, Bare
<1>3. OneWakeUp'
  <2>1. CASE waiter[e] = None
    <3>1. \A f \in Fibers : Sleeps(f) => Sleeps(f)' /\ fev'[f] = fev[f] /\ wname'[f] = wname[f]
      BY <1>a DEF Sleeps
    <3>2. \A q \in Resumers, f \in Fibers : Resuming(q, f)' => Resuming(q, f)
      BY <1>a, <2>1 DEF Resuming
    <3> QED BY <1>b, <3>1, <3>2, WakeUpKept
  <2>2. CASE waiter[e] # None
    <3>1. PICK g \in Fibers : g = waiter[e]
      BY <2>2 DEF EventTypeOK
    <3>2. /\ Sleeps(g) /\ fev[g] = e /\ wname[g] = None
          /\ \A q \in Resumers : g \notin toWake[q]
          /\ \A n \in Names : g \notin waiters[n]
          /\ ~Bare => \A q \in Resumers : ~Resuming(q, g)
      BY <3>1 DEF OneWakeUp, OpenWaits
    <3>3. \A e1 \in Events : waiter'[e1] \in {waiter[e1], None} /\ waiter'[e1] # g
      BY <1>b, <3>2 DEF OneWakeUp
    <3>4. \A q \in Resumers, f \in Fibers : Resuming(q, f)' => Resuming(q, f) \/ (q = r /\ f = g)
      BY <1>a, <2>2, <3>1 DEF Resuming, ResumeCall, FiberInv, FiberTypeOK
    <3>5. UNCHANGED <<fpc, status, fev, wname, plan>>
      BY <1>a
    <3>6. UNCHANGED <<waiters, toWake>>
      OBVIOUS
    <3> QED BY <3>2, <3>3, <3>4, <3>5, <3>6, WakeUpMoved
  <2> QED BY <2>1, <2>2
<1> QED BY <1>1, <1>2, <1>3
-----------------------------------------------------------------------------
LEMMA NamedInitInv == NamedInit => NamedInv /\ OwnSignal
<1> SUFFICES ASSUME NamedInit PROVE NamedInv /\ OwnSignal
  OBVIOUS
<1> USE DEF NamedInit, EventInit
<1>1. FiberInv
  BY FiberInitInv
<1>2. EventTypeOK
  BY DEF EventTypeOK
<1>3. OpenWaits /\ StillHere
  BY DEF OpenWaits, StillHere, FiberInit
<1>4. EventStatus
  BY DEF EventStatus, FiberInit
<1>5. OneWakeUp
  BY DEF OneWakeUp, Resuming, FiberInit
<1>6. OwnSignal
  BY DEF OwnSignal
<1> QED BY <1>1, <1>2, <1>3, <1>4, <1>5, <1>6 DEF NamedInv

LEMMA NamedUnchanged == NamedInv /\ UNCHANGED allVars => NamedInv'
<1> SUFFICES ASSUME NamedInv, UNCHANGED allVars PROVE NamedInv'
  OBVIOUS
<1> USE DEF NamedInv, allVars
<1>1. FiberInv'
  BY FiberStep
<1>2. EventTypeOK' /\ OpenWaits'
  BY TypeKept
<1>3. EventStatus' /\ StillHere'
  BY DEF EventStatus, StillHere, Bare
<1>4. OneWakeUp'
  BY DEF OneWakeUp, Sleeps, Resuming, Bare
<1> QED BY <1>1, <1>2, <1>3, <1>4

LEMMA NamedStep == NamedInv /\ [NamedNext]_allVars => NamedInv' /\ [FiberNext]_fiberVars
<1> SUFFICES ASSUME NamedInv, [NamedNext]_allVars PROVE NamedInv' /\ [FiberNext]_fiberVars
  OBVIOUS
<1>1. [FiberNext]_fiberVars
  BY NamedStepIsFiberStep DEF NamedInv
<1>2. FiberInv'
  BY <1>1, FiberStep DEF NamedInv
<1>3. ASSUME NEW w \in Workers, DirectCode(w) PROVE NamedInv'
  BY <1>2, <1>3, NamedCallWait, NamedAcquire, NamedBecomeParkable, NamedPublish, NamedArm,
     NamedLeave, NamedRelease, NamedTaskDone, NamedYield DEF DirectCode, FiberCode
<1>4. ASSUME NEW w \in Workers, NamedCode(w) PROVE NamedInv'
  BY <1>2, <1>4, NamedCallNamed, NamedAddWaiter, NamedArmNamed, NamedNamedReturn,
     NamedBecomeParkable, NamedLeave DEF NamedCode
<1>5. ASSUME NEW w \in Workers, WorkerStep(w), UNCHANGED <<waitVars, namedVars>> PROVE NamedInv'
  BY <1>2, <1>5, NamedSwitchIn, NamedRetire, NamedMakeReady, NamedPushBack, NamedPark
     DEF WorkerStep
<1>6. ASSUME NEW r \in Resumers, ResumerCode(r) PROVE NamedInv'
  <2>1. CASE Resume(r) /\ UNCHANGED <<waitVars, namedVars>>
    BY <1>2, <2>1, NamedResumeLoad, NamedResumeCasSuspended, NamedResumeCasWants,
       NamedResumeRequeue DEF Resume
  <2> QED BY <1>2, <1>6, <2>1, NamedWakeNext, NamedSignal, NamedSignalAll DEF ResumerCode
<1>7. NamedNext => NamedInv'
  BY <1>2, <1>3, <1>4, <1>5, <1>6, NamedBareSuspend, NamedNewTask, NamedBareResume,
     NamedSignalOne DEF NamedNext, WorkerCode
<1> QED BY <1>1, <1>7, NamedUnchanged
-----------------------------------------------------------------------------
(* A wait on an event of the pool ends by its own signal.                   *)

LEMMA OwnKept ==
  ASSUME EventTypeOK, OwnSignal, UNCHANGED <<waiter, freeq, fev, armed, fired>>,
         \A f \in Fibers : fev[f] # None =>
           /\ fpc[f] = "armed" <=> fpc'[f] = "armed"
           /\ fpc[f] = "armed" => uses'[f] = uses[f]
           /\ fpc'[f] = "published" => fpc[f] = "published"
  PROVE  OwnSignal'
<1>1. \A f \in Fibers : fev'[f] # None =>
        fev'[f] \notin freeq' /\ \A g \in Fibers : fev'[g] = fev'[f] => g = f
  BY DEF OwnSignal
<1>2. \A f \in Fibers : fpc'[f] = "published" /\ fev'[f] # None => waiter'[fev'[f]] = f
  BY DEF OwnSignal
<1>3. ASSUME NEW s \in armed'
      PROVE  /\ waiter'[s.wait.event] = s.wait.fiber /\ s.wait = Wait(s.wait.fiber)'
             /\ fpc'[s.wait.fiber] = "armed"
  <2>1. s \in armed /\ s.wait.fiber \in Fibers /\ s.wait.event \in Events
    BY <1>3 DEF EventTypeOK
  <2>2. /\ waiter[s.wait.event] = s.wait.fiber /\ s.wait = Wait(s.wait.fiber)
        /\ fpc[s.wait.fiber] = "armed"
    BY <2>1 DEF OwnSignal
  <2>3. fev[s.wait.fiber] # None
    BY <2>1, <2>2 DEF Wait
  <2> QED BY <2>1, <2>2, <2>3 DEF Wait
<1>4. \A f \in Fibers : fpc'[f] = "armed" /\ fev'[f] # None =>
        waiter'[fev'[f]] = f \/ Wait(f)' \in fired'
  BY DEF OwnSignal, Wait
<1> QED BY <1>1, <1>2, <1>3, <1>4 DEF OwnSignal

LEMMA OwnUnchanged ==
  ASSUME EventTypeOK, OwnSignal, UNCHANGED waitVars
  PROVE  OwnSignal'
BY OwnKept

LEMMA OwnAcquire ==
  ASSUME NamedInv, OwnSignal, NEW w \in Workers, NEW e \in Events, Acquire(w, e)
  PROVE  OwnSignal'
<1>1. PICK f \in Fibers : f = wfib[w]
  BY OneWorker DEF NamedInv, Acquire
<1>2. /\ fpc[f] = "acquire" /\ e \in freeq /\ fpc' = [fpc EXCEPT ![f] = "acquired"]
      /\ freeq' = freeq \ {e} /\ waiter' = [waiter EXCEPT ![e] = None]
      /\ fev' = [fev EXCEPT ![f] = e] /\ UNCHANGED <<uses, armed, fired>>
  BY <1>1 DEF Acquire
<1>3. /\ \A g \in Fibers : fpc'[g] = IF g = f THEN "acquired" ELSE fpc[g]
      /\ \A g \in Fibers : fev'[g] = IF g = f THEN e ELSE fev[g]
      /\ \A a \in Events : waiter'[a] = IF a = e THEN None ELSE waiter[a]
  BY <1>2 DEF EventTypeOK, NamedInv
<1>4. \A g \in Fibers : fev[g] # e /\ fev[g] \in Events \cup {None}
  BY <1>2 DEF OwnSignal, NamedInv, EventTypeOK
<1>5. \A g \in Fibers : fev'[g] # None =>
        fev'[g] \notin freeq' /\ \A h \in Fibers : fev'[h] = fev'[g] => h = g
  BY <1>2, <1>3, <1>4 DEF OwnSignal
<1>6. \A g \in Fibers : fpc'[g] = "published" /\ fev'[g] # None => waiter'[fev'[g]] = g
  BY <1>3, <1>4 DEF OwnSignal
<1>7. ASSUME NEW s \in armed'
      PROVE  /\ waiter'[s.wait.event] = s.wait.fiber /\ s.wait = Wait(s.wait.fiber)'
             /\ fpc'[s.wait.fiber] = "armed"
  <2>1. s \in armed /\ s.wait.fiber \in Fibers /\ s.wait.event \in Events
    BY <1>2, <1>7 DEF EventTypeOK, NamedInv
  <2>2. /\ waiter[s.wait.event] = s.wait.fiber /\ s.wait = Wait(s.wait.fiber)
        /\ fpc[s.wait.fiber] = "armed"
    BY <2>1 DEF OwnSignal
  <2>3. s.wait.fiber # f /\ s.wait.event = fev[s.wait.fiber]
    BY <1>2, <2>2 DEF Wait
  <2> QED BY <1>2, <1>3, <1>4, <2>1, <2>2, <2>3 DEF Wait
<1>8. \A g \in Fibers : fpc'[g] = "armed" /\ fev'[g] # None =>
        waiter'[fev'[g]] = g \/ Wait(g)' \in fired'
  BY <1>2, <1>3, <1>4 DEF OwnSignal, Wait
<1> QED BY <1>5, <1>6, <1>7, <1>8 DEF OwnSignal

LEMMA OwnPublish ==
  ASSUME NamedInv, OwnSignal, NEW w \in Workers, Publish(w), wname[wfib[w]] = None
  PROVE  OwnSignal'
<1>1. PICK f \in Fibers : f = wfib[w]
  BY OneWorker DEF NamedInv, Publish
<1>2. /\ fpc[f] = "parkable" /\ fpc' = [fpc EXCEPT ![f] = "published"]
      /\ waiter' = [waiter EXCEPT ![fev[f]] = f] /\ UNCHANGED <<freeq, fev, uses, armed, fired>>
  BY <1>1 DEF Publish
<1>3. fev[f] \in Events /\ fev[f] # None
  BY <1>1, <1>2 DEF NamedInv, OpenWaits, EventTypeOK
<1>4. /\ \A g \in Fibers : fpc'[g] = IF g = f THEN "published" ELSE fpc[g]
      /\ \A a \in Events : waiter'[a] = IF a = fev[f] THEN f ELSE waiter[a]
      /\ \A g \in Fibers : fev[g] \in Events \cup {None}
  BY <1>2 DEF EventTypeOK, NamedInv
<1>5. \A g \in Fibers : fev'[g] # None =>
        fev'[g] \notin freeq' /\ \A h \in Fibers : fev'[h] = fev'[g] => h = g
  BY <1>2 DEF OwnSignal
<1>6. \A g \in Fibers : fpc'[g] = "published" /\ fev'[g] # None => waiter'[fev'[g]] = g
  BY <1>2, <1>3, <1>4 DEF OwnSignal
<1>7. ASSUME NEW s \in armed'
      PROVE  /\ waiter'[s.wait.event] = s.wait.fiber /\ s.wait = Wait(s.wait.fiber)'
             /\ fpc'[s.wait.fiber] = "armed"
  <2>1. s \in armed /\ s.wait.fiber \in Fibers /\ s.wait.event \in Events
    BY <1>2, <1>7 DEF EventTypeOK, NamedInv
  <2>2. /\ waiter[s.wait.event] = s.wait.fiber /\ s.wait = Wait(s.wait.fiber)
        /\ fpc[s.wait.fiber] = "armed"
    BY <2>1 DEF OwnSignal
  <2>3. s.wait.fiber # f /\ s.wait.event = fev[s.wait.fiber]
    BY <1>2, <2>2 DEF Wait
  <2>4. s.wait.event # fev[f]
    BY <1>3, <2>1, <2>3 DEF OwnSignal
  <2> QED BY <1>2, <1>4, <2>1, <2>2, <2>3, <2>4 DEF Wait
<1>8. \A g \in Fibers : fpc'[g] = "armed" /\ fev'[g] # None =>
        waiter'[fev'[g]] = g \/ Wait(g)' \in fired'
  BY <1>2, <1>3, <1>4 DEF OwnSignal, Wait
<1> QED BY <1>5, <1>6, <1>7, <1>8 DEF OwnSignal

LEMMA OwnArm ==
  ASSUME Copies = 1, NamedInv, OwnSignal, NEW w \in Workers, Arm(w), wname[wfib[w]] = None
  PROVE  OwnSignal'
<1>1. PICK f \in Fibers : f = wfib[w]
  BY OneWorker DEF NamedInv, Arm
<1>2. /\ fpc[f] = "published" /\ fpc' = [fpc EXCEPT ![f] = "armed"]
      /\ armed' = armed \cup {[wait |-> Wait(f), copy |-> c] : c \in 1 .. Copies}
      /\ UNCHANGED <<waiter, freeq, fev, uses, fired>>
  BY <1>1 DEF Arm
<1>3. fev[f] \in Events /\ fev[f] # None /\ waiter[fev[f]] = f
  BY <1>1, <1>2 DEF NamedInv, OpenWaits, EventTypeOK, OwnSignal
<1>4. \A g \in Fibers : fpc'[g] = IF g = f THEN "armed" ELSE fpc[g]
  BY <1>2 DEF EventTypeOK, NamedInv
<1>5. \A g \in Fibers : fev'[g] # None =>
        fev'[g] \notin freeq' /\ \A h \in Fibers : fev'[h] = fev'[g] => h = g
  BY <1>2 DEF OwnSignal
<1>6. \A g \in Fibers : fpc'[g] = "published" /\ fev'[g] # None => waiter'[fev'[g]] = g
  BY <1>2, <1>4 DEF OwnSignal
<1>7. ASSUME NEW s \in armed'
      PROVE  /\ waiter'[s.wait.event] = s.wait.fiber /\ s.wait = Wait(s.wait.fiber)'
             /\ fpc'[s.wait.fiber] = "armed"
  <2>1. CASE s \in armed
    <3>1. s.wait.fiber \in Fibers
      BY <2>1 DEF EventTypeOK, NamedInv
    <3> QED BY <1>2, <1>4, <2>1, <3>1 DEF OwnSignal, Wait
  <2>2. CASE s \notin armed
    <3>1. s.wait = Wait(f)
      BY <1>2, <1>7, <2>2
    <3>2. s.wait.fiber = f /\ s.wait.event = fev[f]
      BY <3>1 DEF Wait
    <3> QED BY <1>2, <1>3, <1>4, <3>1, <3>2 DEF Wait
  <2> QED BY <2>1, <2>2
<1>8. \A g \in Fibers : fpc'[g] = "armed" /\ fev'[g] # None =>
        waiter'[fev'[g]] = g \/ Wait(g)' \in fired'
  BY <1>2, <1>3, <1>4 DEF OwnSignal, Wait
<1> QED BY <1>5, <1>6, <1>7, <1>8 DEF OwnSignal

LEMMA OwnRelease ==
  ASSUME NamedInv, OwnSignal, NEW w \in Workers, Release(w), wname[wfib[w]] = None
  PROVE  OwnSignal'
<1>1. PICK f \in Fibers : f = wfib[w]
  BY OneWorker DEF NamedInv, Release
<1>2. /\ fpc[f] = "armed" /\ fpc' = [fpc EXCEPT ![f] = "run"] /\ fev' = [fev EXCEPT ![f] = None]
      /\ freeq' = freeq \cup {fev[f]} /\ UNCHANGED <<waiter, uses, armed, fired>>
  BY <1>1 DEF Release
<1>3. fev[f] \in Events /\ fev[f] # None /\ status[f] = "RUNNING"
  BY <1>1, <1>2 DEF NamedInv, OpenWaits, EventTypeOK, FiberInv, WorkerStatus, Release
<1>4. waiter[fev[f]] # f
  BY <1>3 DEF NamedInv, OneWakeUp, Sleeps
<1>5. /\ \A g \in Fibers : fpc'[g] = IF g = f THEN "run" ELSE fpc[g]
      /\ \A g \in Fibers : fev'[g] = IF g = f THEN None ELSE fev[g]
  BY <1>2 DEF EventTypeOK, NamedInv
<1>6. \A g \in Fibers : fev'[g] # None =>
        fev'[g] \notin freeq' /\ \A h \in Fibers : fev'[h] = fev'[g] => h = g
  BY <1>2, <1>3, <1>5 DEF OwnSignal
<1>7. \A g \in Fibers : fpc'[g] = "published" /\ fev'[g] # None => waiter'[fev'[g]] = g
  BY <1>2, <1>5 DEF OwnSignal
<1>8. ASSUME NEW s \in armed'
      PROVE  /\ waiter'[s.wait.event] = s.wait.fiber /\ s.wait = Wait(s.wait.fiber)'
             /\ fpc'[s.wait.fiber] = "armed"
  <2>1. s \in armed /\ s.wait.fiber \in Fibers
    BY <1>2, <1>8 DEF EventTypeOK, NamedInv
  <2>2. /\ waiter[s.wait.event] = s.wait.fiber /\ s.wait = Wait(s.wait.fiber)
        /\ fpc[s.wait.fiber] = "armed"
    BY <2>1 DEF OwnSignal
  <2>3. s.wait.fiber # f
    BY <1>4, <2>2 DEF Wait
  <2> QED BY <1>2, <1>5, <2>1, <2>2, <2>3 DEF Wait
<1>9. \A g \in Fibers : fpc'[g] = "armed" /\ fev'[g] # None =>
        waiter'[fev'[g]] = g \/ Wait(g)' \in fired'
  BY <1>2, <1>5 DEF OwnSignal, Wait
<1> QED BY <1>6, <1>7, <1>8, <1>9 DEF OwnSignal

LEMMA OwnSignalled ==
  ASSUME Copies = 1, NamedInv, OwnSignal, NEW r \in Resumers, NEW s \in armed, Signal(r, s)
  PROVE  OwnSignal'
<1>1. PICK f \in Fibers, e \in Events : f = s.wait.fiber /\ e = s.wait.event
  BY DEF NamedInv, EventTypeOK
<1>2. /\ armed' = armed \ {s} /\ fired' = fired \cup {s.wait}
      /\ waiter' = [waiter EXCEPT ![e] = None] /\ UNCHANGED <<freeq, fpc, fev, uses>>
  BY <1>1 DEF Signal
<1>3. s.wait = Wait(f) /\ fpc[f] = "armed" /\ fev[f] = e /\ waiter[e] = f
  BY <1>1 DEF OwnSignal, Wait
<1>4. /\ \A a \in Events : waiter'[a] = IF a = e THEN None ELSE waiter[a]
      /\ \A g \in Fibers : fev[g] \in Events \cup {None}
      /\ \A g \in Fibers : Wait(g)' = Wait(g)
  BY <1>2 DEF EventTypeOK, NamedInv, Wait
<1>5. \A g \in Fibers : fev[g] = e => g = f
  BY <1>3 DEF OwnSignal
<1>6. \A g \in Fibers : fev'[g] # None =>
        fev'[g] \notin freeq' /\ \A h \in Fibers : fev'[h] = fev'[g] => h = g
  BY <1>2 DEF OwnSignal
<1>7. \A g \in Fibers : fpc'[g] = "published" /\ fev'[g] # None => waiter'[fev'[g]] = g
  BY <1>2, <1>3, <1>4, <1>5 DEF OwnSignal
<1>8. ASSUME NEW t \in armed'
      PROVE  /\ waiter'[t.wait.event] = t.wait.fiber /\ t.wait = Wait(t.wait.fiber)'
             /\ fpc'[t.wait.fiber] = "armed"
  <2>1. t \in armed /\ t # s /\ t.wait.fiber \in Fibers /\ t.wait.event \in Events
    BY <1>2, <1>8 DEF EventTypeOK, NamedInv
  <2>2. /\ waiter[t.wait.event] = t.wait.fiber /\ t.wait = Wait(t.wait.fiber)
        /\ fpc[t.wait.fiber] = "armed"
    BY <2>1 DEF OwnSignal
  <2>3. t.wait.event # e
    <3>1. SUFFICES ASSUME t.wait.event = e PROVE FALSE
      OBVIOUS
    <3>2. t.wait = s.wait
      BY <1>3, <2>2, <3>1
    <3>3. t = [wait |-> t.wait, copy |-> 1] /\ s = [wait |-> s.wait, copy |-> 1]
      <4>1. \A u \in armed : u = [wait |-> u.wait, copy |-> u.copy] /\ u.copy \in 1 .. 1
        BY DEF NamedInv, EventTypeOK
      <4>2. \A c \in 1 .. 1 : c = 1
        OBVIOUS
      <4> QED BY <2>1, <4>1, <4>2
    <3> QED BY <2>1, <3>2, <3>3
  <2> QED BY <1>2, <1>4, <2>1, <2>2, <2>3
<1>9. \A g \in Fibers : fpc'[g] = "armed" /\ fev'[g] # None =>
        waiter'[fev'[g]] = g \/ Wait(g)' \in fired'
  BY <1>2, <1>3, <1>4 DEF OwnSignal
<1> QED BY <1>6, <1>7, <1>8, <1>9 DEF OwnSignal

\* The calls that number the wait, and those that leave the event alone.
LEMMA OwnCall ==
  ASSUME NamedInv, OwnSignal, NEW w \in Workers,
         \/ CallWait(w) \/ Yield(w) \/ BecomeParkable(w)
         \/ (\E n \in Names : CallNamed(w, n)) \/ AddWaiter(w) \/ ArmNamed(w) \/ NamedReturn(w)
  PROVE  OwnSignal'
<1> USE DEF NamedInv, EventTypeOK
<1>1. wpc[w] # "loop"
  BY DEF CallWait, Yield, BecomeParkable, CallNamed, AddWaiter, ArmNamed, NamedReturn
<1>2. PICK f \in Fibers : f = wfib[w]
  BY <1>1, OneWorker
<1>3. UNCHANGED <<waiter, freeq, fev, armed, fired>>
  BY DEF CallWait, Yield, BecomeParkable, CallNamed, AddWaiter, ArmNamed, NamedReturn
<1>4. \A g \in Fibers \ {f} : fpc'[g] = fpc[g] /\ uses'[g] = uses[g]
  BY <1>2 DEF CallWait, Yield, BecomeParkable, CallNamed, AddWaiter, ArmNamed, NamedReturn
<1>5. CASE CallWait(w) \/ Yield(w) \/ BecomeParkable(w) \/ (\E n \in Names : CallNamed(w, n))
  <2>1. fpc[f] \in {"run", "acquired"} /\ fpc'[f] \in {"run", "acquire", "acquired", "parkable"}
    BY <1>2, <1>5 DEF CallWait, Yield, BecomeParkable, CallNamed
  <2> QED BY <1>3, <1>4, <2>1, OwnKept
<1>6. CASE AddWaiter(w) \/ ArmNamed(w) \/ NamedReturn(w)
  <2>1. fev[f] = None
    BY <1>2, <1>6 DEF OpenWaits, AddWaiter, ArmNamed, NamedReturn
  <2> QED BY <1>3, <1>4, <2>1, OwnKept
<1> QED BY <1>5, <1>6

LEMMA OwnNewTask ==
  ASSUME NamedInv, OwnSignal, NEW w \in Workers, NEW f \in Fibers, NewTask(w, f)
  PROVE  OwnSignal'
<1>1. fpc[f] # "armed"
  BY DEF NamedInv, NewTask, StartTask, EventStatus
<1>2. \A g \in Fibers \ {f} : uses'[g] = uses[g]
  BY DEF NewTask
<1> QED BY <1>1, <1>2, OwnKept DEF NewTask, NamedInv

LEMMA OwnStep ==
  Copies = 1 /\ NamedInv /\ OwnSignal /\ [NamedNext]_allVars => OwnSignal'
<1> SUFFICES ASSUME Copies = 1, NamedInv, OwnSignal, [NamedNext]_allVars PROVE OwnSignal'
  OBVIOUS
<1>0. EventTypeOK
  BY DEF NamedInv
<1>1. ASSUME NEW w \in Workers, DirectCode(w) PROVE OwnSignal'
  <2>1. CASE Leave(w) \/ TaskDone(w)
    BY <1>0, <2>1, OwnUnchanged DEF Leave, TaskDone
  <2> QED BY <1>1, <2>1, OwnAcquire, OwnPublish, OwnArm, OwnRelease, OwnCall
          DEF DirectCode, FiberCode
<1>2. ASSUME NEW w \in Workers, NamedCode(w) PROVE OwnSignal'
  <2>1. CASE Leave(w)
    BY <1>0, <2>1, OwnUnchanged DEF Leave
  <2> QED BY <1>2, <2>1, OwnCall DEF NamedCode
<1>3. ASSUME NEW r \in Resumers, NEW s \in armed, Signal(r, s) PROVE OwnSignal'
  BY <1>3, OwnSignalled
<1>4. ASSUME NEW w \in Workers, NEW f \in Fibers, NewTask(w, f) PROVE OwnSignal'
  BY <1>4, OwnNewTask
<1>5. ASSUME UNCHANGED waitVars PROVE OwnSignal'
  BY <1>0, <1>5, OwnUnchanged
<1>6. ASSUME NEW r \in Resumers, ResumerCode(r) PROVE OwnSignal'
  <2>1. CASE WakeNext(r) \/ \E s \in armedAll : SignalAll(r, s)
    BY <1>5, <2>1 DEF WakeNext, SignalAll
  <2> QED BY <1>3, <1>5, <1>6, <2>1 DEF ResumerCode
<1>7. ASSUME NEW w \in Workers, WorkerCode(w) \/ BareSuspend(w) PROVE OwnSignal'
  BY <1>1, <1>2, <1>5, <1>7 DEF WorkerCode, BareSuspend
<1>8. ASSUME NEW r \in Resumers, NEW f \in Fibers,
             BareResume(r, f) \/ \E n \in Names : SignalOne(r, f, n)
      PROVE  OwnSignal'
  BY <1>5, <1>8 DEF BareResume, SignalOne
<1>9. CASE UNCHANGED allVars
  BY <1>5, <1>9 DEF allVars
<1> QED BY <1>4, <1>6, <1>7, <1>8, <1>9 DEF NamedNext
-----------------------------------------------------------------------------
(* The theorems.                                                           *)

LEMMA NamedAlways == NamedSpec => []NamedInv
<1>1. NamedInit => NamedInv
  BY NamedInitInv
<1>2. NamedInv /\ [NamedNext]_allVars => NamedInv'
  BY NamedStep
<1> QED BY <1>1, <1>2, PTL DEF NamedSpec

\* Whatever waits on events do, named or direct, armed or not, they use the
\* fibers as the life cycle of Fiber.cpp and Thread::Worker allows.
THEOREM EventsUseFibers == NamedSpec => FiberSpec
<1>1. NamedInit => FiberInit
  BY DEF NamedInit, EventInit
<1>2. NamedInv /\ [NamedNext]_allVars => [FiberNext]_fiberVars
  BY NamedStep
<1> QED BY <1>1, <1>2, NamedAlways, PTL DEF NamedSpec, FiberSpec

\* Behind every event a fiber is in one place and is picked up only when its
\* registers are saved, however the signals race with the worker that parks it.
THEOREM EventsPark == NamedSpec => [](AtMostOnePlace /\ NeverRunUnsaved)
<1>1. NamedInv => AtMostOnePlace /\ NeverRunUnsaved
  BY DEF NamedInv, FiberInv
<1> QED BY <1>1, NamedAlways, PTL

\* Event::waiters holds only fibers that wait on that name and have not been
\* woken: SignalAll and Signal(t) take a fiber out before they resume it, and a
\* fiber registers when it is parkable, not before.
THEOREM EventsRegister == NamedSpec => []RegisteredIsWaiting
<1>1. NamedInv => RegisteredIsWaiting
  <2> SUFFICES ASSUME NamedInv, NEW n \in Names, NEW f \in waiters[n]
               PROVE  /\ wname[f] = n /\ fpc[f] \in {"published", "armed"}
                      /\ status[f] \in {"WANTS_SUSPEND", "SUSPENDED"}
                      /\ \A r \in Resumers : f \notin toWake[r]
    BY DEF RegisteredIsWaiting
  <2> QED BY DEF NamedInv, OneWakeUp, Sleeps
<1> QED BY <1>1, NamedAlways, PTL

\* When the armed party signals once, as WaitOnEventDirectArmed asks of it, the
\* wait that DirectEvent and EventPool end is the one the signal was armed for:
\* an event that went back to the pool has no signal under way any more.
THEOREM EventsOwnSignal == ASSUME Copies = 1 PROVE NamedSpec => []WokenByOwnSignal
<1>1. NamedInit => OwnSignal
  BY NamedInitInv
<1>2. NamedInv /\ OwnSignal /\ [NamedNext]_allVars => OwnSignal'
  BY OwnStep
<1>3. NamedInv /\ OwnSignal => WokenByOwnSignal
  <2> SUFFICES ASSUME NamedInv, OwnSignal, NEW w \in Workers,
                      wpc[w] = "on", fpc[wfib[w]] = "armed", fev[wfib[w]] # None
               PROVE  Wait(wfib[w]) \in fired
    BY DEF WokenByOwnSignal
  <2>1. wfib[w] \in Fibers /\ status[wfib[w]] = "RUNNING"
    BY DEF NamedInv, FiberInv, WorkerStatus
  <2>2. fev[wfib[w]] \in Events
    BY <2>1 DEF NamedInv, EventTypeOK
  <2>3. waiter[fev[wfib[w]]] # wfib[w]
    BY <2>1, <2>2 DEF NamedInv, OneWakeUp, Sleeps
  <2> QED BY <2>1, <2>3 DEF OwnSignal
<1> QED BY <1>1, <1>2, <1>3, NamedAlways, PTL DEF NamedSpec
=============================================================================
