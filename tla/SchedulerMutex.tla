--------------------------- MODULE SchedulerMutex ---------------------------
(***************************************************************************)
(* SchedulerMutex (TaskScheduler.cpp): a lock on which a fiber suspends    *)
(* and a thread without a fiber spins.  Unlock hands the lock to the fiber *)
(* that has waited longest and resumes it.  The sections under spinLock    *)
(* and under holderLock touch nothing else that is shared, so each is one  *)
(* step.                                                                   *)
(***************************************************************************)
EXTENDS Fiber, Sequences

CONSTANTS
  Spinners,    \* fast jobs and other threads that lock without a fiber
  MaxLocks     \* bound on the Lock calls of one caller

ASSUME LockersResume == Fibers \cup Spinners \subseteq Resumers
ASSUME SpinnersHaveNoFiber == Fibers \cap Spinners = {}
ASSUME LockBounds == MaxLocks \in Nat

VARIABLES
  locked,      \* SchedulerMutex::locked
  lockHolder,  \* SchedulerMutex::lockHolder
  waitingFibers,
  pc,          \* where a fiber or spinner is in Lock and Unlock
  nextFiber,   \* Unlock's local nextFiber
  calls        \* Lock calls made, for the bound

Lockers == Fibers \cup Spinners
mutexVars == <<locked, lockHolder, waitingFibers, pc, nextFiber, calls>>
vars == <<fiberVars, mutexVars>>

MutexInit ==
  /\ FiberInit
  /\ locked = FALSE /\ lockHolder = None /\ waitingFibers = << >>
  /\ pc = [l \in Lockers |-> "run"] /\ nextFiber = [l \in Lockers |-> None]
  /\ calls = [l \in Lockers |-> 0]

At(l, p) == pc' = [pc EXCEPT ![l] = p]

\* A fiber executes only while a worker runs it, a spinner always.
Executes(l) == l \in Spinners \/ \E w \in Workers : wpc[w] = "on" /\ wfib[w] = l
-----------------------------------------------------------------------------
(* Lock and Try_Lock.                                                      *)

CallLock(l) ==
  /\ Executes(l) /\ pc[l] = "run" /\ calls[l] < MaxLocks
  /\ At(l, "lock") /\ calls' = [calls EXCEPT ![l] = @ + 1]
  /\ UNCHANGED <<fiberVars, locked, lockHolder, waitingFibers, nextFiber>>

\* Under spinLock: the lock is free.
LockFree(l) ==
  /\ Executes(l) /\ pc[l] = "lock" /\ ~locked
  /\ locked' = TRUE /\ At(l, "acquired")
  /\ UNCHANGED <<fiberVars, lockHolder, waitingFibers, nextFiber, calls>>

\* Under spinLock: it is taken; a fiber queues itself (a spinner tries again).
LockContended(f) ==
  /\ f \in Fibers /\ Executes(f) /\ pc[f] = "lock" /\ locked
  /\ waitingFibers' = Append(waitingFibers, f) /\ At(f, "queued")
  /\ UNCHANGED <<fiberVars, locked, lockHolder, nextFiber, calls>>

\* Thread::Suspend(current), after spinLock was released.
LockSuspend(w) ==
  /\ wpc[w] = "on" /\ pc[wfib[w]] = "queued" /\ AskSuspend(w)
  /\ At(wfib[w], "suspended")
  /\ UNCHANGED <<locked, lockHolder, waitingFibers, nextFiber, calls>>

\* Under holderLock, with the lock taken or after the resume: lockHolder.
SetHolder(l) ==
  /\ Executes(l) /\ pc[l] \in {"acquired", "suspended"}
  /\ lockHolder' = l /\ At(l, "critical")
  /\ UNCHANGED <<fiberVars, locked, waitingFibers, nextFiber, calls>>
-----------------------------------------------------------------------------
(* Unlock.                                                                 *)

ClearHolder(l) ==
  /\ Executes(l) /\ pc[l] = "critical"
  /\ lockHolder' = None /\ At(l, "release")
  /\ UNCHANGED <<fiberVars, locked, waitingFibers, nextFiber, calls>>

\* Mutant: the lock is freed although it is handed over.
ReleaseFrees(l) ==
  /\ Executes(l) /\ pc[l] = "release" /\ locked' = FALSE
  /\ \/ /\ waitingFibers # << >>
        /\ nextFiber' = [nextFiber EXCEPT ![l] = Head(waitingFibers)]
        /\ waitingFibers' = Tail(waitingFibers) /\ At(l, "resume")
     \/ waitingFibers = << >> /\ At(l, "run") /\ UNCHANGED <<waitingFibers, nextFiber>>
  /\ UNCHANGED <<fiberVars, lockHolder, calls>>

\* Mutant: the fiber that gets the lock stays in the queue.
ReleaseKeepsWaiter(l) ==
  /\ Executes(l) /\ pc[l] = "release"
  /\ \/ /\ waitingFibers # << >>
        /\ nextFiber' = [nextFiber EXCEPT ![l] = Head(waitingFibers)]
        /\ At(l, "resume") /\ UNCHANGED locked
     \/ waitingFibers = << >> /\ At(l, "run") /\ locked' = FALSE /\ UNCHANGED nextFiber
  /\ UNCHANGED <<fiberVars, waitingFibers, lockHolder, calls>>

\* Under spinLock: hand the lock over, or free it.
Release(l) ==
  /\ Executes(l) /\ pc[l] = "release"
  /\ \/ /\ waitingFibers # << >>
        /\ nextFiber' = [nextFiber EXCEPT ![l] = Head(waitingFibers)]
        /\ waitingFibers' = Tail(waitingFibers) /\ UNCHANGED locked
        /\ At(l, "resume")
     \/ /\ waitingFibers = << >>
        /\ locked' = FALSE /\ UNCHANGED <<waitingFibers, nextFiber>>
        /\ At(l, "run")
  /\ UNCHANGED <<fiberVars, lockHolder, calls>>

\* Thread::Resume(nextFiber)
ResumeNext(l) ==
  /\ Executes(l) /\ pc[l] = "resume"
  /\ ResumeCall(l, nextFiber[l]) /\ At(l, "resuming")
  /\ UNCHANGED <<status, saved, pool, queue, workerVars, locked, lockHolder,
                 waitingFibers, nextFiber, calls>>

UnlockReturns(l) ==
  /\ Executes(l) /\ pc[l] = "resuming" /\ rpc[l] = "idle"
  /\ At(l, "run") /\ nextFiber' = [nextFiber EXCEPT ![l] = None]
  /\ UNCHANGED <<fiberVars, locked, lockHolder, waitingFibers, calls>>

LockerCode(l) ==
  \/ CallLock(l) \/ LockFree(l) \/ LockContended(l) \/ SetHolder(l)
  \/ ClearHolder(l) \/ Release(l) \/ ResumeNext(l) \/ UnlockReturns(l)
-----------------------------------------------------------------------------
Leave(w) ==
  /\ wpc[w] = "leaving" /\ SwitchOut(w)
  /\ UNCHANGED mutexVars

TaskDone(w) ==
  /\ wpc[w] = "on" /\ pc[wfib[w]] = "run" /\ calls[wfib[w]] = MaxLocks
  /\ Finish(w)
  /\ UNCHANGED mutexVars

NewTask(w, f) ==
  /\ calls[f] < MaxLocks /\ StartTask(w, f)
  /\ UNCHANGED mutexVars

Worker(w) ==
  \/ WorkerStep(w) /\ UNCHANGED mutexVars
  \/ LockSuspend(w) \/ Leave(w) \/ TaskDone(w)
  \/ \E f \in Fibers : NewTask(w, f)

Next ==
  \/ \E l \in Lockers : LockerCode(l)
  \/ \E w \in Workers : Worker(w)
  \/ \E r \in Resumers : Resume(r) /\ UNCHANGED mutexVars

\* Workers, spinners and Resume calls keep running; every critical section
\* ends.  A spinner may lose the race for the lock again and again, so only
\* strong fairness gets it the lock.
Spec ==
  /\ MutexInit /\ [][Next]_vars
  /\ \A l \in Lockers : WF_vars(LockerCode(l)) /\ SF_vars(LockFree(l))
  /\ \A w \in Workers : WF_vars(Worker(w))
  /\ \A r \in Resumers : WF_vars(Resume(r) /\ UNCHANGED mutexVars)
-----------------------------------------------------------------------------
(* Properties.                                                             *)

\* Between Lock's return and Unlock's hand-over a caller is alone, also when
\* the lock passes from a fiber to a resumed fiber without being freed.
Owns(l) ==
  \/ pc[l] \in {"acquired", "critical", "release"}
  \/ pc[l] = "suspended" /\ Executes(l)
MutualExclusion ==
  \A k, l \in Lockers : Owns(k) /\ Owns(l) => k = l

\* A fiber leaves Lock only with the lock: a queued fiber that runs again was
\* handed the lock and is in nobody's queue any more.
GrantedNotQueued ==
  \A f \in Fibers :
    pc[f] = "suspended" /\ Executes(f) =>
      locked /\ \A i \in 1 .. Len(waitingFibers) : waitingFibers[i] # f

\* Every fiber that calls Lock gets the lock.
LockGranted == \A f \in Fibers : pc[f] = "lock" ~> pc[f] = "critical"
=============================================================================
