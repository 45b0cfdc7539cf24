---------------------------- MODULE SchedulerSync ----------------------------
(***************************************************************************)
(* SchedulerSemaphore and SchedulerConditionVariable on top of the mutex.  *)
(* A fiber that waits on the condition variable queues a semaphore that    *)
(* lives on its own stack, unlocks the mutex, waits on the semaphore and   *)
(* locks the mutex again; a notifier takes semaphores out of the queue and *)
(* signals them.  The sections under a spinLock are one step each.         *)
(*                                                                         *)
(* The client calls Lock and Unlock, inside the lock or outside of it the  *)
(* condition variable once, or Wait and Signal on a semaphore of its own.  *)
(***************************************************************************)
EXTENDS SchedulerMutex

CONSTANTS
  Gate,         \* the client's semaphore
  GatePermits   \* its initialPermits; its maxPermits too

ASSUME GateAssumption == Gate \notin Fibers /\ GatePermits \in Nat
ASSUME LockersFinite == IsFiniteSet(Fibers \cup Spinners)

VARIABLES
  permits,      \* SchedulerSemaphore::permits, of the gate and of each fiber's
                \* localWaitSemaphore
  semWaiters,   \* SchedulerSemaphore::waitingFibers
  waitingQueue, \* SchedulerConditionVariable::waitingQueue
  at,           \* where a caller is in Wait, Signal and Notify
  sem,          \* the semaphore it waits on
  toSignal      \* the semaphores it has still to signal (nextSemaphore, localQueue)

syncVars == <<permits, semWaiters, waitingQueue, at, sem, toSignal>>
allVars == <<vars, syncVars>>
Sems == Fibers \cup {Gate}
maxPermits(s) == IF s = Gate THEN GatePermits ELSE 1

SyncInit ==
  /\ MutexInit
  /\ permits = [s \in Sems |-> IF s = Gate THEN GatePermits ELSE 0]
  /\ semWaiters = [s \in Sems |-> << >>] /\ waitingQueue = << >>
  /\ at = [l \in Lockers |-> "plain"] /\ sem = [l \in Lockers |-> Gate]
  /\ toSignal = [l \in Lockers |-> << >>]

Goto(l, p) == at' = [at EXCEPT ![l] = p]
-----------------------------------------------------------------------------
(* SchedulerSemaphore::Wait and Try_Wait                                   *)

\* The client takes a permit of the gate.
CallWait(l) ==
  /\ Executes(l) /\ pc[l] = "run" /\ at[l] = "plain" /\ calls[l] < MaxLocks
  /\ calls' = [calls EXCEPT ![l] = @ + 1]
  /\ Goto(l, "wait") /\ sem' = [sem EXCEPT ![l] = Gate]
  /\ UNCHANGED <<fiberVars, locked, lockHolder, waitingFibers, pc, nextFiber, permits,
                 semWaiters, waitingQueue, toSignal>>

\* With a permit: inside the gate, or back in the condition variable's Wait,
\* which locks the mutex again.
Granted(l) ==
  IF sem[l] = Gate THEN Goto(l, "inside") /\ UNCHANGED pc
  ELSE Goto(l, "relock") /\ At(l, "lock")

\* Mutant: the permit is tested and not taken.
WaitKeepsPermit(l) ==
  /\ Executes(l) /\ at[l] = "wait" /\ permits[sem[l]] > 0
  /\ Granted(l)
  /\ UNCHANGED <<fiberVars, locked, lockHolder, waitingFibers, nextFiber, calls, permits,
                 semWaiters, waitingQueue, sem, toSignal>>

WaitTakes(l) ==
  /\ Executes(l) /\ at[l] = "wait" /\ permits[sem[l]] > 0
  /\ permits' = [permits EXCEPT ![sem[l]] = @ - 1] /\ Granted(l)
  /\ UNCHANGED <<fiberVars, locked, lockHolder, waitingFibers, nextFiber, calls,
                 semWaiters, waitingQueue, sem, toSignal>>

\* Without one a fiber queues itself (a spinner tries again) ...
WaitQueues(f) ==
  /\ f \in Fibers /\ Executes(f) /\ at[f] = "wait" /\ permits[sem[f]] = 0
  /\ semWaiters' = [semWaiters EXCEPT ![sem[f]] = Append(@, f)] /\ Goto(f, "queued")
  /\ UNCHANGED <<vars, permits, waitingQueue, sem, toSignal>>

\* ... and suspends after spinLock was released.
WaitSuspend(w) ==
  /\ wpc[w] = "on" /\ at[wfib[w]] = "queued" /\ AskSuspend(w)
  /\ Goto(wfib[w], "suspended")
  /\ UNCHANGED <<mutexVars, permits, semWaiters, waitingQueue, sem, toSignal>>

WaitResumed(f) ==
  /\ Executes(f) /\ at[f] = "suspended" /\ Granted(f)
  /\ UNCHANGED <<fiberVars, locked, lockHolder, waitingFibers, nextFiber, calls, permits,
                 semWaiters, waitingQueue, sem, toSignal>>
-----------------------------------------------------------------------------
(* SchedulerSemaphore::Signal, for the next semaphore of toSignal           *)

LeaveGate(l) ==
  /\ Executes(l) /\ at[l] = "inside"
  /\ Goto(l, "signal") /\ toSignal' = [toSignal EXCEPT ![l] = <<Gate>>]
  /\ UNCHANGED <<vars, permits, semWaiters, waitingQueue, sem>>

\* Mutant: a permit is added also when it is handed to a fiber.
SignalAddsPermit(l) ==
  /\ Executes(l) /\ at[l] = "signal" /\ toSignal[l] # << >>
  /\ LET s == Head(toSignal[l]) IN
       /\ permits' = [permits EXCEPT ![s] = IF @ < maxPermits(s) THEN @ + 1 ELSE @]
       /\ \/ /\ semWaiters[s] # << >>
             /\ nextFiber' = [nextFiber EXCEPT ![l] = Head(semWaiters[s])]
             /\ semWaiters' = [semWaiters EXCEPT ![s] = Tail(@)]
             /\ Goto(l, "resume") /\ UNCHANGED toSignal
          \/ /\ semWaiters[s] = << >>
             /\ toSignal' = [toSignal EXCEPT ![l] = Tail(@)]
             /\ UNCHANGED <<at, semWaiters, nextFiber>>
  /\ UNCHANGED <<fiberVars, locked, lockHolder, waitingFibers, pc, calls, waitingQueue, sem>>

Signal(l) ==
  /\ Executes(l) /\ at[l] = "signal" /\ toSignal[l] # << >>
  /\ LET s == Head(toSignal[l]) IN
       \/ /\ semWaiters[s] # << >>
          /\ nextFiber' = [nextFiber EXCEPT ![l] = Head(semWaiters[s])]
          /\ semWaiters' = [semWaiters EXCEPT ![s] = Tail(@)]
          /\ Goto(l, "resume") /\ UNCHANGED <<permits, toSignal>>
       \/ /\ semWaiters[s] = << >>
          /\ permits' = [permits EXCEPT ![s] = IF @ < maxPermits(s) THEN @ + 1 ELSE @]
          /\ toSignal' = [toSignal EXCEPT ![l] = Tail(@)]
          /\ UNCHANGED <<at, semWaiters, nextFiber>>
  /\ UNCHANGED <<fiberVars, locked, lockHolder, waitingFibers, pc, calls, waitingQueue, sem>>

SignalResume(l) ==
  /\ Executes(l) /\ at[l] = "resume"
  /\ ResumeCall(l, nextFiber[l]) /\ Goto(l, "resuming")
  /\ UNCHANGED <<status, saved, pool, queue, workerVars, mutexVars, permits, semWaiters,
                 waitingQueue, sem, toSignal>>

SignalReturns(l) ==
  /\ Executes(l) /\ at[l] = "resuming" /\ rpc[l] = "idle"
  /\ Goto(l, "signal") /\ toSignal' = [toSignal EXCEPT ![l] = Tail(@)]
  /\ nextFiber' = [nextFiber EXCEPT ![l] = None]
  /\ UNCHANGED <<fiberVars, locked, lockHolder, waitingFibers, pc, calls, permits, semWaiters,
                 waitingQueue, sem>>

\* Nothing left to signal: Signal, Notify_One or Notify_All returns.
Signalled(l) ==
  /\ Executes(l) /\ at[l] = "signal" /\ toSignal[l] = << >>
  /\ Goto(l, IF pc[l] = "critical" THEN "used" ELSE "plain")
  /\ UNCHANGED <<vars, permits, semWaiters, waitingQueue, sem, toSignal>>
-----------------------------------------------------------------------------
(* SchedulerConditionVariable                                              *)

\* Wait, with the mutex: a fiber queues its local semaphore, a spinner nothing.
CvWait(l) ==
  /\ Executes(l) /\ pc[l] = "critical" /\ at[l] = "plain" /\ Goto(l, "cv")
  /\ waitingQueue' = IF l \in Fibers THEN Append(waitingQueue, l) ELSE waitingQueue
  /\ UNCHANGED <<vars, permits, semWaiters, sem, toSignal>>

\* Once the mutex is unlocked: wait on the semaphore, or just lock again.
CvUnlocked(l) ==
  /\ Executes(l) /\ pc[l] = "run" /\ at[l] = "cv"
  /\ \/ /\ l \in Fibers /\ Goto(l, "wait") /\ sem' = [sem EXCEPT ![l] = l]
        /\ UNCHANGED pc
     \/ l \in Spinners /\ Goto(l, "relock") /\ At(l, "lock") /\ UNCHANGED sem
  /\ UNCHANGED <<fiberVars, locked, lockHolder, waitingFibers, nextFiber, calls, permits,
                 semWaiters, waitingQueue, toSignal>>

\* With the mutex again Wait returns; the local semaphore is gone.
CvReturn(l) ==
  /\ Executes(l) /\ pc[l] = "critical" /\ at[l] = "relock" /\ Goto(l, "used")
  /\ sem' = [sem EXCEPT ![l] = Gate]
  /\ UNCHANGED <<vars, permits, semWaiters, waitingQueue, toSignal>>

\* Mutant: the semaphore stays in the queue.
NotifyKeeps(l, n) ==
  /\ Executes(l) /\ at[l] = "plain" /\ waitingQueue # << >>
  /\ pc[l] = "critical" \/ (pc[l] = "run" /\ calls[l] < MaxLocks)
  /\ calls' = IF pc[l] = "run" THEN [calls EXCEPT ![l] = @ + 1] ELSE calls
  /\ toSignal' = [toSignal EXCEPT ![l] = SubSeq(waitingQueue, 1, n)]
  /\ Goto(l, "signal")
  /\ UNCHANGED <<fiberVars, locked, lockHolder, waitingFibers, pc, nextFiber, permits,
                 semWaiters, waitingQueue, sem>>

\* Notify_One takes the first semaphore, Notify_All the whole queue.
Notify(l, n) ==
  /\ Executes(l) /\ at[l] = "plain" /\ waitingQueue # << >>
  /\ pc[l] = "critical" \/ (pc[l] = "run" /\ calls[l] < MaxLocks)
  /\ calls' = IF pc[l] = "run" THEN [calls EXCEPT ![l] = @ + 1] ELSE calls
  /\ toSignal' = [toSignal EXCEPT ![l] = SubSeq(waitingQueue, 1, n)]
  /\ waitingQueue' = SubSeq(waitingQueue, n + 1, Len(waitingQueue))
  /\ Goto(l, "signal")
  /\ UNCHANGED <<fiberVars, locked, lockHolder, waitingFibers, pc, nextFiber, permits,
                 semWaiters, sem>>

Notify_One(l) == Notify(l, 1)
Notify_All(l) == Len(waitingQueue) > 1 /\ Notify(l, Len(waitingQueue))
-----------------------------------------------------------------------------
\* The mutex's own steps, around the calls above: Unlock inside Wait, and the
\* client's Unlock, which it calls when it has no other call open.
MutexStep(l) ==
  \/ /\ at[l] = "plain" /\ CallLock(l) /\ UNCHANGED syncVars
  \/ /\ LockFree(l) \/ LockContended(l) \/ SetHolder(l) \/ Release(l) \/ ResumeNext(l)
        \/ UnlockReturns(l)
     /\ UNCHANGED syncVars
  \/ /\ at[l] \in {"plain", "used", "cv"} /\ ClearHolder(l)
     /\ Goto(l, IF at[l] = "used" THEN "plain" ELSE at[l])
     /\ UNCHANGED <<permits, semWaiters, waitingQueue, sem, toSignal>>

SyncCode(l) ==
  \/ MutexStep(l)
  \/ CallWait(l) \/ WaitTakes(l) \/ WaitQueues(l) \/ WaitResumed(l)
  \/ LeaveGate(l) \/ Signal(l) \/ SignalResume(l) \/ SignalReturns(l) \/ Signalled(l)
  \/ CvWait(l) \/ CvUnlocked(l) \/ CvReturn(l) \/ Notify_One(l) \/ Notify_All(l)

SyncWorker(w) ==
  \/ WorkerStep(w) /\ UNCHANGED <<mutexVars, syncVars>>
  \/ (LockSuspend(w) \/ Leave(w)) /\ UNCHANGED syncVars
  \/ wpc[w] = "on" /\ at[wfib[w]] = "plain" /\ TaskDone(w) /\ UNCHANGED syncVars
  \/ WaitSuspend(w)
  \/ \E f \in Fibers : NewTask(w, f) /\ UNCHANGED syncVars

SyncNext ==
  \/ \E l \in Lockers : SyncCode(l)
  \/ \E w \in Workers : SyncWorker(w)
  \/ \E r \in Resumers : Resume(r) /\ UNCHANGED <<mutexVars, syncVars>>

SyncSpec ==
  /\ SyncInit /\ [][SyncNext]_allVars
  /\ \A l \in Lockers : WF_allVars(SyncCode(l)) /\ SF_allVars(LockFree(l) /\ UNCHANGED syncVars)
  /\ \A w \in Workers : WF_allVars(SyncWorker(w))
  /\ \A r \in Resumers : WF_allVars(Resume(r) /\ UNCHANGED <<mutexVars, syncVars>>)
-----------------------------------------------------------------------------
(* Properties.                                                             *)

\* A caller has a permit from the moment Wait takes one or Signal takes the
\* fiber out of the queue (not only when the fiber runs again).
Queued(f, s) == \E i \in 1 .. Len(semWaiters[s]) : semWaiters[s][i] = f
HasPermit(l) ==
  \/ at[l] = "inside"
  \/ at[l] = "signal" /\ toSignal[l] = <<Gate>>
  \/ sem[l] = Gate /\ at[l] \in {"queued", "suspended"} /\ ~Queued(l, Gate)

\* Permits are neither made nor lost: what is left and what callers have, or
\* were handed while they sleep, add up to the initial number.
PermitsConserved ==
  permits[Gate] + Cardinality({l \in Lockers : HasPermit(l)}) = GatePermits

\* A semaphore that is in the queue of the condition variable or in the hands
\* of a notifier is that of a fiber that is still in Wait: nobody signals a
\* semaphore whose stack frame is gone, and nobody wakes one waiter twice.
InCvWait(f) == at[f] \in {"cv", "wait", "queued", "suspended"} /\ (at[f] # "cv" => sem[f] = f)
HandlesAlive ==
  /\ \A i \in 1 .. Len(waitingQueue) : InCvWait(waitingQueue[i])
  /\ \A i, j \in 1 .. Len(waitingQueue) : waitingQueue[i] = waitingQueue[j] => i = j
  /\ \A l \in Lockers : at[l] = "signal" /\ toSignal[l] # << >> /\ Head(toSignal[l]) # Gate =>
       InCvWait(Head(toSignal[l]))
=============================================================================
