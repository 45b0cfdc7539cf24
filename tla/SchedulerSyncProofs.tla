------------------------- MODULE SchedulerSyncProofs -------------------------
(***************************************************************************)
(* Mutex, semaphore and condition variable for any number of fibers and    *)
(* spinning threads.  The invariant follows three things through hand-over *)
(* and sleep: the wake-up of a blocked fiber, which is in one queue, with  *)
(* one caller that is about to resume it, or in one Resume call; the lock, *)
(* which a fiber owns from the moment it is taken out of waitingFibers;    *)
(* and the semaphore of a wait on the condition variable, which is in one  *)
(* queue or with one notifier until it is signalled.                       *)
(***************************************************************************)
EXTENDS SchedulerSync, FiberProofs, FiniteSetTheorems, SequenceTheorems

InSeq(s, x) == \E i \in 1 .. Len(s) : s[i] = x
Distinct(s) == \A i, j \in 1 .. Len(s) : s[i] = s[j] => i = j

LockPc == {"run", "lock", "acquired", "queued", "suspended", "critical", "release",
           "resume", "resuming"}
SyncAt == {"plain", "wait", "queued", "suspended", "inside", "signal", "resume",
           "resuming", "cv", "relock", "used"}

SyncTypeOK ==
  /\ locked \in BOOLEAN
  /\ waitingFibers \in Seq(Fibers)
  /\ pc \in [Lockers -> LockPc]
  /\ nextFiber \in [Lockers -> Fibers \cup {None}]
  /\ permits \in [Sems -> Nat]
  /\ semWaiters \in [Sems -> Seq(Fibers)]
  /\ waitingQueue \in Seq(Fibers)
  /\ at \in [Lockers -> SyncAt]
  /\ sem \in [Lockers -> Sems]
  /\ toSignal \in [Lockers -> Seq(Sems)]

\* Which calls may be open together, and what is known inside each.
OpenCalls ==
  \A l \in Lockers :
    /\ at[l] = "used" => pc[l] = "critical"
    /\ at[l] = "cv" => pc[l] \in {"critical", "release", "resume", "resuming", "run"}
    /\ at[l] \in {"wait", "queued", "suspended", "inside"} => pc[l] = "run"
    /\ at[l] \in {"signal", "resume", "resuming"} => pc[l] \in {"run", "critical"}
    /\ at[l] = "relock" => pc[l] \in {"lock", "acquired", "queued", "suspended", "critical"}
    /\ pc[l] = "resume" \/ at[l] = "resume" => nextFiber[l] \in Fibers
    /\ sem[l] \in {Gate, l}
    /\ l \in Spinners =>
         sem[l] = Gate /\ pc[l] \notin {"queued", "suspended"} /\ at[l] \notin {"queued", "suspended"}
    /\ at[l] \notin {"wait", "queued", "suspended", "relock"} => sem[l] = Gate

\* A fiber is inside a call only while it runs, or suspended.
SyncStatus ==
  \A f \in Fibers :
    /\ pc[f] \notin {"run", "suspended"} => status[f] = "RUNNING"
    /\ at[f] \notin {"plain", "suspended"} /\ pc[f] # "suspended" => status[f] = "RUNNING"
    /\ pc[f] = "suspended" \/ at[f] = "suspended" => status[f] \notin {"DEAD", "WANTS_YIELD"}
    /\ pc[f] = "run" /\ at[f] = "plain" => status[f] \in {"READY", "RUNNING", "DEAD"}

Waits(f) ==
  \/ pc[f] = "queued" \/ at[f] = "queued"
  \/ (pc[f] = "suspended" \/ at[f] = "suspended") /\ status[f] \in {"WANTS_SUSPEND", "SUSPENDED"}

\* l is about to resume f, or r is in a Resume call of f.
Hands(l, f) == (pc[l] = "resume" \/ at[l] = "resume") /\ nextFiber[l] = f
Resuming(r, f) == rpc[r] \in {"load", "cas_suspended", "cas_wants"} /\ rfib[r] = f

\* The wake-up of a blocked fiber is in one place.
OneWakeUp ==
  /\ Distinct(waitingFibers) /\ \A s \in Sems : Distinct(semWaiters[s])
  /\ \A f \in Fibers :
       /\ InSeq(waitingFibers, f) => pc[f] \in {"queued", "suspended"} /\ Waits(f)
       /\ \A s \in Sems : InSeq(semWaiters[s], f) =>
            at[f] \in {"queued", "suspended"} /\ sem[f] = s /\ Waits(f)
  /\ \A f \in Fibers : \A l \in Lockers : Hands(l, f) =>
       /\ Waits(f) /\ ~InSeq(waitingFibers, f) /\ \A s \in Sems : ~InSeq(semWaiters[s], f)
       /\ \A k \in Lockers : Hands(k, f) => k = l
       /\ \A r \in Resumers : ~Resuming(r, f)
  /\ \A f \in Fibers : \A r \in Resumers : Resuming(r, f) =>
       /\ Waits(f) /\ ~InSeq(waitingFibers, f) /\ \A s \in Sems : ~InSeq(semWaiters[s], f)
       /\ \A q \in Resumers : Resuming(q, f) => q = r

\* The lock has an owner from LockFree or the hand-over to Release.
HasLock(l) ==
  \/ pc[l] \in {"acquired", "critical", "release"}
  \/ pc[l] \in {"queued", "suspended"} /\ ~InSeq(waitingFibers, l)
LockOwner ==
  /\ \A k, l \in Lockers : HasLock(k) /\ HasLock(l) => k = l
  /\ locked <=> \E l \in Lockers : HasLock(l)
  /\ waitingFibers # << >> => locked

\* The semaphores that l has still to signal.
Todo(l) ==
  IF at[l] = "signal" THEN toSignal[l]
  ELSE IF at[l] \in {"resume", "resuming"} THEN Tail(toSignal[l]) ELSE << >>

\* The handle of f has not been signalled: f is in Wait and stays there.
Unsignalled(f) ==
  /\ InCvWait(f) /\ permits[f] = 0
  /\ at[f] \in {"queued", "suspended"} => InSeq(semWaiters[f], f)
Handles ==
  /\ Distinct(waitingQueue)
  /\ \A f \in Fibers : InSeq(waitingQueue, f) =>
       Unsignalled(f) /\ \A l \in Lockers : ~InSeq(Todo(l), f)
  /\ \A l \in Lockers :
       /\ Distinct(Todo(l))
       /\ \A f \in Fibers : InSeq(Todo(l), f) =>
            Unsignalled(f) /\ \A k \in Lockers : InSeq(Todo(k), f) => k = l
       /\ InSeq(Todo(l), Gate) => toSignal[l] = <<Gate>>
       /\ at[l] \in {"resume", "resuming"} => toSignal[l] # << >>

\* A local semaphore has a permit only if it was signalled before its fiber
\* got to wait on it: a new Wait starts without one.
LocalPermits ==
  \A f \in Fibers :
    /\ permits[f] <= 1
    /\ permits[f] = 1 => at[f] = "cv" \/ (at[f] = "wait" /\ sem[f] = f)

SyncInv ==
  /\ FiberInv /\ SyncTypeOK /\ OpenCalls /\ SyncStatus /\ OneWakeUp /\ LockOwner
  /\ Handles /\ LocalPermits
-----------------------------------------------------------------------------
(* Membership and distinctness of the queues.                              *)

LEMMA AppendFacts ==
  ASSUME NEW S, NEW s \in Seq(S), NEW x \in S
  PROVE  /\ Append(s, x) \in Seq(S) /\ Append(s, x) # << >>
         /\ \A y : InSeq(Append(s, x), y) <=> InSeq(s, y) \/ y = x
         /\ Distinct(s) /\ ~InSeq(s, x) => Distinct(Append(s, x))
<1>1. /\ Append(s, x) \in Seq(S) /\ Len(Append(s, x)) = Len(s) + 1 /\ Len(s) \in Nat
      /\ \A i \in 1 .. Len(s) : Append(s, x)[i] = s[i]
      /\ Append(s, x)[Len(s) + 1] = x
  BY SMT
<1>2. \A y : InSeq(Append(s, x), y) <=> InSeq(s, y) \/ y = x
  BY <1>1, SMT DEF InSeq
<1>3. Distinct(s) /\ ~InSeq(s, x) => Distinct(Append(s, x))
  BY <1>1, SMT DEF InSeq, Distinct
<1> QED BY <1>1, <1>2, <1>3, SMT

LEMMA TailFacts ==
  ASSUME NEW S, NEW s \in Seq(S), s # << >>
  PROVE  /\ Head(s) \in S /\ InSeq(s, Head(s)) /\ Tail(s) \in Seq(S)
         /\ \A y : InSeq(s, y) <=> InSeq(Tail(s), y) \/ y = Head(s)
         /\ Distinct(s) => Distinct(Tail(s)) /\ ~InSeq(Tail(s), Head(s))
<1>1. /\ Len(s) \in Nat \ {0} /\ Head(s) = s[1] /\ Head(s) \in S
      /\ Tail(s) \in Seq(S) /\ Len(Tail(s)) = Len(s) - 1
      /\ \A i \in 1 .. Len(s) - 1 : Tail(s)[i] = s[i + 1]
  BY SMT
<1>2. \A y : InSeq(s, y) => InSeq(Tail(s), y) \/ y = Head(s)
  <2> SUFFICES ASSUME NEW i \in 1 .. Len(s), i # 1 PROVE InSeq(Tail(s), s[i])
    BY <1>1, SMT DEF InSeq
  <2>1. i - 1 \in 1 .. Len(Tail(s)) /\ Tail(s)[i - 1] = s[i]
    BY <1>1, SMT
  <2> QED BY <2>1 DEF InSeq
<1>3. \A y : InSeq(Tail(s), y) \/ y = Head(s) => InSeq(s, y)
  BY <1>1, SMT DEF InSeq
<1>4. Distinct(s) => Distinct(Tail(s)) /\ ~InSeq(Tail(s), Head(s))
  BY <1>1, SMT DEF InSeq, Distinct
<1> QED BY <1>1, <1>2, <1>3, <1>4, SMT

LEMMA EmptyFacts == Distinct(<< >>) /\ \A y : ~InSeq(<< >>, y)
BY SMT DEF InSeq, Distinct

LEMMA SingleFacts ==
  ASSUME NEW x
  PROVE  /\ <<x>> # << >> /\ Head(<<x>>) = x /\ Tail(<<x>>) = << >> /\ Distinct(<<x>>)
         /\ \A y : InSeq(<<x>>, y) <=> y = x
BY SMT DEF InSeq, Distinct

LEMMA SplitFacts ==
  ASSUME NEW S, NEW s \in Seq(S), NEW n \in 1 .. Len(s)
  PROVE  LET a == SubSeq(s, 1, n)
             b == SubSeq(s, n + 1, Len(s))
         IN  /\ a \in Seq(S) /\ b \in Seq(S)
             /\ \A y : InSeq(s, y) <=> InSeq(a, y) \/ InSeq(b, y)
             /\ Distinct(s) =>
                  Distinct(a) /\ Distinct(b) /\ \A y : ~(InSeq(a, y) /\ InSeq(b, y))
<1> DEFINE a == SubSeq(s, 1, n)
           b == SubSeq(s, n + 1, Len(s))
<1>1. /\ Len(s) \in Nat
      /\ a \in Seq(S) /\ Len(a) = n /\ \A i \in 1 .. n : a[i] = s[i]
  <2>1. Len(s) \in Nat /\ \A i \in 1 .. n : s[i] \in S
    BY SMT
  <2> QED BY <2>1, SubSeqProperties, SMT
<1>2. /\ b \in Seq(S) /\ Len(b) = Len(s) - n
      /\ \A i \in 1 .. Len(s) - n : b[i] = s[n + i]
  <2>1. Len(s) \in Nat /\ \A i \in n + 1 .. Len(s) : s[i] \in S
    BY SMT
  <2> QED BY <2>1, SubSeqProperties, SMT
<1> HIDE DEF a, b
<1>3. \A y : InSeq(s, y) => InSeq(a, y) \/ InSeq(b, y)
  <2> SUFFICES ASSUME NEW i \in 1 .. Len(s), i > n PROVE InSeq(b, s[i])
    BY <1>1, SMT DEF InSeq
  <2>1. i - n \in 1 .. Len(b) /\ b[i - n] = s[i]
    BY <1>1, <1>2, SMT
  <2> QED BY <2>1 DEF InSeq
<1>4. \A y : InSeq(a, y) \/ InSeq(b, y) => InSeq(s, y)
  <2>1. \A i \in 1 .. Len(a) : i \in 1 .. Len(s) /\ a[i] = s[i]
    BY <1>1, SMT
  <2>2. \A i \in 1 .. Len(b) : n + i \in 1 .. Len(s) /\ b[i] = s[n + i]
    BY <1>1, <1>2, SMT
  <2> QED BY <2>1, <2>2 DEF InSeq
<1>5. ASSUME Distinct(s)
      PROVE  Distinct(a) /\ Distinct(b) /\ \A y : ~(InSeq(a, y) /\ InSeq(b, y))
  <2>1. Distinct(a)
    BY <1>1, <1>5, SMT DEF Distinct
  <2>2. ASSUME NEW i \in 1 .. Len(b), NEW j \in 1 .. Len(b), b[i] = b[j] PROVE i = j
    <3>1. n + i \in 1 .. Len(s) /\ n + j \in 1 .. Len(s) /\ s[n + i] = s[n + j]
      BY <1>1, <1>2, <2>2, SMT
    <3>2. n + i = n + j
      BY <1>5, <3>1 DEF Distinct
    <3> QED BY <1>1, <1>2, <3>2, SMT
  <2>3. ASSUME NEW i \in 1 .. Len(a), NEW j \in 1 .. Len(b), a[i] = b[j] PROVE FALSE
    <3>1. i \in 1 .. Len(s) /\ n + j \in 1 .. Len(s) /\ s[i] = s[n + j]
      BY <1>1, <1>2, <2>3, SMT
    <3>2. i = n + j
      BY <1>5, <3>1 DEF Distinct
    <3> QED BY <1>1, <1>2, <3>2, SMT
  <2> QED BY <2>1, <2>2, <2>3 DEF InSeq, Distinct
<1> QED BY <1>1, <1>2, <1>3, <1>4, <1>5 DEF a, b
LEMMA ElementFact ==
  ASSUME NEW S, NEW s \in Seq(S), NEW x, InSeq(s, x)
  PROVE  x \in S
BY SMT DEF InSeq

LEMMA UpdateType ==
  ASSUME NEW S, NEW T, NEW f \in [S -> T], NEW x, NEW v \in T
  PROVE  [f EXCEPT ![x] = v] \in [S -> T]
OBVIOUS
-----------------------------------------------------------------------------
USE LockersResume, SpinnersHaveNoFiber, GateAssumption, NoneAssumption
USE DEF fiberVars, workerVars, resumeVars, mutexVars, vars, syncVars, Lockers, Sems,
        SetStatus, WorkerAt, ResumerAt, At, Goto, LockPc, SyncAt

(* A step is a step of the fiber life cycle, or none.                       *)

LEMMA SyncStepIsFiberStep ==
  ASSUME FiberInv, SyncTypeOK, OpenCalls, [SyncNext]_allVars
  PROVE  [FiberNext]_fiberVars
<1>1. ASSUME NEW l \in Lockers, SyncCode(l) PROVE [FiberNext]_fiberVars
  <2>1. CASE MutexStep(l)
    <3>1. CASE ResumeNext(l)
      <4>1. l \in Resumers /\ nextFiber[l] \in Fibers
        BY <3>1 DEF ResumeNext, OpenCalls
      <4> QED BY <3>1, <4>1 DEF ResumeNext, FiberNext
    <3>2. ~ResumeNext(l) => UNCHANGED fiberVars
      BY <2>1 DEF MutexStep, CallLock, LockFree, LockContended, SetHolder, Release,
         UnlockReturns, ClearHolder
    <3> QED BY <3>1, <3>2
  <2>2. CASE SignalResume(l)
    <3>1. l \in Resumers /\ nextFiber[l] \in Fibers
      BY <2>2 DEF SignalResume, OpenCalls
    <3> QED BY <2>2, <3>1 DEF SignalResume, FiberNext
  <2>3. CASE CallWait(l) \/ WaitTakes(l) \/ WaitQueues(l) \/ WaitResumed(l) \/ LeaveGate(l)
    BY <2>3 DEF CallWait, WaitTakes, WaitQueues, WaitResumed, LeaveGate
  <2>4. CASE Signal(l) \/ SignalReturns(l) \/ Signalled(l)
    BY <2>4 DEF Signal, SignalReturns, Signalled
  <2>5. CASE CvWait(l) \/ CvUnlocked(l) \/ CvReturn(l) \/ Notify_One(l) \/ Notify_All(l)
    BY <2>5 DEF CvWait, CvUnlocked, CvReturn, Notify_One, Notify_All, Notify
  <2> QED BY <1>1, <2>1, <2>2, <2>3, <2>4, <2>5 DEF SyncCode
<1>2. ASSUME NEW w \in Workers, SyncWorker(w) PROVE [FiberNext]_fiberVars
  BY <1>2 DEF SyncWorker, LockSuspend, Leave, TaskDone, WaitSuspend, NewTask, FiberNext
<1>3. ASSUME NEW r \in Resumers, Resume(r) PROVE [FiberNext]_fiberVars
  BY <1>3 DEF FiberNext
<1>4. CASE UNCHANGED allVars
  BY <1>4 DEF allVars
<1> QED BY <1>1, <1>2, <1>3, <1>4 DEF SyncNext
-----------------------------------------------------------------------------
(* The steps of workers and Resume calls.                                  *)

LEMMA SyncKept ==
  ASSUME SyncTypeOK, OpenCalls, LockOwner, Handles, LocalPermits,
         UNCHANGED <<mutexVars, syncVars>>
  PROVE  SyncTypeOK' /\ OpenCalls' /\ LockOwner' /\ Handles' /\ LocalPermits'
<1>1. SyncTypeOK'
  BY DEF SyncTypeOK
<1>2. OpenCalls'
  BY DEF OpenCalls
<1>3. LockOwner'
  BY DEF LockOwner, HasLock
<1>4. Handles'
  BY DEF Handles, Todo, Unsignalled, InCvWait
<1>5. LocalPermits'
  BY DEF LocalPermits
<1> QED BY <1>1, <1>2, <1>3, <1>4, <1>5

LEMMA SyncSwitchIn ==
  ASSUME SyncInv, FiberInv', NEW w \in Workers, NEW f \in Fibers, SwitchIn(w, f), UNCHANGED <<mutexVars, syncVars>>
  PROVE  SyncInv'
<1> USE DEF SyncInv, SwitchIn, FiberInv, FiberTypeOK
<1>1. SyncTypeOK' /\ OpenCalls' /\ LockOwner' /\ Handles' /\ LocalPermits'
  BY SyncKept
<1>2. SyncStatus'
  BY SMT DEF SyncStatus
<1>3. OneWakeUp'
  BY SMT DEF OneWakeUp, Waits, Hands, Resuming, RestingStatus
<1> QED BY <1>1, <1>2, <1>3

LEMMA SyncStartTask ==
  ASSUME SyncInv, FiberInv', NEW w \in Workers, NEW f \in Fibers, NewTask(w, f), UNCHANGED syncVars
  PROVE  SyncInv'
<1> USE DEF SyncInv, NewTask, StartTask, FiberInv, FiberTypeOK
<1>1. SyncTypeOK' /\ OpenCalls' /\ LockOwner' /\ Handles' /\ LocalPermits'
  BY SyncKept
<1>2. SyncStatus'
  BY SMT DEF SyncStatus
<1>3. OneWakeUp'
  BY SMT DEF OneWakeUp, Waits, Hands, Resuming, RestingStatus
<1> QED BY <1>1, <1>2, <1>3

LEMMA SyncFinish ==
  ASSUME SyncInv, FiberInv', NEW w \in Workers, at[wfib[w]] = "plain", TaskDone(w), UNCHANGED syncVars
  PROVE  SyncInv'
<1> USE DEF SyncInv, TaskDone, Finish, Ask, FiberInv, FiberTypeOK
<1>1. SyncTypeOK' /\ OpenCalls' /\ LockOwner' /\ Handles' /\ LocalPermits'
  BY SyncKept
<1>2. SyncStatus'
  BY SMT DEF SyncStatus
<1>3. OneWakeUp'
  BY SMT DEF OneWakeUp, Waits, Hands, Resuming
<1> QED BY <1>1, <1>2, <1>3

LEMMA SyncSwitchOut ==
  ASSUME SyncInv, FiberInv', NEW w \in Workers, Leave(w), UNCHANGED syncVars
  PROVE  SyncInv'
<1> USE DEF SyncInv, Leave, SwitchOut, FiberInv, FiberTypeOK
<1>1. SyncTypeOK' /\ OpenCalls' /\ LockOwner' /\ Handles' /\ LocalPermits'
  BY SyncKept
<1>2. SyncStatus'
  BY SMT DEF SyncStatus
<1>3. OneWakeUp'
  BY SMT DEF OneWakeUp, Waits, Hands, Resuming
<1> QED BY <1>1, <1>2, <1>3

LEMMA SyncRetire ==
  ASSUME SyncInv, FiberInv', NEW w \in Workers, Retire(w), UNCHANGED <<mutexVars, syncVars>>
  PROVE  SyncInv'
<1> USE DEF SyncInv, Retire, FiberInv, FiberTypeOK
<1>1. SyncTypeOK' /\ OpenCalls' /\ LockOwner' /\ Handles' /\ LocalPermits'
  BY SyncKept
<1>2. SyncStatus'
  BY SMT DEF SyncStatus
<1>3. OneWakeUp'
  BY SMT DEF OneWakeUp, Waits, Hands, Resuming
<1> QED BY <1>1, <1>2, <1>3

LEMMA SyncMakeReady ==
  ASSUME SyncInv, FiberInv', NEW w \in Workers, MakeReady(w), UNCHANGED <<mutexVars, syncVars>>
  PROVE  SyncInv'
<1> USE DEF SyncInv, MakeReady, FiberInv, FiberTypeOK
<1>1. SyncTypeOK' /\ OpenCalls' /\ LockOwner' /\ Handles' /\ LocalPermits'
  BY SyncKept
<1>2. SyncStatus'
  BY SMT DEF SyncStatus
<1>3. OneWakeUp'
  BY SMT DEF OneWakeUp, Waits, Hands, Resuming
<1> QED BY <1>1, <1>2, <1>3

LEMMA SyncPushBack ==
  ASSUME SyncInv, FiberInv', NEW w \in Workers, PushBack(w), UNCHANGED <<mutexVars, syncVars>>
  PROVE  SyncInv'
<1> USE DEF SyncInv, PushBack, FiberInv, FiberTypeOK
<1>1. SyncTypeOK' /\ OpenCalls' /\ LockOwner' /\ Handles' /\ LocalPermits'
  BY SyncKept
<1>2. SyncStatus'
  BY SMT DEF SyncStatus
<1>3. OneWakeUp'
  BY SMT DEF OneWakeUp, Waits, Hands, Resuming
<1> QED BY <1>1, <1>2, <1>3

LEMMA SyncPark ==
  ASSUME SyncInv, FiberInv', NEW w \in Workers, Park(w), UNCHANGED <<mutexVars, syncVars>>
  PROVE  SyncInv'
<1> USE DEF SyncInv, Park, FiberInv, FiberTypeOK
<1>1. SyncTypeOK' /\ OpenCalls' /\ LockOwner' /\ Handles' /\ LocalPermits'
  BY SyncKept
<1>2. SyncStatus'
  BY SMT DEF SyncStatus
<1>3. OneWakeUp'
  BY SMT DEF OneWakeUp, Waits, Hands, Resuming
<1> QED BY <1>1, <1>2, <1>3

LEMMA SyncResumeLoad ==
  ASSUME SyncInv, FiberInv', NEW r \in Resumers, ResumeLoad(r), UNCHANGED <<mutexVars, syncVars>>
  PROVE  SyncInv'
<1> USE DEF SyncInv, ResumeLoad, FiberInv, FiberTypeOK
<1>1. SyncTypeOK' /\ OpenCalls' /\ LockOwner' /\ Handles' /\ LocalPermits'
  BY SyncKept
<1>2. SyncStatus'
  BY SMT DEF SyncStatus
<1>3. OneWakeUp'
  BY SMT DEF OneWakeUp, Waits, Hands, Resuming
<1> QED BY <1>1, <1>2, <1>3

LEMMA SyncResumeCasSuspended ==
  ASSUME SyncInv, FiberInv', NEW r \in Resumers, ResumeCasSuspended(r), UNCHANGED <<mutexVars, syncVars>>
  PROVE  SyncInv'
<1> USE DEF SyncInv, ResumeCasSuspended, FiberInv, FiberTypeOK
<1>1. SyncTypeOK' /\ OpenCalls' /\ LockOwner' /\ Handles' /\ LocalPermits'
  BY SyncKept
<1>2. SyncStatus'
  BY SMT DEF SyncStatus
<1>3. OneWakeUp'
  BY SMT DEF OneWakeUp, Waits, Hands, Resuming
<1> QED BY <1>1, <1>2, <1>3

LEMMA SyncResumeCasWants ==
  ASSUME SyncInv, FiberInv', NEW r \in Resumers, ResumeCasWants(r), UNCHANGED <<mutexVars, syncVars>>
  PROVE  SyncInv'
<1> USE DEF SyncInv, ResumeCasWants, FiberInv, FiberTypeOK
<1>1. SyncTypeOK' /\ OpenCalls' /\ LockOwner' /\ Handles' /\ LocalPermits'
  BY SyncKept
<1>2. SyncStatus'
  BY SMT DEF SyncStatus
<1>3. OneWakeUp'
  BY SMT DEF OneWakeUp, Waits, Hands, Resuming
<1> QED BY <1>1, <1>2, <1>3

LEMMA SyncResumeRequeue ==
  ASSUME SyncInv, FiberInv', NEW r \in Resumers, ResumeRequeue(r), UNCHANGED <<mutexVars, syncVars>>
  PROVE  SyncInv'
<1> USE DEF SyncInv, ResumeRequeue, FiberInv, FiberTypeOK
<1>1. SyncTypeOK' /\ OpenCalls' /\ LockOwner' /\ Handles' /\ LocalPermits'
  BY SyncKept
<1>2. SyncStatus'
  BY SMT DEF SyncStatus
<1>3. OneWakeUp'
  BY SMT DEF OneWakeUp, Waits, Hands, Resuming
<1> QED BY <1>1, <1>2, <1>3
-----------------------------------------------------------------------------
(* The steps of the callers.  First what a step has to leave alone for each *)
(* part of the invariant to stay true.                                     *)

LEMMA WakeUpKept ==
  ASSUME OneWakeUp, UNCHANGED <<waitingFibers, semWaiters>>,
         \A f \in Fibers : Waits(f) =>
           /\ Waits(f)'
           /\ pc[f] \in {"queued", "suspended"} => pc'[f] \in {"queued", "suspended"}
           /\ at[f] \in {"queued", "suspended"} =>
                at'[f] \in {"queued", "suspended"} /\ sem'[f] = sem[f],
         \A f \in Fibers, l \in Lockers : Hands(l, f)' => Hands(l, f),
         \A f \in Fibers, r \in Resumers : Resuming(r, f)' => Resuming(r, f)
  PROVE  OneWakeUp'
BY DEF OneWakeUp

LEMMA LockKept ==
  ASSUME LockOwner, UNCHANGED <<waitingFibers, locked>>,
         \A l \in Lockers : HasLock(l)' <=> HasLock(l)
  PROVE  LockOwner'
BY DEF LockOwner

LEMMA HandlesKept ==
  ASSUME Handles, UNCHANGED waitingQueue,
         \A f \in Fibers : Unsignalled(f) => Unsignalled(f)',
         \A l \in Lockers : Todo(l)' = Todo(l),
         \A l \in Lockers : at'[l] \in {"resume", "resuming"} => toSignal'[l] # << >>,
         \A l \in Lockers : InSeq(Todo(l), Gate) => toSignal'[l] = toSignal[l]
  PROVE  Handles'
BY DEF Handles

\* A fiber that executes is not asleep, so nobody is about to wake it unless
\* it has queued itself and not suspended yet.
LEMMA ExecutingAwake ==
  ASSUME SyncInv, NEW f \in Fibers, Executes(f)
  PROVE  /\ status[f] = "RUNNING"
         /\ pc[f] # "queued" /\ at[f] # "queued" =>
              /\ ~Waits(f) /\ ~InSeq(waitingFibers, f)
              /\ \A s \in Sems : ~InSeq(semWaiters[s], f)
<1>1. status[f] = "RUNNING"
  BY DEF Executes, SyncInv, FiberInv, WorkerStatus
<1> QED BY <1>1 DEF SyncInv, OneWakeUp, Waits

LEMMA SyncCallLock ==
  ASSUME SyncInv, FiberInv', NEW l \in Lockers, at[l] = "plain", CallLock(l), UNCHANGED syncVars
  PROVE  SyncInv'
<1> USE DEF SyncInv, CallLock
<1>0. l \in Fibers => ~Waits(l) /\ ~InSeq(waitingFibers, l) /\ status[l] = "RUNNING"
  <2>1. pc[l] # "queued" /\ at[l] # "queued"
    BY DEF OpenCalls
  <2> QED BY <2>1, ExecutingAwake
<1>1. SyncTypeOK'
  BY <1>0, SMTT(30) DEF SyncTypeOK
<1>2. OpenCalls'
  BY <1>0, SMT DEF OpenCalls
<1>3. SyncStatus'
  BY <1>0, SMT DEF SyncStatus
<1>4. OneWakeUp'
  <2>1. \A f \in Fibers : Waits(f) =>
           /\ Waits(f)'
           /\ pc[f] \in {"queued", "suspended"} => pc'[f] \in {"queued", "suspended"}
           /\ at[f] \in {"queued", "suspended"} =>
                at'[f] \in {"queued", "suspended"} /\ sem'[f] = sem[f]
    BY <1>0, SMT DEF Waits
  <2>2. \A f \in Fibers, k \in Lockers : Hands(k, f)' => Hands(k, f)
    BY SMT DEF Hands
  <2>3. \A f \in Fibers, r \in Resumers : Resuming(r, f)' => Resuming(r, f)
    BY SMT DEF Resuming
  <2> QED BY <2>1, <2>2, <2>3, WakeUpKept
<1>5. LockOwner'
  <2>1. \A k \in Lockers : HasLock(k)' <=> HasLock(k)
    BY <1>0, SMT DEF HasLock
  <2> QED BY <2>1, LockKept
<1>6. Handles'
  <2>1. \A f \in Fibers : Unsignalled(f) => Unsignalled(f)'
    BY <1>0, SMT DEF Unsignalled, InCvWait
  <2>2. \A k \in Lockers : Todo(k)' = Todo(k)
    BY SMT DEF Todo
  <2>3. /\ \A k \in Lockers : at'[k] \in {"resume", "resuming"} => toSignal'[k] # << >>
        /\ \A k \in Lockers : InSeq(Todo(k), Gate) => toSignal'[k] = toSignal[k]
    BY SMT DEF Handles
  <2> QED BY <2>1, <2>2, <2>3, HandlesKept
<1>7. LocalPermits'
  BY SMT DEF LocalPermits
<1> QED BY <1>1, <1>2, <1>3, <1>4, <1>5, <1>6, <1>7

LEMMA SyncLockFree ==
  ASSUME SyncInv, FiberInv', NEW l \in Lockers, LockFree(l), UNCHANGED syncVars
  PROVE  SyncInv'
<1> USE DEF SyncInv, LockFree
<1>0. l \in Fibers => ~Waits(l) /\ ~InSeq(waitingFibers, l) /\ status[l] = "RUNNING"
  <2>1. pc[l] # "queued" /\ at[l] # "queued"
    BY DEF OpenCalls
  <2> QED BY <2>1, ExecutingAwake
<1>1. SyncTypeOK'
  BY <1>0, SMT DEF SyncTypeOK
<1>2. OpenCalls'
  BY <1>0, SMT DEF OpenCalls
<1>3. SyncStatus'
  BY <1>0, SMT DEF SyncStatus
<1>4. OneWakeUp'
  <2>1. \A f \in Fibers : Waits(f) =>
           /\ Waits(f)'
           /\ pc[f] \in {"queued", "suspended"} => pc'[f] \in {"queued", "suspended"}
           /\ at[f] \in {"queued", "suspended"} =>
                at'[f] \in {"queued", "suspended"} /\ sem'[f] = sem[f]
    BY <1>0, SMT DEF Waits
  <2>2. \A f \in Fibers, k \in Lockers : Hands(k, f)' => Hands(k, f)
    BY SMT DEF Hands
  <2>3. \A f \in Fibers, r \in Resumers : Resuming(r, f)' => Resuming(r, f)
    BY SMT DEF Resuming
  <2> QED BY <2>1, <2>2, <2>3, WakeUpKept
<1>5. LockOwner'
  <2>1. \A k \in Lockers : HasLock(k)' <=> HasLock(k) \/ k = l
    BY <1>0, SMT DEF SyncTypeOK, HasLock
  <2>2. ~locked /\ locked' = TRUE /\ waitingFibers' = waitingFibers
    OBVIOUS
  <2> QED BY <2>1, <2>2 DEF LockOwner
<1>6. Handles'
  <2>1. \A f \in Fibers : Unsignalled(f) => Unsignalled(f)'
    BY <1>0, SMT DEF Unsignalled, InCvWait
  <2>2. \A k \in Lockers : Todo(k)' = Todo(k)
    BY SMT DEF Todo
  <2>3. /\ \A k \in Lockers : at'[k] \in {"resume", "resuming"} => toSignal'[k] # << >>
        /\ \A k \in Lockers : InSeq(Todo(k), Gate) => toSignal'[k] = toSignal[k]
    BY SMT DEF Handles
  <2> QED BY <2>1, <2>2, <2>3, HandlesKept
<1>7. LocalPermits'
  BY SMT DEF LocalPermits
<1> QED BY <1>1, <1>2, <1>3, <1>4, <1>5, <1>6, <1>7

LEMMA SyncLockContended ==
  ASSUME SyncInv, FiberInv', NEW l \in Fibers, LockContended(l), UNCHANGED syncVars
  PROVE  SyncInv'
<1> USE DEF SyncInv, LockContended
<1>0. l \in Fibers => ~Waits(l) /\ ~InSeq(waitingFibers, l) /\ status[l] = "RUNNING"
  <2>1. pc[l] # "queued" /\ at[l] # "queued"
    BY DEF OpenCalls
  <2> QED BY <2>1, ExecutingAwake
<1>a. /\ Append(waitingFibers, l) \in Seq(Fibers) /\ Append(waitingFibers, l) # << >>
      /\ \A y : InSeq(Append(waitingFibers, l), y) <=> InSeq(waitingFibers, y) \/ y = l
      /\ Distinct(waitingFibers) /\ ~InSeq(waitingFibers, l) =>
           Distinct(Append(waitingFibers, l))
  BY AppendFacts DEF SyncTypeOK
<1>b. waitingFibers' = Append(waitingFibers, l) /\ l \in Lockers
  OBVIOUS
<1>1. SyncTypeOK'
  <2>1. pc' = [pc EXCEPT ![l] = "queued"] /\ "queued" \in LockPc
    OBVIOUS
  <2>2. pc' \in [Lockers -> LockPc]
    BY <2>1, UpdateType DEF SyncTypeOK
  <2> QED BY <1>a, <2>2 DEF SyncTypeOK
<1>2. OpenCalls'
  BY <1>0, SMT DEF OpenCalls
<1>3. SyncStatus'
  BY <1>0, SMT DEF SyncStatus
<1>4. OneWakeUp'
  <2>1. \A f \in Fibers : Waits(f) =>
          /\ Waits(f)'
          /\ pc[f] \in {"queued", "suspended"} => pc'[f] \in {"queued", "suspended"}
    BY <1>0, SMT DEF Waits
  <2>2. Waits(l)' /\ pc'[l] = "queued"
    BY SMT DEF SyncTypeOK, Waits
  <2>3. \A f \in Fibers, k \in Lockers : Hands(k, f)' => Hands(k, f) /\ f # l
    BY <1>0, SMT DEF Hands, OneWakeUp
  <2>4. \A f \in Fibers, r \in Resumers : Resuming(r, f)' => Resuming(r, f) /\ f # l
    BY <1>0 DEF Resuming, OneWakeUp
  <2>5. semWaiters' = semWaiters /\ at' = at /\ sem' = sem
    OBVIOUS
  <2> HIDE DEF LockContended, SyncInv
  <2> QED BY <1>0, <1>a, <1>b, <2>1, <2>2, <2>3, <2>4, <2>5 DEF OneWakeUp, SyncInv
<1>5. LockOwner'
  <2>1. \A k \in Lockers : HasLock(k)' <=> HasLock(k)
    BY <1>0, <1>a, <1>b, SMT DEF HasLock
  <2>2. locked /\ locked' = locked
    OBVIOUS
  <2> QED BY <2>1, <2>2 DEF LockOwner
<1>6. Handles'
  <2>1. \A f \in Fibers : Unsignalled(f) => Unsignalled(f)'
    BY <1>0, SMT DEF Unsignalled, InCvWait
  <2>2. \A k \in Lockers : Todo(k)' = Todo(k)
    BY SMT DEF Todo
  <2>3. /\ \A k \in Lockers : at'[k] \in {"resume", "resuming"} => toSignal'[k] # << >>
        /\ \A k \in Lockers : InSeq(Todo(k), Gate) => toSignal'[k] = toSignal[k]
    BY SMT DEF Handles
  <2> QED BY <2>1, <2>2, <2>3, HandlesKept
<1>7. LocalPermits'
  BY SMT DEF LocalPermits
<1> QED BY <1>1, <1>2, <1>3, <1>4, <1>5, <1>6, <1>7

LEMMA SyncSetHolder ==
  ASSUME SyncInv, FiberInv', NEW l \in Lockers, SetHolder(l), UNCHANGED syncVars
  PROVE  SyncInv'
<1> USE DEF SyncInv, SetHolder
<1>0. l \in Fibers => ~Waits(l) /\ ~InSeq(waitingFibers, l) /\ status[l] = "RUNNING"
  <2>1. pc[l] # "queued" /\ at[l] # "queued"
    BY DEF OpenCalls
  <2> QED BY <2>1, ExecutingAwake
<1>1. SyncTypeOK'
  BY <1>0, SMT DEF SyncTypeOK
<1>2. OpenCalls'
  BY <1>0, SMT DEF OpenCalls
<1>3. SyncStatus'
  BY <1>0, SMT DEF SyncStatus
<1>4. OneWakeUp'
  <2>1. \A f \in Fibers : Waits(f) =>
           /\ Waits(f)'
           /\ pc[f] \in {"queued", "suspended"} => pc'[f] \in {"queued", "suspended"}
           /\ at[f] \in {"queued", "suspended"} =>
                at'[f] \in {"queued", "suspended"} /\ sem'[f] = sem[f]
    BY <1>0, SMT DEF Waits
  <2>2. \A f \in Fibers, k \in Lockers : Hands(k, f)' => Hands(k, f)
    BY SMT DEF Hands
  <2>3. \A f \in Fibers, r \in Resumers : Resuming(r, f)' => Resuming(r, f)
    BY SMT DEF Resuming
  <2> QED BY <2>1, <2>2, <2>3, WakeUpKept
<1>5. LockOwner'
  <2>1. \A k \in Lockers : HasLock(k)' <=> HasLock(k)
    BY <1>0, SMT DEF HasLock, OpenCalls
  <2> QED BY <2>1, LockKept
<1>6. Handles'
  <2>1. \A f \in Fibers : Unsignalled(f) => Unsignalled(f)'
    BY <1>0, SMT DEF Unsignalled, InCvWait
  <2>2. \A k \in Lockers : Todo(k)' = Todo(k)
    BY SMT DEF Todo
  <2>3. /\ \A k \in Lockers : at'[k] \in {"resume", "resuming"} => toSignal'[k] # << >>
        /\ \A k \in Lockers : InSeq(Todo(k), Gate) => toSignal'[k] = toSignal[k]
    BY SMT DEF Handles
  <2> QED BY <2>1, <2>2, <2>3, HandlesKept
<1>7. LocalPermits'
  BY SMT DEF LocalPermits
<1> QED BY <1>1, <1>2, <1>3, <1>4, <1>5, <1>6, <1>7

LEMMA SyncClearHolder ==
  ASSUME SyncInv, FiberInv', NEW l \in Lockers, at[l] \in {"plain", "used", "cv"}, ClearHolder(l),
         Goto(l, IF at[l] = "used" THEN "plain" ELSE at[l]),
         UNCHANGED <<permits, semWaiters, waitingQueue, sem, toSignal>>
  PROVE  SyncInv'
<1> USE DEF SyncInv, ClearHolder
<1>0. l \in Fibers => ~Waits(l) /\ ~InSeq(waitingFibers, l) /\ status[l] = "RUNNING"
  <2>1. pc[l] # "queued" /\ at[l] # "queued"
    BY DEF OpenCalls
  <2> QED BY <2>1, ExecutingAwake
<1>1. SyncTypeOK'
  BY <1>0, SMT DEF SyncTypeOK
<1>2. OpenCalls'
  BY <1>0, SMT DEF OpenCalls, SyncTypeOK
<1>3. SyncStatus'
  BY <1>0, SMT DEF SyncStatus
<1>4. OneWakeUp'
  <2>1. \A f \in Fibers : Waits(f) =>
           /\ Waits(f)'
           /\ pc[f] \in {"queued", "suspended"} => pc'[f] \in {"queued", "suspended"}
           /\ at[f] \in {"queued", "suspended"} =>
                at'[f] \in {"queued", "suspended"} /\ sem'[f] = sem[f]
    BY <1>0, SMT DEF Waits
  <2>2. \A f \in Fibers, k \in Lockers : Hands(k, f)' => Hands(k, f)
    BY SMT DEF Hands
  <2>3. \A f \in Fibers, r \in Resumers : Resuming(r, f)' => Resuming(r, f)
    BY SMT DEF Resuming
  <2> QED BY <2>1, <2>2, <2>3, WakeUpKept
<1>5. LockOwner'
  <2>1. \A k \in Lockers : HasLock(k)' <=> HasLock(k)
    BY <1>0, SMT DEF HasLock
  <2> QED BY <2>1, LockKept
<1>6. Handles'
  <2>1. \A f \in Fibers : Unsignalled(f) => Unsignalled(f)'
    BY <1>0, SMT DEF Unsignalled, InCvWait
  <2>2. \A k \in Lockers : Todo(k)' = Todo(k)
    BY SMT DEF Todo
  <2>3. /\ \A k \in Lockers : at'[k] \in {"resume", "resuming"} => toSignal'[k] # << >>
        /\ \A k \in Lockers : InSeq(Todo(k), Gate) => toSignal'[k] = toSignal[k]
    BY SMT DEF Handles
  <2> QED BY <2>1, <2>2, <2>3, HandlesKept
<1>7. LocalPermits'
  BY SMT DEF LocalPermits
<1> QED BY <1>1, <1>2, <1>3, <1>4, <1>5, <1>6, <1>7

LEMMA SyncReleaseFree ==
  ASSUME SyncInv, FiberInv', NEW l \in Lockers, Release(l), waitingFibers = << >>, UNCHANGED syncVars
  PROVE  SyncInv'
<1> USE DEF SyncInv, Release
<1>0. l \in Fibers => ~Waits(l) /\ ~InSeq(waitingFibers, l) /\ status[l] = "RUNNING"
  <2>1. pc[l] # "queued" /\ at[l] # "queued"
    BY DEF OpenCalls
  <2> QED BY <2>1, ExecutingAwake
<1>1. SyncTypeOK'
  <2>1. locked' \in BOOLEAN
    OBVIOUS
  <2>2. pc' \in [Lockers -> LockPc]
    <3>1. pc' = [pc EXCEPT ![l] = "run"] /\ "run" \in LockPc
      OBVIOUS
    <3> QED BY <3>1, UpdateType DEF SyncTypeOK
  <2> QED BY <2>1, <2>2 DEF SyncTypeOK
<1>2. OpenCalls'
  <2>1. /\ \A k \in Lockers : pc'[k] = IF k = l THEN "run" ELSE pc[k]
        /\ pc[l] = "release" /\ UNCHANGED <<at, sem, nextFiber>>
    BY DEF SyncTypeOK
  <2>2. at[l] \in {"plain", "cv"}
    BY <2>1 DEF OpenCalls, SyncTypeOK
  <2> HIDE DEF Release
  <2> QED BY <2>1, <2>2 DEF OpenCalls
<1>3. SyncStatus'
  BY <1>0, SMT DEF SyncStatus, SyncTypeOK
<1>4. OneWakeUp'
  <2>1. \A f \in Fibers : Waits(f) =>
           /\ Waits(f)'
           /\ pc[f] \in {"queued", "suspended"} => pc'[f] \in {"queued", "suspended"}
           /\ at[f] \in {"queued", "suspended"} =>
                at'[f] \in {"queued", "suspended"} /\ sem'[f] = sem[f]
    BY <1>0, SMT DEF SyncTypeOK, Waits
  <2>2. \A f \in Fibers, k \in Lockers : Hands(k, f)' => Hands(k, f)
    BY SMT DEF SyncTypeOK, Hands
  <2>3. \A f \in Fibers, r \in Resumers : Resuming(r, f)' => Resuming(r, f)
    BY SMT DEF Resuming
  <2> QED BY <2>1, <2>2, <2>3, WakeUpKept
<1>5. LockOwner'
  <2>1. HasLock(l) /\ \A k \in Lockers : HasLock(k)' <=> HasLock(k) /\ k # l
    BY <1>0, SMT DEF SyncTypeOK, HasLock
  <2>2. locked' = FALSE /\ waitingFibers' = << >>
    OBVIOUS
  <2> QED BY <2>1, <2>2 DEF LockOwner
<1>6. Handles'
  <2>1. \A f \in Fibers : Unsignalled(f) => Unsignalled(f)'
    BY <1>0, SMT DEF Unsignalled, InCvWait
  <2>2. \A k \in Lockers : Todo(k)' = Todo(k)
    BY SMT DEF Todo
  <2>3. /\ \A k \in Lockers : at'[k] \in {"resume", "resuming"} => toSignal'[k] # << >>
        /\ \A k \in Lockers : InSeq(Todo(k), Gate) => toSignal'[k] = toSignal[k]
    BY SMT DEF Handles
  <2> QED BY <2>1, <2>2, <2>3, HandlesKept
<1>7. LocalPermits'
  BY SMT DEF LocalPermits
<1> QED BY <1>1, <1>2, <1>3, <1>4, <1>5, <1>6, <1>7

LEMMA SyncHandOver ==
  ASSUME SyncInv, FiberInv', NEW l \in Lockers, Release(l), waitingFibers # << >>, UNCHANGED syncVars
  PROVE  SyncInv'
<1> USE DEF SyncInv, Release
<1>0. l \in Fibers => ~Waits(l) /\ ~InSeq(waitingFibers, l) /\ status[l] = "RUNNING"
  <2>1. pc[l] # "queued" /\ at[l] # "queued"
    BY DEF OpenCalls
  <2> QED BY <2>1, ExecutingAwake
<1> DEFINE g == Head(waitingFibers)
<1>a. /\ g \in Fibers /\ InSeq(waitingFibers, g) /\ Tail(waitingFibers) \in Seq(Fibers)
      /\ \A y : InSeq(waitingFibers, y) <=> InSeq(Tail(waitingFibers), y) \/ y = g
      /\ Distinct(waitingFibers) => Distinct(Tail(waitingFibers)) /\ ~InSeq(Tail(waitingFibers), g)
  BY TailFacts DEF SyncTypeOK
<1>b. waitingFibers' = Tail(waitingFibers) /\ nextFiber' = [nextFiber EXCEPT ![l] = g]
      /\ pc' = [pc EXCEPT ![l] = "resume"] /\ locked' = locked /\ pc[l] = "release"
  OBVIOUS
<1>c. Waits(g) /\ pc[g] \in {"queued", "suspended"} /\ g # l
  BY <1>0, <1>a DEF OneWakeUp
<1> HIDE DEF g
<1>1. SyncTypeOK'
  <2>1. pc' \in [Lockers -> LockPc]
    BY <1>b, SMT DEF SyncTypeOK
  <2>2. nextFiber' \in [Lockers -> Fibers \cup {None}]
    BY <1>a, <1>b, SMT DEF SyncTypeOK
  <2> QED BY <1>a, <1>b, <2>1, <2>2 DEF SyncTypeOK
<1>2. OpenCalls'
  <2> HIDE DEF Release, SyncInv
  <2>1. UNCHANGED <<at, sem>>
    BY DEF Release
  <2>2. \A k \in Lockers :
          /\ pc'[k] = IF k = l THEN "resume" ELSE pc[k]
          /\ nextFiber'[k] = IF k = l THEN g ELSE nextFiber[k]
    BY <1>b DEF SyncTypeOK, SyncInv
  <2>3. at[l] \notin {"wait", "queued", "suspended", "inside", "signal", "resume", "resuming", "relock", "used"}
    BY <1>b DEF OpenCalls, SyncInv
  <2> QED BY <1>a, <2>1, <2>2, <2>3 DEF OpenCalls, SyncInv
<1>3. SyncStatus'
  <2> HIDE DEF Release
  <2>1. UNCHANGED <<at, status>>
    BY DEF Release
  <2> QED BY <1>0, <1>b, <2>1, SMT DEF SyncStatus
<1>4. OneWakeUp'
  <2> HIDE DEF Release, SyncInv
  <2>0. UNCHANGED <<semWaiters, at, sem, status, rpc, rfib>>
    BY DEF Release
  <2>1. \A f \in Fibers : Waits(f) => Waits(f)'
    BY <1>0, <1>b, <2>0, SMT DEF Waits
  <2>2. \A f \in Fibers : pc[f] \in {"queued", "suspended"} => pc'[f] \in {"queued", "suspended"}
    BY <1>b, SMT DEF SyncInv
  <2>3. \A f \in Fibers, k \in Lockers : Hands(k, f)' => Hands(k, f) \/ (k = l /\ f = g)
    BY <1>b, <2>0, SMT DEF SyncTypeOK, Hands, SyncInv
  <2>4. \A k \in Lockers : ~Hands(k, g)
    BY <1>a, <1>c DEF OneWakeUp, SyncInv
  <2>5. \A f \in Fibers, r \in Resumers : Resuming(r, f)' <=> Resuming(r, f)
    BY <2>0 DEF Resuming
  <2>6. \A s \in Sems : ~InSeq(semWaiters[s], g)
    BY <1>a, <1>c, SMT DEF OneWakeUp, OpenCalls, SyncInv
  <2> QED BY <1>a, <1>b, <1>c, <2>0, <2>1, <2>2, <2>3, <2>4, <2>5, <2>6 DEF OneWakeUp, SyncInv
<1>5. LockOwner'
  <2>1. HasLock(l) /\ \A k \in Lockers : HasLock(k)' <=> (HasLock(k) /\ k # l) \/ k = g
    BY <1>0, <1>a, <1>b, <1>c, SMT DEF SyncTypeOK, HasLock, OneWakeUp
  <2>2. g \in Lockers
    BY <1>a
  <2> QED BY <1>b, <2>1, <2>2 DEF LockOwner
<1>6. Handles'
  <2>1. \A f \in Fibers : Unsignalled(f) => Unsignalled(f)'
    BY <1>0, SMT DEF Unsignalled, InCvWait
  <2>2. \A k \in Lockers : Todo(k)' = Todo(k)
    BY SMT DEF Todo
  <2>3. /\ \A k \in Lockers : at'[k] \in {"resume", "resuming"} => toSignal'[k] # << >>
        /\ \A k \in Lockers : InSeq(Todo(k), Gate) => toSignal'[k] = toSignal[k]
    BY SMT DEF Handles
  <2> QED BY <2>1, <2>2, <2>3, HandlesKept
<1>7. LocalPermits'
  BY SMT DEF LocalPermits
<1> QED BY <1>1, <1>2, <1>3, <1>4, <1>5, <1>6, <1>7

LEMMA SyncResumeNext ==
  ASSUME SyncInv, FiberInv', NEW l \in Lockers, ResumeNext(l), UNCHANGED syncVars
  PROVE  SyncInv'
<1> USE DEF SyncInv, ResumeNext, ResumeCall
<1>0. l \in Fibers => ~Waits(l) /\ ~InSeq(waitingFibers, l) /\ status[l] = "RUNNING"
  <2>1. pc[l] # "queued" /\ at[l] # "queued"
    BY DEF OpenCalls
  <2> QED BY <2>1, ExecutingAwake
<1>1. SyncTypeOK'
  BY <1>0, SMT DEF SyncTypeOK
<1>2. OpenCalls'
  BY <1>0, SMT DEF OpenCalls
<1>3. SyncStatus'
  BY <1>0, SMT DEF SyncStatus
<1>4. OneWakeUp'
  <2> DEFINE g == nextFiber[l]
  <2>0. /\ Hands(l, g) /\ g \in Fibers /\ Waits(g) /\ l \in Resumers
        /\ UNCHANGED <<waitingFibers, semWaiters, sem, status, nextFiber>>
    BY DEF Hands, OpenCalls, OneWakeUp
  <2> HIDE DEF g
  <2>1. \A f \in Fibers : Waits(f)' <=> Waits(f)
    BY <2>0, SMT DEF Waits
  <2>2. \A f \in Fibers :
          /\ pc[f] \in {"queued", "suspended"} => pc'[f] \in {"queued", "suspended"}
          /\ at[f] \in {"queued", "suspended"} => at'[f] \in {"queued", "suspended"}
    BY SMT DEF SyncTypeOK
  <2>3. \A f \in Fibers, k \in Lockers : Hands(k, f)' => Hands(k, f) /\ k # l
    <3>1. at' = at /\ at[l] # "resume" /\ nextFiber' = nextFiber
      BY DEF OpenCalls
    <3>2. \A k \in Lockers : pc'[k] = IF k = l THEN "resuming" ELSE pc[k]
      BY DEF SyncTypeOK
    <3> QED BY <3>1, <3>2 DEF Hands
  <2>4. \A f \in Fibers, r \in Resumers : Resuming(r, f)' => Resuming(r, f) \/ (r = l /\ f = g)
    BY SMT DEF Resuming, FiberInv, FiberTypeOK, g
  <2> HIDE DEF SyncInv, ResumeNext, SignalResume
  <2> QED BY <2>0, <2>1, <2>2, <2>3, <2>4 DEF OneWakeUp, SyncInv
<1>5. LockOwner'
  <2>1. \A k \in Lockers : HasLock(k)' <=> HasLock(k)
    BY <1>0, SMT DEF HasLock
  <2> QED BY <2>1, LockKept
<1>6. Handles'
  <2>1. \A f \in Fibers : Unsignalled(f) => Unsignalled(f)'
    BY <1>0, SMT DEF Unsignalled, InCvWait
  <2>2. \A k \in Lockers : Todo(k)' = Todo(k)
    BY SMT DEF Todo
  <2>3. /\ \A k \in Lockers : at'[k] \in {"resume", "resuming"} => toSignal'[k] # << >>
        /\ \A k \in Lockers : InSeq(Todo(k), Gate) => toSignal'[k] = toSignal[k]
    BY SMT DEF Handles
  <2> QED BY <2>1, <2>2, <2>3, HandlesKept
<1>7. LocalPermits'
  BY SMT DEF LocalPermits
<1> QED BY <1>1, <1>2, <1>3, <1>4, <1>5, <1>6, <1>7

LEMMA SyncUnlockReturns ==
  ASSUME SyncInv, FiberInv', NEW l \in Lockers, UnlockReturns(l), UNCHANGED syncVars
  PROVE  SyncInv'
<1> USE DEF SyncInv, UnlockReturns
<1>0. l \in Fibers => ~Waits(l) /\ ~InSeq(waitingFibers, l) /\ status[l] = "RUNNING"
  <2>1. pc[l] # "queued" /\ at[l] # "queued"
    BY DEF OpenCalls
  <2> QED BY <2>1, ExecutingAwake
<1>1. SyncTypeOK'
  BY <1>0, SMT DEF SyncTypeOK
<1>2. OpenCalls'
  BY <1>0, SMT DEF OpenCalls
<1>3. SyncStatus'
  BY <1>0, SMT DEF SyncStatus
<1>4. OneWakeUp'
  <2>1. \A f \in Fibers : Waits(f) =>
           /\ Waits(f)'
           /\ pc[f] \in {"queued", "suspended"} => pc'[f] \in {"queued", "suspended"}
           /\ at[f] \in {"queued", "suspended"} =>
                at'[f] \in {"queued", "suspended"} /\ sem'[f] = sem[f]
    BY <1>0, SMT DEF Waits
  <2>2. \A f \in Fibers, k \in Lockers : Hands(k, f)' => Hands(k, f)
    BY SMT DEF Hands
  <2>3. \A f \in Fibers, r \in Resumers : Resuming(r, f)' => Resuming(r, f)
    BY SMT DEF Resuming
  <2> QED BY <2>1, <2>2, <2>3, WakeUpKept
<1>5. LockOwner'
  <2>1. \A k \in Lockers : HasLock(k)' <=> HasLock(k)
    BY <1>0, SMT DEF HasLock
  <2> QED BY <2>1, LockKept
<1>6. Handles'
  <2>1. \A f \in Fibers : Unsignalled(f) => Unsignalled(f)'
    BY <1>0, SMT DEF Unsignalled, InCvWait
  <2>2. \A k \in Lockers : Todo(k)' = Todo(k)
    BY SMT DEF Todo
  <2>3. /\ \A k \in Lockers : at'[k] \in {"resume", "resuming"} => toSignal'[k] # << >>
        /\ \A k \in Lockers : InSeq(Todo(k), Gate) => toSignal'[k] = toSignal[k]
    BY SMT DEF Handles
  <2> QED BY <2>1, <2>2, <2>3, HandlesKept
<1>7. LocalPermits'
  BY SMT DEF LocalPermits
<1> QED BY <1>1, <1>2, <1>3, <1>4, <1>5, <1>6, <1>7

LEMMA SyncLockSuspend ==
  ASSUME SyncInv, FiberInv', NEW w \in Workers, LockSuspend(w), UNCHANGED syncVars
  PROVE  SyncInv'
<1> USE DEF SyncInv, LockSuspend, AskSuspend, Ask
<1>0. /\ wfib[w] \in Fibers
      /\ status' = [status EXCEPT ![wfib[w]] = "WANTS_SUSPEND"] /\ status \in [Fibers -> FiberStatus]
  BY DEF FiberInv, FiberTypeOK
<1>1. SyncTypeOK'
  BY <1>0, SMTT(30) DEF SyncTypeOK
<1>2. OpenCalls'
  BY <1>0, SMT DEF OpenCalls
<1>3. SyncStatus'
  BY <1>0, SMT DEF SyncStatus, SyncTypeOK
<1>4. OneWakeUp'
  <2>1. \A f \in Fibers : Waits(f) =>
           /\ Waits(f)'
           /\ pc[f] \in {"queued", "suspended"} => pc'[f] \in {"queued", "suspended"}
           /\ at[f] \in {"queued", "suspended"} =>
                at'[f] \in {"queued", "suspended"} /\ sem'[f] = sem[f]
    <3> SUFFICES ASSUME NEW f \in Fibers, Waits(f)
                 PROVE  /\ Waits(f)'
                        /\ pc[f] \in {"queued", "suspended"} => pc'[f] \in {"queued", "suspended"}
                        /\ at[f] \in {"queued", "suspended"} =>
                             at'[f] \in {"queued", "suspended"} /\ sem'[f] = sem[f]
      OBVIOUS
    <3>1. CASE f = wfib[w]
      BY <1>0, <3>1, SMT DEF Waits
    <3>2. CASE f # wfib[w]
      BY <1>0, <3>2, SMT DEF Waits
    <3> QED BY <3>1, <3>2
  <2>2. \A f \in Fibers, k \in Lockers : Hands(k, f)' => Hands(k, f)
    BY <1>0, SMT DEF Hands
  <2>3. \A f \in Fibers, r \in Resumers : Resuming(r, f)' => Resuming(r, f)
    BY SMT DEF Resuming
  <2> QED BY <2>1, <2>2, <2>3, WakeUpKept
<1>5. LockOwner'
  <2>1. \A k \in Lockers : HasLock(k)' <=> HasLock(k)
    BY <1>0, SMT DEF HasLock
  <2> QED BY <2>1, LockKept
<1>6. Handles'
  <2>1. \A f \in Fibers : Unsignalled(f) => Unsignalled(f)'
    BY <1>0, SMT DEF Unsignalled, InCvWait
  <2>2. \A k \in Lockers : Todo(k)' = Todo(k)
    BY SMT DEF Todo
  <2>3. /\ \A k \in Lockers : at'[k] \in {"resume", "resuming"} => toSignal'[k] # << >>
        /\ \A k \in Lockers : InSeq(Todo(k), Gate) => toSignal'[k] = toSignal[k]
    BY SMT DEF Handles
  <2> QED BY <2>1, <2>2, <2>3, HandlesKept
<1>7. LocalPermits'
  BY SMT DEF LocalPermits
<1> QED BY <1>1, <1>2, <1>3, <1>4, <1>5, <1>6, <1>7

LEMMA SyncCallWait ==
  ASSUME SyncInv, FiberInv', NEW l \in Lockers, CallWait(l)
  PROVE  SyncInv'
<1> USE DEF SyncInv, CallWait
<1>0. l \in Fibers => ~Waits(l) /\ ~InSeq(waitingFibers, l) /\ status[l] = "RUNNING"
  <2>1. pc[l] # "queued" /\ at[l] # "queued"
    BY DEF OpenCalls
  <2> QED BY <2>1, ExecutingAwake
<1>1. SyncTypeOK'
  BY <1>0, SMT DEF SyncTypeOK
<1>2. OpenCalls'
  BY <1>0, SMT DEF OpenCalls
<1>3. SyncStatus'
  BY <1>0, SMT DEF SyncStatus
<1>4. OneWakeUp'
  <2>1. \A f \in Fibers : Waits(f) =>
           /\ Waits(f)'
           /\ pc[f] \in {"queued", "suspended"} => pc'[f] \in {"queued", "suspended"}
           /\ at[f] \in {"queued", "suspended"} =>
                at'[f] \in {"queued", "suspended"} /\ sem'[f] = sem[f]
    BY <1>0, SMT DEF Waits
  <2>2. \A f \in Fibers, k \in Lockers : Hands(k, f)' => Hands(k, f)
    BY SMT DEF Hands
  <2>3. \A f \in Fibers, r \in Resumers : Resuming(r, f)' => Resuming(r, f)
    BY SMT DEF Resuming
  <2> QED BY <2>1, <2>2, <2>3, WakeUpKept
<1>5. LockOwner'
  <2>1. \A k \in Lockers : HasLock(k)' <=> HasLock(k)
    BY <1>0, SMT DEF HasLock
  <2> QED BY <2>1, LockKept
<1>6. Handles'
  <2>1. \A f \in Fibers : Unsignalled(f) => Unsignalled(f)'
    BY <1>0, SMT DEF Unsignalled, InCvWait
  <2>2. \A k \in Lockers : Todo(k)' = Todo(k)
    BY SMT DEF Todo
  <2>3. /\ \A k \in Lockers : at'[k] \in {"resume", "resuming"} => toSignal'[k] # << >>
        /\ \A k \in Lockers : InSeq(Todo(k), Gate) => toSignal'[k] = toSignal[k]
    BY SMT DEF Handles
  <2> QED BY <2>1, <2>2, <2>3, HandlesKept
<1>7. LocalPermits'
  BY SMT DEF LocalPermits
<1> QED BY <1>1, <1>2, <1>3, <1>4, <1>5, <1>6, <1>7

LEMMA SyncWaitTakes ==
  ASSUME SyncInv, FiberInv', NEW l \in Lockers, WaitTakes(l)
  PROVE  SyncInv'
<1> USE DEF SyncInv, WaitTakes, Granted
<1>0. l \in Fibers => ~Waits(l) /\ ~InSeq(waitingFibers, l) /\ status[l] = "RUNNING"
  <2>1. pc[l] # "queued" /\ at[l] # "queued"
    BY DEF OpenCalls
  <2> QED BY <2>1, ExecutingAwake
<1>1. SyncTypeOK'
  <2>1. sem[l] \in Sems /\ permits' \in [Sems -> Nat]
    BY SMT DEF SyncTypeOK
  <2>2. pc' \in [Lockers -> LockPc]
    <3>1. pc' = pc \/ pc' = [pc EXCEPT ![l] = "lock"]
      OBVIOUS
    <3>2. pc \in [Lockers -> LockPc]
      BY DEF SyncTypeOK
    <3>3. [pc EXCEPT ![l] = "lock"] \in [Lockers -> LockPc]
      BY <3>2, UpdateType
    <3> HIDE DEF WaitTakes, Granted, SyncInv
    <3> QED BY <3>1, <3>2, <3>3
  <2>3. at' \in [Lockers -> SyncAt]
    <3>1. at' = at \/ at' = [at EXCEPT ![l] = "inside"] \/ at' = [at EXCEPT ![l] = "relock"]
      OBVIOUS
    <3>2. at \in [Lockers -> SyncAt]
      BY DEF SyncTypeOK
    <3>3. [at EXCEPT ![l] = "inside"] \in [Lockers -> SyncAt]
      BY <3>2, UpdateType
    <3>4. [at EXCEPT ![l] = "relock"] \in [Lockers -> SyncAt]
      BY <3>2, UpdateType
    <3> HIDE DEF WaitTakes, Granted, SyncInv
    <3> QED BY <3>1, <3>2, <3>3, <3>4
  <2> QED BY <2>1, <2>2, <2>3 DEF SyncTypeOK
<1>2. OpenCalls'
  BY <1>0, SMT DEF OpenCalls, SyncTypeOK
<1>3. SyncStatus'
  BY <1>0, SMT DEF SyncStatus, SyncTypeOK
<1>4. OneWakeUp'
  <2>1. \A f \in Fibers : Waits(f) =>
           /\ Waits(f)'
           /\ pc[f] \in {"queued", "suspended"} => pc'[f] \in {"queued", "suspended"}
           /\ at[f] \in {"queued", "suspended"} =>
                at'[f] \in {"queued", "suspended"} /\ sem'[f] = sem[f]
    BY <1>0, SMT DEF SyncTypeOK, Waits
  <2>2. \A f \in Fibers, k \in Lockers : Hands(k, f)' => Hands(k, f)
    BY SMT DEF SyncTypeOK, Hands
  <2>3. \A f \in Fibers, r \in Resumers : Resuming(r, f)' => Resuming(r, f)
    BY SMT DEF Resuming
  <2> QED BY <2>1, <2>2, <2>3, WakeUpKept
<1>5. LockOwner'
  <2>1. \A k \in Lockers : HasLock(k)' <=> HasLock(k)
    BY <1>0, SMT DEF SyncTypeOK, HasLock, OpenCalls
  <2> QED BY <2>1, LockKept
<1>6. Handles'
  <2>1. \A f \in Fibers : Unsignalled(f) => Unsignalled(f)'
    BY <1>0, SMT DEF SyncTypeOK, Unsignalled, InCvWait
  <2>2. \A k \in Lockers : Todo(k)' = Todo(k)
    BY SMT DEF SyncTypeOK, Todo
  <2>3. /\ \A k \in Lockers : at'[k] \in {"resume", "resuming"} => toSignal'[k] # << >>
        /\ \A k \in Lockers : InSeq(Todo(k), Gate) => toSignal'[k] = toSignal[k]
    BY SMT DEF SyncTypeOK, Handles
  <2> QED BY <2>1, <2>2, <2>3, HandlesKept
<1>7. LocalPermits'
  BY SMT DEF LocalPermits, SyncTypeOK
<1> QED BY <1>1, <1>2, <1>3, <1>4, <1>5, <1>6, <1>7

LEMMA SyncWaitQueues ==
  ASSUME SyncInv, FiberInv', NEW l \in Fibers, WaitQueues(l)
  PROVE  SyncInv'
<1> USE DEF SyncInv, WaitQueues
<1>0. l \in Fibers => ~Waits(l) /\ ~InSeq(waitingFibers, l) /\ status[l] = "RUNNING"
  <2>1. pc[l] # "queued" /\ at[l] # "queued"
    BY DEF OpenCalls
  <2> QED BY <2>1, ExecutingAwake
<1> DEFINE q == semWaiters[sem[l]]
<1>a. /\ q \in Seq(Fibers) /\ Append(q, l) \in Seq(Fibers)
      /\ \A y : InSeq(Append(q, l), y) <=> InSeq(q, y) \/ y = l
      /\ Distinct(q) /\ ~InSeq(q, l) => Distinct(Append(q, l))
  <2>1. q \in Seq(Fibers)
    BY DEF SyncTypeOK
  <2> QED BY <2>1, AppendFacts
<1>b. /\ l \in Lockers /\ sem[l] \in Sems
      /\ semWaiters' = [semWaiters EXCEPT ![sem[l]] = Append(q, l)]
  BY DEF SyncTypeOK
<1>c. \A s \in Sems : semWaiters'[s] = IF s = sem[l] THEN Append(q, l) ELSE semWaiters[s]
  BY <1>b DEF SyncTypeOK
<1>d. \A s \in Sems : ~InSeq(semWaiters[s], l)
  BY <1>0 DEF OneWakeUp
<1> HIDE DEF q
<1>1. SyncTypeOK'
  <2>1. semWaiters' \in [Sems -> Seq(Fibers)]
    BY <1>a, <1>b DEF SyncTypeOK
  <2>2. at' \in [Lockers -> SyncAt]
    BY <1>b, SMT DEF SyncTypeOK
  <2> QED BY <2>1, <2>2 DEF SyncTypeOK
<1>2. OpenCalls'
  BY <1>0, SMT DEF OpenCalls
<1>3. SyncStatus'
  BY <1>0, SMT DEF SyncStatus
<1>4. OneWakeUp'
  <2>1. \A f \in Fibers : Waits(f) =>
          /\ Waits(f)'
          /\ at[f] \in {"queued", "suspended"} => at'[f] \in {"queued", "suspended"}
    BY <1>0, <1>b, SMT DEF Waits
  <2>2. Waits(l)' /\ at'[l] = "queued"
    BY <1>b, SMT DEF SyncTypeOK, Waits
  <2>3. \A f \in Fibers, k \in Lockers : Hands(k, f)' => Hands(k, f) /\ f # l
    BY <1>0, <1>b, SMT DEF Hands, OneWakeUp
  <2>4. \A f \in Fibers, r \in Resumers : Resuming(r, f)' => Resuming(r, f) /\ f # l
    BY <1>0 DEF Resuming, OneWakeUp
  <2>5. waitingFibers' = waitingFibers /\ pc' = pc /\ sem' = sem
    OBVIOUS
  <2>6. \A s \in Sems : /\ \A y : InSeq(semWaiters'[s], y) <=> InSeq(semWaiters[s], y) \/ (s = sem[l] /\ y = l)
                        /\ Distinct(semWaiters[s]) => Distinct(semWaiters'[s])
    BY <1>a, <1>b, <1>c, <1>d DEF q
  <2> HIDE DEF WaitQueues, SyncInv
  <2>7. OneWakeUp
    BY DEF SyncInv
  <2>8. /\ Distinct(waitingFibers)' /\ \A s \in Sems : Distinct(semWaiters'[s])
        /\ \A f \in Fibers : InSeq(waitingFibers, f)' => pc'[f] \in {"queued", "suspended"} /\ Waits(f)'
    BY <2>1, <2>5, <2>6, <2>7 DEF OneWakeUp
  <2>9. \A f \in Fibers, s \in Sems : InSeq(semWaiters'[s], f) =>
          at'[f] \in {"queued", "suspended"} /\ sem'[f] = s /\ Waits(f)'
    BY <1>b, <2>1, <2>2, <2>5, <2>6, <2>7 DEF OneWakeUp
  <2>10. \A f \in Fibers : \A k \in Lockers : Hands(k, f)' =>
       /\ Waits(f)' /\ ~InSeq(waitingFibers, f)' /\ \A s \in Sems : ~InSeq(semWaiters'[s], f)
       /\ \A m \in Lockers : Hands(m, f)' => m = k
       /\ \A r \in Resumers : ~Resuming(r, f)'
    BY <2>1, <2>3, <2>4, <2>5, <2>6, <2>7 DEF OneWakeUp
  <2>11. \A f \in Fibers : \A r \in Resumers : Resuming(r, f)' =>
       /\ Waits(f)' /\ ~InSeq(waitingFibers, f)' /\ \A s \in Sems : ~InSeq(semWaiters'[s], f)
       /\ \A q1 \in Resumers : Resuming(q1, f)' => q1 = r
    BY <2>1, <2>4, <2>5, <2>6, <2>7 DEF OneWakeUp
  <2> QED BY <2>8, <2>9, <2>10, <2>11 DEF OneWakeUp
<1>5. LockOwner'
  <2>1. \A k \in Lockers : HasLock(k)' <=> HasLock(k)
    BY <1>0, SMT DEF HasLock
  <2> QED BY <2>1, LockKept
<1>6. Handles'
  <2>0. \A s \in Sems, y \in Fibers : InSeq(semWaiters[s], y) => InSeq(semWaiters'[s], y)
    BY <1>a, <1>c DEF q
  <2>1. \A f \in Fibers : Unsignalled(f) => Unsignalled(f)'
    <3>1. sem[l] = l => InSeq(semWaiters'[l], l)
      BY <1>a, <1>b, <1>c
    <3>2. at[l] = "wait" /\ at' = [at EXCEPT ![l] = "queued"] /\ sem' = sem /\ permits' = permits
      OBVIOUS
    <3>3. \A k \in Lockers : at'[k] = IF k = l THEN "queued" ELSE at[k]
      BY <3>2 DEF SyncTypeOK
    <3> HIDE DEF WaitQueues, SyncInv
    <3> QED BY <1>b, <2>0, <3>1, <3>2, <3>3 DEF Unsignalled, InCvWait
  <2>2. \A k \in Lockers : Todo(k)' = Todo(k)
    BY SMT DEF Todo
  <2>3. /\ \A k \in Lockers : at'[k] \in {"resume", "resuming"} => toSignal'[k] # << >>
        /\ \A k \in Lockers : InSeq(Todo(k), Gate) => toSignal'[k] = toSignal[k]
    BY SMT DEF Handles
  <2> QED BY <2>1, <2>2, <2>3, HandlesKept
<1>7. LocalPermits'
  BY SMT DEF LocalPermits
<1> QED BY <1>1, <1>2, <1>3, <1>4, <1>5, <1>6, <1>7

LEMMA SyncWaitSuspend ==
  ASSUME SyncInv, FiberInv', NEW w \in Workers, WaitSuspend(w)
  PROVE  SyncInv'
<1> USE DEF SyncInv, WaitSuspend, AskSuspend, Ask
<1>0. /\ wfib[w] \in Fibers
      /\ status' = [status EXCEPT ![wfib[w]] = "WANTS_SUSPEND"] /\ status \in [Fibers -> FiberStatus]
  BY DEF FiberInv, FiberTypeOK
<1>1. SyncTypeOK'
  BY <1>0, SMT DEF SyncTypeOK
<1>2. OpenCalls'
  BY <1>0, SMT DEF OpenCalls
<1>3. SyncStatus'
  BY <1>0, SMT DEF SyncStatus, OpenCalls, SyncTypeOK
<1>4. OneWakeUp'
  <2>1. \A f \in Fibers : Waits(f) =>
           /\ Waits(f)'
           /\ pc[f] \in {"queued", "suspended"} => pc'[f] \in {"queued", "suspended"}
           /\ at[f] \in {"queued", "suspended"} =>
                at'[f] \in {"queued", "suspended"} /\ sem'[f] = sem[f]
    <3> SUFFICES ASSUME NEW f \in Fibers, Waits(f)
                 PROVE  /\ Waits(f)'
                        /\ pc[f] \in {"queued", "suspended"} => pc'[f] \in {"queued", "suspended"}
                        /\ at[f] \in {"queued", "suspended"} =>
                             at'[f] \in {"queued", "suspended"} /\ sem'[f] = sem[f]
      OBVIOUS
    <3>1. CASE f = wfib[w]
      BY <1>0, <3>1, SMT DEF Waits
    <3>2. CASE f # wfib[w]
      BY <1>0, <3>2, SMT DEF Waits
    <3> QED BY <3>1, <3>2
  <2>2. \A f \in Fibers, k \in Lockers : Hands(k, f)' => Hands(k, f)
    BY <1>0, SMT DEF Hands
  <2>3. \A f \in Fibers, r \in Resumers : Resuming(r, f)' => Resuming(r, f)
    BY SMT DEF Resuming
  <2> QED BY <2>1, <2>2, <2>3, WakeUpKept
<1>5. LockOwner'
  <2>1. \A k \in Lockers : HasLock(k)' <=> HasLock(k)
    BY <1>0, SMT DEF HasLock
  <2> QED BY <2>1, LockKept
<1>6. Handles'
  <2>1. \A f \in Fibers : Unsignalled(f) => Unsignalled(f)'
    BY <1>0, SMT DEF Unsignalled, InCvWait
  <2>2. \A k \in Lockers : Todo(k)' = Todo(k)
    BY SMT DEF Todo
  <2>3. /\ \A k \in Lockers : at'[k] \in {"resume", "resuming"} => toSignal'[k] # << >>
        /\ \A k \in Lockers : InSeq(Todo(k), Gate) => toSignal'[k] = toSignal[k]
    BY SMT DEF Handles
  <2> QED BY <2>1, <2>2, <2>3, HandlesKept
<1>7. LocalPermits'
  BY SMT DEF LocalPermits
<1> QED BY <1>1, <1>2, <1>3, <1>4, <1>5, <1>6, <1>7

LEMMA SyncWaitResumed ==
  ASSUME SyncInv, FiberInv', NEW l \in Lockers, WaitResumed(l)
  PROVE  SyncInv'
<1> USE DEF SyncInv, WaitResumed, Granted
<1>0. l \in Fibers => ~Waits(l) /\ ~InSeq(waitingFibers, l) /\ status[l] = "RUNNING"
  <2>1. pc[l] # "queued" /\ at[l] # "queued"
    BY DEF OpenCalls
  <2> QED BY <2>1, ExecutingAwake
<1>a. \A s \in Sems : l \in Fibers => ~InSeq(semWaiters[s], l)
  BY <1>0 DEF OneWakeUp
<1>1. SyncTypeOK'
  <2>1. pc' \in [Lockers -> LockPc]
    <3>1. pc' = pc \/ pc' = [pc EXCEPT ![l] = "lock"]
      OBVIOUS
    <3>2. pc \in [Lockers -> LockPc]
      BY DEF SyncTypeOK
    <3>3. [pc EXCEPT ![l] = "lock"] \in [Lockers -> LockPc]
      BY <3>2, UpdateType
    <3> HIDE DEF WaitResumed, Granted, SyncInv
    <3> QED BY <3>1, <3>2, <3>3
  <2>2. at' \in [Lockers -> SyncAt]
    <3>1. at' = at \/ at' = [at EXCEPT ![l] = "inside"] \/ at' = [at EXCEPT ![l] = "relock"]
      OBVIOUS
    <3>2. at \in [Lockers -> SyncAt]
      BY DEF SyncTypeOK
    <3>3. [at EXCEPT ![l] = "inside"] \in [Lockers -> SyncAt]
      BY <3>2, UpdateType
    <3>4. [at EXCEPT ![l] = "relock"] \in [Lockers -> SyncAt]
      BY <3>2, UpdateType
    <3> HIDE DEF WaitResumed, Granted, SyncInv
    <3> QED BY <3>1, <3>2, <3>3, <3>4
  <2> QED BY <2>1, <2>2 DEF SyncTypeOK
<1>2. OpenCalls'
  <2>1. CASE sem[l] = Gate
    BY <2>1, SMT DEF OpenCalls, SyncTypeOK
  <2>2. CASE sem[l] # Gate
    BY <2>2, SMT DEF OpenCalls, SyncTypeOK
  <2> QED BY <2>1, <2>2
<1>3. SyncStatus'
  BY <1>0, SMT DEF SyncStatus, SyncTypeOK
<1>4. OneWakeUp'
  <2>1. \A f \in Fibers : Waits(f) =>
           /\ Waits(f)'
           /\ pc[f] \in {"queued", "suspended"} => pc'[f] \in {"queued", "suspended"}
           /\ at[f] \in {"queued", "suspended"} =>
                at'[f] \in {"queued", "suspended"} /\ sem'[f] = sem[f]
    BY <1>0, SMT DEF SyncTypeOK, Waits
  <2>2. \A f \in Fibers, k \in Lockers : Hands(k, f)' => Hands(k, f)
    BY SMT DEF SyncTypeOK, Hands
  <2>3. \A f \in Fibers, r \in Resumers : Resuming(r, f)' => Resuming(r, f)
    BY SMT DEF Resuming
  <2> QED BY <2>1, <2>2, <2>3, WakeUpKept
<1>5. LockOwner'
  <2>1. \A k \in Lockers : HasLock(k)' <=> HasLock(k)
    BY <1>0, SMT DEF SyncTypeOK, HasLock, OpenCalls
  <2> QED BY <2>1, LockKept
<1>6. Handles'
  <2>1. \A f \in Fibers : Unsignalled(f) => Unsignalled(f)'
    BY <1>0, <1>a, SMT DEF SyncTypeOK, Unsignalled, InCvWait
  <2>2. \A k \in Lockers : Todo(k)' = Todo(k)
    BY SMT DEF SyncTypeOK, Todo
  <2>3. /\ \A k \in Lockers : at'[k] \in {"resume", "resuming"} => toSignal'[k] # << >>
        /\ \A k \in Lockers : InSeq(Todo(k), Gate) => toSignal'[k] = toSignal[k]
    BY SMT DEF SyncTypeOK, Handles
  <2> QED BY <2>1, <2>2, <2>3, HandlesKept
<1>7. LocalPermits'
  BY SMT DEF LocalPermits, SyncTypeOK
<1> QED BY <1>1, <1>2, <1>3, <1>4, <1>5, <1>6, <1>7

LEMMA SyncLeaveGate ==
  ASSUME SyncInv, FiberInv', NEW l \in Lockers, LeaveGate(l)
  PROVE  SyncInv'
<1> USE DEF SyncInv, LeaveGate
<1>0. l \in Fibers => ~Waits(l) /\ ~InSeq(waitingFibers, l) /\ status[l] = "RUNNING"
  <2>1. pc[l] # "queued" /\ at[l] # "queued"
    BY DEF OpenCalls
  <2> QED BY <2>1, ExecutingAwake
<1>a. <<Gate>> # << >> /\ Distinct(<<Gate>>) /\ \A y : InSeq(<<Gate>>, y) <=> y = Gate
  BY SingleFacts
<1>b. Distinct(<< >>) /\ \A y : ~InSeq(<< >>, y)
  BY EmptyFacts
<1>1. SyncTypeOK'
  BY <1>0, SMT DEF SyncTypeOK
<1>2. OpenCalls'
  BY <1>0, SMT DEF OpenCalls
<1>3. SyncStatus'
  BY <1>0, SMT DEF SyncStatus
<1>4. OneWakeUp'
  <2>1. \A f \in Fibers : Waits(f) =>
           /\ Waits(f)'
           /\ pc[f] \in {"queued", "suspended"} => pc'[f] \in {"queued", "suspended"}
           /\ at[f] \in {"queued", "suspended"} =>
                at'[f] \in {"queued", "suspended"} /\ sem'[f] = sem[f]
    BY <1>0, SMT DEF Waits
  <2>2. \A f \in Fibers, k \in Lockers : Hands(k, f)' => Hands(k, f)
    BY SMT DEF Hands
  <2>3. \A f \in Fibers, r \in Resumers : Resuming(r, f)' => Resuming(r, f)
    BY SMT DEF Resuming
  <2> QED BY <2>1, <2>2, <2>3, WakeUpKept
<1>5. LockOwner'
  <2>1. \A k \in Lockers : HasLock(k)' <=> HasLock(k)
    BY <1>0, SMT DEF HasLock
  <2> QED BY <2>1, LockKept
<1>6. Handles'
  <2>1. \A f \in Fibers : Unsignalled(f) => Unsignalled(f)'
    BY <1>0, SMT DEF Unsignalled, InCvWait
  <2>2. /\ \A k \in Lockers : k # l => Todo(k)' = Todo(k) /\ toSignal'[k] = toSignal[k] /\ at'[k] = at[k]
        /\ Todo(l)' = <<Gate>> /\ toSignal'[l] = <<Gate>> /\ at'[l] = "signal"
    BY SMT DEF SyncTypeOK, Todo
  <2>3. waitingQueue' = waitingQueue
    OBVIOUS
  <2> HIDE DEF LeaveGate, SyncInv
  <2> QED BY <1>a, <2>1, <2>2, <2>3 DEF Handles, SyncInv
<1>7. LocalPermits'
  BY SMT DEF LocalPermits
<1> QED BY <1>1, <1>2, <1>3, <1>4, <1>5, <1>6, <1>7

LEMMA SyncSignalResume ==
  ASSUME SyncInv, FiberInv', NEW l \in Lockers, SignalResume(l)
  PROVE  SyncInv'
<1> USE DEF SyncInv, SignalResume, ResumeCall
<1>0. l \in Fibers => ~Waits(l) /\ ~InSeq(waitingFibers, l) /\ status[l] = "RUNNING"
  <2>1. pc[l] # "queued" /\ at[l] # "queued"
    BY DEF OpenCalls
  <2> QED BY <2>1, ExecutingAwake
<1>1. SyncTypeOK'
  BY <1>0, SMT DEF SyncTypeOK
<1>2. OpenCalls'
  BY <1>0, SMT DEF OpenCalls
<1>3. SyncStatus'
  BY <1>0, SMT DEF SyncStatus
<1>4. OneWakeUp'
  <2> DEFINE g == nextFiber[l]
  <2>0. /\ Hands(l, g) /\ g \in Fibers /\ Waits(g) /\ l \in Resumers
        /\ UNCHANGED <<waitingFibers, semWaiters, sem, status, nextFiber>>
    BY DEF Hands, OpenCalls, OneWakeUp
  <2> HIDE DEF g
  <2>1. \A f \in Fibers : Waits(f)' <=> Waits(f)
    BY <2>0, SMT DEF Waits
  <2>2. \A f \in Fibers :
          /\ pc[f] \in {"queued", "suspended"} => pc'[f] \in {"queued", "suspended"}
          /\ at[f] \in {"queued", "suspended"} => at'[f] \in {"queued", "suspended"}
    BY SMT DEF SyncTypeOK
  <2>3. \A f \in Fibers, k \in Lockers : Hands(k, f)' => Hands(k, f) /\ k # l
    <3>1. pc' = pc /\ pc[l] # "resume" /\ nextFiber' = nextFiber
      BY DEF OpenCalls
    <3>2. \A k \in Lockers : at'[k] = IF k = l THEN "resuming" ELSE at[k]
      BY DEF SyncTypeOK
    <3> QED BY <3>1, <3>2 DEF Hands
  <2>4. \A f \in Fibers, r \in Resumers : Resuming(r, f)' => Resuming(r, f) \/ (r = l /\ f = g)
    BY SMT DEF Resuming, FiberInv, FiberTypeOK, g
  <2> HIDE DEF SyncInv, ResumeNext, SignalResume
  <2> QED BY <2>0, <2>1, <2>2, <2>3, <2>4 DEF OneWakeUp, SyncInv
<1>5. LockOwner'
  <2>1. \A k \in Lockers : HasLock(k)' <=> HasLock(k)
    BY <1>0, SMT DEF HasLock
  <2> QED BY <2>1, LockKept
<1>6. Handles'
  <2>1. \A f \in Fibers : Unsignalled(f) => Unsignalled(f)'
    BY <1>0, SMT DEF Unsignalled, InCvWait
  <2>2. \A k \in Lockers : Todo(k)' = Todo(k)
    BY SMT DEF Todo
  <2>3. /\ \A k \in Lockers : at'[k] \in {"resume", "resuming"} => toSignal'[k] # << >>
        /\ \A k \in Lockers : InSeq(Todo(k), Gate) => toSignal'[k] = toSignal[k]
    BY SMT DEF Handles
  <2> QED BY <2>1, <2>2, <2>3, HandlesKept
<1>7. LocalPermits'
  BY DEF LocalPermits
<1> QED BY <1>1, <1>2, <1>3, <1>4, <1>5, <1>6, <1>7

LEMMA SyncSignalReturns ==
  ASSUME SyncInv, FiberInv', NEW l \in Lockers, SignalReturns(l)
  PROVE  SyncInv'
<1> USE DEF SyncInv, SignalReturns
<1>0. l \in Fibers => ~Waits(l) /\ ~InSeq(waitingFibers, l) /\ status[l] = "RUNNING"
  <2>1. pc[l] # "queued" /\ at[l] # "queued"
    BY DEF OpenCalls
  <2> QED BY <2>1, ExecutingAwake
<1>a. toSignal[l] # << >> /\ toSignal[l] \in Seq(Sems) /\ Tail(toSignal[l]) \in Seq(Sems)
  <2>1. toSignal[l] # << >> /\ toSignal[l] \in Seq(Sems)
    BY DEF Handles, SyncTypeOK
  <2> QED BY <2>1, TailFacts
<1>1. SyncTypeOK'
  <2>1. at' \in [Lockers -> SyncAt]
    BY SMT DEF SyncTypeOK
  <2>2. nextFiber' \in [Lockers -> Fibers \cup {None}]
    BY SMT DEF SyncTypeOK
  <2>3. toSignal' \in [Lockers -> Seq(Sems)]
    BY <1>a DEF SyncTypeOK
  <2> QED BY <2>1, <2>2, <2>3 DEF SyncTypeOK
<1>2. OpenCalls'
  BY <1>0, SMT DEF OpenCalls
<1>3. SyncStatus'
  BY <1>0, SMT DEF SyncStatus
<1>4. OneWakeUp'
  <2>1. \A f \in Fibers : Waits(f) =>
           /\ Waits(f)'
           /\ pc[f] \in {"queued", "suspended"} => pc'[f] \in {"queued", "suspended"}
           /\ at[f] \in {"queued", "suspended"} =>
                at'[f] \in {"queued", "suspended"} /\ sem'[f] = sem[f]
    BY <1>0, SMT DEF Waits
  <2>2. \A f \in Fibers, k \in Lockers : Hands(k, f)' => Hands(k, f)
    BY SMT DEF Hands
  <2>3. \A f \in Fibers, r \in Resumers : Resuming(r, f)' => Resuming(r, f)
    BY SMT DEF Resuming
  <2> QED BY <2>1, <2>2, <2>3, WakeUpKept
<1>5. LockOwner'
  <2>1. \A k \in Lockers : HasLock(k)' <=> HasLock(k)
    BY <1>0, SMT DEF HasLock
  <2> QED BY <2>1, LockKept
<1>6. Handles'
  <2>1. \A f \in Fibers : Unsignalled(f) => Unsignalled(f)'
    BY <1>0, SMT DEF Unsignalled, InCvWait
  <2>2. \A k \in Lockers : Todo(k)' = Todo(k)
    BY SMT DEF SyncTypeOK, Todo
  <2>3. \A k \in Lockers : at'[k] \in {"resume", "resuming"} => toSignal'[k] # << >>
    BY SMT DEF SyncTypeOK, Handles
  <2>4. \A k \in Lockers : InSeq(Todo(k), Gate) => toSignal'[k] = toSignal[k]
    <3>1. ~InSeq(Todo(l), Gate)
      <4>1. Todo(l) = Tail(toSignal[l])
        BY DEF Todo
      <4>2. toSignal[l] = <<Gate>> => ~InSeq(Todo(l), Gate)
        BY <4>1, SingleFacts, EmptyFacts
      <4> QED BY <4>2 DEF Handles
    <3> QED BY <3>1 DEF SyncTypeOK
  <2> QED BY <2>1, <2>2, <2>3, <2>4, HandlesKept
<1>7. LocalPermits'
  BY SMT DEF LocalPermits
<1> QED BY <1>1, <1>2, <1>3, <1>4, <1>5, <1>6, <1>7

LEMMA SyncSignalled ==
  ASSUME SyncInv, FiberInv', NEW l \in Lockers, Signalled(l)
  PROVE  SyncInv'
<1> USE DEF SyncInv, Signalled
<1>0. l \in Fibers => ~Waits(l) /\ ~InSeq(waitingFibers, l) /\ status[l] = "RUNNING"
  <2>1. pc[l] # "queued" /\ at[l] # "queued"
    BY DEF OpenCalls
  <2> QED BY <2>1, ExecutingAwake
<1>1. SyncTypeOK'
  BY <1>0, SMT DEF SyncTypeOK
<1>2. OpenCalls'
  <2>1. CASE pc[l] = "critical"
    <3>1. \A k \in Lockers : at'[k] = IF k = l THEN "used" ELSE at[k]
      BY <2>1 DEF SyncTypeOK
    <3> QED BY <2>1, <3>1 DEF OpenCalls
  <2>2. CASE pc[l] # "critical"
    <3>1. \A k \in Lockers : at'[k] = IF k = l THEN "plain" ELSE at[k]
      BY <2>2 DEF SyncTypeOK
    <3> QED BY <2>2, <3>1 DEF OpenCalls
  <2> QED BY <2>1, <2>2
<1>3. SyncStatus'
  BY <1>0, SMT DEF SyncStatus
<1>4. OneWakeUp'
  <2>1. \A f \in Fibers : Waits(f) =>
           /\ Waits(f)'
           /\ pc[f] \in {"queued", "suspended"} => pc'[f] \in {"queued", "suspended"}
           /\ at[f] \in {"queued", "suspended"} =>
                at'[f] \in {"queued", "suspended"} /\ sem'[f] = sem[f]
    BY <1>0, SMT DEF Waits
  <2>2. \A f \in Fibers, k \in Lockers : Hands(k, f)' => Hands(k, f)
    BY SMT DEF Hands
  <2>3. \A f \in Fibers, r \in Resumers : Resuming(r, f)' => Resuming(r, f)
    BY SMT DEF Resuming
  <2> QED BY <2>1, <2>2, <2>3, WakeUpKept
<1>5. LockOwner'
  <2>1. \A k \in Lockers : HasLock(k)' <=> HasLock(k)
    BY <1>0, SMT DEF HasLock
  <2> QED BY <2>1, LockKept
<1>6. Handles'
  <2>1. \A f \in Fibers : Unsignalled(f) => Unsignalled(f)'
    BY <1>0, SMT DEF Unsignalled, InCvWait
  <2>2. \A k \in Lockers : Todo(k)' = Todo(k)
    BY SMT DEF Todo
  <2>3. /\ \A k \in Lockers : at'[k] \in {"resume", "resuming"} => toSignal'[k] # << >>
        /\ \A k \in Lockers : InSeq(Todo(k), Gate) => toSignal'[k] = toSignal[k]
    BY SMT DEF Handles
  <2> QED BY <2>1, <2>2, <2>3, HandlesKept
<1>7. LocalPermits'
  BY SMT DEF LocalPermits
<1> QED BY <1>1, <1>2, <1>3, <1>4, <1>5, <1>6, <1>7

LEMMA SyncCvWait ==
  ASSUME SyncInv, FiberInv', NEW l \in Lockers, CvWait(l)
  PROVE  SyncInv'
<1> USE DEF SyncInv, CvWait
<1>0. l \in Fibers => ~Waits(l) /\ ~InSeq(waitingFibers, l) /\ status[l] = "RUNNING"
  <2>1. pc[l] # "queued" /\ at[l] # "queued"
    BY DEF OpenCalls
  <2> QED BY <2>1, ExecutingAwake
<1>a. l \in Fibers =>
        /\ Append(waitingQueue, l) \in Seq(Fibers)
        /\ \A y : InSeq(Append(waitingQueue, l), y) <=> InSeq(waitingQueue, y) \/ y = l
        /\ Distinct(waitingQueue) /\ ~InSeq(waitingQueue, l) =>
             Distinct(Append(waitingQueue, l))
  BY AppendFacts DEF SyncTypeOK
<1>1. SyncTypeOK'
  <2>1. waitingQueue' \in Seq(Fibers)
    BY <1>a DEF SyncTypeOK
  <2>2. at' \in [Lockers -> SyncAt]
    BY SMT DEF SyncTypeOK
  <2> QED BY <2>1, <2>2 DEF SyncTypeOK
<1>2. OpenCalls'
  BY <1>0, SMT DEF OpenCalls
<1>3. SyncStatus'
  BY <1>0, SMT DEF SyncStatus
<1>4. OneWakeUp'
  <2>1. \A f \in Fibers : Waits(f) =>
           /\ Waits(f)'
           /\ pc[f] \in {"queued", "suspended"} => pc'[f] \in {"queued", "suspended"}
           /\ at[f] \in {"queued", "suspended"} =>
                at'[f] \in {"queued", "suspended"} /\ sem'[f] = sem[f]
    BY <1>0, SMT DEF Waits
  <2>2. \A f \in Fibers, k \in Lockers : Hands(k, f)' => Hands(k, f)
    BY SMT DEF Hands
  <2>3. \A f \in Fibers, r \in Resumers : Resuming(r, f)' => Resuming(r, f)
    BY SMT DEF Resuming
  <2> QED BY <2>1, <2>2, <2>3, WakeUpKept
<1>5. LockOwner'
  <2>1. \A k \in Lockers : HasLock(k)' <=> HasLock(k)
    BY <1>0, SMT DEF HasLock
  <2> QED BY <2>1, LockKept
<1>6. Handles'
  <2>1. \A f \in Fibers : Unsignalled(f) => Unsignalled(f)' /\ f # l
    BY <1>0, SMT DEF Unsignalled, InCvWait
  <2>2. \A k \in Lockers : Todo(k)' = Todo(k)
    BY SMT DEF Todo
  <2>3. /\ \A k \in Lockers : at'[k] \in {"resume", "resuming"} => toSignal'[k] # << >>
        /\ \A k \in Lockers : InSeq(Todo(k), Gate) => toSignal'[k] = toSignal[k]
    BY SMT DEF Handles
  <2>4. CASE l \notin Fibers
    <3>1. waitingQueue' = waitingQueue
      BY <2>4
    <3> QED BY <2>1, <2>2, <2>3, <3>1, HandlesKept
  <2>5. CASE l \in Fibers
    <3>1. waitingQueue' = Append(waitingQueue, l)
      BY <2>5
    <3>2. permits[l] \in Nat /\ permits[l] = 0
      <4>1. permits[l] \in Nat
        BY <2>5 DEF SyncTypeOK
      <4>2. permits[l] <= 1 /\ permits[l] # 1
        BY <2>5 DEF LocalPermits
      <4> QED BY <4>1, <4>2, SMT
    <3>3. Unsignalled(l)'
      BY <2>5, <3>2, SMT DEF Unsignalled, InCvWait, SyncTypeOK
    <3>4. ~InSeq(waitingQueue, l) /\ \A k \in Lockers : ~InSeq(Todo(k), l)
      BY <2>1, <2>5 DEF Handles
    <3> HIDE DEF CvWait, SyncInv
    <3> QED BY <1>a, <2>1, <2>2, <2>3, <2>5, <3>1, <3>3, <3>4 DEF Handles, SyncInv
  <2> QED BY <2>4, <2>5
<1>7. LocalPermits'
  BY SMT DEF LocalPermits
<1> QED BY <1>1, <1>2, <1>3, <1>4, <1>5, <1>6, <1>7

LEMMA SyncCvUnlocked ==
  ASSUME SyncInv, FiberInv', NEW l \in Lockers, CvUnlocked(l)
  PROVE  SyncInv'
<1> USE DEF SyncInv, CvUnlocked
<1>0. l \in Fibers => ~Waits(l) /\ ~InSeq(waitingFibers, l) /\ status[l] = "RUNNING"
  <2>1. pc[l] # "queued" /\ at[l] # "queued"
    BY DEF OpenCalls
  <2> QED BY <2>1, ExecutingAwake
<1>1. SyncTypeOK'
  <2>1. pc' \in [Lockers -> LockPc]
    <3>1. pc' = pc \/ pc' = [pc EXCEPT ![l] = "lock"]
      OBVIOUS
    <3>2. pc \in [Lockers -> LockPc]
      BY DEF SyncTypeOK
    <3>3. [pc EXCEPT ![l] = "lock"] \in [Lockers -> LockPc]
      BY <3>2, UpdateType
    <3> HIDE DEF CvUnlocked, SyncInv
    <3> QED BY <3>1, <3>2, <3>3
  <2>2. at' \in [Lockers -> SyncAt]
    <3>1. at' = at \/ at' = [at EXCEPT ![l] = "wait"] \/ at' = [at EXCEPT ![l] = "relock"]
      OBVIOUS
    <3>2. at \in [Lockers -> SyncAt]
      BY DEF SyncTypeOK
    <3>3. [at EXCEPT ![l] = "wait"] \in [Lockers -> SyncAt]
      BY <3>2, UpdateType
    <3>4. [at EXCEPT ![l] = "relock"] \in [Lockers -> SyncAt]
      BY <3>2, UpdateType
    <3> HIDE DEF CvUnlocked, SyncInv
    <3> QED BY <3>1, <3>2, <3>3, <3>4
  <2>3. sem' \in [Lockers -> Sems]
    <3>1. sem' = sem \/ sem' = [sem EXCEPT ![l] = l]
      OBVIOUS
    <3>2. l \in Fibers \/ sem' = sem
      OBVIOUS
    <3>3. sem \in [Lockers -> Sems]
      BY DEF SyncTypeOK
    <3>4. l \in Fibers => [sem EXCEPT ![l] = l] \in [Lockers -> Sems]
      BY <3>3, UpdateType
    <3> HIDE DEF CvUnlocked, SyncInv
    <3> QED BY <3>1, <3>2, <3>3, <3>4
  <2> QED BY <2>1, <2>2, <2>3 DEF SyncTypeOK
<1>2. OpenCalls'
  BY <1>0, SMT DEF OpenCalls, SyncTypeOK
<1>3. SyncStatus'
  BY <1>0, SMT DEF SyncStatus, SyncTypeOK
<1>4. OneWakeUp'
  <2>1. \A f \in Fibers : Waits(f) =>
           /\ Waits(f)'
           /\ pc[f] \in {"queued", "suspended"} => pc'[f] \in {"queued", "suspended"}
           /\ at[f] \in {"queued", "suspended"} =>
                at'[f] \in {"queued", "suspended"} /\ sem'[f] = sem[f]
    BY <1>0, SMT DEF SyncTypeOK, Waits
  <2>2. \A f \in Fibers, k \in Lockers : Hands(k, f)' => Hands(k, f)
    BY SMT DEF SyncTypeOK, Hands
  <2>3. \A f \in Fibers, r \in Resumers : Resuming(r, f)' => Resuming(r, f)
    BY SMT DEF Resuming
  <2> QED BY <2>1, <2>2, <2>3, WakeUpKept
<1>5. LockOwner'
  <2>1. \A k \in Lockers : HasLock(k)' <=> HasLock(k)
    BY <1>0, SMT DEF SyncTypeOK, HasLock
  <2> QED BY <2>1, LockKept
<1>6. Handles'
  <2>1. \A f \in Fibers : Unsignalled(f) => Unsignalled(f)'
    BY <1>0, SMT DEF SyncTypeOK, Unsignalled, InCvWait
  <2>2. \A k \in Lockers : Todo(k)' = Todo(k)
    BY SMT DEF SyncTypeOK, Todo
  <2>3. /\ \A k \in Lockers : at'[k] \in {"resume", "resuming"} => toSignal'[k] # << >>
        /\ \A k \in Lockers : InSeq(Todo(k), Gate) => toSignal'[k] = toSignal[k]
    BY SMT DEF SyncTypeOK, Handles
  <2> QED BY <2>1, <2>2, <2>3, HandlesKept
<1>7. LocalPermits'
  <2>1. CASE l \in Fibers
    <3>1. \A k \in Lockers : /\ at'[k] = IF k = l THEN "wait" ELSE at[k]
                             /\ sem'[k] = IF k = l THEN l ELSE sem[k]
      BY <2>1 DEF SyncTypeOK
    <3> QED BY <2>1, <3>1 DEF LocalPermits
  <2>2. CASE l \notin Fibers
    BY <2>2, SMT DEF LocalPermits, SyncTypeOK
  <2> QED BY <2>1, <2>2
<1> QED BY <1>1, <1>2, <1>3, <1>4, <1>5, <1>6, <1>7

LEMMA SyncCvReturn ==
  ASSUME SyncInv, FiberInv', NEW l \in Lockers, CvReturn(l)
  PROVE  SyncInv'
<1> USE DEF SyncInv, CvReturn
<1>0. l \in Fibers => ~Waits(l) /\ ~InSeq(waitingFibers, l) /\ status[l] = "RUNNING"
  <2>1. pc[l] # "queued" /\ at[l] # "queued"
    BY DEF OpenCalls
  <2> QED BY <2>1, ExecutingAwake
<1>1. SyncTypeOK'
  BY <1>0, SMT DEF SyncTypeOK
<1>2. OpenCalls'
  BY <1>0, SMT DEF OpenCalls, SyncTypeOK
<1>3. SyncStatus'
  BY <1>0, SMT DEF SyncStatus
<1>4. OneWakeUp'
  <2>1. \A f \in Fibers : Waits(f) =>
           /\ Waits(f)'
           /\ pc[f] \in {"queued", "suspended"} => pc'[f] \in {"queued", "suspended"}
           /\ at[f] \in {"queued", "suspended"} =>
                at'[f] \in {"queued", "suspended"} /\ sem'[f] = sem[f]
    BY <1>0, SMT DEF Waits
  <2>2. \A f \in Fibers, k \in Lockers : Hands(k, f)' => Hands(k, f)
    BY SMT DEF Hands
  <2>3. \A f \in Fibers, r \in Resumers : Resuming(r, f)' => Resuming(r, f)
    BY SMT DEF Resuming
  <2> QED BY <2>1, <2>2, <2>3, WakeUpKept
<1>5. LockOwner'
  <2>1. \A k \in Lockers : HasLock(k)' <=> HasLock(k)
    BY <1>0, SMT DEF HasLock
  <2> QED BY <2>1, LockKept
<1>6. Handles'
  <2>1. \A f \in Fibers : Unsignalled(f) => Unsignalled(f)'
    BY <1>0, SMT DEF Unsignalled, InCvWait
  <2>2. \A k \in Lockers : Todo(k)' = Todo(k)
    BY SMT DEF Todo
  <2>3. /\ \A k \in Lockers : at'[k] \in {"resume", "resuming"} => toSignal'[k] # << >>
        /\ \A k \in Lockers : InSeq(Todo(k), Gate) => toSignal'[k] = toSignal[k]
    BY SMT DEF Handles
  <2> QED BY <2>1, <2>2, <2>3, HandlesKept
<1>7. LocalPermits'
  BY SMT DEF LocalPermits
<1> QED BY <1>1, <1>2, <1>3, <1>4, <1>5, <1>6, <1>7

\* A notifier takes the next semaphore s to signal it.
LEMMA HandleTaken ==
  ASSUME Handles, NEW l \in Lockers, NEW s \in Sems, UNCHANGED waitingQueue,
         \A y : InSeq(Todo(l), y) <=> InSeq(Todo(l)', y) \/ y = s,
         Distinct(Todo(l)'), ~InSeq(Todo(l)', s),
         \A k \in Lockers \ {l} :
           Todo(k)' = Todo(k) /\ toSignal'[k] = toSignal[k] /\ at'[k] = at[k],
         \A f \in Fibers : Unsignalled(f) /\ f # s => Unsignalled(f)',
         InSeq(Todo(l)', Gate) => toSignal'[l] = <<Gate>>,
         at'[l] \in {"resume", "resuming"} => toSignal'[l] # << >>
  PROVE  Handles'
<1>1. ASSUME NEW f \in Fibers, InSeq(waitingQueue, f)
      PROVE  Unsignalled(f)' /\ \A k \in Lockers : ~InSeq(Todo(k)', f)
  <2>1. f # s /\ Unsignalled(f)
    BY <1>1 DEF Handles
  <2> QED BY <1>1, <2>1 DEF Handles
<1>2. ASSUME NEW k \in Lockers, NEW f \in Fibers, InSeq(Todo(k)', f)
      PROVE  Unsignalled(f)' /\ \A m \in Lockers : InSeq(Todo(m)', f) => m = k
  <2>1. \A m \in Lockers : InSeq(Todo(m)', f) => InSeq(Todo(m), f)
    OBVIOUS
  <2>2. Unsignalled(f) /\ \A m \in Lockers : InSeq(Todo(m), f) => m = k
    BY <1>2, <2>1 DEF Handles
  <2>3. f # s
    BY <1>2, <2>2
  <2> QED BY <2>1, <2>2, <2>3
<1>3. \A k \in Lockers :
        /\ Distinct(Todo(k)')
        /\ InSeq(Todo(k)', Gate) => toSignal'[k] = <<Gate>>
        /\ at'[k] \in {"resume", "resuming"} => toSignal'[k] # << >>
  BY DEF Handles
<1> QED BY <1>1, <1>2, <1>3 DEF Handles

\* Signal takes the fiber that has waited longest out of the queue.
LEMMA SyncSignalHands ==
  ASSUME SyncInv, FiberInv', NEW l \in Lockers, Signal(l),
         semWaiters[Head(toSignal[l])] # << >>
  PROVE  SyncInv'
<1> USE DEF SyncInv
<1> DEFINE t == toSignal[l]
           s == Head(t)
           q == semWaiters[s]
           g == Head(q)
<1>0. /\ l \in Fibers => ~Waits(l) /\ ~InSeq(waitingFibers, l) /\ status[l] = "RUNNING"
      /\ Executes(l) /\ at[l] = "signal" /\ t # << >> /\ t \in Seq(Sems)
  <2>1. Executes(l) /\ at[l] = "signal" /\ t # << >> /\ t \in Seq(Sems)
    BY DEF Signal, SyncTypeOK
  <2>2. pc[l] # "queued" /\ at[l] # "queued"
    BY <2>1 DEF OpenCalls
  <2> QED BY <2>1, <2>2, ExecutingAwake
<1>a. /\ s \in Sems /\ InSeq(t, s) /\ Tail(t) \in Seq(Sems)
      /\ \A y : InSeq(t, y) <=> InSeq(Tail(t), y) \/ y = s
      /\ Distinct(t) => Distinct(Tail(t)) /\ ~InSeq(Tail(t), s)
  BY <1>0, TailFacts
<1>b. /\ g \in Fibers /\ InSeq(q, g) /\ Tail(q) \in Seq(Fibers)
      /\ \A y : InSeq(q, y) <=> InSeq(Tail(q), y) \/ y = g
      /\ Distinct(q) => Distinct(Tail(q)) /\ ~InSeq(Tail(q), g)
  <2>1. q \in Seq(Fibers)
    BY <1>a DEF SyncTypeOK
  <2> QED BY <2>1, TailFacts
<1>c. /\ nextFiber' = [nextFiber EXCEPT ![l] = g] /\ at' = [at EXCEPT ![l] = "resume"]
      /\ semWaiters' = [semWaiters EXCEPT ![s] = Tail(q)]
      /\ UNCHANGED <<fiberVars, locked, lockHolder, waitingFibers, pc, waitingQueue, sem,
                     permits, toSignal>>
  BY DEF Signal
<1> HIDE DEF g, q, s, t
<1>d. Waits(g) /\ at[g] \in {"queued", "suspended"} /\ sem[g] = s /\ g # l
  BY <1>0, <1>a, <1>b DEF OneWakeUp, q
<1>e. /\ \A k \in Lockers : /\ at'[k] = IF k = l THEN "resume" ELSE at[k]
                            /\ nextFiber'[k] = IF k = l THEN g ELSE nextFiber[k]
      /\ \A u \in Sems : semWaiters'[u] = IF u = s THEN Tail(q) ELSE semWaiters[u]
  BY <1>a, <1>b, <1>c DEF SyncTypeOK
<1>1. SyncTypeOK'
  <2>1. at' \in [Lockers -> SyncAt]
    BY <1>c DEF SyncTypeOK
  <2>2. nextFiber' \in [Lockers -> Fibers \cup {None}]
    BY <1>b, <1>c DEF SyncTypeOK
  <2>3. semWaiters' \in [Sems -> Seq(Fibers)]
    BY <1>b, <1>c DEF SyncTypeOK
  <2> QED BY <1>c, <2>1, <2>2, <2>3 DEF SyncTypeOK
<1>2. OpenCalls'
  BY <1>0, <1>b, <1>c, <1>e DEF OpenCalls
<1>3. SyncStatus'
  BY <1>0, <1>c, <1>e DEF SyncStatus
<1>4. OneWakeUp'
  <2>1. \A f \in Fibers : /\ Waits(f) => Waits(f)'
                          /\ at[f] \in {"queued", "suspended"} => at'[f] \in {"queued", "suspended"}
    BY <1>0, <1>c, <1>e DEF Waits
  <2>2. \A f \in Fibers, k \in Lockers : Hands(k, f)' => Hands(k, f) \/ (k = l /\ f = g)
    <3>1. pc[l] # "resume"
      BY <1>0 DEF OpenCalls
    <3> QED BY <1>c, <1>e, <3>1 DEF Hands
  <2>3. (\A k \in Lockers : ~Hands(k, g)) /\ ~InSeq(waitingFibers, g)
    BY <1>a, <1>b, <1>d DEF OneWakeUp, OpenCalls, q
  <2>4. \A f \in Fibers, r \in Resumers : Resuming(r, f)' <=> Resuming(r, f)
    BY <1>c DEF Resuming
  <2>5. \A u \in Sems : /\ \A y : InSeq(semWaiters'[u], y) =>
                              InSeq(semWaiters[u], y) /\ (u = s => y # g)
                        /\ Distinct(semWaiters[u]) => Distinct(semWaiters'[u])
    BY <1>a, <1>b, <1>e DEF OneWakeUp, q
  <2>6. OneWakeUp
    OBVIOUS
  <2>7. ~\E r \in Resumers : Resuming(r, g)
    BY <1>a, <1>b, <1>d DEF OneWakeUp, q
  <2>8. \A u \in Sems : ~InSeq(semWaiters'[u], g)
    BY <1>b, <1>d, <2>5, <2>6 DEF OneWakeUp
  <2> HIDE DEF SyncInv
  <2>9. /\ Distinct(waitingFibers)' /\ \A u \in Sems : Distinct(semWaiters'[u])
        /\ \A f \in Fibers : InSeq(waitingFibers, f)' => pc'[f] \in {"queued", "suspended"} /\ Waits(f)'
    BY <1>c, <2>1, <2>5, <2>6 DEF OneWakeUp
  <2>10. \A f \in Fibers, u \in Sems : InSeq(semWaiters'[u], f) =>
           at'[f] \in {"queued", "suspended"} /\ sem'[f] = u /\ Waits(f)'
    BY <1>c, <2>1, <2>5, <2>6 DEF OneWakeUp
  <2>11. ASSUME NEW f \in Fibers, NEW k \in Lockers, Hands(k, f)'
         PROVE  /\ Waits(f)' /\ ~InSeq(waitingFibers, f)' /\ \A u \in Sems : ~InSeq(semWaiters'[u], f)
                /\ \A m \in Lockers : Hands(m, f)' => m = k
                /\ \A r \in Resumers : ~Resuming(r, f)'
    <3>1. CASE f = g
      BY <1>c, <1>d, <2>1, <2>2, <2>3, <2>4, <2>7, <2>8, <2>11, <3>1
    <3>2. CASE f # g
      BY <1>c, <2>1, <2>2, <2>4, <2>5, <2>6, <2>11, <3>2 DEF OneWakeUp
    <3> QED BY <3>1, <3>2
  <2>12. \A f \in Fibers : \A r \in Resumers : Resuming(r, f)' =>
       /\ Waits(f)' /\ ~InSeq(waitingFibers, f)' /\ \A u \in Sems : ~InSeq(semWaiters'[u], f)
       /\ \A m \in Resumers : Resuming(m, f)' => m = r
    BY <1>c, <2>1, <2>4, <2>5, <2>6 DEF OneWakeUp
  <2> QED BY <2>9, <2>10, <2>11, <2>12 DEF OneWakeUp
<1>5. LockOwner'
  <2>1. \A k \in Lockers : HasLock(k)' <=> HasLock(k)
    BY <1>c DEF HasLock
  <2> QED BY <1>c, <2>1, LockKept
<1>6. Handles'
  <2>1. Todo(l) = t /\ Todo(l)' = Tail(t) /\ t = toSignal[l]
    BY <1>0, <1>c, <1>e DEF Todo, t
  <2>2. \A k \in Lockers \ {l} : Todo(k)' = Todo(k)
    BY <1>c, <1>e DEF Todo
  <2>3. \A f \in Fibers : Unsignalled(f) /\ f # s => Unsignalled(f)'
    BY <1>0, <1>c, <1>e DEF Unsignalled, InCvWait
  <2>4. Handles
    OBVIOUS
  <2> HIDE DEF SyncInv
  <2>5. /\ Distinct(Tail(t)) /\ ~InSeq(Tail(t), s)
        /\ InSeq(Tail(t), Gate) => toSignal'[l] = <<Gate>>
        /\ at'[l] \in {"resume", "resuming"} => toSignal'[l] # << >>
    BY <1>0, <1>a, <1>c, <2>1, <2>4 DEF Handles
  <2>6. \A k \in Lockers \ {l} :
          Todo(k)' = Todo(k) /\ toSignal'[k] = toSignal[k] /\ at'[k] = at[k]
    BY <1>c, <1>e, <2>2
  <2>7. /\ \A y : InSeq(Todo(l), y) <=> InSeq(Todo(l)', y) \/ y = s
        /\ Distinct(Todo(l)') /\ ~InSeq(Todo(l)', s)
        /\ InSeq(Todo(l)', Gate) => toSignal'[l] = <<Gate>>
    BY <1>a, <2>1, <2>5
  <2>8. s \in Sems /\ waitingQueue' = waitingQueue
    BY <1>a, <1>c
  <2> QED BY <2>3, <2>4, <2>5, <2>6, <2>7, <2>8, HandleTaken
<1>7. LocalPermits'
  BY <1>0, <1>c, <1>e DEF LocalPermits
<1> QED BY <1>1, <1>2, <1>3, <1>4, <1>5, <1>6, <1>7

\* Signal finds no fiber: it adds a permit.
LEMMA SyncSignalAdds ==
  ASSUME SyncInv, FiberInv', NEW l \in Lockers, Signal(l),
         semWaiters[Head(toSignal[l])] = << >>
  PROVE  SyncInv'
<1> USE DEF SyncInv
<1> DEFINE t == toSignal[l]
           s == Head(t)
           n == IF permits[s] < maxPermits(s) THEN permits[s] + 1 ELSE permits[s]
<1>0. Executes(l) /\ at[l] = "signal" /\ t # << >> /\ t \in Seq(Sems)
  BY DEF Signal, SyncTypeOK
<1>a. /\ s \in Sems /\ InSeq(t, s) /\ Tail(t) \in Seq(Sems)
      /\ \A y : InSeq(t, y) <=> InSeq(Tail(t), y) \/ y = s
      /\ Distinct(t) => Distinct(Tail(t)) /\ ~InSeq(Tail(t), s)
  BY <1>0, TailFacts
<1>c. /\ permits' = [permits EXCEPT ![s] = n]
      /\ toSignal' = [toSignal EXCEPT ![l] = Tail(t)]
      /\ UNCHANGED <<fiberVars, locked, lockHolder, waitingFibers, pc, waitingQueue, sem,
                     at, semWaiters, nextFiber>>
      /\ semWaiters[s] = << >>
  BY DEF Signal
<1>d. permits[s] \in Nat /\ n \in Nat
  <2>1. permits[s] \in Nat
    BY <1>a DEF SyncTypeOK
  <2> QED BY <2>1
<1> HIDE DEF n, s, t
<1>e. /\ \A k \in Lockers : toSignal'[k] = IF k = l THEN Tail(t) ELSE toSignal[k]
      /\ \A u \in Sems : permits'[u] = IF u = s THEN n ELSE permits[u]
  BY <1>a, <1>c, <1>d DEF SyncTypeOK
<1>f. Todo(l) = t /\ Todo(l)' = Tail(t) /\ t = toSignal[l]
  BY <1>0, <1>c, <1>e DEF Todo, t
<1>1. SyncTypeOK'
  <2>1. permits' \in [Sems -> Nat]
    BY <1>c, <1>d DEF SyncTypeOK
  <2>2. toSignal' \in [Lockers -> Seq(Sems)]
    BY <1>a, <1>c DEF SyncTypeOK
  <2> QED BY <1>c, <2>1, <2>2 DEF SyncTypeOK
<1>2. OpenCalls'
  BY <1>c DEF OpenCalls
<1>3. SyncStatus'
  BY <1>c DEF SyncStatus
<1>4. OneWakeUp'
  BY <1>c DEF OneWakeUp, Waits, Hands, Resuming
<1>5. LockOwner'
  <2>1. \A k \in Lockers : HasLock(k)' <=> HasLock(k)
    BY <1>c DEF HasLock
  <2> QED BY <1>c, <2>1, LockKept
<1>6. Handles'
  <2>2. \A k \in Lockers \ {l} : Todo(k)' = Todo(k)
    BY <1>c, <1>e DEF Todo
  <2>3. \A f \in Fibers : Unsignalled(f) /\ f # s => Unsignalled(f)'
    BY <1>c, <1>e DEF Unsignalled, InCvWait
  <2>4. Handles
    OBVIOUS
  <2>5. ~InSeq(Tail(t), Gate)
    <3>1. ASSUME InSeq(Tail(t), Gate) PROVE FALSE
      <4>1. t = <<Gate>>
        BY <1>a, <1>f, <3>1 DEF Handles
      <4> QED BY <3>1, <4>1, SingleFacts, EmptyFacts
    <3> QED BY <3>1
  <2> HIDE DEF SyncInv
  <2>6. at'[l] \notin {"resume", "resuming"}
    BY <1>0, <1>c
  <2>7. \A k \in Lockers \ {l} :
          Todo(k)' = Todo(k) /\ toSignal'[k] = toSignal[k] /\ at'[k] = at[k]
    BY <1>c, <1>e, <2>2
  <2>8. Distinct(t)
    BY <1>f, <2>4 DEF Handles
  <2>9. /\ \A y : InSeq(Todo(l), y) <=> InSeq(Todo(l)', y) \/ y = s
        /\ Distinct(Todo(l)') /\ ~InSeq(Todo(l)', s)
        /\ InSeq(Todo(l)', Gate) => toSignal'[l] = <<Gate>>
    BY <1>a, <1>f, <2>5, <2>8
  <2>10. s \in Sems /\ waitingQueue' = waitingQueue
    BY <1>a, <1>c
  <2> QED BY <2>3, <2>4, <2>6, <2>7, <2>9, <2>10, HandleTaken
<1>7. LocalPermits'
  <2>1. CASE s = Gate
    BY <1>c, <1>e, <2>1 DEF LocalPermits
  <2>2. CASE s \in Fibers
    <3>1. Unsignalled(s)
      BY <1>a, <1>f, <2>2 DEF Handles
    <3>2. at[s] = "cv" \/ (at[s] = "wait" /\ sem[s] = s)
      BY <1>c, <3>1, EmptyFacts DEF Unsignalled, InCvWait
    <3>3. n = 1
      BY <2>2, <3>1 DEF n, Unsignalled, maxPermits
    <3> QED BY <1>c, <1>e, <2>2, <3>2, <3>3 DEF LocalPermits
  <2> QED BY <1>a, <2>1, <2>2
<1> QED BY <1>1, <1>2, <1>3, <1>4, <1>5, <1>6, <1>7

LEMMA SyncNotify ==
  ASSUME SyncInv, FiberInv', NEW l \in Lockers, NEW n \in 1 .. Len(waitingQueue), Notify(l, n)
  PROVE  SyncInv'
<1> USE DEF SyncInv
<1> DEFINE a == SubSeq(waitingQueue, 1, n)
           b == SubSeq(waitingQueue, n + 1, Len(waitingQueue))
<1>0. /\ Executes(l) /\ at[l] = "plain" /\ pc[l] \in {"critical", "run"}
      /\ toSignal' = [toSignal EXCEPT ![l] = a] /\ at' = [at EXCEPT ![l] = "signal"]
      /\ waitingQueue' = b
      /\ UNCHANGED <<fiberVars, locked, lockHolder, waitingFibers, pc, nextFiber, permits,
                     semWaiters, sem>>
  BY DEF Notify
<1>a. /\ a \in Seq(Fibers) /\ b \in Seq(Fibers)
      /\ \A y : InSeq(waitingQueue, y) <=> InSeq(a, y) \/ InSeq(b, y)
      /\ Distinct(waitingQueue) =>
           Distinct(a) /\ Distinct(b) /\ \A y : ~(InSeq(a, y) /\ InSeq(b, y))
  <2>1. waitingQueue \in Seq(Fibers)
    BY DEF SyncTypeOK
  <2> QED BY <2>1, SplitFacts
<1> HIDE DEF a, b
<1>b. a \in Seq(Sems)
  BY <1>a, SMT
<1>c. ~InSeq(a, Gate)
  BY <1>a, ElementFact
<1>d. /\ \A k \in Lockers : /\ toSignal'[k] = IF k = l THEN a ELSE toSignal[k]
                            /\ at'[k] = IF k = l THEN "signal" ELSE at[k]
  BY <1>0, <1>b DEF SyncTypeOK
<1>e. l \in Fibers => ~Waits(l) /\ status[l] = "RUNNING"
  BY <1>0, ExecutingAwake
<1>1. SyncTypeOK'
  <2>1. toSignal' \in [Lockers -> Seq(Sems)]
    BY <1>0, <1>b DEF SyncTypeOK
  <2>2. at' \in [Lockers -> SyncAt]
    BY <1>0 DEF SyncTypeOK
  <2> QED BY <1>0, <1>a, <2>1, <2>2 DEF SyncTypeOK
<1>2. OpenCalls'
  BY <1>0, <1>d DEF OpenCalls
<1>3. SyncStatus'
  BY <1>0, <1>d, <1>e DEF SyncStatus
<1>4. OneWakeUp'
  <2>1. \A f \in Fibers : Waits(f) =>
           /\ Waits(f)'
           /\ pc[f] \in {"queued", "suspended"} => pc'[f] \in {"queued", "suspended"}
           /\ at[f] \in {"queued", "suspended"} =>
                at'[f] \in {"queued", "suspended"} /\ sem'[f] = sem[f]
    BY <1>0, <1>d, <1>e DEF Waits
  <2>2. \A f \in Fibers, k \in Lockers : Hands(k, f)' => Hands(k, f)
    BY <1>0, <1>d DEF Hands
  <2>3. \A f \in Fibers, r \in Resumers : Resuming(r, f)' => Resuming(r, f)
    BY <1>0 DEF Resuming
  <2> QED BY <1>0, <2>1, <2>2, <2>3, WakeUpKept
<1>5. LockOwner'
  <2>1. \A k \in Lockers : HasLock(k)' <=> HasLock(k)
    BY <1>0 DEF HasLock
  <2> QED BY <1>0, <2>1, LockKept
<1>6. Handles'
  <2>1. Todo(l) = << >> /\ Todo(l)' = a /\ \A k \in Lockers \ {l} : Todo(k)' = Todo(k)
    BY <1>0, <1>d DEF Todo
  <2>2. \A f \in Fibers : Unsignalled(f) => Unsignalled(f)'
    BY <1>0, <1>d DEF Unsignalled, InCvWait
  <2>3. Handles
    OBVIOUS
  <2> HIDE DEF SyncInv
  <2> QED BY <1>0, <1>a, <1>c, <1>d, <2>1, <2>2, <2>3 DEF Handles
<1>7. LocalPermits'
  BY <1>0, <1>d DEF LocalPermits
<1> QED BY <1>1, <1>2, <1>3, <1>4, <1>5, <1>6, <1>7
-----------------------------------------------------------------------------
LEMMA SyncInitInv == SyncInit => SyncInv
<1> SUFFICES ASSUME SyncInit PROVE SyncInv
  OBVIOUS
<1> USE DEF SyncInit, MutexInit
<1>1. FiberInv
  BY FiberInitInv
<1>2. SyncTypeOK
  <2>1. << >> \in Seq(Fibers) /\ << >> \in Seq(Sems)
    BY SMT
  <2>2. permits \in [Sems -> Nat]
    BY SMT
  <2> QED BY <2>1, <2>2 DEF SyncTypeOK
<1>3. OpenCalls
  BY DEF OpenCalls
<1>4. SyncStatus
  BY DEF SyncStatus, FiberInit
<1>5. OneWakeUp
  BY EmptyFacts DEF OneWakeUp, Hands, Resuming, FiberInit
<1>6. LockOwner
  BY DEF LockOwner, HasLock
<1>7. Handles
  BY EmptyFacts DEF Handles, Todo
<1>8. LocalPermits
  BY SMT DEF LocalPermits
<1> QED BY <1>1, <1>2, <1>3, <1>4, <1>5, <1>6, <1>7, <1>8 DEF SyncInv

LEMMA SyncUnchanged == SyncInv /\ UNCHANGED allVars => SyncInv'
<1> SUFFICES ASSUME SyncInv, UNCHANGED allVars PROVE SyncInv'
  OBVIOUS
<1> USE DEF SyncInv, allVars
<1>1. FiberInv'
  BY FiberStep
<1>2. SyncTypeOK' /\ OpenCalls' /\ LockOwner' /\ Handles' /\ LocalPermits'
  BY SyncKept
<1>3. SyncStatus' /\ OneWakeUp'
  BY DEF SyncStatus, OneWakeUp, Waits, Hands, Resuming
<1> QED BY <1>1, <1>2, <1>3

LEMMA SyncStep == SyncInv /\ [SyncNext]_allVars => SyncInv' /\ [FiberNext]_fiberVars
<1> SUFFICES ASSUME SyncInv, [SyncNext]_allVars PROVE SyncInv' /\ [FiberNext]_fiberVars
  OBVIOUS
<1>1. [FiberNext]_fiberVars
  BY SyncStepIsFiberStep DEF SyncInv
<1>2. FiberInv'
  BY <1>1, FiberStep DEF SyncInv
<1>3. ASSUME NEW l \in Lockers, MutexStep(l) PROVE SyncInv'
  <2>1. CASE at[l] = "plain" /\ CallLock(l) /\ UNCHANGED syncVars
    BY <1>2, <2>1, SyncCallLock
  <2>2. CASE LockFree(l) /\ UNCHANGED syncVars
    BY <1>2, <2>2, SyncLockFree
  <2>3. CASE LockContended(l) /\ UNCHANGED syncVars
    BY <1>2, <2>3, SyncLockContended DEF LockContended
  <2>4. CASE SetHolder(l) /\ UNCHANGED syncVars
    BY <1>2, <2>4, SyncSetHolder
  <2>5. CASE Release(l) /\ UNCHANGED syncVars
    BY <1>2, <2>5, SyncReleaseFree, SyncHandOver
  <2>6. CASE ResumeNext(l) /\ UNCHANGED syncVars
    BY <1>2, <2>6, SyncResumeNext
  <2>7. CASE UnlockReturns(l) /\ UNCHANGED syncVars
    BY <1>2, <2>7, SyncUnlockReturns
  <2>8. CASE /\ at[l] \in {"plain", "used", "cv"} /\ ClearHolder(l)
             /\ Goto(l, IF at[l] = "used" THEN "plain" ELSE at[l])
             /\ UNCHANGED <<permits, semWaiters, waitingQueue, sem, toSignal>>
    BY <1>2, <2>8, SyncClearHolder
  <2> HIDE DEF syncVars, Goto
  <2> QED BY <1>3, <2>1, <2>2, <2>3, <2>4, <2>5, <2>6, <2>7, <2>8 DEF MutexStep
<1>4. ASSUME NEW l \in Lockers, SyncCode(l) PROVE SyncInv'
  <2>1. CASE CallWait(l) \/ WaitTakes(l) \/ WaitQueues(l) \/ WaitResumed(l) \/ LeaveGate(l)
    BY <1>2, <2>1, SyncCallWait, SyncWaitTakes, SyncWaitQueues, SyncWaitResumed,
       SyncLeaveGate DEF WaitQueues
  <2>2. CASE Signal(l) \/ SignalResume(l) \/ SignalReturns(l) \/ Signalled(l)
    BY <1>2, <2>2, SyncSignalHands, SyncSignalAdds, SyncSignalResume, SyncSignalReturns,
       SyncSignalled
  <2>3. CASE CvWait(l) \/ CvUnlocked(l) \/ CvReturn(l)
    BY <1>2, <2>3, SyncCvWait, SyncCvUnlocked, SyncCvReturn
  <2>4. CASE Notify_One(l) \/ Notify_All(l)
    <3>1. PICK n \in 1 .. Len(waitingQueue) : Notify(l, n)
      <4>1. waitingQueue \in Seq(Fibers) /\ waitingQueue # << >>
        BY <2>4 DEF Notify_One, Notify_All, Notify, SyncInv, SyncTypeOK
      <4>2. 1 \in 1 .. Len(waitingQueue) /\ Len(waitingQueue) \in 1 .. Len(waitingQueue)
        BY <4>1, SMT
      <4> QED BY <2>4, <4>2 DEF Notify_One, Notify_All
    <3> QED BY <1>2, <3>1, SyncNotify
  <2> QED BY <1>3, <1>4, <2>1, <2>2, <2>3, <2>4 DEF SyncCode
<1>5. ASSUME NEW w \in Workers, WorkerStep(w), UNCHANGED <<mutexVars, syncVars>> PROVE SyncInv'
  BY <1>2, <1>5, SyncSwitchIn, SyncRetire, SyncMakeReady, SyncPushBack, SyncPark DEF WorkerStep
<1>6. ASSUME NEW w \in Workers, SyncWorker(w) PROVE SyncInv'
  BY <1>2, <1>5, <1>6, SyncLockSuspend, SyncSwitchOut, SyncFinish, SyncWaitSuspend,
     SyncStartTask DEF SyncWorker
<1>7. ASSUME NEW r \in Resumers, Resume(r), UNCHANGED <<mutexVars, syncVars>> PROVE SyncInv'
  BY <1>2, <1>7, SyncResumeLoad, SyncResumeCasSuspended, SyncResumeCasWants,
     SyncResumeRequeue DEF Resume
<1>8. SyncNext => SyncInv'
  BY <1>4, <1>6, <1>7 DEF SyncNext
<1> QED BY <1>1, <1>8, SyncUnchanged
-----------------------------------------------------------------------------
\* Whatever fibers do with the lock, the semaphore and the condition variable,
\* they do with a fiber only what Fiber describes: FiberProofs' theorems hold.
THEOREM SyncUsesFibers == SyncSpec => FiberSpec
<1>1. SyncInit => FiberInit
  BY DEF SyncInit, MutexInit
<1> QED
  BY <1>1, SyncInitInv, SyncStep, PTL DEF SyncSpec, FiberSpec

\* A fiber that runs after Lock suspended it is not in the lock's queue.
LEMMA SuspendedLeft ==
  ASSUME SyncInv, NEW f \in Fibers, pc[f] = "suspended", Executes(f)
  PROVE  ~InSeq(waitingFibers, f)
BY ExecutingAwake DEF SyncInv, OpenCalls

\* The lock excludes, for any number of fibers and spinning threads, also
\* while Unlock hands it to a sleeping fiber and while a wait on the condition
\* variable gives it up and takes it again.
THEOREM SyncExcludes == SyncSpec => []MutualExclusion
<1>1. ASSUME SyncInv PROVE MutualExclusion
  <2>1. \A l \in Lockers : Owns(l) => HasLock(l)
    BY <1>1, SuspendedLeft DEF Owns, HasLock, SyncInv, OpenCalls
  <2> QED BY <1>1, <2>1 DEF MutualExclusion, SyncInv, LockOwner
<1> QED
  BY <1>1, SyncInitInv, SyncStep, PTL DEF SyncSpec

\* A fiber comes out of Lock's sleep only as the owner: Unlock has handed the
\* lock over, the lock is taken, and the fiber is in the queue no more.
THEOREM SyncGrants == SyncSpec => []GrantedNotQueued
<1>1. ASSUME SyncInv PROVE GrantedNotQueued
  BY <1>1, SuspendedLeft DEF GrantedNotQueued, SyncInv, LockOwner, HasLock, InSeq
<1> QED
  BY <1>1, SyncInitInv, SyncStep, PTL DEF SyncSpec

\* No semaphore of the condition variable is signalled after its Wait has
\* returned, and none is queued twice.
THEOREM SyncHandles == SyncSpec => []HandlesAlive
<1>1. ASSUME SyncInv PROVE HandlesAlive
  <2> USE <1>1 DEF SyncInv
  <2>1. ASSUME NEW i \in 1 .. Len(waitingQueue) PROVE InCvWait(waitingQueue[i])
    <3>1. waitingQueue[i] \in Fibers /\ InSeq(waitingQueue, waitingQueue[i])
      BY SMT DEF InSeq, SyncTypeOK
    <3> QED BY <3>1 DEF Handles, Unsignalled
  <2>2. \A i, j \in 1 .. Len(waitingQueue) : waitingQueue[i] = waitingQueue[j] => i = j
    BY DEF Handles, Distinct
  <2>3. ASSUME NEW l \in Lockers, at[l] = "signal", toSignal[l] # << >>, Head(toSignal[l]) # Gate
        PROVE  InCvWait(Head(toSignal[l]))
    <3>1. toSignal[l] \in Seq(Sems)
      BY DEF SyncTypeOK
    <3>2. Head(toSignal[l]) \in Fibers /\ InSeq(Todo(l), Head(toSignal[l]))
      BY <2>3, <3>1, TailFacts DEF Todo
    <3> QED BY <3>2 DEF Handles, Unsignalled
  <2> QED BY <2>1, <2>2, <2>3 DEF HandlesAlive
<1> QED
  BY <1>1, SyncInitInv, SyncStep, PTL DEF SyncSpec
-----------------------------------------------------------------------------
(* The permits of the gate.                                                *)

PermitHolders == {l \in Lockers : HasPermit(l)}

LEMMA HoldersFinite == IsFiniteSet(PermitHolders) /\ Cardinality(PermitHolders) \in Nat
BY LockersFinite, FS_Subset, FS_CardinalityType DEF PermitHolders

LEMMA PermitsKept ==
  ASSUME PermitsConserved, permits'[Gate] = permits[Gate],
         \A k \in Lockers : HasPermit(k)' <=> HasPermit(k)
  PROVE  PermitsConserved'
<1>1. PermitHolders' = PermitHolders
  BY DEF PermitHolders
<1> QED BY <1>1 DEF PermitsConserved

\* l comes to have a permit that was left, or gives one back.
LEMMA PermitsMoved ==
  ASSUME PermitsConserved, NEW l \in Lockers, permits[Gate] \in Nat,
         \A k \in Lockers \ {l} : HasPermit(k)' <=> HasPermit(k),
         \/ ~HasPermit(l) /\ HasPermit(l)' /\ permits'[Gate] = permits[Gate] - 1
         \/ HasPermit(l) /\ ~HasPermit(l)' /\ permits'[Gate] = permits[Gate] + 1
  PROVE  PermitsConserved'
<1>0. IsFiniteSet(PermitHolders) /\ Cardinality(PermitHolders) \in Nat
  BY HoldersFinite
<1>1. CASE ~HasPermit(l) /\ HasPermit(l)' /\ permits'[Gate] = permits[Gate] - 1
  <2>1. PermitHolders' = PermitHolders \cup {l} /\ l \notin PermitHolders
    BY <1>1 DEF PermitHolders
  <2>2. Cardinality(PermitHolders') = Cardinality(PermitHolders) + 1
    BY <1>0, <2>1, FS_AddElement
  <2> QED BY <1>0, <1>1, <2>2 DEF PermitsConserved, PermitHolders
<1>2. CASE HasPermit(l) /\ ~HasPermit(l)' /\ permits'[Gate] = permits[Gate] + 1
  <2>1. PermitHolders' = PermitHolders \ {l} /\ l \in PermitHolders
    BY <1>2 DEF PermitHolders
  <2>2. Cardinality(PermitHolders') = Cardinality(PermitHolders) - 1
    BY <1>0, <2>1, FS_RemoveElement
  <2> QED BY <1>0, <1>2, <2>2 DEF PermitsConserved, PermitHolders
<1> QED BY <1>1, <1>2

\* Signal gives the permit of l to the fiber that has waited longest.
LEMMA PermitsHanded ==
  ASSUME PermitsConserved, NEW l \in Lockers, NEW g \in Lockers, permits'[Gate] = permits[Gate],
         \A k \in Lockers \ {l, g} : HasPermit(k)' <=> HasPermit(k),
         HasPermit(l), ~HasPermit(l)', ~HasPermit(g), HasPermit(g)'
  PROVE  PermitsConserved'
<1>0. IsFiniteSet(PermitHolders) /\ Cardinality(PermitHolders) \in Nat
  BY HoldersFinite
<1>1. PermitHolders' = (PermitHolders \ {l}) \cup {g} /\ l \in PermitHolders /\ g \notin PermitHolders
  BY DEF PermitHolders
<1>2. /\ IsFiniteSet(PermitHolders \ {l})
      /\ Cardinality(PermitHolders \ {l}) = Cardinality(PermitHolders) - 1
  BY <1>0, <1>1, FS_RemoveElement
<1>3. Cardinality(PermitHolders') = Cardinality(PermitHolders \ {l}) + 1
  BY <1>1, <1>2, FS_AddElement
<1> QED BY <1>0, <1>2, <1>3 DEF PermitsConserved, PermitHolders

\* Only a caller whose semaphore is the gate has a permit to give to it.
LEMMA SignalsGate ==
  ASSUME SyncInv, NEW l \in Lockers, at[l] = "signal", toSignal[l] # << >>
  PROVE  HasPermit(l) <=> Head(toSignal[l]) = Gate
<1>1. toSignal[l] \in Seq(Sems) /\ Todo(l) = toSignal[l]
  BY DEF SyncInv, SyncTypeOK, Todo
<1>2. Head(toSignal[l]) = Gate => toSignal[l] = <<Gate>>
  BY <1>1, TailFacts DEF SyncInv, Handles
<1> QED BY <1>2, SingleFacts DEF HasPermit

LEMMA PermitsWait ==
  ASSUME SyncInv, PermitsConserved, NEW l \in Lockers,
         CallWait(l) \/ WaitTakes(l) \/ WaitQueues(l) \/ WaitResumed(l)
  PROVE  PermitsConserved'
<1> USE DEF SyncInv
<1>0. Gate \in Sems /\ permits[Gate] \in Nat /\ sem[l] \in Sems /\ permits[sem[l]] \in Nat
  BY DEF SyncTypeOK
<1>1. CASE CallWait(l)
  <2>1. \A k \in Lockers : /\ at'[k] = IF k = l THEN "wait" ELSE at[k]
                           /\ k # l => sem'[k] = sem[k]
    BY <1>1 DEF CallWait, SyncTypeOK
  <2>2. at[l] = "plain" /\ UNCHANGED <<permits, semWaiters, toSignal>>
    BY <1>1 DEF CallWait
  <2>3. \A k \in Lockers : HasPermit(k)' <=> HasPermit(k)
    BY <2>1, <2>2 DEF HasPermit, Queued
  <2> QED BY <2>2, <2>3, PermitsKept
<1>2. CASE WaitTakes(l)
  <2>1. /\ at[l] = "wait" /\ permits[sem[l]] > 0 /\ UNCHANGED <<semWaiters, sem, toSignal>>
        /\ permits' = [permits EXCEPT ![sem[l]] = @ - 1]
        /\ at' = [at EXCEPT ![l] = IF sem[l] = Gate THEN "inside" ELSE "relock"]
    BY <1>2 DEF WaitTakes, Granted
  <2>2. \A k \in Lockers : at'[k] = IF k # l THEN at[k]
                                   ELSE IF sem[l] = Gate THEN "inside" ELSE "relock"
    BY <2>1 DEF SyncTypeOK
  <2>3. \A k \in Lockers \ {l} : HasPermit(k)' <=> HasPermit(k)
    BY <2>1, <2>2 DEF HasPermit, Queued
  <2>4. ~HasPermit(l) /\ (HasPermit(l)' <=> sem[l] = Gate)
    BY <2>1, <2>2 DEF HasPermit
  <2>5. permits'[Gate] = IF sem[l] = Gate THEN permits[Gate] - 1 ELSE permits[Gate]
    BY <1>0, <2>1 DEF SyncTypeOK
  <2> QED BY <1>0, <2>3, <2>4, <2>5, PermitsKept, PermitsMoved
<1>3. CASE WaitQueues(l)
  <2> DEFINE q == semWaiters[sem[l]]
  <2>1. /\ at[l] = "wait" /\ UNCHANGED <<permits, sem, toSignal>> /\ l \in Fibers
        /\ semWaiters' = [semWaiters EXCEPT ![sem[l]] = Append(q, l)]
        /\ at' = [at EXCEPT ![l] = "queued"]
    BY <1>3 DEF WaitQueues
  <2>2. q \in Seq(Fibers)
    BY <1>0 DEF SyncTypeOK
  <2>3. \A y : InSeq(Append(q, l), y) <=> InSeq(q, y) \/ y = l
    BY <2>1, <2>2, AppendFacts
  <2>4. /\ semWaiters'[Gate] = IF sem[l] = Gate THEN Append(q, l) ELSE semWaiters[Gate]
        /\ \A k \in Lockers : at'[k] = IF k = l THEN "queued" ELSE at[k]
    BY <1>0, <2>1 DEF SyncTypeOK
  <2>5. \A k : Queued(k, Gate)' <=> Queued(k, Gate) \/ (sem[l] = Gate /\ k = l)
    BY <2>3, <2>4 DEF Queued
  <2>6. \A k \in Lockers : HasPermit(k)' <=> HasPermit(k)
    BY <2>1, <2>4, <2>5 DEF HasPermit
  <2> QED BY <2>1, <2>6, PermitsKept
<1>4. CASE WaitResumed(l)
  <2>1. /\ at[l] = "suspended" /\ UNCHANGED <<permits, semWaiters, sem, toSignal>>
        /\ at' = [at EXCEPT ![l] = IF sem[l] = Gate THEN "inside" ELSE "relock"] /\ Executes(l)
    BY <1>4 DEF WaitResumed, Granted
  <2>2. \A k \in Lockers : at'[k] = IF k # l THEN at[k]
                                   ELSE IF sem[l] = Gate THEN "inside" ELSE "relock"
    BY <2>1 DEF SyncTypeOK
  <2>3. ~Queued(l, Gate)
    <3>1. l \in Fibers /\ pc[l] # "queued"
      BY <2>1 DEF OpenCalls
    <3> QED BY <1>0, <2>1, <3>1, ExecutingAwake DEF Queued, InSeq
  <2>4. \A k \in Lockers : HasPermit(k)' <=> HasPermit(k)
    BY <2>1, <2>2, <2>3 DEF HasPermit, Queued
  <2> QED BY <2>1, <2>4, PermitsKept
<1> QED BY <1>1, <1>2, <1>3, <1>4

LEMMA PermitsSignal ==
  ASSUME SyncInv, PermitsConserved, NEW l \in Lockers, Signal(l)
  PROVE  PermitsConserved'
<1> USE DEF SyncInv
<1> DEFINE s == Head(toSignal[l])
           q == semWaiters[s]
           g == Head(q)
<1>0. /\ at[l] = "signal" /\ toSignal[l] # << >> /\ toSignal[l] \in Seq(Sems) /\ s \in Sems
      /\ permits[s] \in Nat /\ permits[Gate] \in Nat /\ q \in Seq(Fibers) /\ Gate \in Sems
  <2>1. at[l] = "signal" /\ toSignal[l] # << >> /\ toSignal[l] \in Seq(Sems)
    BY DEF Signal, SyncTypeOK
  <2>2. s \in Sems
    BY <2>1, TailFacts
  <2> QED BY <2>1, <2>2 DEF SyncTypeOK
<1>1. HasPermit(l) <=> s = Gate
  BY <1>0, SignalsGate
<1>2. CASE q # << >>
  <2>1. /\ at' = [at EXCEPT ![l] = "resume"] /\ UNCHANGED <<permits, toSignal, sem>>
        /\ semWaiters' = [semWaiters EXCEPT ![s] = Tail(q)]
    BY <1>2 DEF Signal
  <2>2. /\ g \in Fibers /\ InSeq(q, g)
        /\ \A y : InSeq(q, y) <=> InSeq(Tail(q), y) \/ y = g
        /\ Distinct(q) => ~InSeq(Tail(q), g)
    BY <1>0, <1>2, TailFacts
  <2>3. /\ semWaiters'[Gate] = IF s = Gate THEN Tail(q) ELSE semWaiters[Gate]
        /\ \A k \in Lockers : at'[k] = IF k = l THEN "resume" ELSE at[k]
    BY <1>0, <2>1 DEF SyncTypeOK
  <2>4. at[g] \in {"queued", "suspended"} /\ sem[g] = s /\ Distinct(q)
    BY <1>0, <2>2 DEF OneWakeUp
  <2>5. \A k : Queued(k, Gate)' <=> Queued(k, Gate) /\ ~(s = Gate /\ k = g)
    BY <2>2, <2>3, <2>4, ZenonT(30) DEF Queued, InSeq
  <2>6. Queued(g, s)
    BY <2>2 DEF Queued, InSeq
  <2>7. ~HasPermit(l)'
    BY <2>3 DEF HasPermit
  <2> HIDE DEF g, q, s
  <2>8. PICK h : h = g
    OBVIOUS
  <2>9. \A k \in Lockers \ {l, h} : HasPermit(k)' <=> HasPermit(k)
    BY <2>1, <2>3, <2>5, <2>8 DEF HasPermit
  <2>10. h \in Lockers /\ h # l /\ ~HasPermit(h) /\ (HasPermit(h)' <=> s = Gate)
    <3>1. h \in Lockers /\ h # l /\ at'[h] = at[h] /\ sem'[h] = s
      BY <1>0, <2>1, <2>2, <2>3, <2>4, <2>8
    <3> QED BY <2>4, <2>5, <2>6, <2>8, <3>1 DEF HasPermit
  <2>11. CASE s = Gate
    BY <1>1, <2>1, <2>7, <2>9, <2>10, <2>11, PermitsHanded
  <2>12. CASE s # Gate
    <3>1. \A k \in Lockers : HasPermit(k)' <=> HasPermit(k)
      BY <1>1, <2>7, <2>9, <2>10, <2>12
    <3> QED BY <2>1, <3>1, PermitsKept
  <2> QED BY <2>11, <2>12
<1>3. CASE q = << >>
  <2>1. /\ permits' = [permits EXCEPT ![s] = IF @ < maxPermits(s) THEN @ + 1 ELSE @]
        /\ toSignal' = [toSignal EXCEPT ![l] = Tail(toSignal[l])]
        /\ UNCHANGED <<at, semWaiters, sem>>
    BY <1>3 DEF Signal
  <2>2. \A k \in Lockers : toSignal'[k] = IF k = l THEN Tail(toSignal[l]) ELSE toSignal[k]
    BY <2>1 DEF SyncTypeOK
  <2>3. \A k \in Lockers \ {l} : HasPermit(k)' <=> HasPermit(k)
    BY <2>1, <2>2 DEF HasPermit, Queued
  <2>4. Tail(toSignal[l]) # <<Gate>>
    <3>1. ASSUME Tail(toSignal[l]) = <<Gate>> PROVE FALSE
      <4>1. InSeq(Todo(l), Gate)
        BY <1>0, <3>1, TailFacts, SingleFacts DEF Todo
      <4>2. toSignal[l] = <<Gate>>
        BY <4>1 DEF Handles
      <4> QED BY <3>1, <4>2, SingleFacts
    <3> QED BY <3>1
  <2>5. ~HasPermit(l)'
    BY <1>0, <2>1, <2>2, <2>4 DEF HasPermit
  <2>6. CASE s = Gate
    <3>1. l \in PermitHolders
      BY <1>1, <2>6 DEF PermitHolders
    <3>2. Cardinality(PermitHolders) # 0 /\ Cardinality(PermitHolders) \in Nat
      BY <3>1, HoldersFinite, FS_EmptySet
    <3>3. permits[Gate] < GatePermits
      BY <1>0, <3>2, SMT DEF PermitsConserved, PermitHolders
    <3>4. permits'[Gate] = permits[Gate] + 1
      BY <1>0, <2>1, <2>6, <3>3 DEF SyncTypeOK, maxPermits
    <3> QED BY <1>0, <1>1, <2>3, <2>5, <2>6, <3>4, PermitsMoved
  <2>7. CASE s # Gate
    <3>1. permits'[Gate] = permits[Gate]
      BY <1>0, <2>1, <2>7 DEF SyncTypeOK
    <3> QED BY <1>1, <2>3, <2>5, <2>7, <3>1, PermitsKept
  <2> QED BY <2>6, <2>7
<1> QED BY <1>2, <1>3

LEMMA PermitsCall ==
  ASSUME SyncInv, PermitsConserved, NEW l \in Lockers,
         \/ LeaveGate(l) \/ SignalResume(l) \/ SignalReturns(l) \/ Signalled(l)
         \/ CvWait(l) \/ CvUnlocked(l) \/ CvReturn(l)
  PROVE  PermitsConserved'
<1> USE DEF SyncInv
<1> SUFFICES \A k \in Lockers : HasPermit(k)' <=> HasPermit(k)
  BY PermitsKept DEF LeaveGate, SignalResume, SignalReturns, Signalled, CvWait, CvUnlocked, CvReturn
<1>1. CASE LeaveGate(l)
  BY <1>1, SingleFacts DEF LeaveGate, HasPermit, Queued, SyncTypeOK
<1>2. CASE SignalResume(l)
  BY <1>2 DEF SignalResume, HasPermit, Queued
<1>3. CASE SignalReturns(l)
  <2>1. /\ at[l] = "resuming" /\ UNCHANGED <<semWaiters, sem>>
        /\ \A k \in Lockers : /\ at'[k] = IF k = l THEN "signal" ELSE at[k]
                              /\ toSignal'[k] = IF k = l THEN Tail(toSignal[l]) ELSE toSignal[k]
    BY <1>3 DEF SignalReturns, SyncTypeOK
  <2>2. Tail(toSignal[l]) # <<Gate>>
    <3>1. ASSUME Tail(toSignal[l]) = <<Gate>> PROVE FALSE
      <4>1. InSeq(Todo(l), Gate)
        BY <2>1, <3>1, SingleFacts DEF Todo
      <4>2. toSignal[l] = <<Gate>>
        BY <4>1 DEF Handles
      <4> QED BY <3>1, <4>2, SingleFacts
    <3> QED BY <3>1
  <2> QED BY <2>1, <2>2 DEF HasPermit, Queued
<1>4. CASE Signalled(l)
  <2>1. /\ at[l] = "signal" /\ toSignal[l] = << >> /\ UNCHANGED <<semWaiters, sem, toSignal>>
        /\ \A k \in Lockers : k # l => at'[k] = at[k]
        /\ at'[l] \in {"used", "plain"}
    BY <1>4 DEF Signalled, SyncTypeOK
  <2> QED BY <2>1, SingleFacts DEF HasPermit, Queued
<1>5. CASE CvWait(l)
  BY <1>5 DEF CvWait, HasPermit, Queued
<1>6. CASE CvUnlocked(l)
  <2>1. /\ at[l] = "cv" /\ UNCHANGED <<semWaiters, toSignal>>
        /\ \A k \in Lockers : k # l => at'[k] = at[k] /\ sem'[k] = sem[k]
        /\ at'[l] \in {"wait", "relock"}
    BY <1>6 DEF CvUnlocked, SyncTypeOK
  <2> QED BY <2>1 DEF HasPermit, Queued
<1>7. CASE CvReturn(l)
  <2>1. /\ at[l] = "relock" /\ UNCHANGED <<semWaiters, toSignal>>
        /\ \A k \in Lockers : k # l => at'[k] = at[k] /\ sem'[k] = sem[k]
        /\ at'[l] = "used"
    BY <1>7 DEF CvReturn, SyncTypeOK
  <2> QED BY <2>1 DEF HasPermit, Queued
<1> QED BY <1>1, <1>2, <1>3, <1>4, <1>5, <1>6, <1>7

LEMMA PermitsNotify ==
  ASSUME SyncInv, PermitsConserved, NEW l \in Lockers, NEW n \in 1 .. Len(waitingQueue),
         Notify(l, n)
  PROVE  PermitsConserved'
<1> USE DEF SyncInv
<1> DEFINE a == SubSeq(waitingQueue, 1, n)
<1>1. a \in Seq(Fibers)
  BY SplitFacts DEF SyncTypeOK
<1> HIDE DEF a
<1>2. a # <<Gate>>
  BY <1>1, SingleFacts, ElementFact
<1>3. /\ at[l] = "plain" /\ UNCHANGED <<permits, semWaiters, sem>>
      /\ \A k \in Lockers : /\ at'[k] = IF k = l THEN "signal" ELSE at[k]
                            /\ toSignal'[k] = IF k = l THEN a ELSE toSignal[k]
  BY DEF Notify, SyncTypeOK, a
<1>4. \A k \in Lockers : HasPermit(k)' <=> HasPermit(k)
  BY <1>2, <1>3 DEF HasPermit, Queued
<1> QED BY <1>3, <1>4, PermitsKept

LEMMA PermitsMutex ==
  ASSUME SyncInv, PermitsConserved, NEW l \in Lockers, MutexStep(l)
  PROVE  PermitsConserved'
<1>1. UNCHANGED <<permits, semWaiters, sem, toSignal>>
  BY DEF MutexStep
<1>2. \A k \in Lockers : at'[k] = at[k] \/ (k = l /\ at[k] = "used" /\ at'[k] = "plain")
  <2>1. CASE at' = at
    BY <2>1
  <2>2. CASE Goto(l, IF at[l] = "used" THEN "plain" ELSE at[l])
    BY <2>2 DEF SyncTypeOK
  <2> QED BY <2>1, <2>2 DEF MutexStep
<1>3. \A k \in Lockers : HasPermit(k)' <=> HasPermit(k)
  BY <1>1, <1>2 DEF HasPermit, Queued
<1> QED BY <1>1, <1>3, PermitsKept

LEMMA PermitsStep == SyncInv /\ PermitsConserved /\ [SyncNext]_allVars => PermitsConserved'
<1> SUFFICES ASSUME SyncInv, PermitsConserved, [SyncNext]_allVars PROVE PermitsConserved'
  OBVIOUS
<1>1. ASSUME UNCHANGED syncVars PROVE PermitsConserved'
  BY <1>1, PermitsKept DEF HasPermit, Queued
<1>2. ASSUME NEW l \in Lockers, SyncCode(l) PROVE PermitsConserved'
  <2>1. CASE Notify_One(l) \/ Notify_All(l)
    <3>1. PICK n \in 1 .. Len(waitingQueue) : Notify(l, n)
      <4>1. waitingQueue \in Seq(Fibers) /\ waitingQueue # << >>
        BY <2>1 DEF Notify_One, Notify_All, Notify, SyncInv, SyncTypeOK
      <4>2. 1 \in 1 .. Len(waitingQueue) /\ Len(waitingQueue) \in 1 .. Len(waitingQueue)
        BY <4>1, SMT
      <4> QED BY <2>1, <4>2 DEF Notify_One, Notify_All
    <3> QED BY <3>1, PermitsNotify
  <2> QED BY <1>2, <2>1, PermitsMutex, PermitsWait, PermitsSignal, PermitsCall DEF SyncCode
<1>3. ASSUME NEW w \in Workers, WaitSuspend(w) PROVE PermitsConserved'
  <2>1. /\ UNCHANGED <<permits, semWaiters, sem, toSignal>> /\ at[wfib[w]] = "queued"
        /\ at' = [at EXCEPT ![wfib[w]] = "suspended"]
    BY <1>3 DEF WaitSuspend
  <2>2. \A k \in Lockers : HasPermit(k)' <=> HasPermit(k)
    BY <2>1 DEF HasPermit, Queued
  <2> QED BY <2>1, <2>2, PermitsKept
<1>4. ASSUME NEW w \in Workers, SyncWorker(w) PROVE PermitsConserved'
  BY <1>1, <1>3, <1>4 DEF SyncWorker
<1> QED BY <1>1, <1>2, <1>4 DEF SyncNext, allVars

\* The semaphore's permits are conserved, for any number of callers: what is
\* left, what callers hold and what Signal has handed to sleeping fibers adds
\* up to the initial number, so no more than that many are ever inside.
THEOREM SyncPermits == SyncSpec => []PermitsConserved
<1>1. SyncInit => PermitsConserved
  <2> SUFFICES ASSUME SyncInit PROVE PermitsConserved
    OBVIOUS
  <2>1. {l \in Lockers : HasPermit(l)} = {}
    BY DEF SyncInit, HasPermit
  <2>2. permits[Gate] = GatePermits
    BY DEF SyncInit
  <2> QED BY <2>1, <2>2, FS_EmptySet, SMT DEF PermitsConserved
<1> QED
  BY <1>1, SyncInitInv, SyncStep, PermitsStep, PTL DEF SyncSpec
=============================================================================
