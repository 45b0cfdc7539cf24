--------------------------- MODULE WaitGroupProofs ---------------------------
(***************************************************************************)
(* The wait group for any number of fibers, completing threads, tasks and  *)
(* rounds.  A group only uses the fiber life cycle, so what FiberProofs    *)
(* shows holds in it.  The rest of the invariant follows the wake-up of    *)
(* one wait: it is with the group (waiters), with one completer (to_wake), *)
(* with one Resume call, or it has been given.                             *)
(***************************************************************************)
EXTENDS WaitGroup, FiberProofs

WaitFor == {"run", "parkable", "published", "self", "armed"}

GroupTypeOK ==
  /\ count \in Nat /\ pending = count /\ bit \in BOOLEAN
  /\ waiters \subseteq Fibers /\ waiter \subseteq Fibers /\ seenZero \subseteq Fibers
  /\ fpc \in [Fibers -> WaitFor] /\ rounds \in [Fibers -> Nat]
  /\ cpc \in [Completers -> {"idle", "wakeall", "signal"}]
  /\ towake \in [Completers -> SUBSET Fibers]

\* r is in a Resume call of f that has not taken effect.
Resuming(r, f) == rpc[r] \in {"load", "cas_suspended", "cas_wants"} /\ rfib[r] = f

\* A fiber inside WaitFor, before it switches out, is on the worker that ran it.
OnItsWorker ==
  \A f \in Fibers :
    fpc[f] \in {"parkable", "published", "self"} =>
      \E w \in Workers : wpc[w] = "leaving" /\ wfib[w] = f

\* What the status of a fiber says about its wait.
WaitStatus ==
  \A f \in Fibers :
    /\ fpc[f] = "run" => status[f] \in {"READY", "RUNNING", "DEAD"}
    /\ fpc[f] \in {"parkable", "published"} => status[f] = "WANTS_SUSPEND"
    /\ fpc[f] = "self" => status[f] \in {"WANTS_SUSPEND", "SUSPEND_SIGNALED"}
    /\ fpc[f] = "armed" => status[f] \notin {"DEAD", "WANTS_YIELD"}

\* The wake-up of f is still to come.
Sleeps(f) ==
  fpc[f] \in {"self", "armed"} /\ status[f] \in {"WANTS_SUSPEND", "SUSPENDED"}

\* The wake-up of a wait is in one place only, and the wait is not over.
OneWakeUp ==
  /\ \A f \in waiters : fpc[f] = "armed" /\ Sleeps(f) /\ f \in waiter
  /\ \A c \in Completers : \A f \in towake[c] :
       /\ cpc[c] = "signal" /\ f \notin waiters
       /\ fpc[f] = "armed" /\ Sleeps(f) /\ f \in waiter
       /\ \A d \in Completers : f \in towake[d] => d = c
  /\ \A r \in Resumers : \A f \in Fibers :
       Resuming(r, f) =>
         /\ Sleeps(f) /\ f \notin waiter
         /\ \A q \in Resumers : Resuming(q, f) => q = r
         /\ rpc[r] = "cas_suspended" => status[f] = "SUSPENDED"
  /\ \A f \in Fibers : fpc[f] = "published" => f \in waiter
  /\ \A f \in waiter :
       fpc[f] = "published" \/ f \in waiters \/ \E c \in Completers : f \in towake[c]

GroupInv ==
  /\ FiberInv /\ GroupTypeOK /\ OnItsWorker /\ WaitStatus /\ OneWakeUp
  /\ SleeperHasWaker

\* The counter was zero in the wait of every fiber whose wake-up has begun.
\* Without reuse a counter that has reached zero after the first wait stays so.
ZeroSeen ==
  /\ \A f \in Fibers : fpc[f] # "run" => rounds[f] > 0 /\ (count = 0 => f \in seenZero)
  /\ \A f \in Fibers :
       /\ fpc[f] \in {"self", "armed"}
       /\ \/ status[f] \in {"SUSPEND_SIGNALED", "READY", "RUNNING"}
          \/ \E c \in Completers : f \in towake[c]
          \/ \E r \in Resumers : Resuming(r, f)
       => f \in seenZero
  /\ bit => \E f \in Fibers : rounds[f] > 0
  /\ \A c \in Completers :
       cpc[c] = "wakeall" => count = 0 /\ \E f \in Fibers : rounds[f] > 0
-----------------------------------------------------------------------------
(* A step of the group is a step of the fiber life cycle, or none.          *)

LEMMA GroupStepIsFiberStep ==
  ASSUME FiberInv, GroupTypeOK, [Next]_vars
  PROVE  [FiberNext]_fiberVars
<1> USE DEF fiberVars, workerVars, resumeVars
<1>1. ASSUME NEW w \in Workers, FiberCode(w) PROVE [FiberNext]_fiberVars
  <2>1. CASE RunCounted(w) \/ Publish(w) \/ Register(w) \/ SelfSignalled(w) \/ WaitForReturns(w)
    BY <2>1 DEF RunCounted, Publish, Register, SelfSignalled, WaitForReturns
  <2>2. CASE BecomeParkable(w)
    BY <2>2 DEF BecomeParkable, FiberNext
  <2>3. CASE RegisterDone(w)
    <3>1. wfib[w] \in Fibers /\ wfib[w] \in Resumers
      BY <2>3, CompletersResume DEF RegisterDone, FiberInv, WorkerStatus
    <3> QED BY <2>3, <3>1 DEF RegisterDone, FiberNext
  <2>4. CASE Leave(w) \/ TaskDone(w)
    BY <2>4 DEF Leave, TaskDone, FiberNext
  <2> QED BY <1>1, <2>1, <2>2, <2>3, <2>4 DEF FiberCode
<1>2. ASSUME NEW w \in Workers, NEW f \in Fibers, NewTask(w, f) PROVE [FiberNext]_fiberVars
  BY <1>2 DEF NewTask, FiberNext
<1>3. ASSUME NEW w \in Workers, WorkerStep(w) PROVE [FiberNext]_fiberVars
  BY <1>3 DEF FiberNext
<1>4. ASSUME NEW c \in Completers, Completer(c) PROVE [FiberNext]_fiberVars
  <2>1. CASE Complete(c) \/ WakeAll(c)
    BY <2>1 DEF Complete, WakeAll
  <2>2. ASSUME NEW f \in Fibers, WakeNext(c, f) PROVE [FiberNext]_fiberVars
    <3>1. c \in Resumers
      BY CompletersResume
    <3> QED BY <2>2, <3>1 DEF WakeNext, FiberNext
  <2> QED BY <1>4, <2>1, <2>2 DEF Completer
<1>5. ASSUME NEW r \in Resumers, Resume(r) PROVE [FiberNext]_fiberVars
  BY <1>5 DEF FiberNext
<1>6. ASSUME NEW m \in Mains, MainCalls(m) \/ MainReturns(m) PROVE [FiberNext]_fiberVars
  BY <1>6 DEF MainCalls, MainReturns
<1>7. CASE UNCHANGED vars
  BY <1>7 DEF vars
<1> QED BY <1>1, <1>2, <1>3, <1>4, <1>5, <1>6, <1>7 DEF Next
-----------------------------------------------------------------------------
(* The group invariant, action by action.  FiberInv' is in the hypotheses:     *)
(* FiberStep and the lemma above give it.                                  *)

USE CompletersResume
USE DEF fiberVars, workerVars, resumeVars, wgVars, groupVars, clientVars,
        SetStatus, WorkerAt, ResumerAt, FiberAt, WaitFor

\* Steps that leave the group alone.
LEMMA GroupTypeKept == GroupTypeOK /\ UNCHANGED wgVars => GroupTypeOK'
BY DEF GroupTypeOK

LEMMA GroupSwitchIn ==
  ASSUME GroupInv, FiberInv', NEW w \in Workers, NEW f \in Fibers, SwitchIn(w, f), UNCHANGED wgVars
  PROVE  GroupInv'
<1> USE DEF GroupInv, SwitchIn, FiberInv, FiberTypeOK, GroupTypeOK
<1>1. GroupTypeOK'
  BY GroupTypeKept
<1>2. OnItsWorker'
  BY SMT DEF OnItsWorker
<1>3. WaitStatus'
  BY SMT DEF WaitStatus, RestingStatus
<1>4. OneWakeUp'
  BY SMT DEF OneWakeUp, Sleeps, Resuming, RestingStatus
<1>5. SleeperHasWaker'
  BY SMT DEF SleeperHasWaker
<1> QED BY <1>1, <1>2, <1>3, <1>4, <1>5

LEMMA GroupStartTask ==
  ASSUME GroupInv, FiberInv', NEW w \in Workers, NEW f \in Fibers, NewTask(w, f)
  PROVE  GroupInv'
<1> USE DEF GroupInv, NewTask, StartTask, FiberInv, FiberTypeOK, GroupTypeOK
<1>1. GroupTypeOK'
  BY GroupTypeKept
<1>2. OnItsWorker'
  BY SMT DEF OnItsWorker
<1>3. WaitStatus'
  BY SMT DEF WaitStatus
<1>4. OneWakeUp'
  BY SMT DEF OneWakeUp, Sleeps, Resuming
<1>5. SleeperHasWaker'
  BY SMT DEF SleeperHasWaker
<1> QED BY <1>1, <1>2, <1>3, <1>4, <1>5

LEMMA GroupFinish ==
  ASSUME GroupInv, FiberInv', NEW w \in Workers, TaskDone(w)
  PROVE  GroupInv'
<1> USE DEF GroupInv, TaskDone, Finish, Ask, FiberInv, FiberTypeOK, GroupTypeOK
<1>1. GroupTypeOK'
  BY GroupTypeKept
<1>2. OnItsWorker'
  BY SMT DEF OnItsWorker
<1>3. WaitStatus'
  BY SMT DEF WaitStatus
<1>4. OneWakeUp'
  BY SMT DEF OneWakeUp, Sleeps, Resuming
<1>5. SleeperHasWaker'
  BY SMT DEF SleeperHasWaker
<1> QED BY <1>1, <1>2, <1>3, <1>4, <1>5

LEMMA GroupSwitchOut ==
  ASSUME GroupInv, FiberInv', NEW w \in Workers, Leave(w)
  PROVE  GroupInv'
<1> USE DEF GroupInv, Leave, SwitchOut, FiberInv, FiberTypeOK, GroupTypeOK
<1>1. GroupTypeOK'
  BY GroupTypeKept
<1>2. OnItsWorker'
  BY SMT DEF OnItsWorker
<1>3. WaitStatus'
  BY SMT DEF WaitStatus
<1>4. OneWakeUp'
  BY SMT DEF OneWakeUp, Sleeps, Resuming
<1>5. SleeperHasWaker'
  BY SMT DEF SleeperHasWaker
<1> QED BY <1>1, <1>2, <1>3, <1>4, <1>5

LEMMA GroupRetire ==
  ASSUME GroupInv, FiberInv', NEW w \in Workers, Retire(w), UNCHANGED wgVars
  PROVE  GroupInv'
<1> USE DEF GroupInv, Retire, FiberInv, FiberTypeOK, GroupTypeOK
<1>1. GroupTypeOK'
  BY GroupTypeKept
<1>2. OnItsWorker'
  BY SMT DEF OnItsWorker
<1>3. WaitStatus'
  BY SMT DEF WaitStatus
<1>4. OneWakeUp'
  BY SMT DEF OneWakeUp, Sleeps, Resuming
<1>5. SleeperHasWaker'
  BY SMT DEF SleeperHasWaker
<1> QED BY <1>1, <1>2, <1>3, <1>4, <1>5

LEMMA GroupMakeReady ==
  ASSUME GroupInv, FiberInv', NEW w \in Workers, MakeReady(w), UNCHANGED wgVars
  PROVE  GroupInv'
<1> USE DEF GroupInv, MakeReady, FiberInv, FiberTypeOK, GroupTypeOK
<1>1. GroupTypeOK'
  BY GroupTypeKept
<1>2. OnItsWorker'
  BY SMT DEF OnItsWorker
<1>3. WaitStatus'
  BY SMT DEF WaitStatus, OnItsWorker, AtMostOnePlace, WithWorker
<1>4. OneWakeUp'
  BY SMT DEF OneWakeUp, Sleeps, Resuming
<1>5. SleeperHasWaker'
  BY SMT DEF SleeperHasWaker
<1> QED BY <1>1, <1>2, <1>3, <1>4, <1>5

LEMMA GroupPushBack ==
  ASSUME GroupInv, FiberInv', NEW w \in Workers, PushBack(w), UNCHANGED wgVars
  PROVE  GroupInv'
<1> USE DEF GroupInv, PushBack, FiberInv, FiberTypeOK, GroupTypeOK
<1>1. GroupTypeOK'
  BY GroupTypeKept
<1>2. OnItsWorker'
  BY SMT DEF OnItsWorker
<1>3. WaitStatus'
  BY SMT DEF WaitStatus
<1>4. OneWakeUp'
  BY SMT DEF OneWakeUp, Sleeps, Resuming
<1>5. SleeperHasWaker'
  BY SMT DEF SleeperHasWaker
<1> QED BY <1>1, <1>2, <1>3, <1>4, <1>5

LEMMA GroupPark ==
  ASSUME GroupInv, FiberInv', NEW w \in Workers, Park(w), UNCHANGED wgVars
  PROVE  GroupInv'
<1> USE DEF GroupInv, Park, FiberInv, FiberTypeOK, GroupTypeOK
<1>1. GroupTypeOK'
  BY GroupTypeKept
<1>2. OnItsWorker'
  BY SMT DEF OnItsWorker
<1>3. WaitStatus'
  BY SMT DEF WaitStatus, OnItsWorker, AtMostOnePlace, WithWorker
<1>4. OneWakeUp'
  BY SMT DEF OneWakeUp, Sleeps, Resuming
<1>5. SleeperHasWaker'
  BY SMT DEF SleeperHasWaker
<1> QED BY <1>1, <1>2, <1>3, <1>4, <1>5

LEMMA GroupResumeLoad ==
  ASSUME GroupInv, FiberInv', NEW r \in Resumers, ResumeLoad(r), UNCHANGED wgVars
  PROVE  GroupInv'
<1> USE DEF GroupInv, ResumeLoad, FiberInv, FiberTypeOK, GroupTypeOK
<1>1. GroupTypeOK'
  BY GroupTypeKept
<1>2. OnItsWorker'
  BY SMT DEF OnItsWorker
<1>3. WaitStatus'
  BY SMT DEF WaitStatus
<1>4. OneWakeUp'
  BY SMT DEF OneWakeUp, Sleeps, Resuming
<1>5. SleeperHasWaker'
  BY SMT DEF SleeperHasWaker
<1> QED BY <1>1, <1>2, <1>3, <1>4, <1>5

LEMMA GroupResumeCasSuspended ==
  ASSUME GroupInv, FiberInv', NEW r \in Resumers, ResumeCasSuspended(r), UNCHANGED wgVars
  PROVE  GroupInv'
<1> USE DEF GroupInv, ResumeCasSuspended, FiberInv, FiberTypeOK, GroupTypeOK
<1>1. GroupTypeOK'
  BY GroupTypeKept
<1>2. OnItsWorker'
  BY SMT DEF OnItsWorker
<1>3. WaitStatus'
  BY SMT DEF WaitStatus
<1>4. OneWakeUp'
  BY SMTT(30) DEF OneWakeUp, Sleeps, Resuming, OnItsWorker
<1>5. SleeperHasWaker'
  BY SMT DEF SleeperHasWaker, OneWakeUp, Resuming
<1> QED BY <1>1, <1>2, <1>3, <1>4, <1>5

LEMMA GroupResumeCasWants ==
  ASSUME GroupInv, FiberInv', NEW r \in Resumers, ResumeCasWants(r), UNCHANGED wgVars
  PROVE  GroupInv'
<1> USE DEF GroupInv, ResumeCasWants, FiberInv, FiberTypeOK, GroupTypeOK
<1>1. GroupTypeOK'
  BY GroupTypeKept
<1>2. OnItsWorker'
  BY SMT DEF OnItsWorker
<1>3. WaitStatus'
  BY SMT DEF WaitStatus, OneWakeUp, Resuming, Sleeps
<1>4. OneWakeUp'
  BY SMT DEF OneWakeUp, Sleeps, Resuming, OnItsWorker
<1>5. SleeperHasWaker'
  BY SMT DEF SleeperHasWaker
<1> QED BY <1>1, <1>2, <1>3, <1>4, <1>5

LEMMA GroupResumeRequeue ==
  ASSUME GroupInv, FiberInv', NEW r \in Resumers, ResumeRequeue(r), UNCHANGED wgVars
  PROVE  GroupInv'
<1> USE DEF GroupInv, ResumeRequeue, FiberInv, FiberTypeOK, GroupTypeOK
<1>1. GroupTypeOK'
  BY GroupTypeKept
<1>2. OnItsWorker'
  BY SMT DEF OnItsWorker
<1>3. WaitStatus'
  BY SMT DEF WaitStatus
<1>4. OneWakeUp'
  BY SMT DEF OneWakeUp, Sleeps, Resuming
<1>5. SleeperHasWaker'
  BY SMT DEF SleeperHasWaker
<1> QED BY <1>1, <1>2, <1>3, <1>4, <1>5

LEMMA GroupRunCounted ==
  ASSUME GroupInv, FiberInv', NEW w \in Workers, RunCounted(w)
  PROVE  GroupInv'
<1> USE DEF GroupInv, RunCounted, FiberInv, FiberTypeOK, GroupTypeOK
<1>1. GroupTypeOK'
  BY SMT DEF WorkerStatus
<1>2. OnItsWorker'
  BY SMT DEF OnItsWorker
<1>3. WaitStatus'
  BY SMT DEF WaitStatus
<1>4. OneWakeUp'
  BY SMT DEF OneWakeUp, Sleeps, Resuming
<1>5. SleeperHasWaker'
  BY SMT DEF SleeperHasWaker
<1> QED BY <1>1, <1>2, <1>3, <1>4, <1>5

LEMMA GroupBecomeParkable ==
  ASSUME GroupInv, FiberInv', NEW w \in Workers, BecomeParkable(w)
  PROVE  GroupInv'
<1> USE DEF GroupInv, BecomeParkable, AskSuspend, Ask, FiberInv, FiberTypeOK, GroupTypeOK
<1>1. GroupTypeOK'
  BY SMT DEF WorkerStatus
<1>2. OnItsWorker'
  BY SMT DEF OnItsWorker
<1>3. WaitStatus'
  BY SMT DEF WaitStatus
<1>4. OneWakeUp'
  BY SMT DEF OneWakeUp, Sleeps, Resuming
<1>5. SleeperHasWaker'
  BY SMT DEF SleeperHasWaker
<1> QED BY <1>1, <1>2, <1>3, <1>4, <1>5

LEMMA GroupPublish ==
  ASSUME GroupInv, FiberInv', NEW w \in Workers, Publish(w)
  PROVE  GroupInv'
<1> USE DEF GroupInv, Publish, FiberInv, FiberTypeOK, GroupTypeOK
<1>1. GroupTypeOK'
  BY SMT DEF WorkerStatus
<1>2. OnItsWorker'
  BY SMT DEF OnItsWorker
<1>3. WaitStatus'
  BY SMT DEF WaitStatus
<1>4. OneWakeUp'
  BY SMT DEF OneWakeUp, Sleeps, Resuming, WorkerStatus
<1>5. SleeperHasWaker'
  BY SMT DEF SleeperHasWaker
<1> QED BY <1>1, <1>2, <1>3, <1>4, <1>5

LEMMA GroupRegister ==
  ASSUME GroupInv, FiberInv', NEW w \in Workers, Register(w)
  PROVE  GroupInv'
<1> USE DEF GroupInv, Register, FiberInv, FiberTypeOK, GroupTypeOK
<1>1. GroupTypeOK'
  BY SMT DEF WorkerStatus
<1>2. OnItsWorker'
  BY SMT DEF OnItsWorker
<1>3. WaitStatus'
  BY SMT DEF WaitStatus
<1>4. OneWakeUp'
  BY SMT DEF OneWakeUp, Sleeps, Resuming, WaitStatus, WorkerStatus
<1>5. SleeperHasWaker'
  BY SMT DEF SleeperHasWaker
<1> QED BY <1>1, <1>2, <1>3, <1>4, <1>5

LEMMA GroupRegisterDone ==
  ASSUME GroupInv, FiberInv', NEW w \in Workers, RegisterDone(w)
  PROVE  GroupInv'
<1> USE DEF GroupInv, RegisterDone, ResumeCall, FiberInv, FiberTypeOK, GroupTypeOK
<1>1. GroupTypeOK'
  BY SMT DEF WorkerStatus
<1>2. OnItsWorker'
  BY SMT DEF OnItsWorker
<1>3. WaitStatus'
  BY SMT DEF WaitStatus
<1>4. OneWakeUp'
  BY SMT DEF OneWakeUp, Sleeps, Resuming, WaitStatus
<1>5. SleeperHasWaker'
  BY SMT DEF SleeperHasWaker
<1> QED BY <1>1, <1>2, <1>3, <1>4, <1>5

LEMMA GroupSelfSignalled ==
  ASSUME GroupInv, FiberInv', NEW w \in Workers, SelfSignalled(w)
  PROVE  GroupInv'
<1> USE DEF GroupInv, SelfSignalled, FiberInv, FiberTypeOK, GroupTypeOK
<1>1. GroupTypeOK'
  BY SMT DEF WorkerStatus
<1>2. OnItsWorker'
  BY SMT DEF OnItsWorker
<1>3. WaitStatus'
  BY SMT DEF WaitStatus
<1>4. OneWakeUp'
  BY SMT DEF OneWakeUp, Sleeps, Resuming
<1>5. SleeperHasWaker'
  BY SMT DEF SleeperHasWaker
<1> QED BY <1>1, <1>2, <1>3, <1>4, <1>5

LEMMA GroupWaitForReturns ==
  ASSUME GroupInv, FiberInv', NEW w \in Workers, WaitForReturns(w)
  PROVE  GroupInv'
<1> USE DEF GroupInv, WaitForReturns, FiberInv, FiberTypeOK, GroupTypeOK
<1>1. GroupTypeOK'
  BY SMT DEF WorkerStatus
<1>2. OnItsWorker'
  BY SMT DEF OnItsWorker
<1>3. WaitStatus'
  BY SMT DEF WaitStatus, WorkerStatus
<1>4. OneWakeUp'
  BY SMT DEF OneWakeUp, Sleeps, Resuming, WorkerStatus
<1>5. SleeperHasWaker'
  BY SMT DEF SleeperHasWaker
<1> QED BY <1>1, <1>2, <1>3, <1>4, <1>5

LEMMA GroupComplete ==
  ASSUME GroupInv, FiberInv', NEW c \in Completers, Complete(c)
  PROVE  GroupInv'
<1> USE DEF GroupInv, Complete, FiberInv, FiberTypeOK, GroupTypeOK
<1>1. GroupTypeOK'
  BY SMT DEF WorkerStatus
<1>2. OnItsWorker'
  BY SMT DEF OnItsWorker
<1>3. WaitStatus'
  BY SMT DEF WaitStatus
<1>4. OneWakeUp'
  BY SMT DEF OneWakeUp, Sleeps, Resuming
<1>5. SleeperHasWaker'
  BY SMT DEF SleeperHasWaker
<1> QED BY <1>1, <1>2, <1>3, <1>4, <1>5

LEMMA GroupWakeAll ==
  ASSUME GroupInv, FiberInv', NEW c \in Completers, WakeAll(c)
  PROVE  GroupInv'
<1> USE DEF GroupInv, WakeAll, FiberInv, FiberTypeOK, GroupTypeOK
<1>1. GroupTypeOK'
  <2>1. cpc' \in [Completers -> {"idle", "wakeall", "signal"}]
    BY SMT
  <2>2. towake' \in [Completers -> SUBSET Fibers]
    BY SMT
  <2>3. bit' \in BOOLEAN
    OBVIOUS
  <2>4. /\ count' \in Nat /\ pending' = count'
        /\ waiters' \subseteq Fibers /\ waiter' \subseteq Fibers /\ seenZero' \subseteq Fibers
        /\ fpc' \in [Fibers -> WaitFor] /\ rounds' \in [Fibers -> Nat]
    BY SMT
  <2> QED BY <2>1, <2>2, <2>3, <2>4
<1>2. OnItsWorker'
  BY SMT DEF OnItsWorker
<1>3. WaitStatus'
  BY SMT DEF WaitStatus
<1>4. OneWakeUp'
  BY SMT DEF OneWakeUp, Sleeps, Resuming
<1>5. SleeperHasWaker'
  BY SMT DEF SleeperHasWaker, OneWakeUp
<1> QED BY <1>1, <1>2, <1>3, <1>4, <1>5

LEMMA GroupWakeNext ==
  ASSUME GroupInv, FiberInv', NEW c \in Completers, NEW f \in Fibers, WakeNext(c, f)
  PROVE  GroupInv'
<1> USE DEF GroupInv, WakeNext, ResumeCall, FiberInv, FiberTypeOK, GroupTypeOK
<1>1. GroupTypeOK'
  BY SMT DEF WorkerStatus
<1>2. OnItsWorker'
  BY SMT DEF OnItsWorker
<1>3. WaitStatus'
  BY SMT DEF WaitStatus
<1>4. OneWakeUp'
  <2>1. \A g \in waiters' : fpc'[g] = "armed" /\ Sleeps(g)' /\ g \in waiter'
    BY SMT DEF OneWakeUp, Sleeps
  <2>2. \A d \in Completers : \A g \in towake'[d] :
       /\ cpc'[d] = "signal" /\ g \notin waiters'
       /\ fpc'[g] = "armed" /\ Sleeps(g)' /\ g \in waiter'
       /\ \A e \in Completers : g \in towake'[e] => e = d
    BY SMT DEF OneWakeUp, Sleeps
  <2>3. \A r \in Resumers : \A g \in Fibers :
       Resuming(r, g)' =>
         /\ Sleeps(g)' /\ g \notin waiter'
         /\ \A q \in Resumers : Resuming(q, g)' => q = r
         /\ rpc'[r] = "cas_suspended" => status'[g] = "SUSPENDED"
    BY SMT DEF OneWakeUp, Sleeps, Resuming
  <2>4. \A g \in Fibers : fpc'[g] = "published" => g \in waiter'
    BY SMT DEF OneWakeUp
  <2>5. \A g \in waiter' :
       fpc'[g] = "published" \/ g \in waiters' \/ \E d \in Completers : g \in towake'[d]
    BY SMT DEF OneWakeUp
  <2> QED BY <2>1, <2>2, <2>3, <2>4, <2>5 DEF OneWakeUp
<1>5. SleeperHasWaker'
  <2> SUFFICES ASSUME NEW g \in Fibers, Sleeps(g)'
               PROVE  \/ g \in waiters' /\ bit' /\ (count' > 0 \/ \E d \in Completers : cpc'[d] = "wakeall")
                      \/ \E d \in Completers : g \in towake'[d]
                      \/ \E r \in Resumers : Resuming(r, g)'
    BY DEF SleeperHasWaker, Sleeps, Resuming
  <2>1. CASE g = f
    <3>1. f \in waiter /\ c \in Resumers
      BY DEF OneWakeUp
    <3>2. Resuming(c, f)'
      BY <3>1 DEF Resuming
    <3> QED BY <2>1, <3>1, <3>2
  <2>2. CASE g # f
    BY <2>2, SMT DEF SleeperHasWaker, Sleeps, Resuming
  <2> QED BY <2>1, <2>2
<1> QED BY <1>1, <1>2, <1>3, <1>4, <1>5

\* The threads without a fiber only read.
LEMMA GroupUnchanged ==
  ASSUME GroupInv, UNCHANGED <<fiberVars, groupVars, waiter, fpc, rounds, submitted,
                               pending, cpc, towake, seenZero>>
  PROVE  GroupInv'
BY DEF GroupInv, FiberInv, FiberTypeOK, AtMostOnePlace, NeverDropped, NeverRunUnsaved,
       WorkerStatus, RestingStatus, WithWorker, WithResumer, GroupTypeOK, OnItsWorker,
       WaitStatus, OneWakeUp, Sleeps, Resuming, SleeperHasWaker
-----------------------------------------------------------------------------
LEMMA GroupInitInv == GroupInit => GroupInv /\ ZeroSeen
<1> SUFFICES ASSUME GroupInit PROVE GroupInv /\ ZeroSeen
  OBVIOUS
<1>1. FiberInv
  BY FiberInitInv DEF GroupInit
<1>2. GroupTypeOK
  BY DEF GroupInit, GroupTypeOK
<1>3. OnItsWorker /\ WaitStatus /\ SleeperHasWaker
  BY SMT DEF GroupInit, FiberInit, OnItsWorker, WaitStatus, SleeperHasWaker
<1>4. OneWakeUp
  BY SMT DEF GroupInit, FiberInit, OneWakeUp, Resuming
<1>5. ZeroSeen
  BY SMT DEF GroupInit, ZeroSeen
<1> QED BY <1>1, <1>2, <1>3, <1>4, <1>5 DEF GroupInv

LEMMA GroupStep == GroupInv /\ [Next]_vars => GroupInv' /\ [FiberNext]_fiberVars
<1> SUFFICES ASSUME GroupInv, [Next]_vars PROVE GroupInv' /\ [FiberNext]_fiberVars
  OBVIOUS
<1>1. [FiberNext]_fiberVars
  BY GroupStepIsFiberStep DEF GroupInv
<1>2. FiberInv'
  BY <1>1, FiberStep DEF GroupInv
<1>3. ASSUME NEW w \in Workers, FiberCode(w) PROVE GroupInv'
  BY <1>2, <1>3, GroupRunCounted, GroupBecomeParkable, GroupPublish, GroupRegister,
     GroupRegisterDone, GroupSelfSignalled, GroupSwitchOut, GroupWaitForReturns, GroupFinish
     DEF FiberCode
<1>4. ASSUME NEW w \in Workers, WorkerStep(w), UNCHANGED wgVars PROVE GroupInv'
  BY <1>2, <1>4, GroupSwitchIn, GroupRetire, GroupMakeReady, GroupPushBack, GroupPark
     DEF WorkerStep
<1>5. ASSUME NEW c \in Completers, Completer(c) PROVE GroupInv'
  BY <1>2, <1>5, GroupComplete, GroupWakeAll, GroupWakeNext DEF Completer
<1>6. ASSUME NEW r \in Resumers, Resume(r), UNCHANGED wgVars PROVE GroupInv'
  BY <1>2, <1>6, GroupResumeLoad, GroupResumeCasSuspended, GroupResumeCasWants,
     GroupResumeRequeue DEF Resume
<1>7. ASSUME NEW m \in Mains, MainCalls(m) \/ MainReturns(m) PROVE GroupInv'
  BY <1>7, GroupUnchanged DEF MainCalls, MainReturns
<1>8. CASE UNCHANGED vars
  BY <1>8, GroupUnchanged DEF vars
<1> QED
  BY <1>1, <1>2, <1>3, <1>4, <1>5, <1>6, <1>7, <1>8, GroupStartTask DEF Next
-----------------------------------------------------------------------------
(* The history of the counter.                                             *)

LEMMA ZeroSeenWorker ==
  ASSUME GroupInv, ZeroSeen, NEW w \in Workers, WorkerStep(w), UNCHANGED wgVars
  PROVE  ZeroSeen'
<1> USE DEF GroupInv, FiberInv, FiberTypeOK, GroupTypeOK, ZeroSeen, Resuming
<1>1. ASSUME NEW f \in Fibers, SwitchIn(w, f) PROVE ZeroSeen'
  BY <1>1, SMT DEF SwitchIn, RestingStatus
<1>2. CASE Retire(w)
  BY <1>2, SMT DEF Retire
<1>3. CASE MakeReady(w)
  BY <1>3, SMT DEF MakeReady, WaitStatus
<1>4. CASE PushBack(w)
  BY <1>4, SMT DEF PushBack
<1>5. CASE Park(w)
  BY <1>5, SMT DEF Park
<1> QED BY <1>1, <1>2, <1>3, <1>4, <1>5 DEF WorkerStep

LEMMA ZeroSeenResume ==
  ASSUME GroupInv, ZeroSeen, NEW r \in Resumers, Resume(r), UNCHANGED wgVars
  PROVE  ZeroSeen'
<1> USE DEF GroupInv, FiberInv, FiberTypeOK, GroupTypeOK, ZeroSeen, Resuming
<1>1. CASE ResumeLoad(r)
  BY <1>1, SMT DEF ResumeLoad
<1>2. CASE ResumeCasSuspended(r)
  BY <1>2, SMT DEF ResumeCasSuspended
<1>3. CASE ResumeCasWants(r)
  BY <1>3, SMT DEF ResumeCasWants
<1>4. CASE ResumeRequeue(r)
  BY <1>4, SMT DEF ResumeRequeue
<1> QED BY <1>1, <1>2, <1>3, <1>4 DEF Resume

LEMMA ZeroSeenFiber ==
  ASSUME ~Reuse, GroupInv, ZeroSeen, NEW w \in Workers, FiberCode(w)
  PROVE  ZeroSeen'
<1> USE DEF GroupInv, FiberInv, FiberTypeOK, GroupTypeOK, WorkerStatus, ZeroSeen, Resuming
<1>1. CASE RunCounted(w)
  BY <1>1, SMT DEF RunCounted
<1>2. CASE BecomeParkable(w)
  BY <1>2, SMT DEF BecomeParkable, AskSuspend, Ask
<1>3. CASE Publish(w)
  BY <1>3, SMT DEF Publish
<1>4. CASE Register(w)
  BY <1>4, SMT DEF Register, WaitStatus, OneWakeUp
<1>5. CASE RegisterDone(w)
  BY <1>5, SMT DEF RegisterDone
<1>6. CASE SelfSignalled(w)
  BY <1>6, SMT DEF SelfSignalled
<1>7. CASE Leave(w)
  BY <1>7, SMT DEF Leave, SwitchOut
<1>8. CASE WaitForReturns(w)
  BY <1>8, SMT DEF WaitForReturns
<1>9. CASE TaskDone(w)
  BY <1>9, SMT DEF TaskDone, Finish, Ask
<1> QED BY <1>1, <1>2, <1>3, <1>4, <1>5, <1>6, <1>7, <1>8, <1>9 DEF FiberCode

LEMMA ZeroSeenCompleter ==
  ASSUME GroupInv, ZeroSeen, NEW c \in Completers, Completer(c)
  PROVE  ZeroSeen'
<1> USE DEF GroupInv, FiberInv, FiberTypeOK, GroupTypeOK, ZeroSeen, Resuming
<1>1. CASE Complete(c)
  BY <1>1, SMT DEF Complete
<1>2. CASE WakeAll(c)
  BY <1>2, SMT DEF WakeAll
<1>3. ASSUME NEW f \in Fibers, WakeNext(c, f) PROVE ZeroSeen'
  BY <1>3, SMT DEF WakeNext, ResumeCall
<1> QED BY <1>1, <1>2, <1>3 DEF Completer

LEMMA ZeroSeenStep == ~Reuse /\ GroupInv /\ ZeroSeen /\ [Next]_vars => ZeroSeen'
<1> SUFFICES ASSUME ~Reuse, GroupInv, ZeroSeen, [Next]_vars PROVE ZeroSeen'
  OBVIOUS
<1>1. ASSUME NEW w \in Workers, NEW f \in Fibers, NewTask(w, f) PROVE ZeroSeen'
  BY <1>1, SMT DEF NewTask, StartTask, ZeroSeen, Resuming
<1>2. ASSUME NEW m \in Mains, MainCalls(m) \/ MainReturns(m) PROVE ZeroSeen'
  BY <1>2 DEF MainCalls, MainReturns, ZeroSeen, Resuming
<1>3. CASE UNCHANGED vars
  BY <1>3 DEF vars, ZeroSeen, Resuming
<1> QED
  BY <1>1, <1>2, <1>3, ZeroSeenWorker, ZeroSeenResume, ZeroSeenFiber, ZeroSeenCompleter DEF Next
-----------------------------------------------------------------------------
\* A client of the group does with a fiber only what Fiber describes: the
\* theorems of FiberProofs hold for fibers that wait on groups.
THEOREM GroupUsesFibers == Spec => UsesFiberLifeCycle
<1>1. GroupInit => FiberInit
  BY DEF GroupInit
<1> QED
  BY <1>1, GroupInitInv, GroupStep, PTL DEF Spec, UsesFiberLifeCycle, FiberSpec

\* WaitGroup loses no wake-up, for any number of waiters, completers and
\* rounds: Resume is only called for a fiber that can be resumed, and a
\* fiber that sleeps is registered with work outstanding, or about to be woken.
THEOREM GroupWakes == Spec => []NoLostWakeup
<1>1. GroupInv => NoLostWakeup
  BY DEF GroupInv, OneWakeUp, Resuming, Sleeps, NoLostWakeup, ResumeFindsSleeper, FiberInv,
         RestingStatus
<1> QED
  BY <1>1, GroupInitInv, GroupStep, PTL DEF Spec

\* If no task is added to a group that has been waited on, WaitFor returns on
\* a fiber only after the counter has been zero during the wait.
THEOREM GroupWaits == ~Reuse => (Spec => []WaitedUntilZero)
<1> SUFFICES ASSUME ~Reuse PROVE Spec => []WaitedUntilZero
  OBVIOUS
<1>1. GroupInv /\ ZeroSeen => WaitedUntilZero
  BY DEF GroupInv, FiberInv, WorkerStatus, ZeroSeen, WaitedUntilZero
<1>2. GroupInv /\ ZeroSeen /\ [Next]_vars => ZeroSeen'
  BY ZeroSeenStep
<1> QED
  BY <1>1, <1>2, GroupInitInv, GroupStep, PTL DEF Spec
=============================================================================
