------------------------------ MODULE WaitGroup ------------------------------
(***************************************************************************)
(* WaitGroup (Task.h, Task.cpp), RunCounted and WaitFor of TaskScheduler,  *)
(* and the completion code that Thread::Worker, ProcessMainThread and      *)
(* TryRunStolenFastJob share.  WaitGroup::n holds a counter and, in one    *)
(* high bit, whether a fiber is registered; the counter reaching zero with *)
(* the bit set makes the completing thread call WakeAll.                   *)
(*                                                                         *)
(* Every wait has a DirectEvent of its own (EventWait), so the event is    *)
(* named by the fiber that waits on it.  seenZero is a                     *)
(* history variable: the waiting fibers for which the counter was zero at  *)
(* some moment of their current wait.                                      *)
(***************************************************************************)
EXTENDS Fiber

CONSTANTS
  Completers,  \* threads that run counted tasks to their end
  Mains,       \* threads without a fiber that call WaitFor or WaitForMain
  MaxTasks,    \* bound on the counted tasks submitted
  MaxRounds,   \* bound on the waits of one fiber
  Reuse        \* whether tasks are added to a group that was waited on before

ASSUME CompletersResume == Fibers \cup Completers \subseteq Resumers
ASSUME GroupBounds == MaxTasks \in Nat /\ MaxRounds \in Nat /\ Reuse \in BOOLEAN

VARIABLES
  count,      \* n & COUNT_MASK
  bit,        \* n & WAITER_BIT
  waiters,    \* WaitGroup::waiters
  mtx,        \* the thread that holds WaitGroup::mtx, or None
  waiter,     \* fibers published as the waiter of their DirectEvent
  fpc,        \* where a fiber is in WaitFor
  rounds,     \* waits the fiber has made
  submitted, pending,   \* counted tasks: submitted so far, not yet completed
  cpc, towake,          \* a completer: control, the to_wake of WakeAll
  mpc,        \* where a main thread is in WaitFor
  seenZero

groupVars == <<count, bit, waiters, mtx>>
clientVars == <<fpc, rounds, submitted, pending, cpc, towake, mpc>>
wgVars == <<groupVars, waiter, clientVars, seenZero>>
vars == <<fiberVars, wgVars>>

GroupInit ==
  /\ FiberInit
  /\ count = 0 /\ bit = FALSE /\ waiters = {} /\ mtx = None
  /\ waiter = {}
  /\ fpc = [f \in Fibers |-> "run"] /\ rounds = [f \in Fibers |-> 0]
  /\ submitted = 0 /\ pending = 0
  /\ cpc = [c \in Completers |-> "idle"] /\ towake = [c \in Completers |-> {}]
  /\ mpc = [m \in Mains |-> "idle"]
  /\ seenZero = {}

FiberAt(f, pc) == fpc' = [fpc EXCEPT ![f] = pc]
-----------------------------------------------------------------------------
\* RunCounted on a running fiber: n.fetch_add(1), then Push.  Without Reuse all
\* tasks of the group are submitted before the first wait.
RunCounted(w) ==
  /\ wpc[w] = "on" /\ fpc[wfib[w]] = "run" /\ submitted < MaxTasks
  /\ Reuse \/ \A f \in Fibers : rounds[f] = 0
  /\ count' = count + 1
  /\ submitted' = submitted + 1 /\ pending' = pending + 1
  /\ UNCHANGED <<fiberVars, bit, waiters, mtx, waiter, fpc, rounds, cpc, towake,
                 mpc, seenZero>>

\* Mutant: every completion wakes the waiters, not only the last one.
CompleteEarly(c) ==
  /\ cpc[c] = "idle" /\ rpc[c] = "idle" /\ pending > 0
  /\ pending' = pending - 1 /\ count' = count - 1
  /\ cpc' = [cpc EXCEPT ![c] = IF bit THEN "wakeall" ELSE "idle"]
  /\ seenZero' = IF count = 1 THEN seenZero \cup {f \in Fibers : fpc[f] # "run"}
                 ELSE seenZero
  /\ UNCHANGED <<fiberVars, bit, waiters, mtx, waiter, fpc, rounds, submitted,
                 towake, mpc>>

\* A counted task ends: fetch_sub, and WakeAll if the counter was one and the
\* bit was set.
Complete(c) ==
  /\ cpc[c] = "idle" /\ rpc[c] = "idle" /\ pending > 0
  /\ pending' = pending - 1 /\ count' = count - 1
  /\ cpc' = [cpc EXCEPT ![c] = IF count = 1 /\ bit THEN "wakeall" ELSE "idle"]
  /\ seenZero' = IF count = 1 THEN seenZero \cup {f \in Fibers : fpc[f] # "run"}
                 ELSE seenZero
  /\ UNCHANGED <<fiberVars, bit, waiters, mtx, waiter, fpc, rounds, submitted,
                 towake, mpc>>

\* Mutant: only one waiter is kept and woken.
WakeOne(c) ==
  /\ cpc[c] = "wakeall" /\ mtx = None /\ waiters # {}
  /\ towake' = [towake EXCEPT ![c] = {CHOOSE f \in waiters : TRUE}]
  /\ waiters' = {} /\ bit' = FALSE
  /\ cpc' = [cpc EXCEPT ![c] = "signal"]
  /\ UNCHANGED <<fiberVars, count, mtx, waiter, fpc, rounds, submitted, pending,
                 mpc, seenZero>>

\* WakeAll under mtx: take the waiters, clear the bit.
WakeAll(c) ==
  /\ cpc[c] = "wakeall" /\ mtx = None
  /\ towake' = [towake EXCEPT ![c] = waiters]
  /\ waiters' = {} /\ bit' = FALSE
  /\ cpc' = [cpc EXCEPT ![c] = IF waiters = {} THEN "idle" ELSE "signal"]
  /\ UNCHANGED <<fiberVars, count, mtx, waiter, fpc, rounds, submitted, pending,
                 mpc, seenZero>>

\* Mutant: the waiter is queued without going through Resume.
WakeNextRequeues(c, f) ==
  /\ cpc[c] = "signal" /\ rpc[c] = "idle" /\ f \in towake[c]
  /\ towake' = [towake EXCEPT ![c] = @ \ {f}]
  /\ cpc' = [cpc EXCEPT ![c] = IF towake[c] = {f} THEN "idle" ELSE "signal"]
  /\ waiter' = waiter \ {f} /\ queue' = [queue EXCEPT ![f] = @ + 1]
  /\ UNCHANGED <<status, saved, pool, workerVars, resumeVars, groupVars, fpc, rounds,
                 submitted, pending, mpc, seenZero>>

\* ev->Signal() for each: exchange the waiter, resume it if there was one.
WakeNext(c, f) ==
  /\ cpc[c] = "signal" /\ rpc[c] = "idle" /\ f \in towake[c]
  /\ towake' = [towake EXCEPT ![c] = @ \ {f}]
  /\ cpc' = [cpc EXCEPT ![c] = IF towake[c] = {f} THEN "idle" ELSE "signal"]
  /\ waiter' = waiter \ {f}
  /\ IF f \in waiter THEN ResumeCall(c, f) ELSE UNCHANGED resumeVars
  /\ UNCHANGED <<status, saved, pool, queue, workerVars, groupVars, fpc, rounds,
                 submitted, pending, mpc, seenZero>>

Completer(c) == Complete(c) \/ WakeAll(c) \/ \E f \in Fibers : WakeNext(c, f)
-----------------------------------------------------------------------------
(* WaitFor on a fiber: WaitOnEventDirectArmed with an arm callback that    *)
(* registers the event.                                                    *)

\* Mutant: the fiber goes on to register without having become parkable.
NotYetParkable(w) ==
  LET f == wfib[w] IN
  /\ wpc[w] = "on" /\ fpc[f] = "run" /\ rounds[f] < MaxRounds
  /\ WorkerAt(w, "leaving")
  /\ FiberAt(f, "parkable") /\ rounds' = [rounds EXCEPT ![f] = @ + 1]
  /\ seenZero' = IF count = 0 THEN seenZero \cup {f} ELSE seenZero \ {f}
  /\ UNCHANGED <<status, saved, pool, queue, wfib, resumeVars, groupVars, waiter,
                 submitted, pending, cpc, towake, mpc>>

BecomeParkable(w) ==
  LET f == wfib[w] IN
  /\ wpc[w] = "on" /\ fpc[f] = "run" /\ rounds[f] < MaxRounds
  /\ AskSuspend(w)
  /\ FiberAt(f, "parkable") /\ rounds' = [rounds EXCEPT ![f] = @ + 1]
  /\ seenZero' = IF count = 0 THEN seenZero \cup {f} ELSE seenZero \ {f}
  /\ UNCHANGED <<groupVars, waiter, submitted, pending, cpc, towake, mpc>>

Publish(w) ==
  LET f == wfib[w] IN
  /\ wpc[w] = "leaving" /\ fpc[f] = "parkable"
  /\ waiter' = waiter \cup {f} /\ FiberAt(f, "published")
  /\ UNCHANGED <<fiberVars, groupVars, rounds, submitted, pending, cpc, towake,
                 mpc, seenZero>>

\* The arm callback, under mtx: insert the event, fetch_or the bit.
Register(w) ==
  LET f == wfib[w] IN
  /\ wpc[w] = "leaving" /\ fpc[f] = "published" /\ mtx = None /\ count > 0
  /\ waiters' = waiters \cup {f} /\ bit' = TRUE
  /\ FiberAt(f, "armed")
  /\ UNCHANGED <<fiberVars, count, mtx, waiter, rounds, submitted, pending, cpc,
                 towake, mpc, seenZero>>

\* The counter was already zero: erase the event again and signal ourselves.
\* The bit stays.
RegisterDone(w) ==
  LET f == wfib[w] IN
  /\ wpc[w] = "leaving" /\ fpc[f] = "published" /\ mtx = None /\ count = 0
  /\ bit' = TRUE /\ waiter' = waiter \ {f} /\ mtx' = f
  /\ ResumeCall(f, f)
  /\ FiberAt(f, "self")
  /\ UNCHANGED <<status, saved, pool, queue, workerVars, count, waiters, rounds,
                 submitted, pending, cpc, towake, mpc, seenZero>>

\* Our own Resume has returned: mtx is released.
SelfSignalled(w) ==
  LET f == wfib[w] IN
  /\ wpc[w] = "leaving" /\ fpc[f] = "self" /\ rpc[f] = "idle"
  /\ mtx' = None /\ FiberAt(f, "armed")
  /\ UNCHANGED <<fiberVars, count, bit, waiters, waiter, rounds, submitted,
                 pending, cpc, towake, mpc, seenZero>>

Leave(w) ==
  /\ wpc[w] = "leaving" /\ fpc[wfib[w]] \in {"armed", "run"} /\ SwitchOut(w)
  /\ UNCHANGED wgVars

\* WaitFor returns to the task.
WaitForReturns(w) ==
  /\ wpc[w] = "on" /\ fpc[wfib[w]] = "armed"
  /\ FiberAt(wfib[w], "run")
  /\ UNCHANGED <<fiberVars, groupVars, waiter, rounds, submitted, pending, cpc,
                 towake, mpc, seenZero>>

TaskDone(w) ==
  /\ wpc[w] = "on" /\ fpc[wfib[w]] = "run" /\ Finish(w)
  /\ UNCHANGED wgVars

\* Each fiber carries one task.
NewTask(w, f) ==
  /\ rounds[f] = 0 /\ status[f] = "READY" /\ StartTask(w, f)
  /\ UNCHANGED wgVars

FiberCode(w) ==
  \/ RunCounted(w) \/ BecomeParkable(w) \/ Publish(w) \/ Register(w)
  \/ RegisterDone(w) \/ SelfSignalled(w) \/ Leave(w) \/ WaitForReturns(w)
  \/ TaskDone(w)
-----------------------------------------------------------------------------
(* WaitFor without a fiber, and WaitForMain: spin while n > 0.             *)

MainCalls(m) ==
  /\ mpc[m] = "idle" /\ mpc' = [mpc EXCEPT ![m] = "spin"]
  /\ UNCHANGED <<fiberVars, groupVars, waiter, fpc, rounds, submitted, pending,
                 cpc, towake, seenZero>>

MainReturns(m) ==
  /\ mpc[m] = "spin" /\ count = 0 /\ ~bit
  /\ mpc' = [mpc EXCEPT ![m] = "done"]
  /\ UNCHANGED <<fiberVars, groupVars, waiter, fpc, rounds, submitted, pending,
                 cpc, towake, seenZero>>

Next ==
  \/ \E w \in Workers :
       \/ FiberCode(w)
       \/ \E f \in Fibers : NewTask(w, f)
       \/ WorkerStep(w) /\ UNCHANGED wgVars
  \/ \E c \in Completers : Completer(c)
  \/ \E r \in Resumers : Resume(r) /\ UNCHANGED wgVars
  \/ \E m \in Mains : MainCalls(m) \/ MainReturns(m)

\* Every thread keeps running; counted tasks end; a spinning thread looks at n
\* again and again.
Spec ==
  /\ GroupInit /\ [][Next]_vars
  /\ \A w \in Workers :
       WF_vars(FiberCode(w) \/ (WorkerStep(w) /\ UNCHANGED wgVars))
  /\ \A c \in Completers : WF_vars(Completer(c))
  /\ \A r \in Resumers : WF_vars(Resume(r) /\ UNCHANGED wgVars)
  /\ \A m \in Mains : WF_vars(MainReturns(m))
-----------------------------------------------------------------------------
(* Properties.                                                             *)

\* WakeAll and the self-signal never resume a fiber that is not parkable or
\* parked, whatever the order of registration, last completion and park.
ResumeFindsSleeper ==
  \A r \in Resumers :
    rpc[r] \in {"load", "cas_suspended", "cas_wants"} =>
      status[rfib[r]] \in {"WANTS_SUSPEND", "SUSPENDED"}

\* A fiber that is about to park or parked in WaitFor is not forgotten: it is
\* registered while tasks are outstanding or a completer is on its way into
\* WakeAll, or it is in a to_wake list, or somebody is in Resume for it.
SleeperHasWaker ==
  \A f \in Fibers :
    fpc[f] \in {"self", "armed"} /\ status[f] \in {"WANTS_SUSPEND", "SUSPENDED"} =>
      \/ f \in waiters /\ bit /\ (count > 0 \/ \E c \in Completers : cpc[c] = "wakeall")
      \/ \E c \in Completers : f \in towake[c]
      \/ \E r \in Resumers :
           rpc[r] \in {"load", "cas_suspended", "cas_wants"} /\ rfib[r] = f

\* No wake-up of WaitFor is lost: neither given when it has no effect, nor
\* forgotten.
NoLostWakeup == ResumeFindsSleeper /\ SleeperHasWaker

\* A fiber leaves WaitFor only if the counter was zero at some moment of its
\* wait.
WaitedUntilZero ==
  \A w \in Workers :
    wpc[w] = "on" /\ fpc[wfib[w]] = "armed" => wfib[w] \in seenZero

\* Every fiber that waits on the group goes on (CHANGELOG: "WaitGroup now wakes
\* ALL waiters").
AllWaitersWake == \A f \in Fibers : fpc[f] # "run" ~> fpc[f] = "run"

\* A thread that waits without a fiber returns (every counted task ends and
\* their number is bounded, so the counter reaches zero for good).
MainWakes == \A m \in Mains : mpc[m] = "spin" ~> mpc[m] = "done"

\* The group only uses the fiber life cycle.
UsesFiberLifeCycle == FiberSpec
=============================================================================
