-------------------------------- MODULE Fiber --------------------------------
(***************************************************************************)
(* The fiber life cycle: Fiber.cpp (CoYield, Suspend, Resume), the fiber   *)
(* half of Thread::Worker (switch-in, and what the worker does with the    *)
(* status it finds after the switch back) and FiberEntryWrapper.  A fiber  *)
(* stands for the task it carries: owningTask and assignedFiber point at   *)
(* each other from the first switch-in until the fiber is released.        *)
(*                                                                         *)
(* The run queues (deques, inboxes) are one multiset here: queue[f] counts *)
(* the entries of f's task in all of them, and any idle worker may take    *)
(* any entry.  A Resumer is a thread of control that can call Resume().    *)
(*                                                                         *)
(* On its own the module lets every fiber yield, suspend and finish as it  *)
(* likes and lets every resumer resume any fiber at any time.  EventWait,  *)
(* WaitGroup and SchedulerMutex extend it with the clients that decide     *)
(* when.                                                                   *)
(*                                                                         *)
(* A task is here from the moment it gets its fiber, and was not refused   *)
(* one before.  A refusal (Thread.cpp:216-232) leaves a second copy of the *)
(* task in a queue, as WorkerLoop's NoFiber does, and with it one fiber    *)
(* could be run from two places.                                           *)
(***************************************************************************)
EXTENDS Integers, FiniteSets

CONSTANTS
  Fibers,     \* the fibers of the GlobalFiberPool
  Workers,    \* worker threads
  Resumers,   \* threads of control that call Fiber::Resume
  None

ASSUME NoneAssumption == None \notin Fibers

VARIABLES
  status,   \* Fiber::status
  saved,    \* fibers whose ctx holds their registers: nobody runs on the stack
  pool,     \* fibers nobody uses: worker caches and the global pool
  queue,    \* number of run-queue entries of the fiber's task
  wpc,      \* where a worker is in Thread::Worker
  wfib,     \* the fiber it has switched to (f, task_to_run)
  rpc,      \* where a resumer is in Fiber::Resume
  rfib      \* the fiber it resumes

workerVars == <<wpc, wfib>>
resumeVars == <<rpc, rfib>>
fiberVars  == <<status, saved, pool, queue, wpc, wfib, rpc, rfib>>

FiberStatus == {"READY", "RUNNING", "WANTS_YIELD", "WANTS_SUSPEND",
                "SUSPEND_SIGNALED", "SUSPENDED", "DEAD"}

FiberInit ==
  /\ status = [f \in Fibers |-> "READY"]
  /\ saved = Fibers
  /\ pool = Fibers
  /\ queue = [f \in Fibers |-> 0]
  /\ wpc = [w \in Workers |-> "loop"] /\ wfib = [w \in Workers |-> None]
  /\ rpc = [r \in Resumers |-> "idle"] /\ rfib = [r \in Resumers |-> None]

SetStatus(f, s) == status' = [status EXCEPT ![f] = s]
WorkerAt(w, pc) == wpc' = [wpc EXCEPT ![w] = pc]
ResumerAt(r, pc) == rpc' = [rpc EXCEPT ![r] = pc]
-----------------------------------------------------------------------------
(* Thread::Worker: giving a fiber the CPU.                                 *)

\* A new task was given a fiber, Init() seeds its context and the worker
\* switches to it.
StartTask(w, f) ==
  /\ wpc[w] = "loop" /\ f \in pool
  /\ pool' = pool \ {f}
  /\ SetStatus(f, "RUNNING")
  /\ saved' = saved \ {f}
  /\ WorkerAt(w, "on") /\ wfib' = [wfib EXCEPT ![w] = f]
  /\ UNCHANGED <<queue, resumeVars>>

\* A queued task that has a fiber: store RUNNING and switch into its context.
SwitchIn(w, f) ==
  /\ wpc[w] = "loop" /\ queue[f] > 0
  /\ queue' = [queue EXCEPT ![f] = @ - 1]
  /\ SetStatus(f, "RUNNING")
  /\ saved' = saved \ {f}
  /\ WorkerAt(w, "on") /\ wfib' = [wfib EXCEPT ![w] = f]
  /\ UNCHANGED <<pool, resumeVars>>

(* The fiber, running on w: it records what it wants and switches back.    *)

\* CoYield, Suspend and the end of FiberEntryWrapper, up to the switch.
Ask(w, s) ==
  /\ wpc[w] = "on"
  /\ SetStatus(wfib[w], s)
  /\ WorkerAt(w, "leaving")
  /\ UNCHANGED <<saved, pool, queue, wfib, resumeVars>>

AskYield(w)   == Ask(w, "WANTS_YIELD")
AskSuspend(w) == Ask(w, "WANTS_SUSPEND")
Finish(w)     == Ask(w, "DEAD")

\* ContextSwitch(&ctx, homeCtx)
SwitchOut(w) ==
  /\ wpc[w] = "leaving"
  /\ saved' = saved \cup {wfib[w]}
  /\ WorkerAt(w, "back")
  /\ UNCHANGED <<status, pool, queue, wfib, resumeVars>>

(* Thread::Worker after the switch: act on the status.                     *)

\* DEAD: the task is destroyed and the fiber goes back to the cache.
Retire(w) ==
  /\ wpc[w] = "back" /\ status[wfib[w]] = "DEAD"
  /\ pool' = pool \cup {wfib[w]}
  /\ WorkerAt(w, "loop") /\ wfib' = [wfib EXCEPT ![w] = None]
  /\ UNCHANGED <<status, saved, queue, resumeVars>>

\* WANTS_YIELD, or a signal that came before the park: READY ...
MakeReady(w) ==
  /\ wpc[w] = "back" /\ status[wfib[w]] \in {"WANTS_YIELD", "SUSPEND_SIGNALED"}
  /\ SetStatus(wfib[w], "READY")
  /\ WorkerAt(w, "push")
  /\ UNCHANGED <<saved, pool, queue, wfib, resumeVars>>

\* ... and then into a run queue (push_bottom or Requeue).
PushBack(w) ==
  /\ wpc[w] = "push"
  /\ queue' = [queue EXCEPT ![wfib[w]] = @ + 1]
  /\ WorkerAt(w, "loop") /\ wfib' = [wfib EXCEPT ![w] = None]
  /\ UNCHANGED <<status, saved, pool, resumeVars>>

\* Mutant: SUSPENDED is stored without looking for SUSPEND_SIGNALED.
ParkWithoutCas(w) ==
  /\ wpc[w] = "back" /\ status[wfib[w]] \in {"WANTS_SUSPEND", "SUSPEND_SIGNALED"}
  /\ SetStatus(wfib[w], "SUSPENDED")
  /\ WorkerAt(w, "loop") /\ wfib' = [wfib EXCEPT ![w] = None]
  /\ UNCHANGED <<saved, pool, queue, resumeVars>>

\* The CAS WANTS_SUSPEND -> SUSPENDED: parked, in no queue.
Park(w) ==
  /\ wpc[w] = "back" /\ status[wfib[w]] = "WANTS_SUSPEND"
  /\ SetStatus(wfib[w], "SUSPENDED")
  /\ WorkerAt(w, "loop") /\ wfib' = [wfib EXCEPT ![w] = None]
  /\ UNCHANGED <<saved, pool, queue, resumeVars>>
-----------------------------------------------------------------------------
(* Fiber::Resume, one atomic access to status per step.                    *)

ResumeCall(r, f) ==
  /\ rpc[r] = "idle"
  /\ ResumerAt(r, "load") /\ rfib' = [rfib EXCEPT ![r] = f]

\* Neither SUSPENDED nor WANTS_SUSPEND: the call does nothing.
ResumeLoad(r) ==
  /\ rpc[r] = "load"
  /\ ResumerAt(r, CASE status[rfib[r]] = "SUSPENDED" -> "cas_suspended"
                    [] status[rfib[r]] = "WANTS_SUSPEND" -> "cas_wants"
                    [] OTHER -> "idle")
  /\ UNCHANGED <<status, saved, pool, queue, workerVars, rfib>>

\* Mutant: a plain store instead of the CAS, so two resumers both re-queue.
ResumeWithoutCas(r) ==
  /\ rpc[r] = "cas_suspended"
  /\ SetStatus(rfib[r], "READY") /\ ResumerAt(r, "requeue")
  /\ UNCHANGED <<saved, pool, queue, workerVars, rfib>>

\* CAS SUSPENDED -> READY; the winner re-queues, a loser returns.
ResumeCasSuspended(r) ==
  /\ rpc[r] = "cas_suspended"
  /\ \/ /\ status[rfib[r]] = "SUSPENDED"
        /\ SetStatus(rfib[r], "READY") /\ ResumerAt(r, "requeue")
     \/ /\ status[rfib[r]] # "SUSPENDED"
        /\ ResumerAt(r, "idle") /\ UNCHANGED status
  /\ UNCHANGED <<saved, pool, queue, workerVars, rfib>>

\* Mutant: WANTS_SUSPEND is treated like SUSPENDED.
ResumeUnparked(r) ==
  /\ rpc[r] = "cas_wants"
  /\ \/ /\ status[rfib[r]] = "WANTS_SUSPEND"
        /\ SetStatus(rfib[r], "READY") /\ ResumerAt(r, "requeue")
     \/ /\ status[rfib[r]] # "WANTS_SUSPEND"
        /\ ResumerAt(r, "load") /\ UNCHANGED status
  /\ UNCHANGED <<saved, pool, queue, workerVars, rfib>>

\* CAS WANTS_SUSPEND -> SUSPEND_SIGNALED; a loser looks again.
ResumeCasWants(r) ==
  /\ rpc[r] = "cas_wants"
  /\ \/ /\ status[rfib[r]] = "WANTS_SUSPEND"
        /\ SetStatus(rfib[r], "SUSPEND_SIGNALED") /\ ResumerAt(r, "idle")
     \/ /\ status[rfib[r]] # "WANTS_SUSPEND"
        /\ ResumerAt(r, "load") /\ UNCHANGED status
  /\ UNCHANGED <<saved, pool, queue, workerVars, rfib>>

ResumeRequeue(r) ==
  /\ rpc[r] = "requeue"
  /\ queue' = [queue EXCEPT ![rfib[r]] = @ + 1]
  /\ ResumerAt(r, "idle")
  /\ UNCHANGED <<status, saved, pool, workerVars, rfib>>

Resume(r) ==
  ResumeLoad(r) \/ ResumeCasSuspended(r) \/ ResumeCasWants(r) \/ ResumeRequeue(r)

\* What a worker does between two fibers, whatever the fibers are for.
WorkerStep(w) ==
  \/ \E f \in Fibers : SwitchIn(w, f)
  \/ Retire(w) \/ MakeReady(w) \/ PushBack(w) \/ Park(w)
-----------------------------------------------------------------------------
FiberNext ==
  \/ \E w \in Workers :
       \/ WorkerStep(w)
       \/ \E f \in Fibers : StartTask(w, f)
       \/ AskYield(w) \/ AskSuspend(w) \/ Finish(w) \/ SwitchOut(w)
  \/ \E r \in Resumers :
       \/ Resume(r)
       \/ \E f \in Fibers :
            ResumeCall(r, f) /\ UNCHANGED <<status, saved, pool, queue, workerVars>>

FiberSpec == FiberInit /\ [][FiberNext]_fiberVars
-----------------------------------------------------------------------------
(* Properties.                                                             *)

FiberTypeOK ==
  /\ status \in [Fibers -> FiberStatus]
  /\ saved \subseteq Fibers
  /\ pool \subseteq Fibers
  /\ queue \in [Fibers -> Nat]
  /\ wpc \in [Workers -> {"loop", "on", "leaving", "back", "push"}]
  /\ wfib \in [Workers -> Fibers \cup {None}]
  /\ rpc \in [Resumers -> {"idle", "load", "cas_suspended", "cas_wants", "requeue"}]
  /\ rfib \in [Resumers -> Fibers \cup {None}]

\* The places where a fiber can be: in the pool, in a run queue, with a
\* worker, or with a resumer that is about to queue it.
WithWorker(f)  == {w \in Workers : wpc[w] # "loop" /\ wfib[w] = f}
WithResumer(f) == {r \in Resumers : rpc[r] = "requeue" /\ rfib[r] = f}

\* A fiber is never in two places, so no stack is ever run by two workers and
\* no task is queued twice, however many Resume calls race with the park.
AtMostOnePlace ==
  \A f \in Fibers :
    /\ queue[f] <= 1
    /\ \A v, w \in WithWorker(f) : v = w
    /\ \A q, r \in WithResumer(f) : q = r
    /\ f \in pool => queue[f] = 0 /\ WithWorker(f) = {} /\ WithResumer(f) = {}
    /\ queue[f] > 0 => WithWorker(f) = {} /\ WithResumer(f) = {}
    /\ WithWorker(f) # {} => WithResumer(f) = {}

\* Only a SUSPENDED fiber is nowhere, and a SUSPENDED one is nowhere: no other
\* fiber is ever dropped, neither by the worker that was about to park it nor
\* by a Resume that lost its CAS.
NeverDropped ==
  \A f \in Fibers :
    status[f] = "SUSPENDED" <=>
      f \notin pool /\ queue[f] = 0 /\ WithWorker(f) = {} /\ WithResumer(f) = {}

\* A fiber can be picked up only after ContextSwitch has saved its registers:
\* the reason WANTS_SUSPEND and SUSPENDED are different states.
NeverRunUnsaved == \A f \in Fibers : queue[f] > 0 => f \in saved

\* What the status says about where the fiber is: together with the properties
\* above an inductive invariant of the life cycle.
WorkerStatus ==
  \A w \in Workers :
    wpc[w] # "loop" =>
      /\ wfib[w] \in Fibers
      /\ wpc[w] = "on" => status[wfib[w]] = "RUNNING"
      /\ wpc[w] \in {"leaving", "back"} =>
           status[wfib[w]] \in {"WANTS_YIELD", "WANTS_SUSPEND", "SUSPEND_SIGNALED", "DEAD"}
      /\ wpc[w] = "push" => status[wfib[w]] = "READY"
      /\ wpc[w] \in {"back", "push"} => wfib[w] \in saved

RestingStatus ==
  /\ \A f \in Fibers :
       /\ f \in pool => status[f] \in {"READY", "DEAD"}
       /\ queue[f] > 0 => status[f] = "READY"
       /\ status[f] = "SUSPENDED" => f \in saved
  /\ \A r \in Resumers :
       /\ rpc[r] # "idle" => rfib[r] \in Fibers
       /\ rpc[r] = "requeue" => status[rfib[r]] = "READY" /\ rfib[r] \in saved

FiberInv ==
  /\ FiberTypeOK /\ AtMostOnePlace /\ NeverDropped /\ NeverRunUnsaved
  /\ WorkerStatus /\ RestingStatus
=============================================================================
