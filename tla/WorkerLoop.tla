----------------------------- MODULE WorkerLoop -----------------------------
(***************************************************************************)
(* Thread::Worker with its sleep and wake-up, and the calls of             *)
(* TaskScheduler that hand it tasks: PushLocal, PushFork, PushToCore       *)
(* (PushImmediate), Requeue, TryRunStolenFastJob, Pause, Resume and Join.  *)
(*                                                                         *)
(* Deques and inboxes are sequences with atomic operations (TaskDeque and  *)
(* TaskMPSCQueue show why); the head of a deque is its top, where thieves  *)
(* steal.  workerMutex is only ever held by the worker itself (between the *)
(* test of its predicate and the block, pc "blocking") or for the empty    *)
(* section of NotifyWorker, so it needs no variable.  A running task       *)
(* pushes, yields, suspends and finishes as it likes.  What a fiber's park *)
(* and resume involve is the subject of Fiber, and when AcquireFiber fails *)
(* that of FiberPool; here each is one step.                               *)
(***************************************************************************)
EXTENDS Integers, FiniteSets, SequencesExt

CONSTANTS
  NumWorkers,
  Callers,     \* threads outside the pool
  Tasks,
  HiPri,       \* tasks with Task::hiPri
  Fast,        \* tasks with Task::fastJob
  Immediates,  \* tasks submitted with PushToCore
  Forked,      \* tasks submitted with PushFork
  Endless,     \* tasks that never return
  Pollers,     \* tasks that CoYield until every other task is done
  BatchSize,   \* BATCH_SIZE
  MaxNaps,     \* how often each task yields, suspends or is handed back at most
  MaxMisses,   \* how often each task is refused a fiber at most
  MaxPauses,   \* bound on the calls of Pause
  Mixes,       \* the sets of tasks a program submits: one is chosen at the start
  Controlled,  \* the mixes under which Pause, Resume and Join are called
  None

Workers == 0 .. NumWorkers - 1
Actors == Workers \cup Callers
Lanes == {"hi", "lo"}

\* A lone worker divides by zero in its victim choice (workers.size() - 1).
ASSUME PoolBounds ==
  /\ NumWorkers \in Nat /\ NumWorkers > 1 /\ BatchSize \in Nat \ {0}
  /\ MaxNaps \in [Tasks -> Nat] /\ MaxMisses \in [Tasks -> Nat] /\ MaxPauses \in Nat
ASSUME TaskKinds ==
  /\ HiPri \cup Fast \cup Immediates \cup Forked \cup Endless \cup Pollers \subseteq Tasks
  /\ Immediates \cap Forked = {} /\ Pollers \cap Fast = {} /\ None \notin Tasks
  /\ Mixes \subseteq SUBSET Tasks /\ Controlled \subseteq Mixes

VARIABLES
  inbox, deque,         \* per worker and lane
  hasQueuedWork, immediate, immediateTask, immediateCoresInUse, running,
  pc, taskToRun, isHandlingFork, batch,   \* locals of Thread::Worker
  push,                 \* the push call an actor is in
  phase, naps, parked,  \* of a task: absent, new, live, refused or done; naps taken; suspended
  assigned, misses,     \* tasks with an assignedFiber; how often one was refused
  pendingTasks,
  paused, pauses,
  ctl, toNotify, toJoin \* the thread in Pause, Resume or Join

queues     == <<inbox, deque>>
flags      == <<hasQueuedWork, immediate, immediateTask, immediateCoresInUse>>
locals     == <<taskToRun, isHandlingFork, batch>>
fibers     == <<assigned, misses>>
taskVars   == <<phase, naps, parked, fibers>>
ctlVars    == <<running, paused, pauses, ctl, toNotify, toJoin>>
vars == <<queues, flags, pc, locals, push, taskVars, pendingTasks, ctlVars>>

Idle == [at |-> "idle", task |-> None, to |-> 0, lane |-> "lo", new |-> FALSE]

Init ==
  /\ inbox = [w \in Workers |-> [l \in Lanes |-> << >>]] /\ deque = inbox
  /\ hasQueuedWork = [w \in Workers |-> FALSE]
  /\ immediate = [w \in Workers |-> FALSE]
  /\ immediateTask = [w \in Workers |-> None]
  /\ immediateCoresInUse = [w \in Workers |-> FALSE]
  /\ running = [w \in Workers |-> TRUE]
  /\ pc = [w \in Workers |-> "top"] /\ taskToRun = [w \in Workers |-> None]
  /\ isHandlingFork = [w \in Workers |-> FALSE]
  /\ batch = [w \in Workers |-> << >>]
  /\ push = [x \in Actors |-> Idle]
  /\ \E mix \in Mixes :
       phase = [t \in Tasks |-> IF t \in mix THEN "new" ELSE "absent"]
  /\ naps = [t \in Tasks |-> 0] /\ parked = {}
  /\ assigned = {} /\ misses = [t \in Tasks |-> 0]
  /\ pendingTasks = 0
  /\ paused = FALSE /\ pauses = 0
  /\ ctl = "idle" /\ toNotify = {} /\ toJoin = {}

\* The mix that was chosen.
Mix == {t \in Tasks : phase[t] # "absent"}

LaneOf(t) == IF t \in HiPri THEN "hi" ELSE "lo"
Set(f, x, v) == [f EXCEPT ![x] = v]
At(w, p) == pc' = Set(pc, w, p)

\* notify_one: a worker that is not blocked does not hear it.  Spurious
\* wake-ups are left out: no task may have to rely on one.
Wake(w) == pc' = IF pc[w] = "blocked" THEN Set(pc, w, "lock") ELSE pc

\* Mutant: NotifyWorker without its empty critical section.
NotifyUnlocked(w) == Wake(w)

\* Thread::NotifyWorker: its empty critical section cannot be entered while
\* the worker is between its test and its sleep.
NotifyWorker(w) == pc[w] # "blocking" /\ Wake(w)
-----------------------------------------------------------------------------
(* The push calls, by an outside thread or by the task a worker runs.      *)

\* Who can call: a thread that is in no other call.
CanCall(x) == push[x] = Idle /\ (x \notin Callers => pc[x] = "exec")
OnFiber(x) == x \notin Callers /\ taskToRun[x] \notin Fast
InCall(x, at) == push[x].at = at
Step(x, at) == push' = [push EXCEPT ![x].at = at]
Return(x) == push' = Set(push, x, Idle)
Start(x, call) == push' = Set(push, x, call)

Born(t) == phase[t] = "new" /\ phase' = Set(phase, t, "live") /\ UNCHANGED <<naps, parked, fibers>>

\* Push(task)
CallPush(x, t) ==
  /\ CanCall(x) /\ t \notin Immediates \cup Forked /\ Born(t) /\ ctl # "join"
  /\ Start(x, [Idle EXCEPT !.at = "pick", !.task = t, !.lane = LaneOf(t), !.new = TRUE])
  /\ UNCHANGED <<queues, flags, pc, locals, pendingTasks, ctlVars>>

\* Push(cpu_affinity, task): always the low-priority inbox of that worker
CallPushTo(x, t, w) ==
  /\ CanCall(x) /\ t \notin Immediates \cup Forked /\ Born(t) /\ ctl # "join"
  /\ Start(x, [Idle EXCEPT !.at = "check", !.task = t, !.to = w, !.new = TRUE])
  /\ UNCHANGED <<queues, flags, pc, locals, pendingTasks, ctlVars>>

\* PushFork: from a fiber the current worker, without flag or check.
CallPushFork(x, t, w) ==
  /\ CanCall(x) /\ t \in Forked /\ Born(t) /\ ctl # "join"
  /\ IF OnFiber(x) THEN w = x ELSE ~immediateCoresInUse[w]
  /\ Start(x, [Idle EXCEPT !.at = IF OnFiber(x) THEN "fork_count" ELSE "fork_set",
                           !.task = t, !.to = w, !.new = TRUE])
  /\ UNCHANGED <<queues, flags, pc, locals, pendingTasks, ctlVars>>

ForkSet(x) ==
  /\ InCall(x, "fork_set") /\ Step(x, "fork_count")
  /\ immediateCoresInUse' = Set(immediateCoresInUse, push[x].to, TRUE)
  /\ UNCHANGED <<queues, hasQueuedWork, immediate, immediateTask, pc, locals, taskVars,
                 pendingTasks, ctlVars>>

\* ... and then PushLocal(task, worker_id), whose affinity counts from 1.
ForkCount(x) ==
  /\ InCall(x, "fork_count") /\ pendingTasks' = pendingTasks + 1
  /\ IF push[x].to = 0
       THEN push' = [push EXCEPT ![x].at = "pick", ![x].lane = LaneOf(push[x].task)]
       ELSE push' = [push EXCEPT ![x].at = "check", ![x].to = @ - 1]
  /\ UNCHANGED <<queues, flags, pc, locals, taskVars, ctlVars>>

\* PushLocal with an affinity: false if that worker is in use.
CheckAffinity(x) ==
  /\ InCall(x, "check")
  /\ IF immediateCoresInUse[push[x].to]
       THEN /\ Return(x) /\ phase' = Set(phase, push[x].task, "refused")
            /\ UNCHANGED <<naps, parked, fibers>>
       ELSE Step(x, "put") /\ UNCHANGED taskVars
  /\ UNCHANGED <<queues, flags, pc, locals, pendingTasks, ctlVars>>

\* PickNextWorker until a worker is found that is not in use.  nextWorker is
\* read and written by all threads without a lock, so any worker may come up.
PickWorker(x, w) ==
  /\ InCall(x, "pick") /\ ~immediateCoresInUse[w]
  /\ push' = [push EXCEPT ![x].at = "put", ![x].to = w]
  /\ UNCHANGED <<queues, flags, pc, locals, taskVars, pendingTasks, ctlVars>>

\* Mutant: Requeue counts the task again.
PutInboxCounts(x) ==
  LET p == push[x] IN
  /\ InCall(x, "put") /\ inbox' = [inbox EXCEPT ![p.to][p.lane] = Append(@, p.task)]
  /\ Step(x, "count")
  /\ UNCHANGED <<deque, flags, pc, locals, taskVars, pendingTasks, ctlVars>>

\* Into the inbox; Requeue does not count the task again.
PutInbox(x) ==
  LET p == push[x] IN
  /\ InCall(x, "put") /\ inbox' = [inbox EXCEPT ![p.to][p.lane] = Append(@, p.task)]
  /\ Step(x, IF p.new THEN "count" ELSE "mark")
  /\ UNCHANGED <<deque, flags, pc, locals, taskVars, pendingTasks, ctlVars>>

CountTask(x) ==
  /\ InCall(x, "count") /\ pendingTasks' = pendingTasks + 1 /\ Step(x, "mark")
  /\ UNCHANGED <<queues, flags, pc, locals, taskVars, ctlVars>>

\* Mutant: a notify without the flag.
MarkForgotten(x) ==
  /\ InCall(x, "mark") /\ Step(x, "notify")
  /\ UNCHANGED <<queues, flags, pc, locals, taskVars, pendingTasks, ctlVars>>

MarkQueuedWork(x) ==
  /\ InCall(x, "mark") /\ hasQueuedWork' = Set(hasQueuedWork, push[x].to, TRUE)
  /\ Step(x, "notify")
  /\ UNCHANGED <<queues, immediate, immediateTask, immediateCoresInUse, pc, locals,
                 taskVars, pendingTasks, ctlVars>>

NotifyTarget(x) ==
  /\ InCall(x, "notify") /\ NotifyWorker(push[x].to) /\ Return(x)
  /\ UNCHANGED <<queues, flags, locals, taskVars, pendingTasks, ctlVars>>

\* PushToCore: the test of the flag (a core in use makes it return false) ...
CallPushToCore(x, t, w) ==
  /\ CanCall(x) /\ t \in Immediates /\ Born(t) /\ ctl # "join"
  /\ ~immediateCoresInUse[w]
  /\ Start(x, [Idle EXCEPT !.at = "core_set", !.task = t, !.to = w])
  /\ UNCHANGED <<queues, flags, pc, locals, pendingTasks, ctlVars>>

\* ... the store and the count ...
CoreSet(x) ==
  /\ InCall(x, "core_set") /\ Step(x, "core_task")
  /\ immediateCoresInUse' = Set(immediateCoresInUse, push[x].to, TRUE)
  /\ pendingTasks' = pendingTasks + 1
  /\ UNCHANGED <<queues, hasQueuedWork, immediate, immediateTask, pc, locals, taskVars,
                 ctlVars>>

\* ... and Thread::SetImmediateTask, with its own notify outside the lock.
CoreTask(x) ==
  /\ InCall(x, "core_task") /\ Step(x, "core_immediate")
  /\ immediateTask' = Set(immediateTask, push[x].to, push[x].task)
  /\ UNCHANGED <<queues, hasQueuedWork, immediate, immediateCoresInUse, pc, locals,
                 taskVars, pendingTasks, ctlVars>>

CoreImmediate(x) ==
  /\ InCall(x, "core_immediate") /\ Step(x, "notify")
  /\ immediate' = Set(immediate, push[x].to, TRUE) /\ Wake(push[x].to)
  /\ UNCHANGED <<queues, hasQueuedWork, immediateTask, immediateCoresInUse, locals,
                 taskVars, pendingTasks, ctlVars>>

\* Requeue, entered by whoever has the task in its hands.
StartRequeue(x, t) ==
  Start(x, [Idle EXCEPT !.at = "pick", !.task = t, !.lane = LaneOf(t)])

\* Fiber::Resume of a parked task, by the party that signals it.
ResumeTask(x, t) ==
  /\ CanCall(x) /\ t \in parked /\ parked' = parked \ {t} /\ StartRequeue(x, t)
  /\ UNCHANGED <<queues, flags, pc, locals, phase, naps, fibers, pendingTasks, ctlVars>>

\* TryRunStolenFastJob by a thread that is on no fiber, an outside one or a
\* worker in a fast job: run a fast job to its end, hand anything else back.
HelpSteal(x, v, l) ==
  LET t == Head(deque[v][l]) IN
  /\ ~OnFiber(x) /\ CanCall(x) /\ deque[v][l] # << >>
  /\ deque' = [deque EXCEPT ![v][l] = Tail(@)]
  /\ IF t \in Fast
       THEN Start(x, [Idle EXCEPT !.at = "help", !.task = t]) /\ UNCHANGED naps
       ELSE /\ naps[t] < MaxNaps[t] /\ naps' = [naps EXCEPT ![t] = @ + 1]
            /\ StartRequeue(x, t)
  /\ UNCHANGED <<inbox, flags, pc, locals, phase, parked, fibers, pendingTasks, ctlVars>>

CanFinish(t) ==
  /\ t \notin Endless
  /\ t \in Pollers => \A u \in Tasks \ Pollers : phase[u] # "live"

HelpFinish(x) ==
  LET t == push[x].task IN
  /\ InCall(x, "help") /\ CanFinish(t) /\ Return(x)
  /\ phase' = Set(phase, t, "done") /\ pendingTasks' = pendingTasks - 1
  /\ UNCHANGED <<queues, flags, pc, locals, naps, parked, fibers, ctlVars>>

\* The steps of a call in progress.
PushStep(x) ==
  \/ ForkSet(x) \/ ForkCount(x) \/ CheckAffinity(x)
  \/ \E w \in Workers : PickWorker(x, w)
  \/ PutInbox(x) \/ CountTask(x) \/ MarkQueuedWork(x) \/ NotifyTarget(x)
  \/ CoreSet(x) \/ CoreTask(x) \/ CoreImmediate(x) \/ HelpFinish(x)

Submit(x) ==
  \E t \in Tasks :
    \/ CallPush(x, t)
    \/ \E w \in Workers : CallPushTo(x, t, w) \/ CallPushFork(x, t, w) \/ CallPushToCore(x, t, w)
-----------------------------------------------------------------------------
(* Thread::Worker.  The worker's own code goes on when its push returned.  *)

WorkerAt(w, p) == pc[w] = p /\ push[w] = Idle

\* The head of the loop; the flag is cleared before the search.
LoopTop(w) ==
  /\ WorkerAt(w, "top")
  /\ IF running[w]
       THEN /\ hasQueuedWork' = Set(hasQueuedWork, w, FALSE)
            /\ At(w, IF taskToRun[w] = None THEN "immediate"
                     ELSE IF taskToRun[w] \in Fast \cup assigned THEN "exec" ELSE "fiber")
       ELSE At(w, "exit") /\ UNCHANGED hasQueuedWork
  /\ UNCHANGED <<queues, immediate, immediateTask, immediateCoresInUse, locals, push,
                 taskVars, pendingTasks, ctlVars>>

\* AcquireFiber for a task that has no fiber yet: it gets one ...
GetFiber(w) ==
  /\ WorkerAt(w, "fiber") /\ assigned' = assigned \cup {taskToRun[w]} /\ At(w, "exec")
  /\ UNCHANGED <<queues, flags, locals, push, phase, naps, parked, misses, pendingTasks,
                 ctlVars>>

\* ... or there is none, and the task goes back where it came from, an immediate
\* one into immediateTask and any other one into the deque.  task_to_run still
\* names it, so the worker tries again with it while the copy can be taken: by
\* a thief, or by this worker when it is through.  A copy of a task that has
\* ended names freed memory; here it runs once more, as it was.
NoFiber(w) ==
  LET t == taskToRun[w] IN
  /\ WorkerAt(w, "fiber") /\ misses[t] < MaxMisses[t]
  /\ misses' = [misses EXCEPT ![t] = @ + 1]
  /\ IF isHandlingFork[w]
       THEN immediateTask' = Set(immediateTask, w, t) /\ At(w, "reflag") /\ UNCHANGED deque
       ELSE /\ deque' = [deque EXCEPT ![w]["lo"] = Append(@, t)] /\ At(w, "top")
            /\ UNCHANGED immediateTask
  /\ UNCHANGED <<inbox, hasQueuedWork, immediate, immediateCoresInUse, locals, push, phase,
                 naps, parked, assigned, pendingTasks, ctlVars>>

Reflag(w) ==
  /\ WorkerAt(w, "reflag") /\ immediate' = Set(immediate, w, TRUE) /\ At(w, "top")
  /\ UNCHANGED <<queues, hasQueuedWork, immediateTask, immediateCoresInUse, locals, push,
                 taskVars, pendingTasks, ctlVars>>

\* 1. The task returned: it is destroyed and counted down.  The core is given
\* back for a PushFork task too (was_forked), on the worker where it ended.
TaskFinished(w) ==
  LET t == taskToRun[w] IN
  /\ WorkerAt(w, "exec") /\ CanFinish(t)
  /\ phase' = Set(phase, t, "done") /\ pendingTasks' = pendingTasks - 1
  /\ assigned' = assigned \ {t}
  /\ isHandlingFork' = Set(isHandlingFork, w, isHandlingFork[w] \/ t \in Forked)
  /\ At(w, "ran")
  /\ UNCHANGED <<queues, flags, taskToRun, batch, push, naps, parked, misses, ctlVars>>

\* The fiber yielded: to the bottom of the own low-priority deque.
TaskYielded(w) ==
  LET t == taskToRun[w] IN
  /\ WorkerAt(w, "exec") /\ t \notin Fast
  /\ t \notin Pollers => naps[t] < MaxNaps[t]
  /\ naps' = IF t \in Pollers THEN naps ELSE [naps EXCEPT ![t] = @ + 1]
  /\ deque' = [deque EXCEPT ![w]["lo"] = Append(@, t)] /\ At(w, "ran")
  /\ UNCHANGED <<inbox, flags, locals, push, phase, parked, fibers, pendingTasks, ctlVars>>

\* The fiber suspended and was parked ...
TaskParked(w) ==
  LET t == taskToRun[w] IN
  /\ WorkerAt(w, "exec") /\ t \notin Fast \cup Pollers /\ naps[t] < MaxNaps[t]
  /\ naps' = [naps EXCEPT ![t] = @ + 1] /\ parked' = parked \cup {t}
  /\ At(w, "ran")
  /\ UNCHANGED <<queues, flags, locals, push, phase, fibers, pendingTasks, ctlVars>>

\* ... or its signal was there first and the worker requeues it.
TaskSignalled(w) ==
  LET t == taskToRun[w] IN
  /\ WorkerAt(w, "exec") /\ t \notin Fast \cup Pollers /\ naps[t] < MaxNaps[t]
  /\ naps' = [naps EXCEPT ![t] = @ + 1] /\ StartRequeue(w, t)
  /\ At(w, "ran")
  /\ UNCHANGED <<queues, flags, locals, phase, parked, fibers, pendingTasks, ctlVars>>

\* Mutant: the core of an immediate task is not given back.
AfterRunKeepsCore(w) ==
  /\ WorkerAt(w, "ran")
  /\ isHandlingFork' = Set(isHandlingFork, w, FALSE)
  /\ taskToRun' = Set(taskToRun, w, None)
  /\ At(w, IF taskToRun[w] \in Fast THEN "top" ELSE "immediate")
  /\ UNCHANGED <<queues, flags, batch, push, taskVars, pendingTasks, ctlVars>>

\* The end of step 1: give the core back.  A fast job starts the next
\* iteration, a fiber goes on with step 2.
AfterRun(w) ==
  LET t == taskToRun[w] IN
  /\ WorkerAt(w, "ran")
  /\ immediateCoresInUse' =
       IF isHandlingFork[w] THEN Set(immediateCoresInUse, w, FALSE) ELSE immediateCoresInUse
  /\ isHandlingFork' = Set(isHandlingFork, w, FALSE)
  /\ taskToRun' = Set(taskToRun, w, None)
  /\ At(w, IF t \in Fast THEN "top" ELSE "immediate")
  /\ UNCHANGED <<queues, hasQueuedWork, immediate, immediateTask, batch, push, taskVars,
                 pendingTasks, ctlVars>>

\* 2. An immediate task is there: empty the inboxes first.
SeeImmediate(w) ==
  /\ WorkerAt(w, "immediate")
  /\ At(w, IF immediateTask[w] = None THEN "local" ELSE "drain_hi")
  /\ UNCHANGED <<queues, flags, locals, push, taskVars, pendingTasks, ctlVars>>

AtMost(s) == SubSeq(s, 1, IF Len(s) < BatchSize THEN Len(s) ELSE BatchSize)
Beyond(s) == SubSeq(s, BatchSize + 1, Len(s))

DrainInbox(w, l, here, next) ==
  /\ WorkerAt(w, here)
  /\ batch' = Set(batch, w, AtMost(inbox[w][l]))
  /\ inbox' = [inbox EXCEPT ![w][l] = Beyond(@)] /\ At(w, next)
  /\ UNCHANGED <<deque, flags, taskToRun, isHandlingFork, push, taskVars, pendingTasks,
                 ctlVars>>

\* Mutant: the batch popped from the inbox is forgotten.
RequeueBatchDrops(w, here, next) ==
  /\ WorkerAt(w, here) /\ At(w, next) /\ batch' = Set(batch, w, << >>)
  /\ UNCHANGED <<queues, flags, taskToRun, isHandlingFork, push, taskVars, pendingTasks,
                 ctlVars>>

\* One Requeue for each task of the batch.
RequeueBatch(w, here, next) ==
  /\ WorkerAt(w, here)
  /\ IF batch[w] = << >>
       THEN At(w, next) /\ UNCHANGED <<batch, push>>
       ELSE /\ StartRequeue(w, Head(batch[w])) /\ batch' = [batch EXCEPT ![w] = Tail(@)]
            /\ UNCHANGED pc
  /\ UNCHANGED <<queues, flags, taskToRun, isHandlingFork, taskVars, pendingTasks, ctlVars>>

DrainInboxes(w) ==
  \/ DrainInbox(w, "hi", "drain_hi", "requeue_hi")
  \/ RequeueBatch(w, "requeue_hi", "drain_lo")
  \/ DrainInbox(w, "lo", "drain_lo", "requeue_lo")
  \/ RequeueBatch(w, "requeue_lo", "take")

\* Three plain accesses: read the task, clear the pointer, clear the flag.
TakeImmediate(w) ==
  /\ WorkerAt(w, "take") /\ taskToRun' = Set(taskToRun, w, immediateTask[w])
  /\ At(w, "forget")
  /\ UNCHANGED <<queues, flags, isHandlingFork, batch, push, taskVars, pendingTasks, ctlVars>>

ForgetImmediate(w) ==
  /\ WorkerAt(w, "forget") /\ immediateTask' = Set(immediateTask, w, None)
  /\ At(w, "unflag")
  /\ UNCHANGED <<queues, hasQueuedWork, immediate, immediateCoresInUse, locals, push,
                 taskVars, pendingTasks, ctlVars>>

UnflagImmediate(w) ==
  /\ WorkerAt(w, "unflag") /\ immediate' = Set(immediate, w, FALSE)
  /\ isHandlingFork' = Set(isHandlingFork, w, TRUE) /\ At(w, "top")
  /\ UNCHANGED <<queues, hasQueuedWork, immediateTask, immediateCoresInUse, taskToRun, batch,
                 push, taskVars, pendingTasks, ctlVars>>

\* pop_bottom of lane l
PopBottom(w, l) ==
  /\ deque[w][l] # << >>
  /\ taskToRun' = Set(taskToRun, w, Last(deque[w][l]))
  /\ deque' = [deque EXCEPT ![w][l] = Front(@)] /\ At(w, "top")

\* 3. Own deques, high priority first.
PopLocal(w) ==
  /\ WorkerAt(w, "local")
  /\ \/ PopBottom(w, "hi")
     \/ deque[w]["hi"] = << >> /\ PopBottom(w, "lo")
     \/ /\ deque[w]["hi"] = << >> /\ deque[w]["lo"] = << >>
        /\ At(w, "steal") /\ UNCHANGED <<deque, taskToRun>>
  /\ UNCHANGED <<inbox, flags, isHandlingFork, batch, push, taskVars, pendingTasks, ctlVars>>

\* Mutant: the stolen task also stays with the victim.
StealCopies(w, v, l) ==
  /\ WorkerAt(w, "steal") /\ v # w /\ deque[v][l] # << >>
  /\ taskToRun' = Set(taskToRun, w, Head(deque[v][l])) /\ At(w, "top")
  /\ UNCHANGED <<queues, flags, isHandlingFork, batch, push, taskVars, pendingTasks, ctlVars>>

\* 4. Stealing.  Which victims are probed depends on topology and chance, and
\* a probe can lose its CAS: any task may be stolen and any round may miss.
Steal(w, v, l) ==
  /\ WorkerAt(w, "steal") /\ v # w /\ deque[v][l] # << >>
  /\ taskToRun' = Set(taskToRun, w, Head(deque[v][l]))
  /\ deque' = [deque EXCEPT ![v][l] = Tail(@)] /\ At(w, "top")
  /\ UNCHANGED <<inbox, flags, isHandlingFork, batch, push, taskVars, pendingTasks, ctlVars>>

StealMiss(w) ==
  /\ WorkerAt(w, "steal") /\ At(w, "inbox_hi")
  /\ UNCHANGED <<queues, flags, locals, push, taskVars, pendingTasks, ctlVars>>

\* 5. Own inboxes: a batch into the deque, then pop one.
PullInbox(w, l, here, found, next) ==
  /\ WorkerAt(w, here)
  /\ deque' = [deque EXCEPT ![w][l] = @ \o AtMost(inbox[w][l])]
  /\ inbox' = [inbox EXCEPT ![w][l] = Beyond(@)]
  /\ At(w, IF inbox[w][l] = << >> THEN next ELSE found)
  /\ UNCHANGED <<flags, locals, push, taskVars, pendingTasks, ctlVars>>

PopPulled(w, l, here, next) ==
  /\ WorkerAt(w, here)
  /\ \/ PopBottom(w, l)
     \/ deque[w][l] = << >> /\ At(w, next) /\ UNCHANGED <<deque, taskToRun>>
  /\ UNCHANGED <<inbox, flags, isHandlingFork, batch, push, taskVars, pendingTasks, ctlVars>>

PullInboxes(w) ==
  \/ PullInbox(w, "hi", "inbox_hi", "pulled_hi", "inbox_lo")
  \/ PopPulled(w, "hi", "pulled_hi", "inbox_lo")
  \/ PullInbox(w, "lo", "inbox_lo", "pulled_lo", "lock")
  \/ PopPulled(w, "lo", "pulled_lo", "lock")

\* Mutant: the predicate does not look at running.
HasReasonNoStop(w) == immediate[w] \/ (~paused /\ hasQueuedWork[w])

\* The predicate of cv.wait.
HasReason(w) ==
  \/ ~running[w] \/ immediate[w]
  \/ ~paused /\ hasQueuedWork[w]

\* cv.wait with workerMutex: test; with no reason to go on, block.
TestSleep(w) ==
  /\ WorkerAt(w, "lock")
  /\ At(w, CASE ~HasReason(w) -> "blocking" [] ~running[w] -> "exit" [] OTHER -> "top")
  /\ UNCHANGED <<queues, flags, locals, push, taskVars, pendingTasks, ctlVars>>

Block(w) ==
  /\ WorkerAt(w, "blocking") /\ At(w, "blocked")
  /\ UNCHANGED <<queues, flags, locals, push, taskVars, pendingTasks, ctlVars>>

WorkerCode(w) ==
  \/ LoopTop(w) \/ GetFiber(w) \/ NoFiber(w) \/ Reflag(w)
  \/ TaskFinished(w) \/ TaskYielded(w) \/ TaskParked(w) \/ TaskSignalled(w)
  \/ AfterRun(w) \/ SeeImmediate(w) \/ DrainInboxes(w)
  \/ TakeImmediate(w) \/ ForgetImmediate(w) \/ UnflagImmediate(w)
  \/ PopLocal(w) \/ StealMiss(w) \/ \E v \in Workers, l \in Lanes : Steal(w, v, l)
  \/ PullInboxes(w) \/ TestSleep(w) \/ Block(w)
-----------------------------------------------------------------------------
(* Pause, Resume and Join, by the thread that owns the scheduler.          *)

Pause ==
  /\ ctl = "idle" /\ ~paused /\ pauses < MaxPauses /\ Mix \in Controlled
  /\ paused' = TRUE /\ pauses' = pauses + 1
  /\ UNCHANGED <<queues, flags, pc, locals, push, taskVars, pendingTasks, running, ctl,
                 toNotify, toJoin>>

\* Mutant: Resume without NotifyAll.
ResumeSilent ==
  /\ ctl = "idle" /\ paused /\ paused' = FALSE
  /\ UNCHANGED <<queues, flags, pc, locals, push, taskVars, pendingTasks, running, pauses,
                 ctl, toNotify, toJoin>>

Resume ==
  /\ ctl = "idle" /\ paused /\ paused' = FALSE
  /\ ctl' = "resume" /\ toNotify' = Workers
  /\ UNCHANGED <<queues, flags, pc, locals, push, taskVars, pendingTasks, running, pauses,
                 toJoin>>

Join ==
  /\ ctl = "idle" /\ Mix \in Controlled
  /\ ctl' = "join" /\ toNotify' = Workers /\ toJoin' = Workers
  /\ UNCHANGED <<queues, flags, pc, locals, push, taskVars, pendingTasks, running, paused,
                 pauses>>

\* NotifyAll, for Resume and at the start of Join
NotifyAll(w) ==
  /\ ctl \in {"resume", "join"} /\ w \in toNotify /\ NotifyWorker(w)
  /\ toNotify' = toNotify \ {w}
  /\ ctl' = IF ctl = "resume" /\ toNotify' = {} THEN "idle" ELSE ctl
  /\ UNCHANGED <<queues, flags, locals, push, taskVars, pendingTasks, running, paused, pauses,
                 toJoin>>

\* Thread::Join of one worker after the other: running, NotifyWorker, join.
JoinWorker(w) ==
  /\ ctl = "join" /\ toNotify = {} /\ w \in toJoin /\ running[w]
  /\ \A v \in Workers \ {w} : running[v] \/ v \notin toJoin
  /\ running' = Set(running, w, FALSE) /\ toNotify' = {w}
  /\ UNCHANGED <<queues, flags, pc, locals, push, taskVars, pendingTasks, paused, pauses,
                 ctl, toJoin>>

Joined(w) ==
  /\ ctl = "join" /\ toNotify = {} /\ ~running[w] /\ w \in toJoin /\ pc[w] = "exit"
  /\ toJoin' = toJoin \ {w} /\ ctl' = IF toJoin' = {} THEN "joined" ELSE ctl
  /\ UNCHANGED <<queues, flags, pc, locals, push, taskVars, pendingTasks, running, paused,
                 pauses, toNotify>>

Control == Resume \/ \E w \in Workers : NotifyAll(w) \/ JoinWorker(w) \/ Joined(w)
-----------------------------------------------------------------------------
Next ==
  \/ \E x \in Actors :
       \/ Submit(x) \/ PushStep(x)
       \/ \E t \in Tasks : ResumeTask(x, t)
       \/ \E v \in Workers, l \in Lanes : HelpSteal(x, v, l)
  \/ \E w \in Workers : WorkerCode(w)
  \/ Control \/ Pause \/ Join

\* Every thread is scheduled: a worker, in its own code or in a call that its
\* task made, and a thread outside the pool in a call of its own.  What was
\* parked is signalled, and what was paused is resumed.  Nothing is assumed of
\* who steals.
Spec ==
  /\ Init /\ [][Next]_vars
  /\ \A w \in Workers : WF_vars(PushStep(w) \/ WorkerCode(w))
  /\ \A x \in Callers : WF_vars(PushStep(x))
  /\ WF_vars(\E x \in Callers, t \in Tasks : ResumeTask(x, t))
  /\ WF_vars(Control)
-----------------------------------------------------------------------------
(* Properties.                                                             *)

TypeOK ==
  /\ \A w \in Workers, l \in Lanes : inbox[w][l] \in Seq(Tasks) /\ deque[w][l] \in Seq(Tasks)
  /\ hasQueuedWork \in [Workers -> BOOLEAN] /\ immediate \in [Workers -> BOOLEAN]
  /\ immediateCoresInUse \in [Workers -> BOOLEAN] /\ running \in [Workers -> BOOLEAN]
  /\ immediateTask \in [Workers -> Tasks \cup {None}]
  /\ taskToRun \in [Workers -> Tasks \cup {None}]
  /\ isHandlingFork \in [Workers -> BOOLEAN] /\ \A w \in Workers : batch[w] \in Seq(Tasks)
  /\ phase \in [Tasks -> {"absent", "new", "live", "refused", "done"}] /\ naps \in [Tasks -> Nat]
  /\ parked \subseteq Tasks /\ pendingTasks \in Int /\ paused \in BOOLEAN
  /\ assigned \subseteq Tasks \ Fast /\ misses \in [Tasks -> Nat]
  /\ \A w \in Workers : pc[w] \in {"fiber", "reflag", "exec", "ran"} => taskToRun[w] # None

\* A worker that sleeps, or has decided to, has nothing to do, or somebody who
\* gave it something is still on the way to notify it.  Inboxes are drained by
\* their owner only, so a wake-up lost here strands a task.
NoLostWakeup ==
  \A w \in Workers :
    pc[w] \in {"blocking", "blocked"} =>
      \/ \A l \in Lanes : inbox[w][l] = << >> /\ deque[w][l] = << >>
         /\ immediateTask[w] = None /\ running[w]
      \/ paused
      \/ w \in toNotify
      \/ \E x \in Actors :
           push[x].to = w /\ push[x].at \in {"count", "mark", "notify", "core_immediate"}

\* Where a task is.
Occurrences(t, s) == {i \in DOMAIN s : s[i] = t}
BeforePut == {"pick", "check", "put", "fork_set", "fork_count", "core_set", "core_task", "help"}
Places(t) ==
  (UNION {{<<w, l, "inbox", i>> : i \in Occurrences(t, inbox[w][l])} : w \in Workers, l \in Lanes})
  \cup (UNION {{<<w, l, "deque", i>> : i \in Occurrences(t, deque[w][l])} : w \in Workers, l \in Lanes})
  \cup (UNION {{<<w, "-", "batch", i>> : i \in Occurrences(t, batch[w])} : w \in Workers})
  \cup {<<w, "-", "run", 0>> : w \in {v \in Workers : taskToRun[v] = t /\ pc[v] # "ran"}}
  \cup {<<w, "-", "immediate", 0>> :
          w \in {v \in Workers : immediateTask[v] = t /\ pc[v] # "forget"}}
  \cup {<<x, "-", "push", 0>> : x \in {y \in Actors : push[y].task = t /\ push[y].at \in BeforePut}}
  \cup (IF t \in parked THEN {<<None, "-", "parked", 0>>} ELSE {})

\* No worker was refused a fiber so far.
NoMisses == \A t \in Tasks : misses[t] = 0

\* A task that was accepted is in exactly one place until it has run: through
\* inbox, drain, deque, steal, yield, park and requeue it is neither lost nor
\* duplicated, and a finished one (its memory is freed) is nowhere.  Where the
\* worker found no fiber (Thread.cpp:216-232) each refusal leaves one copy more
\* and none is lost: RunsOnce shows what comes of the copies.  Tasks are lost
\* where two PushToCore race for a core, where a fork meets one, and where one
\* follows an immediate task that was refused its fiber; the programs checked
\* have one caller and keep these apart.
EachTaskOnce ==
  \A t \in Mix :
    LET live   == IF phase[t] = "live" THEN 1 ELSE 0
        places == Cardinality(Places(t))
    IN  live <= places /\ places <= live + misses[t]

\* "A regular task goes back on the local deque to be retried or stolen"
\* (Thread.cpp:222): a task that a worker executes is alive, and no other worker
\* executes it.
RunsOnce ==
  \A w \in Workers : pc[w] = "exec" =>
    /\ phase[taskToRun[w]] = "live"
    /\ \A v \in Workers \ {w} : pc[v] = "exec" => taskToRun[v] # taskToRun[w]

\* Requeue, steals, drains and yields leave pendingTasks alone: with no call in
\* progress it is the number of accepted tasks that have not finished.  PushFork
\* counts its task twice, and a copy that a refused fiber left counts its task
\* down again, so this speaks of programs that do not fork and until a refusal.
Calm == \A x \in Actors : push[x] = Idle
PendingBalanced ==
  Calm /\ NoMisses /\ Mix \cap Forked = {} =>
    pendingTasks = Cardinality({t \in Tasks : phase[t] = "live"})

\* A core that was reserved is given back: with no call in progress and no
\* immediate task left no core is marked as in use, so none is shut out of
\* PickNextWorker for good.  (PushFork marks one core and runs on another.)
CoresGivenBack ==
  /\ Calm /\ Mix \cap Forked = {} /\ \A t \in Immediates : phase[t] # "live"
  /\ \A w \in Workers : pc[w] # "ran"
  => \A w \in Workers : ~immediateCoresInUse[w]

\* Every accepted task runs to its end (unless the pool is shut down): while a
\* task is live the pool works towards the moment when none is.
Unfinished == {t \in Tasks \ Endless : phase[t] = "live"}
EveryTaskRuns == Unfinished # {} ~> Unfinished = {} \/ ctl \in {"join", "joined"}

\* Join comes back: every worker is woken, leaves its loop and is joined.
JoinReturns == ctl = "join" ~> ctl = "joined"
=============================================================================
