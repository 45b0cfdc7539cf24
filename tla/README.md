# A formal model of JGL-Scheduler

JGL-Scheduler runs small tasks on a pool of worker threads. Fast jobs run on the
worker's own stack, other tasks on fibers that can yield, suspend and resume on
another worker. This directory holds TLA+ models of the parts in which threads
meet, TLC configurations that check them on small instances, and TLAPS proofs of
what matters most. Paths are relative to the repository (`src/...` is the C++
code, `include/...` its headers).

## 1. Inventory

| Part | State | Operations | What makes it correct |
|---|---|---|---|
| `TaskDeque` (include/TaskDeque.h) | `top_`, `bottom_`, a ring of slots | owner: `push_bottom`, `push_bottom_batch`, `pop_bottom`; anyone: `steal` | a task is claimed by exactly one thread, none is lost, indices do not wrap |
| `TaskMPSCQueue` (include/TaskMPSCQueue.h) | intrusive list `head_`, `tail_`, `stub_` | `push`, `push_batch`, `pop` | FIFO in the order of the exchanges; everything pushed is popped |
| Fiber life cycle (src/Fiber.cpp, src/Thread.cpp) | `Fiber::status`, the saved context | `CoYield`, `Suspend`, `Resume`, switch in, park | queued at most once, never dropped, never run before its context is saved |
| `DirectEvent`, `EventPool` (include/DirectEvent.h) | `waiter`, free events | `WaitOnEventDirectArmed`, `Signal` | every wait ends, and by its own signal |
| Named events (include/Event.h) | `waiters` of each name | `WaitOnEvent`, `WaitOnEventArmed`, `Signal`, `SignalAll` | no lost wake-up, and no registration outlives its wait |
| `WaitGroup` (include/Task.h, src/Task.cpp) | counter and waiter bit in `n`, `waiters` | `RunCounted`, completion, `WakeAll`, `WaitFor`, `WaitForMain` | all waiters wake, none before the counter was zero |
| `SchedulerMutex` (src/TaskScheduler.cpp) | `locked`, `lockHolder`, `waitingFibers` | `Lock`, `Try_Lock`, `Unlock` | mutual exclusion, and every `Lock` returns |
| `SchedulerSemaphore`, `SchedulerConditionVariable` | permits, queue of fibers, queue of semaphores | `Wait`, `Try_Wait`, `Signal`, `Notify_One`, `Notify_All` | permits are conserved, a semaphore on a stack is not used after its frame |
| Worker loop (src/Thread.cpp) | deques, inboxes, `hasQueuedWork`, `immediate`, `immediateTask` | `Worker`, `NotifyWorker`, `SetImmediateTask`, `Join` | no worker sleeps on work; a task is in one place |
| Submission (src/TaskScheduler.cpp) | `immediateCoresInUse`, `pendingTasks`, `paused` | `Push`, `PushFork`, `PushImmediate`, `Requeue`, `TryRunStolenFastJob`, `Pause`, `Resume`, `Join`, `WaitAll` | accepted tasks run; the count is right; reserved cores are given back |
| Fiber pool (`GlobalFiberPool`, `ThreadLocalCache`, `FiberStackArena`) | free fibers, per-thread caches, two arenas | `AcquireFiber`, `ReleaseFiber`, refill, spill | a fiber has one owner and its stack no other; a worker does not go without because others hoard |
| `TaskAllocator` | slab, shared list, per-thread caches | `Alloc`, `Free`, `refill`, `flush` | a slot has one owner, none is lost |
| `EpochManager` (include/Epochs.h) | global epoch, slots, retired pointers | `EpochGuard`, `RetirePtr`, `Tick`, `TryReclaim` | nothing is freed that a reader can reach |
| `LockFreeList` | marked next pointers | `add`, `remove`, `contains`, `for_each` | stands for the right set; every call returns |
| `TaskDAG`, `TaskNode` | counters, gates, dependents | `AddDependency`, `Submit`, `Fire`, completion | cyclic graphs are refused; a node fires once, after its dependencies; all do |
| `ParallelFor*` | the frame of the caller: `func`, `rec`, `wg` | cutting a range, spawning, waiting | `func` is called once for every index before a blocking call returns |
| Main queue | `mainQ` | `PushMain`, `ProcessMainThread` | as the inboxes |
| Start-up, topology | thread ids, epoch slots, `siblingQIndex`, `clusterMates` | `Init`, `StartPool`, `StartWorker`, `BuildTopology` | ids fit the slots; siblings and clusters are those of the hardware |
| Context switch, stacks | registers, stack memory | `ContextSwitch` | below the level of these models |
| moodycamel queues | | | third party |

How they interact: a push goes to the *inbox* of one worker, which only that
worker drains, into its own deque; from there tasks are popped or stolen. A push
sets `hasQueuedWork` of that worker and notifies it. A fiber that waits is in no
queue until `Resume` puts its task into an inbox again (`Requeue`). Events, wait
groups, the mutex, the semaphore and the condition variable all end in `Resume`.
`PushImmediate` bypasses the queues with a per-worker slot and a per-core flag
`immediateCoresInUse`. Tasks, DAG nodes and list cells are slots of one
`TaskAllocator`; nodes and cells go back to it through the `EpochManager`.

The hard behaviour is concurrency: nearly all shared state is atomics or plain
fields, used by workers, outside threads and external signallers. Nothing is
persistent, there are no messages or timeouts. `PROJECT.json` lists the hazards
with their lines.

## 2. Modules

| Module | Models | Role |
|---|---|---|
| `TaskBag` | what a deque promises: a set from which every task is taken once | abstract specification |
| `TaskDeque` | include/TaskDeque.h, one access to `top_`, `bottom_` or a slot per step | implements `TaskBag` |
| `TaskMPSCQueue` | include/TaskMPSCQueue.h, one access to `head_` or a `next` per step | |
| `TaskQueueProofs` | | theorems about `TaskDeque` and `TaskMPSCQueue` |
| `Fiber` | status changes of a fiber, by its own code, the worker and resumers | base of the next five |
| `FiberProofs` | | theorems about `Fiber` |
| `EventWait` | `WaitOnEventDirectArmed`, `DirectEvent`, `EventPool` | extends `Fiber` |
| `NamedEvent` | `Event`, `WaitOnEvent`, `WaitOnEventArmed`, bare `Suspend` and `Resume` | extends `EventWait` |
| `NamedEventProofs` | | theorems about `EventWait` and `NamedEvent` |
| `WaitGroup` | the group, its waiters and completers | extends `Fiber` |
| `WaitGroupProofs` | | theorems about `WaitGroup` |
| `SchedulerMutex` | `Lock`, `Try_Lock`, `Unlock` | extends `Fiber` |
| `SchedulerSync` | semaphore and condition variable | extends `SchedulerMutex` |
| `SchedulerSyncProofs` | | theorems about `SchedulerMutex` and `SchedulerSync` |
| `WorkerLoop` | `Thread::Worker` with submission, refused fibers, pause and shutdown | |
| `WorkerLoopProofs` | | theorems about `WorkerLoop` |
| `Epochs` | include/Epochs.h | base of the next two |
| `LockFreeList` | include/LockFreeList.h, one access to a next pointer per step | extends `Epochs` |
| `TaskDAG` | src/TaskDAG.cpp, TaskNode, the main queue | extends `Epochs` |
| `TaskDAGProofs` | | theorems about `TaskDAG` and `Epochs` |
| `FiberPool` | global pool, caches, arenas, acquire and release | |
| `StartPool` | `Init`, `StartPool`, `StartWorker`, `BuildTopology` | extends `FiberPool` |
| `TaskAllocator` | include/TaskAllocator.h | |
| `ParallelFor` | the three parallel loops with `CreateTask` | extends `TaskAllocator` |
| `PoolProofs` | | theorems about `TaskAllocator`, `ParallelFor`, `FiberPool` and `StartPool` |
| `MC*` | the constants of the runs' instances; `MCPools` puts `StartPool` and `ParallelFor` side by side | |

Correspondence. A program counter (`opc`, `tpc`, `cpc`, `wpc`, `fat`, `pc`, `at`,
`push[x].at`) says where a thread is between two shared accesses; accesses to
locals are part of the neighbouring step. The variables carry the names of the
fields they stand for. Definitions marked `Mutant:` are plausible bugs; they are
never part of `Next`, and show that each property notices something.

* `TaskDeque`: `ob`, `oend`, `oitems` and `tt`, `titem` are the locals of the
  owner and of the thieves. `push_bottom` is a batch of one. `held` is the
  environment: tasks in nobody's deque, which may be pushed (again).
* `TaskMPSCQueue`: `order` and `overlap` are history variables: the order of the
  exchanges, and whether a push overlapped the current `pop`.
* `Fiber`: a fiber stands for its task; all run queues are one multiset `queue`.
  In `FiberSpec` every resumer may resume every fiber at any time, which is more
  than any client does. The modules that extend it say who resumes when;
  `UsesFiberLifeCycle` (`WaitGroup`) and the theorems `SyncUsesFibers` and
  `EventsUseFibers` show that such a client does nothing else with a fiber, so that the
  theorems of `FiberProofs` hold in it. A task enters with the fiber it was given at the
  first attempt; `Fiber` and its clients say nothing about one that was refused before,
  whose second copy (`WorkerLoop`, section 4) could put a fiber in two places.
* `EventWait`, `NamedEvent`: the steps of the waits in their order; the armed party
  signals `Copies` times per direct wait, a plain `WaitOnEvent` has no armed party.
  `SignalAll` empties the set in one step and resumes its members one by one.
  `fired` is a history variable. The plan of a behaviour says which calls it makes.
* `WaitGroup`: `n` is `count` and `bit`. A completer is any of the four places
  that count a task down. `seenZero` is a history variable. `mtx` is explicit only
  where it is held across a `Resume`.
* `SchedulerMutex`, `SchedulerSync`: a section under `spinLock`, `holderLock` or the
  queue lock touches nothing else that is shared and is one step. `Spinners` are
  callers without a fiber. The semaphore of a wait on the condition variable is
  named by the fiber on whose stack it lives.
* `WorkerLoop`: deques and inboxes are sequences with atomic operations (the two
  queue modules justify that: a deque is a bag that loses nothing, and a `pop` that
  misses a push in flight is followed by that push's own mark and notify). Pushing,
  counting, marking and notifying are separate steps. Parking and resuming a fiber
  are one step each (`Fiber` has the detail). Which victims a thief probes is left
  open: any steal may happen, any round may miss. `nextWorker` is shared without a
  lock, so any worker may be picked that is not in use. A refused push is not
  tried again. Clients do not push while `Join` runs. A task that is not fast and not in
  `assigned` (its `assignedFiber` is null) needs a fiber first: `GetFiber`, or `NoFiber`
  with `Reflag`, which puts the task back and keeps it in `taskToRun` as src/Thread.cpp:216-232
  does. Whether the pool has a fiber is left open; `misses` counts the refusals of a
  task. A copy that outlives its task runs once more in the model; in the code it is
  freed memory. `was_forked` is folded into `isHandlingFork` between the end of a task and
  `AfterRun`. Outside threads and workers inside a fast job may help (`HelpSteal`), fibers
  may not.
* `Epochs`: entering a guard is two steps, reading the epoch and storing it;
  `MinActiveEpoch` reads one slot per step. A `Tick` follows a completed operation
  when more than `ReclaimAbove` pointers are retired (512 in the code).
* `LockFreeList`: `seen`, `entry`, `added` and `removed` are history variables.
  The step that marks a cell is the moment a key leaves the set.
* `TaskDAG`: `stack` holds the nested calls of `OnTaskFinished` that gates cause;
  `todo` is what is left of a dependents list. `ReclaimWithOr` says whether
  anything is freed while the graph has an OR gate with several predecessors.
* `FiberPool`: the concurrent queue is a bag, the order of which is fixed because
  fibers only differ in their stacks. `stolen` and `returned` are how far a refill
  or a spill has got.
* `StartPool`: a machine is what the operating system reports. `caches` are the
  masks that `GetGroupMasksForRelation` returns.
* `ParallelFor`: pushed tasks are a bag; a worker or the waiting caller takes one.
  `runs` counts the calls of `func` per index, `lost` the indices `ParallelForNB`
  drops.

Sequential consistency is assumed throughout. The code uses release/acquire
with seq_cst fences in `pop_bottom` and `steal`; that these suffice is not shown.
The relaxed clear of `hasQueuedWork` relies on the fence of `steal` to come before
the reads of the inboxes, and `EpochGuard` enters with a release store, which the
processor may let pass the reads that follow it. Plain fields that race
(`immediateTask`) are read and written whole, as aligned pointers are on x64.
Indices of the deque are naturals: 64 bits do not wrap in the life of a process.
Spurious wake-ups are left out because no task may have to rely on one.

## 3. Runs

| Run | Instance | Result |
|---|---|---|
| `TaskDeque` | 3 tasks, 2 thieves, ring of 2, batches of up to 2, indices up to 5 | passes, 177 695 states |
| `TaskMPSCQueue` | 3 tasks, 2 producers, 4 pushes | passes, 182 132 |
| `EventWait` | 2 fibers, 2 workers, 2 signallers, 2 pooled events and 1 name, four plans | passes, about 450 000 |
| `WaitGroup` | 2 fibers, 2 completers, 1 plain thread, 2 tasks, 2 waits each | passes, 117 750 |
| `SchedulerSync` | 2 fibers, 1 spinner, one mutex, condition variable and semaphore | passes, about 216 000 |
| `WorkerLoop` | 2 workers, 1 caller, five programs | passes, about 293 000 |
| `LockFreeList` | 3 threads, 3 programs of add, remove and walks, 2 epoch steps | passes, about 324 000 |
| `TaskDAG` | every graph of up to 3 nodes of 4 kinds and 3 edges, 2 threads | passes, about 283 000 |
| `Pools` | start-up: 7 machines, 3 requested sizes, tasks on one of them; loops: caller and 2 workers, 4 slots, 3 programs | passes, about 494 000 |
| `SchedulerMutexLost`, `TaskDAGOr`, `WorkerLoopNoFiber` | see section 4 | violated |

What they show:

* `TaskDeque`: `NoDoubleClaim` (owner and thieves never both get a task) and
  `RefinesTaskBag`. A ring of two and indices up to five let every slot be reused
  while a thief still holds an old `t` or an old item.
* `TaskMPSCQueue`: `PopReturnsFront`, `EmptyIsHonest`, `EverythingPopped`. Four
  pushes of three tasks make the stub travel through the queue and tasks come back.
* `EventWait`: `AtMostOnePlace` and `NeverRunUnsaved` of the fiber life cycle under
  waits, yields, bare suspensions and racing `Resume` calls; `WokenByOwnSignal`;
  `RegisteredIsWaiting` (a woken fiber is in no event's set and in no signaller's
  list); `WaitEnds` for every wait somebody was armed for. The four plans mix the
  calls differently; three direct waits over two events reuse an event.
* `WaitGroup`: `NoLostWakeup` (`Resume` meets only fibers it can resume, and a sleeping
  fiber is registered with work outstanding, or somebody is about to wake it),
  `WaitedUntilZero`, `AllWaitersWake`, `UsesFiberLifeCycle`.
* `SchedulerSync`: `MutualExclusion` and `GrantedNotQueued` through hand-over,
  barging and the relock after a wait; `PermitsConserved` (a permit handed to a
  sleeping fiber counts once); `HandlesAlive`. Liveness is absent on purpose:
  semaphore and mutex lose wake-ups (section 4).
* `WorkerLoop`: `NoLostWakeup` (a worker that sleeps, or has decided to, has
  nothing to do, or somebody is on the way to notify it), `EachTaskOnce` (through
  inbox, drain, deque, steal, yield, park and requeue a task is in one place, plus one
  for each time it was refused a fiber), `PendingBalanced`, `CoresGivenBack`,
  `EveryTaskRuns`, `JoinReturns`. The programs: a fiber task and a forked fast job of
  high priority; a fiber task that naps; one fast job under `Pause`, `Resume` and `Join`; a
  fiber task that is refused a fiber once, and an immediate task; an immediate task that is
  refused one. The invariants also hold for the larger mixes `{b, i}` (a task that
  naps next to an immediate one) and `{j, k}`, which would make the temporal check too long.
* `LockFreeList`: `SetIsExact` (a reported `add` stays until a `remove` marks it),
  `GuardProtects`, `WalksAreHonest` (a walk sees every key that was there all the
  time, and none that was gone before), `CallsReturn`. The programs remove a key
  while others add behind it, add the same key twice, and walk across both.
* `TaskDAG`: `SubmitVerdict` (against the existence of a topological order),
  `FiresInOrder`, `OnceEach`, `NoUseAfterFree`, `EverythingRuns`. All graphs are
  enumerated: cyclic ones, double edges, chains of gates, main nodes.
* `Pools`, on start-up: `ThreadIdsValid`, `TopologySound` (a sibling is the one other worker
  of a core and the relation is symmetric, mates are those of a largest cache
  group, and every worker is somebody's victim), `FiberOwnedOnce` (and disjoint
  stacks, and no overrun cache), `AcquireFailsWhenBusy` (a worker goes without a
  fiber only if those in use and the full caches of the others account for all).
  On the parallel loops: `ReturnsComplete` (each index once, and no task left that could use
  the dead frame), `SlotOwnedOnce` (exactly one place for every slot, and `liveCount`
  counts those in use), `Completes`. Four slots and batches of one make `Alloc` fail,
  refill and flush in every program. A behaviour is about one of the two, which share no
  state: those with the empty program start the pool, the others run their program.

Bounds, all named constants: `MaxIndex`, `MaxBatch`, `MaxChain`, `MaxPushes`,
`MaxUses` and the plans' `uses`, `MaxTasks`, `MaxRounds`, `MaxLocks`, `MaxNaps` (how
often a task yields, suspends or is handed back by a helper), `MaxMisses` (how often
it is refused a fiber; one refusal makes the copy, and the code lets a second one
make another), `MaxPauses`, `BatchSize` (64 in the code), `MaxEpoch`,
`ReclaimAbove`, `MaxEdges`, `MaxKey`, `InlineMax` (10000 in the code), `BATCH` (32),
the capacities of caches, `load`. In the passing `WorkerLoop` run `BatchSize` is as
large as an inbox can get; section 4 has a smaller one. One step of the epoch is
enough to free what was retired before it, two let a reader stay behind.
`CHECK_DEADLOCK FALSE` stands where the clients are bounded, or where the pool may
be stopped, and the system then rests.

Fairness: weak fairness for every thread as a whole (the OS schedules it; what it
does next is its own code), for the party that was armed or has to resume a
parked task (the client's duty), and for `Resume` of a paused pool. A task that is
not listed as endless returns, a task gets a fiber after finitely many refusals
(src/Thread.cpp:217: "fibers are in use and will free up"), and a critical section ends. The mutex assumes
strong fairness of `LockFree`: a spinner looks again and again and gets a free
lock in the end; `Lock` itself does not guarantee it. `CallsReturn` needs nothing
else: a retry of the list means that another thread has succeeded, and the programs
are finite. Nothing is assumed about which queued fiber a worker takes, who steals,
or which worker is picked.

## 4. Disagreements between code and comments

Shown by runs:

* `SchedulerMutexLost`: `SchedulerMutex::Lock` puts the fiber into `waitingFibers`
  and releases `spinLock` before it becomes parkable. An `Unlock` in between hands
  it the lock and resumes a RUNNING fiber, which does nothing; then it parks, for
  ever, owning the lock. The comment at src/TaskScheduler.cpp:575-576 describes
  this very mistake. `SchedulerSemaphore::Wait` (949-953) has the same order.
* `TaskDAGOr`: an OR gate is retired when its first predecessor has made it fire.
  A predecessor that finishes after the reclamation enters its guard too late and
  reads the freed gate. The comment at src/TaskDAG.cpp:108-111 claims the opposite:
  epochs protect readers inside a guard, not pointers in the lists of others.
* `WorkerLoopNoFiber`: when `AcquireFiber` returns null the worker pushes the task back on
  its deque and goes on to the next iteration with `task_to_run` still set. It gets a
  fiber then and runs the task, while a thief takes the copy and runs it too (`RunsOnce`);
  by another path the copy runs after the task was freed. An immediate task is put
  back into `immediateTask` in the same way and runs again. The comment at
  src/Thread.cpp:217-222 speaks of one task that is "retried or stolen".

### Found with other constants

Each is found by TLC when the named property is checked with these constants (the
others as in the named configuration).

| Start from | Change | Property violated | What happens |
|---|---|---|---|
| EventWait.cfg | `Copies = 2` | `WokenByOwnSignal` | a second `Signal` hits the next user of the event; include/DirectEvent.h:16-17 calls it idempotent |
| WaitGroup.cfg | | `MainWakes` | `WaitFor` of a fiber on a finished group sets `WAITER_BIT` and leaves it set; a thread without a fiber that loops on `n > 0` never returns (src/TaskScheduler.cpp:448-457) |
| WaitGroup.cfg | `Mains = {}`, `MaxRounds = 3`, `Reuse = TRUE` | `WaitedUntilZero` | a delayed `WakeAll` wakes a waiter of the next round |
| WorkerLoop.cfg | `Mixes = {{a, b}}`, `Controlled = {}`, all tasks fast, `HiPri = {}`, `BatchSize = 1` | `NoLostWakeup` | a worker pulls a batch, loses all of it to thieves, and sleeps although the inbox is not empty; src/Thread.cpp:460 says "drain them so nothing gets stuck" |
| WorkerLoop.cfg | `Callers = {c1, c2}`, `Immediates = {i, j}`, `Mixes = {{i, j}}`, `Controlled = {}` | `EachTaskOnce` | two `PushImmediate` calls pass the test at src/TaskScheduler.cpp:762 together and one task is overwritten |
| WorkerLoop.cfg | `Immediates = {i, j}`, `Mixes = {{f, i, j}}`, `Controlled = {}` | `EachTaskOnce` | no race at all: the forked task `f` ends on a core that `PushToCore` has reserved, its end clears that core's `immediateCoresInUse`, and the next `PushImmediate` passes the test at src/TaskScheduler.cpp:762 and overwrites the task there |
| WorkerLoop.cfg | `Mixes = {{i, k}}`, `Controlled = {}` | `EachTaskOnce` | `k` is refused a fiber, restored as `immediateTask`, and then runs; the stale pointer stays although the core is given back. While the worker takes it a second time, `PushImmediate` stores `i` in the slot and the worker clears it (src/Thread.cpp:345-347): `i` is lost |
| WorkerLoop.cfg | `Callers = {c1, c2}`, all but `a` fast, `Endless = {i}`, `Mixes = {{b, i}}`, `Controlled = {}` | `EveryTaskRuns` | a push that tested the flag too early ends in the inbox of a pinned worker (src/TaskScheduler.cpp:764-770) |
| WorkerLoop.cfg | `Fast = {a, f, i, j}`, `Pollers = {b}`, `HiPri = {}`, `Mixes = {{a, b}}`, `Controlled = {}` | `EveryTaskRuns` | a task that yields until `a` is done keeps its worker from its inbox, where `a` is |

### Met while modelling

These follow from the code by itself, without an interleaving to search for, or lie
outside the models.

* `PushFork` and `PushLocal` both count the task, and `PushFork` marks a core by index
  while `PushLocal` takes it as an affinity that counts from one: `PendingBalanced`
  and `CoresGivenBack` are stated for programs that do not fork. Tasks are pushed
  before they are counted (src/TaskScheduler.cpp:730-731), so `WaitAll` may return
  early. `SetImmediateTask` sets its flag after the worker may have taken the task;
  the worker then never sleeps.
* `Acquire` of an event may return null, which is dereferenced: 1024 events, but 72
  fibers per hardware thread (src/TaskScheduler.cpp:572: "never null in practice").
* The random victim is `FastRand() % (n - 1)`, plus one only if that is the worker
  itself (src/Thread.cpp:443-445): worker `n - 1` is chosen by worker `n - 2` only.
  With one worker the divisor is zero, also while `StartPool` has added only one.
* `hardware_concurrency() - 1` with an unknown count of 0 wraps to the largest
  unsigned value (src/TaskScheduler.cpp:348), and the fallback of four is not taken.
* `RelationCache` records are read as `PROCESSOR_RELATIONSHIP`
  (src/TaskScheduler.cpp:246), whose group count is elsewhere in that record; if it
  reads as zero there are no cache masks, `haveCache` is true, and the fallback
  promised at 230-232 is not taken: `clusterMates` stays empty.
* `AcquireFiber` does not look at the task's required stack size: heavy tasks may
  get a 64 K stack.
* `ParallelForNB` drops a chunk for which no slot is left (it pushes null).
  `totalItems + chunkSize - 1` overflows for a huge chunk size.
* `AddDependency` called twice for one edge counts twice and lists once; `Submit` then
  reports a cycle (`SubmitVerdict` states what it accepts). A DAG node created with
  an explicit priority has none of the flags `Fire` looks at and is never pushed.
  `Fire` ignores the result of `Push`.
* A guard inside a guard clears the slot when the inner one ends, and leaves the
  rest of the outer one unprotected.
* `LockFreeList`: `slabDeleter` (include/LockFreeList.h:148-156) is static but uses the member
  `allocator`, so `remove`, which passes it to `RetirePtr`, cannot be instantiated; nothing
  calls it. It is modelled as it is written, with a deleter that frees the cell. Two
  `remove` calls of one key may both succeed and retire the cell twice, because
  `attemptMark` returns true for a cell that is already marked; `remove` retires the
  cell although its unlinking CAS may have failed; `add` leaks a cell for each failed
  CAS and does not test `Alloc` for null; `get` looks at the mark of the wrong cell.
* The fairness counter of `GetTask` is reset by every scan of the low-priority deques
  (src/TaskScheduler.cpp:644); `priorityBoost` 0 means no boost, so a boosted
  low-priority task cannot be restored (818), and nobody calls `BoostTaskPriority`.

## 5. Proofs

Every theorem holds for all values of the constants that satisfy the assumptions
named in the module it is about. Those say that null values are not objects
(`None \notin Fibers`, `Slots`, `Names`; `Null` and `Stub` are no tasks), that bounds
are numbers, and what the following paragraphs mention.

`TaskQueueProofs` on the deque, for every `Capacity`, `MaxBatch`, `MaxIndex`, set of
tasks and set of thieves:

* `DequeTypeCorrect`: `Spec => []TypeOK`.
* `DequeSafe`: `Spec => [](NoDoubleClaim /\ NothingLost /\ IndicesOrdered)`.
* `DequeImplementsBag`: `Spec => RefinesTaskBag`.

The inductive invariant `DequeInv` adds to these what each thread knows where it
is: `PushInv` (the slots already written hold the batch, which is still the
owner's and outside the visible range), `PopInv` (the bottom index was announced,
and while a CAS is pending the last task is still there), `ThiefInv` (a thief's `t`
is not ahead of `top`, and if it is equal and the item was read, the item is the
one in the slot). The last is what makes the stale read harmless. `Avail` is
`bottom_` with an announced pop undone; the tasks from `top` to `Avail` are what
the bag holds. The step lemmas for the writing actions rest on `SlotsDiffer`: two
indices less than `Capacity` apart are different slots, proved from the
definition of `%`.

`TaskQueueProofs` on the MPSC queue, for any number of producers, tasks, pushes and
length of batches:

* `QueueIsFIFO`: `QueueSpec => []PopReturnsFront`.
* `QueueEmptyIsHonest`: `QueueSpec => []EmptyIsHonest`.

The model has `next` pointers only, so the invariant says that there is a list:
`IsList` gives a sequence `q` of distinct nodes from `tail_` to `head_` and the place
`k` of the stub in it (0: outside). `Joined` says that neighbours are linked except in
a gap, and that a gap has exactly one thread that will close it; `Contents` that
`order` is `q` without the stub. A push extends `q` behind, a pop shortens it in
front, and the consumer's append of the stub is a push of its own. `PopAlone` is
what a pop knows as long as nobody has exchanged `head_` since it began.

`FiberProofs`, for any sets of fibers, workers and resumers:

* `FiberTypeCorrect`: `FiberSpec => []FiberTypeOK`.
* `FiberSafe`: `FiberSpec => [](AtMostOnePlace /\ NeverDropped /\ NeverRunUnsaved)`.

`FiberInv` adds `WorkerStatus` (what status a fiber can have at each point of the
worker that holds it) and `RestingStatus` (what status it has in the pool, in a
queue, in a resumer's hands or parked). Without them a `Resume` could not be told
from a park that it races with.

The three modules of clients start with a refinement: each step of the client is a
step of the life cycle, so `FiberInv` is part of their invariants. What they add is
the same idea three times, `OneWakeUp`: the wake-up that a wait is to get is in at
most one place, and while it is there the wait is not over. So no fiber is woken for a
wait it has already left. Behind events and groups the fiber is parkable or parked by then
and `Resume` takes effect; behind the mutex and the semaphore it may still be on its way.

* `NamedEventProofs` (`EventsUseFibers`, `EventsPark`, `EventsRegister`,
  `EventsOwnSignal`). The places are the `waiter` field of the event, the waiters of
  the name, the `to_wake` of one `SignalAll` and one `Resume` call. `BareApart` keeps
  programs that call `Suspend` and `Resume` themselves apart from events: such a
  `Resume` may wake anybody. `EventsOwnSignal` assumes `Copies = 1`, as its run does;
  with two signals it is false (section 4). `OwnSignal` says that an event belongs to
  one wait at a time, and that a signal under way is the one of the wait that is
  registered in it.
* `WaitGroupProofs` (`GroupUsesFibers`, `GroupWakes`, `GroupWaits`). The places are the
  group's `waiters`, the `to_wake` of one completer and one `Resume` call; a registered
  waiter has the bit set, and the counter is positive or a completer is about to
  take the set (`SleeperHasWaker`, half of `NoLostWakeup`, is inductive with the rest).
  `GroupWaits` assumes `~Reuse`, as its run does; with reuse it is false (section 4).
  `ZeroSeen` carries the moment of the zero to whoever wakes the fiber.
* `SchedulerSyncProofs` (`SyncUsesFibers`, `SyncExcludes`, `SyncGrants`, `SyncHandles`,
  `SyncPermits`).
  The places are the queue of the mutex or of a semaphore, the local `nextFiber` of
  one caller and one `Resume` call. `LockOwner`: the lock has exactly one owner from
  the moment it is taken, or from the moment `Unlock` takes the fiber out of the queue, so a
  fiber in transit owns it already; `SyncGrants` is what that means for a fiber that runs
  again. `Handles`: the semaphore of a wait on the condition
  variable is in its queue once or with one notifier, and while it is, `Wait` cannot
  have returned. `SyncPermits` counts the holders with `Cardinality` and the lemmas on finite
  sets, hence `LockersFinite`; `SpinnersHaveNoFiber` is what a spinner is. All of it is
  safety: that a wake-up may get lost there (section 4) does not contradict it.

`WorkerLoopProofs`, for any number of workers (more than one), callers and tasks:

* `WorkersWake`: `Spec /\ []InboxesFit => []NoLostWakeup`.
* `FewTasksWake`: `Spec /\ [](NoMisses /\ Cardinality(Live) <= BatchSize) => []NoLostWakeup`.
* `TasksNeverTwice`: `Spec => [](NoMisses => NeverTwice /\ RunsOnce)`.
* `TasksExactlyOnce`: `Spec /\ []Apart => [](NoMisses => EachTaskOnce)`.
* `PendingCounted`: `Spec => []PendingBalanced` (`NoMisses` is a premise of the property).
* `ReservedCoresReturn`: `Spec => [](NoMisses => CoresGivenBack)`.

`NoMisses` says that no worker was refused a fiber so far. `WorkersWake` does without it: the
worker that puts a task back does not go to sleep before it has run it. The others speak
of the time before the first refusal, which `NoFiber` ends for good (`MissInv`: the counts of
refusals never fall below zero, so `NoMisses` after a step means that the step was none). The
step lemmas about tasks have the hypothesis `NoRefusal`, that the step is not `NoFiber`, and
`SettlesAlways` joins them: `NoMisses => Settles` is inductive. The condition cannot go:
`WorkerLoopNoFiber` refutes `RunsOnce` after one refusal (section 4). How a pool can be made
large enough never to refuse is a question of its size: `AcquireGivesUp` below says when it does.

`Looked` says, for every point of a worker's search, that what it has found empty
still is, or `hasQueuedWork` is up, or a push is on the way to raise it; `Called`, that a
flag raised while the worker sleeps comes with a notify that is still to come. The
condition `InboxesFit`, no inbox holds more than `BatchSize` tasks, is the one under
which the batch a worker pulls leaves nothing behind; without it the theorem is false
(section 4). `FewTasksWake` replaces it by one a client can keep: a task is in one inbox
at most, so 64 live tasks never fill one beyond a batch.

The others rest on `OnceInv`: a task has one home (an inbox, a deque, a batch, a
worker's hand, an immediate slot, a call in progress, parked), no sequence names it
twice, and one that is not live has none. `OnceInv(TRUE)` allows a live task to be
nowhere; it is preserved by every step but `NoFiber` and gives `TasksNeverTwice`, also
where pushes race for a core or forks meet immediate tasks: nothing runs twice, nothing
runs after it was freed. That nothing is lost is `OnceInv(FALSE)`, and takes a
condition, because the code can lose an immediate task in two ways (section 4): `Apart`
says that no two calls are between the test and the store of one core's flag
(`NoCoreRace`), and that the program forks tasks or reserves cores, not both. The
behaviours of the run satisfy it. `CoreInv` then has for each core that it is in use as
long as it has its task, or is about to get one, so `PushToCore` finds the slot empty.
`CountInv` counts: `pendingTasks` is the number of live tasks less that of the calls
that have not counted theirs yet. `GiveBack`, the converse of `CoreInv`, does not need
`Apart`: a core in use has its task or a call on the way to hand it over.

`PoolProofs` on the slots, for any set of threads, finite set of slots, batch size, and
sequences of calls with any integers for start, end and chunk size:

* `SlotsOwnedOnce`: `Spec => []SlotOwnedOnce`, about `TaskAllocator` under it.
* `CallsComplete`: `Spec => []ReturnsComplete`.

`ControlInv` comes first. Its `SlotInv` treats the shared list, the caches and the
chains being spliced as one family of lists, in which no slot occurs twice
(`Apart`), and which name exactly the slots not in use; the lemmas on lists say what
detaching a batch, prefixing a chain, pushing and popping do to such a family. The
rest says what a thread has in hand at each point, that `wg` counts the tasks of the
call between `CountTask` and `Finish` (`CountInv`, with the finite set `Counted`), and
that open tasks of a blocking call belong to the one in progress (`TaskInv`): a count of
zero then means that no task is left. `CoverInv` is about the work: every index of the
call has been run once and is nowhere, or has not been run and is in exactly one
place (a thread's range, the right half it is making a task of, a task, the rest of
the caller's loop). The lemma `CoverStep` is the argument: a step leaves an index
where it is, moves it from one place to another, or runs it. Each action is shown to do
one of the three; for the plain loop `ChunksReach` shows that `NumTasks` chunks reach the
end of the range, whatever the division leaves over.

`PoolProofs` on threads and fibers, for any machines (`MachinesAssumption`: at least one
CPU, masks are sets of CPUs, two cores share none), requested sizes, fibers per core
and capacities:

* `IdsHaveSlots`: `StartSpec => []ThreadIdsValid`.
* `TopologyBuilt`: `StartSpec => []TopologySound`.
* `FibersOwned`: `StartSpec => []FiberOwnedOnce`.
* `AcquireGivesUp`: `StartSpec => AcquireFailsWhenBusy`.

`StartInv` and `IdInv` follow the start: the workers made so far are `0 .. NewWorker - 1`,
the ids given out are those below `thread_counter`, one for each thread that has
numbered itself, so the main thread, which waits for all, gets the last. The topology is
computed in one step, and its proof is about operators. `OneCore` and `PairGives`: cores
are disjoint, so a worker is in one group at most and the sibling relation is symmetric.
`MatesStages` unfolds the recursive function over the cache masks; `MatesSound` carries
through it that the mates are the rest of a largest group among the masks seen so far
and that a worker without mates has seen none of more than two. `VictimsSound` has the
thieves.
`PoolInv` says what a worker holds at each point of acquire and release (a refill starts
from an empty cache, a spill from a full one). `OwnerInv` is `FiberOwnedOnce` by place:
for each fiber there is exactly one `<<kind, worker, index>>` at which it lies, where an
entry that `ReturnBatch` has enqueued no longer counts. Each action leaves a fiber where
it is (`StaysHere`) or takes it from one place to another (`MovesHere`). `AcquireGivesUp`
follows by an injection: with the queue empty, a fiber no task has is at an index of
another worker's cache or refill, a worker has only one of the two, and both fit its
capacity.

`TaskDAGProofs`, for every graph (any nodes, kinds, edges, repeated ones included), number
of threads and reclamation threshold:

* `SubmitIsExact`: `Spec => []SubmitVerdict`.
* `DependenciesFirst`: `Spec => []FiresInOrder`.
* `NodesOnce`: `Spec => []OnceEach`.
* `FreedNotUsed`: `~ReclaimWithOr /\ Spec => []NoUseAfterFree`.

All follow from `GraphInvariant`, `Spec => []DagInv`. `Waiting`, `DoneOnce`, `CallsOnce` and
`RetiredOnce` say where a node is on its way from the graph to the queue, to a call of
`OnTaskFinished`, to a list of retired nodes and to the allocator, once at each. `Order` is
the heart: `Unvisited(n)` are the predecessors of `n` that have not finished, or have and
still owe it a visit, and `dependencies_left[n]` is at least their number (`LeftOk`); a
node that is ready has none left (`ReadyOk`); and from there only one thread holds the
right to fire it (`TokenOk`), several only for an OR gate with several predecessors. That
`Submit` decides correctly is an argument about the rounds of Kahn's algorithm: in an
accepted graph the first round that processes a node is a rank (`AcyclicSorted`), and in a
graph with ranks the node of rank `k` is processed by round `k` (`SortedAcyclic`). Both
directions use the least-number principle instead of an induction over data. `Spared` is
why nothing is used after it was freed: as long as something is freed, no node can be
fired twice. The condition `~ReclaimWithOr` is the one the run has; `TaskDAGOr` shows
that it is needed.

Only model-checked, and why:

* all liveness (`EverythingPopped`, `WaitEnds`, `AllWaitersWake`, `EveryTaskRuns`,
  `JoinReturns`, `CallsReturn`, `EverythingRuns`, `Completes`): it needs fairness and
  `ENABLED`, out of the prover's reach;
* `SetIsExact`, `GuardProtects` and `WalksAreHonest` of `LockFreeList`: they are about what
  is reachable along marked pointers at every moment of a walk, and are true for the
  programs of the run only. When two threads remove one key the cell is retired twice,
  and when a key is added right in front of the cell `remove` is about to unlink, the
  cell is retired while it is still linked (both in section 4): no theorem holds for
  all programs, and one for a class of programs needs an invariant on the shape of the
  list that is not worked out.

## 6. What is left

Proofs next: the shape of `LockFreeList` (cells ordered by key, a marked cell never
unmarked, an unlinked one not reachable again) for programs
that remove a key once and add nothing in front of it.

Models next: the fairness counter of `GetTask`; `PushBatch` as a whole; what the copy of
a task that was refused its fiber does to the fiber of the first (`Fiber` over `NoFiber`).

Not modelled: register and stack handling and the first frame of a fiber
(`Fiber::Init`), which are layout; `LockFreeList::get`, which nothing calls, and
destructors, which run alone; priority boosts, which nothing calls; the `mainQ.clear()` of `Join`;
the debug canaries of the allocator; the third-party queues (used as bags); logging
and build files.
