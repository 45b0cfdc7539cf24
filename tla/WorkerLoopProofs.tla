-------------------------- MODULE WorkerLoopProofs --------------------------
(***************************************************************************)
(* Thread::Worker and the calls that hand it tasks, for any number of      *)
(* workers, callers and tasks.                                             *)
(*                                                                         *)
(* Sleep and wake-up: as long as no inbox holds more than one batch, no    *)
(* worker sleeps on work that nobody is going to tell it about.            *)
(*                                                                         *)
(* Tasks, until a worker is refused a fiber (NoMisses): none is in two     *)
(* places or runs twice (NeverTwice, RunsOnce), pendingTasks is their      *)
(* number, the cores reserved for them are given back, and as long as no   *)
(* two PushToCore race and forks and reservations are not mixed (Apart),   *)
(* none is lost (EachTaskOnce).                                            *)
(***************************************************************************)
EXTENDS WorkerLoop, SequenceTheorems, FiniteSetTheorems, TLAPS

\* The batch that a worker pulls empties its inbox.  When it does not, thieves
\* can take the batch and the worker sleeps on the rest.
InboxesFit == \A w \in Workers, l \in Lanes : Len(inbox[w][l]) <= BatchSize

TaskOrNone == Tasks \cup {None}
WorkerPcs ==
  {"top", "fiber", "reflag", "exec", "ran", "immediate", "drain_hi", "requeue_hi", "drain_lo", "requeue_lo", "take",
   "forget", "unflag", "local", "steal", "inbox_hi", "pulled_hi", "inbox_lo", "pulled_lo",
   "lock", "blocking", "blocked", "exit"}
PushPcs ==
  {"idle", "pick", "check", "put", "fork_set", "fork_count", "count", "mark", "notify",
   "core_set", "core_task", "core_immediate", "help"}
LoopTypeOK ==
  /\ inbox \in [Workers -> [Lanes -> Seq(TaskOrNone)]] /\ deque \in [Workers -> [Lanes -> Seq(TaskOrNone)]]
  /\ batch \in [Workers -> Seq(TaskOrNone)]
  /\ hasQueuedWork \in [Workers -> BOOLEAN] /\ immediate \in [Workers -> BOOLEAN]
  /\ immediateTask \in [Workers -> TaskOrNone] /\ taskToRun \in [Workers -> TaskOrNone]
  /\ running \in [Workers -> BOOLEAN] /\ pc \in [Workers -> WorkerPcs]
  /\ push \in [Actors -> [at : PushPcs, task : TaskOrNone, to : Workers, lane : Lanes, new : BOOLEAN]]

\* The search of a worker, from the own deques to the sleep.
Asleep == {"blocking", "blocked"}
Searched == {"lock"} \cup Asleep
Search == {"local", "steal", "inbox_hi", "pulled_hi", "inbox_lo", "pulled_lo"} \cup Searched

\* Somebody is in a push call to w, at one of these places.
Coming(w, at) == \E x \in Actors : push[x].to = w /\ push[x].at = at
Queued(w) == hasQueuedWork[w] \/ Coming(w, "count") \/ Coming(w, "mark")

\* What a worker has looked at is still as it was, or there is a flag up or on
\* its way ...
Looked(w) ==
  /\ pc[w] \in Search => immediateTask[w] = None \/ immediate[w] \/ Coming(w, "core_immediate")
  /\ pc[w] \in {"pulled_hi", "inbox_lo", "pulled_lo"} \cup Searched =>
       inbox[w]["hi"] = << >> \/ Queued(w)
  /\ pc[w] \in {"pulled_lo"} \cup Searched => inbox[w]["lo"] = << >> \/ Queued(w)
  /\ pc[w] \in {"steal", "inbox_hi", "inbox_lo", "pulled_lo"} \cup Searched =>
       deque[w]["hi"] = << >>
  /\ pc[w] \in {"steal", "inbox_hi", "pulled_hi", "inbox_lo"} \cup Searched =>
       deque[w]["lo"] = << >>

\* ... and a flag that goes up while the worker sleeps comes with a notify.
Called(w) ==
  pc[w] \in Asleep =>
    /\ immediate[w] => Coming(w, "notify")
    /\ hasQueuedWork[w] => paused \/ w \in toNotify \/ Coming(w, "notify")
    /\ ~running[w] => w \in toNotify

LoopInv == LoopTypeOK /\ \A w \in Workers : Looked(w) /\ Called(w)
-----------------------------------------------------------------------------
(* Updates.                                                                *)

LEMMA Update ==
  ASSUME NEW D, NEW S, NEW q \in [D -> S], NEW d \in D, NEW v \in S
  PROVE  /\ [q EXCEPT ![d] = v] \in [D -> S]
         /\ \A c \in D : [q EXCEPT ![d] = v][c] = IF c = d THEN v ELSE q[c]
OBVIOUS

LEMMA UpdateLane ==
  ASSUME NEW S, NEW q \in [Workers -> [Lanes -> S]], NEW w \in Workers, NEW l \in Lanes, NEW v \in S
  PROVE  /\ [q EXCEPT ![w][l] = v] \in [Workers -> [Lanes -> S]]
         /\ \A u \in Workers, m \in Lanes :
              [q EXCEPT ![w][l] = v][u][m] = IF u = w /\ m = l THEN v ELSE q[u][m]
OBVIOUS

\* The batch and what stays in the inbox.
LEMMA BatchSplit ==
  ASSUME NEW S, NEW s \in Seq(S)
  PROVE  /\ AtMost(s) \in Seq(S) /\ Beyond(s) \in Seq(S)
         /\ Len(s) <= BatchSize => Beyond(s) = << >>
         /\ s = << >> => AtMost(s) = << >>
<1>1. BatchSize \in Nat /\ BatchSize > 0 /\ Len(s) \in Nat
  BY PoolBounds
<1>2. \A i \in 1 .. Len(s) : s[i] \in S
  OBVIOUS
<1>3. AtMost(s) \in Seq(S)
  <2>1. CASE Len(s) < BatchSize
    BY <1>1, <1>2, <2>1, SubSeqProperties DEF AtMost
  <2>2. CASE ~(Len(s) < BatchSize)
    <3>1. SubSeq(s, 1, BatchSize) \in Seq(S)
      BY <1>1, <1>2, <2>2, SubSeqProperties
    <3> QED BY <2>2, <3>1 DEF AtMost
  <2> QED BY <2>1, <2>2
<1>4. Beyond(s) \in Seq(S)
  BY <1>1, <1>2, SubSeqProperties DEF Beyond
<1>5. ASSUME Len(s) <= BatchSize PROVE Beyond(s) = << >>
  <2>1. BatchSize + 1 > Len(s) /\ BatchSize + 1 \in Int /\ Len(s) \in Int
    BY <1>1, <1>5
  <2> QED BY <2>1, SubSeqEmpty DEF Beyond
<1>6. ASSUME s = << >> PROVE AtMost(s) = << >>
  <2>1. Len(s) = 0
    BY <1>6
  <2> QED BY <1>1, <2>1, SubSeqEmpty DEF AtMost
<1> QED BY <1>3, <1>4, <1>5, <1>6
-----------------------------------------------------------------------------
(* What a step leaves alone.                                               *)

Notices == {"count", "mark", "notify", "core_immediate"}

LEMMA WorkerKept ==
  ASSUME LoopInv, NEW w \in Workers,
         pc'[w] \in Search =>
           /\ pc'[w] = pc[w] \/ (pc[w] = "blocked" /\ pc'[w] = "lock")
           /\ immediateTask'[w] \in {immediateTask[w], None}
           /\ immediate'[w] <=> immediate[w]
           /\ hasQueuedWork'[w] <=> hasQueuedWork[w]
           /\ \A l \in Lanes : inbox'[w][l] = inbox[w][l]
           /\ \A l \in Lanes : deque[w][l] = << >> => deque'[w][l] = << >>
           /\ running'[w] <=> running[w],
         paused => paused', w \in toNotify => w \in toNotify',
         \A at \in Notices : Coming(w, at) => Coming(w, at)'
  PROVE  Looked(w)' /\ Called(w)'
<1>1. Looked(w) /\ Called(w)
  BY DEF LoopInv
<1>2. Queued(w) /\ pc'[w] \in Search => Queued(w)'
  BY DEF Queued, Notices
<1>3. Looked(w)'
  BY <1>1, <1>2 DEF Looked, Search, Searched, Asleep, Notices, Lanes
<1>4. Called(w)'
  BY <1>1 DEF Called, Search, Searched, Asleep, Notices
<1> QED BY <1>3, <1>4

\* A call at a place where it owes nobody a notice.
LEMMA ComingKept ==
  ASSUME NEW x \in Actors, push[x].at \notin Notices, \A y \in Actors \ {x} : push'[y] = push[y],
         NEW w, NEW at \in Notices, Coming(w, at)
  PROVE  Coming(w, at)'
BY DEF Coming

LEMMA CallKept ==
  ASSUME LoopInv, LoopTypeOK', NEW x \in Actors, push[x].at \notin Notices,
         \A y \in Actors \ {x} : push'[y] = push[y],
         UNCHANGED <<pc, inbox, hasQueuedWork, immediate, immediateTask, running, paused, toNotify>>,
         \A w \in Workers, l \in Lanes : deque[w][l] = << >> => deque'[w][l] = << >>
  PROVE  LoopInv'
<1> SUFFICES ASSUME NEW w \in Workers PROVE Looked(w)' /\ Called(w)'
  BY DEF LoopInv
<1>1. \A at \in Notices : Coming(w, at) => Coming(w, at)'
  BY ComingKept
<1> QED BY <1>1, WorkerKept

\* A worker's own step that does not end in the search.
LEMMA LoopKept ==
  ASSUME LoopInv, LoopTypeOK', NEW w \in Workers, push[w].at \notin Notices,
         pc'[w] \notin Search, \A v \in Workers \ {w} : pc'[v] = pc[v],
         \A y \in Actors \ {w} : push'[y] = push[y],
         \A v \in Workers \ {w} :
           /\ immediateTask'[v] = immediateTask[v]
           /\ immediate'[v] <=> immediate[v]
           /\ hasQueuedWork'[v] <=> hasQueuedWork[v]
           /\ \A l \in Lanes : inbox'[v][l] = inbox[v][l]
           /\ \A l \in Lanes : deque[v][l] = << >> => deque'[v][l] = << >>,
         UNCHANGED <<running, paused, toNotify>>
  PROVE  LoopInv'
<1> SUFFICES ASSUME NEW v \in Workers PROVE Looked(v)' /\ Called(v)'
  BY DEF LoopInv
<1>1. w \in Actors /\ \A at \in Notices : Coming(v, at) => Coming(v, at)'
  <2>1. w \in Actors
    BY DEF Actors
  <2> QED BY <2>1, ComingKept
<1>2. CASE v = w
  BY <1>1, <1>2, WorkerKept DEF Searched
<1>3. CASE v # w
  BY <1>1, <1>3, WorkerKept
<1> QED BY <1>2, <1>3
-----------------------------------------------------------------------------
(* The push calls.                                                         *)

Calls == [at : PushPcs, task : TaskOrNone, to : Workers, lane : Lanes, new : BOOLEAN]

LEMMA CallType ==
  ASSUME NEW t \in TaskOrNone, NEW w \in Workers, NEW l \in Lanes, NEW n \in BOOLEAN,
         NEW at \in PushPcs
  PROVE  [at |-> at, task |-> t, to |-> w, lane |-> l, new |-> n] \in Calls
BY DEF Calls

LEMMA IdleType == Idle \in Calls /\ Idle.at = "idle" /\ Idle.to = 0 /\ 0 \in Workers
BY PoolBounds DEF Idle, Calls, Workers, Lanes, PushPcs, TaskOrNone

\* The record of a call that has just begun.
LEMMA StartType ==
  ASSUME LoopTypeOK, NEW x \in Actors, NEW c \in Calls, push' = [push EXCEPT ![x] = c]
  PROVE  /\ push' \in [Actors -> Calls]
         /\ \A y \in Actors \ {x} : push'[y] = push[y]
         /\ push'[x] = c
BY DEF LoopTypeOK, Calls

LEMMA LoopCall ==
  ASSUME LoopInv, NEW x \in Actors, NEW t \in Tasks,
         CallPush(x, t) \/ ResumeTask(x, t)
         \/ \E w \in Workers : CallPushTo(x, t, w) \/ CallPushFork(x, t, w) \/ CallPushToCore(x, t, w)
  PROVE  LoopInv'
<1>1. push[x] = Idle /\ push[x].at \notin Notices
  BY IdleType DEF CallPush, ResumeTask, CallPushTo, CallPushFork, CallPushToCore, CanCall, Notices
<1>2. UNCHANGED <<queues, flags, pc, locals, ctlVars>>
  BY DEF CallPush, ResumeTask, CallPushTo, CallPushFork, CallPushToCore
<1>3. \E c \in Calls : push' = [push EXCEPT ![x] = c]
  <2>1. LaneOf(t) \in Lanes /\ t \in TaskOrNone
    BY DEF LaneOf, Lanes, TaskOrNone
  <2>2. CASE CallPush(x, t) \/ ResumeTask(x, t)
    BY <2>1, <2>2, IdleType
       DEF CallPush, ResumeTask, StartRequeue, Start, Set, Calls, PushPcs
  <2>3. ASSUME NEW w \in Workers, CallPushTo(x, t, w) \/ CallPushFork(x, t, w) \/ CallPushToCore(x, t, w)
        PROVE  \E c \in Calls : push' = [push EXCEPT ![x] = c]
    BY <2>1, <2>3, IdleType
       DEF CallPushTo, CallPushFork, CallPushToCore, Start, Set, Calls, Idle, PushPcs
  <2> QED BY <2>2, <2>3
<1>4. PICK c \in Calls : push' = [push EXCEPT ![x] = c]
  BY <1>3
<1>5. push' \in [Actors -> Calls] /\ \A y \in Actors \ {x} : push'[y] = push[y]
  BY <1>4, StartType DEF LoopInv
<1>6. LoopTypeOK'
  BY <1>2, <1>5 DEF LoopInv, LoopTypeOK, Calls, queues, flags, locals, ctlVars
<1> QED BY <1>1, <1>2, <1>5, <1>6, CallKept DEF queues, flags, ctlVars

\* The steps of a call before it has changed a queue.
LEMMA LoopPushEarly ==
  ASSUME LoopInv, NEW x \in Actors,
         \/ ForkSet(x) \/ ForkCount(x) \/ CheckAffinity(x) \/ CoreSet(x) \/ HelpFinish(x)
         \/ \E w \in Workers : PickWorker(x, w)
  PROVE  LoopInv'
<1>1. push[x] \in Calls /\ push \in [Actors -> Calls] /\ \A w \in Workers : w \in Int
  BY DEF LoopInv, LoopTypeOK, Calls, Workers
<1>2. push[x].at \notin Notices
  BY DEF ForkSet, ForkCount, CheckAffinity, CoreSet, HelpFinish, PickWorker, InCall, Notices
<1>3. UNCHANGED <<queues, hasQueuedWork, immediate, immediateTask, pc, locals, ctlVars>>
  BY DEF ForkSet, ForkCount, CheckAffinity, CoreSet, HelpFinish, PickWorker, flags
<1>4. \E c \in Calls : push' = [push EXCEPT ![x] = c]
  <2>1. CASE ForkSet(x) \/ CoreSet(x)
    BY <1>1, <2>1 DEF ForkSet, CoreSet, Step, Calls, PushPcs
  <2>2. CASE ForkCount(x)
    <3>1. CASE push[x].to = 0
      <4>1. LaneOf(push[x].task) \in Lanes
        BY DEF LaneOf, Lanes
      <4> QED BY <1>1, <2>2, <3>1, <4>1 DEF ForkCount, Calls, PushPcs
    <3>2. CASE push[x].to # 0
      <4>1. push[x].to - 1 \in Workers
        BY <1>1, <3>2, PoolBounds DEF Calls, Workers
      <4> QED BY <1>1, <2>2, <3>2, <4>1 DEF ForkCount, Calls
    <3> QED BY <3>1, <3>2
  <2>3. CASE CheckAffinity(x) \/ HelpFinish(x)
    BY <1>1, <2>3, IdleType DEF CheckAffinity, HelpFinish, Step, Return, Set, Calls, PushPcs
  <2>4. ASSUME NEW w \in Workers, PickWorker(x, w) PROVE \E c \in Calls : push' = [push EXCEPT ![x] = c]
    BY <1>1, <2>4 DEF PickWorker, Calls, PushPcs
  <2> QED BY <2>1, <2>2, <2>3, <2>4
<1>5. PICK c \in Calls : push' = [push EXCEPT ![x] = c]
  BY <1>4
<1>6. push' \in [Actors -> Calls] /\ \A y \in Actors \ {x} : push'[y] = push[y]
  BY <1>5, StartType DEF LoopInv
<1>7. LoopTypeOK'
  BY <1>3, <1>6 DEF LoopInv, LoopTypeOK, Calls, queues, locals, ctlVars
<1> QED BY <1>2, <1>3, <1>6, <1>7, CallKept DEF queues, ctlVars

\* A task stolen by a thread outside the pool: nothing lands in a queue.
LEMMA LoopHelpSteal ==
  ASSUME LoopInv, NEW x \in Actors, NEW v \in Workers, NEW l \in Lanes, HelpSteal(x, v, l)
  PROVE  LoopInv'
<1>1. push[x] = Idle /\ push[x].at \notin Notices
  BY IdleType DEF HelpSteal, CanCall, Notices
<1>2. /\ deque[v][l] \in Seq(TaskOrNone) /\ deque[v][l] # << >>
      /\ deque' = [deque EXCEPT ![v][l] = Tail(deque[v][l])]
      /\ UNCHANGED <<inbox, flags, pc, locals, ctlVars>>
  BY DEF HelpSteal, LoopInv, LoopTypeOK
<1>3. Head(deque[v][l]) \in TaskOrNone /\ Tail(deque[v][l]) \in Seq(TaskOrNone)
  BY <1>2
<1>4. \E c \in Calls : push' = [push EXCEPT ![x] = c]
  <2>1. LaneOf(Head(deque[v][l])) \in Lanes
    BY DEF LaneOf, Lanes
  <2> QED BY <1>3, <2>1, IdleType DEF HelpSteal, StartRequeue, Start, Set, Calls, PushPcs
<1>5. PICK c \in Calls : push' = [push EXCEPT ![x] = c]
  BY <1>4
<1>6. push' \in [Actors -> Calls] /\ \A y \in Actors \ {x} : push'[y] = push[y]
  BY <1>5, StartType DEF LoopInv
<1>7. /\ deque' \in [Workers -> [Lanes -> Seq(TaskOrNone)]]
      /\ \A u \in Workers, m \in Lanes : deque[u][m] = << >> => deque'[u][m] = << >>
  <2>1. deque \in [Workers -> [Lanes -> Seq(TaskOrNone)]]
    BY DEF LoopInv, LoopTypeOK
  <2> QED BY <1>2, <1>3, <2>1, UpdateLane
<1>8. LoopTypeOK'
  BY <1>2, <1>6, <1>7 DEF LoopInv, LoopTypeOK, Calls, flags, locals, ctlVars
<1> QED BY <1>1, <1>2, <1>6, <1>7, <1>8, CallKept DEF flags, ctlVars

\* The steps that owe a notice: x goes from one place of its call to the next.
LEMMA MoveType ==
  ASSUME LoopTypeOK, NEW x \in Actors, NEW at \in PushPcs, Step(x, at)
  PROVE  /\ push' \in [Actors -> Calls] /\ push'[x].at = at /\ push'[x].to = push[x].to
         /\ push[x].to \in Workers /\ \A y \in Actors \ {x} : push'[y] = push[y]
<1>1. push \in [Actors -> Calls] /\ push[x] \in Calls
  BY DEF LoopTypeOK, Calls
<1>2. [push[x] EXCEPT !.at = at] \in Calls
  BY <1>1 DEF Calls
<1>3. push' = [push EXCEPT ![x] = [push[x] EXCEPT !.at = at]]
  BY DEF Step
<1> QED BY <1>1, <1>2, <1>3 DEF Calls

LEMMA MoveComing ==
  ASSUME NEW x \in Actors, NEW w, NEW at, \A y \in Actors \ {x} : push'[y] = push[y],
         Coming(w, at), push[x].to # w \/ push[x].at # at
  PROVE  Coming(w, at)'
BY DEF Coming

LEMMA LoopPutInbox ==
  ASSUME LoopInv, NEW x \in Actors, PutInbox(x)
  PROVE  LoopInv'
<1>1. PICK w \in Workers, l \in Lanes, t \in TaskOrNone :
        w = push[x].to /\ l = push[x].lane /\ t = push[x].task
  BY DEF LoopInv, LoopTypeOK
<1>2. /\ push[x].at = "put" /\ inbox' = [inbox EXCEPT ![w][l] = Append(inbox[w][l], t)]
      /\ UNCHANGED <<deque, flags, pc, locals, ctlVars>>
  BY <1>1 DEF PutInbox, InCall
<1>3. PICK at \in {"count", "mark"} : Step(x, at)
  BY DEF PutInbox
<1>4. /\ push' \in [Actors -> Calls] /\ push'[x].at = at /\ push'[x].to = w
      /\ \A y \in Actors \ {x} : push'[y] = push[y]
  BY <1>1, <1>3, MoveType DEF LoopInv, PushPcs
<1>5. /\ inbox' \in [Workers -> [Lanes -> Seq(TaskOrNone)]]
      /\ \A u \in Workers, m \in Lanes : u # w => inbox'[u][m] = inbox[u][m]
  <2>1. inbox \in [Workers -> [Lanes -> Seq(TaskOrNone)]] /\ Append(inbox[w][l], t) \in Seq(TaskOrNone)
    BY DEF LoopInv, LoopTypeOK
  <2> QED BY <1>2, <2>1, UpdateLane
<1>6. LoopTypeOK'
  BY <1>2, <1>4, <1>5 DEF LoopInv, LoopTypeOK, Calls, flags, locals, ctlVars
<1>7. ASSUME NEW u \in Workers PROVE Looked(u)' /\ Called(u)'
  <2>1. \A a \in Notices : Coming(u, a) => Coming(u, a)'
    BY <1>2, <1>4, ComingKept DEF Notices
  <2>2. CASE u # w
    BY <1>2, <1>5, <2>1, <2>2, WorkerKept DEF flags, ctlVars
  <2>3. CASE u = w
    <3>1. Queued(u)'
      BY <1>3, <1>4, <2>3 DEF Queued, Coming
    <3>2. Looked(u) /\ Called(u)
      BY DEF LoopInv
    <3>3. Looked(u)'
      BY <1>2, <2>1, <3>1, <3>2 DEF Looked, flags, Notices
    <3>4. Called(u)'
      BY <1>2, <2>1, <3>2 DEF Called, flags, ctlVars, Notices
    <3> QED BY <3>3, <3>4
  <2> QED BY <2>2, <2>3
<1> QED BY <1>6, <1>7 DEF LoopInv

LEMMA LoopCountTask ==
  ASSUME LoopInv, NEW x \in Actors, CountTask(x)
  PROVE  LoopInv'
<1>1. push[x].at = "count" /\ Step(x, "mark") /\ UNCHANGED <<queues, flags, pc, locals, ctlVars>>
  BY DEF CountTask, InCall
<1>2. /\ push' \in [Actors -> Calls] /\ push'[x].at = "mark" /\ push'[x].to = push[x].to
      /\ \A y \in Actors \ {x} : push'[y] = push[y]
  BY <1>1, MoveType DEF LoopInv, PushPcs
<1>3. LoopTypeOK'
  BY <1>1, <1>2 DEF LoopInv, LoopTypeOK, Calls, queues, flags, locals, ctlVars
<1>4. ASSUME NEW u \in Workers PROVE Looked(u)' /\ Called(u)'
  <2>1. Coming(u, "notify") => Coming(u, "notify")'
    BY <1>1, <1>2, MoveComing
  <2>2. Coming(u, "core_immediate") => Coming(u, "core_immediate")'
    BY <1>1, <1>2, MoveComing
  <2>3. Queued(u) => Queued(u)'
    BY <1>1, <1>2 DEF Queued, Coming, flags
  <2>4. Looked(u) /\ Called(u)
    BY DEF LoopInv
  <2>5. Looked(u)'
    BY <1>1, <2>2, <2>3, <2>4 DEF Looked, queues, flags
  <2>6. Called(u)'
    BY <1>1, <2>1, <2>4 DEF Called, flags, ctlVars
  <2> QED BY <2>5, <2>6
<1> QED BY <1>3, <1>4 DEF LoopInv

LEMMA LoopMark ==
  ASSUME LoopInv, NEW x \in Actors, MarkQueuedWork(x)
  PROVE  LoopInv'
<1>1. PICK w \in Workers : w = push[x].to
  BY DEF LoopInv, LoopTypeOK
<1>2. /\ push[x].at = "mark" /\ Step(x, "notify")
      /\ hasQueuedWork' = [hasQueuedWork EXCEPT ![w] = TRUE]
      /\ UNCHANGED <<queues, immediate, immediateTask, pc, locals, ctlVars>>
  BY <1>1 DEF MarkQueuedWork, InCall, Set
<1>3. /\ push' \in [Actors -> Calls] /\ push'[x].at = "notify" /\ push'[x].to = w
      /\ \A y \in Actors \ {x} : push'[y] = push[y]
  BY <1>1, <1>2, MoveType DEF LoopInv, PushPcs
<1>4. /\ hasQueuedWork' \in [Workers -> BOOLEAN] /\ hasQueuedWork'[w]
      /\ \A u \in Workers \ {w} : hasQueuedWork'[u] = hasQueuedWork[u]
  BY <1>2 DEF LoopInv, LoopTypeOK
<1>5. LoopTypeOK'
  BY <1>2, <1>3, <1>4 DEF LoopInv, LoopTypeOK, Calls, queues, locals, ctlVars
<1>6. ASSUME NEW u \in Workers PROVE Looked(u)' /\ Called(u)'
  <2>1. Coming(u, "notify") => Coming(u, "notify")'
    BY <1>2, <1>3, MoveComing
  <2>2. Coming(u, "core_immediate") => Coming(u, "core_immediate")'
    BY <1>2, <1>3, MoveComing
  <2>3. Queued(u) => Queued(u)'
    <3>1. CASE u = w
      BY <1>4, <3>1 DEF Queued
    <3>2. CASE u # w
      BY <1>1, <1>3, <1>4, <3>2 DEF Queued, Coming
    <3> QED BY <3>1, <3>2
  <2>4. Looked(u) /\ Called(u)
    BY DEF LoopInv
  <2>5. Looked(u)'
    BY <1>2, <2>2, <2>3, <2>4 DEF Looked, queues
  <2>6. Called(u)'
    <3>1. u = w => Coming(u, "notify")'
      BY <1>3 DEF Coming
    <3> QED BY <1>2, <1>4, <2>1, <2>4, <3>1 DEF Called, ctlVars
  <2> QED BY <2>5, <2>6
<1> QED BY <1>5, <1>6 DEF LoopInv

\* NotifyWorker finds its worker asleep, or not between test and sleep.
LEMMA LoopNotify ==
  ASSUME LoopInv, NEW x \in Actors, NotifyTarget(x)
  PROVE  LoopInv'
<1>1. PICK w \in Workers : w = push[x].to
  BY DEF LoopInv, LoopTypeOK
<1>2. /\ push[x].at = "notify" /\ push' = [push EXCEPT ![x] = Idle] /\ pc[w] # "blocking"
      /\ pc' = IF pc[w] = "blocked" THEN [pc EXCEPT ![w] = "lock"] ELSE pc
      /\ UNCHANGED <<queues, flags, locals, ctlVars>>
  BY <1>1 DEF NotifyTarget, NotifyWorker, Wake, InCall, Return, Set
<1>3. push' \in [Actors -> Calls] /\ \A y \in Actors \ {x} : push'[y] = push[y]
  BY <1>2, IdleType, StartType DEF LoopInv
<1>4. /\ pc' \in [Workers -> WorkerPcs] /\ pc'[w] \notin Asleep
      /\ pc'[w] = pc[w] \/ (pc[w] = "blocked" /\ pc'[w] = "lock")
      /\ \A u \in Workers \ {w} : pc'[u] = pc[u]
  BY <1>2 DEF LoopInv, LoopTypeOK, WorkerPcs, Asleep
<1>5. LoopTypeOK'
  BY <1>2, <1>3, <1>4 DEF LoopInv, LoopTypeOK, Calls, queues, flags, locals, ctlVars
<1>6. ASSUME NEW u \in Workers PROVE Looked(u)' /\ Called(u)'
  <2>1. \A a \in Notices \ {"notify"} : Coming(u, a) => Coming(u, a)'
    BY <1>2, <1>3, MoveComing
  <2>2. CASE u # w
    <3>1. \A a \in Notices : Coming(u, a) => Coming(u, a)'
      BY <1>1, <1>3, <2>2, MoveComing
    <3> QED BY <1>2, <1>4, <2>2, <3>1, WorkerKept DEF queues, flags, ctlVars
  <2>3. CASE u = w
    <3>1. Looked(u)
      BY DEF LoopInv
    <3>2. Queued(u) => Queued(u)'
      BY <1>2, <2>1 DEF Queued, Notices, flags
    <3>3. Looked(u)'
      BY <1>2, <1>4, <2>1, <2>3, <3>1, <3>2
         DEF Looked, Search, Searched, Asleep, Notices, queues, flags
    <3> QED BY <1>4, <2>3, <3>3 DEF Called
  <2> QED BY <2>2, <2>3
<1> QED BY <1>5, <1>6 DEF LoopInv

LEMMA LoopCoreTask ==
  ASSUME LoopInv, NEW x \in Actors, CoreTask(x)
  PROVE  LoopInv'
<1>1. PICK w \in Workers, t \in TaskOrNone : w = push[x].to /\ t = push[x].task
  BY DEF LoopInv, LoopTypeOK
<1>2. /\ push[x].at = "core_task" /\ Step(x, "core_immediate")
      /\ immediateTask' = [immediateTask EXCEPT ![w] = t]
      /\ UNCHANGED <<queues, hasQueuedWork, immediate, pc, locals, ctlVars>>
  BY <1>1 DEF CoreTask, InCall, Set
<1>3. /\ push' \in [Actors -> Calls] /\ push'[x].at = "core_immediate" /\ push'[x].to = w
      /\ \A y \in Actors \ {x} : push'[y] = push[y]
  BY <1>1, <1>2, MoveType DEF LoopInv, PushPcs
<1>4. /\ immediateTask' \in [Workers -> TaskOrNone]
      /\ \A u \in Workers \ {w} : immediateTask'[u] = immediateTask[u]
  BY <1>2 DEF LoopInv, LoopTypeOK
<1>5. LoopTypeOK'
  BY <1>2, <1>3, <1>4 DEF LoopInv, LoopTypeOK, Calls, queues, locals, ctlVars
<1>6. ASSUME NEW u \in Workers PROVE Looked(u)' /\ Called(u)'
  <2>1. \A a \in Notices : Coming(u, a) => Coming(u, a)'
    BY <1>2, <1>3, ComingKept DEF Notices
  <2>2. CASE u # w
    BY <1>2, <1>4, <2>1, <2>2, WorkerKept DEF queues, ctlVars
  <2>3. CASE u = w
    <3>1. Coming(u, "core_immediate")'
      BY <1>3, <2>3 DEF Coming
    <3>2. Looked(u) /\ Called(u)
      BY DEF LoopInv
    <3>3. Queued(u) => Queued(u)'
      BY <1>2, <2>1 DEF Queued, Notices
    <3>4. Looked(u)'
      BY <1>2, <3>1, <3>2, <3>3 DEF Looked, queues
    <3>5. Called(u)'
      BY <1>2, <2>1, <3>2 DEF Called, ctlVars, Notices
    <3> QED BY <3>4, <3>5
  <2> QED BY <2>2, <2>3
<1> QED BY <1>5, <1>6 DEF LoopInv

LEMMA LoopCoreImmediate ==
  ASSUME LoopInv, NEW x \in Actors, CoreImmediate(x)
  PROVE  LoopInv'
<1>1. PICK w \in Workers : w = push[x].to
  BY DEF LoopInv, LoopTypeOK
<1>2. /\ push[x].at = "core_immediate" /\ Step(x, "notify")
      /\ immediate' = [immediate EXCEPT ![w] = TRUE]
      /\ pc' = IF pc[w] = "blocked" THEN [pc EXCEPT ![w] = "lock"] ELSE pc
      /\ UNCHANGED <<queues, hasQueuedWork, immediateTask, locals, ctlVars>>
  BY <1>1 DEF CoreImmediate, InCall, Set, Wake
<1>3. /\ push' \in [Actors -> Calls] /\ push'[x].at = "notify" /\ push'[x].to = w
      /\ \A y \in Actors \ {x} : push'[y] = push[y]
  BY <1>1, <1>2, MoveType DEF LoopInv, PushPcs
<1>4. /\ immediate' \in [Workers -> BOOLEAN] /\ immediate'[w]
      /\ \A u \in Workers \ {w} : immediate'[u] = immediate[u]
  BY <1>2 DEF LoopInv, LoopTypeOK
<1>5. /\ pc' \in [Workers -> WorkerPcs] /\ \A u \in Workers \ {w} : pc'[u] = pc[u]
      /\ pc'[w] = pc[w] \/ (pc[w] = "blocked" /\ pc'[w] = "lock")
  BY <1>2 DEF LoopInv, LoopTypeOK, WorkerPcs
<1>6. LoopTypeOK'
  BY <1>2, <1>3, <1>4, <1>5 DEF LoopInv, LoopTypeOK, Calls, queues, locals, ctlVars
<1>7. ASSUME NEW u \in Workers PROVE Looked(u)' /\ Called(u)'
  <2>1. \A a \in Notices \ {"core_immediate"} : Coming(u, a) => Coming(u, a)'
    BY <1>2, <1>3, MoveComing
  <2>2. CASE u # w
    <3>1. \A a \in Notices : Coming(u, a) => Coming(u, a)'
      BY <1>1, <1>3, <2>2, MoveComing
    <3> QED BY <1>2, <1>4, <1>5, <2>2, <3>1, WorkerKept DEF queues, ctlVars
  <2>3. CASE u = w
    <3>1. Coming(u, "notify")'
      BY <1>3, <2>3 DEF Coming
    <3>2. Looked(u) /\ Called(u)
      BY DEF LoopInv
    <3>3. Queued(u) => Queued(u)'
      BY <1>2, <2>1 DEF Queued, Notices
    <3>4. Looked(u)'
      BY <1>2, <1>4, <1>5, <2>3, <3>2, <3>3 DEF Looked, Searched, Asleep, queues
    <3>5. Called(u)'
      BY <1>2, <1>5, <2>3, <3>1, <3>2 DEF Called, Asleep, ctlVars
    <3> QED BY <3>4, <3>5
  <2> QED BY <2>2, <2>3
<1> QED BY <1>6, <1>7 DEF LoopInv
-----------------------------------------------------------------------------
(* Thread::Worker.                                                         *)

LEMMA OwnPc ==
  ASSUME LoopInv, NEW w \in Workers, NEW p \in WorkerPcs, At(w, p)
  PROVE  /\ pc' \in [Workers -> WorkerPcs] /\ pc'[w] = p
         /\ \A v \in Workers \ {w} : pc'[v] = pc[v]
BY DEF At, Set, LoopInv, LoopTypeOK

LEMMA OwnIdle ==
  ASSUME NEW w \in Workers, push[w] = Idle
  PROVE  push[w].at \notin Notices /\ w \in Actors
BY IdleType DEF Notices, Actors

LEMMA LoopRun ==
  ASSUME LoopInv, NEW w \in Workers,
         LoopTop(w) \/ GetFiber(w) \/ Reflag(w) \/ TaskFinished(w) \/ TaskParked(w) \/ AfterRun(w)
         \/ TakeImmediate(w) \/ ForgetImmediate(w) \/ UnflagImmediate(w)
  PROVE  LoopInv'
<1> USE DEF flags, locals, queues, ctlVars
<1>1. push[w].at \notin Notices
  BY OwnIdle DEF LoopTop, GetFiber, Reflag, TaskFinished, TaskParked, AfterRun, TakeImmediate, ForgetImmediate,
                 UnflagImmediate, WorkerAt
<1>2. PICK p \in {"immediate", "fiber", "exec", "exit", "ran", "top", "forget", "unflag"} : At(w, p)
  BY DEF LoopTop, GetFiber, Reflag, TaskFinished, TaskParked, AfterRun, TakeImmediate, ForgetImmediate,
         UnflagImmediate
<1>3. /\ pc' \in [Workers -> WorkerPcs] /\ pc'[w] \notin Search
      /\ \A v \in Workers \ {w} : pc'[v] = pc[v]
  BY <1>2, OwnPc DEF WorkerPcs, Search, Searched, Asleep
<1>4. UNCHANGED <<queues, batch, push, ctlVars>>
  BY DEF LoopTop, GetFiber, Reflag, TaskFinished, TaskParked, AfterRun, TakeImmediate, ForgetImmediate,
         UnflagImmediate
<1>5. /\ hasQueuedWork' \in [Workers -> BOOLEAN] /\ immediate' \in [Workers -> BOOLEAN]
      /\ immediateTask' \in [Workers -> TaskOrNone]
      /\ \A v \in Workers \ {w} : /\ immediateTask'[v] = immediateTask[v]
                                  /\ immediate'[v] = immediate[v]
                                  /\ hasQueuedWork'[v] = hasQueuedWork[v]
  BY DEF LoopTop, GetFiber, Reflag, TaskFinished, TaskParked, AfterRun, TakeImmediate, ForgetImmediate,
         UnflagImmediate, Set, LoopInv, LoopTypeOK, TaskOrNone
<1>6. taskToRun' \in [Workers -> TaskOrNone]
  BY DEF LoopTop, GetFiber, Reflag, TaskFinished, TaskParked, AfterRun, TakeImmediate, ForgetImmediate,
         UnflagImmediate, Set, LoopInv, LoopTypeOK, TaskOrNone
<1>7. LoopTypeOK'
  BY <1>3, <1>4, <1>5, <1>6 DEF LoopInv, LoopTypeOK
<1> QED BY <1>1, <1>3, <1>4, <1>5, <1>7, LoopKept

\* The task comes back: into the own deque, or into a Requeue call.
LEMMA LoopYield ==
  ASSUME LoopInv, NEW w \in Workers, TaskYielded(w)
  PROVE  LoopInv'
<1> USE DEF flags, locals, queues, ctlVars
<1>1. push[w].at \notin Notices
  BY OwnIdle DEF TaskYielded, WorkerAt
<1>2. /\ pc' \in [Workers -> WorkerPcs] /\ pc'[w] \notin Search
      /\ \A v \in Workers \ {w} : pc'[v] = pc[v]
  <2>1. At(w, "ran")
    BY DEF TaskYielded
  <2> QED BY <2>1, OwnPc DEF WorkerPcs, Search, Searched, Asleep
<1>3. UNCHANGED <<inbox, flags, locals, push, ctlVars>>
  BY DEF TaskYielded
<1>4. /\ deque' \in [Workers -> [Lanes -> Seq(TaskOrNone)]]
      /\ \A v \in Workers, m \in Lanes : v # w => deque'[v][m] = deque[v][m]
  <2>1. /\ deque \in [Workers -> [Lanes -> Seq(TaskOrNone)]] /\ "lo" \in Lanes
        /\ Append(deque[w]["lo"], taskToRun[w]) \in Seq(TaskOrNone)
    BY DEF LoopInv, LoopTypeOK, Lanes
  <2>2. deque' = [deque EXCEPT ![w]["lo"] = Append(deque[w]["lo"], taskToRun[w])]
    BY DEF TaskYielded
  <2> QED BY <2>1, <2>2, UpdateLane
<1>5. LoopTypeOK'
  BY <1>2, <1>3, <1>4 DEF LoopInv, LoopTypeOK
<1> QED BY <1>1, <1>2, <1>3, <1>4, <1>5, LoopKept

\* The task that was refused a fiber goes back, and stays in hand.
LEMMA LoopNoFiber ==
  ASSUME LoopInv, NEW w \in Workers, NoFiber(w)
  PROVE  LoopInv'
<1> USE DEF flags, locals, queues, ctlVars
<1>1. push[w].at \notin Notices
  BY OwnIdle DEF NoFiber, WorkerAt
<1>2. PICK p \in {"top", "reflag"} : At(w, p)
  BY DEF NoFiber
<1>3. /\ pc' \in [Workers -> WorkerPcs] /\ pc'[w] \notin Search
      /\ \A v \in Workers \ {w} : pc'[v] = pc[v]
  BY <1>2, OwnPc DEF WorkerPcs, Search, Searched, Asleep
<1>4. UNCHANGED <<inbox, hasQueuedWork, immediate, locals, push, ctlVars>>
  BY DEF NoFiber
<1>5. /\ deque' \in [Workers -> [Lanes -> Seq(TaskOrNone)]]
      /\ \A v \in Workers, m \in Lanes : v # w => deque'[v][m] = deque[v][m]
  <2>1. /\ deque \in [Workers -> [Lanes -> Seq(TaskOrNone)]] /\ "lo" \in Lanes
        /\ Append(deque[w]["lo"], taskToRun[w]) \in Seq(TaskOrNone)
    BY DEF LoopInv, LoopTypeOK, Lanes
  <2>2. \/ deque' = deque
        \/ deque' = [deque EXCEPT ![w]["lo"] = Append(deque[w]["lo"], taskToRun[w])]
    BY DEF NoFiber
  <2>3. CASE deque' = deque
    BY <2>1, <2>3
  <2>4. CASE deque' = [deque EXCEPT ![w]["lo"] = Append(deque[w]["lo"], taskToRun[w])]
    BY <2>1, <2>4, UpdateLane
  <2> QED BY <2>2, <2>3, <2>4
<1>6. /\ immediateTask' \in [Workers -> TaskOrNone]
      /\ \A v \in Workers \ {w} : immediateTask'[v] = immediateTask[v]
  <2>1. immediateTask' = immediateTask \/ immediateTask' = [immediateTask EXCEPT ![w] = taskToRun[w]]
    BY DEF NoFiber, Set
  <2> QED BY <2>1 DEF LoopInv, LoopTypeOK
<1>7. LoopTypeOK'
  BY <1>3, <1>4, <1>5, <1>6 DEF LoopInv, LoopTypeOK
<1> QED BY <1>1, <1>3, <1>4, <1>5, <1>6, <1>7, LoopKept

LEMMA LoopSignalled ==
  ASSUME LoopInv, NEW w \in Workers, TaskSignalled(w)
  PROVE  LoopInv'
<1> USE DEF flags, locals, queues, ctlVars
<1>1. push[w].at \notin Notices /\ w \in Actors
  BY OwnIdle DEF TaskSignalled, WorkerAt
<1>2. /\ pc' \in [Workers -> WorkerPcs] /\ pc'[w] \notin Search
      /\ \A v \in Workers \ {w} : pc'[v] = pc[v]
  <2>1. At(w, "ran")
    BY DEF TaskSignalled
  <2> QED BY <2>1, OwnPc DEF WorkerPcs, Search, Searched, Asleep
<1>3. UNCHANGED <<queues, flags, locals, ctlVars>>
  BY DEF TaskSignalled
<1>4. push' \in [Actors -> Calls] /\ \A y \in Actors \ {w} : push'[y] = push[y]
  <2>1. taskToRun[w] \in TaskOrNone /\ LaneOf(taskToRun[w]) \in Lanes
    BY DEF LoopInv, LoopTypeOK, LaneOf, Lanes
  <2>2. \E c \in Calls : push' = [push EXCEPT ![w] = c]
    BY <2>1, IdleType DEF TaskSignalled, StartRequeue, Start, Set, Calls, PushPcs
  <2> QED BY <1>1, <2>2, StartType DEF LoopInv
<1>5. LoopTypeOK'
  BY <1>2, <1>3, <1>4 DEF LoopInv, LoopTypeOK, Calls
<1> QED BY <1>1, <1>2, <1>3, <1>4, <1>5, LoopKept

\* The inboxes are emptied before an immediate task runs.
LEMMA LoopDrain ==
  ASSUME LoopInv, NEW w \in Workers, NEW l \in Lanes, NEW here, NEW next \in WorkerPcs \ Search,
         DrainInbox(w, l, here, next)
  PROVE  LoopInv'
<1> USE DEF flags, locals, queues, ctlVars
<1>1. push[w].at \notin Notices
  BY OwnIdle DEF DrainInbox, WorkerAt
<1>2. /\ pc' \in [Workers -> WorkerPcs] /\ pc'[w] \notin Search
      /\ \A v \in Workers \ {w} : pc'[v] = pc[v]
  <2>1. At(w, next)
    BY DEF DrainInbox
  <2> QED BY <2>1, OwnPc
<1>3. UNCHANGED <<deque, flags, taskToRun, push, ctlVars>>
  BY DEF DrainInbox
<1>4. /\ inbox' \in [Workers -> [Lanes -> Seq(TaskOrNone)]] /\ batch' \in [Workers -> Seq(TaskOrNone)]
      /\ \A v \in Workers, m \in Lanes : v # w => inbox'[v][m] = inbox[v][m]
  <2>1. /\ inbox \in [Workers -> [Lanes -> Seq(TaskOrNone)]] /\ batch \in [Workers -> Seq(TaskOrNone)]
        /\ inbox[w][l] \in Seq(TaskOrNone)
    BY DEF LoopInv, LoopTypeOK
  <2>2. AtMost(inbox[w][l]) \in Seq(TaskOrNone) /\ Beyond(inbox[w][l]) \in Seq(TaskOrNone)
    BY <2>1, BatchSplit
  <2>3. /\ inbox' = [inbox EXCEPT ![w][l] = Beyond(inbox[w][l])]
        /\ batch' = [batch EXCEPT ![w] = AtMost(inbox[w][l])]
    BY DEF DrainInbox, Set
  <2>4. batch' \in [Workers -> Seq(TaskOrNone)]
    BY <2>1, <2>2, <2>3, Update
  <2> QED BY <2>1, <2>2, <2>3, <2>4, UpdateLane
<1>5. LoopTypeOK'
  BY <1>2, <1>3, <1>4 DEF LoopInv, LoopTypeOK
<1> QED BY <1>1, <1>2, <1>3, <1>4, <1>5, LoopKept

LEMMA LoopRequeue ==
  ASSUME LoopInv, NEW w \in Workers, NEW here \in WorkerPcs \ Search, NEW next \in WorkerPcs \ Search,
         RequeueBatch(w, here, next)
  PROVE  LoopInv'
<1> USE DEF flags, locals, queues, ctlVars
<1>1. push[w].at \notin Notices /\ w \in Actors /\ pc[w] = here
  BY OwnIdle DEF RequeueBatch, WorkerAt
<1>2. UNCHANGED <<queues, flags, taskToRun, ctlVars>>
  BY DEF RequeueBatch
<1>3. CASE batch[w] = << >>
  <2>1. At(w, next) /\ UNCHANGED <<batch, push>>
    BY <1>3 DEF RequeueBatch
  <2>2. /\ pc' \in [Workers -> WorkerPcs] /\ pc'[w] \notin Search
        /\ \A v \in Workers \ {w} : pc'[v] = pc[v]
    BY <2>1, OwnPc
  <2>3. LoopTypeOK'
    BY <1>2, <2>1, <2>2 DEF LoopInv, LoopTypeOK
  <2> QED BY <1>1, <1>2, <2>1, <2>2, <2>3, LoopKept
<1>4. CASE batch[w] # << >>
  <2>1. /\ UNCHANGED pc /\ StartRequeue(w, Head(batch[w]))
        /\ batch' = [batch EXCEPT ![w] = Tail(batch[w])]
    BY <1>4 DEF RequeueBatch
  <2>2. /\ Head(batch[w]) \in TaskOrNone /\ Tail(batch[w]) \in Seq(TaskOrNone)
        /\ LaneOf(Head(batch[w])) \in Lanes
    BY <1>4 DEF LoopInv, LoopTypeOK, LaneOf, Lanes
  <2>3. batch' \in [Workers -> Seq(TaskOrNone)]
    BY <2>1, <2>2, Update DEF LoopInv, LoopTypeOK
  <2>4. push' \in [Actors -> Calls] /\ \A y \in Actors \ {w} : push'[y] = push[y]
    <3>1. \E c \in Calls : push' = [push EXCEPT ![w] = c]
      BY <2>1, <2>2, IdleType DEF StartRequeue, Start, Set, Calls, PushPcs
    <3> QED BY <1>1, <3>1, StartType DEF LoopInv
  <2>5. LoopTypeOK'
    BY <1>2, <2>1, <2>3, <2>4 DEF LoopInv, LoopTypeOK, Calls
  <2> QED BY <1>1, <1>2, <2>1, <2>4, <2>5, LoopKept
<1> QED BY <1>3, <1>4

\* A task found: in the own deque or in another's.
LEMMA LoopPop ==
  ASSUME LoopInv, NEW w \in Workers, NEW l \in Lanes, push[w] = Idle, PopBottom(w, l),
         UNCHANGED <<inbox, flags, batch, push, ctlVars>>
  PROVE  LoopInv'
<1> USE DEF flags, locals, queues, ctlVars
<1>1. push[w].at \notin Notices
  BY OwnIdle
<1>2. /\ pc' \in [Workers -> WorkerPcs] /\ pc'[w] \notin Search
      /\ \A v \in Workers \ {w} : pc'[v] = pc[v]
  <2>1. At(w, "top")
    BY DEF PopBottom
  <2> QED BY <2>1, OwnPc DEF WorkerPcs, Search, Searched, Asleep
<1>3. deque[w][l] \in Seq(TaskOrNone) /\ deque[w][l] # << >> /\ Len(deque[w][l]) \in Nat \ {0}
  BY DEF PopBottom, LoopInv, LoopTypeOK
<1>4. Front(deque[w][l]) \in Seq(TaskOrNone) /\ Last(deque[w][l]) \in TaskOrNone
  <2>1. \A i \in 1 .. Len(deque[w][l]) - 1 : deque[w][l][i] \in TaskOrNone
    BY <1>3
  <2> QED BY <1>3, <2>1, SubSeqProperties DEF Front, Last
<1>5. /\ deque' \in [Workers -> [Lanes -> Seq(TaskOrNone)]] /\ taskToRun' \in [Workers -> TaskOrNone]
      /\ \A v \in Workers, m \in Lanes : v # w => deque'[v][m] = deque[v][m]
  <2>1. deque \in [Workers -> [Lanes -> Seq(TaskOrNone)]] /\ taskToRun \in [Workers -> TaskOrNone]
    BY DEF LoopInv, LoopTypeOK
  <2>2. /\ deque' = [deque EXCEPT ![w][l] = Front(deque[w][l])]
        /\ taskToRun' = [taskToRun EXCEPT ![w] = Last(deque[w][l])]
    BY DEF PopBottom, Set
  <2>3. taskToRun' \in [Workers -> TaskOrNone]
    BY <1>4, <2>1, <2>2, Update
  <2> QED BY <1>4, <2>1, <2>2, <2>3, UpdateLane
<1>6. LoopTypeOK'
  BY <1>2, <1>5 DEF LoopInv, LoopTypeOK
<1> QED BY <1>1, <1>2, <1>5, <1>6, LoopKept

LEMMA LoopSteal ==
  ASSUME LoopInv, NEW w \in Workers, NEW v \in Workers, NEW l \in Lanes, Steal(w, v, l)
  PROVE  LoopInv'
<1> USE DEF flags, locals, queues, ctlVars
<1>1. push[w].at \notin Notices
  BY OwnIdle DEF Steal, WorkerAt
<1>2. /\ pc' \in [Workers -> WorkerPcs] /\ pc'[w] \notin Search
      /\ \A u \in Workers \ {w} : pc'[u] = pc[u]
  <2>1. At(w, "top")
    BY DEF Steal
  <2> QED BY <2>1, OwnPc DEF WorkerPcs, Search, Searched, Asleep
<1>3. /\ deque[v][l] \in Seq(TaskOrNone) /\ deque[v][l] # << >>
      /\ UNCHANGED <<inbox, flags, batch, push, ctlVars>>
  BY DEF Steal, LoopInv, LoopTypeOK
<1>4. Tail(deque[v][l]) \in Seq(TaskOrNone) /\ Head(deque[v][l]) \in TaskOrNone
  BY <1>3
<1>5. /\ deque' \in [Workers -> [Lanes -> Seq(TaskOrNone)]] /\ taskToRun' \in [Workers -> TaskOrNone]
      /\ \A u \in Workers, m \in Lanes : deque[u][m] = << >> => deque'[u][m] = << >>
  <2>1. deque \in [Workers -> [Lanes -> Seq(TaskOrNone)]] /\ taskToRun \in [Workers -> TaskOrNone]
    BY DEF LoopInv, LoopTypeOK
  <2>2. /\ deque' = [deque EXCEPT ![v][l] = Tail(deque[v][l])]
        /\ taskToRun' = [taskToRun EXCEPT ![w] = Head(deque[v][l])]
    BY DEF Steal, Set
  <2>3. taskToRun' \in [Workers -> TaskOrNone]
    BY <1>4, <2>1, <2>2, Update
  <2> QED BY <1>3, <1>4, <2>1, <2>2, <2>3, UpdateLane
<1>6. LoopTypeOK'
  BY <1>2, <1>3, <1>5 DEF LoopInv, LoopTypeOK
<1> QED BY <1>1, <1>2, <1>3, <1>5, <1>6, LoopKept

(* The search: nothing found at one place, on to the next.                 *)

LEMMA SearchKept ==
  ASSUME LoopInv, LoopTypeOK', NEW w \in Workers, Looked(w)', Called(w)',
         UNCHANGED <<flags, push, running, paused, toNotify>>,
         \A v \in Workers \ {w} :
           pc'[v] = pc[v] /\ \A l \in Lanes : inbox'[v][l] = inbox[v][l] /\ deque'[v][l] = deque[v][l]
  PROVE  LoopInv'
<1> SUFFICES ASSUME NEW v \in Workers, v # w PROVE Looked(v)' /\ Called(v)'
  BY DEF LoopInv
<1>1. \A at \in Notices : Coming(v, at) => Coming(v, at)'
  BY DEF Coming
<1> QED BY <1>1, WorkerKept DEF flags

\* Steps that only move the worker's program counter.
LEMMA LoopMove ==
  ASSUME LoopInv, NEW w \in Workers, NEW p \in WorkerPcs, At(w, p),
         UNCHANGED <<queues, flags, locals, push, ctlVars>>,
         Looked(w)', Called(w)'
  PROVE  LoopInv'
<1> USE DEF flags, locals, queues, ctlVars
<1>1. pc' \in [Workers -> WorkerPcs] /\ \A v \in Workers \ {w} : pc'[v] = pc[v]
  BY OwnPc
<1>2. LoopTypeOK'
  BY <1>1 DEF LoopInv, LoopTypeOK
<1> QED BY <1>1, <1>2, SearchKept

LEMMA SameComing ==
  ASSUME UNCHANGED <<push, flags>>, NEW w
  PROVE  (Queued(w)' <=> Queued(w)) /\ \A at : Coming(w, at)' <=> Coming(w, at)
BY DEF Queued, Coming, flags

LEMMA LoopSeeImmediate ==
  ASSUME LoopInv, NEW w \in Workers, SeeImmediate(w)
  PROVE  LoopInv'
<1>1. PICK p \in WorkerPcs : At(w, p) /\ p = IF immediateTask[w] = None THEN "local" ELSE "drain_hi"
  BY DEF SeeImmediate, WorkerPcs
<1>2. pc'[w] = p /\ UNCHANGED <<queues, flags, locals, push, ctlVars>>
  BY <1>1, OwnPc DEF SeeImmediate
<1>3. Looked(w)' /\ Called(w)'
  BY <1>1, <1>2 DEF Looked, Called, Search, Searched, Asleep, flags
<1> QED BY <1>1, <1>2, <1>3, LoopMove

LEMMA LoopStealMiss ==
  ASSUME LoopInv, NEW w \in Workers, StealMiss(w)
  PROVE  LoopInv'
<1>1. pc[w] = "steal" /\ At(w, "inbox_hi") /\ UNCHANGED <<queues, flags, locals, push, ctlVars>>
  BY DEF StealMiss, WorkerAt
<1>2. "inbox_hi" \in WorkerPcs /\ pc'[w] = "inbox_hi"
  BY <1>1, OwnPc DEF WorkerPcs
<1>3. Looked(w)
  BY DEF LoopInv
<1>4. Looked(w)' /\ Called(w)'
  BY <1>1, <1>2, <1>3, SameComing DEF Looked, Called, Search, Searched, Asleep, flags, queues
<1> QED BY <1>1, <1>2, <1>4, LoopMove

LEMMA LoopPopLocal ==
  ASSUME LoopInv, NEW w \in Workers, PopLocal(w)
  PROVE  LoopInv'
<1>0. /\ pc[w] = "local" /\ push[w] = Idle /\ "hi" \in Lanes /\ "lo" \in Lanes
      /\ UNCHANGED <<inbox, flags, isHandlingFork, batch, push, ctlVars>>
  BY DEF PopLocal, WorkerAt, Lanes
<1>1. CASE PopBottom(w, "hi") \/ PopBottom(w, "lo")
  BY <1>0, <1>1, LoopPop
<1>2. CASE /\ deque[w]["hi"] = << >> /\ deque[w]["lo"] = << >>
           /\ At(w, "steal") /\ UNCHANGED <<deque, taskToRun>>
  <2>1. "steal" \in WorkerPcs /\ pc'[w] = "steal" /\ Looked(w)
    BY <1>2, OwnPc DEF WorkerPcs, LoopInv
  <2>2. Looked(w)' /\ Called(w)'
    BY <1>0, <1>2, <2>1, SameComing DEF Looked, Called, Search, Searched, Asleep, flags
  <2> QED BY <1>0, <1>2, <2>1, <2>2, LoopMove DEF queues, locals
<1> QED BY <1>1, <1>2 DEF PopLocal

\* One lane of the inbox goes into the deque; with InboxesFit nothing stays.
LEMMA LoopPull ==
  ASSUME LoopInv, InboxesFit, NEW w \in Workers,
         NEW l \in Lanes, NEW here \in WorkerPcs, NEW found \in WorkerPcs, NEW next \in WorkerPcs,
         PullInbox(w, l, here, found, next),
         \/ l = "hi" /\ here = "inbox_hi" /\ found = "pulled_hi" /\ next = "inbox_lo"
         \/ l = "lo" /\ here = "inbox_lo" /\ found = "pulled_lo" /\ next = "lock"
  PROVE  LoopInv'
<1> USE DEF locals, ctlVars
<1>1. /\ inbox \in [Workers -> [Lanes -> Seq(TaskOrNone)]] /\ inbox[w][l] \in Seq(TaskOrNone)
      /\ deque \in [Workers -> [Lanes -> Seq(TaskOrNone)]] /\ deque[w][l] \in Seq(TaskOrNone)
      /\ pc[w] = here /\ UNCHANGED <<flags, locals, push, ctlVars>>
  BY DEF LoopInv, LoopTypeOK, PullInbox, WorkerAt
<1>2. PICK b \in Seq(TaskOrNone) : b = AtMost(inbox[w][l])
  BY <1>1, BatchSplit
<1>3. Beyond(inbox[w][l]) = << >> /\ (inbox[w][l] = << >> => b = << >>)
  BY <1>1, <1>2, BatchSplit DEF InboxesFit
<1>4. /\ deque' = [deque EXCEPT ![w][l] = deque[w][l] \o b]
      /\ inbox' = [inbox EXCEPT ![w][l] = << >>]
  BY <1>2, <1>3 DEF PullInbox
<1>5. deque[w][l] \o b \in Seq(TaskOrNone) /\ << >> \in Seq(TaskOrNone)
  BY <1>1
<1>6. /\ inbox' \in [Workers -> [Lanes -> Seq(TaskOrNone)]]
      /\ \A v \in Workers, m \in Lanes : inbox'[v][m] = IF v = w /\ m = l THEN << >> ELSE inbox[v][m]
  BY <1>1, <1>4, <1>5, UpdateLane
<1>7. /\ deque' \in [Workers -> [Lanes -> Seq(TaskOrNone)]]
      /\ \A v \in Workers, m \in Lanes :
           deque'[v][m] = IF v = w /\ m = l THEN deque[w][l] \o b ELSE deque[v][m]
  BY <1>1, <1>4, <1>5, UpdateLane
<1>8. PICK p \in {found, next} : At(w, p) /\ p = IF inbox[w][l] = << >> THEN next ELSE found
  BY DEF PullInbox
<1>9. /\ pc' \in [Workers -> WorkerPcs] /\ pc'[w] = p /\ \A v \in Workers \ {w} : pc'[v] = pc[v]
  BY <1>8, OwnPc
<1>10. LoopTypeOK'
  BY <1>1, <1>6, <1>7, <1>9 DEF LoopInv, LoopTypeOK, flags
<1>11. inbox[w][l] = << >> => deque'[w][l] = deque[w][l]
  BY <1>1, <1>3, <1>7, ConcatEmptySeq
<1>12. Looked(w) /\ (Queued(w)' <=> Queued(w)) /\ \A at : Coming(w, at)' <=> Coming(w, at)
  BY <1>1, SameComing DEF LoopInv
<1>13. /\ inbox'[w][l] = << >>
       /\ \A m \in Lanes : m # l => inbox'[w][m] = inbox[w][m] /\ deque'[w][m] = deque[w][m]
       /\ "hi" \in Lanes /\ "lo" \in Lanes
  BY <1>6, <1>7 DEF Lanes
<1>14. pc'[w] \notin Asleep
  BY <1>8, <1>9 DEF Asleep
<1>15. Looked(w)'
  <2>1. CASE l = "hi"
    BY <1>1, <1>8, <1>9, <1>11, <1>12, <1>13, <2>1 DEF Looked, Search, Searched, Asleep, flags
  <2>2. CASE l = "lo"
    BY <1>1, <1>8, <1>9, <1>11, <1>12, <1>13, <2>2 DEF Looked, Search, Searched, Asleep, flags
  <2> QED BY <2>1, <2>2 DEF Lanes
<1>16. \A v \in Workers \ {w} : pc'[v] = pc[v] /\ \A m \in Lanes : inbox'[v][m] = inbox[v][m] /\ deque'[v][m] = deque[v][m]
  BY <1>6, <1>7, <1>9
<1> QED BY <1>1, <1>10, <1>14, <1>15, <1>16, SearchKept DEF Called

LEMMA LoopPopPulled ==
  ASSUME LoopInv, NEW w \in Workers,
         NEW l \in Lanes, NEW here \in WorkerPcs, NEW next \in WorkerPcs,
         PopPulled(w, l, here, next),
         \/ l = "hi" /\ here = "pulled_hi" /\ next = "inbox_lo"
         \/ l = "lo" /\ here = "pulled_lo" /\ next = "lock"
  PROVE  LoopInv'
<1>0. /\ pc[w] = here /\ push[w] = Idle /\ UNCHANGED <<inbox, flags, isHandlingFork, batch, push, ctlVars>>
  BY DEF PopPulled, WorkerAt
<1>1. CASE PopBottom(w, l)
  BY <1>0, <1>1, LoopPop
<1>2. CASE deque[w][l] = << >> /\ At(w, next) /\ UNCHANGED <<deque, taskToRun>>
  <2>1. pc'[w] = next /\ Looked(w)
    BY <1>2, OwnPc DEF LoopInv
  <2>2. Looked(w)' /\ Called(w)'
    BY <1>0, <1>2, <2>1, SameComing DEF Looked, Called, Search, Searched, Asleep, flags
  <2> QED BY <1>0, <1>2, <2>2, LoopMove DEF queues, locals
<1> QED BY <1>1, <1>2 DEF PopPulled

LEMMA LoopTestSleep ==
  ASSUME LoopInv, NEW w \in Workers, TestSleep(w)
  PROVE  LoopInv'
<1>1. /\ pc[w] = "lock" /\ UNCHANGED <<queues, flags, locals, push, ctlVars>>
      /\ Looked(w)
  BY DEF TestSleep, WorkerAt, LoopInv
<1>2. CASE ~HasReason(w)
  <2>1. At(w, "blocking") /\ "blocking" \in WorkerPcs
    BY <1>2 DEF TestSleep, HasReason, WorkerPcs
  <2>2. pc'[w] = "blocking"
    BY <2>1, OwnPc
  <2>3. Looked(w)'
    BY <1>1, <2>2, SameComing DEF Looked, Search, Searched, flags, queues
  <2>4. Called(w)'
    BY <1>1, <1>2 DEF Called, HasReason, flags, ctlVars
  <2> QED BY <1>1, <2>1, <2>3, <2>4, LoopMove
<1>3. CASE HasReason(w)
  <2>1. PICK p \in {"exit", "top"} : At(w, p)
    BY <1>3 DEF TestSleep
  <2>2. p \in WorkerPcs /\ pc'[w] = p
    BY <2>1, OwnPc DEF WorkerPcs
  <2>3. Looked(w)' /\ Called(w)'
    BY <2>1, <2>2 DEF Looked, Called, Search, Searched, Asleep
  <2> QED BY <1>1, <2>1, <2>2, <2>3, LoopMove
<1> QED BY <1>2, <1>3

LEMMA LoopBlock ==
  ASSUME LoopInv, NEW w \in Workers, Block(w)
  PROVE  LoopInv'
<1>1. /\ pc[w] = "blocking" /\ At(w, "blocked") /\ "blocked" \in WorkerPcs
      /\ UNCHANGED <<queues, flags, locals, push, ctlVars>> /\ Looked(w) /\ Called(w)
  BY DEF Block, WorkerAt, LoopInv, WorkerPcs
<1>2. pc'[w] = "blocked"
  BY <1>1, OwnPc
<1>3. Looked(w)'
  BY <1>1, <1>2, SameComing DEF Looked, Search, Searched, Asleep, flags, queues
<1>4. Called(w)'
  BY <1>1, <1>2, SameComing DEF Called, Asleep, flags, ctlVars
<1> QED BY <1>1, <1>3, <1>4, LoopMove
-----------------------------------------------------------------------------
(* Pause, Resume and Join.                                                 *)

LEMMA LoopControl ==
  ASSUME LoopInv, Pause \/ Resume \/ Join \/ \E w \in Workers : Joined(w)
  PROVE  LoopInv'
<1>1. UNCHANGED <<queues, flags, pc, locals, push, running>>
  BY DEF Pause, Resume, Join, Joined
<1>2. (paused => paused' \/ toNotify' = Workers) /\ (toNotify' = toNotify \/ toNotify' = Workers)
  BY DEF Pause, Resume, Join, Joined
<1>3. LoopTypeOK'
  BY <1>1 DEF LoopInv, LoopTypeOK, queues, flags, locals
<1>4. ASSUME NEW w \in Workers PROVE Looked(w)' /\ Called(w)'
  <2>1. Looked(w) /\ Called(w)
    BY DEF LoopInv
  <2>2. Looked(w)'
    BY <1>1, <2>1, SameComing DEF Looked, queues, flags
  <2>3. Called(w)'
    BY <1>1, <1>2, <2>1, SameComing DEF Called, flags
  <2> QED BY <2>2, <2>3
<1> QED BY <1>3, <1>4 DEF LoopInv

LEMMA LoopNotifyAll ==
  ASSUME LoopInv, NEW w \in Workers, NotifyAll(w)
  PROVE  LoopInv'
<1>1. /\ pc[w] # "blocking" /\ toNotify' = toNotify \ {w}
      /\ pc' = IF pc[w] = "blocked" THEN [pc EXCEPT ![w] = "lock"] ELSE pc
      /\ UNCHANGED <<queues, flags, locals, push, running, paused>>
  BY DEF NotifyAll, NotifyWorker, Wake, Set
<1>2. /\ pc' \in [Workers -> WorkerPcs] /\ pc'[w] \notin Asleep
      /\ pc'[w] = pc[w] \/ (pc[w] = "blocked" /\ pc'[w] = "lock")
      /\ \A u \in Workers \ {w} : pc'[u] = pc[u]
  BY <1>1 DEF LoopInv, LoopTypeOK, WorkerPcs, Asleep
<1>3. LoopTypeOK'
  BY <1>1, <1>2 DEF LoopInv, LoopTypeOK, queues, flags, locals
<1>4. ASSUME NEW u \in Workers PROVE Looked(u)' /\ Called(u)'
  <2>1. Looked(u) /\ Called(u)
    BY DEF LoopInv
  <2>2. Looked(u)'
    BY <1>1, <1>2, <2>1, SameComing DEF Looked, Search, Searched, Asleep, queues, flags
  <2>3. Called(u)'
    <3>1. CASE u = w
      BY <1>2, <3>1 DEF Called
    <3>2. CASE u # w
      BY <1>1, <1>2, <2>1, <3>2, SameComing DEF Called, flags
    <3> QED BY <3>1, <3>2
  <2> QED BY <2>2, <2>3
<1> QED BY <1>3, <1>4 DEF LoopInv

LEMMA LoopJoinWorker ==
  ASSUME LoopInv, NEW w \in Workers, JoinWorker(w)
  PROVE  LoopInv'
<1>1. /\ toNotify = {} /\ toNotify' = {w} /\ running' = [running EXCEPT ![w] = FALSE]
      /\ UNCHANGED <<queues, flags, pc, locals, push, paused>>
  BY DEF JoinWorker, Set
<1>2. running' \in [Workers -> BOOLEAN] /\ \A u \in Workers \ {w} : running'[u] = running[u]
  BY <1>1 DEF LoopInv, LoopTypeOK
<1>3. LoopTypeOK'
  BY <1>1, <1>2 DEF LoopInv, LoopTypeOK, queues, flags, locals
<1>4. ASSUME NEW u \in Workers PROVE Looked(u)' /\ Called(u)'
  <2>1. Looked(u) /\ Called(u)
    BY DEF LoopInv
  <2>2. Looked(u)'
    BY <1>1, <2>1, SameComing DEF Looked, queues, flags
  <2>3. Called(u)'
    BY <1>1, <1>2, <2>1, SameComing DEF Called, flags
  <2> QED BY <2>2, <2>3
<1> QED BY <1>3, <1>4 DEF LoopInv
-----------------------------------------------------------------------------
LEMMA LoopInitInv == Init => LoopInv
<1> SUFFICES ASSUME Init PROVE LoopInv
  OBVIOUS
<1>1. LoopTypeOK
  BY IdleType DEF Init, LoopTypeOK, Calls, WorkerPcs, TaskOrNone
<1>2. \A w \in Workers : Looked(w) /\ Called(w)
  BY DEF Init, Looked, Called, Searched, Asleep
<1> QED BY <1>1, <1>2 DEF LoopInv

LEMMA LoopWorker ==
  ASSUME LoopInv, InboxesFit, NEW w \in Workers, WorkerCode(w)
  PROVE  LoopInv'
<1>1. CASE DrainInboxes(w)
  <2>1. /\ "hi" \in Lanes /\ "lo" \in Lanes
        /\ {"drain_hi", "requeue_hi", "drain_lo", "requeue_lo", "take"} \subseteq WorkerPcs \ Search
    BY DEF Lanes, WorkerPcs, Search, Searched, Asleep
  <2> QED BY <1>1, <2>1, LoopDrain, LoopRequeue DEF DrainInboxes
<1>2. CASE PullInboxes(w)
  <2>1. /\ "hi" \in Lanes /\ "lo" \in Lanes
        /\ {"inbox_hi", "pulled_hi", "inbox_lo", "pulled_lo", "lock"} \subseteq WorkerPcs
    BY DEF Lanes, WorkerPcs
  <2> QED BY <1>2, <2>1, LoopPull, LoopPopPulled DEF PullInboxes
<1> QED BY <1>1, <1>2, LoopRun, LoopNoFiber, LoopYield, LoopSignalled, LoopSeeImmediate, LoopPopLocal,
           LoopStealMiss, LoopSteal, LoopTestSleep, LoopBlock DEF WorkerCode

LEMMA LoopStep == LoopInv /\ InboxesFit /\ [Next]_vars => LoopInv'
<1> SUFFICES ASSUME LoopInv, InboxesFit, [Next]_vars PROVE LoopInv'
  OBVIOUS
<1>1. ASSUME NEW x \in Actors, Submit(x) \/ \E t \in Tasks : ResumeTask(x, t) PROVE LoopInv'
  BY <1>1, LoopCall DEF Submit
<1>2. ASSUME NEW x \in Actors, PushStep(x) PROVE LoopInv'
  BY <1>2, LoopPushEarly, LoopPutInbox, LoopCountTask, LoopMark, LoopNotify, LoopCoreTask,
     LoopCoreImmediate DEF PushStep
<1>3. ASSUME NEW x \in Actors, NEW v \in Workers, NEW l \in Lanes, HelpSteal(x, v, l) PROVE LoopInv'
  BY <1>3, LoopHelpSteal
<1>4. ASSUME NEW w \in Workers, WorkerCode(w) PROVE LoopInv'
  BY <1>4, LoopWorker
<1>5. CASE Control \/ Pause \/ Join
  BY <1>5, LoopControl, LoopNotifyAll, LoopJoinWorker DEF Control
<1>6. CASE UNCHANGED vars
  BY <1>6 DEF vars, queues, flags, locals, ctlVars, LoopInv, LoopTypeOK, Looked, Called, Queued,
              Coming
<1> QED BY <1>1, <1>2, <1>3, <1>4, <1>5, <1>6 DEF Next

\* As long as no inbox holds more than BATCH_SIZE tasks, no worker sleeps on
\* work: hasQueuedWork is cleared before the search, raised after the push, and
\* the notify cannot fall between the test of the predicate and the sleep.  The
\* condition is needed: the rest of a longer inbox is what thieves can strand.
THEOREM WorkersWake == Spec /\ []InboxesFit => []NoLostWakeup
<1>1. LoopInv => NoLostWakeup
  <2> SUFFICES ASSUME LoopInv, NEW w \in Workers, pc[w] \in Asleep, ~paused, w \notin toNotify,
                      \A x \in Actors : push[x].to = w =>
                        push[x].at \notin {"count", "mark", "notify", "core_immediate"}
               PROVE  \A l \in Lanes : inbox[w][l] = << >> /\ deque[w][l] = << >>
                        /\ immediateTask[w] = None /\ running[w]
    BY DEF NoLostWakeup, Asleep
  <2>1. \A at \in Notices : ~Coming(w, at)
    BY DEF Coming, Notices
  <2>2. Called(w) /\ Looked(w)
    BY DEF LoopInv
  <2>3. ~immediate[w] /\ ~hasQueuedWork[w] /\ running[w]
    BY <2>1, <2>2 DEF Called, Notices
  <2>4. ~Queued(w)
    BY <2>1, <2>3 DEF Queued, Notices
  <2>5. /\ inbox[w]["hi"] = << >> /\ inbox[w]["lo"] = << >> /\ deque[w]["hi"] = << >>
        /\ deque[w]["lo"] = << >> /\ immediateTask[w] = None
    BY <2>1, <2>2, <2>3, <2>4 DEF Looked, Search, Searched, Notices
  <2> QED BY <2>3, <2>5 DEF Lanes
<1> QED BY <1>1, LoopInitInv, LoopStep, PTL DEF Spec
-----------------------------------------------------------------------------
(* Where the tasks are.  Types and what a worker's program counter says    *)
(* about its locals.                                                       *)

\* A call in progress has a task of the kind that its steps are for.
GoodCalls ==
  {c \in Calls :
     /\ IF c.at = "idle" THEN c = Idle ELSE c.task \in Tasks
     /\ c.at \in {"core_set", "core_task"} => c.task \in Immediates
     /\ c.at \in {"fork_set", "fork_count"} => c.task \in Forked
     /\ c.at \in {"check", "fork_set", "fork_count"} => c.new}

TaskTypeOK ==
  /\ inbox \in [Workers -> [Lanes -> Seq(Tasks)]] /\ deque \in [Workers -> [Lanes -> Seq(Tasks)]]
  /\ batch \in [Workers -> Seq(Tasks)]
  /\ immediateTask \in [Workers -> TaskOrNone] /\ taskToRun \in [Workers -> TaskOrNone]
  /\ immediateCoresInUse \in [Workers -> BOOLEAN] /\ isHandlingFork \in [Workers -> BOOLEAN]
  /\ pc \in [Workers -> WorkerPcs] /\ push \in [Actors -> GoodCalls]
  /\ phase \in [Tasks -> {"absent", "new", "live", "refused", "done"}]
  /\ parked \subseteq Tasks /\ pendingTasks \in Int

HasTask == {"fiber", "exec", "ran", "forget", "unflag"}
SeenImmediate == {"drain_hi", "requeue_hi", "drain_lo", "requeue_lo", "take", "forget"}
LocalInv(w) ==
  /\ batch[w] # << >> => pc[w] \in {"requeue_hi", "requeue_lo"}
  /\ pc[w] \notin HasTask \cup {"top", "exit"} => taskToRun[w] = None
  /\ pc[w] \in HasTask => taskToRun[w] # None
  /\ pc[w] \in SeenImmediate => immediateTask[w] # None
  /\ immediateTask[w] # None => immediateTask[w] \in Immediates
  /\ pc[w] \in {"forget", "unflag"} \/ (isHandlingFork[w] /\ pc[w] # "ran") => taskToRun[w] \in Immediates
  /\ isHandlingFork[w] => pc[w] \in {"top", "fiber", "exec", "ran", "exit"}
  /\ pc[w] # "reflag"

TaskInv == TaskTypeOK /\ \A w \in Workers : LocalInv(w)

LEMMA LocalKept ==
  ASSUME NEW w, LocalInv(w), batch'[w] = batch[w], taskToRun'[w] = taskToRun[w],
         immediateTask'[w] = immediateTask[w], isHandlingFork'[w] = isHandlingFork[w],
         pc'[w] = pc[w] \/ (pc[w] = "blocked" /\ pc'[w] = "lock")
  PROVE  LocalInv(w)'
BY DEF LocalInv, HasTask, SeenImmediate

\* The record of a call that begins.
LEMMA CallGood ==
  ASSUME NEW t \in Tasks, NEW w \in Workers, NEW l \in Lanes, NEW n \in BOOLEAN,
         NEW at \in PushPcs \ {"idle"},
         at \in {"core_set", "core_task"} => t \in Immediates,
         at \in {"fork_set", "fork_count"} => t \in Forked,
         at \in {"check", "fork_set", "fork_count"} => n
  PROVE  [at |-> at, task |-> t, to |-> w, lane |-> l, new |-> n] \in GoodCalls
BY CallType DEF GoodCalls, TaskOrNone

LEMMA IdleGood == Idle \in GoodCalls /\ Idle.at = "idle" /\ Idle.task = None /\ Idle.new = FALSE
BY IdleType DEF GoodCalls, Idle

LEMMA PushUpdate ==
  ASSUME TaskTypeOK, NEW x \in Actors, NEW c \in GoodCalls, push' = [push EXCEPT ![x] = c]
  PROVE  /\ push' \in [Actors -> GoodCalls] /\ push'[x] = c
         /\ \A y \in Actors \ {x} : push'[y] = push[y]
BY DEF TaskTypeOK

\* x goes on to the next place of its call.
LEMMA StepGood ==
  ASSUME TaskTypeOK, NEW x \in Actors, NEW at \in PushPcs \ {"idle"}, Step(x, at), push[x].at # "idle",
         at \in {"core_set", "core_task"} => push[x].task \in Immediates,
         at \notin {"fork_set", "check"},
         at = "fork_count" => push[x].task \in Forked /\ push[x].new
  PROVE  /\ push' \in [Actors -> GoodCalls] /\ push'[x].at = at
         /\ push'[x].task = push[x].task /\ push'[x].to = push[x].to
         /\ push'[x].lane = push[x].lane /\ push'[x].new = push[x].new
         /\ \A y \in Actors \ {x} : push'[y] = push[y]
<1>1. push[x] \in GoodCalls /\ push[x] \in Calls /\ push[x].task \in Tasks
  BY DEF TaskTypeOK, GoodCalls
<1>2. PICK c : c = [push[x] EXCEPT !.at = at]
  OBVIOUS
<1>3. /\ c \in Calls /\ c.at = at /\ c.task = push[x].task /\ c.to = push[x].to
      /\ c.lane = push[x].lane /\ c.new = push[x].new
  BY <1>1, <1>2 DEF Calls
<1>4. c \in GoodCalls
  BY <1>1, <1>3 DEF GoodCalls
<1>5. push' = [push EXCEPT ![x] = c]
  BY <1>2 DEF Step
<1> QED BY <1>3, <1>4, <1>5, PushUpdate

\* Calls that leave the workers' locals alone.
LEMMA CallTyped ==
  ASSUME TaskInv, push' \in [Actors -> GoodCalls],
         UNCHANGED <<queues, immediateTask, pc, locals>>,
         immediateCoresInUse' \in [Workers -> BOOLEAN],
         phase' \in [Tasks -> {"absent", "new", "live", "refused", "done"}],
         parked' \subseteq Tasks, pendingTasks' \in Int
  PROVE  TaskInv'
<1>1. TaskTypeOK'
  BY DEF TaskInv, TaskTypeOK, queues, locals
<1>2. \A w \in Workers : LocalInv(w)'
  BY LocalKept DEF TaskInv, locals
<1> QED BY <1>1, <1>2 DEF TaskInv

\* What the calls begin with.
LEMMA Defaults == 0 \in Workers /\ "lo" \in Lanes /\ "hi" \in Lanes /\ \A t : LaneOf(t) \in Lanes
BY IdleType DEF LaneOf, Lanes

LEMMA NewPush ==
  ASSUME NEW x \in Actors, NEW t \in Tasks
  PROVE  CallPush(x, t) =>
           push' = [push EXCEPT ![x] = [at |-> "pick", task |-> t, to |-> 0, lane |-> LaneOf(t), new |-> TRUE]]
BY DEF CallPush, Start, Set, Idle

LEMMA NewPushTo ==
  ASSUME NEW x \in Actors, NEW t \in Tasks, NEW w \in Workers
  PROVE  CallPushTo(x, t, w) =>
           push' = [push EXCEPT ![x] = [at |-> "check", task |-> t, to |-> w, lane |-> "lo", new |-> TRUE]]
BY DEF CallPushTo, Start, Set, Idle

LEMMA NewPushFork ==
  ASSUME NEW x \in Actors, NEW t \in Tasks, NEW w \in Workers
  PROVE  CallPushFork(x, t, w) =>
           \E at \in {"fork_count", "fork_set"} :
           push' = [push EXCEPT ![x] = [at |-> at, task |-> t, to |-> w, lane |-> "lo", new |-> TRUE]]
BY DEF CallPushFork, Start, Set, Idle

LEMMA NewPushToCore ==
  ASSUME NEW x \in Actors, NEW t \in Tasks, NEW w \in Workers
  PROVE  CallPushToCore(x, t, w) =>
           push' = [push EXCEPT ![x] = [at |-> "core_set", task |-> t, to |-> w, lane |-> "lo", new |-> FALSE]]
BY DEF CallPushToCore, Start, Set, Idle

LEMMA NewRequeue ==
  ASSUME NEW x \in Actors, NEW t \in Tasks
  PROVE  StartRequeue(x, t) =>
           push' = [push EXCEPT ![x] = [at |-> "pick", task |-> t, to |-> 0, lane |-> LaneOf(t), new |-> FALSE]]
BY DEF StartRequeue, Start, Set, Idle

LEMMA NewHelp ==
  ASSUME NEW x \in Actors, NEW t \in Tasks
  PROVE  Start(x, [Idle EXCEPT !.at = "help", !.task = t]) =>
           push' = [push EXCEPT ![x] = [at |-> "help", task |-> t, to |-> 0, lane |-> "lo", new |-> FALSE]]
BY DEF Start, Set, Idle

\* A submission: the task is born into a call at one of these places.
Submits(x, t, w) == CallPush(x, t) \/ CallPushTo(x, t, w) \/ CallPushFork(x, t, w) \/ CallPushToCore(x, t, w)
LEMMA SubmitEffect ==
  ASSUME TaskInv, NEW x \in Actors, NEW t \in Tasks, NEW w \in Workers, Submits(x, t, w)
  PROVE  /\ push' \in [Actors -> GoodCalls] /\ \A y \in Actors \ {x} : push'[y] = push[y]
         /\ push[x] = Idle /\ push'[x].task = t
         /\ \/ push'[x].at \in {"pick", "check"} /\ push'[x].new
            \/ push'[x].at \in {"fork_set", "fork_count"} /\ t \in Forked
            \/ push'[x].at = "core_set" /\ push'[x].to = w /\ ~immediateCoresInUse[w]
         /\ phase[t] = "new" /\ phase' = [phase EXCEPT ![t] = "live"]
         /\ UNCHANGED <<queues, flags, pc, locals, parked, pendingTasks>>
<1>1. /\ push[x] = Idle /\ phase[t] = "new" /\ phase' = [phase EXCEPT ![t] = "live"]
      /\ UNCHANGED <<queues, flags, pc, locals, parked, pendingTasks>>
  BY DEF Submits, CallPush, CallPushTo, CallPushFork, CallPushToCore, Born, CanCall, Set
<1>2. TaskTypeOK
  BY DEF TaskInv
<1>3. CASE CallPush(x, t)
  <2>1. PICK c : c = [at |-> "pick", task |-> t, to |-> 0, lane |-> LaneOf(t), new |-> TRUE]
    OBVIOUS
  <2>2. push' = [push EXCEPT ![x] = c] /\ LaneOf(t) \in Lanes /\ 0 \in Workers
    BY <1>3, <2>1, NewPush, Defaults
  <2>3. c \in GoodCalls
    BY <2>1, <2>2, CallGood DEF PushPcs
  <2> QED BY <1>1, <1>2, <2>1, <2>2, <2>3, PushUpdate
<1>4. CASE CallPushTo(x, t, w)
  <2>1. PICK c : c = [at |-> "check", task |-> t, to |-> w, lane |-> "lo", new |-> TRUE]
    OBVIOUS
  <2>2. push' = [push EXCEPT ![x] = c] /\ "lo" \in Lanes
    BY <1>4, <2>1, NewPushTo, Defaults
  <2>3. c \in GoodCalls
    BY <2>1, <2>2, CallGood DEF PushPcs
  <2> QED BY <1>1, <1>2, <2>1, <2>2, <2>3, PushUpdate
<1>5. CASE CallPushFork(x, t, w)
  <2>1. PICK at \in {"fork_count", "fork_set"} :
          push' = [push EXCEPT ![x] = [at |-> at, task |-> t, to |-> w, lane |-> "lo", new |-> TRUE]]
    BY <1>5, NewPushFork
  <2>2. PICK c : c = [at |-> at, task |-> t, to |-> w, lane |-> "lo", new |-> TRUE]
    OBVIOUS
  <2>3. t \in Forked
    BY <1>5 DEF CallPushFork
  <2>4. push' = [push EXCEPT ![x] = c] /\ c \in GoodCalls
    BY <2>1, <2>2, <2>3, Defaults, CallGood DEF PushPcs
  <2> QED BY <1>1, <1>2, <2>2, <2>3, <2>4, PushUpdate
<1>6. CASE CallPushToCore(x, t, w)
  <2>1. PICK c : c = [at |-> "core_set", task |-> t, to |-> w, lane |-> "lo", new |-> FALSE]
    OBVIOUS
  <2>2. t \in Immediates /\ ~immediateCoresInUse[w]
    BY <1>6 DEF CallPushToCore
  <2>3. push' = [push EXCEPT ![x] = c] /\ "lo" \in Lanes
    BY <1>6, <2>1, NewPushToCore, Defaults
  <2>4. c \in GoodCalls
    BY <2>1, <2>2, <2>3, CallGood DEF PushPcs
  <2> QED BY <1>1, <1>2, <2>1, <2>2, <2>3, <2>4, PushUpdate
<1> QED BY <1>3, <1>4, <1>5, <1>6 DEF Submits

\* A Requeue begins.
LEMMA RequeueEffect ==
  ASSUME TaskTypeOK, NEW x \in Actors, NEW t \in Tasks, StartRequeue(x, t)
  PROVE  /\ push' \in [Actors -> GoodCalls] /\ \A y \in Actors \ {x} : push'[y] = push[y]
         /\ push'[x].task = t /\ push'[x].at = "pick" /\ push'[x].new = FALSE
<1>1. PICK c : c = [at |-> "pick", task |-> t, to |-> 0, lane |-> LaneOf(t), new |-> FALSE]
  OBVIOUS
<1>2. push' = [push EXCEPT ![x] = c] /\ c \in GoodCalls
  <2>1. push' = [push EXCEPT ![x] = c]
    BY <1>1, NewRequeue
  <2> QED BY <1>1, <2>1, Defaults, CallGood DEF PushPcs
<1> QED BY <1>1, <1>2, PushUpdate

\* Somebody is woken; nobody else's program counter moves.
Woken == \A w \in Workers : pc'[w] = pc[w] \/ (pc[w] = "blocked" /\ pc'[w] = "lock")

LEMMA WakeEffect ==
  ASSUME TaskTypeOK, NEW w \in Workers, Wake(w)
  PROVE  pc' \in [Workers -> WorkerPcs] /\ Woken
<1>1. pc' = IF pc[w] = "blocked" THEN [pc EXCEPT ![w] = "lock"] ELSE pc
  BY DEF Wake, Set
<1> QED BY <1>1 DEF TaskTypeOK, WorkerPcs, Woken

LEMMA CallTask ==
  ASSUME TaskTypeOK, NEW x \in Actors, push[x].at # "idle"
  PROVE  /\ push[x] \in GoodCalls /\ push[x] \in Calls /\ push[x].task \in Tasks /\ push[x].to \in Workers
         /\ push[x].lane \in Lanes /\ push[x].new \in BOOLEAN
BY DEF TaskTypeOK, GoodCalls, Calls

\* The steps of a call that neither put down nor pick up its task.
Quiet(x) ==
  \/ ForkSet(x) \/ ForkCount(x) \/ (CheckAffinity(x) /\ ~immediateCoresInUse[push[x].to])
  \/ (\E w \in Workers : PickWorker(x, w))
  \/ CountTask(x) \/ MarkQueuedWork(x) \/ NotifyTarget(x) \/ CoreSet(x) \/ CoreImmediate(x)

\* Where the call goes: the task is in it before and after, or neither.
LEMMA QuietPush ==
  ASSUME TaskTypeOK, NEW x \in Actors, Quiet(x)
  PROVE  /\ push' \in [Actors -> GoodCalls] /\ \A y \in Actors \ {x} : push'[y] = push[y]
         /\ push'[x].at \in BeforePut <=> push[x].at \in BeforePut
         /\ push[x].at \in BeforePut => push'[x].task = push[x].task /\ push'[x].new = push[x].new
<1> USE DEF BeforePut, PushPcs
<1>1. CASE ForkSet(x)
  <2>1. push[x].at = "fork_set" /\ Step(x, "fork_count")
    BY <1>1 DEF ForkSet, InCall
  <2>2. push[x].task \in Forked /\ push[x].new
    BY <2>1, CallTask DEF GoodCalls
  <2> QED BY <2>1, <2>2, StepGood
<1>2. CASE ForkCount(x)
  <2>1. /\ push[x] \in GoodCalls /\ push[x] \in Calls /\ push[x].at = "fork_count"
        /\ push[x].task \in Tasks /\ push[x].new /\ \A w \in Workers : w \in Int
    BY <1>2, CallTask DEF ForkCount, InCall, GoodCalls, Workers
  <2>2. \E at \in {"pick", "check"}, w \in Workers, l \in Lanes :
          push' = [push EXCEPT ![x] = [at |-> at, task |-> push[x].task, to |-> w, lane |-> l, new |-> TRUE]]
    <3>1. push[x] = [at |-> push[x].at, task |-> push[x].task, to |-> push[x].to,
                     lane |-> push[x].lane, new |-> TRUE]
      BY <2>1 DEF Calls
    <3>2. CASE push[x].to = 0
      <4>1. push' = [push EXCEPT ![x] = [at |-> "pick", task |-> push[x].task, to |-> push[x].to,
                                         lane |-> LaneOf(push[x].task), new |-> TRUE]]
        BY <1>2, <3>1, <3>2 DEF ForkCount
      <4>2. LaneOf(push[x].task) \in Lanes /\ push[x].to \in Workers
        BY <2>1 DEF LaneOf, Lanes, Calls
      <4> QED BY <4>1, <4>2
    <3>3. CASE push[x].to # 0
      <4>1. push' = [push EXCEPT ![x] = [at |-> "check", task |-> push[x].task, to |-> push[x].to - 1,
                                         lane |-> push[x].lane, new |-> TRUE]]
        BY <1>2, <3>1, <3>3 DEF ForkCount
      <4>2. push[x].lane \in Lanes /\ push[x].to - 1 \in Workers
        BY <2>1, <3>3, PoolBounds DEF Calls, Workers
      <4> QED BY <4>1, <4>2
    <3> QED BY <3>2, <3>3
  <2>3. PICK at \in {"pick", "check"}, w \in Workers, l \in Lanes :
          push' = [push EXCEPT ![x] = [at |-> at, task |-> push[x].task, to |-> w, lane |-> l, new |-> TRUE]]
    BY <2>2
  <2>4. PICK c : c = [at |-> at, task |-> push[x].task, to |-> w, lane |-> l, new |-> TRUE]
    OBVIOUS
  <2>5. c \in GoodCalls
    BY <2>1, <2>4, CallGood
  <2> QED BY <2>1, <2>3, <2>4, <2>5, PushUpdate
<1>3. CASE CheckAffinity(x) /\ ~immediateCoresInUse[push[x].to]
  <2>1. push[x].at = "check" /\ Step(x, "put")
    BY <1>3 DEF CheckAffinity, InCall
  <2> QED BY <2>1, StepGood
<1>4. ASSUME NEW w \in Workers, PickWorker(x, w)
      PROVE  /\ push' \in [Actors -> GoodCalls] /\ \A y \in Actors \ {x} : push'[y] = push[y]
             /\ push'[x].at \in BeforePut <=> push[x].at \in BeforePut
             /\ push[x].at \in BeforePut => push'[x].task = push[x].task /\ push'[x].new = push[x].new
  <2>1. push[x].at = "pick" /\ push' = [push EXCEPT ![x].at = "put", ![x].to = w]
    BY <1>4 DEF PickWorker, InCall
  <2>2. push[x] \in GoodCalls /\ push[x] \in Calls /\ push[x].task \in Tasks
    BY <2>1, CallTask
  <2>3. PICK c : c = [push[x] EXCEPT !.at = "put", !.to = w]
    OBVIOUS
  <2>4. push' = [push EXCEPT ![x] = c]
    BY <2>1, <2>3 DEF TaskTypeOK
  <2>5. c \in GoodCalls /\ c.at = "put" /\ c.task = push[x].task /\ c.new = push[x].new
    <3>1. c \in Calls /\ c.at = "put" /\ c.task = push[x].task /\ c.new = push[x].new
      BY <2>2, <2>3 DEF Calls
    <3> QED BY <2>2, <3>1 DEF GoodCalls
  <2>6. push' \in [Actors -> GoodCalls] /\ push'[x] = c /\ \A y \in Actors \ {x} : push'[y] = push[y]
    BY <2>4, <2>5, PushUpdate
  <2> QED BY <2>1, <2>5, <2>6
<1>5. CASE CountTask(x)
  <2>1. push[x].at = "count" /\ Step(x, "mark")
    BY <1>5 DEF CountTask, InCall
  <2> QED BY <2>1, StepGood
<1>6. CASE MarkQueuedWork(x)
  <2>1. push[x].at = "mark" /\ Step(x, "notify")
    BY <1>6 DEF MarkQueuedWork, InCall
  <2> QED BY <2>1, StepGood
<1>7. CASE NotifyTarget(x)
  <2>1. push[x].at = "notify" /\ push' = [push EXCEPT ![x] = Idle]
    BY <1>7 DEF NotifyTarget, InCall, Return, Set
  <2> QED BY <2>1, IdleGood, PushUpdate
<1>8. CASE CoreSet(x)
  <2>1. push[x].at = "core_set" /\ Step(x, "core_task")
    BY <1>8 DEF CoreSet, InCall
  <2>2. push[x].task \in Immediates
    BY <2>1, CallTask DEF GoodCalls
  <2> QED BY <2>1, <2>2, StepGood
<1>9. CASE CoreImmediate(x)
  <2>1. push[x].at = "core_immediate" /\ Step(x, "notify")
    BY <1>9 DEF CoreImmediate, InCall
  <2> QED BY <2>1, StepGood
<1> QED BY <1>1, <1>2, <1>3, <1>4, <1>5, <1>6, <1>7, <1>8, <1>9 DEF Quiet

LEMMA QuietRest ==
  ASSUME TaskTypeOK, NEW x \in Actors, Quiet(x)
  PROVE  /\ UNCHANGED <<queues, immediateTask, locals, phase, parked>>
         /\ pc' \in [Workers -> WorkerPcs] /\ Woken
         /\ immediateCoresInUse' \in [Workers -> BOOLEAN] /\ pendingTasks' \in Int
<1>1. UNCHANGED <<queues, immediateTask, locals, phase, parked>>
  BY DEF Quiet, ForkSet, ForkCount, CheckAffinity, PickWorker, CountTask, MarkQueuedWork,
         NotifyTarget, CoreSet, CoreImmediate, flags, taskVars
<1>2. pc' = pc \/ \E w \in Workers : Wake(w)
  <2>1. CASE NotifyTarget(x) \/ CoreImmediate(x)
    <3>1. push[x].to \in Workers /\ Wake(push[x].to)
      BY <2>1, CallTask DEF NotifyTarget, CoreImmediate, NotifyWorker, InCall
    <3> QED BY <3>1
  <2>2. CASE ~(NotifyTarget(x) \/ CoreImmediate(x))
    BY <2>2 DEF Quiet, ForkSet, ForkCount, CheckAffinity, PickWorker, CountTask, MarkQueuedWork, CoreSet
  <2> QED BY <2>1, <2>2
<1>3. pc' \in [Workers -> WorkerPcs] /\ Woken
  <2>1. CASE pc' = pc
    BY <2>1 DEF TaskTypeOK, Woken
  <2> QED BY <1>2, <2>1, WakeEffect
<1>4. immediateCoresInUse' \in [Workers -> BOOLEAN]
  <2>1. CASE ForkSet(x) \/ CoreSet(x)
    <3>1. immediateCoresInUse' = [immediateCoresInUse EXCEPT ![push[x].to] = TRUE]
      BY <2>1 DEF ForkSet, CoreSet, Set
    <3> QED BY <3>1 DEF TaskTypeOK
  <2>2. CASE ~(ForkSet(x) \/ CoreSet(x))
    BY <2>2 DEF Quiet, ForkCount, CheckAffinity, PickWorker, CountTask, MarkQueuedWork, NotifyTarget,
                CoreImmediate, flags, TaskTypeOK
  <2> QED BY <2>1, <2>2
<1>5. pendingTasks' \in Int
  <2>1. pendingTasks' = pendingTasks \/ pendingTasks' = pendingTasks + 1
    BY DEF Quiet, ForkSet, ForkCount, CheckAffinity, PickWorker, CountTask, MarkQueuedWork,
           NotifyTarget, CoreSet, CoreImmediate
  <2> QED BY <2>1 DEF TaskTypeOK
<1> QED BY <1>1, <1>3, <1>4, <1>5

LEMMA QuietTyped ==
  ASSUME TaskInv, NEW x \in Actors, Quiet(x)
  PROVE  TaskInv'
<1>1. TaskTypeOK
  BY DEF TaskInv
<1>2. TaskTypeOK'
  BY <1>1, QuietPush, QuietRest DEF TaskTypeOK, queues, locals
<1>3. \A w \in Workers : LocalInv(w)'
  BY <1>1, QuietRest, LocalKept DEF TaskInv, locals, Woken
<1> QED BY <1>2, <1>3 DEF TaskInv

\* The call ends with its task: refused, or run to its end by a helper.
Ends(x) == (CheckAffinity(x) /\ immediateCoresInUse[push[x].to]) \/ HelpFinish(x)
LEMMA EndsEffect ==
  ASSUME TaskInv, NEW x \in Actors, Ends(x)
  PROVE  /\ TaskInv' /\ push[x].at \in {"check", "help"} /\ push[x].task \in Tasks
         /\ push'[x] = Idle /\ \A y \in Actors \ {x} : push'[y] = push[y]
         /\ \E p \in {"refused", "done"} : phase' = [phase EXCEPT ![push[x].task] = p]
         /\ UNCHANGED <<queues, flags, pc, locals, parked>>
<1>1. /\ push[x].at \in {"check", "help"} /\ push' = [push EXCEPT ![x] = Idle]
      /\ UNCHANGED <<queues, flags, pc, locals, parked>>
      /\ \E p \in {"refused", "done"} : phase' = [phase EXCEPT ![push[x].task] = p]
      /\ pendingTasks' = pendingTasks \/ pendingTasks' = pendingTasks - 1
  BY DEF Ends, CheckAffinity, HelpFinish, InCall, Return, Set
<1>2. TaskTypeOK /\ push[x].task \in Tasks
  BY <1>1, CallTask DEF TaskInv
<1>3. push' \in [Actors -> GoodCalls] /\ push'[x] = Idle /\ \A y \in Actors \ {x} : push'[y] = push[y]
  BY <1>1, <1>2, IdleGood, PushUpdate
<1>4. phase' \in [Tasks -> {"absent", "new", "live", "refused", "done"}] /\ pendingTasks' \in Int
  BY <1>1, <1>2 DEF TaskTypeOK
<1>5. TaskInv'
  BY <1>1, <1>2, <1>3, <1>4, CallTyped DEF flags, TaskTypeOK
<1> QED BY <1>1, <1>2, <1>3, <1>5

LEMMA SubmitTyped ==
  ASSUME TaskInv, NEW x \in Actors, NEW t \in Tasks, NEW w \in Workers, Submits(x, t, w)
  PROVE  TaskInv'
<1>1. TaskTypeOK
  BY DEF TaskInv
<1>2. phase' \in [Tasks -> {"absent", "new", "live", "refused", "done"}]
  <2>1. phase' = [phase EXCEPT ![t] = "live"]
    BY SubmitEffect
  <2> QED BY <1>1, <2>1 DEF TaskTypeOK
<1> QED BY <1>1, <1>2, SubmitEffect, CallTyped DEF flags, TaskTypeOK

LEMMA ResumeEffect ==
  ASSUME TaskInv, NEW x \in Actors, NEW t \in Tasks, ResumeTask(x, t)
  PROVE  /\ TaskInv' /\ push[x] = Idle /\ t \in parked /\ parked' = parked \ {t}
         /\ push'[x].task = t /\ push'[x].at = "pick" /\ push'[x].new = FALSE
         /\ \A y \in Actors \ {x} : push'[y] = push[y]
         /\ UNCHANGED <<queues, flags, pc, locals, phase, pendingTasks>>
<1>1. /\ push[x] = Idle /\ t \in parked /\ parked' = parked \ {t} /\ StartRequeue(x, t)
      /\ UNCHANGED <<queues, flags, pc, locals, phase, pendingTasks>>
  BY DEF ResumeTask, CanCall
<1>2. TaskTypeOK
  BY DEF TaskInv
<1>3. TaskInv'
  BY <1>1, <1>2, RequeueEffect, CallTyped DEF flags, TaskTypeOK
<1> QED BY <1>1, <1>2, <1>3, RequeueEffect

-----------------------------------------------------------------------------
(* Sequences without repetition: what they hold.                           *)

Held(t, s) == \E i \in 1 .. Len(s) : s[i] = t
Distinct(s) == \A i, j \in 1 .. Len(s) : s[i] = s[j] => i = j

LEMMA HeldEmpty == Distinct(<< >>) /\ \A t : ~Held(t, << >>)
BY DEF Distinct, Held

LEMMA HeldAppend ==
  ASSUME NEW S, NEW s \in Seq(S), NEW e \in S
  PROVE  /\ \A t : Held(t, Append(s, e)) <=> Held(t, s) \/ t = e
         /\ Distinct(s) /\ ~Held(e, s) => Distinct(Append(s, e))
<1>1. /\ Len(s) \in Nat /\ Len(Append(s, e)) = Len(s) + 1 /\ Append(s, e)[Len(s) + 1] = e
      /\ \A i \in 1 .. Len(s) : Append(s, e)[i] = s[i]
  BY AppendProperties
<1>2. ASSUME NEW t PROVE Held(t, Append(s, e)) <=> Held(t, s) \/ t = e
  BY <1>1 DEF Held
<1>3. ASSUME Distinct(s), ~Held(e, s) PROVE Distinct(Append(s, e))
  BY <1>1, <1>3 DEF Held, Distinct
<1> QED BY <1>2, <1>3

LEMMA HeldTail ==
  ASSUME NEW S, NEW s \in Seq(S), s # << >>
  PROVE  /\ Head(s) \in S /\ Tail(s) \in Seq(S) /\ Held(Head(s), s)
         /\ Distinct(s) => /\ Distinct(Tail(s))
                           /\ \A t : Held(t, Tail(s)) <=> Held(t, s) /\ t # Head(s)
<1>1. /\ Len(s) \in Nat \ {0} /\ Head(s) = s[1] /\ Tail(s) \in Seq(S) /\ Len(Tail(s)) = Len(s) - 1
      /\ \A i \in 1 .. Len(s) - 1 : Tail(s)[i] = s[i + 1]
  BY HeadTailProperties
<1>2. Head(s) \in S /\ Held(Head(s), s)
  BY <1>1 DEF Held
<1>3. ASSUME Distinct(s) PROVE Distinct(Tail(s))
  <2> SUFFICES ASSUME NEW i \in 1 .. Len(s) - 1, NEW j \in 1 .. Len(s) - 1, Tail(s)[i] = Tail(s)[j]
               PROVE  i = j
    BY <1>1 DEF Distinct
  <2>1. s[i + 1] = s[j + 1] /\ i + 1 \in 1 .. Len(s) /\ j + 1 \in 1 .. Len(s)
    BY <1>1
  <2>2. i + 1 = j + 1
    BY <1>3, <2>1 DEF Distinct
  <2> QED BY <2>2
<1>4. ASSUME Distinct(s), NEW t PROVE Held(t, Tail(s)) <=> Held(t, s) /\ t # Head(s)
  <2>1. ASSUME Held(t, Tail(s)) PROVE Held(t, s) /\ t # Head(s)
    <3>1. PICK i \in 1 .. Len(s) - 1 : Tail(s)[i] = t
      BY <1>1, <2>1 DEF Held
    <3>2. i + 1 \in 1 .. Len(s) /\ s[i + 1] = t /\ 1 \in 1 .. Len(s) /\ i + 1 # 1
      BY <1>1, <3>1
    <3> QED BY <1>1, <1>4, <3>2 DEF Held, Distinct
  <2>2. ASSUME Held(t, s), t # Head(s) PROVE Held(t, Tail(s))
    <3>1. PICK i \in 1 .. Len(s) : s[i] = t
      BY <2>2 DEF Held
    <3>2. i - 1 \in 1 .. Len(s) - 1 /\ (i - 1) + 1 = i
      BY <1>1, <2>2, <3>1
    <3>3. Tail(s)[i - 1] = t
      BY <1>1, <3>1, <3>2
    <3> QED BY <1>1, <3>2, <3>3 DEF Held
  <2> QED BY <2>1, <2>2
<1> QED BY <1>1, <1>2, <1>3, <1>4

LEMMA HeldFront ==
  ASSUME NEW S, NEW s \in Seq(S), s # << >>
  PROVE  /\ Last(s) \in S /\ Front(s) \in Seq(S) /\ Held(Last(s), s)
         /\ Distinct(s) => /\ Distinct(Front(s))
                           /\ \A t : Held(t, Front(s)) <=> Held(t, s) /\ t # Last(s)
<1>1. Len(s) \in Nat \ {0} /\ Last(s) = s[Len(s)] /\ \A i \in 1 .. Len(s) : s[i] \in S
  BY DEF Last
<1>2. /\ Front(s) \in Seq(S) /\ Len(Front(s)) = Len(s) - 1
      /\ \A i \in 1 .. Len(s) - 1 : Front(s)[i] = s[i]
  <2>1. CASE Len(s) = 1
    <3>1. Front(s) = << >>
      BY <1>1, <2>1, SubSeqEmpty DEF Front
    <3> QED BY <2>1, <3>1
  <2>2. CASE Len(s) # 1
    <3>1. \A i \in 1 .. Len(s) - 1 : s[i] \in S
      BY <1>1
    <3>2. PICK n \in Nat : n = Len(s) - 1 /\ 1 <= n
      <4>1. PICK m \in Nat : m = Len(s) /\ m # 0 /\ m # 1
        BY <1>1, <2>2
      <4>2. m - 1 \in Nat /\ 1 <= m - 1
        BY <4>1
      <4> QED BY <4>1, <4>2
    <3>3. /\ SubSeq(s, 1, n) \in Seq(S) /\ Len(SubSeq(s, 1, n)) = n - 1 + 1
          /\ \A i \in 1 .. n - 1 + 1 : SubSeq(s, 1, n)[i] = s[1 + i - 1]
      BY <3>1, <3>2, SubSeqProperties
    <3>4. n - 1 + 1 = n /\ \A i \in 1 .. n : 1 + i - 1 = i
      BY <3>2
    <3> QED BY <3>2, <3>3, <3>4 DEF Front
  <2> QED BY <2>1, <2>2
<1>3. Last(s) \in S /\ Held(Last(s), s)
  BY <1>1 DEF Held
<1>4. ASSUME Distinct(s) PROVE Distinct(Front(s))
  BY <1>1, <1>2, <1>4 DEF Distinct
<1>5. ASSUME Distinct(s), NEW t PROVE Held(t, Front(s)) <=> Held(t, s) /\ t # Last(s)
  BY <1>1, <1>2, <1>5 DEF Held, Distinct
<1> QED BY <1>2, <1>3, <1>4, <1>5

LEMMA HeldConcat ==
  ASSUME NEW S, NEW s \in Seq(S), NEW u \in Seq(S)
  PROVE  /\ s \o u \in Seq(S)
         /\ \A t : Held(t, s \o u) <=> Held(t, s) \/ Held(t, u)
         /\ Distinct(s) /\ Distinct(u) /\ (\A t : ~(Held(t, s) /\ Held(t, u))) => Distinct(s \o u)
<1>1. /\ s \o u \in Seq(S) /\ Len(s) \in Nat /\ Len(u) \in Nat /\ Len(s \o u) = Len(s) + Len(u)
      /\ \A i \in 1 .. Len(s) + Len(u) : (s \o u)[i] = IF i <= Len(s) THEN s[i] ELSE u[i - Len(s)]
  BY ConcatProperties
<1>2. ASSUME NEW t PROVE Held(t, s \o u) <=> Held(t, s) \/ Held(t, u)
  <2>1. ASSUME Held(t, s \o u) PROVE Held(t, s) \/ Held(t, u)
    <3>1. PICK i \in 1 .. Len(s) + Len(u) : (s \o u)[i] = t
      BY <1>1, <2>1 DEF Held
    <3>2. CASE i <= Len(s)
      BY <1>1, <3>1, <3>2 DEF Held
    <3>3. CASE ~(i <= Len(s))
      <4>1. i - Len(s) \in 1 .. Len(u) /\ u[i - Len(s)] = t
        BY <1>1, <3>1, <3>3
      <4> QED BY <4>1 DEF Held
    <3> QED BY <3>2, <3>3
  <2>2. ASSUME Held(t, s) PROVE Held(t, s \o u)
    BY <1>1, <2>2 DEF Held
  <2>3. ASSUME Held(t, u) PROVE Held(t, s \o u)
    <3>1. PICK i \in 1 .. Len(u) : u[i] = t
      BY <2>3 DEF Held
    <3>2. i + Len(s) \in 1 .. Len(s) + Len(u) /\ ~(i + Len(s) <= Len(s)) /\ (i + Len(s)) - Len(s) = i
      BY <1>1
    <3> QED BY <1>1, <3>1, <3>2 DEF Held
  <2> QED BY <2>1, <2>2, <2>3
<1>3. ASSUME Distinct(s), Distinct(u), \A t : ~(Held(t, s) /\ Held(t, u)) PROVE Distinct(s \o u)
  <2> SUFFICES ASSUME NEW i \in 1 .. Len(s) + Len(u), NEW j \in 1 .. Len(s) + Len(u),
                      (s \o u)[i] = (s \o u)[j]
               PROVE  i = j
    BY <1>1 DEF Distinct
  <2>1. \A k \in 1 .. Len(s) + Len(u) : k > Len(s) => k - Len(s) \in 1 .. Len(u)
    BY <1>1
  <2>2. CASE i <= Len(s) /\ j <= Len(s)
    BY <1>1, <1>3, <2>2 DEF Distinct
  <2>3. CASE i > Len(s) /\ j > Len(s)
    <3>1. i - Len(s) = j - Len(s)
      BY <1>1, <1>3, <2>1, <2>3 DEF Distinct
    <3> QED BY <1>1, <3>1
  <2>4. CASE i <= Len(s) /\ j > Len(s)
    <3>1. Held(s[i], s) /\ Held(u[j - Len(s)], u) /\ s[i] = u[j - Len(s)]
      BY <1>1, <2>1, <2>4 DEF Held
    <3> QED BY <1>3, <3>1
  <2>5. CASE i > Len(s) /\ j <= Len(s)
    <3>1. Held(s[j], s) /\ Held(u[i - Len(s)], u) /\ s[j] = u[i - Len(s)]
      BY <1>1, <2>1, <2>5 DEF Held
    <3> QED BY <1>3, <3>1
  <2> QED BY <1>1, <2>2, <2>3, <2>4, <2>5
<1> QED BY <1>1, <1>2, <1>3

\* The batch and the rest.
LEMMA HeldSplit ==
  ASSUME NEW S, NEW s \in Seq(S), Distinct(s)
  PROVE  /\ AtMost(s) \in Seq(S) /\ Beyond(s) \in Seq(S) /\ Distinct(AtMost(s)) /\ Distinct(Beyond(s))
         /\ \A t : Held(t, s) <=> Held(t, AtMost(s)) \/ Held(t, Beyond(s))
         /\ \A t : ~(Held(t, AtMost(s)) /\ Held(t, Beyond(s)))
<1>1. BatchSize \in Nat /\ BatchSize > 0 /\ Len(s) \in Nat /\ \A i \in 1 .. Len(s) : s[i] \in S
  BY PoolBounds
<1>2. PICK n \in Nat : n = IF Len(s) < BatchSize THEN Len(s) ELSE BatchSize
  BY <1>1
<1>3. /\ AtMost(s) \in Seq(S) /\ Len(AtMost(s)) = n /\ \A i \in 1 .. n : AtMost(s)[i] = s[i]
  <2>1. AtMost(s) = SubSeq(s, 1, n)
    BY <1>2 DEF AtMost
  <2>2. CASE n = 0
    <3>1. AtMost(s) = << >>
      BY <2>1, <2>2, SubSeqEmpty
    <3> QED BY <2>2, <3>1
  <2>3. CASE n # 0
    <3>1. 1 \in 1 .. Len(s) /\ n \in 1 .. Len(s) /\ n - 1 + 1 = n
      BY <1>1, <1>2, <2>3
    <3>2. \A i \in 1 .. n : s[i] \in S
      BY <1>1, <3>1
    <3> QED BY <1>1, <2>1, <2>3, <3>1, <3>2, SubSeqProperties
  <2> QED BY <2>2, <2>3
<1>4. /\ Beyond(s) \in Seq(S) /\ Len(Beyond(s)) = Len(s) - n
      /\ \A i \in 1 .. Len(s) - n : Beyond(s)[i] = s[i + n]
  <2>1. CASE Len(s) <= BatchSize
    <3>1. Beyond(s) = << >> /\ n = Len(s)
      BY <1>1, <1>2, <2>1, BatchSplit
    <3> QED BY <1>1, <3>1
  <2>2. CASE ~(Len(s) <= BatchSize)
    <3>1. n = BatchSize /\ n + 1 <= Len(s)
      BY <1>1, <1>2, <2>2
    <3>2. \A i \in n + 1 .. Len(s) : s[i] \in S
      BY <1>1, <3>1
    <3>3. /\ SubSeq(s, n + 1, Len(s)) \in Seq(S)
          /\ Len(SubSeq(s, n + 1, Len(s))) = Len(s) - (n + 1) + 1
          /\ \A i \in 1 .. Len(s) - (n + 1) + 1 : SubSeq(s, n + 1, Len(s))[i] = s[n + 1 + i - 1]
      BY <1>1, <3>1, <3>2, SubSeqProperties
    <3>4. Len(s) - (n + 1) + 1 = Len(s) - n /\ \A i \in Nat : n + 1 + i - 1 = i + n
      BY <1>1
    <3>5. Beyond(s) = SubSeq(s, n + 1, Len(s))
      BY <3>1 DEF Beyond
    <3>6. \A i \in 1 .. Len(s) - n : i \in Nat
      BY <1>1
    <3> QED BY <3>3, <3>4, <3>5, <3>6
  <2> QED BY <2>1, <2>2
<1>5. n <= Len(s) /\ \A i \in 1 .. Len(s) - n : i + n \in 1 .. Len(s) /\ i + n > n
  BY <1>1, <1>2
<1>6. Distinct(AtMost(s))
  BY <1>1, <1>3, <1>5 DEF Distinct
<1>7. Distinct(Beyond(s))
  <2> SUFFICES ASSUME NEW i \in 1 .. Len(s) - n, NEW j \in 1 .. Len(s) - n, s[i + n] = s[j + n]
               PROVE  i = j
    BY <1>4 DEF Distinct
  <2>1. i + n = j + n
    BY <1>5 DEF Distinct
  <2> QED BY <2>1
<1>8. ASSUME NEW t, Held(t, s) PROVE Held(t, AtMost(s)) \/ Held(t, Beyond(s))
  <2>1. PICK i \in 1 .. Len(s) : s[i] = t
    BY <1>8 DEF Held
  <2>2. CASE i <= n
    BY <1>3, <2>1, <2>2 DEF Held
  <2>3. CASE ~(i <= n)
    <3>1. i - n \in 1 .. Len(s) - n /\ (i - n) + n = i
      BY <1>1, <2>3
    <3>2. Beyond(s)[i - n] = t
      BY <1>4, <2>1, <3>1
    <3> QED BY <1>4, <3>1, <3>2 DEF Held
  <2> QED BY <2>2, <2>3
<1>9. ASSUME NEW t, Held(t, AtMost(s)) \/ Held(t, Beyond(s))
      PROVE  Held(t, s) /\ ~(Held(t, AtMost(s)) /\ Held(t, Beyond(s)))
  <2>1. Held(t, AtMost(s)) => \E i \in 1 .. Len(s) : i <= n /\ s[i] = t
    BY <1>1, <1>3, <1>5 DEF Held
  <2>2. Held(t, Beyond(s)) => \E i \in 1 .. Len(s) : i > n /\ s[i] = t
    BY <1>4, <1>5 DEF Held
  <2> QED BY <1>9, <2>1, <2>2 DEF Held, Distinct
<1> QED BY <1>3, <1>4, <1>6, <1>7, <1>8, <1>9

-----------------------------------------------------------------------------
(* What the steps of a worker do to the tasks it has in hand.              *)

\* e is taken out of s and r is left.
Takes(s, e, r) ==
  Held(e, s) /\ (Distinct(s) => Distinct(r) /\ \A t : Held(t, r) <=> Held(t, s) /\ t # e)

\* The worker goes on; no task moves.
Wanders(w) ==
  /\ \E p \in WorkerPcs \ {"ran", "forget", "unflag"} : pc' = [pc EXCEPT ![w] = p]
  /\ pc[w] \notin {"ran", "forget", "unflag"} /\ LocalInv(w)'
  /\ UNCHANGED <<queues, immediateTask, immediateCoresInUse, locals, push, phase, parked, pendingTasks>>

\* The worker has found a task in a deque, its own or another's.
Finds(w) ==
  \E v \in Workers, l \in Lanes, e \in Tasks, r \in Seq(Tasks) :
    /\ Takes(deque[v][l], e, r) /\ deque' = [deque EXCEPT ![v][l] = r]
    /\ taskToRun[w] = None /\ taskToRun' = [taskToRun EXCEPT ![w] = e]
    /\ pc[w] \in Search /\ pc' = [pc EXCEPT ![w] = "top"]
    /\ UNCHANGED <<inbox, flags, isHandlingFork, batch, push, phase, parked, pendingTasks>>

LEMMA OwnLocal ==
  ASSUME TaskInv, NEW w \in Workers, NEW p \in WorkerPcs, At(w, p)
  PROVE  /\ pc' = [pc EXCEPT ![w] = p] /\ pc' \in [Workers -> WorkerPcs] /\ pc'[w] = p
         /\ \A v \in Workers \ {w} : pc'[v] = pc[v]
         /\ LocalInv(w) /\ pc[w] \in WorkerPcs
BY DEF At, Set, TaskInv, TaskTypeOK

LEMMA WorkerWanders ==
  ASSUME TaskInv, NEW w \in Workers,
         \/ LoopTop(w) \/ GetFiber(w) \/ SeeImmediate(w) \/ StealMiss(w) \/ TestSleep(w) \/ Block(w)
         \/ (PopLocal(w) /\ deque[w]["hi"] = << >> /\ deque[w]["lo"] = << >>)
         \/ (RequeueBatch(w, "requeue_hi", "drain_lo") /\ batch[w] = << >>)
         \/ (RequeueBatch(w, "requeue_lo", "take") /\ batch[w] = << >>)
         \/ (PopPulled(w, "hi", "pulled_hi", "inbox_lo") /\ deque[w]["hi"] = << >>)
         \/ (PopPulled(w, "lo", "pulled_lo", "lock") /\ deque[w]["lo"] = << >>)
  PROVE  Wanders(w)
<1> USE DEF WorkerPcs
<1>1. UNCHANGED <<queues, immediateTask, immediateCoresInUse, locals, push, phase, parked, pendingTasks>>
  BY DEF LoopTop, GetFiber, SeeImmediate, StealMiss, TestSleep, Block, PopLocal, RequeueBatch,
         PopPulled, PopBottom, queues, flags, locals, taskVars
<1>2. ASSUME NEW p \in WorkerPcs \ {"ran", "forget", "unflag"}, At(w, p),
             pc[w] \notin {"ran", "forget", "unflag"}, LocalInv(w) => LocalInv(w)'
      PROVE  Wanders(w)
  <2>1. pc' = [pc EXCEPT ![w] = p] /\ LocalInv(w)
    BY <1>2, OwnLocal
  <2> QED BY <1>1, <1>2, <2>1 DEF Wanders
<1>3. \A p \in WorkerPcs : At(w, p) => pc'[w] = p
  BY OwnLocal
<1>4. CASE LoopTop(w)
  <2>1. pc[w] = "top"
    BY <1>4 DEF LoopTop, WorkerAt
  <2>2. PICK p \in {"exit", "immediate", "exec", "fiber"} :
          At(w, p) /\ (p = "immediate" => taskToRun[w] = None) /\ (p \in {"exec", "fiber"} => taskToRun[w] # None)
    <3>1. CASE ~running[w]
      BY <1>4, <3>1 DEF LoopTop
    <3>2. CASE running[w] /\ taskToRun[w] = None
      BY <1>4, <3>2 DEF LoopTop
    <3>3. CASE running[w] /\ taskToRun[w] # None
      BY <1>4, <3>3 DEF LoopTop
    <3> QED BY <3>1, <3>2, <3>3
  <2>3. pc'[w] = p
    BY <1>3, <2>2
  <2>4. LocalInv(w) => LocalInv(w)'
    BY <1>1, <2>1, <2>2, <2>3, TaskKinds DEF LocalInv, HasTask, SeenImmediate, locals
  <2> QED BY <1>2, <2>1, <2>2, <2>4
<1>5. CASE SeeImmediate(w)
  <2>1. pc[w] = "immediate" /\ At(w, IF immediateTask[w] = None THEN "local" ELSE "drain_hi")
    BY <1>5 DEF SeeImmediate, WorkerAt
  <2>2. PICK p \in {"local", "drain_hi"} : p = IF immediateTask[w] = None THEN "local" ELSE "drain_hi"
    OBVIOUS
  <2>3. At(w, p) /\ pc'[w] = p
    BY <1>3, <2>1, <2>2
  <2>4. LocalInv(w) => LocalInv(w)'
    BY <1>1, <2>1, <2>2, <2>3 DEF LocalInv, HasTask, SeenImmediate, locals
  <2> QED BY <1>2, <2>1, <2>3, <2>4
<1>6. CASE GetFiber(w)
  <2>1. pc[w] = "fiber" /\ At(w, "exec") /\ pc'[w] = "exec"
    BY <1>3, <1>6 DEF GetFiber, WorkerAt
  <2>2. LocalInv(w) => LocalInv(w)'
    BY <1>1, <2>1 DEF LocalInv, HasTask, SeenImmediate, locals
  <2> QED BY <1>2, <2>1, <2>2
<1>7. CASE ~LoopTop(w) /\ ~SeeImmediate(w) /\ ~GetFiber(w)
  <2>1. PICK p \in WorkerPcs \ {"ran", "forget", "unflag"} :
          /\ At(w, p)
          /\ \/ pc[w] \in Search /\ p \in Search \cup {"top", "exit"}
             \/ pc[w] \in {"requeue_hi", "requeue_lo"} /\ p \in {"drain_lo", "take"} /\ batch[w] = << >>
    <3> USE DEF WorkerAt, Search, Searched, Asleep
    <3>1. CASE StealMiss(w)
      BY <3>1 DEF StealMiss
    <3>2. CASE TestSleep(w)
      <4>1. PICK p \in {"blocking", "exit", "top"} : At(w, p)
        BY <3>2 DEF TestSleep
      <4> QED BY <3>2, <4>1 DEF TestSleep
    <3>3. CASE Block(w)
      BY <3>3 DEF Block
    <3>4. CASE PopLocal(w) /\ deque[w]["hi"] = << >> /\ deque[w]["lo"] = << >>
      BY <3>4 DEF PopLocal, PopBottom
    <3>5. CASE RequeueBatch(w, "requeue_hi", "drain_lo") /\ batch[w] = << >>
      BY <3>5 DEF RequeueBatch
    <3>6. CASE RequeueBatch(w, "requeue_lo", "take") /\ batch[w] = << >>
      BY <3>6 DEF RequeueBatch
    <3>7. CASE PopPulled(w, "hi", "pulled_hi", "inbox_lo") /\ deque[w]["hi"] = << >>
      BY <3>7 DEF PopPulled, PopBottom
    <3>8. CASE PopPulled(w, "lo", "pulled_lo", "lock") /\ deque[w]["lo"] = << >>
      BY <3>8 DEF PopPulled, PopBottom
    <3> QED BY <1>7, <3>1, <3>2, <3>3, <3>4, <3>5, <3>6, <3>7, <3>8
  <2>2. pc'[w] = p /\ pc[w] \notin {"ran", "forget", "unflag"}
    BY <1>3, <2>1 DEF Search, Searched, Asleep
  <2>3. LocalInv(w) => LocalInv(w)'
    BY <1>1, <2>1, <2>2 DEF LocalInv, HasTask, SeenImmediate, Search, Searched, Asleep, locals
  <2> QED BY <1>2, <2>1, <2>2, <2>3
<1> QED BY <1>4, <1>5, <1>6, <1>7

LEMMA WorkerFinds ==
  ASSUME TaskInv, NEW w \in Workers,
         \/ (PopLocal(w) /\ ~(deque[w]["hi"] = << >> /\ deque[w]["lo"] = << >>))
         \/ (PopPulled(w, "hi", "pulled_hi", "inbox_lo") /\ deque[w]["hi"] # << >>)
         \/ (PopPulled(w, "lo", "pulled_lo", "lock") /\ deque[w]["lo"] # << >>)
         \/ (\E v \in Workers, l \in Lanes : Steal(w, v, l))
  PROVE  Finds(w)
<1>1. /\ pc[w] \in {"local", "pulled_hi", "pulled_lo", "steal"}
      /\ UNCHANGED <<inbox, flags, isHandlingFork, batch, push, phase, parked, pendingTasks>>
  BY DEF PopLocal, PopPulled, Steal, WorkerAt, taskVars
<1>2. pc[w] \in Search /\ taskToRun[w] = None
  BY <1>1 DEF Search, TaskInv, LocalInv, HasTask
<1>3. ASSUME NEW l \in Lanes, PopBottom(w, l) PROVE Finds(w)
  <2>1. deque[w][l] \in Seq(Tasks) /\ deque[w][l] # << >>
    BY <1>3 DEF TaskInv, TaskTypeOK, PopBottom
  <2>2. PICK e \in Tasks, r \in Seq(Tasks) : e = Last(deque[w][l]) /\ r = Front(deque[w][l]) /\ Takes(deque[w][l], e, r)
    BY <2>1, HeldFront DEF Takes
  <2>3. /\ deque' = [deque EXCEPT ![w][l] = r] /\ taskToRun' = [taskToRun EXCEPT ![w] = e]
        /\ pc' = [pc EXCEPT ![w] = "top"]
    BY <1>3, <2>2 DEF PopBottom, Set, At
  <2> QED BY <1>1, <1>2, <2>2, <2>3 DEF Finds
<1>4. ASSUME NEW v \in Workers, NEW l \in Lanes, Steal(w, v, l) PROVE Finds(w)
  <2>1. deque[v][l] \in Seq(Tasks) /\ deque[v][l] # << >>
    BY <1>4 DEF TaskInv, TaskTypeOK, Steal
  <2>2. PICK e \in Tasks, r \in Seq(Tasks) : e = Head(deque[v][l]) /\ r = Tail(deque[v][l]) /\ Takes(deque[v][l], e, r)
    <3>1. /\ Head(deque[v][l]) \in Tasks /\ Tail(deque[v][l]) \in Seq(Tasks)
          /\ Takes(deque[v][l], Head(deque[v][l]), Tail(deque[v][l]))
      BY <2>1, HeldTail DEF Takes
    <3> QED BY <3>1
  <2>3. /\ deque' = [deque EXCEPT ![v][l] = r] /\ taskToRun' = [taskToRun EXCEPT ![w] = e]
        /\ pc' = [pc EXCEPT ![w] = "top"]
    BY <1>4, <2>2 DEF Steal, Set, At
  <2> QED BY <1>1, <1>2, <2>2, <2>3 DEF Finds
<1>5. "hi" \in Lanes /\ "lo" \in Lanes
  BY DEF Lanes
<1> QED BY <1>3, <1>4, <1>5 DEF PopLocal, PopPulled

\* The types, once the worker's own part is known.
LEMMA OwnTyped ==
  ASSUME TaskInv, NEW w \in Workers, NEW p \in WorkerPcs, pc' = [pc EXCEPT ![w] = p],
         inbox' \in [Workers -> [Lanes -> Seq(Tasks)]], deque' \in [Workers -> [Lanes -> Seq(Tasks)]],
         batch' \in [Workers -> Seq(Tasks)],
         immediateTask' \in [Workers -> TaskOrNone], taskToRun' \in [Workers -> TaskOrNone],
         immediateCoresInUse' \in [Workers -> BOOLEAN], isHandlingFork' \in [Workers -> BOOLEAN],
         push' \in [Actors -> GoodCalls],
         phase' \in [Tasks -> {"absent", "new", "live", "refused", "done"}],
         parked' \subseteq Tasks, pendingTasks' \in Int,
         \A v \in Workers \ {w} :
           /\ batch'[v] = batch[v] /\ taskToRun'[v] = taskToRun[v]
           /\ immediateTask'[v] = immediateTask[v] /\ isHandlingFork'[v] = isHandlingFork[v],
         LocalInv(w)'
  PROVE  TaskInv'
<1>1. pc' \in [Workers -> WorkerPcs] /\ \A v \in Workers \ {w} : pc'[v] = pc[v]
  BY DEF TaskInv, TaskTypeOK
<1>2. TaskTypeOK'
  BY <1>1 DEF TaskTypeOK
<1>3. \A v \in Workers : LocalInv(v)'
  BY <1>1, LocalKept DEF TaskInv
<1> QED BY <1>2, <1>3 DEF TaskInv

LEMMA WandersTyped ==
  ASSUME TaskInv, NEW w \in Workers, Wanders(w)
  PROVE  TaskInv'
<1>1. PICK p \in WorkerPcs : pc' = [pc EXCEPT ![w] = p]
  BY DEF Wanders
<1> QED BY <1>1, OwnTyped DEF Wanders, TaskInv, TaskTypeOK, queues, locals

LEMMA FindsTyped ==
  ASSUME TaskInv, NEW w \in Workers, Finds(w)
  PROVE  TaskInv'
<1>1. PICK v \in Workers, l \in Lanes, e \in Tasks, r \in Seq(Tasks) :
        /\ Takes(deque[v][l], e, r) /\ deque' = [deque EXCEPT ![v][l] = r]
        /\ taskToRun[w] = None /\ taskToRun' = [taskToRun EXCEPT ![w] = e]
        /\ pc[w] \in Search /\ pc' = [pc EXCEPT ![w] = "top"]
        /\ UNCHANGED <<inbox, flags, isHandlingFork, batch, push, phase, parked, pendingTasks>>
  BY DEF Finds
<1>2. deque' \in [Workers -> [Lanes -> Seq(Tasks)]]
  BY <1>1, UpdateLane DEF TaskInv, TaskTypeOK
<1>3. /\ taskToRun' \in [Workers -> TaskOrNone] /\ taskToRun'[w] = e /\ e # None
      /\ \A u \in Workers \ {w} : taskToRun'[u] = taskToRun[u]
  BY <1>1, TaskKinds DEF TaskInv, TaskTypeOK, TaskOrNone
<1>4. LocalInv(w) /\ pc'[w] = "top"
  BY <1>1 DEF TaskInv, TaskTypeOK
<1>5. LocalInv(w)'
  BY <1>1, <1>3, <1>4 DEF LocalInv, HasTask, SeenImmediate, Search, Searched, Asleep, flags
<1>6. "top" \in WorkerPcs
  BY DEF WorkerPcs
<1> QED BY <1>1, <1>2, <1>3, <1>5, <1>6, OwnTyped DEF TaskInv, TaskTypeOK, flags

\* The task gives its worker back: finished, yielded, parked or signalled.
Stops(w) == TaskFinished(w) \/ TaskYielded(w) \/ TaskParked(w) \/ TaskSignalled(w)
LEMMA StopsEffect ==
  ASSUME TaskInv, NEW w \in Workers, Stops(w)
  PROVE  /\ pc[w] = "exec" /\ pc' = [pc EXCEPT ![w] = "ran"] /\ taskToRun[w] \in Tasks /\ push[w] = Idle
         /\ w \in Actors /\ UNCHANGED <<inbox, flags, taskToRun, batch>>
         /\ isHandlingFork' \in [Workers -> BOOLEAN]
         /\ \A v \in Workers \ {w} : isHandlingFork'[v] = isHandlingFork[v]
         /\ taskToRun[w] \notin Forked => isHandlingFork' = isHandlingFork
         /\ TaskFinished(w) => /\ phase' = [phase EXCEPT ![taskToRun[w]] = "done"]
                               /\ pendingTasks' = pendingTasks - 1
                               /\ UNCHANGED <<deque, push, parked>>
         /\ TaskYielded(w) => /\ deque' = [deque EXCEPT ![w]["lo"] = Append(deque[w]["lo"], taskToRun[w])]
                              /\ UNCHANGED <<push, phase, parked, pendingTasks>>
         /\ TaskParked(w) => /\ parked' = parked \cup {taskToRun[w]}
                             /\ UNCHANGED <<deque, push, phase, pendingTasks>>
         /\ TaskSignalled(w) => /\ StartRequeue(w, taskToRun[w])
                                /\ UNCHANGED <<deque, phase, parked, pendingTasks>>
<1>1. pc[w] = "exec" /\ push[w] = Idle /\ w \in Actors
  BY DEF Stops, TaskFinished, TaskYielded, TaskParked, TaskSignalled, WorkerAt, Actors
<1>2. taskToRun[w] \in Tasks
  BY <1>1 DEF TaskInv, TaskTypeOK, LocalInv, HasTask, TaskOrNone
<1>3. pc' = [pc EXCEPT ![w] = "ran"] /\ UNCHANGED <<inbox, flags, taskToRun, batch>>
  BY DEF Stops, TaskFinished, TaskYielded, TaskParked, TaskSignalled, At, Set, queues, locals
<1>8. /\ isHandlingFork' \in [Workers -> BOOLEAN]
      /\ \A v \in Workers \ {w} : isHandlingFork'[v] = isHandlingFork[v]
      /\ taskToRun[w] \notin Forked => isHandlingFork' = isHandlingFork
  <2>1. isHandlingFork \in [Workers -> BOOLEAN]
    BY DEF TaskInv, TaskTypeOK
  <2>2. CASE TaskFinished(w)
    <3>1. isHandlingFork' = [isHandlingFork EXCEPT ![w] = isHandlingFork[w] \/ taskToRun[w] \in Forked]
      BY <2>2 DEF TaskFinished, Set
    <3>2. (isHandlingFork[w] \/ taskToRun[w] \in Forked) \in BOOLEAN
      OBVIOUS
    <3>3. taskToRun[w] \notin Forked => (isHandlingFork[w] \/ taskToRun[w] \in Forked) = isHandlingFork[w]
      BY <2>1
    <3> QED BY <2>1, <3>1, <3>2, <3>3
  <2>3. CASE ~TaskFinished(w)
    <3>1. isHandlingFork' = isHandlingFork
      BY <2>3 DEF Stops, TaskYielded, TaskParked, TaskSignalled, locals
    <3> QED BY <2>1, <3>1
  <2> QED BY <2>2, <2>3
<1>4. TaskFinished(w) => /\ phase' = [phase EXCEPT ![taskToRun[w]] = "done"]
                         /\ pendingTasks' = pendingTasks - 1
                         /\ UNCHANGED <<deque, push, parked>>
  BY DEF TaskFinished, Set, queues
<1>5. TaskYielded(w) => /\ deque' = [deque EXCEPT ![w]["lo"] = Append(deque[w]["lo"], taskToRun[w])]
                        /\ UNCHANGED <<push, phase, parked, pendingTasks>>
  BY DEF TaskYielded
<1>6. TaskParked(w) => /\ parked' = parked \cup {taskToRun[w]}
                       /\ UNCHANGED <<deque, push, phase, pendingTasks>>
  BY DEF TaskParked, queues
<1>7. TaskSignalled(w) => /\ StartRequeue(w, taskToRun[w])
                          /\ UNCHANGED <<deque, phase, parked, pendingTasks>>
  BY DEF TaskSignalled, queues
<1> QED BY <1>1, <1>2, <1>3, <1>4, <1>5, <1>6, <1>7, <1>8

LEMMA StopsTyped ==
  ASSUME TaskInv, NEW w \in Workers, Stops(w)
  PROVE  TaskInv'
<1>1. TaskTypeOK /\ LocalInv(w)
  BY DEF TaskInv
<1>2. /\ pc[w] = "exec" /\ pc' = [pc EXCEPT ![w] = "ran"] /\ taskToRun[w] \in Tasks /\ w \in Actors
      /\ UNCHANGED <<inbox, flags, taskToRun, batch>> /\ isHandlingFork' \in [Workers -> BOOLEAN]
      /\ \A v \in Workers \ {w} : isHandlingFork'[v] = isHandlingFork[v]
  BY StopsEffect
<1>3. "ran" \in WorkerPcs /\ pc'[w] = "ran"
  BY <1>1, <1>2 DEF TaskTypeOK, WorkerPcs
<1>4. LocalInv(w)'
  BY <1>1, <1>2, <1>3 DEF LocalInv, HasTask, SeenImmediate, flags
<1>5. /\ deque' \in [Workers -> [Lanes -> Seq(Tasks)]] /\ push' \in [Actors -> GoodCalls]
      /\ phase' \in [Tasks -> {"absent", "new", "live", "refused", "done"}]
      /\ parked' \subseteq Tasks /\ pendingTasks' \in Int
  <2>1. CASE TaskFinished(w)
    <3>1. /\ phase' = [phase EXCEPT ![taskToRun[w]] = "done"] /\ pendingTasks' = pendingTasks - 1
          /\ UNCHANGED <<deque, push, parked>>
      BY <2>1, StopsEffect
    <3>2. phase' \in [Tasks -> {"absent", "new", "live", "refused", "done"}]
      BY <1>1, <1>2, <3>1 DEF TaskTypeOK
    <3>3. pendingTasks' \in Int
      BY <1>1, <3>1 DEF TaskTypeOK
    <3> QED BY <1>1, <3>1, <3>2, <3>3 DEF TaskTypeOK
  <2>2. CASE TaskYielded(w)
    <3>1. "lo" \in Lanes /\ Append(deque[w]["lo"], taskToRun[w]) \in Seq(Tasks)
      BY <1>1, <1>2 DEF TaskTypeOK, Lanes
    <3>2. deque' \in [Workers -> [Lanes -> Seq(Tasks)]]
      <4>1. /\ deque' = [deque EXCEPT ![w]["lo"] = Append(deque[w]["lo"], taskToRun[w])]
            /\ deque \in [Workers -> [Lanes -> Seq(Tasks)]]
        BY <1>1, <2>2, StopsEffect DEF TaskTypeOK
      <4> QED BY <3>1, <4>1, UpdateLane
    <3> QED BY <1>1, <2>2, <3>2, StopsEffect DEF TaskTypeOK
  <2>3. CASE TaskParked(w)
    BY <1>1, <1>2, <2>3, StopsEffect DEF TaskTypeOK
  <2>4. CASE TaskSignalled(w)
    <3>1. push' \in [Actors -> GoodCalls]
      BY <1>1, <1>2, <2>4, StopsEffect, RequeueEffect
    <3> QED BY <1>1, <2>4, <3>1, StopsEffect DEF TaskTypeOK
  <2> QED BY <2>1, <2>2, <2>3, <2>4 DEF Stops
<1> QED BY <1>1, <1>2, <1>3, <1>4, <1>5, OwnTyped DEF TaskTypeOK, flags

LEMMA AfterRunEffect ==
  ASSUME TaskInv, NEW w \in Workers, AfterRun(w)
  PROVE  /\ TaskInv' /\ pc[w] = "ran" /\ pc'[w] \in {"top", "immediate"}
         /\ \A v \in Workers \ {w} :
              /\ pc'[v] = pc[v] /\ isHandlingFork'[v] = isHandlingFork[v]
              /\ taskToRun'[v] = taskToRun[v] /\ immediateCoresInUse'[v] = immediateCoresInUse[v]
         /\ taskToRun'[w] = None /\ isHandlingFork'[w] = FALSE
         /\ immediateCoresInUse'[w] \in {FALSE, immediateCoresInUse[w]}
         /\ isHandlingFork[w] => immediateCoresInUse'[w] = FALSE
         /\ immediateCoresInUse'[w] # immediateCoresInUse[w] => isHandlingFork[w]
         /\ UNCHANGED <<queues, hasQueuedWork, immediate, immediateTask, batch, push, phase, parked, pendingTasks>>
<1>1. TaskTypeOK /\ LocalInv(w)
  BY DEF TaskInv
<1>2. /\ pc[w] = "ran" /\ taskToRun' = [taskToRun EXCEPT ![w] = None]
      /\ isHandlingFork' = [isHandlingFork EXCEPT ![w] = FALSE]
      /\ UNCHANGED <<queues, hasQueuedWork, immediate, immediateTask, batch, push, phase, parked, pendingTasks>>
  BY DEF AfterRun, WorkerAt, Set, taskVars
<1>3. PICK p \in {"top", "immediate"} : At(w, p)
  BY DEF AfterRun
<1>4. /\ p \in WorkerPcs /\ pc' = [pc EXCEPT ![w] = p] /\ pc'[w] = p
      /\ \A v \in Workers \ {w} : pc'[v] = pc[v]
  BY <1>3, OwnLocal DEF WorkerPcs
<1>5. /\ immediateCoresInUse' \in [Workers -> BOOLEAN]
      /\ \A v \in Workers \ {w} : immediateCoresInUse'[v] = immediateCoresInUse[v]
      /\ immediateCoresInUse'[w] \in {FALSE, immediateCoresInUse[w]}
      /\ isHandlingFork[w] => immediateCoresInUse'[w] = FALSE
      /\ immediateCoresInUse'[w] # immediateCoresInUse[w] => isHandlingFork[w]
  <2>1. CASE isHandlingFork[w]
    <3>1. immediateCoresInUse' = [immediateCoresInUse EXCEPT ![w] = FALSE]
      BY <2>1 DEF AfterRun, Set
    <3> QED BY <1>1, <2>1, <3>1 DEF TaskTypeOK
  <2>2. CASE ~isHandlingFork[w]
    <3>1. immediateCoresInUse' = immediateCoresInUse
      BY <2>2 DEF AfterRun
    <3> QED BY <1>1, <2>2, <3>1 DEF TaskTypeOK
  <2> QED BY <2>1, <2>2
<1>6. /\ taskToRun' \in [Workers -> TaskOrNone] /\ isHandlingFork' \in [Workers -> BOOLEAN]
      /\ taskToRun'[w] = None /\ isHandlingFork'[w] = FALSE
      /\ \A v \in Workers \ {w} : taskToRun'[v] = taskToRun[v] /\ isHandlingFork'[v] = isHandlingFork[v]
  BY <1>1, <1>2 DEF TaskTypeOK, TaskOrNone
<1>7. LocalInv(w)'
  BY <1>1, <1>2, <1>4, <1>6 DEF LocalInv, HasTask, SeenImmediate
<1>8. TaskInv'
  BY <1>1, <1>2, <1>4, <1>5, <1>6, <1>7, OwnTyped DEF TaskTypeOK, queues
<1> QED BY <1>2, <1>4, <1>5, <1>6, <1>8

LEMMA TakeEffect ==
  ASSUME TaskInv, NEW w \in Workers, TakeImmediate(w)
  PROVE  /\ TaskInv' /\ pc[w] = "take" /\ pc' = [pc EXCEPT ![w] = "forget"]
         /\ taskToRun[w] = None /\ immediateTask[w] \in Tasks
         /\ taskToRun' = [taskToRun EXCEPT ![w] = immediateTask[w]]
         /\ UNCHANGED <<queues, flags, isHandlingFork, batch, push, phase, parked, pendingTasks>>
<1>1. TaskTypeOK /\ LocalInv(w)
  BY DEF TaskInv
<1>2. /\ pc[w] = "take" /\ pc' = [pc EXCEPT ![w] = "forget"]
      /\ taskToRun' = [taskToRun EXCEPT ![w] = immediateTask[w]]
      /\ UNCHANGED <<queues, flags, isHandlingFork, batch, push, phase, parked, pendingTasks>>
  BY DEF TakeImmediate, WorkerAt, At, Set, taskVars
<1>3. taskToRun[w] = None /\ immediateTask[w] \in Tasks /\ immediateTask[w] \in Immediates
  BY <1>1, <1>2, TaskKinds DEF LocalInv, HasTask, SeenImmediate
<1>4. /\ taskToRun' \in [Workers -> TaskOrNone] /\ taskToRun'[w] = immediateTask[w]
      /\ \A v \in Workers \ {w} : taskToRun'[v] = taskToRun[v]
  BY <1>1, <1>2 DEF TaskTypeOK
<1>5. pc'[w] = "forget" /\ "forget" \in WorkerPcs /\ immediateTask[w] # None
  BY <1>1, <1>2, <1>3, TaskKinds DEF TaskTypeOK, WorkerPcs
<1>6. LocalInv(w)'
  BY <1>1, <1>2, <1>3, <1>4, <1>5 DEF LocalInv, HasTask, SeenImmediate, flags
<1>7. TaskInv'
  BY <1>1, <1>2, <1>4, <1>5, <1>6, OwnTyped DEF TaskTypeOK, queues, flags
<1> QED BY <1>2, <1>3, <1>7

LEMMA ForgetEffect ==
  ASSUME TaskInv, NEW w \in Workers, ForgetImmediate(w)
  PROVE  /\ TaskInv' /\ pc[w] = "forget" /\ pc' = [pc EXCEPT ![w] = "unflag"]
         /\ immediateTask[w] # None /\ immediateTask' = [immediateTask EXCEPT ![w] = None]
         /\ UNCHANGED <<queues, immediateCoresInUse, locals, push, phase, parked, pendingTasks>>
<1>1. TaskTypeOK /\ LocalInv(w)
  BY DEF TaskInv
<1>2. /\ pc[w] = "forget" /\ pc' = [pc EXCEPT ![w] = "unflag"]
      /\ immediateTask' = [immediateTask EXCEPT ![w] = None]
      /\ UNCHANGED <<queues, immediateCoresInUse, locals, push, phase, parked, pendingTasks>>
  BY DEF ForgetImmediate, WorkerAt, At, Set, taskVars
<1>3. /\ immediateTask' \in [Workers -> TaskOrNone] /\ immediateTask'[w] = None
      /\ \A v \in Workers \ {w} : immediateTask'[v] = immediateTask[v]
  BY <1>1, <1>2 DEF TaskTypeOK, TaskOrNone
<1>4. pc'[w] = "unflag" /\ "unflag" \in WorkerPcs /\ immediateTask[w] # None
  BY <1>1, <1>2 DEF TaskTypeOK, WorkerPcs, LocalInv, SeenImmediate
<1>5. LocalInv(w)'
  BY <1>1, <1>2, <1>3, <1>4 DEF LocalInv, HasTask, SeenImmediate, locals
<1>6. TaskInv'
  BY <1>1, <1>2, <1>3, <1>4, <1>5, OwnTyped DEF TaskTypeOK, queues, locals
<1> QED BY <1>2, <1>4, <1>6

LEMMA UnflagEffect ==
  ASSUME TaskInv, NEW w \in Workers, UnflagImmediate(w)
  PROVE  /\ TaskInv' /\ pc[w] = "unflag" /\ pc' = [pc EXCEPT ![w] = "top"]
         /\ isHandlingFork' = [isHandlingFork EXCEPT ![w] = TRUE]
         /\ UNCHANGED <<queues, immediateTask, immediateCoresInUse, taskToRun, batch, push, phase, parked,
                        pendingTasks>>
<1>1. TaskTypeOK /\ LocalInv(w)
  BY DEF TaskInv
<1>2. /\ pc[w] = "unflag" /\ pc' = [pc EXCEPT ![w] = "top"]
      /\ isHandlingFork' = [isHandlingFork EXCEPT ![w] = TRUE]
      /\ UNCHANGED <<queues, immediateTask, immediateCoresInUse, taskToRun, batch, push, phase, parked,
                     pendingTasks>>
  BY DEF UnflagImmediate, WorkerAt, At, Set, taskVars
<1>3. /\ isHandlingFork' \in [Workers -> BOOLEAN] /\ isHandlingFork'[w] = TRUE
      /\ \A v \in Workers \ {w} : isHandlingFork'[v] = isHandlingFork[v]
  BY <1>1, <1>2 DEF TaskTypeOK
<1>4. pc'[w] = "top" /\ "top" \in WorkerPcs
  BY <1>1, <1>2 DEF TaskTypeOK, WorkerPcs
<1>5. LocalInv(w)'
  BY <1>1, <1>2, <1>3, <1>4 DEF LocalInv, HasTask, SeenImmediate
<1>6. TaskInv'
  BY <1>1, <1>2, <1>3, <1>4, <1>5, OwnTyped DEF TaskTypeOK, queues
<1> QED BY <1>2, <1>6

\* Either lane of the inbox, ahead of an immediate task or in the search.
Drains(w, l) ==
  \/ l = "hi" /\ DrainInbox(w, l, "drain_hi", "requeue_hi")
  \/ l = "lo" /\ DrainInbox(w, l, "drain_lo", "requeue_lo")
Pulls(w, l) ==
  \/ l = "hi" /\ PullInbox(w, l, "inbox_hi", "pulled_hi", "inbox_lo")
  \/ l = "lo" /\ PullInbox(w, l, "inbox_lo", "pulled_lo", "lock")
Requeues(w) ==
  batch[w] # << >> /\ (RequeueBatch(w, "requeue_hi", "drain_lo") \/ RequeueBatch(w, "requeue_lo", "take"))

LEMMA DrainsEffect ==
  ASSUME TaskInv, NEW w \in Workers, NEW l \in Lanes, Drains(w, l)
  PROVE  /\ TaskInv' /\ inbox[w][l] \in Seq(Tasks) /\ batch[w] = << >>
         /\ AtMost(inbox[w][l]) \in Seq(Tasks) /\ Beyond(inbox[w][l]) \in Seq(Tasks)
         /\ batch' = [batch EXCEPT ![w] = AtMost(inbox[w][l])]
         /\ inbox' = [inbox EXCEPT ![w][l] = Beyond(inbox[w][l])]
         /\ pc[w] \in {"drain_hi", "drain_lo"}
         /\ \E p \in {"requeue_hi", "requeue_lo"} : pc' = [pc EXCEPT ![w] = p]
         /\ UNCHANGED <<deque, flags, taskToRun, isHandlingFork, push, phase, parked, pendingTasks>>
<1>1. TaskTypeOK /\ LocalInv(w)
  BY DEF TaskInv
<1>2. /\ pc[w] \in {"drain_hi", "drain_lo"}
      /\ batch' = [batch EXCEPT ![w] = AtMost(inbox[w][l])]
      /\ inbox' = [inbox EXCEPT ![w][l] = Beyond(inbox[w][l])]
      /\ UNCHANGED <<deque, flags, taskToRun, isHandlingFork, push, phase, parked, pendingTasks>>
  BY DEF Drains, DrainInbox, WorkerAt, Set, taskVars
<1>3. PICK p \in {"requeue_hi", "requeue_lo"} : pc' = [pc EXCEPT ![w] = p]
  BY DEF Drains, DrainInbox, At, Set
<1>4. batch[w] = << >> /\ inbox[w][l] \in Seq(Tasks) /\ pc'[w] = p /\ p \in WorkerPcs
  BY <1>1, <1>2, <1>3 DEF LocalInv, TaskTypeOK, WorkerPcs
<1>5. AtMost(inbox[w][l]) \in Seq(Tasks) /\ Beyond(inbox[w][l]) \in Seq(Tasks)
  BY <1>4, BatchSplit
<1>6. inbox' \in [Workers -> [Lanes -> Seq(Tasks)]]
  <2>1. inbox \in [Workers -> [Lanes -> Seq(Tasks)]]
    BY <1>1 DEF TaskTypeOK
  <2> QED BY <1>2, <1>5, <2>1, UpdateLane
<1>7. /\ batch' \in [Workers -> Seq(Tasks)]
      /\ \A v \in Workers \ {w} : batch'[v] = batch[v]
  <2>1. batch \in [Workers -> Seq(Tasks)]
    BY <1>1 DEF TaskTypeOK
  <2> QED BY <1>2, <1>5, <2>1, Update
<1>8. LocalInv(w)'
  BY <1>1, <1>2, <1>3, <1>4 DEF LocalInv, HasTask, SeenImmediate, flags
<1>9. TaskInv'
  BY <1>1, <1>2, <1>3, <1>4, <1>6, <1>7, <1>8, OwnTyped DEF TaskTypeOK, flags
<1> QED BY <1>2, <1>3, <1>4, <1>5, <1>9

LEMMA RequeuesEffect ==
  ASSUME TaskInv, NEW w \in Workers, Requeues(w)
  PROVE  /\ TaskInv' /\ w \in Actors /\ push[w] = Idle
         /\ \E e \in Tasks, r \in Seq(Tasks) :
              /\ Takes(batch[w], e, r) /\ batch' = [batch EXCEPT ![w] = r]
              /\ push'[w].task = e /\ push'[w].at = "pick" /\ push'[w].new = FALSE
         /\ \A y \in Actors \ {w} : push'[y] = push[y]
         /\ UNCHANGED <<queues, flags, pc, taskToRun, isHandlingFork, phase, parked, pendingTasks>>
<1>1. TaskTypeOK /\ LocalInv(w)
  BY DEF TaskInv
<1>2. /\ batch[w] # << >> /\ pc[w] \in {"requeue_hi", "requeue_lo"} /\ push[w] = Idle
      /\ StartRequeue(w, Head(batch[w])) /\ batch' = [batch EXCEPT ![w] = Tail(batch[w])]
      /\ UNCHANGED <<queues, flags, pc, taskToRun, isHandlingFork, phase, parked, pendingTasks>>
  BY DEF Requeues, RequeueBatch, WorkerAt, taskVars
<1>3. batch[w] \in Seq(Tasks) /\ w \in Actors
  BY <1>1 DEF TaskTypeOK, Actors
<1>4. /\ Head(batch[w]) \in Tasks /\ Tail(batch[w]) \in Seq(Tasks)
      /\ Takes(batch[w], Head(batch[w]), Tail(batch[w]))
  BY <1>2, <1>3, HeldTail DEF Takes
<1>5. PICK e \in Tasks, r \in Seq(Tasks) : e = Head(batch[w]) /\ r = Tail(batch[w])
  BY <1>4
<1>6. Takes(batch[w], e, r) /\ batch' = [batch EXCEPT ![w] = r] /\ StartRequeue(w, e)
  BY <1>2, <1>4, <1>5
<1>7. /\ push' \in [Actors -> GoodCalls] /\ \A y \in Actors \ {w} : push'[y] = push[y]
      /\ push'[w].task = e /\ push'[w].at = "pick" /\ push'[w].new = FALSE
  BY <1>1, <1>3, <1>6, RequeueEffect
<1>8. batch' \in [Workers -> Seq(Tasks)] /\ \A v \in Workers \ {w} : batch'[v] = batch[v]
  <2>1. batch \in [Workers -> Seq(Tasks)]
    BY <1>1 DEF TaskTypeOK
  <2> QED BY <1>6, <2>1, Update
<1>9. LocalInv(w)'
  BY <1>1, <1>2 DEF LocalInv, HasTask, SeenImmediate, flags
<1>10. TaskInv'
  <2>1. TaskTypeOK'
    BY <1>1, <1>2, <1>7, <1>8 DEF TaskTypeOK, queues, flags
  <2>2. \A v \in Workers : LocalInv(v)'
    BY <1>2, <1>8, <1>9, LocalKept DEF TaskInv, flags
  <2> QED BY <2>1, <2>2 DEF TaskInv
<1> QED BY <1>2, <1>3, <1>6, <1>7, <1>10

LEMMA PullsEffect ==
  ASSUME TaskInv, NEW w \in Workers, NEW l \in Lanes, Pulls(w, l)
  PROVE  /\ TaskInv' /\ inbox[w][l] \in Seq(Tasks) /\ deque[w][l] \in Seq(Tasks)
         /\ deque[w][l] \o AtMost(inbox[w][l]) \in Seq(Tasks)
         /\ AtMost(inbox[w][l]) \in Seq(Tasks) /\ Beyond(inbox[w][l]) \in Seq(Tasks)
         /\ deque' = [deque EXCEPT ![w][l] = deque[w][l] \o AtMost(inbox[w][l])]
         /\ inbox' = [inbox EXCEPT ![w][l] = Beyond(inbox[w][l])]
         /\ pc[w] \in {"inbox_hi", "inbox_lo"}
         /\ \E p \in {"pulled_hi", "inbox_lo", "pulled_lo", "lock"} : pc' = [pc EXCEPT ![w] = p]
         /\ UNCHANGED <<flags, locals, push, phase, parked, pendingTasks>>
<1>1. TaskTypeOK /\ LocalInv(w)
  BY DEF TaskInv
<1>2. /\ pc[w] \in {"inbox_hi", "inbox_lo"}
      /\ deque' = [deque EXCEPT ![w][l] = deque[w][l] \o AtMost(inbox[w][l])]
      /\ inbox' = [inbox EXCEPT ![w][l] = Beyond(inbox[w][l])]
      /\ UNCHANGED <<flags, locals, push, phase, parked, pendingTasks>>
  BY DEF Pulls, PullInbox, WorkerAt, taskVars
<1>3. PICK p \in {"pulled_hi", "inbox_lo", "pulled_lo", "lock"} : pc' = [pc EXCEPT ![w] = p]
  BY DEF Pulls, PullInbox, At, Set
<1>4. /\ inbox[w][l] \in Seq(Tasks) /\ deque[w][l] \in Seq(Tasks) /\ pc'[w] = p /\ p \in WorkerPcs
  BY <1>1, <1>3 DEF TaskTypeOK, WorkerPcs
<1>5. AtMost(inbox[w][l]) \in Seq(Tasks) /\ Beyond(inbox[w][l]) \in Seq(Tasks)
  BY <1>4, BatchSplit
<1>6. deque[w][l] \o AtMost(inbox[w][l]) \in Seq(Tasks)
  BY <1>4, <1>5, ConcatProperties
<1>7. inbox' \in [Workers -> [Lanes -> Seq(Tasks)]] /\ deque' \in [Workers -> [Lanes -> Seq(Tasks)]]
  <2>1. inbox \in [Workers -> [Lanes -> Seq(Tasks)]] /\ deque \in [Workers -> [Lanes -> Seq(Tasks)]]
    BY <1>1 DEF TaskTypeOK
  <2> QED BY <1>2, <1>5, <1>6, <2>1, UpdateLane
<1>8. LocalInv(w)'
  BY <1>1, <1>2, <1>3, <1>4 DEF LocalInv, HasTask, SeenImmediate, flags, locals
<1>9. TaskInv'
  BY <1>1, <1>2, <1>3, <1>4, <1>7, <1>8, OwnTyped DEF TaskTypeOK, flags, locals
<1> QED BY <1>2, <1>3, <1>4, <1>5, <1>6, <1>9

LEMMA PutEffect ==
  ASSUME TaskInv, NEW x \in Actors, PutInbox(x)
  PROVE  /\ TaskInv' /\ push[x].at = "put" /\ push'[x].at = IF push[x].new THEN "count" ELSE "mark"
         /\ push'[x].new = push[x].new
         /\ push[x].task \in Tasks /\ push[x].to \in Workers /\ push[x].lane \in Lanes
         /\ inbox[push[x].to][push[x].lane] \in Seq(Tasks)
         /\ inbox' = [inbox EXCEPT ![push[x].to][push[x].lane] =
                        Append(inbox[push[x].to][push[x].lane], push[x].task)]
         /\ \A y \in Actors \ {x} : push'[y] = push[y]
         /\ UNCHANGED <<deque, flags, pc, locals, phase, parked, pendingTasks>>
<1>1. TaskTypeOK
  BY DEF TaskInv
<1>2. /\ push[x].at = "put" /\ Step(x, IF push[x].new THEN "count" ELSE "mark")
      /\ inbox' = [inbox EXCEPT ![push[x].to][push[x].lane] =
                     Append(inbox[push[x].to][push[x].lane], push[x].task)]
      /\ UNCHANGED <<deque, flags, pc, locals, phase, parked, pendingTasks>>
  BY DEF PutInbox, InCall, taskVars
<1>3. push[x].task \in Tasks /\ push[x].to \in Workers /\ push[x].lane \in Lanes
  BY <1>1, <1>2, CallTask
<1>4. PICK at \in {"count", "mark"} : at = IF push[x].new THEN "count" ELSE "mark"
  OBVIOUS
<1>5. /\ push' \in [Actors -> GoodCalls] /\ push'[x].at = at /\ push'[x].new = push[x].new
      /\ \A y \in Actors \ {x} : push'[y] = push[y]
  BY <1>1, <1>2, <1>4, StepGood DEF PushPcs
<1>6. inbox[push[x].to][push[x].lane] \in Seq(Tasks) /\ inbox \in [Workers -> [Lanes -> Seq(Tasks)]]
  BY <1>1, <1>3 DEF TaskTypeOK
<1>7. inbox' \in [Workers -> [Lanes -> Seq(Tasks)]]
  <2>1. Append(inbox[push[x].to][push[x].lane], push[x].task) \in Seq(Tasks)
    BY <1>3, <1>6
  <2> QED BY <1>2, <1>3, <1>6, <2>1, UpdateLane
<1>8. TaskTypeOK'
  BY <1>1, <1>2, <1>5, <1>7 DEF TaskTypeOK, flags, locals
<1>9. \A w \in Workers : LocalInv(w)'
  BY <1>2, LocalKept DEF TaskInv, flags, locals
<1> QED BY <1>2, <1>3, <1>4, <1>5, <1>6, <1>8, <1>9 DEF TaskInv

LEMMA CoreTaskEffect ==
  ASSUME TaskInv, NEW x \in Actors, CoreTask(x)
  PROVE  /\ TaskInv' /\ push[x].at = "core_task" /\ push'[x].at = "core_immediate"
         /\ push[x].task \in Tasks /\ push[x].task \in Immediates /\ push[x].to \in Workers
         /\ immediateTask' = [immediateTask EXCEPT ![push[x].to] = push[x].task]
         /\ \A y \in Actors \ {x} : push'[y] = push[y]
         /\ UNCHANGED <<queues, immediateCoresInUse, pc, locals, phase, parked, pendingTasks>>
<1>1. TaskTypeOK
  BY DEF TaskInv
<1>2. /\ push[x].at = "core_task" /\ Step(x, "core_immediate")
      /\ immediateTask' = [immediateTask EXCEPT ![push[x].to] = push[x].task]
      /\ UNCHANGED <<queues, immediateCoresInUse, pc, locals, phase, parked, pendingTasks>>
  BY DEF CoreTask, InCall, taskVars, Set
<1>3. push[x].task \in Tasks /\ push[x].to \in Workers /\ push[x].task \in Immediates
  BY <1>1, <1>2, CallTask DEF GoodCalls
<1>4. /\ push' \in [Actors -> GoodCalls] /\ push'[x].at = "core_immediate"
      /\ \A y \in Actors \ {x} : push'[y] = push[y]
  BY <1>1, <1>2, StepGood DEF PushPcs
<1>5. /\ immediateTask' \in [Workers -> TaskOrNone]
      /\ \A v \in Workers : immediateTask'[v] = IF v = push[x].to THEN push[x].task ELSE immediateTask[v]
  BY <1>1, <1>2, <1>3 DEF TaskTypeOK, TaskOrNone
<1>6. TaskTypeOK'
  BY <1>1, <1>2, <1>4, <1>5 DEF TaskTypeOK, queues, locals
<1>7. ASSUME NEW w \in Workers PROVE LocalInv(w)'
  <2>1. LocalInv(w)
    BY DEF TaskInv
  <2>2. CASE w # push[x].to
    BY <1>2, <1>5, <2>1, <2>2, LocalKept DEF locals
  <2>3. CASE w = push[x].to
    <3>1. immediateTask'[w] \in Immediates /\ immediateTask'[w] # None
      BY <1>3, <1>5, <2>3, TaskKinds
    <3> QED BY <1>2, <2>1, <3>1 DEF LocalInv, locals
  <2> QED BY <2>2, <2>3
<1> QED BY <1>2, <1>3, <1>4, <1>6, <1>7 DEF TaskInv

LEMMA HelpStealEffect ==
  ASSUME TaskInv, NEW x \in Actors, NEW v \in Workers, NEW l \in Lanes, HelpSteal(x, v, l)
  PROVE  /\ TaskInv' /\ push[x] = Idle /\ \A y \in Actors \ {x} : push'[y] = push[y]
         /\ \E e \in Tasks, r \in Seq(Tasks) :
              /\ Takes(deque[v][l], e, r) /\ deque' = [deque EXCEPT ![v][l] = r]
              /\ push'[x].task = e /\ push'[x].at \in {"pick", "help"} /\ push'[x].new = FALSE
         /\ UNCHANGED <<inbox, flags, pc, locals, phase, parked, pendingTasks>>
<1>1. TaskTypeOK /\ deque[v][l] \in Seq(Tasks)
  BY DEF TaskInv, TaskTypeOK
<1>2. /\ push[x] = Idle /\ deque[v][l] # << >> /\ deque' = [deque EXCEPT ![v][l] = Tail(deque[v][l])]
      /\ \/ Start(x, [Idle EXCEPT !.at = "help", !.task = Head(deque[v][l])])
         \/ StartRequeue(x, Head(deque[v][l]))
      /\ UNCHANGED <<inbox, flags, pc, locals, phase, parked, pendingTasks>>
  BY DEF HelpSteal, CanCall
<1>3. /\ Head(deque[v][l]) \in Tasks /\ Tail(deque[v][l]) \in Seq(Tasks)
      /\ Takes(deque[v][l], Head(deque[v][l]), Tail(deque[v][l]))
  BY <1>1, <1>2, HeldTail DEF Takes
<1>4. PICK e \in Tasks, r \in Seq(Tasks) : e = Head(deque[v][l]) /\ r = Tail(deque[v][l])
  BY <1>3
<1>5. /\ Takes(deque[v][l], e, r) /\ deque' = [deque EXCEPT ![v][l] = r]
      /\ Start(x, [Idle EXCEPT !.at = "help", !.task = e]) \/ StartRequeue(x, e)
  BY <1>2, <1>3, <1>4
<1>6. /\ push' \in [Actors -> GoodCalls] /\ \A y \in Actors \ {x} : push'[y] = push[y]
      /\ push'[x].task = e /\ push'[x].at \in {"pick", "help"} /\ push'[x].new = FALSE
  <2>1. CASE Start(x, [Idle EXCEPT !.at = "help", !.task = e])
    <3>1. PICK c : c = [at |-> "help", task |-> e, to |-> 0, lane |-> "lo", new |-> FALSE]
      OBVIOUS
    <3>2. push' = [push EXCEPT ![x] = c]
      BY <2>1, <3>1, NewHelp
    <3>3. 0 \in Workers /\ "lo" \in Lanes
      BY IdleType DEF Lanes
    <3>4. c \in GoodCalls
      BY <3>1, <3>3, CallGood DEF PushPcs
    <3> QED BY <1>1, <3>1, <3>2, <3>4, PushUpdate
  <2>2. CASE StartRequeue(x, e)
    BY <1>1, <2>2, RequeueEffect
  <2> QED BY <1>5, <2>1, <2>2
<1>7. deque' \in [Workers -> [Lanes -> Seq(Tasks)]]
  <2>1. deque \in [Workers -> [Lanes -> Seq(Tasks)]]
    BY <1>1 DEF TaskTypeOK
  <2> QED BY <1>5, <2>1, UpdateLane
<1>8. TaskTypeOK'
  BY <1>1, <1>2, <1>6, <1>7 DEF TaskTypeOK, flags, locals
<1>9. \A w \in Workers : LocalInv(w)'
  BY <1>2, LocalKept DEF TaskInv, flags, locals
<1> QED BY <1>2, <1>5, <1>6, <1>8, <1>9 DEF TaskInv

\* Pause, Resume and Join, and a step that changes nothing.
Controls == Control \/ Pause \/ Join \/ UNCHANGED vars
LEMMA ControlEffect ==
  ASSUME TaskInv, Controls
  PROVE  TaskInv' /\ Woken /\ UNCHANGED <<queues, flags, locals, push, phase, parked, pendingTasks>>
<1>1. UNCHANGED <<queues, flags, locals, push, phase, parked, pendingTasks>>
  BY DEF Controls, Control, Pause, Resume, Join, NotifyAll, JoinWorker, Joined, vars, taskVars
<1>2. pc' = pc \/ \E w \in Workers : Wake(w)
  BY DEF Controls, Control, Pause, Resume, Join, NotifyAll, JoinWorker, Joined, NotifyWorker, vars
<1>3. pc' \in [Workers -> WorkerPcs] /\ Woken
  <2>1. CASE pc' = pc
    BY <2>1 DEF TaskInv, TaskTypeOK, Woken
  <2> QED BY <1>2, <2>1, WakeEffect DEF TaskInv
<1>4. TaskTypeOK'
  BY <1>1, <1>3 DEF TaskInv, TaskTypeOK, queues, flags, locals
<1>5. \A w \in Workers : LocalInv(w)'
  BY <1>1, <1>3, LocalKept DEF TaskInv, flags, locals, Woken
<1> QED BY <1>1, <1>3, <1>4, <1>5 DEF TaskInv

\* The step refuses nobody a fiber.  What follows speaks of behaviours up to
\* the first refusal: it leaves a task in two places.
NoRefusal == \A w \in Workers : ~NoFiber(w)

\* Every step is one of these.
LEMMA StepKinds ==
  ASSUME [Next]_vars
  PROVE  \/ \E x \in Actors, t \in Tasks, w \in Workers : Submits(x, t, w)
         \/ \E x \in Actors, t \in Tasks : ResumeTask(x, t)
         \/ \E x \in Actors : Quiet(x) \/ Ends(x) \/ PutInbox(x) \/ CoreTask(x)
         \/ \E x \in Actors, v \in Workers, l \in Lanes : HelpSteal(x, v, l)
         \/ \E w \in Workers : WorkerCode(w)
         \/ Controls
<1>1. ASSUME NEW x \in Actors, PushStep(x) PROVE Quiet(x) \/ Ends(x) \/ PutInbox(x) \/ CoreTask(x)
  BY <1>1 DEF PushStep, Quiet, Ends
<1>2. ASSUME NEW x \in Actors, Submit(x) PROVE \E t \in Tasks, w \in Workers : Submits(x, t, w)
  <2>1. 0 \in Workers
    BY IdleType
  <2> QED BY <1>2, <2>1 DEF Submit, Submits
<1> QED BY <1>1, <1>2 DEF Next, Controls

LEMMA WorkerKinds ==
  ASSUME TaskInv, NEW w \in Workers, WorkerCode(w), NoRefusal
  PROVE  \/ Wanders(w) \/ Finds(w) \/ Stops(w) \/ AfterRun(w)
         \/ TakeImmediate(w) \/ ForgetImmediate(w) \/ UnflagImmediate(w) \/ Requeues(w)
         \/ \E l \in Lanes : Drains(w, l) \/ Pulls(w, l)
<1>1. "hi" \in Lanes /\ "lo" \in Lanes
  BY DEF Lanes
<1>2. CASE DrainInboxes(w)
  <2>1. CASE RequeueBatch(w, "requeue_hi", "drain_lo") \/ RequeueBatch(w, "requeue_lo", "take")
    BY <2>1, WorkerWanders DEF Requeues
  <2>2. CASE ~(RequeueBatch(w, "requeue_hi", "drain_lo") \/ RequeueBatch(w, "requeue_lo", "take"))
    BY <1>1, <1>2, <2>2 DEF DrainInboxes, Drains
  <2> QED BY <2>1, <2>2
<1>3. CASE PullInboxes(w)
  <2>1. CASE PopPulled(w, "hi", "pulled_hi", "inbox_lo") \/ PopPulled(w, "lo", "pulled_lo", "lock")
    BY <2>1, WorkerWanders, WorkerFinds
  <2>2. CASE ~(PopPulled(w, "hi", "pulled_hi", "inbox_lo") \/ PopPulled(w, "lo", "pulled_lo", "lock"))
    BY <1>1, <1>3, <2>2 DEF PullInboxes, Pulls
  <2> QED BY <2>1, <2>2
<1>4. CASE PopLocal(w)
  BY <1>4, WorkerWanders, WorkerFinds
<1>5. CASE \E v \in Workers, l \in Lanes : Steal(w, v, l)
  BY <1>5, WorkerFinds
<1>6. CASE LoopTop(w) \/ GetFiber(w) \/ SeeImmediate(w) \/ StealMiss(w) \/ TestSleep(w) \/ Block(w)
  BY <1>6, WorkerWanders
<1>7. CASE TaskFinished(w) \/ TaskYielded(w) \/ TaskParked(w) \/ TaskSignalled(w)
  BY <1>7 DEF Stops
<1>8. CASE AfterRun(w) \/ TakeImmediate(w) \/ ForgetImmediate(w) \/ UnflagImmediate(w)
  BY <1>8
<1>9. ~NoFiber(w) /\ ~Reflag(w)
  BY DEF NoRefusal, Reflag, WorkerAt, TaskInv, LocalInv
<1> QED BY <1>2, <1>3, <1>4, <1>5, <1>6, <1>7, <1>8, <1>9 DEF WorkerCode

LEMMA TaskInit == Init => TaskInv
<1> SUFFICES ASSUME Init PROVE TaskInv
  OBVIOUS
<1>1. TaskTypeOK
  <2>1. phase \in [Tasks -> {"absent", "new", "live", "refused", "done"}]
    BY DEF Init
  <2>2. push \in [Actors -> GoodCalls]
    BY IdleGood DEF Init
  <2> QED BY <2>1, <2>2 DEF Init, TaskTypeOK, WorkerPcs, TaskOrNone
<1>2. \A w \in Workers : LocalInv(w)
  BY DEF Init, LocalInv, HasTask, SeenImmediate
<1> QED BY <1>1, <1>2 DEF TaskInv

LEMMA TaskStep == TaskInv /\ [Next]_vars /\ NoRefusal => TaskInv'
<1> SUFFICES ASSUME TaskInv, [Next]_vars, NoRefusal PROVE TaskInv'
  OBVIOUS
<1>1. ASSUME NEW w \in Workers, WorkerCode(w) PROVE TaskInv'
  BY <1>1, WorkerKinds, WandersTyped, FindsTyped, StopsTyped, AfterRunEffect, TakeEffect, ForgetEffect,
     UnflagEffect, RequeuesEffect, DrainsEffect, PullsEffect
<1> QED BY <1>1, StepKinds, SubmitTyped, ResumeEffect, QuietTyped, EndsEffect, PutEffect,
           CoreTaskEffect, HelpStealEffect, ControlEffect

-----------------------------------------------------------------------------
(* Every task is in at most one place, until a worker is refused a fiber.  *)

\* A task in the hands of a worker, waiting as its immediate task, in a call.
InHand(t, w) == taskToRun[w] = t /\ pc[w] # "ran"
Waits(t, w) == immediateTask[w] = t /\ pc[w] # "forget"
Carried(t, x) == push[x].task = t /\ push[x].at \in BeforePut

Kinds == {"inbox", "deque", "batch", "run", "immediate", "push", "parked", "nowhere"}
HomeIs(t, k, a, l) ==
  /\ \A w \in Workers, m \in Lanes : Held(t, inbox[w][m]) <=> (k = "inbox" /\ a = w /\ l = m)
  /\ \A w \in Workers, m \in Lanes : Held(t, deque[w][m]) <=> (k = "deque" /\ a = w /\ l = m)
  /\ \A w \in Workers : Held(t, batch[w]) <=> (k = "batch" /\ a = w)
  /\ \A w \in Workers : InHand(t, w) <=> (k = "run" /\ a = w)
  /\ \A w \in Workers : Waits(t, w) <=> (k = "immediate" /\ a = w)
  /\ \A x \in Actors : Carried(t, x) <=> (k = "push" /\ a = x)
  /\ t \in parked <=> k = "parked"

\* One home while the task lives, none when it does not.  A task whose pointer
\* was overwritten (lost) has none either.
Settled(t, lost) ==
  \E k \in Kinds, a \in Actors, l \in Lanes :
    /\ HomeIs(t, k, a, l) /\ (a \in Workers \/ k \in {"push", "parked", "nowhere"})
    /\ k # "nowhere" => phase[t] = "live"
    /\ ~lost => (phase[t] = "live" => k # "nowhere")
NoTwice ==
  \A w \in Workers : Distinct(batch[w]) /\ \A l \in Lanes : Distinct(inbox[w][l]) /\ Distinct(deque[w][l])
OnceInv(lost) == NoTwice /\ \A t \in Tasks : Settled(t, lost)

\* A task that is seen somewhere is there and nowhere else.
LEMMA HomeFound ==
  ASSUME NEW t, NEW lost, Settled(t, lost)
  PROVE  /\ \A w \in Workers, m \in Lanes : Held(t, inbox[w][m]) => HomeIs(t, "inbox", w, m) /\ phase[t] = "live"
         /\ \A w \in Workers, m \in Lanes : Held(t, deque[w][m]) => HomeIs(t, "deque", w, m) /\ phase[t] = "live"
         /\ \A w \in Workers : Held(t, batch[w]) => HomeIs(t, "batch", w, "lo") /\ phase[t] = "live"
         /\ \A w \in Workers : InHand(t, w) => HomeIs(t, "run", w, "lo") /\ phase[t] = "live"
         /\ \A w \in Workers : Waits(t, w) => HomeIs(t, "immediate", w, "lo") /\ phase[t] = "live"
         /\ \A x \in Actors : Carried(t, x) => HomeIs(t, "push", x, "lo") /\ phase[t] = "live"
         /\ t \in parked => HomeIs(t, "parked", 0, "lo") /\ phase[t] = "live"
<1>1. PICK k \in Kinds, a \in Actors, l \in Lanes : HomeIs(t, k, a, l) /\ (k # "nowhere" => phase[t] = "live")
  BY DEF Settled
<1>2. ASSUME NEW w \in Workers, NEW m \in Lanes, Held(t, inbox[w][m])
      PROVE  HomeIs(t, "inbox", w, m) /\ phase[t] = "live"
  <2>1. k = "inbox" /\ a = w /\ l = m
    BY <1>1, <1>2 DEF HomeIs
  <2> QED BY <1>1, <2>1
<1>3. ASSUME NEW w \in Workers, NEW m \in Lanes, Held(t, deque[w][m])
      PROVE  HomeIs(t, "deque", w, m) /\ phase[t] = "live"
  <2>1. k = "deque" /\ a = w /\ l = m
    BY <1>1, <1>3 DEF HomeIs
  <2> QED BY <1>1, <2>1
<1>4. ASSUME k \notin {"inbox", "deque"}, NEW m PROVE HomeIs(t, k, a, m)
  BY <1>1, <1>4 DEF HomeIs
<1>5. ASSUME NEW w \in Workers, Held(t, batch[w]) PROVE HomeIs(t, "batch", w, "lo") /\ phase[t] = "live"
  <2>1. k = "batch" /\ a = w
    BY <1>1, <1>5 DEF HomeIs
  <2> QED BY <1>1, <1>4, <2>1
<1>6. ASSUME NEW w \in Workers, InHand(t, w) PROVE HomeIs(t, "run", w, "lo") /\ phase[t] = "live"
  <2>1. k = "run" /\ a = w
    BY <1>1, <1>6 DEF HomeIs
  <2> QED BY <1>1, <1>4, <2>1
<1>7. ASSUME NEW w \in Workers, Waits(t, w) PROVE HomeIs(t, "immediate", w, "lo") /\ phase[t] = "live"
  <2>1. k = "immediate" /\ a = w
    BY <1>1, <1>7 DEF HomeIs
  <2> QED BY <1>1, <1>4, <2>1
<1>8. ASSUME NEW x \in Actors, Carried(t, x) PROVE HomeIs(t, "push", x, "lo") /\ phase[t] = "live"
  <2>1. k = "push" /\ a = x
    BY <1>1, <1>8 DEF HomeIs
  <2> QED BY <1>1, <1>4, <2>1
<1>9. ASSUME t \in parked PROVE HomeIs(t, "parked", 0, "lo") /\ phase[t] = "live"
  <2>1. k = "parked"
    BY <1>1, <1>9 DEF HomeIs
  <2> QED BY <1>1, <2>1 DEF HomeIs
<1> QED BY <1>2, <1>3, <1>5, <1>6, <1>7, <1>8, <1>9

\* Where a task was before the step it still is.
Stays(t) ==
  /\ \A w \in Workers, m \in Lanes : Held(t, inbox'[w][m]) <=> Held(t, inbox[w][m])
  /\ \A w \in Workers, m \in Lanes : Held(t, deque'[w][m]) <=> Held(t, deque[w][m])
  /\ \A w \in Workers : Held(t, batch'[w]) <=> Held(t, batch[w])
  /\ \A w \in Workers : InHand(t, w)' <=> InHand(t, w)
  /\ \A w \in Workers : Waits(t, w)' <=> Waits(t, w)
  /\ \A x \in Actors : Carried(t, x)' <=> Carried(t, x)
  /\ t \in parked' <=> t \in parked
  /\ phase'[t] = phase[t]

LEMMA StaysSettled ==
  ASSUME NEW t, NEW lost, Settled(t, lost), Stays(t)
  PROVE  Settled(t, lost)'
<1>1. PICK k \in Kinds, a \in Actors, l \in Lanes :
        /\ HomeIs(t, k, a, l) /\ (a \in Workers \/ k \in {"push", "parked", "nowhere"})
        /\ k # "nowhere" => phase[t] = "live"
        /\ ~lost => (phase[t] = "live" => k # "nowhere")
  BY DEF Settled
<1>2. HomeIs(t, k, a, l)'
  BY <1>1 DEF HomeIs, Stays
<1> QED BY <1>1, <1>2 DEF Settled, Stays

LEMMA MovesSettled ==
  ASSUME NEW t, NEW lost, NEW k \in Kinds \ {"nowhere"}, NEW a \in Actors, NEW l \in Lanes,
         HomeIs(t, k, a, l)', phase'[t] = "live", a \in Workers \/ k \in {"push", "parked"}
  PROVE  Settled(t, lost)'
BY DEF Settled

\* A task that is not seen anywhere, because it is not live or was lost.
LEMMA GoneSettled ==
  ASSUME NEW t, NEW lost, NEW a \in Actors, HomeIs(t, "nowhere", a, "lo")', lost \/ phase'[t] # "live"
  PROVE  Settled(t, lost)'
BY DEF Settled, Kinds, Lanes

\* Steps in which no task moves.
LEMMA OnceQuiet ==
  ASSUME TaskInv, NEW lost, OnceInv(lost), NEW x \in Actors, Quiet(x)
  PROVE  OnceInv(lost)'
<1>1. TaskTypeOK
  BY DEF TaskInv
<1>2. UNCHANGED <<queues, immediateTask, locals, phase, parked>> /\ Woken
  BY <1>1, QuietRest
<1>3. NoTwice'
  BY <1>2 DEF OnceInv, NoTwice, queues, locals
<1>4. ASSUME NEW t \in Tasks PROVE Stays(t)
  <2>1. \A y \in Actors : Carried(t, y)' <=> Carried(t, y)
    BY <1>1, QuietPush DEF Carried
  <2> QED BY <1>2, <2>1 DEF Stays, InHand, Waits, Woken, queues, locals
<1> QED BY <1>3, <1>4, StaysSettled DEF OnceInv

LEMMA OnceControl ==
  ASSUME TaskInv, NEW lost, OnceInv(lost), Controls
  PROVE  OnceInv(lost)'
<1>1. UNCHANGED <<queues, flags, locals, push, phase, parked>> /\ Woken
  BY ControlEffect
<1>2. NoTwice'
  BY <1>1 DEF OnceInv, NoTwice, queues, locals
<1>3. ASSUME NEW t \in Tasks PROVE Stays(t)
  BY <1>1 DEF Stays, InHand, Waits, Carried, Woken, queues, flags, locals
<1> QED BY <1>2, <1>3, StaysSettled DEF OnceInv

LEMMA OnceWanders ==
  ASSUME TaskInv, NEW lost, OnceInv(lost), NEW w \in Workers, Wanders(w)
  PROVE  OnceInv(lost)'
<1>1. UNCHANGED <<queues, immediateTask, locals, push, phase, parked>>
  BY DEF Wanders
<1>2. \A v \in Workers : (pc'[v] = "ran" <=> pc[v] = "ran") /\ (pc'[v] = "forget" <=> pc[v] = "forget")
  <2>1. PICK p \in WorkerPcs \ {"ran", "forget", "unflag"} : pc' = [pc EXCEPT ![w] = p]
    BY DEF Wanders
  <2> QED BY <2>1 DEF Wanders, TaskInv, TaskTypeOK
<1>3. NoTwice'
  BY <1>1 DEF OnceInv, NoTwice, queues, locals
<1>4. ASSUME NEW t \in Tasks PROVE Stays(t)
  BY <1>1, <1>2 DEF Stays, InHand, Waits, Carried, queues, locals
<1> QED BY <1>3, <1>4, StaysSettled DEF OnceInv

\* A task that has gone is dropped; an immediate task has been read already.
LEMMA OnceDrops ==
  ASSUME TaskInv, NEW lost, OnceInv(lost), NEW w \in Workers,
         AfterRun(w) \/ ForgetImmediate(w) \/ UnflagImmediate(w)
  PROVE  OnceInv(lost)'
<1>1. UNCHANGED <<queues, batch, push, phase, parked>>
  BY AfterRunEffect, ForgetEffect, UnflagEffect DEF locals
<1>2. NoTwice'
  BY <1>1 DEF OnceInv, NoTwice, queues
<1>3. ASSUME NEW t \in Tasks PROVE \A v \in Workers : (InHand(t, v)' <=> InHand(t, v)) /\ (Waits(t, v)' <=> Waits(t, v))
  <2>1. t # None /\ pc \in [Workers -> WorkerPcs] /\ immediateTask \in [Workers -> TaskOrNone]
    BY TaskKinds DEF TaskInv, TaskTypeOK
  <2>2. CASE AfterRun(w)
    BY <2>1, <2>2, AfterRunEffect DEF InHand, Waits
  <2>3. CASE ForgetImmediate(w)
    BY <2>1, <2>3, ForgetEffect DEF InHand, Waits, locals
  <2>4. CASE UnflagImmediate(w)
    BY <2>1, <2>4, UnflagEffect DEF InHand, Waits
  <2> QED BY <2>2, <2>3, <2>4
<1>4. ASSUME NEW t \in Tasks PROVE Stays(t)
  BY <1>1, <1>3 DEF Stays, Carried, queues
<1> QED BY <1>2, <1>4, StaysSettled DEF OnceInv

LEMMA OnceSubmit ==
  ASSUME TaskInv, NEW lost, OnceInv(lost), NEW x \in Actors, NEW e \in Tasks, NEW w \in Workers, Submits(x, e, w)
  PROVE  OnceInv(lost)'
<1>1. /\ UNCHANGED <<queues, flags, pc, locals, parked>> /\ \A y \in Actors \ {x} : push'[y] = push[y]
      /\ push[x].at = "idle" /\ push'[x].task = e /\ push'[x].at \in BeforePut
      /\ phase[e] = "new" /\ phase' = [phase EXCEPT ![e] = "live"]
  BY SubmitEffect, IdleGood DEF BeforePut
<1>2. NoTwice'
  BY <1>1 DEF OnceInv, NoTwice, queues, locals
<1>3. phase'[e] = "live" /\ \A t \in Tasks \ {e} : phase'[t] = phase[t]
  BY <1>1 DEF TaskInv, TaskTypeOK
<1>4. ASSUME NEW t \in Tasks, t # e PROVE Settled(t, lost)'
  <2>1. Stays(t)
    BY <1>1, <1>3, <1>4 DEF Stays, InHand, Waits, Carried, BeforePut, queues, flags, locals
  <2> QED BY <2>1, StaysSettled DEF OnceInv
<1>5. Settled(e, lost)'
  <2>1. PICK k \in Kinds, a \in Actors, l \in Lanes : HomeIs(e, k, a, l) /\ k = "nowhere"
    BY <1>1 DEF OnceInv, Settled
  <2>2. HomeIs(e, "push", x, "lo")'
    BY <1>1, <2>1 DEF HomeIs, InHand, Waits, Carried, queues, flags, locals
  <2> QED BY <1>3, <2>2, MovesSettled DEF Kinds, Lanes
<1> QED BY <1>2, <1>4, <1>5 DEF OnceInv

LEMMA OnceResume ==
  ASSUME TaskInv, NEW lost, OnceInv(lost), NEW x \in Actors, NEW e \in Tasks, ResumeTask(x, e)
  PROVE  OnceInv(lost)'
<1>1. /\ UNCHANGED <<queues, flags, pc, locals, phase>> /\ \A y \in Actors \ {x} : push'[y] = push[y]
      /\ push[x].at = "idle" /\ push'[x].task = e /\ push'[x].at \in BeforePut
      /\ e \in parked /\ parked' = parked \ {e}
  BY ResumeEffect, IdleGood DEF BeforePut
<1>2. NoTwice'
  BY <1>1 DEF OnceInv, NoTwice, queues, locals
<1>3. ASSUME NEW t \in Tasks, t # e PROVE Settled(t, lost)'
  <2>1. Stays(t)
    BY <1>1, <1>3 DEF Stays, InHand, Waits, Carried, BeforePut, queues, flags, locals
  <2> QED BY <2>1, StaysSettled DEF OnceInv
<1>4. Settled(e, lost)'
  <2>1. HomeIs(e, "parked", 0, "lo") /\ phase[e] = "live"
    BY <1>1, HomeFound DEF OnceInv
  <2>2. HomeIs(e, "push", x, "lo")'
    BY <1>1, <2>1 DEF HomeIs, InHand, Waits, Carried, queues, flags, locals
  <2> QED BY <1>1, <2>1, <2>2, MovesSettled DEF Kinds, Lanes
<1> QED BY <1>2, <1>3, <1>4 DEF OnceInv

LEMMA OnceEnds ==
  ASSUME TaskInv, NEW lost, OnceInv(lost), NEW x \in Actors, Ends(x)
  PROVE  OnceInv(lost)'
<1>1. PICK e \in Tasks : e = push[x].task
  BY EndsEffect
<1>2. /\ UNCHANGED <<queues, flags, pc, locals, parked>> /\ \A y \in Actors \ {x} : push'[y] = push[y]
      /\ push[x].at \in BeforePut /\ push'[x].at = "idle"
      /\ \E p \in {"refused", "done"} : phase' = [phase EXCEPT ![e] = p]
  BY <1>1, EndsEffect, IdleGood DEF BeforePut
<1>3. NoTwice'
  BY <1>2 DEF OnceInv, NoTwice, queues, locals
<1>4. phase'[e] # "live" /\ \A t \in Tasks \ {e} : phase'[t] = phase[t]
  BY <1>2 DEF TaskInv, TaskTypeOK
<1>5. ASSUME NEW t \in Tasks, t # e PROVE Settled(t, lost)'
  <2>1. Stays(t)
    BY <1>1, <1>2, <1>4, <1>5 DEF Stays, InHand, Waits, Carried, BeforePut, queues, flags, locals
  <2> QED BY <2>1, StaysSettled DEF OnceInv
<1>6. Settled(e, lost)'
  <2>1. HomeIs(e, "push", x, "lo")
    BY <1>1, <1>2, HomeFound DEF OnceInv, Carried
  <2>2. HomeIs(e, "nowhere", x, "lo")'
    BY <1>2, <2>1 DEF HomeIs, InHand, Waits, Carried, BeforePut, queues, flags, locals
  <2> QED BY <1>4, <2>2, GoneSettled
<1> QED BY <1>3, <1>5, <1>6 DEF OnceInv

\* Steps that move one task, or a batch of them.
LEMMA OncePut ==
  ASSUME TaskInv, NEW lost, OnceInv(lost), NEW x \in Actors, PutInbox(x)
  PROVE  OnceInv(lost)'
<1>1. PICK e \in Tasks, w \in Workers, l \in Lanes : e = push[x].task /\ w = push[x].to /\ l = push[x].lane
  BY PutEffect
<1>2. /\ UNCHANGED <<deque, flags, pc, locals, phase, parked>> /\ \A y \in Actors \ {x} : push'[y] = push[y]
      /\ push[x].at \in BeforePut /\ push'[x].at \notin BeforePut
      /\ inbox[w][l] \in Seq(Tasks) /\ inbox' = [inbox EXCEPT ![w][l] = Append(inbox[w][l], e)]
  BY <1>1, PutEffect DEF BeforePut
<1>3. HomeIs(e, "push", x, "lo") /\ phase[e] = "live"
  BY <1>1, <1>2, HomeFound DEF OnceInv, Carried
<1>4. \A v \in Workers, m \in Lanes : inbox'[v][m] = IF v = w /\ m = l THEN Append(inbox[w][l], e) ELSE inbox[v][m]
  <2>1. inbox \in [Workers -> [Lanes -> Seq(Tasks)]] /\ Append(inbox[w][l], e) \in Seq(Tasks)
    BY <1>2 DEF TaskInv, TaskTypeOK
  <2> QED BY <1>2, <2>1, UpdateLane
<1>5. /\ \A t : Held(t, Append(inbox[w][l], e)) <=> Held(t, inbox[w][l]) \/ t = e
      /\ Distinct(Append(inbox[w][l], e))
  <2>1. ~Held(e, inbox[w][l]) /\ Distinct(inbox[w][l])
    BY <1>3 DEF HomeIs, OnceInv, NoTwice
  <2> QED BY <1>2, <2>1, HeldAppend
<1>6. NoTwice'
  BY <1>2, <1>4, <1>5 DEF OnceInv, NoTwice, locals
<1>7. ASSUME NEW t \in Tasks, t # e PROVE Settled(t, lost)'
  <2>1. \A v \in Workers, m \in Lanes : Held(t, inbox'[v][m]) <=> Held(t, inbox[v][m])
    BY <1>4, <1>5, <1>7
  <2>2. Stays(t)
    BY <1>1, <1>2, <1>7, <2>1 DEF Stays, InHand, Waits, Carried, flags, locals
  <2> QED BY <2>2, StaysSettled DEF OnceInv
<1>8. Settled(e, lost)'
  <2>1. \A v \in Workers, m \in Lanes : Held(e, inbox'[v][m]) <=> (w = v /\ l = m)
    BY <1>3, <1>4, <1>5 DEF HomeIs
  <2>2. HomeIs(e, "inbox", w, l)'
    BY <1>1, <1>2, <1>3, <2>1 DEF HomeIs, InHand, Waits, Carried, flags, locals
  <2> QED BY <1>2, <1>3, <2>2, MovesSettled DEF Kinds, Actors
<1> QED BY <1>6, <1>7, <1>8 DEF OnceInv

\* Thread::SetImmediateTask: a task that was there before is overwritten, and
\* one that comes between the worker's read and its clearing is cleared.
LEMMA OnceCoreTask ==
  ASSUME TaskInv, NEW lost, OnceInv(lost), NEW x \in Actors, CoreTask(x),
         lost \/ (immediateTask[push[x].to] = None /\ pc[push[x].to] # "forget")
  PROVE  OnceInv(lost)'
<1>1. PICK e \in Tasks, w \in Workers : e = push[x].task /\ w = push[x].to
  BY CoreTaskEffect
<1>2. /\ UNCHANGED <<queues, pc, locals, phase, parked>> /\ \A y \in Actors \ {x} : push'[y] = push[y]
      /\ push[x].at \in BeforePut /\ push'[x].at \notin BeforePut
      /\ immediateTask' = [immediateTask EXCEPT ![w] = e]
  BY <1>1, CoreTaskEffect DEF BeforePut
<1>3. HomeIs(e, "push", x, "lo") /\ phase[e] = "live"
  BY <1>1, <1>2, HomeFound DEF OnceInv, Carried
<1>4. immediateTask'[w] = e /\ \A v \in Workers \ {w} : immediateTask'[v] = immediateTask[v]
  BY <1>2 DEF TaskInv, TaskTypeOK
<1>5. NoTwice'
  BY <1>2 DEF OnceInv, NoTwice, queues, locals
<1>6. ASSUME NEW t \in Tasks, t # e, Waits(t, w) PROVE Settled(t, lost)'
  <2>1. HomeIs(t, "immediate", w, "lo") /\ lost
    BY <1>1, <1>6, HomeFound, TaskKinds DEF OnceInv, Waits
  <2>2. HomeIs(t, "nowhere", x, "lo")'
    BY <1>1, <1>2, <1>4, <1>6, <2>1 DEF HomeIs, InHand, Waits, Carried, queues, locals
  <2> QED BY <2>1, <2>2, GoneSettled
<1>7. ASSUME NEW t \in Tasks, t # e, ~Waits(t, w) PROVE Settled(t, lost)'
  <2>1. Stays(t)
    BY <1>1, <1>2, <1>4, <1>7 DEF Stays, InHand, Waits, Carried, queues, locals
  <2> QED BY <2>1, StaysSettled DEF OnceInv
<1>8. Settled(e, lost)'
  <2>1. CASE pc[w] # "forget"
    <3>1. HomeIs(e, "immediate", w, "lo")'
      BY <1>2, <1>3, <1>4, <2>1 DEF HomeIs, InHand, Waits, Carried, queues, locals
    <3> QED BY <1>2, <1>3, <3>1, MovesSettled DEF Kinds, Actors, Lanes
  <2>2. CASE pc[w] = "forget"
    <3>1. HomeIs(e, "nowhere", x, "lo")'
      BY <1>2, <1>3, <1>4, <2>2 DEF HomeIs, InHand, Waits, Carried, queues, locals
    <3> QED BY <1>1, <2>2, <3>1, GoneSettled
  <2> QED BY <2>1, <2>2
<1> QED BY <1>5, <1>6, <1>7, <1>8 DEF OnceInv

\* A deque loses e; the other tasks and queues keep theirs.
LEMMA DequeTakes ==
  ASSUME TaskTypeOK, NoTwice, NEW v \in Workers, NEW l \in Lanes, NEW e \in Tasks, NEW r \in Seq(Tasks),
         Takes(deque[v][l], e, r), deque' = [deque EXCEPT ![v][l] = r]
  PROVE  /\ \A u \in Workers, m \in Lanes : Distinct(deque'[u][m])
         /\ \A t \in Tasks, u \in Workers, m \in Lanes :
              Held(t, deque'[u][m]) <=> Held(t, deque[u][m]) /\ ~(u = v /\ m = l /\ t = e)
         /\ Held(e, deque[v][l])
<1>1. \A u \in Workers, m \in Lanes : deque'[u][m] = IF u = v /\ m = l THEN r ELSE deque[u][m]
  BY UpdateLane DEF TaskTypeOK
<1>2. /\ Held(e, deque[v][l]) /\ Distinct(r) /\ \A t : Held(t, r) <=> Held(t, deque[v][l]) /\ t # e
  BY DEF Takes, NoTwice
<1> QED BY <1>1, <1>2 DEF NoTwice

LEMMA OnceHelpSteal ==
  ASSUME TaskInv, NEW lost, OnceInv(lost), NEW x \in Actors, NEW v \in Workers, NEW l \in Lanes,
         HelpSteal(x, v, l)
  PROVE  OnceInv(lost)'
<1>1. PICK e \in Tasks, r \in Seq(Tasks) :
        /\ Takes(deque[v][l], e, r) /\ deque' = [deque EXCEPT ![v][l] = r]
        /\ push'[x].task = e /\ push'[x].at \in {"pick", "help"} /\ push'[x].new = FALSE
  BY HelpStealEffect
<1>2. /\ UNCHANGED <<inbox, flags, pc, locals, phase, parked>> /\ \A y \in Actors \ {x} : push'[y] = push[y]
      /\ push[x].at \notin BeforePut /\ push'[x].at \in BeforePut
  BY <1>1, HelpStealEffect, IdleGood DEF BeforePut
<1>3. /\ \A u \in Workers, m \in Lanes : Distinct(deque'[u][m])
      /\ \A t \in Tasks, u \in Workers, m \in Lanes :
           Held(t, deque'[u][m]) <=> Held(t, deque[u][m]) /\ ~(u = v /\ m = l /\ t = e)
      /\ Held(e, deque[v][l])
  <2>1. TaskTypeOK /\ NoTwice /\ Takes(deque[v][l], e, r) /\ deque' = [deque EXCEPT ![v][l] = r]
    BY <1>1 DEF TaskInv, OnceInv
  <2> QED BY <2>1, DequeTakes
<1>4. HomeIs(e, "deque", v, l) /\ phase[e] = "live"
  BY <1>3, HomeFound DEF OnceInv
<1>5. NoTwice'
  BY <1>2, <1>3 DEF OnceInv, NoTwice, locals
<1>6. ASSUME NEW t \in Tasks, t # e PROVE Settled(t, lost)'
  <2>1. Stays(t)
    <3>1. \A u \in Workers, m \in Lanes : Held(t, deque'[u][m]) <=> Held(t, deque[u][m])
      BY <1>3, <1>6
    <3> QED BY <1>1, <1>2, <1>6, <3>1 DEF Stays, InHand, Waits, Carried, flags, locals
  <2> QED BY <2>1, StaysSettled DEF OnceInv
<1>7. Settled(e, lost)'
  <2>1. \A u \in Workers, m \in Lanes : ~Held(e, deque'[u][m])
    BY <1>3, <1>4 DEF HomeIs
  <2>2. HomeIs(e, "push", x, "lo")'
    BY <1>1, <1>2, <1>4, <2>1 DEF HomeIs, InHand, Waits, Carried, flags, locals
  <2> QED BY <1>2, <1>4, <2>2, MovesSettled DEF Kinds, Lanes
<1> QED BY <1>5, <1>6, <1>7 DEF OnceInv

LEMMA OnceFinds ==
  ASSUME TaskInv, NEW lost, OnceInv(lost), NEW w \in Workers, Finds(w)
  PROVE  OnceInv(lost)'
<1>1. PICK v \in Workers, l \in Lanes, e \in Tasks, r \in Seq(Tasks) :
        /\ Takes(deque[v][l], e, r) /\ deque' = [deque EXCEPT ![v][l] = r]
        /\ taskToRun[w] = None /\ taskToRun' = [taskToRun EXCEPT ![w] = e]
        /\ pc[w] \in Search /\ pc' = [pc EXCEPT ![w] = "top"]
        /\ UNCHANGED <<inbox, flags, isHandlingFork, batch, push, phase, parked, pendingTasks>>
  BY DEF Finds
<1>2. /\ \A u \in Workers, m \in Lanes : Distinct(deque'[u][m])
      /\ \A t \in Tasks, u \in Workers, m \in Lanes :
           Held(t, deque'[u][m]) <=> Held(t, deque[u][m]) /\ ~(u = v /\ m = l /\ t = e)
      /\ Held(e, deque[v][l])
  BY <1>1, DequeTakes DEF TaskInv, OnceInv
<1>3. HomeIs(e, "deque", v, l) /\ phase[e] = "live"
  BY <1>2, HomeFound DEF OnceInv
<1>4. /\ taskToRun'[w] = e /\ pc'[w] = "top" /\ pc[w] \notin {"ran", "forget"}
      /\ \A u \in Workers \ {w} : taskToRun'[u] = taskToRun[u] /\ pc'[u] = pc[u]
  BY <1>1 DEF TaskInv, TaskTypeOK, Search, Searched, Asleep
<1>5. NoTwice'
  BY <1>1, <1>2 DEF OnceInv, NoTwice
<1>6. ASSUME NEW t \in Tasks, t # e PROVE Settled(t, lost)'
  <2>1. t # None
    BY TaskKinds
  <2>2. Stays(t)
    <3>1. \A u \in Workers, m \in Lanes : Held(t, deque'[u][m]) <=> Held(t, deque[u][m])
      BY <1>2, <1>6
    <3> QED BY <1>1, <1>4, <1>6, <2>1, <3>1 DEF Stays, InHand, Waits, Carried, flags
  <2> QED BY <2>2, StaysSettled DEF OnceInv
<1>7. Settled(e, lost)'
  <2>1. \A u \in Workers, m \in Lanes : ~Held(e, deque'[u][m])
    BY <1>2, <1>3 DEF HomeIs
  <2>2. HomeIs(e, "run", w, "lo")'
    BY <1>1, <1>3, <1>4, <2>1 DEF HomeIs, InHand, Waits, Carried, flags
  <2> QED BY <1>1, <1>3, <2>2, MovesSettled DEF Kinds, Actors, Lanes
<1> QED BY <1>5, <1>6, <1>7 DEF OnceInv

LEMMA OnceStops ==
  ASSUME TaskInv, NEW lost, OnceInv(lost), NEW w \in Workers, Stops(w)
  PROVE  OnceInv(lost)'
<1>1. PICK e \in Tasks : e = taskToRun[w]
  BY StopsEffect
<1>2. /\ pc[w] = "exec" /\ pc' = [pc EXCEPT ![w] = "ran"] /\ push[w].at = "idle" /\ w \in Actors
      /\ UNCHANGED <<inbox, flags, taskToRun, batch>>
  BY StopsEffect, IdleGood
<1>3. /\ pc'[w] = "ran" /\ \A u \in Workers \ {w} : pc'[u] = pc[u]
  BY <1>2 DEF TaskInv, TaskTypeOK
<1>4. HomeIs(e, "run", w, "lo") /\ phase[e] = "live"
  BY <1>1, <1>2, HomeFound DEF OnceInv, InHand
<1>5. \A v \in Workers : ~InHand(e, v)'
  BY <1>1, <1>2, <1>3, <1>4 DEF HomeIs, InHand, locals
<1>6. ASSUME NEW t \in Tasks, t # e
      PROVE  /\ \A v \in Workers : InHand(t, v)' <=> InHand(t, v)
             /\ \A v \in Workers : Waits(t, v)' <=> Waits(t, v)
  BY <1>1, <1>2, <1>3, <1>6 DEF InHand, Waits, flags, locals
<1>7. \A v \in Workers : ~Waits(e, v)'
  BY <1>2, <1>3, <1>4 DEF HomeIs, Waits, flags
<1>8. CASE TaskFinished(w)
  <2>1. phase' = [phase EXCEPT ![e] = "done"] /\ UNCHANGED <<deque, push, parked>>
    BY <1>1, <1>8, StopsEffect
  <2>2. phase'[e] # "live" /\ \A t \in Tasks \ {e} : phase'[t] = phase[t]
    BY <2>1 DEF TaskInv, TaskTypeOK
  <2>3. NoTwice'
    BY <1>2, <2>1 DEF OnceInv, NoTwice, locals
  <2>4. ASSUME NEW t \in Tasks, t # e PROVE Settled(t, lost)'
    <3>1. Stays(t)
      BY <1>2, <1>6, <2>1, <2>2, <2>4 DEF Stays, Carried, locals
    <3> QED BY <3>1, StaysSettled DEF OnceInv
  <2>5. HomeIs(e, "nowhere", w, "lo")'
    BY <1>2, <1>4, <1>5, <1>7, <2>1 DEF HomeIs, Carried, locals
  <2> QED BY <1>2, <2>2, <2>3, <2>4, <2>5, GoneSettled DEF OnceInv
<1>9. CASE TaskYielded(w)
  <2>1. /\ deque' = [deque EXCEPT ![w]["lo"] = Append(deque[w]["lo"], e)] /\ UNCHANGED <<push, phase, parked>>
        /\ "lo" \in Lanes /\ deque[w]["lo"] \in Seq(Tasks) /\ deque \in [Workers -> [Lanes -> Seq(Tasks)]]
    BY <1>1, <1>9, StopsEffect DEF Lanes, TaskInv, TaskTypeOK
  <2>2. \A v \in Workers, m \in Lanes :
          deque'[v][m] = IF v = w /\ m = "lo" THEN Append(deque[w]["lo"], e) ELSE deque[v][m]
    <3>1. Append(deque[w]["lo"], e) \in Seq(Tasks)
      BY <2>1
    <3> QED BY <2>1, <3>1, UpdateLane
  <2>3. /\ \A t : Held(t, Append(deque[w]["lo"], e)) <=> Held(t, deque[w]["lo"]) \/ t = e
        /\ Distinct(Append(deque[w]["lo"], e))
    <3>1. ~Held(e, deque[w]["lo"]) /\ Distinct(deque[w]["lo"])
      BY <1>4, <2>1 DEF HomeIs, OnceInv, NoTwice
    <3> QED BY <2>1, <3>1, HeldAppend
  <2>4. NoTwice'
    BY <1>2, <2>2, <2>3 DEF OnceInv, NoTwice, locals
  <2>5. ASSUME NEW t \in Tasks, t # e PROVE Settled(t, lost)'
    <3>1. \A v \in Workers, m \in Lanes : Held(t, deque'[v][m]) <=> Held(t, deque[v][m])
      BY <2>2, <2>3, <2>5
    <3>2. Stays(t)
      BY <1>2, <1>6, <2>1, <2>5, <3>1 DEF Stays, Carried, locals
    <3> QED BY <3>2, StaysSettled DEF OnceInv
  <2>6. HomeIs(e, "deque", w, "lo")'
    <3>1. \A v \in Workers, m \in Lanes : Held(e, deque'[v][m]) <=> (w = v /\ "lo" = m)
      BY <1>4, <2>2, <2>3 DEF HomeIs
    <3> QED BY <1>2, <1>4, <1>5, <1>7, <2>1, <3>1 DEF HomeIs, Carried, locals
  <2>7. Settled(e, lost)'
    BY <1>2, <1>4, <2>1, <2>6, MovesSettled DEF Kinds
  <2> QED BY <2>4, <2>5, <2>7 DEF OnceInv
<1>10. CASE TaskParked(w)
  <2>1. parked' = parked \cup {e} /\ UNCHANGED <<deque, push, phase>>
    BY <1>1, <1>10, StopsEffect
  <2>2. NoTwice'
    BY <1>2, <2>1 DEF OnceInv, NoTwice, locals
  <2>3. ASSUME NEW t \in Tasks, t # e PROVE Settled(t, lost)'
    <3>1. Stays(t)
      BY <1>2, <1>6, <2>1, <2>3 DEF Stays, Carried, locals
    <3> QED BY <3>1, StaysSettled DEF OnceInv
  <2>4. HomeIs(e, "parked", w, "lo")'
    BY <1>2, <1>4, <1>5, <1>7, <2>1 DEF HomeIs, Carried, locals
  <2>5. Settled(e, lost)'
    BY <1>2, <1>4, <2>1, <2>4, MovesSettled DEF Kinds, Lanes
  <2> QED BY <2>2, <2>3, <2>5 DEF OnceInv
<1>11. CASE TaskSignalled(w)
  <2>1. /\ UNCHANGED <<deque, phase, parked>> /\ \A y \in Actors \ {w} : push'[y] = push[y]
        /\ push'[w].task = e /\ push'[w].at \in BeforePut
    BY <1>1, <1>2, <1>11, StopsEffect, RequeueEffect DEF TaskInv, BeforePut
  <2>2. NoTwice'
    BY <1>2, <2>1 DEF OnceInv, NoTwice, locals
  <2>3. ASSUME NEW t \in Tasks, t # e PROVE Settled(t, lost)'
    <3>1. Stays(t)
      BY <1>2, <1>6, <2>1, <2>3 DEF Stays, Carried, locals, BeforePut
    <3> QED BY <3>1, StaysSettled DEF OnceInv
  <2>4. HomeIs(e, "push", w, "lo")'
    BY <1>2, <1>4, <1>5, <1>7, <2>1 DEF HomeIs, Carried, locals
  <2>5. Settled(e, lost)'
    BY <1>2, <1>4, <2>1, <2>4, MovesSettled DEF Kinds, Lanes
  <2> QED BY <2>2, <2>3, <2>5 DEF OnceInv
<1> QED BY <1>8, <1>9, <1>10, <1>11 DEF Stops

LEMMA OnceTake ==
  ASSUME TaskInv, NEW lost, OnceInv(lost), NEW w \in Workers, TakeImmediate(w)
  PROVE  OnceInv(lost)'
<1>1. PICK e \in Tasks : e = immediateTask[w]
  BY TakeEffect
<1>2. /\ pc[w] = "take" /\ pc' = [pc EXCEPT ![w] = "forget"] /\ taskToRun[w] = None
      /\ taskToRun' = [taskToRun EXCEPT ![w] = e] /\ e # None
      /\ UNCHANGED <<queues, flags, isHandlingFork, batch, push, phase, parked>>
  BY <1>1, TakeEffect, TaskKinds
<1>3. /\ taskToRun'[w] = e /\ pc'[w] = "forget"
      /\ \A u \in Workers \ {w} : taskToRun'[u] = taskToRun[u] /\ pc'[u] = pc[u]
  BY <1>2 DEF TaskInv, TaskTypeOK
<1>4. HomeIs(e, "immediate", w, "lo") /\ phase[e] = "live"
  BY <1>1, <1>2, HomeFound DEF OnceInv, Waits
<1>5. NoTwice'
  BY <1>2 DEF OnceInv, NoTwice, queues
<1>6. ASSUME NEW t \in Tasks, t # e PROVE Settled(t, lost)'
  <2>1. t # None
    BY TaskKinds
  <2>2. Stays(t)
    BY <1>1, <1>2, <1>3, <1>6, <2>1 DEF Stays, InHand, Waits, Carried, queues, flags
  <2> QED BY <2>2, StaysSettled DEF OnceInv
<1>7. Settled(e, lost)'
  <2>1. HomeIs(e, "run", w, "lo")'
    BY <1>1, <1>2, <1>3, <1>4 DEF HomeIs, InHand, Waits, Carried, queues, flags
  <2> QED BY <1>2, <1>4, <2>1, MovesSettled DEF Kinds, Actors, Lanes
<1> QED BY <1>5, <1>6, <1>7 DEF OnceInv

LEMMA OnceRequeues ==
  ASSUME TaskInv, NEW lost, OnceInv(lost), NEW w \in Workers, Requeues(w)
  PROVE  OnceInv(lost)'
<1>1. PICK e \in Tasks, r \in Seq(Tasks) :
        /\ Takes(batch[w], e, r) /\ batch' = [batch EXCEPT ![w] = r]
        /\ push'[w].task = e /\ push'[w].at = "pick" /\ push'[w].new = FALSE
  BY RequeuesEffect
<1>2. /\ w \in Actors /\ push[w].at \notin BeforePut /\ push'[w].at \in BeforePut
      /\ \A y \in Actors \ {w} : push'[y] = push[y]
      /\ UNCHANGED <<queues, flags, pc, taskToRun, isHandlingFork, phase, parked>>
  BY <1>1, RequeuesEffect, IdleGood DEF BeforePut
<1>3. /\ Held(e, batch[w]) /\ Distinct(r) /\ \A t : Held(t, r) <=> Held(t, batch[w]) /\ t # e
      /\ \A v \in Workers : batch'[v] = IF v = w THEN r ELSE batch[v]
  BY <1>1 DEF Takes, OnceInv, NoTwice, TaskInv, TaskTypeOK
<1>4. HomeIs(e, "batch", w, "lo") /\ phase[e] = "live"
  BY <1>3, HomeFound DEF OnceInv
<1>5. NoTwice'
  BY <1>2, <1>3 DEF OnceInv, NoTwice, queues
<1>6. ASSUME NEW t \in Tasks, t # e PROVE Settled(t, lost)'
  <2>1. Stays(t)
    BY <1>1, <1>2, <1>3, <1>6 DEF Stays, InHand, Waits, Carried, queues, flags
  <2> QED BY <2>1, StaysSettled DEF OnceInv
<1>7. Settled(e, lost)'
  <2>1. \A v \in Workers : ~Held(e, batch'[v])
    BY <1>3, <1>4 DEF HomeIs
  <2>2. HomeIs(e, "push", w, "lo")'
    BY <1>1, <1>2, <1>4, <2>1 DEF HomeIs, InHand, Waits, Carried, queues, flags
  <2> QED BY <1>2, <1>4, <2>2, MovesSettled DEF Kinds, Lanes
<1> QED BY <1>5, <1>6, <1>7 DEF OnceInv

LEMMA OnceDrains ==
  ASSUME TaskInv, NEW lost, OnceInv(lost), NEW w \in Workers, NEW l \in Lanes, Drains(w, l)
  PROVE  OnceInv(lost)'
<1> DEFINE out == AtMost(inbox[w][l])
           rest == Beyond(inbox[w][l])
<1>1. /\ inbox[w][l] \in Seq(Tasks) /\ out \in Seq(Tasks) /\ rest \in Seq(Tasks) /\ batch[w] = << >>
      /\ batch' = [batch EXCEPT ![w] = out] /\ inbox' = [inbox EXCEPT ![w][l] = rest]
      /\ UNCHANGED <<deque, flags, taskToRun, isHandlingFork, push, phase, parked>>
  BY DrainsEffect
<1>2. \A v \in Workers : (pc'[v] = "ran" <=> pc[v] = "ran") /\ (pc'[v] = "forget" <=> pc[v] = "forget")
  <2>1. PICK p \in {"requeue_hi", "requeue_lo"} : pc' = [pc EXCEPT ![w] = p]
    BY DrainsEffect
  <2>2. pc[w] \in {"drain_hi", "drain_lo"}
    BY DrainsEffect
  <2> QED BY <2>1, <2>2 DEF TaskInv, TaskTypeOK
<1>3. /\ Distinct(out) /\ Distinct(rest)
      /\ \A t : Held(t, inbox[w][l]) <=> Held(t, out) \/ Held(t, rest)
      /\ \A t : ~(Held(t, out) /\ Held(t, rest))
  <2>1. Distinct(inbox[w][l])
    BY DEF OnceInv, NoTwice
  <2> QED BY <1>1, <2>1, HeldSplit
<1>4. /\ \A v \in Workers, m \in Lanes : inbox'[v][m] = IF v = w /\ m = l THEN rest ELSE inbox[v][m]
      /\ \A v \in Workers : batch'[v] = IF v = w THEN out ELSE batch[v]
  <2>1. inbox \in [Workers -> [Lanes -> Seq(Tasks)]] /\ batch \in [Workers -> Seq(Tasks)]
    BY DEF TaskInv, TaskTypeOK
  <2> HIDE DEF out, rest
  <2>2. \A v \in Workers, m \in Lanes : inbox'[v][m] = IF v = w /\ m = l THEN rest ELSE inbox[v][m]
    BY <1>1, <2>1, UpdateLane
  <2> QED BY <1>1, <2>1, <2>2
<1> HIDE DEF out, rest
<1>5. NoTwice'
  BY <1>1, <1>3, <1>4 DEF OnceInv, NoTwice
<1>6. ASSUME NEW t \in Tasks, Held(t, out) PROVE Settled(t, lost)'
  <2>1. HomeIs(t, "inbox", w, l) /\ phase[t] = "live" /\ ~Held(t, rest)
    BY <1>3, <1>6, HomeFound DEF OnceInv
  <2>2. /\ \A v \in Workers, m \in Lanes : ~Held(t, inbox'[v][m])
        /\ \A v \in Workers : Held(t, batch'[v]) <=> w = v
    BY <1>4, <1>6, <2>1 DEF HomeIs
  <2>3. HomeIs(t, "batch", w, l)'
    BY <1>1, <1>2, <2>1, <2>2 DEF HomeIs, InHand, Waits, Carried, flags
  <2> QED BY <1>1, <2>1, <2>3, MovesSettled DEF Kinds, Actors
<1>7. ASSUME NEW t \in Tasks, ~Held(t, out) PROVE Settled(t, lost)'
  <2>1. /\ \A v \in Workers, m \in Lanes : Held(t, inbox'[v][m]) <=> Held(t, inbox[v][m])
        /\ \A v \in Workers : Held(t, batch'[v]) <=> Held(t, batch[v])
    BY <1>1, <1>3, <1>4, <1>7, HeldEmpty
  <2>2. Stays(t)
    BY <1>1, <1>2, <2>1 DEF Stays, InHand, Waits, Carried, flags
  <2> QED BY <2>2, StaysSettled DEF OnceInv
<1> QED BY <1>5, <1>6, <1>7 DEF OnceInv

LEMMA OncePulls ==
  ASSUME TaskInv, NEW lost, OnceInv(lost), NEW w \in Workers, NEW l \in Lanes, Pulls(w, l)
  PROVE  OnceInv(lost)'
<1> DEFINE out == AtMost(inbox[w][l])
           rest == Beyond(inbox[w][l])
           new == deque[w][l] \o out
<1>1. /\ inbox[w][l] \in Seq(Tasks) /\ deque[w][l] \in Seq(Tasks)
      /\ out \in Seq(Tasks) /\ rest \in Seq(Tasks) /\ new \in Seq(Tasks)
      /\ deque' = [deque EXCEPT ![w][l] = new] /\ inbox' = [inbox EXCEPT ![w][l] = rest]
      /\ UNCHANGED <<flags, locals, push, phase, parked>>
  BY PullsEffect
<1>2. \A v \in Workers : (pc'[v] = "ran" <=> pc[v] = "ran") /\ (pc'[v] = "forget" <=> pc[v] = "forget")
  <2>1. PICK p \in {"pulled_hi", "inbox_lo", "pulled_lo", "lock"} : pc' = [pc EXCEPT ![w] = p]
    BY PullsEffect
  <2>2. pc[w] \in {"inbox_hi", "inbox_lo"}
    BY PullsEffect
  <2> QED BY <2>1, <2>2 DEF TaskInv, TaskTypeOK
<1>3. /\ Distinct(out) /\ Distinct(rest) /\ Distinct(deque[w][l])
      /\ \A t : Held(t, inbox[w][l]) <=> Held(t, out) \/ Held(t, rest)
      /\ \A t : ~(Held(t, out) /\ Held(t, rest))
  <2>1. Distinct(inbox[w][l]) /\ Distinct(deque[w][l])
    BY DEF OnceInv, NoTwice
  <2> QED BY <1>1, <2>1, HeldSplit
<1>4. ASSUME NEW t PROVE ~(Held(t, deque[w][l]) /\ Held(t, out))
  <2> SUFFICES ASSUME Held(t, deque[w][l]), Held(t, inbox[w][l]) PROVE FALSE
    BY <1>3
  <2>1. t \in Tasks
    BY <1>1 DEF Held
  <2> QED BY <2>1, HomeFound DEF OnceInv, HomeIs
<1>5. /\ Distinct(new)
      /\ \A t : Held(t, new) <=> Held(t, deque[w][l]) \/ Held(t, out)
  <2> HIDE DEF out
  <2> QED BY <1>1, <1>3, <1>4, HeldConcat
<1> HIDE DEF out, rest, new
<1>6. /\ \A v \in Workers, m \in Lanes : inbox'[v][m] = IF v = w /\ m = l THEN rest ELSE inbox[v][m]
      /\ \A v \in Workers, m \in Lanes : deque'[v][m] = IF v = w /\ m = l THEN new ELSE deque[v][m]
  <2>1. inbox \in [Workers -> [Lanes -> Seq(Tasks)]] /\ deque \in [Workers -> [Lanes -> Seq(Tasks)]]
    BY DEF TaskInv, TaskTypeOK
  <2>2. \A v \in Workers, m \in Lanes : inbox'[v][m] = IF v = w /\ m = l THEN rest ELSE inbox[v][m]
    BY <1>1, <2>1, UpdateLane
  <2>3. \A v \in Workers, m \in Lanes : deque'[v][m] = IF v = w /\ m = l THEN new ELSE deque[v][m]
    BY <1>1, <2>1, UpdateLane
  <2> QED BY <2>2, <2>3
<1>7. NoTwice'
  BY <1>1, <1>3, <1>5, <1>6 DEF OnceInv, NoTwice, locals
<1>8. ASSUME NEW t \in Tasks, Held(t, out) PROVE Settled(t, lost)'
  <2>1. HomeIs(t, "inbox", w, l) /\ phase[t] = "live" /\ ~Held(t, rest)
    BY <1>3, <1>8, HomeFound DEF OnceInv
  <2>2. /\ \A v \in Workers, m \in Lanes : ~Held(t, inbox'[v][m])
        /\ \A v \in Workers, m \in Lanes : Held(t, deque'[v][m]) <=> (w = v /\ l = m)
    BY <1>5, <1>6, <1>8, <2>1 DEF HomeIs
  <2>3. HomeIs(t, "deque", w, l)'
    BY <1>1, <1>2, <2>1, <2>2 DEF HomeIs, InHand, Waits, Carried, flags, locals
  <2> QED BY <1>1, <2>1, <2>3, MovesSettled DEF Kinds, Actors
<1>9. ASSUME NEW t \in Tasks, ~Held(t, out) PROVE Settled(t, lost)'
  <2>1. /\ \A v \in Workers, m \in Lanes : Held(t, inbox'[v][m]) <=> Held(t, inbox[v][m])
        /\ \A v \in Workers, m \in Lanes : Held(t, deque'[v][m]) <=> Held(t, deque[v][m])
    BY <1>3, <1>5, <1>6, <1>9
  <2>2. Stays(t)
    BY <1>1, <1>2, <2>1 DEF Stays, InHand, Waits, Carried, flags, locals
  <2> QED BY <2>2, StaysSettled DEF OnceInv
<1> QED BY <1>7, <1>8, <1>9 DEF OnceInv

LEMMA OnceInit == ASSUME NEW lost, Init PROVE OnceInv(lost)
<1>1. /\ \A w \in Workers, l \in Lanes : inbox[w][l] = << >> /\ deque[w][l] = << >>
      /\ \A w \in Workers : batch[w] = << >> /\ taskToRun[w] = None /\ immediateTask[w] = None
      /\ \A x \in Actors : push[x] = Idle
      /\ parked = {} /\ \A t \in Tasks : phase[t] # "live"
  BY DEF Init
<1>2. NoTwice
  BY <1>1, HeldEmpty DEF NoTwice
<1>3. ASSUME NEW t \in Tasks PROVE Settled(t, lost)
  <2>1. 0 \in Actors /\ "lo" \in Lanes /\ t # None
    BY IdleType, TaskKinds DEF Lanes, Actors
  <2>2. HomeIs(t, "nowhere", 0, "lo")
    BY <1>1, <2>1, HeldEmpty, IdleGood DEF HomeIs, InHand, Waits, Carried, BeforePut
  <2> QED BY <1>1, <2>1, <2>2 DEF Settled, Kinds
<1> QED BY <1>2, <1>3 DEF OnceInv

LEMMA OnceStep ==
  ASSUME TaskInv, NEW lost, OnceInv(lost), [Next]_vars, NoRefusal,
         \A x \in Actors : CoreTask(x) =>
           lost \/ (immediateTask[push[x].to] = None /\ pc[push[x].to] # "forget")
  PROVE  OnceInv(lost)'
<1>1. ASSUME NEW w \in Workers, WorkerCode(w) PROVE OnceInv(lost)'
  BY <1>1, WorkerKinds, OnceWanders, OnceFinds, OnceStops, OnceDrops, OnceTake, OnceRequeues,
     OnceDrains, OncePulls
<1> QED BY <1>1, StepKinds, OnceSubmit, OnceResume, OnceQuiet, OnceEnds, OncePut, OnceCoreTask,
           OnceHelpSteal, OnceControl

-----------------------------------------------------------------------------
(* pendingTasks.                                                           *)

\* The calls whose task lives and has not been counted yet.
Live == {t \in Tasks : phase[t] = "live"}
NotCounted(c) == (c.new /\ c.at \in {"pick", "check", "put"}) \/ c.at \in {"count", "core_set"}
Uncounted == {x \in Actors : NotCounted(push[x])}
CountInv ==
  /\ IsFiniteSet(Live) /\ IsFiniteSet(Uncounted)
  /\ Mix \cap Forked = {} => pendingTasks = Cardinality(Live) - Cardinality(Uncounted)

\* T is as large as S and d more.
Grows(S, T, d) == IsFiniteSet(S) => IsFiniteSet(T) /\ Cardinality(T) = Cardinality(S) + d

LEMMA GrowsBy ==
  ASSUME NEW S, NEW e
  PROVE  /\ Grows(S, S, 0)
         /\ e \notin S => Grows(S, S \cup {e}, 1)
         /\ e \in S => Grows(S, S \ {e}, -1)
<1>1. IsFiniteSet(S) => Cardinality(S) \in Nat
  BY FS_CardinalityType
<1>2. IsFiniteSet(S) => IsFiniteSet(S \cup {e}) /\ (e \notin S => Cardinality(S \cup {e}) = Cardinality(S) + 1)
  BY FS_AddElement
<1>3. IsFiniteSet(S) => IsFiniteSet(S \ {e}) /\ (e \in S => Cardinality(S \ {e}) = Cardinality(S) - 1)
  BY FS_RemoveElement
<1> QED BY <1>1, <1>2, <1>3 DEF Grows

LEMMA CountShift ==
  ASSUME TaskInv, CountInv, NEW a \in Int, NEW b \in Int, Grows(Live, Live', a), Grows(Uncounted, Uncounted', b),
         Mix' = Mix, Mix \cap Forked = {} => pendingTasks' = pendingTasks + a - b
  PROVE  CountInv'
<1>1. Cardinality(Live) \in Nat /\ Cardinality(Uncounted) \in Nat /\ pendingTasks \in Int
  BY FS_CardinalityType DEF CountInv, TaskInv, TaskTypeOK
<1>2. IsFiniteSet(Live) /\ IsFiniteSet(Uncounted)
  BY DEF CountInv
<1>3. IsFiniteSet(Live') /\ Cardinality(Live') = Cardinality(Live) + a
  BY <1>2 DEF Grows
<1>4. IsFiniteSet(Uncounted') /\ Cardinality(Uncounted') = Cardinality(Uncounted) + b
  BY <1>2 DEF Grows
<1>5. ASSUME Mix' \cap Forked = {} PROVE pendingTasks' = Cardinality(Live') - Cardinality(Uncounted')
  <2>1. Mix \cap Forked = {}
    BY <1>5
  <2>2. pendingTasks = Cardinality(Live) - Cardinality(Uncounted) /\ pendingTasks' = pendingTasks + a - b
    BY <2>1 DEF CountInv
  <2> QED BY <1>1, <1>3, <1>4, <2>2
<1> QED BY <1>3, <1>4, <1>5 DEF CountInv

\* A task that is born, and one that ends.
LEMMA LiveGrows ==
  ASSUME TaskInv
  PROVE  /\ phase' = phase => Grows(Live, Live', 0) /\ Mix' = Mix
         /\ \A e \in Tasks : phase[e] = "new" /\ phase' = [phase EXCEPT ![e] = "live"] =>
              Grows(Live, Live', 1) /\ Mix' = Mix
         /\ \A e \in Tasks, p \in {"refused", "done"} : phase[e] = "live" /\ phase' = [phase EXCEPT ![e] = p] =>
              Grows(Live, Live', -1) /\ Mix' = Mix
<1>1. phase \in [Tasks -> {"absent", "new", "live", "refused", "done"}]
  BY DEF TaskInv, TaskTypeOK
<1>2. ASSUME phase' = phase PROVE Grows(Live, Live', 0) /\ Mix' = Mix
  <2>1. Live' = Live /\ Mix' = Mix
    BY <1>2 DEF Live, Mix
  <2> QED BY <2>1, GrowsBy
<1>3. ASSUME NEW e \in Tasks, phase[e] = "new", phase' = [phase EXCEPT ![e] = "live"]
      PROVE  Grows(Live, Live', 1) /\ Mix' = Mix
  <2>1. Live' = Live \cup {e} /\ e \notin Live /\ Mix' = Mix
    BY <1>1, <1>3 DEF Live, Mix
  <2> QED BY <2>1, GrowsBy
<1>4. ASSUME NEW e \in Tasks, NEW p \in {"refused", "done"}, phase[e] = "live", phase' = [phase EXCEPT ![e] = p]
      PROVE  Grows(Live, Live', -1) /\ Mix' = Mix
  <2>1. Live' = Live \ {e} /\ e \in Live /\ Mix' = Mix
    BY <1>1, <1>4 DEF Live, Mix
  <2> QED BY <2>1, GrowsBy
<1> QED BY <1>2, <1>3, <1>4

LEMMA UncountedGrows ==
  ASSUME NEW x \in Actors, \A y \in Actors \ {x} : push'[y] = push[y]
  PROVE  /\ (NotCounted(push'[x]) <=> NotCounted(push[x])) => Grows(Uncounted, Uncounted', 0)
         /\ NotCounted(push'[x]) /\ ~NotCounted(push[x]) => Grows(Uncounted, Uncounted', 1)
         /\ ~NotCounted(push'[x]) /\ NotCounted(push[x]) => Grows(Uncounted, Uncounted', -1)
<1>1. Uncounted' = {y \in Actors : NotCounted(push'[y])}
  BY DEF Uncounted, NotCounted
<1>2. \A y \in Actors \ {x} : NotCounted(push'[y]) <=> NotCounted(push[y])
  OBVIOUS
<1>3. (NotCounted(push'[x]) <=> NotCounted(push[x])) => Uncounted' = Uncounted
  BY <1>1, <1>2 DEF Uncounted
<1>4. NotCounted(push'[x]) /\ ~NotCounted(push[x]) => Uncounted' = Uncounted \cup {x} /\ x \notin Uncounted
  BY <1>1, <1>2 DEF Uncounted
<1>5. ~NotCounted(push'[x]) /\ NotCounted(push[x]) => Uncounted' = Uncounted \ {x} /\ x \in Uncounted
  BY <1>1, <1>2 DEF Uncounted
<1>6. ASSUME NotCounted(push'[x]) <=> NotCounted(push[x]) PROVE Grows(Uncounted, Uncounted', 0)
  <2>1. Uncounted' = Uncounted
    BY <1>3, <1>6
  <2> QED BY <2>1, GrowsBy
<1>7. ASSUME NotCounted(push'[x]), ~NotCounted(push[x]) PROVE Grows(Uncounted, Uncounted', 1)
  <2>1. Uncounted' = Uncounted \cup {x} /\ x \notin Uncounted
    BY <1>4, <1>7
  <2> QED BY <2>1, GrowsBy
<1>8. ASSUME ~NotCounted(push'[x]), NotCounted(push[x]) PROVE Grows(Uncounted, Uncounted', -1)
  <2>1. Uncounted' = Uncounted \ {x} /\ x \in Uncounted
    BY <1>5, <1>8
  <2> QED BY <2>1, GrowsBy
<1> QED BY <1>6, <1>7, <1>8

\* Nothing that counts happens, or only a Requeue begins.
LEMMA CountKept ==
  ASSUME TaskInv, CountInv, phase' = phase, pendingTasks' = pendingTasks, NEW x \in Actors,
         \A y \in Actors \ {x} : push'[y] = push[y], NotCounted(push'[x]) <=> NotCounted(push[x])
  PROVE  CountInv'
<1>1. pendingTasks \in Int /\ 0 \in Int /\ pendingTasks' = pendingTasks + 0 - 0
  BY DEF TaskInv, TaskTypeOK
<1> QED BY <1>1, LiveGrows, UncountedGrows, CountShift

LEMMA CountSubmit ==
  ASSUME TaskInv, CountInv, NEW x \in Actors, NEW e \in Tasks, NEW w \in Workers, Submits(x, e, w)
  PROVE  CountInv'
<1>1. /\ \A y \in Actors \ {x} : push'[y] = push[y]
      /\ ~NotCounted(push[x])
      /\ phase[e] = "new" /\ phase' = [phase EXCEPT ![e] = "live"] /\ pendingTasks' = pendingTasks
      /\ NotCounted(push'[x]) \/ e \in Forked
  BY SubmitEffect, IdleGood DEF NotCounted
<1>2. Grows(Live, Live', 1) /\ Mix' = Mix /\ pendingTasks \in Int /\ 1 \in Int /\ 0 \in Int
  <2>1. Grows(Live, Live', 1) /\ Mix' = Mix
    BY <1>1, LiveGrows
  <2>2. pendingTasks \in Int
    BY DEF TaskInv, TaskTypeOK
  <2> QED BY <2>1, <2>2
<1>3. CASE NotCounted(push'[x])
  <2>1. Grows(Uncounted, Uncounted', 1) /\ pendingTasks' = pendingTasks + 1 - 1
    BY <1>1, <1>2, <1>3, UncountedGrows
  <2> QED BY <1>2, <2>1, CountShift
<1>4. CASE ~NotCounted(push'[x])
  <2>1. Mix \cap Forked # {}
    BY <1>1, <1>4 DEF Mix
  <2>2. Grows(Uncounted, Uncounted', 0)
    BY <1>1, <1>4, UncountedGrows
  <2> QED BY <1>2, <2>1, <2>2, CountShift
<1> QED BY <1>3, <1>4

\* A task of a call in progress has been submitted.
LEMMA ForkInMix ==
  ASSUME TaskInv, OnceInv(TRUE), NEW x \in Actors, push[x].at \in {"fork_set", "fork_count"}
  PROVE  Mix \cap Forked # {}
<1>1. push[x].task \in Tasks /\ push[x].task \in Forked
  BY CallTask DEF TaskInv, GoodCalls
<1>2. phase[push[x].task] = "live"
  BY <1>1, HomeFound DEF OnceInv, Carried, BeforePut
<1> QED BY <1>1, <1>2 DEF Mix

\* The places of those calls.
LEMMA QuietMoves ==
  ASSUME TaskInv, NEW x \in Actors, Quiet(x)
  PROVE  /\ ForkSet(x) \/ ForkCount(x) => push[x].at \in {"fork_set", "fork_count"}
         /\ CountTask(x) => push[x].at = "count" /\ push'[x].at = "mark"
         /\ CoreSet(x) => push[x].at = "core_set" /\ push'[x].at = "core_task" /\ push'[x].to = push[x].to
         /\ ~(ForkSet(x) \/ ForkCount(x) \/ CountTask(x) \/ CoreSet(x)) =>
              \/ push[x].at \in {"check", "pick"} /\ push'[x].at = "put"
              \/ push[x].at \in {"mark", "notify", "core_immediate"} /\ push'[x].at \in {"notify", "idle"}
<1>1. TaskTypeOK
  BY DEF TaskInv
<1>2. ForkSet(x) \/ ForkCount(x) => push[x].at \in {"fork_set", "fork_count"}
  BY DEF ForkSet, ForkCount, InCall
<1>3. ASSUME CountTask(x) PROVE push[x].at = "count" /\ push'[x].at = "mark"
  <2>1. push[x].at = "count" /\ Step(x, "mark")
    BY <1>3 DEF CountTask, InCall
  <2> QED BY <1>1, <2>1, StepGood DEF PushPcs
<1>4. ASSUME CoreSet(x)
      PROVE  push[x].at = "core_set" /\ push'[x].at = "core_task" /\ push'[x].to = push[x].to
  <2>1. push[x].at = "core_set" /\ Step(x, "core_task")
    BY <1>4 DEF CoreSet, InCall
  <2>2. push[x].task \in Immediates
    BY <1>1, <2>1, CallTask DEF GoodCalls
  <2> QED BY <1>1, <2>1, <2>2, StepGood DEF PushPcs
<1>5. ASSUME CheckAffinity(x) /\ ~immediateCoresInUse[push[x].to]
      PROVE  push[x].at = "check" /\ push'[x].at = "put"
  <2>1. push[x].at = "check" /\ Step(x, "put")
    BY <1>5 DEF CheckAffinity, InCall
  <2> QED BY <1>1, <2>1, StepGood DEF PushPcs
<1>6. ASSUME NEW w \in Workers, PickWorker(x, w) PROVE push[x].at = "pick" /\ push'[x].at = "put"
  <2>1. push[x].at = "pick" /\ push' = [push EXCEPT ![x].at = "put", ![x].to = w]
    BY <1>6 DEF PickWorker, InCall
  <2>2. push[x] \in Calls /\ push \in [Actors -> GoodCalls]
    BY <1>1, <2>1, CallTask DEF TaskTypeOK
  <2>3. push'[x].at = "put"
    BY <2>1, <2>2 DEF Calls
  <2> QED BY <2>1, <2>3
<1>7. ASSUME MarkQueuedWork(x) \/ CoreImmediate(x)
      PROVE  push[x].at \in {"mark", "core_immediate"} /\ push'[x].at = "notify"
  <2>1. push[x].at \in {"mark", "core_immediate"} /\ Step(x, "notify")
    BY <1>7 DEF MarkQueuedWork, CoreImmediate, InCall
  <2> QED BY <1>1, <2>1, StepGood DEF PushPcs
<1>8. ASSUME NotifyTarget(x) PROVE push[x].at = "notify" /\ push'[x].at = "idle"
  <2>1. push[x].at = "notify" /\ push' = [push EXCEPT ![x] = Idle]
    BY <1>8 DEF NotifyTarget, InCall, Return, Set
  <2> QED BY <1>1, <2>1, IdleGood, PushUpdate
<1>9. ASSUME ~(ForkSet(x) \/ ForkCount(x) \/ CountTask(x) \/ CoreSet(x))
      PROVE  \/ push[x].at \in {"check", "pick"} /\ push'[x].at = "put"
             \/ push[x].at \in {"mark", "notify", "core_immediate"} /\ push'[x].at \in {"notify", "idle"}
  BY <1>5, <1>6, <1>7, <1>8, <1>9 DEF Quiet
<1> QED BY <1>2, <1>3, <1>4, <1>9

LEMMA CountQuiet ==
  ASSUME TaskInv, OnceInv(TRUE), CountInv, NEW x \in Actors, Quiet(x)
  PROVE  CountInv'
<1>1. /\ phase' = phase /\ \A y \in Actors \ {x} : push'[y] = push[y]
      /\ pendingTasks \in Int /\ 0 \in Int /\ 1 \in Int /\ -1 \in Int
  BY QuietRest, QuietPush DEF TaskInv, TaskTypeOK
<1>2. Grows(Live, Live', 0) /\ Mix' = Mix
  BY <1>1, LiveGrows
<1>3. CASE ForkSet(x) \/ ForkCount(x)
  <2>1. Mix \cap Forked # {}
    BY <1>3, QuietMoves, ForkInMix
  <2>2. \E d \in {0, 1, -1} : Grows(Uncounted, Uncounted', d)
    BY <1>1, UncountedGrows
  <2> QED BY <1>1, <1>2, <2>1, <2>2, CountShift
<1>4. CASE CountTask(x) \/ CoreSet(x)
  <2>1. NotCounted(push[x]) /\ ~NotCounted(push'[x])
    BY <1>4, QuietMoves DEF NotCounted
  <2>2. pendingTasks' = pendingTasks + 1
    BY <1>4 DEF CountTask, CoreSet
  <2>3. Grows(Uncounted, Uncounted', -1) /\ pendingTasks' = pendingTasks + 0 - (-1)
    BY <1>1, <2>1, <2>2, UncountedGrows
  <2> QED BY <1>1, <1>2, <2>3, CountShift
<1>5. CASE ~(ForkSet(x) \/ ForkCount(x) \/ CountTask(x) \/ CoreSet(x))
  <2>1. pendingTasks' = pendingTasks
    BY <1>5 DEF Quiet, CheckAffinity, PickWorker, MarkQueuedWork, NotifyTarget, CoreImmediate
  <2>2. push[x].at \in {"check", "pick"} => push'[x].new = push[x].new
    BY QuietPush DEF TaskInv, BeforePut
  <2>3. NotCounted(push'[x]) <=> NotCounted(push[x])
    BY <1>5, <2>2, QuietMoves DEF NotCounted
  <2> QED BY <1>1, <2>1, <2>3, CountKept
<1> QED BY <1>3, <1>4, <1>5

LEMMA CountEnds ==
  ASSUME TaskInv, OnceInv(TRUE), CountInv, NEW x \in Actors, Ends(x)
  PROVE  CountInv'
<1>1. PICK e \in Tasks : e = push[x].task
  BY EndsEffect
<1>2. /\ \A y \in Actors \ {x} : push'[y] = push[y]
      /\ push[x].at \in {"check", "help"} /\ ~NotCounted(push'[x])
  BY EndsEffect, IdleGood DEF NotCounted
<1>3. phase[e] = "live"
  BY <1>1, <1>2, HomeFound DEF OnceInv, Carried, BeforePut
<1>4. Grows(Live, Live', -1) /\ Mix' = Mix
  <2>1. PICK p \in {"refused", "done"} : phase' = [phase EXCEPT ![e] = p]
    BY <1>1, EndsEffect
  <2> QED BY <1>3, <2>1, LiveGrows
<1>5. pendingTasks \in Int /\ 0 \in Int /\ -1 \in Int
  BY DEF TaskInv, TaskTypeOK
<1>6. CASE CheckAffinity(x) /\ immediateCoresInUse[push[x].to]
  <2>1. push[x].at = "check" /\ pendingTasks' = pendingTasks
    BY <1>6 DEF CheckAffinity, InCall
  <2>2. NotCounted(push[x])
    BY <2>1, CallTask DEF TaskInv, GoodCalls, NotCounted
  <2>3. Grows(Uncounted, Uncounted', -1) /\ pendingTasks' = pendingTasks + (-1) - (-1)
    BY <1>2, <1>5, <2>1, <2>2, UncountedGrows
  <2> QED BY <1>4, <1>5, <2>3, CountShift
<1>7. CASE HelpFinish(x)
  <2>1. push[x].at = "help" /\ pendingTasks' = pendingTasks - 1
    BY <1>7 DEF HelpFinish, InCall
  <2>2. Grows(Uncounted, Uncounted', 0) /\ pendingTasks' = pendingTasks + (-1) - 0
    <3>1. ~NotCounted(push[x])
      BY <2>1 DEF NotCounted
    <3> QED BY <1>2, <1>5, <2>1, <3>1, UncountedGrows
  <2> QED BY <1>4, <1>5, <2>2, CountShift
<1> QED BY <1>6, <1>7 DEF Ends

LEMMA CountPut ==
  ASSUME TaskInv, CountInv, NEW x \in Actors, PutInbox(x)
  PROVE  CountInv'
<1>1. /\ phase' = phase /\ pendingTasks' = pendingTasks
      /\ \A y \in Actors \ {x} : push'[y] = push[y]
  BY PutEffect
<1>2. NotCounted(push'[x]) <=> NotCounted(push[x])
  BY PutEffect DEF NotCounted
<1> QED BY <1>1, <1>2, CountKept

LEMMA CountCoreTask ==
  ASSUME TaskInv, CountInv, NEW x \in Actors, CoreTask(x)
  PROVE  CountInv'
<1>1. /\ phase' = phase /\ pendingTasks' = pendingTasks
      /\ \A y \in Actors \ {x} : push'[y] = push[y]
  BY CoreTaskEffect
<1>2. NotCounted(push'[x]) <=> NotCounted(push[x])
  BY CoreTaskEffect DEF NotCounted
<1> QED BY <1>1, <1>2, CountKept

\* Requeue does not count.
LEMMA CountRequeue ==
  ASSUME TaskInv, CountInv, phase' = phase, pendingTasks' = pendingTasks, NEW x \in Actors,
         \A y \in Actors \ {x} : push'[y] = push[y], push[x] = Idle,
         push'[x].at \in {"pick", "help"}, push'[x].new = FALSE
  PROVE  CountInv'
<1>1. ~NotCounted(push[x]) /\ ~NotCounted(push'[x])
  BY IdleGood DEF NotCounted
<1> QED BY <1>1, CountKept

LEMMA CountPicksUp ==
  ASSUME TaskInv, CountInv,
         \/ \E x \in Actors, t \in Tasks : ResumeTask(x, t)
         \/ \E x \in Actors, v \in Workers, l \in Lanes : HelpSteal(x, v, l)
         \/ \E w \in Workers : Requeues(w)
  PROVE  CountInv'
<1>1. CASE \E x \in Actors, t \in Tasks : ResumeTask(x, t)
  BY <1>1, ResumeEffect, CountRequeue
<1>2. CASE \E x \in Actors, v \in Workers, l \in Lanes : HelpSteal(x, v, l)
  BY <1>2, HelpStealEffect, CountRequeue
<1>3. CASE \E w \in Workers : Requeues(w)
  BY <1>3, RequeuesEffect, CountRequeue
<1> QED BY <1>1, <1>2, <1>3

LEMMA CountStops ==
  ASSUME TaskInv, OnceInv(TRUE), CountInv, NEW w \in Workers, Stops(w)
  PROVE  CountInv'
<1>1. /\ w \in Actors /\ push[w] = Idle /\ taskToRun[w] \in Tasks /\ pc[w] = "exec" /\ TaskTypeOK
  BY StopsEffect DEF TaskInv
<1>2. CASE TaskFinished(w)
  <2>1. phase[taskToRun[w]] = "live"
    BY <1>1, HomeFound DEF OnceInv, InHand
  <2>2. Grows(Live, Live', -1) /\ Mix' = Mix
    <3>1. phase' = [phase EXCEPT ![taskToRun[w]] = "done"]
      BY <1>2, StopsEffect
    <3> QED BY <1>1, <2>1, <3>1, LiveGrows
  <2>3. push' = push /\ pendingTasks' = pendingTasks - 1 /\ pendingTasks \in Int
    BY <1>1, <1>2, StopsEffect DEF TaskTypeOK
  <2>4. Grows(Uncounted, Uncounted', 0) /\ pendingTasks' = pendingTasks + (-1) - 0 /\ -1 \in Int /\ 0 \in Int
    BY <1>1, <2>3, UncountedGrows
  <2> QED BY <2>2, <2>4, CountShift
<1>3. CASE TaskYielded(w) \/ TaskParked(w)
  <2>1. push' = push /\ phase' = phase /\ pendingTasks' = pendingTasks
    BY <1>3, StopsEffect
  <2> QED BY <1>1, <2>1, CountKept
<1>4. CASE TaskSignalled(w)
  <2>1. StartRequeue(w, taskToRun[w]) /\ phase' = phase /\ pendingTasks' = pendingTasks
    BY <1>4, StopsEffect
  <2>2. \A y \in Actors \ {w} : push'[y] = push[y]
    BY <1>1, <2>1, RequeueEffect
  <2>3. push'[w].at = "pick" /\ push'[w].new = FALSE
    BY <1>1, <2>1, RequeueEffect
  <2> QED BY <1>1, <2>1, <2>2, <2>3, CountRequeue
<1> QED BY <1>2, <1>3, <1>4 DEF Stops

LEMMA CountInit == Init => CountInv
<1> SUFFICES ASSUME Init PROVE CountInv
  OBVIOUS
<1>1. Live = {} /\ pendingTasks = 0
  BY DEF Init, Live
<1>2. Uncounted = {}
  <2>1. \A x \in Actors : push[x] = Idle
    BY DEF Init
  <2> QED BY <2>1, IdleGood DEF Uncounted, NotCounted
<1> QED BY <1>1, <1>2, FS_EmptySet DEF CountInv

LEMMA CountStep ==
  ASSUME TaskInv, OnceInv(TRUE), CountInv, [Next]_vars, NoRefusal
  PROVE  CountInv'
<1>1. 0 \in Actors
  BY IdleType DEF Actors
<1>2. ASSUME push' = push, phase' = phase, pendingTasks' = pendingTasks PROVE CountInv'
  BY <1>1, <1>2, CountKept
<1>3. ASSUME NEW w \in Workers, WorkerCode(w) PROVE CountInv'
  <2>1. CASE Wanders(w) \/ Finds(w)
    BY <1>2, <2>1 DEF Wanders, Finds
  <2>2. CASE AfterRun(w) \/ TakeImmediate(w) \/ ForgetImmediate(w) \/ UnflagImmediate(w)
    BY <1>2, <2>2, AfterRunEffect, TakeEffect, ForgetEffect, UnflagEffect
  <2>3. CASE \E l \in Lanes : Drains(w, l) \/ Pulls(w, l)
    BY <1>2, <2>3, DrainsEffect, PullsEffect
  <2> QED BY <1>3, <2>1, <2>2, <2>3, WorkerKinds, CountStops, CountPicksUp
<1>4. CASE Controls
  BY <1>2, <1>4, ControlEffect
<1> QED BY <1>3, <1>4, StepKinds, CountSubmit, CountQuiet, CountEnds, CountPut, CountCoreTask, CountPicksUp

\* No worker has been refused a fiber as long as no step refuses one.
MissInv == misses \in [Tasks -> Nat]
LEMMA MissStep ==
  ASSUME MissInv, NoMisses => TaskInv, [Next]_vars
  PROVE  MissInv' /\ (NoMisses' => NoMisses /\ NoRefusal)
<1>1. CASE NoRefusal
  <2>1. misses' = misses
    <3> USE DEF taskVars, fibers
    <3>1. ASSUME NEW x \in Actors, NEW t \in Tasks, NEW w \in Workers, Submits(x, t, w)
          PROVE  misses' = misses
      BY <3>1 DEF Submits, CallPush, CallPushTo, CallPushFork, CallPushToCore, Born
    <3>2. ASSUME NEW x \in Actors, Quiet(x) \/ Ends(x) \/ PutInbox(x) \/ CoreTask(x)
          PROVE  misses' = misses
      BY <3>2 DEF Quiet, Ends, PutInbox, CoreTask, ForkSet, ForkCount, CheckAffinity, PickWorker,
                  CountTask, MarkQueuedWork, NotifyTarget, CoreSet, CoreImmediate, HelpFinish
    <3>3. ASSUME NEW x \in Actors, NEW t \in Tasks, ResumeTask(x, t) PROVE misses' = misses
      BY <3>3 DEF ResumeTask
    <3>4. ASSUME NEW x \in Actors, NEW v \in Workers, NEW l \in Lanes, HelpSteal(x, v, l)
          PROVE  misses' = misses
      BY <3>4 DEF HelpSteal
    <3>5. ASSUME NEW w \in Workers, WorkerCode(w) PROVE misses' = misses
      <4>1. CASE DrainInboxes(w) \/ PullInboxes(w)
        BY <4>1 DEF DrainInboxes, PullInboxes, DrainInbox, RequeueBatch, PullInbox, PopPulled
      <4>2. CASE ~DrainInboxes(w) /\ ~PullInboxes(w)
        BY <1>1, <3>5, <4>2
           DEF NoRefusal, WorkerCode, LoopTop, GetFiber, Reflag, TaskFinished, TaskYielded, TaskParked,
               TaskSignalled, AfterRun, SeeImmediate, TakeImmediate, ForgetImmediate, UnflagImmediate,
               PopLocal, StealMiss, Steal, TestSleep, Block
      <4> QED BY <4>1, <4>2
    <3>6. CASE Controls
      BY <3>6 DEF Controls, Control, Pause, Resume, Join, NotifyAll, JoinWorker, Joined, vars
    <3> QED BY <3>1, <3>2, <3>3, <3>4, <3>5, <3>6, StepKinds
  <2> QED BY <1>1, <2>1 DEF MissInv, NoMisses
<1>2. ASSUME NEW w \in Workers, NoFiber(w) PROVE MissInv' /\ ~NoMisses'
  <2>1. CASE taskToRun[w] \in Tasks
    <3>1. /\ misses' = [misses EXCEPT ![taskToRun[w]] = misses[taskToRun[w]] + 1]
          /\ misses[taskToRun[w]] \in Nat
      BY <1>2, <2>1 DEF NoFiber, MissInv
    <3>2. misses'[taskToRun[w]] # 0 /\ misses' \in [Tasks -> Nat]
      BY <2>1, <3>1 DEF MissInv
    <3> QED BY <2>1, <3>2 DEF MissInv, NoMisses
  <2>2. CASE taskToRun[w] \notin Tasks
    <3>1. misses' = misses
      BY <1>2, <2>2 DEF NoFiber, MissInv
    <3>2. ~TaskInv
      BY <1>2, <2>2 DEF NoFiber, WorkerAt, TaskInv, TaskTypeOK, LocalInv, HasTask, TaskOrNone
    <3>3. ~NoMisses
      BY <3>2
    <3> QED BY <3>1, <3>3 DEF MissInv, NoMisses
  <2> QED BY <2>1, <2>2
<1> QED BY <1>1, <1>2 DEF NoRefusal

\* The three facts that hold until a worker is refused a fiber, together.
Settles == TaskInv /\ OnceInv(TRUE) /\ CountInv
LEMMA SettlesAlways == Spec => [](MissInv /\ (NoMisses => Settles))
<1>1. Init => MissInv /\ Settles
  <2>1. Init => MissInv
    BY DEF Init, MissInv
  <2> QED BY <2>1, TaskInit, OnceInit, CountInit DEF Settles
<1>2. MissInv /\ (NoMisses => Settles) /\ [Next]_vars => (MissInv /\ (NoMisses => Settles))'
  <2>1. Settles /\ [Next]_vars /\ NoRefusal => Settles'
    BY TaskStep, OnceStep, CountStep DEF Settles
  <2> QED BY <2>1, MissStep DEF Settles
<1> QED BY <1>1, <1>2, PTL DEF Spec

\* Requeue, steals, drains, yields and the help of a thread on no fiber leave
\* pendingTasks alone, for any number of workers, callers and tasks: until a
\* worker is refused a fiber it is the number of live tasks but for those whose
\* call has not counted them yet.
THEOREM PendingCounted == Spec => []PendingBalanced
<1>1. (NoMisses => Settles) => PendingBalanced
  <2> SUFFICES ASSUME CountInv, Calm, Mix \cap Forked = {} PROVE pendingTasks = Cardinality(Live)
    BY DEF PendingBalanced, Live, Settles
  <2>1. Uncounted = {}
    BY IdleGood DEF Calm, Uncounted, NotCounted
  <2> QED BY <2>1, FS_EmptySet, FS_CardinalityType DEF CountInv
<1> QED BY <1>1, SettlesAlways, PTL

-----------------------------------------------------------------------------
(* The cores that PushToCore reserves.                                     *)

Reserved(w) == immediateTask[w] # None \/ pc[w] = "unflag" \/ isHandlingFork[w]
Tested(x, w) == push[x].at = "core_set" /\ push[x].to = w
Given(x, w) == push[x].at = "core_task" /\ push[x].to = w

\* A core in use has its task, or the task is about to be handed to it.
BackOk(w) == immediateCoresInUse[w] => Reserved(w) \/ \E x \in Actors : Given(x, w)
GiveBack == Mix \cap Forked = {} => \A w \in Workers : BackOk(w)

\* A core that has its task, or is about to get one, is in use and has no
\* other.  Two calls that pass the test of immediateCoresInUse together break
\* this (NoCoreRace), and so does a fork (see TaskFinished).
NoCoreRace == \A w \in Workers : \A x, y \in Actors : Tested(x, w) /\ Tested(y, w) => x = y
CoreOk(w) ==
  /\ Reserved(w) => immediateCoresInUse[w]
  /\ pc[w] = "unflag" \/ isHandlingFork[w] => immediateTask[w] = None
  /\ \A x \in Actors : Tested(x, w) \/ Given(x, w) => ~Reserved(w)
  /\ \A x \in Actors : Given(x, w) => immediateCoresInUse[w]
  /\ \A x, y \in Actors : (Tested(x, w) \/ Given(x, w)) /\ Given(y, w) => x = y
CoreInv == Mix \cap Forked = {} => \A w \in Workers : CoreOk(w)

LEMMA MixKept ==
  ASSUME TaskInv, OnceInv(TRUE), [Next]_vars, NoRefusal
  PROVE  Mix' = Mix
<1>1. ASSUME phase' = phase PROVE Mix' = Mix
  BY <1>1 DEF Mix
<1>2. ASSUME NEW x \in Actors, NEW t \in Tasks, NEW w \in Workers, Submits(x, t, w) PROVE Mix' = Mix
  BY <1>2, SubmitEffect, LiveGrows
<1>3. ASSUME NEW x \in Actors, Ends(x) PROVE Mix' = Mix
  <2>1. PICK e \in Tasks, p \in {"refused", "done"} : e = push[x].task /\ phase' = [phase EXCEPT ![e] = p]
    BY <1>3, EndsEffect
  <2>2. phase[e] = "live"
    BY <1>3, <2>1, EndsEffect, HomeFound DEF OnceInv, Carried, BeforePut
  <2> QED BY <2>1, <2>2, LiveGrows
<1>4. ASSUME NEW w \in Workers, Stops(w) PROVE Mix' = Mix
  <2>1. taskToRun[w] \in Tasks /\ pc[w] = "exec"
    BY <1>4, StopsEffect
  <2>2. phase[taskToRun[w]] = "live"
    BY <2>1, HomeFound DEF OnceInv, InHand
  <2>3. phase' = phase \/ phase' = [phase EXCEPT ![taskToRun[w]] = "done"]
    BY <1>4, StopsEffect DEF Stops
  <2> QED BY <2>1, <2>2, <2>3, LiveGrows
<1>5. ASSUME NEW w \in Workers, WorkerCode(w) PROVE Mix' = Mix
  <2>1. CASE Wanders(w) \/ Finds(w)
    BY <1>1, <2>1 DEF Wanders, Finds
  <2>2. CASE AfterRun(w) \/ TakeImmediate(w) \/ ForgetImmediate(w) \/ UnflagImmediate(w)
    BY <1>1, <2>2, AfterRunEffect, TakeEffect, ForgetEffect, UnflagEffect
  <2>3. CASE Requeues(w) \/ \E l \in Lanes : Drains(w, l) \/ Pulls(w, l)
    BY <1>1, <2>3, DrainsEffect, PullsEffect, RequeuesEffect
  <2> QED BY <1>4, <1>5, <2>1, <2>2, <2>3, WorkerKinds
<1>6. ASSUME NEW x \in Actors, Quiet(x) \/ PutInbox(x) \/ CoreTask(x) PROVE Mix' = Mix
  <2>1. TaskTypeOK
    BY DEF TaskInv
  <2> QED BY <1>1, <1>6, <2>1, QuietRest, PutEffect, CoreTaskEffect
<1>7. CASE Controls
  BY <1>1, <1>7, ControlEffect
<1>8. ASSUME NEW x \in Actors,
             (\E t \in Tasks : ResumeTask(x, t)) \/ (\E v \in Workers, l \in Lanes : HelpSteal(x, v, l))
      PROVE  Mix' = Mix
  BY <1>1, <1>8, ResumeEffect, HelpStealEffect
<1> QED BY <1>2, <1>3, <1>5, <1>6, <1>7, <1>8, StepKinds

\* Steps that concern no reserved core.
CallSame(x) ==
  push[x].at \in {"core_set", "core_task"} \/ push'[x].at \in {"core_set", "core_task"} =>
    push'[x].at = push[x].at /\ push'[x].to = push[x].to
CoresSame ==
  /\ UNCHANGED <<immediateCoresInUse, immediateTask, isHandlingFork>>
  /\ \A w \in Workers : pc'[w] = "unflag" <=> pc[w] = "unflag"
  /\ \A x \in Actors : CallSame(x)

\* One core, seen by everybody.
CoreSame(w) ==
  /\ immediateCoresInUse'[w] = immediateCoresInUse[w] /\ immediateTask'[w] = immediateTask[w]
  /\ isHandlingFork'[w] = isHandlingFork[w] /\ (pc'[w] = "unflag" <=> pc[w] = "unflag")
  /\ \A x \in Actors : (Tested(x, w)' <=> Tested(x, w)) /\ (Given(x, w)' <=> Given(x, w))

LEMMA OneSame ==
  ASSUME NEW w, CoreSame(w)
  PROVE  (CoreOk(w) => CoreOk(w)') /\ (BackOk(w) => BackOk(w)')
BY DEF CoreSame, CoreOk, BackOk, Reserved

LEMMA SameCores ==
  ASSUME CoresSame, NEW w \in Workers
  PROVE  CoreSame(w)
BY DEF CoresSame, CoreSame, CallSame, Tested, Given

\* What every step does to the cores, in a program that does not fork.
Tests(x, w) ==
  /\ \A y \in Actors \ {x} : push'[y] = push[y]
  /\ push[x].at = "idle" /\ push'[x].at = "core_set" /\ push'[x].to = w /\ ~immediateCoresInUse[w]
  /\ UNCHANGED <<immediateCoresInUse, immediateTask, isHandlingFork, pc>>
LEMMA CoreKinds ==
  ASSUME TaskInv, OnceInv(TRUE), [Next]_vars, NoRefusal, Mix \cap Forked = {}
  PROVE  \/ CoresSame
         \/ \E x \in Actors, w \in Workers : Tests(x, w)
         \/ \E x \in Actors : CoreSet(x) \/ CoreTask(x)
         \/ \E w \in Workers : AfterRun(w) \/ ForgetImmediate(w) \/ UnflagImmediate(w)
<1>1. TaskTypeOK /\ pc \in [Workers -> WorkerPcs]
  BY DEF TaskInv, TaskTypeOK
<1>2. ASSUME NEW x \in Actors, \A y \in Actors \ {x} : push'[y] = push[y],
             push[x].at \notin {"core_set", "core_task"}, push'[x].at \notin {"core_set", "core_task"}
      PROVE  \A y \in Actors : CallSame(y)
  BY <1>2 DEF CallSame
<1>3. ASSUME push' = push PROVE \A y \in Actors : CallSame(y)
  BY <1>3 DEF CallSame
<1>4. ASSUME NEW x \in Actors, NEW t \in Tasks, NEW w \in Workers, Submits(x, t, w)
      PROVE  CoresSame \/ Tests(x, w)
  <2>1. /\ \A y \in Actors \ {x} : push'[y] = push[y]
        /\ push[x].at = "idle" /\ UNCHANGED <<immediateCoresInUse, immediateTask, isHandlingFork, pc>>
        /\ \/ push'[x].at \notin {"core_set", "core_task"}
           \/ push'[x].at = "core_set" /\ push'[x].to = w /\ ~immediateCoresInUse[w]
    BY <1>4, SubmitEffect, IdleGood DEF flags, locals
  <2>2. CASE push'[x].at \notin {"core_set", "core_task"}
    <3>1. \A y \in Actors : CallSame(y)
      BY <1>2, <2>1, <2>2
    <3> QED BY <2>1, <3>1 DEF CoresSame
  <2>3. CASE push'[x].at = "core_set" /\ push'[x].to = w /\ ~immediateCoresInUse[w]
    BY <2>1, <2>3 DEF Tests
  <2> QED BY <2>1, <2>2, <2>3
<1>5. ASSUME NEW x \in Actors, Quiet(x), ~CoreSet(x) PROVE CoresSame
  <2>1. ~ForkSet(x) /\ ~ForkCount(x)
    BY <1>5, QuietMoves, ForkInMix
  <2>2. /\ push[x].at \notin {"core_set", "core_task"} /\ push'[x].at \notin {"core_set", "core_task"}
    BY <1>5, <2>1, QuietMoves
  <2>3. \A y \in Actors \ {x} : push'[y] = push[y]
    BY <1>1, <1>5, QuietPush
  <2>4. \A y \in Actors : CallSame(y)
    BY <1>2, <2>2, <2>3
  <2>5. immediateTask' = immediateTask /\ isHandlingFork' = isHandlingFork /\ Woken
    BY <1>1, <1>5, QuietRest DEF locals
  <2>6. immediateCoresInUse' = immediateCoresInUse
    BY <1>5, <2>1 DEF Quiet, CheckAffinity, PickWorker, CountTask, MarkQueuedWork, NotifyTarget,
                      CoreImmediate, flags
  <2> QED BY <2>4, <2>5, <2>6 DEF CoresSame, Woken
<1>6. ASSUME NEW x \in Actors, Ends(x) \/ PutInbox(x) PROVE CoresSame
  <2>1. /\ push[x].at \notin {"core_set", "core_task"} /\ push'[x].at \notin {"core_set", "core_task"}
    BY <1>6, EndsEffect, PutEffect, IdleGood
  <2>2. \A y \in Actors \ {x} : push'[y] = push[y]
    BY <1>6, EndsEffect, PutEffect
  <2>3. UNCHANGED <<immediateCoresInUse, immediateTask, isHandlingFork, pc>>
    BY <1>6, EndsEffect, PutEffect DEF flags, locals
  <2>4. \A y \in Actors : CallSame(y)
    BY <1>2, <2>1, <2>2
  <2> QED BY <2>3, <2>4 DEF CoresSame
<1>7. ASSUME NEW x \in Actors,
             \/ \E t \in Tasks : ResumeTask(x, t)
             \/ \E v \in Workers, l \in Lanes : HelpSteal(x, v, l)
             \/ x \in Workers /\ Requeues(x)
      PROVE  CoresSame
  <2>1. /\ push[x] = Idle /\ push'[x].at \in {"pick", "help"}
        /\ UNCHANGED <<immediateCoresInUse, immediateTask, isHandlingFork, pc>>
    BY <1>7, ResumeEffect, HelpStealEffect, RequeuesEffect DEF flags, locals
  <2>2. \A y \in Actors \ {x} : push'[y] = push[y]
    BY <1>7, ResumeEffect, HelpStealEffect, RequeuesEffect
  <2>3. \A y \in Actors : CallSame(y)
    BY <1>2, <2>1, <2>2, IdleGood
  <2> QED BY <2>1, <2>3 DEF CoresSame
<1>8. ASSUME NEW w \in Workers, Stops(w) PROVE CoresSame
  <2>1. /\ w \in Actors /\ push[w] = Idle /\ taskToRun[w] \in Tasks /\ pc[w] = "exec"
        /\ pc' = [pc EXCEPT ![w] = "ran"]
        /\ UNCHANGED <<immediateCoresInUse, immediateTask>>
        /\ taskToRun[w] \notin Forked => isHandlingFork' = isHandlingFork
    BY <1>8, StopsEffect DEF flags
  <2>2. \A y \in Actors : CallSame(y)
    <3>1. CASE TaskSignalled(w)
      <4>1. StartRequeue(w, taskToRun[w])
        BY <1>8, <3>1, StopsEffect
      <4>2. (\A y \in Actors \ {w} : push'[y] = push[y]) /\ push'[w].at = "pick"
        BY <1>1, <2>1, <4>1, RequeueEffect
      <4> QED BY <1>2, <2>1, <4>2, IdleGood
    <3>2. CASE ~TaskSignalled(w)
      BY <1>3, <1>8, <3>2, StopsEffect DEF Stops
    <3> QED BY <3>1, <3>2
  <2>3. \A v \in Workers : pc'[v] = "unflag" <=> pc[v] = "unflag"
    BY <1>1, <2>1
  <2>4. taskToRun[w] \notin Forked
    <3>1. phase[taskToRun[w]] = "live"
      BY <2>1, HomeFound DEF OnceInv, InHand
    <3> QED BY <2>1, <3>1 DEF Mix
  <2> QED BY <2>1, <2>2, <2>3, <2>4 DEF CoresSame
<1>9. ASSUME NEW w \in Workers,
             Wanders(w) \/ Finds(w) \/ TakeImmediate(w) \/ \E l \in Lanes : Drains(w, l) \/ Pulls(w, l)
      PROVE  CoresSame
  <2>1. UNCHANGED <<immediateCoresInUse, immediateTask, isHandlingFork, push>>
    BY <1>9, TakeEffect, DrainsEffect, PullsEffect DEF Wanders, Finds, flags, locals
  <2>2. pc[w] # "unflag" /\ \E p \in WorkerPcs \ {"unflag"} : pc' = [pc EXCEPT ![w] = p]
    <3>1. CASE Wanders(w)
      BY <3>1 DEF Wanders
    <3>2. CASE Finds(w)
      BY <3>2 DEF Finds, WorkerPcs, Search, Searched, Asleep
    <3>3. CASE TakeImmediate(w)
      BY <3>3, TakeEffect DEF WorkerPcs
    <3>4. ASSUME NEW l \in Lanes, Drains(w, l) \/ Pulls(w, l)
          PROVE  pc[w] # "unflag" /\ \E p \in WorkerPcs \ {"unflag"} : pc' = [pc EXCEPT ![w] = p]
      BY <3>4, DrainsEffect, PullsEffect DEF WorkerPcs
    <3> QED BY <1>9, <3>1, <3>2, <3>3, <3>4
  <2>3. \A v \in Workers : pc'[v] = "unflag" <=> pc[v] = "unflag"
    BY <1>1, <2>2
  <2> QED BY <1>3, <2>1, <2>3 DEF CoresSame
<1>10. CASE Controls
  <2>1. UNCHANGED <<immediateCoresInUse, immediateTask, isHandlingFork, push>> /\ Woken
    BY <1>10, ControlEffect DEF flags, locals
  <2> QED BY <1>3, <2>1 DEF CoresSame, Woken
<1>11. ASSUME NEW w \in Workers, WorkerCode(w)
       PROVE  CoresSame \/ AfterRun(w) \/ ForgetImmediate(w) \/ UnflagImmediate(w)
  <2>1. w \in Actors
    BY DEF Actors
  <2> QED BY <1>7, <1>8, <1>9, <1>11, <2>1, WorkerKinds
<1> QED BY <1>4, <1>5, <1>6, <1>7, <1>10, <1>11, StepKinds

\* The test that PushToCore makes, the store, and the task handed over.
LEMMA CoreTests ==
  ASSUME NEW x \in Actors, NEW c \in Workers, Tests(x, c), NEW w \in Workers
  PROVE  /\ BackOk(w) => BackOk(w)'
         /\ CoreOk(w) => CoreOk(w)'
<1>1. /\ \A y \in Actors : Given(y, w)' <=> Given(y, w)
      /\ \A y \in Actors : Tested(y, w)' => Tested(y, w) \/ c = w
      /\ ~immediateCoresInUse[c] /\ (Reserved(w)' <=> Reserved(w))
      /\ UNCHANGED <<immediateCoresInUse, immediateTask, isHandlingFork, pc>>
  BY DEF Tests, Given, Tested, Reserved
<1> QED BY <1>1 DEF BackOk, CoreOk

LEMMA CoreSets ==
  ASSUME TaskInv, NEW x \in Actors, CoreSet(x), NEW w \in Workers
  PROVE  /\ BackOk(w) => BackOk(w)'
         /\ CoreOk(w) /\ NoCoreRace => CoreOk(w)'
<1>1. PICK c \in Workers : c = push[x].to
  BY CallTask DEF CoreSet, InCall, TaskInv
<1>2. /\ push[x].at = "core_set" /\ push'[x].at = "core_task" /\ push'[x].to = c
      /\ \A y \in Actors \ {x} : push'[y] = push[y]
  <2>1. Quiet(x) /\ TaskTypeOK
    BY DEF Quiet, TaskInv
  <2> QED BY <1>1, <2>1, QuietMoves, QuietPush
<1>3. /\ UNCHANGED <<immediateTask, isHandlingFork, pc>>
      /\ immediateCoresInUse'[w] = IF w = c THEN TRUE ELSE immediateCoresInUse[w]
  BY <1>1 DEF CoreSet, Set, locals, TaskInv, TaskTypeOK
<1>4. /\ \A y \in Actors : Given(y, w)' <=> Given(y, w) \/ (y = x /\ w = c)
      /\ \A y \in Actors : Tested(y, w)' <=> Tested(y, w) /\ ~(y = x /\ w = c)
      /\ Tested(x, c) /\ (Reserved(w)' <=> Reserved(w))
  BY <1>1, <1>2, <1>3 DEF Given, Tested, Reserved
<1>5. BackOk(w) => BackOk(w)'
  BY <1>3, <1>4 DEF BackOk
<1>6. ASSUME CoreOk(w), NoCoreRace PROVE CoreOk(w)'
  <2>1. CASE w # c
    BY <1>3, <1>4, <1>6, <2>1 DEF CoreOk
  <2>2. CASE w = c
    <3>1. \A y \in Actors : Tested(y, w) \/ Given(y, w) => y = x
      BY <1>4, <1>6, <2>2 DEF CoreOk, NoCoreRace
    <3> QED BY <1>3, <1>4, <1>6, <2>2, <3>1 DEF CoreOk
  <2> QED BY <2>1, <2>2
<1> QED BY <1>5, <1>6

LEMMA CoreTasks ==
  ASSUME TaskInv, NEW x \in Actors, CoreTask(x), NEW w \in Workers
  PROVE  /\ BackOk(w) => BackOk(w)'
         /\ CoreOk(w) => CoreOk(w)'
<1>1. PICK c \in Workers : c = push[x].to
  BY CoreTaskEffect
<1>2. /\ push[x].at = "core_task" /\ push'[x].at = "core_immediate"
      /\ \A y \in Actors \ {x} : push'[y] = push[y]
      /\ UNCHANGED <<immediateCoresInUse, isHandlingFork, pc>>
      /\ (w # c => immediateTask'[w] = immediateTask[w]) /\ (w = c => immediateTask'[w] # None)
  <2>1. push[x].task # None
    BY CoreTaskEffect, TaskKinds
  <2> QED BY <1>1, <2>1, CoreTaskEffect DEF locals, TaskInv, TaskTypeOK
<1>3. /\ \A y \in Actors : Given(y, w)' <=> Given(y, w) /\ ~(y = x /\ w = c)
      /\ \A y \in Actors : Tested(y, w)' <=> Tested(y, w)
      /\ Given(x, c) /\ (w # c => (Reserved(w)' <=> Reserved(w))) /\ (w = c => Reserved(w)')
  BY <1>1, <1>2 DEF Given, Tested, Reserved
<1>4. BackOk(w) => BackOk(w)'
  BY <1>2, <1>3 DEF BackOk
<1>5. ASSUME CoreOk(w) PROVE CoreOk(w)'
  <2>1. CASE w # c
    BY <1>2, <1>3, <1>5, <2>1 DEF CoreOk
  <2>2. CASE w = c
    <3>1. ~(pc[w] = "unflag" \/ isHandlingFork[w]) /\ immediateCoresInUse[w]
      BY <1>3, <1>5, <2>2 DEF CoreOk, Reserved
    <3>2. \A y \in Actors : Tested(y, w) \/ Given(y, w) => y = x
      BY <1>3, <1>5, <2>2 DEF CoreOk
    <3>3. ~Tested(x, w)
      BY <1>2 DEF Tested
    <3>4. \A y \in Actors : ~Tested(y, w)' /\ ~Given(y, w)'
      BY <1>3, <2>2, <3>2, <3>3
    <3> QED BY <1>2, <3>1, <3>4 DEF CoreOk
  <2> QED BY <2>1, <2>2
<1> QED BY <1>4, <1>5

\* The worker takes the task and gives the core back when it has run.
LEMMA CoreForgets ==
  ASSUME TaskInv, NEW c \in Workers, ForgetImmediate(c) \/ UnflagImmediate(c), NEW w \in Workers
  PROVE  /\ BackOk(w) => BackOk(w)'
         /\ CoreOk(w) => CoreOk(w)'
<1>1. /\ UNCHANGED <<immediateCoresInUse, push>>
      /\ w # c => /\ immediateTask'[w] = immediateTask[w] /\ isHandlingFork'[w] = isHandlingFork[w]
                  /\ pc'[w] = pc[w]
  BY ForgetEffect, UnflagEffect DEF locals, TaskInv, TaskTypeOK
<1>2. \A y \in Actors : (Given(y, w)' <=> Given(y, w)) /\ (Tested(y, w)' <=> Tested(y, w))
  BY <1>1 DEF Given, Tested
<1>3. CASE w # c
  BY <1>1, <1>2, <1>3, OneSame DEF CoreSame
<1>4. CASE w = c
  <2>1. Reserved(w) /\ Reserved(w)'
    BY <1>4, ForgetEffect, UnflagEffect DEF Reserved, TaskInv, TaskTypeOK
  <2>2. CoreOk(w) => immediateTask'[w] = None
    BY <1>4, ForgetEffect, UnflagEffect DEF CoreOk, TaskInv, TaskTypeOK
  <2> QED BY <1>1, <1>2, <2>1, <2>2 DEF BackOk, CoreOk
<1> QED BY <1>3, <1>4

LEMMA CoreAfterRun ==
  ASSUME TaskInv, Mix \cap Forked = {}, NEW c \in Workers, AfterRun(c), NEW w \in Workers
  PROVE  /\ BackOk(w) => BackOk(w)'
         /\ CoreOk(w) => CoreOk(w)'
<1>1. /\ UNCHANGED <<immediateTask, push>>
      /\ w # c => /\ immediateCoresInUse'[w] = immediateCoresInUse[w]
                  /\ isHandlingFork'[w] = isHandlingFork[w] /\ pc'[w] = pc[w]
  BY AfterRunEffect
<1>2. \A y \in Actors : (Given(y, w)' <=> Given(y, w)) /\ (Tested(y, w)' <=> Tested(y, w))
  BY <1>1 DEF Given, Tested
<1>3. CASE w # c
  BY <1>1, <1>2, <1>3, OneSame DEF CoreSame
<1>4. CASE w = c
  <2>1. /\ pc[w] # "unflag" /\ pc'[w] # "unflag" /\ isHandlingFork'[w] = FALSE
        /\ immediateCoresInUse'[w] \in {FALSE, immediateCoresInUse[w]}
        /\ isHandlingFork[w] => immediateCoresInUse'[w] = FALSE
    BY <1>4, AfterRunEffect
  <2>2. immediateCoresInUse'[w] # immediateCoresInUse[w] => isHandlingFork[w]
    BY <1>4, AfterRunEffect
  <2>3. Reserved(w)' <=> immediateTask[w] # None
    BY <1>1, <2>1 DEF Reserved
  <2>4. Reserved(w) <=> immediateTask[w] # None \/ isHandlingFork[w]
    BY <2>1 DEF Reserved
  <2>5. isHandlingFork[w] \in BOOLEAN /\ immediateCoresInUse[w] \in BOOLEAN
    BY DEF TaskInv, TaskTypeOK
  <2>6. BackOk(w) => BackOk(w)'
    BY <1>2, <2>1, <2>2, <2>3, <2>4, <2>5 DEF BackOk
  <2>7. CASE isHandlingFork[w]
    BY <1>1, <1>2, <2>1, <2>3, <2>4, <2>6, <2>7 DEF CoreOk
  <2>8. CASE ~isHandlingFork[w]
    BY <1>1, <1>2, <2>1, <2>2, <2>3, <2>4, <2>5, <2>6, <2>8 DEF CoreOk
  <2> QED BY <2>7, <2>8
<1> QED BY <1>3, <1>4

LEMMA CoreStep ==
  ASSUME TaskInv, OnceInv(TRUE), [Next]_vars, NoRefusal
  PROVE  /\ GiveBack => GiveBack'
         /\ CoreInv /\ NoCoreRace => CoreInv'
<1>1. Mix' = Mix
  BY MixKept
<1>2. ASSUME Mix \cap Forked = {}, NEW w \in Workers
      PROVE  (BackOk(w) => BackOk(w)') /\ (CoreOk(w) /\ NoCoreRace => CoreOk(w)')
  <2>1. CASE CoresSame
    BY <2>1, SameCores, OneSame
  <2> QED BY <1>2, <2>1, CoreKinds, CoreTests, CoreSets, CoreTasks, CoreForgets, CoreAfterRun
<1>3. GiveBack' <=> (Mix \cap Forked = {} => \A w \in Workers : BackOk(w)')
  BY <1>1 DEF GiveBack
<1>4. CoreInv' <=> (Mix \cap Forked = {} => \A w \in Workers : CoreOk(w)')
  BY <1>1 DEF CoreInv
<1> QED BY <1>2, <1>3, <1>4 DEF GiveBack, CoreInv

LEMMA CoreInit == Init => GiveBack /\ CoreInv
<1> SUFFICES ASSUME Init PROVE GiveBack /\ CoreInv
  OBVIOUS
<1>1. \A x \in Actors : push[x].at = "idle"
  BY IdleGood DEF Init
<1>2. \A w \in Workers : ~Reserved(w) /\ ~immediateCoresInUse[w]
  BY DEF Init, Reserved
<1>3. \A w \in Workers : BackOk(w) /\ CoreOk(w)
  BY <1>1, <1>2 DEF BackOk, CoreOk, Reserved, Tested, Given
<1> QED BY <1>3 DEF GiveBack, CoreInv

\* A core that PushToCore reserved is given back, also where two calls race for
\* it, until a worker is refused a fiber: with no call in progress and no
\* immediate task left, none is in use.
THEOREM ReservedCoresReturn == Spec => [](NoMisses => CoresGivenBack)
<1>1. Settles /\ GiveBack => CoresGivenBack
  <2> SUFFICES ASSUME TaskInv, OnceInv(TRUE), GiveBack, Calm, Mix \cap Forked = {},
                      \A t \in Immediates : phase[t] # "live", \A w \in Workers : pc[w] # "ran",
                      NEW w \in Workers, immediateCoresInUse[w]
               PROVE  FALSE
    BY DEF CoresGivenBack, Settles
  <2>1. Reserved(w)
    BY IdleGood DEF GiveBack, BackOk, Calm, Given
  <2>2. LocalInv(w)
    BY DEF TaskInv
  <2>3. ~(pc[w] \in {"forget", "unflag"} \/ isHandlingFork[w])
    <3>1. ASSUME taskToRun[w] \in Immediates PROVE FALSE
      <4>1. taskToRun[w] \in Tasks
        BY <3>1, TaskKinds
      <4> QED BY <3>1, <4>1, HomeFound DEF OnceInv, InHand
    <3> QED BY <2>2, <3>1 DEF LocalInv
  <2>4. immediateTask[w] \in Immediates /\ immediateTask[w] \in Tasks
    BY <2>1, <2>2, <2>3, TaskKinds DEF Reserved, LocalInv
  <2> QED BY <2>3, <2>4, HomeFound DEF OnceInv, Waits
<1>2. MissInv /\ (NoMisses => Settles) /\ (NoMisses => GiveBack) /\ [Next]_vars => (NoMisses => GiveBack)'
  BY CoreStep, MissStep DEF Settles
<1> QED BY <1>1, <1>2, CoreInit, SettlesAlways, PTL DEF Spec

-----------------------------------------------------------------------------
(* The places of a task, counted.                                          *)

LEMMA OccurrencesAre ==
  ASSUME NEW S, NEW s \in Seq(S), NEW t
  PROVE  /\ ~Held(t, s) => Occurrences(t, s) = {}
         /\ Held(t, s) /\ Distinct(s) => \E i : Occurrences(t, s) = {i}
<1>1. DOMAIN s = 1 .. Len(s)
  OBVIOUS
<1>2. ~Held(t, s) => Occurrences(t, s) = {}
  BY <1>1 DEF Held, Occurrences
<1>3. ASSUME Held(t, s), Distinct(s) PROVE \E i : Occurrences(t, s) = {i}
  <2>1. PICK i \in 1 .. Len(s) : s[i] = t
    BY <1>3 DEF Held
  <2>2. \A j \in 1 .. Len(s) : s[j] = t <=> j = i
    BY <1>3, <2>1 DEF Distinct
  <2>3. Occurrences(t, s) = {i}
    BY <1>1, <2>1, <2>2 DEF Occurrences
  <2> QED BY <2>3
<1> QED BY <1>2, <1>3

LaneSpots(t, q, kind) ==
  UNION {{<<w, l, kind, i>> : i \in Occurrences(t, q[w][l])} : w \in Workers, l \in Lanes}
BatchSpots(t) == UNION {{<<w, "-", "batch", i>> : i \in Occurrences(t, batch[w])} : w \in Workers}
RunSpots(t) == {<<w, "-", "run", 0>> : w \in {v \in Workers : InHand(t, v)}}
CoreSpots(t) == {<<w, "-", "immediate", 0>> : w \in {v \in Workers : Waits(t, v)}}
CallSpots(t) == {<<x, "-", "push", 0>> : x \in {y \in Actors : Carried(t, y)}}
ParkSpots(t) == IF t \in parked THEN {<<None, "-", "parked", 0>>} ELSE {}

LEMMA PlacesSpots ==
  ASSUME NEW t
  PROVE  Places(t) = LaneSpots(t, inbox, "inbox") \cup LaneSpots(t, deque, "deque") \cup BatchSpots(t)
                     \cup RunSpots(t) \cup CoreSpots(t) \cup CallSpots(t) \cup ParkSpots(t)
<1>1. /\ LaneSpots(t, inbox, "inbox") =
           UNION {{<<w, l, "inbox", i>> : i \in Occurrences(t, inbox[w][l])} : w \in Workers, l \in Lanes}
      /\ LaneSpots(t, deque, "deque") =
           UNION {{<<w, l, "deque", i>> : i \in Occurrences(t, deque[w][l])} : w \in Workers, l \in Lanes}
      /\ BatchSpots(t) = UNION {{<<w, "-", "batch", i>> : i \in Occurrences(t, batch[w])} : w \in Workers}
  BY DEF LaneSpots, BatchSpots
<1>2. /\ RunSpots(t) = {<<w, "-", "run", 0>> : w \in {v \in Workers : taskToRun[v] = t /\ pc[v] # "ran"}}
      /\ CoreSpots(t) = {<<w, "-", "immediate", 0>> :
                           w \in {v \in Workers : immediateTask[v] = t /\ pc[v] # "forget"}}
      /\ CallSpots(t) = {<<x, "-", "push", 0>> :
                           x \in {y \in Actors : push[y].task = t /\ push[y].at \in BeforePut}}
      /\ ParkSpots(t) = IF t \in parked THEN {<<None, "-", "parked", 0>>} ELSE {}
  BY DEF RunSpots, CoreSpots, CallSpots, ParkSpots, InHand, Waits, Carried
<1> QED BY <1>1, <1>2 DEF Places

LEMMA LaneSpotsAre ==
  ASSUME NEW t, NEW q \in [Workers -> [Lanes -> Seq(Tasks)]], NEW kind,
         \A w \in Workers, m \in Lanes : Distinct(q[w][m])
  PROVE  /\ (\A w \in Workers, m \in Lanes : ~Held(t, q[w][m])) => LaneSpots(t, q, kind) = {}
         /\ \A a \in Workers, l \in Lanes :
              (\A w \in Workers, m \in Lanes : Held(t, q[w][m]) <=> (a = w /\ l = m)) =>
                \E p : LaneSpots(t, q, kind) = {p}
<1> DEFINE Spots(w, m) == {<<w, m, kind, i>> : i \in Occurrences(t, q[w][m])}
<1>1. LaneSpots(t, q, kind) = UNION {Spots(w, m) : w \in Workers, m \in Lanes}
  BY DEF LaneSpots
<1>2. \A w \in Workers, m \in Lanes : ~Held(t, q[w][m]) => Spots(w, m) = {}
  <2>1. \A w \in Workers, m \in Lanes : ~Held(t, q[w][m]) => Occurrences(t, q[w][m]) = {}
    BY OccurrencesAre
  <2> QED BY <2>1
<1>3. \A w \in Workers, m \in Lanes : Held(t, q[w][m]) => \E p : Spots(w, m) = {p}
  <2> SUFFICES ASSUME NEW w \in Workers, NEW m \in Lanes, Held(t, q[w][m]) PROVE \E p : Spots(w, m) = {p}
    OBVIOUS
  <2>1. q[w][m] \in Seq(Tasks) /\ Distinct(q[w][m])
    OBVIOUS
  <2>2. PICK i : Occurrences(t, q[w][m]) = {i}
    BY <2>1, OccurrencesAre
  <2>3. Spots(w, m) = {<<w, m, kind, i>>}
    BY <2>2
  <2> QED BY <2>3
<1> HIDE DEF Spots
<1>4. ASSUME \A w \in Workers, m \in Lanes : ~Held(t, q[w][m]) PROVE LaneSpots(t, q, kind) = {}
  BY <1>1, <1>2, <1>4
<1>5. ASSUME NEW a \in Workers, NEW l \in Lanes,
             \A w \in Workers, m \in Lanes : Held(t, q[w][m]) <=> (a = w /\ l = m)
      PROVE  \E p : LaneSpots(t, q, kind) = {p}
  <2>1. PICK p : Spots(a, l) = {p}
    BY <1>3, <1>5
  <2>2. \A w \in Workers, m \in Lanes : ~(a = w /\ l = m) => Spots(w, m) = {}
    BY <1>2, <1>5
  <2>3. \A z : z \in LaneSpots(t, q, kind) <=> \E w \in Workers, m \in Lanes : z \in Spots(w, m)
    BY <1>1
  <2>4. \A z : z \in LaneSpots(t, q, kind) <=> z = p
    <3>1. ASSUME NEW z, z \in LaneSpots(t, q, kind) PROVE z = p
      <4>1. PICK w \in Workers, m \in Lanes : z \in Spots(w, m)
        BY <2>3, <3>1
      <4>2. a = w /\ l = m
        BY <2>2, <4>1
      <4> QED BY <2>1, <4>1, <4>2
    <3>2. p \in LaneSpots(t, q, kind)
      BY <2>1, <2>3
    <3> QED BY <3>1, <3>2
  <2>5. LaneSpots(t, q, kind) = {p}
    BY <2>4
  <2> QED BY <2>5
<1> QED BY <1>4, <1>5

LEMMA BatchSpotsAre ==
  ASSUME NEW t, batch \in [Workers -> Seq(Tasks)], \A w \in Workers : Distinct(batch[w])
  PROVE  /\ (\A w \in Workers : ~Held(t, batch[w])) => BatchSpots(t) = {}
         /\ \A a \in Workers : (\A w \in Workers : Held(t, batch[w]) <=> a = w) => \E p : BatchSpots(t) = {p}
<1> DEFINE Spots(w) == {<<w, "-", "batch", i>> : i \in Occurrences(t, batch[w])}
<1>1. BatchSpots(t) = UNION {Spots(w) : w \in Workers}
  BY DEF BatchSpots
<1>2. \A w \in Workers : ~Held(t, batch[w]) => Spots(w) = {}
  <2>1. \A w \in Workers : ~Held(t, batch[w]) => Occurrences(t, batch[w]) = {}
    BY OccurrencesAre
  <2> QED BY <2>1
<1>3. \A w \in Workers : Held(t, batch[w]) => \E p : Spots(w) = {p}
  <2> SUFFICES ASSUME NEW w \in Workers, Held(t, batch[w]) PROVE \E p : Spots(w) = {p}
    OBVIOUS
  <2>1. batch[w] \in Seq(Tasks) /\ Distinct(batch[w])
    OBVIOUS
  <2>2. PICK i : Occurrences(t, batch[w]) = {i}
    BY <2>1, OccurrencesAre
  <2>3. Spots(w) = {<<w, "-", "batch", i>>}
    BY <2>2
  <2> QED BY <2>3
<1> HIDE DEF Spots
<1>4. ASSUME \A w \in Workers : ~Held(t, batch[w]) PROVE BatchSpots(t) = {}
  BY <1>1, <1>2, <1>4
<1>5. ASSUME NEW a \in Workers, \A w \in Workers : Held(t, batch[w]) <=> a = w
      PROVE  \E p : BatchSpots(t) = {p}
  <2>1. PICK p : Spots(a) = {p}
    BY <1>3, <1>5
  <2>2. \A w \in Workers : a # w => Spots(w) = {}
    BY <1>2, <1>5
  <2>3. BatchSpots(t) = {p}
    BY <1>1, <2>1, <2>2
  <2> QED BY <2>3
<1> QED BY <1>4, <1>5

LEMMA OtherSpotsAre ==
  ASSUME NEW t
  PROVE  /\ (\A w \in Workers : ~InHand(t, w)) => RunSpots(t) = {}
         /\ \A a \in Workers : (\A w \in Workers : InHand(t, w) <=> a = w) => \E p : RunSpots(t) = {p}
         /\ (\A w \in Workers : ~Waits(t, w)) => CoreSpots(t) = {}
         /\ \A a \in Workers : (\A w \in Workers : Waits(t, w) <=> a = w) => \E p : CoreSpots(t) = {p}
         /\ (\A x \in Actors : ~Carried(t, x)) => CallSpots(t) = {}
         /\ \A a \in Actors : (\A x \in Actors : Carried(t, x) <=> a = x) => \E p : CallSpots(t) = {p}
         /\ IF t \in parked THEN \E p : ParkSpots(t) = {p} ELSE ParkSpots(t) = {}
<1>1. /\ (\A w \in Workers : ~InHand(t, w)) => RunSpots(t) = {}
      /\ (\A w \in Workers : ~Waits(t, w)) => CoreSpots(t) = {}
      /\ (\A x \in Actors : ~Carried(t, x)) => CallSpots(t) = {}
  BY DEF RunSpots, CoreSpots, CallSpots
<1>2. ASSUME NEW a \in Workers, \A w \in Workers : InHand(t, w) <=> a = w PROVE RunSpots(t) = {<<a, "-", "run", 0>>}
  <2>1. {v \in Workers : InHand(t, v)} = {a}
    BY <1>2
  <2> QED BY <2>1 DEF RunSpots
<1>3. ASSUME NEW a \in Workers, \A w \in Workers : Waits(t, w) <=> a = w
      PROVE  CoreSpots(t) = {<<a, "-", "immediate", 0>>}
  <2>1. {v \in Workers : Waits(t, v)} = {a}
    BY <1>3
  <2> QED BY <2>1 DEF CoreSpots
<1>4. ASSUME NEW a \in Actors, \A x \in Actors : Carried(t, x) <=> a = x PROVE CallSpots(t) = {<<a, "-", "push", 0>>}
  <2>1. {y \in Actors : Carried(t, y)} = {a}
    BY <1>4
  <2> QED BY <2>1 DEF CallSpots
<1>5. IF t \in parked THEN \E p : ParkSpots(t) = {p} ELSE ParkSpots(t) = {}
  BY DEF ParkSpots
<1> QED BY <1>1, <1>2, <1>3, <1>4, <1>5

\* One home, one place.
LEMMA HomePlaces ==
  ASSUME TaskInv, NoTwice, NEW t, NEW k \in Kinds, NEW a \in Actors, NEW l \in Lanes, HomeIs(t, k, a, l),
         a \in Workers \/ k \in {"push", "parked", "nowhere"}
  PROVE  IF k = "nowhere" THEN Places(t) = {} ELSE \E p : Places(t) = {p}
<1>1. /\ inbox \in [Workers -> [Lanes -> Seq(Tasks)]] /\ deque \in [Workers -> [Lanes -> Seq(Tasks)]]
      /\ batch \in [Workers -> Seq(Tasks)]
  BY DEF TaskInv, TaskTypeOK
<1>2. /\ \A w \in Workers, m \in Lanes : Distinct(inbox[w][m]) /\ Distinct(deque[w][m])
      /\ \A w \in Workers : Distinct(batch[w])
  BY DEF NoTwice
<1>3. /\ k # "inbox" => LaneSpots(t, inbox, "inbox") = {}
      /\ k = "inbox" => \E p : LaneSpots(t, inbox, "inbox") = {p}
  <2>1. \A w \in Workers, m \in Lanes : Held(t, inbox[w][m]) <=> (k = "inbox" /\ a = w /\ l = m)
    BY DEF HomeIs
  <2>2. \A w \in Workers, m \in Lanes : Distinct(inbox[w][m])
    BY <1>2
  <2>3. /\ (\A w \in Workers, m \in Lanes : ~Held(t, inbox[w][m])) => LaneSpots(t, inbox, "inbox") = {}
        /\ \A b \in Workers, n \in Lanes :
             (\A w \in Workers, m \in Lanes : Held(t, inbox[w][m]) <=> (b = w /\ n = m)) =>
               \E p : LaneSpots(t, inbox, "inbox") = {p}
    BY <1>1, <2>2, LaneSpotsAre
  <2>4. ASSUME k = "inbox" PROVE \E p : LaneSpots(t, inbox, "inbox") = {p}
    <3>1. a \in Workers /\ \A w \in Workers, m \in Lanes : Held(t, inbox[w][m]) <=> (a = w /\ l = m)
      BY <2>1, <2>4
    <3> QED BY <2>3, <3>1
  <2> QED BY <2>1, <2>3, <2>4
<1>4. /\ k # "deque" => LaneSpots(t, deque, "deque") = {}
      /\ k = "deque" => \E p : LaneSpots(t, deque, "deque") = {p}
  <2>1. \A w \in Workers, m \in Lanes : Held(t, deque[w][m]) <=> (k = "deque" /\ a = w /\ l = m)
    BY DEF HomeIs
  <2>2. \A w \in Workers, m \in Lanes : Distinct(deque[w][m])
    BY <1>2
  <2>3. /\ (\A w \in Workers, m \in Lanes : ~Held(t, deque[w][m])) => LaneSpots(t, deque, "deque") = {}
        /\ \A b \in Workers, n \in Lanes :
             (\A w \in Workers, m \in Lanes : Held(t, deque[w][m]) <=> (b = w /\ n = m)) =>
               \E p : LaneSpots(t, deque, "deque") = {p}
    BY <1>1, <2>2, LaneSpotsAre
  <2>4. ASSUME k = "deque" PROVE \E p : LaneSpots(t, deque, "deque") = {p}
    <3>1. a \in Workers /\ \A w \in Workers, m \in Lanes : Held(t, deque[w][m]) <=> (a = w /\ l = m)
      BY <2>1, <2>4
    <3> QED BY <2>3, <3>1
  <2> QED BY <2>1, <2>3, <2>4
<1>5. (k # "batch" => BatchSpots(t) = {}) /\ (k = "batch" => \E p : BatchSpots(t) = {p})
  BY <1>1, <1>2, BatchSpotsAre DEF HomeIs
<1>6. (k # "run" => RunSpots(t) = {}) /\ (k = "run" => \E p : RunSpots(t) = {p})
  BY OtherSpotsAre DEF HomeIs
<1>7. (k # "immediate" => CoreSpots(t) = {}) /\ (k = "immediate" => \E p : CoreSpots(t) = {p})
  BY OtherSpotsAre DEF HomeIs
<1>8. (k # "push" => CallSpots(t) = {}) /\ (k = "push" => \E p : CallSpots(t) = {p})
  BY OtherSpotsAre DEF HomeIs
<1>9. (k # "parked" => ParkSpots(t) = {}) /\ (k = "parked" => \E p : ParkSpots(t) = {p})
  BY OtherSpotsAre DEF HomeIs
<1> QED BY <1>3, <1>4, <1>5, <1>6, <1>7, <1>8, <1>9, PlacesSpots DEF Kinds

LEMMA OncePlaces ==
  ASSUME TaskInv, NEW lost, OnceInv(lost), NEW t \in Tasks
  PROVE  /\ Places(t) = {} \/ (phase[t] = "live" /\ \E p : Places(t) = {p})
         /\ ~lost /\ phase[t] = "live" => Places(t) # {}
<1>1. PICK k \in Kinds, a \in Actors, l \in Lanes :
        /\ HomeIs(t, k, a, l) /\ (a \in Workers \/ k \in {"push", "parked", "nowhere"})
        /\ k # "nowhere" => phase[t] = "live"
        /\ ~lost => (phase[t] = "live" => k # "nowhere")
  BY DEF OnceInv, Settled
<1>2. IF k = "nowhere" THEN Places(t) = {} ELSE \E p : Places(t) = {p}
  BY <1>1, HomePlaces DEF OnceInv
<1> QED BY <1>1, <1>2

\* At most once: no task is ever in two places, and one that was refused or has
\* finished (its memory is freed) is in none.
NeverTwice ==
  \A t \in Tasks : IsFiniteSet(Places(t)) /\ Cardinality(Places(t)) <= IF phase[t] = "live" THEN 1 ELSE 0

\* Until a worker is refused a fiber no task is handed to two workers, runs
\* again after it has finished or is queued twice: through inbox, drain, deque,
\* steal, yield, park, requeue, help and PushToCore, forks and two PushToCore
\* that race included.  The condition is needed: WorkerLoopNoFiber.cfg shows
\* RunsOnce violated after one refusal.
THEOREM TasksNeverTwice == Spec => [](NoMisses => NeverTwice /\ RunsOnce)
<1>1. Settles => NeverTwice
  <2> SUFFICES ASSUME TaskInv, OnceInv(TRUE), NEW t \in Tasks
               PROVE  IsFiniteSet(Places(t)) /\ Cardinality(Places(t)) <= IF phase[t] = "live" THEN 1 ELSE 0
    BY DEF NeverTwice, Settles
  <2>1. CASE Places(t) = {}
    BY <2>1, FS_EmptySet
  <2>2. CASE phase[t] = "live" /\ \E p : Places(t) = {p}
    <3>1. IsFiniteSet(Places(t)) /\ Cardinality(Places(t)) = 1
      BY <2>2, FS_Singleton
    <3> QED BY <2>2, <3>1
  <2> QED BY <2>1, <2>2, OncePlaces
<1>2. Settles => RunsOnce
  <2> SUFFICES ASSUME TaskInv, OnceInv(TRUE), NEW w \in Workers, pc[w] = "exec"
               PROVE  /\ phase[taskToRun[w]] = "live"
                      /\ \A v \in Workers \ {w} : pc[v] = "exec" => taskToRun[v] # taskToRun[w]
    BY DEF RunsOnce, Settles
  <2>1. PICK e \in Tasks : e = taskToRun[w]
    BY DEF TaskInv, TaskTypeOK, LocalInv, HasTask, TaskOrNone
  <2>2. HomeIs(e, "run", w, "lo") /\ phase[e] = "live"
    BY <2>1, HomeFound DEF OnceInv, InHand
  <2>3. \A v \in Workers : InHand(e, v) => v = w
    BY <2>2 DEF HomeIs
  <2> QED BY <2>1, <2>2, <2>3 DEF InHand
<1> QED BY <1>1, <1>2, SettlesAlways, PTL

\* When a task cannot be lost: no two calls of PushToCore are between the test
\* and the store of the same core's immediateCoresInUse, and the program forks
\* tasks or reserves cores but not both.
Apart == NoCoreRace /\ (Mix \cap Forked = {} \/ Mix \cap Immediates = {})

LEMMA ExactStep ==
  ASSUME Settles, OnceInv(FALSE), CoreInv, Apart, [Next]_vars, NoRefusal
  PROVE  OnceInv(FALSE)' /\ CoreInv'
<1>1. ASSUME NEW x \in Actors, CoreTask(x)
      PROVE  immediateTask[push[x].to] = None /\ pc[push[x].to] # "forget"
  <2>1. PICK w \in Workers : w = push[x].to
    BY <1>1, CoreTaskEffect DEF Settles
  <2>2. push[x].at = "core_task" /\ push[x].task \in Tasks /\ push[x].task \in Immediates
    BY <1>1, CoreTaskEffect DEF Settles
  <2>3. phase[push[x].task] = "live"
    BY <2>2, HomeFound DEF OnceInv, Carried, BeforePut
  <2>4. Mix \cap Forked = {}
    BY <2>2, <2>3 DEF Apart, Mix
  <2>5. ~Reserved(w)
    BY <2>1, <2>2, <2>4 DEF CoreInv, CoreOk, Given
  <2>6. LocalInv(w)
    BY DEF Settles, TaskInv
  <2> QED BY <2>1, <2>5, <2>6 DEF Reserved, LocalInv, SeenImmediate
<1>2. OnceInv(FALSE)'
  BY <1>1, OnceStep DEF Settles
<1>3. CoreInv'
  BY CoreStep DEF Settles, Apart
<1> QED BY <1>2, <1>3

\* Exactly once: as long as the known ways to lose or copy a task are kept out,
\* an accepted task is in exactly one place until it has run to its end.
THEOREM TasksExactlyOnce == Spec /\ []Apart => [](NoMisses => EachTaskOnce)
<1>1. MissInv /\ NoMisses /\ Settles /\ OnceInv(FALSE) => EachTaskOnce
  <2> SUFFICES ASSUME TaskInv, OnceInv(FALSE), NoMisses, NEW t \in Mix
               PROVE  LET live   == IF phase[t] = "live" THEN 1 ELSE 0
                          places == Cardinality(Places(t))
                      IN  live <= places /\ places <= live + misses[t]
    BY DEF EachTaskOnce, Settles
  <2>1. t \in Tasks /\ misses[t] = 0
    BY DEF Mix, NoMisses
  <2>2. CASE Places(t) = {}
    <3>1. phase[t] # "live" /\ Cardinality(Places(t)) = 0
      BY <2>1, <2>2, OncePlaces, FS_EmptySet
    <3> QED BY <2>1, <3>1
  <2>3. CASE phase[t] = "live" /\ \E p : Places(t) = {p}
    <3>1. Cardinality(Places(t)) = 1
      BY <2>3, FS_Singleton
    <3> QED BY <2>1, <2>3, <3>1
  <2> QED BY <2>1, <2>2, <2>3, OncePlaces
<1>2. Init => OnceInv(FALSE) /\ CoreInv
  BY OnceInit, CoreInit
<1>3. /\ MissInv /\ (NoMisses => Settles) /\ (NoMisses => OnceInv(FALSE) /\ CoreInv) /\ Apart
      /\ [Next]_vars
      => (NoMisses => OnceInv(FALSE) /\ CoreInv)'
  BY ExactStep, MissStep DEF Settles
<1> QED BY <1>1, <1>2, <1>3, SettlesAlways, PTL DEF Spec

\* An inbox holds live tasks, each once.
LEMMA FewFit == Settles /\ Cardinality(Live) <= BatchSize => InboxesFit
<1> SUFFICES ASSUME Settles, Cardinality(Live) <= BatchSize, NEW w \in Workers, NEW l \in Lanes
             PROVE  Len(inbox[w][l]) <= BatchSize
  BY DEF InboxesFit
<1>1. PICK s \in Seq(Tasks) : s = inbox[w][l]
  BY DEF Settles, TaskInv, TaskTypeOK
<1>2. Distinct(s)
  BY <1>1 DEF Settles, OnceInv, NoTwice
<1>3. \A i \in 1 .. Len(s) : s[i] \in Live
  <2> SUFFICES ASSUME NEW i \in 1 .. Len(s) PROVE s[i] \in Live
    OBVIOUS
  <2>1. s[i] \in Tasks /\ Held(s[i], inbox[w][l])
    BY <1>1 DEF Held
  <2>2. phase[s[i]] = "live"
    BY <2>1, HomeFound DEF Settles, OnceInv
  <2> QED BY <2>1, <2>2 DEF Live
<1>4. s \in Injection(1 .. Len(s), Live)
  <2>1. s \in [1 .. Len(s) -> Live]
    BY <1>3
  <2> QED BY <1>2, <2>1 DEF Injection, IsInjective, Distinct
<1>5. IsFiniteSet(Live) /\ Cardinality(Live) \in Nat /\ BatchSize \in Nat /\ Len(s) \in Nat
  BY FS_CardinalityType, PoolBounds DEF Settles, CountInv
<1>6. Cardinality(1 .. Len(s)) <= Cardinality(Live)
  BY <1>4, <1>5, FS_Injection
<1>7. Cardinality(1 .. Len(s)) = Len(s)
  <2>1. PICK n \in Nat : n = Len(s)
    BY <1>5
  <2>2. Cardinality(1 .. n) = IF 1 > n THEN 0 ELSE n - 1 + 1
    BY FS_Interval
  <2>3. Cardinality(1 .. n) = n
    BY <2>2
  <2> QED BY <2>1, <2>3
<1> QED BY <1>1, <1>5, <1>6, <1>7

\* A program that never has more than BATCH_SIZE tasks at once loses no wake-up
\* while no worker is refused a fiber (a refusal queues a task twice).
THEOREM FewTasksWake == Spec /\ [](NoMisses /\ Cardinality(Live) <= BatchSize) => []NoLostWakeup
BY WorkersWake, SettlesAlways, FewFit, PTL
=============================================================================
