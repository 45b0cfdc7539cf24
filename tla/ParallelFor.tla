----------------------------- MODULE ParallelFor -----------------------------
(***************************************************************************)
(* TaskScheduler::ParallelFor, ParallelForFJ and ParallelForNB on top of   *)
(* CreateTask and the TaskAllocator.  The tasks refer to func, to the      *)
(* WaitGroup and, in the fork-join form, to the splitter itself, all in    *)
(* the caller's frame.                                                     *)
(*                                                                         *)
(* A pushed task waits in a bag for any worker, or for the caller inside   *)
(* WaitFor (TryRunStolenFastJob); how it gets there is WorkerLoop's        *)
(* subject, how a fiber waits WaitGroup's.  The calls keep end - start and *)
(* the sum with chunkSize inside an int.                                   *)
(***************************************************************************)
EXTENDS TaskAllocator

CONSTANTS
  Caller,      \* the thread that calls; the other threads are the workers
  InlineMax,   \* 10000: ranges up to this length are not split
  Scripts      \* sequences of calls: [op, start, end, chunk], op "for", "FJ" or "NB"

Workers == Threads \ {Caller}
ASSUME CallAssumption ==
  /\ Caller \in Threads /\ InlineMax \in Nat
  /\ \A s \in Scripts :
       s \in Seq([op : {"for", "FJ", "NB"}, start : Int, end : Int, chunk : Int])

VARIABLES
  theScript,\* the calls of this behaviour
  script,   \* those still to make; the first is the one in progress
  no,       \* its number
  pc,       \* of each thread
  range,    \* the range <<a, b>> a thread has in hand
  right,    \* the range for which it creates a task
  i,        \* the caller's loop variable
  own,      \* the slot of the task a thread runs
  made,     \* the slot of the task it has just created
  task,     \* of a slot: [call, a, b, split, counted]
  queued,   \* slots of the tasks that were pushed
  n,        \* WaitGroup::n of each call
  runs,     \* how often func was called for an index of a call
  lost      \* indices of chunks that were not pushed

callVars == <<theScript, script, no, pc, range, right, i, own, made, task, queued, n, runs, lost>>
vars == <<allocVars, callVars>>

Cmd == Head(script)
Chunk == Max({1, Cmd.chunk})
Total == Cmd.end - Cmd.start
NumTasks == (Total + Chunk - 1) \div Chunk
ChunkRange(k) == <<Cmd.start + k * Chunk, Min({Cmd.start + (k + 1) * Chunk, Cmd.end})>>

Calls == DOMAIN theScript
Indices == UNION {{k \in c.start .. c.end - 1 : TRUE} : c \in UNION {Range(s) : s \in Scripts}}
NoRange == <<0, 0>>
NoTask == [call |-> 0, a |-> 0, b |-> 0, split |-> FALSE, counted |-> FALSE]

Init ==
  /\ AllocInit /\ theScript \in Scripts /\ script = theScript /\ no = 1
  /\ pc = [t \in Threads |-> IF t = Caller THEN "call" ELSE "idle"]
  /\ range = [t \in Threads |-> NoRange] /\ right = range
  /\ i = 0 /\ own = [t \in Threads |-> None] /\ made = own
  /\ task = [s \in Slots |-> NoTask] /\ queued = {}
  /\ n = [c \in Calls |-> 0] /\ runs = [c \in Calls |-> [k \in Indices |-> 0]] /\ lost = {}

At(t, p) == pc' = [pc EXCEPT ![t] = p]

\* func(a, b), for the call c
Func(c, r) == runs' = [runs EXCEPT ![c] = [k \in Indices |->
                IF r[1] <= k /\ k < r[2] THEN @[k] + 1 ELSE @[k]]]
-----------------------------------------------------------------------------
(* The caller.                                                             *)

\* What the call turns into: nothing, one call of func, the loop over the
\* chunks, or the recursive splitter.
Form ==
  IF Total <= 0 THEN "return"
  ELSE IF Cmd.op = "NB" THEN "loop"
  ELSE IF Cmd.op = "for" /\ Total <= InlineMax THEN "inline"
  ELSE IF Cmd.op = "for" /\ NumTasks <= 2 * Cardinality(Workers) THEN "loop"
  ELSE IF Total <= Chunk THEN "inline" ELSE "rec"

Begin ==
  /\ pc[Caller] = "call" /\ script # << >>
  /\ At(Caller, IF Form = "inline" THEN "return" ELSE Form)
  /\ i' = IF Cmd.op = "NB" THEN 0 ELSE 1
  /\ range' = [range EXCEPT ![Caller] =
       IF Form = "loop" THEN ChunkRange(0) ELSE <<Cmd.start, Cmd.end>>]
  /\ IF Form = "inline" THEN Func(no, <<Cmd.start, Cmd.end>>) ELSE UNCHANGED runs
  /\ UNCHANGED <<allocVars, theScript, script, no, right, own, made, task, queued, n, lost>>

\* Mutant: the last chunk is not clipped to the end.
ChunkLoopUnclipped ==
  /\ pc[Caller] = "loop" /\ i < NumTasks /\ At(Caller, "alloc")
  /\ right' = [right EXCEPT ![Caller] = <<Cmd.start + i * Chunk, Cmd.start + (i + 1) * Chunk>>]
  /\ i' = i + 1
  /\ UNCHANGED <<allocVars, theScript, script, no, range, own, made, task, queued, n, runs, lost>>

\* The loop over the chunks: a task for each but, unless it does not block, the first ...
ChunkLoop ==
  /\ pc[Caller] = "loop" /\ i < NumTasks /\ At(Caller, "alloc")
  /\ right' = [right EXCEPT ![Caller] = ChunkRange(i)] /\ i' = i + 1
  /\ UNCHANGED <<allocVars, theScript, script, no, range, own, made, task, queued, n, runs, lost>>

\* ... which the caller computes itself before it waits.
ChunksDone ==
  /\ pc[Caller] = "loop" /\ i >= NumTasks
  /\ \/ Cmd.op = "NB" /\ At(Caller, "return") /\ UNCHANGED runs
     \/ Cmd.op = "for" /\ At(Caller, "wait") /\ Func(no, range[Caller])
  /\ UNCHANGED <<allocVars, theScript, script, no, range, right, i, own, made, task, queued, n,
                 lost>>

\* WaitFor returns when the counter is zero.
WaitReturns ==
  /\ pc[Caller] = "wait" /\ n[no] = 0 /\ At(Caller, "return")
  /\ UNCHANGED <<allocVars, theScript, script, no, range, right, i, own, made, task, queued, n,
                 runs, lost>>

Return ==
  /\ pc[Caller] = "return" /\ At(Caller, "call")
  /\ script' = Tail(script) /\ no' = no + 1
  /\ range' = [range EXCEPT ![Caller] = NoRange] /\ right' = [right EXCEPT ![Caller] = NoRange]
  /\ UNCHANGED <<allocVars, theScript, i, own, made, task, queued, n, runs, lost>>
-----------------------------------------------------------------------------
(* rec(a, b), by the caller and by the tasks it has spawned.  grain is the *)
(* chunk size of the call, which is still in progress then.                *)

\* Whose call a thread works for.
CallOf(t) == IF own[t] # None THEN task[own[t]].call ELSE no
Long(t) == range[t][2] - range[t][1] > Chunk

\* Mutant: the left half ends one before the middle.
SplitShort(t) ==
  LET mid == range[t][1] + (range[t][2] - range[t][1]) \div 2 IN
  /\ pc[t] = "rec" /\ Long(t) /\ At(t, "alloc")
  /\ right' = [right EXCEPT ![t] = <<mid, range[t][2]>>]
  /\ range' = [range EXCEPT ![t][2] = mid - 1]
  /\ UNCHANGED <<allocVars, theScript, script, no, i, own, made, task, queued, n, runs, lost>>

\* The right half becomes a task, the left half stays.
Split(t) ==
  LET mid == range[t][1] + (range[t][2] - range[t][1]) \div 2 IN
  /\ pc[t] = "rec" /\ Long(t) /\ At(t, "alloc")
  /\ right' = [right EXCEPT ![t] = <<mid, range[t][2]>>]
  /\ range' = [range EXCEPT ![t][2] = mid]
  /\ UNCHANGED <<allocVars, theScript, script, no, i, own, made, task, queued, n, runs, lost>>

\* A leaf, or the body of a plain chunk: func, and then the caller waits or the
\* task is finished.
Leaf(t) ==
  /\ pc[t] = "leaf" \/ (pc[t] = "rec" /\ ~Long(t))
  /\ Func(CallOf(t), range[t])
  /\ At(t, IF own[t] = None THEN "wait" ELSE "finish")
  /\ UNCHANGED <<allocVars, theScript, script, no, range, right, i, own, made, task, queued, n,
                 lost>>
-----------------------------------------------------------------------------
(* CreateTask and Push, for the range in `right`.                          *)

CreateTask(t) ==
  /\ pc[t] = "alloc"
  /\ \/ Refill(t) /\ UNCHANGED <<pc, made, task>>
     \/ \E s \in Slots :
          /\ Alloc(t, s) /\ At(t, IF Cmd.op = "NB" THEN "push" ELSE "count")
          /\ made' = [made EXCEPT ![t] = s]
          /\ task' = [task EXCEPT ![s] =
               [call |-> CallOf(t), a |-> right[t][1], b |-> right[t][2],
                split |-> Form = "rec", counted |-> Cmd.op # "NB"]]
  /\ UNCHANGED <<theScript, script, no, range, right, i, own, queued, n, runs, lost>>

\* Back to the loop the task was created in.
Resumed == IF Form = "rec" THEN "rec" ELSE "loop"

\* No slot: func on the spot.  ParallelForNB pushes null, which drops the chunk.
CreateFails(t) ==
  /\ pc[t] = "alloc" /\ Exhausted(t) /\ At(t, Resumed)
  /\ \/ Cmd.op # "NB" /\ Func(CallOf(t), right[t]) /\ UNCHANGED lost
     \/ /\ Cmd.op = "NB" /\ UNCHANGED runs
        /\ lost' = lost \cup {<<no, k>> : k \in right[t][1] .. right[t][2] - 1}
  /\ UNCHANGED <<allocVars, theScript, script, no, range, right, i, own, made, task, queued, n>>

\* waitGroup = &wg and wg.n.fetch_add(1), before the task can run ...
CountTask(t) ==
  /\ pc[t] = "count" /\ At(t, "push") /\ n' = [n EXCEPT ![CallOf(t)] = @ + 1]
  /\ UNCHANGED <<allocVars, theScript, script, no, range, right, i, own, made, task, queued,
                 runs, lost>>

\* ... and Push, the last thing that touches the task.
PushTask(t) ==
  /\ pc[t] = "push" /\ queued' = queued \cup {made[t]} /\ At(t, Resumed)
  /\ made' = [made EXCEPT ![t] = None]
  /\ UNCHANGED <<allocVars, theScript, script, no, range, right, i, own, task, n, runs, lost>>
-----------------------------------------------------------------------------
(* Running a task: a worker, or the caller while it waits.                 *)

RunTask(t, s) ==
  /\ pc[t] = IF t = Caller THEN "wait" ELSE "idle"
  /\ s \in queued /\ queued' = queued \ {s}
  /\ own' = [own EXCEPT ![t] = s] /\ range' = [range EXCEPT ![t] = <<task[s].a, task[s].b>>]
  /\ At(t, IF task[s].split THEN "rec" ELSE "leaf")
  /\ UNCHANGED <<allocVars, theScript, script, no, right, i, made, task, n, runs, lost>>

\* Mutant: the count of a finished task is not taken back.
FinishUncounted(t) ==
  /\ pc[t] = "finish" /\ At(t, "free")
  /\ UNCHANGED <<allocVars, theScript, script, no, range, right, i, own, made, task, queued, n,
                 runs, lost>>

\* The body has returned: wg.n.fetch_sub(1) ...
Finish(t) ==
  /\ pc[t] = "finish" /\ At(t, "free")
  /\ n' = IF task[own[t]].counted THEN [n EXCEPT ![task[own[t]].call] = @ - 1] ELSE n
  /\ UNCHANGED <<allocVars, theScript, script, no, range, right, i, own, made, task, queued,
                 runs, lost>>

\* ... and the slot goes back.
FreeTask(t) ==
  /\ \/ /\ pc[t] = "free" /\ Free(t, own[t])
        /\ task' = [task EXCEPT ![own[t]] = NoTask]
        /\ own' = [own EXCEPT ![t] = None] /\ range' = [range EXCEPT ![t] = NoRange]
        /\ right' = [right EXCEPT ![t] = NoRange]
        /\ At(t, IF peeled'[t] # << >> THEN "splice" ELSE IF t = Caller THEN "wait" ELSE "idle")
     \/ /\ pc[t] = "splice" /\ Splice(t) /\ At(t, IF t = Caller THEN "wait" ELSE "idle")
        /\ UNCHANGED <<task, own, range, right>>
  /\ UNCHANGED <<theScript, script, no, i, made, queued, n, runs, lost>>

Step(t) ==
  \/ Split(t) \/ Leaf(t) \/ CreateTask(t) \/ CreateFails(t) \/ CountTask(t) \/ PushTask(t)
  \/ (\E s \in queued : RunTask(t, s)) \/ Finish(t) \/ FreeTask(t)

CallerStep == Begin \/ ChunkLoop \/ ChunksDone \/ WaitReturns \/ Return

Next == CallerStep \/ \E t \in Threads : Step(t)
Spec ==
  /\ Init /\ [][Next]_vars
  /\ WF_vars(CallerStep \/ Step(Caller)) /\ \A t \in Workers : WF_vars(Step(t))
-----------------------------------------------------------------------------
(* Properties.                                                             *)

\* Nothing of a call is left to do for a task: no slot holds one of its tasks
\* that may still touch the caller's frame (it has not been counted down yet).
Busy(c) ==
  \/ \E s \in queued : task[s].call = c
  \/ \E t \in Threads : own[t] # None /\ task[own[t]].call = c /\ pc[t] # "free"

\* A blocking call has returned only when func has run exactly once for every
\* index of its range, and no task can use the frame that is gone.
ReturnsComplete ==
  pc[Caller] = "return" /\ Cmd.op # "NB" =>
    /\ \A k \in Indices : runs[no][k] = IF k \in Cmd.start .. Cmd.end - 1 THEN 1 ELSE 0
    /\ ~Busy(no)

\* A slot is on one free list, once, or holds a task that is created, queued
\* or running: never two of them, never none.  liveCount counts the latter.
UsePlaces(s) ==
  {<<"queue", None, 0>> : x \in {s} \cap queued}
  \cup {<<"own", t, 0>> : t \in {x \in Threads : own[x] = s}}
  \cup {<<"made", t, 0>> : t \in {x \in Threads : made[x] = s}}
SlotOwnedOnce ==
  /\ \A s \in Slots :
       \E p \in FreePlaces(s) \cup UsePlaces(s) : FreePlaces(s) \cup UsePlaces(s) = {p}
  /\ liveCount = Cardinality({s \in Slots : UsePlaces(s) # {}})

\* Every call returns, also when tasks of it could not be created, and in the
\* end every index was run exactly once, except those of a dropped chunk, and
\* every slot is free again.
InCall(c, k) == k \in theScript[c].start .. theScript[c].end - 1
Completes ==
  <>[](/\ script = << >> /\ liveCount = 0
       /\ \A c \in DOMAIN theScript, k \in Indices :
            runs[c][k] = IF InCall(c, k) /\ <<c, k>> \notin lost THEN 1 ELSE 0)
=============================================================================
