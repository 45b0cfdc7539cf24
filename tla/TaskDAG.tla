------------------------------- MODULE TaskDAG -------------------------------
(***************************************************************************)
(* TaskDAG and TaskNode: one thread builds a graph and submits it; a node  *)
(* fires when all (AND) or the first (OR) of its predecessors have         *)
(* finished, and whoever makes it fire pushes its task, or, for a gate,    *)
(* goes on to its dependents at once.  A finished node is retired through  *)
(* the EpochManager, because the dependents lists of others may name it.   *)
(*                                                                         *)
(* A dependents list does not change after Submit, so it is the set of     *)
(* edges here (LockFreeList models the list itself).  A thread that runs   *)
(* a task stands for the fiber or worker that executes it.                 *)
(***************************************************************************)
EXTENDS Epochs, FiniteSets

CONSTANTS
  Nodes,      \* slots for nodes: 1 .. n, taken in this order
  Main,       \* the thread that builds, submits and drains the main queue
  None,
  Kinds,      \* what is created, a sequence: "task", "main", "AND", "OR" (gates), "priority"
  MaxEdges,   \* bound on AddDependency calls
  ReclaimWithOr  \* whether more than 512 nodes can be retired while the graph has
                 \* an OR gate with several predecessors; below nothing is freed

ASSUME DagAssumption ==
  /\ Main \in Threads /\ None \notin Nodes /\ Nodes \subseteq Nat
  /\ MaxEdges \in Nat /\ ReclaimWithOr \in BOOLEAN

VARIABLES
  phase,      \* "build", then what Submit returns: "submitted" or "rejected"
  kind,       \* TaskNode::isMain, isGate, gateType, isLocal
  edges,      \* <<dependency, dependent>>: the dependents lists
  calls,      \* AddDependency calls made, for the bound
  dependencies_left,
  submitted,  \* nodes whose `submitted` flag is set
  queue,      \* tasks in the workers' queues
  mainQ,
  freed,      \* nodes whose slot went back to the allocator
  pc, stack,  \* per thread: its calls of OnTaskFinished, innermost last
  dep,        \* the node it is about to run or to fire
  epoch,      \* the epoch it has read and not used yet
  runs        \* how often the task of a node has run

graph == <<phase, kind, edges, calls>>
locals == <<pc, stack, dep, epoch>>
dagVars == <<graph, dependencies_left, submitted, queue, mainQ, freed, locals, runs>>
vars == <<epochVars, dagVars>>

created == DOMAIN kind
Preds(n) == {e[1] : e \in {d \in edges : d[2] = n}}
Dependents(n) == {e[2] : e \in {d \in edges : d[1] = n}}
IsGate(n) == kind[n] \in {"AND", "OR"}

DagInit ==
  /\ EpochInit
  /\ phase = "build" /\ kind = << >> /\ edges = {} /\ calls = 0
  /\ dependencies_left = [n \in Nodes |-> 0] /\ submitted = {}
  /\ queue = {} /\ mainQ = << >> /\ freed = {}
  /\ pc = [t \in Threads |-> "idle"] /\ stack = [t \in Threads |-> << >>]
  /\ dep = [t \in Threads |-> None] /\ epoch = [t \in Threads |-> 0]
  /\ runs = [n \in Nodes |-> 0]

At(t, p) == pc' = [pc EXCEPT ![t] = p]
Top(t) == stack[t][Len(stack[t])]
\* A call of OnTaskFinished (or, with node None, Submit's loop over the roots).
Call(t, n, todo) == stack' = [stack EXCEPT ![t] = Append(@, [node |-> n, todo |-> todo])]
-----------------------------------------------------------------------------
(* Building the graph, on one thread.                                      *)

\* CreateNode, CreateMainNode and CreateGate.  Nothing depends on the slot of a
\* node, so the nodes are created in the order of Kinds.
CreateNode(i) ==
  /\ phase = "build" /\ Len(kind) + 1 \in Nodes
  /\ \A n \in created : kind[n] \in {Kinds[j] : j \in 1 .. i}
  /\ kind' = Append(kind, Kinds[i])
  /\ UNCHANGED <<epochVars, phase, edges, calls, dependencies_left, submitted, queue, mainQ,
                 freed, locals, runs>>

\* The list refuses a dependent it holds already, the counter does not.
AddDependency(dependent, dependency) ==
  /\ phase = "build" /\ calls < MaxEdges
  /\ dependencies_left' = [dependencies_left EXCEPT ![dependent] = @ + 1]
  /\ edges' = edges \cup {<<dependency, dependent>>} /\ calls' = calls + 1
  /\ UNCHANGED <<epochVars, phase, kind, submitted, queue, mainQ, freed, locals, runs>>

\* Kahn's algorithm: the nodes processed after k rounds.
Drained[k \in Nat] ==
  IF k = 0 THEN {}
  ELSE {n \in created : dependencies_left[n] = Cardinality(Preds(n) \cap Drained[k - 1])}

\* Mutant: a graph is taken to be acyclic as soon as it has a root.
HasNoRoot == \A n \in created : dependencies_left[n] # 0

HasCycle == Drained[Cardinality(created)] # created

\* A graph with a cycle is thrown away at once, nodes and tasks.
SubmitRejects ==
  /\ phase = "build" /\ created # {} /\ HasCycle
  /\ phase' = "rejected" /\ freed' = created
  /\ UNCHANGED <<epochVars, kind, edges, calls, dependencies_left, submitted, queue, mainQ,
                 locals, runs>>

\* Mutant: the roots are the nodes that no edge enters, or an OR gate.
SubmitFiresOr ==
  /\ phase = "build" /\ created # {} /\ ~HasCycle
  /\ phase' = "submitted"
  /\ Call(Main, None, {n \in created : dependencies_left[n] = 0 \/ kind[n] = "OR"})
  /\ At(Main, "each")
  /\ UNCHANGED <<epochVars, kind, edges, calls, dependencies_left, submitted, queue, mainQ,
                 freed, dep, epoch, runs>>

\* Otherwise the roots are collected before the first of them is fired.
Submit ==
  /\ phase = "build" /\ created # {} /\ ~HasCycle
  /\ phase' = "submitted"
  /\ Call(Main, None, {n \in created : dependencies_left[n] = 0}) /\ At(Main, "each")
  /\ UNCHANGED <<epochVars, kind, edges, calls, dependencies_left, submitted, queue, mainQ,
                 freed, dep, epoch, runs>>
-----------------------------------------------------------------------------
(* Running a task: OnTaskFinishedWrapper.                                  *)

TakeTask(t) ==
  /\ t # Main /\ pc[t] = "idle" /\ tick[t] = "no"
  /\ \E n \in queue : queue' = queue \ {n} /\ dep' = [dep EXCEPT ![t] = n]
  /\ At(t, "run")
  /\ UNCHANGED <<epochVars, graph, dependencies_left, submitted, mainQ, freed, stack, epoch, runs>>

\* ProcessMainThread, once Submit has returned.
TakeMain ==
  /\ pc[Main] = "idle" /\ mainQ # << >> /\ tick[Main] = "no"
  /\ mainQ' = Tail(mainQ) /\ dep' = [dep EXCEPT ![Main] = Head(mainQ)] /\ At(Main, "run")
  /\ UNCHANGED <<epochVars, graph, dependencies_left, submitted, queue, freed, stack, epoch, runs>>

\* origFn(origData), then OnTaskFinished(node)
RunTask(t) ==
  /\ pc[t] = "run" /\ runs' = [runs EXCEPT ![dep[t]] = @ + 1]
  /\ Call(t, dep[t], Dependents(dep[t])) /\ At(t, "guard")
  /\ UNCHANGED <<epochVars, graph, dependencies_left, submitted, queue, mainQ, freed, dep, epoch>>
-----------------------------------------------------------------------------
(* OnTaskFinished: for_each over the dependents, inside an EpochGuard.     *)

ReadEpoch(t) ==
  /\ pc[t] = "guard" /\ epoch' = [epoch EXCEPT ![t] = globalEpoch] /\ At(t, "enter")
  /\ UNCHANGED <<epochVars, graph, dependencies_left, submitted, queue, mainQ, freed, stack, dep, runs>>

EnterGuard(t) ==
  /\ pc[t] = "enter" /\ Enter(t, epoch[t]) /\ At(t, "each")
  /\ UNCHANGED <<globalEpoch, incoming, pending, tick, toScan, minEpoch, graph,
                 dependencies_left, submitted, queue, mainQ, freed, stack, dep, epoch, runs>>

\* Mutant: an AND is ready with its first predecessor, as an OR is.
VisitFiresFirst(t) ==
  /\ pc[t] = "each"
  /\ \E n \in Top(t).todo :
       /\ stack' = [stack EXCEPT ![t][Len(stack[t])].todo = @ \ {n}]
       /\ dep' = [dep EXCEPT ![t] = n] /\ At(t, "fire")
  /\ UNCHANGED <<epochVars, graph, dependencies_left, submitted, queue, mainQ, freed, epoch, runs>>

\* Mutant: the value before the fetch_sub is compared with zero.
VisitComparesOld(t) ==
  /\ pc[t] = "each"
  /\ \E n \in Top(t).todo :
       /\ stack' = [stack EXCEPT ![t][Len(stack[t])].todo = @ \ {n}]
       /\ dep' = [dep EXCEPT ![t] = n]
       /\ dependencies_left' = [dependencies_left EXCEPT ![n] = @ - 1]
       /\ At(t, IF kind[n] = "OR" \/ dependencies_left[n] = 0 THEN "fire" ELSE "each")
  /\ UNCHANGED <<epochVars, graph, submitted, queue, mainQ, freed, epoch, runs>>

\* The next dependent: an OR is ready with its first predecessor, an AND when
\* its counter gets to zero; a root is.
Visit(t) ==
  /\ pc[t] = "each"
  /\ \E n \in Top(t).todo :
       /\ stack' = [stack EXCEPT ![t][Len(stack[t])].todo = @ \ {n}]
       /\ dep' = [dep EXCEPT ![t] = n]
       /\ \/ /\ (Top(t).node = None \/ kind[n] = "OR") /\ At(t, "fire")
             /\ UNCHANGED dependencies_left
          \/ /\ Top(t).node # None /\ kind[n] # "OR"
             /\ dependencies_left' = [dependencies_left EXCEPT ![n] = @ - 1]
             /\ At(t, IF dependencies_left[n] = 1 THEN "fire" ELSE "each")
  /\ UNCHANGED <<epochVars, graph, submitted, queue, mainQ, freed, epoch, runs>>

\* Mutant: without the exchange of `submitted`.
FireAgain(t) ==
  /\ pc[t] = "fire" /\ submitted' = submitted \cup {dep[t]}
  /\ \/ /\ IsGate(dep[t]) /\ Call(t, dep[t], Dependents(dep[t])) /\ At(t, "guard")
        /\ UNCHANGED <<queue, mainQ>>
     \/ /\ kind[dep[t]] = "main" /\ mainQ' = Append(mainQ, dep[t]) /\ At(t, "each")
        /\ UNCHANGED <<queue, stack>>
     \/ /\ kind[dep[t]] = "task" /\ queue' = queue \cup {dep[t]} /\ At(t, "each")
        /\ UNCHANGED <<mainQ, stack>>
  /\ UNCHANGED <<epochVars, graph, dependencies_left, freed, dep, epoch, runs>>

\* Fire: the exchange of `submitted`, and then by the kind of node.  A node
\* that was created with a priority is not local and goes nowhere.
Fire(t) ==
  /\ pc[t] = "fire" /\ submitted' = submitted \cup {dep[t]}
  /\ \/ /\ dep[t] \in submitted \/ kind[dep[t]] = "priority"
        /\ At(t, "each") /\ UNCHANGED <<queue, mainQ, stack>>
     \/ /\ dep[t] \notin submitted /\ IsGate(dep[t])
        /\ Call(t, dep[t], Dependents(dep[t])) /\ At(t, "guard") /\ UNCHANGED <<queue, mainQ>>
     \/ /\ dep[t] \notin submitted /\ kind[dep[t]] = "main"
        /\ mainQ' = Append(mainQ, dep[t]) /\ At(t, "each") /\ UNCHANGED <<queue, stack>>
     \/ /\ dep[t] \notin submitted /\ kind[dep[t]] = "task"
        /\ queue' = queue \cup {dep[t]} /\ At(t, "each") /\ UNCHANGED <<mainQ, stack>>
  /\ UNCHANGED <<epochVars, graph, dependencies_left, freed, dep, epoch, runs>>

\* The end of for_each leaves the guard, also that of an outer for_each.
LeaveGuard(t) ==
  /\ pc[t] = "each" /\ Top(t).todo = {} /\ Top(t).node # None
  /\ Leave(t) /\ At(t, "stamp")
  /\ UNCHANGED <<globalEpoch, incoming, pending, tick, toScan, minEpoch, graph,
                 dependencies_left, submitted, queue, mainQ, freed, stack, dep, epoch, runs>>

ReadRetireEpoch(t) ==
  /\ pc[t] = "stamp" /\ epoch' = [epoch EXCEPT ![t] = globalEpoch] /\ At(t, "retire")
  /\ UNCHANGED <<epochVars, graph, dependencies_left, submitted, queue, mainQ, freed, stack, dep, runs>>

\* Back to the for_each that fired the gate, or the task is finished.
Pop(t) ==
  /\ stack' = [stack EXCEPT ![t] = Front(@)]
  /\ dep' = [dep EXCEPT ![t] = None] /\ epoch' = [epoch EXCEPT ![t] = 0]
  /\ At(t, IF Len(stack[t]) = 1 THEN "idle" ELSE "each")

Retire(t) ==
  /\ pc[t] = "retire" /\ RetirePtr(Top(t).node, epoch[t]) /\ Pop(t)
  /\ UNCHANGED <<globalEpoch, localEpoch, pending, tick, toScan, minEpoch, graph,
                 dependencies_left, submitted, queue, mainQ, freed, runs>>

SubmitReturns ==
  /\ pc[Main] = "each" /\ Top(Main).node = None /\ Top(Main).todo = {} /\ Pop(Main)
  /\ UNCHANGED <<epochVars, graph, dependencies_left, submitted, queue, mainQ, freed, runs>>

\* A worker calls Tick between two tasks; NodeDeleter frees the node.
TickBetween(t) ==
  /\ t # Main /\ pc[t] = "idle"
  /\ ReclaimWithOr \/ \A n \in created : kind[n] = "OR" => Cardinality(Preds(n)) <= 1
  /\ \/ TickStep(t) /\ UNCHANGED dagVars
     \/ /\ Reclaim(t) /\ freed' = freed \cup Reclaimable
        /\ UNCHANGED <<graph, dependencies_left, submitted, queue, mainQ, locals, runs>>
-----------------------------------------------------------------------------
Build ==
  \/ \E i \in DOMAIN Kinds : CreateNode(i)
  \/ \E n, m \in created : AddDependency(n, m)
  \/ SubmitRejects \/ Submit

ThreadStep(t) ==
  \/ TakeTask(t) \/ RunTask(t) \/ ReadEpoch(t) \/ EnterGuard(t) \/ Visit(t) \/ Fire(t)
  \/ LeaveGuard(t) \/ ReadRetireEpoch(t) \/ Retire(t) \/ TickBetween(t)

Next ==
  \/ Build
  \/ \E t \in Threads : ThreadStep(t)
  \/ TakeMain \/ SubmitReturns

\* Threads keep running, and the main thread drains its queue (WaitForMain).
Spec ==
  /\ DagInit /\ [][Next]_vars
  /\ \A t \in Threads : WF_vars(ThreadStep(t))
  /\ WF_vars(TakeMain \/ SubmitReturns)
-----------------------------------------------------------------------------
(* Properties.                                                             *)

\* Submit accepts exactly the graphs that have a topological order and no edge
\* that was added twice (such an edge is counted twice and finished once).
SubmitVerdict ==
  LET sortable == \E rank \in [created -> 1 .. Cardinality(created)] :
                     \A e \in edges : rank[e[1]] < rank[e[2]]
  IN  /\ phase = "submitted" => sortable /\ calls = Cardinality(edges)
      /\ phase = "rejected" => ~sortable \/ calls > Cardinality(edges)

\* A task has run, a gate has fired.
Finished(n) == IF IsGate(n) THEN n \in submitted ELSE runs[n] > 0
\* However the completions interleave, an AND waits for all its predecessors
\* and an OR for one of them.
FiresInOrder ==
  \A n \in submitted :
    IF kind[n] = "OR" THEN Preds(n) = {} \/ \E p \in Preds(n) : Finished(p)
    ELSE \A p \in Preds(n) : Finished(p)

\* A node runs once and is retired once, although several predecessors may
\* find it ready at the same time.
OnceEach ==
  \A n \in created :
    /\ runs[n] <= 1
    /\ Cardinality({i \in 1 .. Len(incoming \o pending) : (incoming \o pending)[i].ptr = n}) <= 1
    /\ n \in freed => n \notin RetiredPtrs

\* No thread gets hold of a node that was freed: neither the node it runs, nor
\* one that it is about to visit or to fire.
NoUseAfterFree ==
  \A t \in Threads :
    /\ dep[t] # None /\ pc[t] \in {"run", "fire"} => dep[t] \notin freed
    /\ \A i \in 1 .. Len(stack[t]) :
         stack[t][i].node \notin freed /\ stack[t][i].todo \cap freed = {}

\* Every node of an accepted graph fires, and every task runs.
EverythingRuns == phase = "submitted" ~> \A n \in created : Finished(n)
=============================================================================
