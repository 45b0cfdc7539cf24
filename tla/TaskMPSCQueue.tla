---------------------------- MODULE TaskMPSCQueue ----------------------------
(***************************************************************************)
(* TaskMPSCQueue.h: the intrusive Vyukov queue behind every worker inbox   *)
(* and the main-thread queue.  Any thread pushes, one consumer pops.  A    *)
(* push first exchanges head_ and only then links its predecessor, so the  *)
(* list is broken between the two steps and the consumer may find the rest *)
(* of the queue unreachable.                                               *)
(*                                                                         *)
(* order and overlap are history variables: the tasks pushed and not yet   *)
(* popped, in the order of the exchanges, and whether a push was under way *)
(* at some time during the current pop.                                    *)
(***************************************************************************)
EXTENDS Integers, Sequences, SequencesExt

CONSTANTS
  Items,       \* the tasks, linked through Task::next
  Producers,   \* threads that push
  MaxChain,    \* longest chain handed to push_batch
  MaxPushes,   \* bound on the number of pushes explored
  Stub,        \* stub_
  Null         \* nullptr

ASSUME NodesAssumption == Stub \notin Items /\ Null \notin Items \cup {Stub}
ASSUME PushBounds == MaxChain \in Nat \ {0} /\ MaxPushes \in Nat

VARIABLES
  head,      \* head_, exchanged by producers and by the consumer
  tail,      \* tail_, the consumer's own
  next,      \* Task::next of every node
  owned,     \* tasks owned by a caller
  ppc, pprev, pfirst,    \* producers: control, predecessor, first of chain
  cpc, cnext, cprev,     \* consumer: control, next loaded, append's prev
  pushes, order, overlap

queueVars == <<head, tail, next, owned, ppc, pprev, pfirst, cpc, cnext, cprev,
               pushes, order, overlap>>
producerVars == <<ppc, pprev, pfirst, pushes>>

Nodes == Items \cup {Stub}

\* init(): the stub is the only node.
QueueInit ==
  /\ head = Stub /\ tail = Stub
  /\ next = [n \in Nodes |-> Null]
  /\ owned = Items
  /\ ppc = [p \in Producers |-> "idle"]
  /\ pprev = [p \in Producers |-> Null] /\ pfirst = [p \in Producers |-> Null]
  /\ cpc = "idle" /\ cnext = Null /\ cprev = Null
  /\ pushes = 0 /\ order = << >> /\ overlap = FALSE
-----------------------------------------------------------------------------
Chains(S) ==
  {s \in UNION {[1 .. n -> S] : n \in 1 .. MaxChain} : IsInjective(s)}

\* The next pointers after items were linked into a chain (TaskScheduler's
\* PushBatch does that, a single push has a chain of one).  The nodes are
\* private to the caller until the exchange, so the stores need no step of
\* their own.
Linked(items) ==
  [n \in Nodes |-> IF \E i \in 1 .. Len(items) - 1 : items[i] = n
                   THEN items[(CHOOSE i \in 1 .. Len(items) - 1 : items[i] = n) + 1]
                   ELSE IF n = Last(items) THEN Null ELSE next[n]]

\* push / push_batch up to  prev = head_.exchange(last)
PushExchange(p, items) ==
  /\ ppc[p] = "idle" /\ pushes < MaxPushes
  /\ next' = Linked(items)
  /\ head' = Last(items)
  /\ pprev' = [pprev EXCEPT ![p] = head]
  /\ pfirst' = [pfirst EXCEPT ![p] = items[1]]
  /\ ppc' = [ppc EXCEPT ![p] = "link"]
  /\ owned' = owned \ Range(items)
  /\ order' = order \o items
  /\ overlap' = TRUE /\ pushes' = pushes + 1
  /\ UNCHANGED <<tail, cpc, cnext, cprev>>

\* Mutant: the predecessor is linked to the end of the chain.
PushLinkLast(p) ==
  /\ ppc[p] = "link"
  /\ next' = [next EXCEPT ![pprev[p]] = head]
  /\ ppc' = [ppc EXCEPT ![p] = "idle"]
  /\ UNCHANGED <<head, tail, owned, pprev, pfirst, pushes, cpc, cnext, cprev,
                 order, overlap>>

\* prev->next.store(first)
PushLink(p) ==
  /\ ppc[p] = "link"
  /\ next' = [next EXCEPT ![pprev[p]] = pfirst[p]]
  /\ ppc' = [ppc EXCEPT ![p] = "idle"]
  /\ UNCHANGED <<head, tail, owned, pprev, pfirst, pushes, cpc, cnext, cprev,
                 order, overlap>>

Producer(p) == PushLink(p) \/ \E items \in Chains(owned) : PushExchange(p, items)
-----------------------------------------------------------------------------
InFlight == \E p \in Producers : ppc[p] = "link"

\* Mutant: a stub at the tail is taken for an empty queue.
PopLoadStubIsEmpty ==
  /\ cpc = "idle"
  /\ cpc' = IF tail # Stub THEN "test" ELSE "false"
  /\ cnext' = next[tail]
  /\ overlap' = InFlight
  /\ UNCHANGED <<head, tail, next, owned, producerVars, cprev, order>>

\* Load tail_->next.  A stub at the tail is skipped, or the queue is empty.
PopLoad ==
  /\ cpc = "idle"
  /\ cpc' = IF tail # Stub THEN "test"
            ELSE IF next[tail] = Null THEN "false" ELSE "reload"
  /\ tail' = IF tail = Stub /\ next[tail] # Null THEN next[tail] ELSE tail
  /\ cnext' = next[tail]
  /\ overlap' = InFlight
  /\ UNCHANGED <<head, next, owned, producerVars, cprev, order>>

PopReload ==
  /\ cpc = "reload"
  /\ cnext' = next[tail] /\ cpc' = "test"
  /\ UNCHANGED <<head, tail, next, owned, producerVars, cprev, order, overlap>>

\* A successor is known: the tail leaves the queue.
PopFront ==
  /\ cpc = "test" /\ cnext # Null
  /\ tail' = cnext
  /\ owned' = owned \cup {tail}
  /\ order' = SubSeq(order, 2, Len(order))
  /\ cpc' = "idle"
  /\ UNCHANGED <<head, next, producerVars, cnext, cprev, overlap>>

\* No successor: give up if another node was exchanged in behind the tail.
PopCheckHead ==
  /\ cpc = "test" /\ cnext = Null
  /\ cpc' = IF tail # head THEN "false" ELSE "stub"
  /\ UNCHANGED <<head, tail, next, owned, producerVars, cnext, cprev, order, overlap>>

\* append(stub_): the exchange ...
PopStub ==
  /\ cpc = "stub"
  /\ next' = [next EXCEPT ![Stub] = Null]
  /\ cprev' = head /\ head' = Stub
  /\ cpc' = "stublink"
  /\ UNCHANGED <<tail, owned, producerVars, cnext, order, overlap>>

\* Mutant: append forgets the link of the stub.
PopStubUnlinked ==
  /\ cpc = "stublink"
  /\ cpc' = "last"
  /\ UNCHANGED <<head, tail, next, owned, producerVars, cnext, cprev, order, overlap>>

\* ... and the link of its predecessor.
PopStubLink ==
  /\ cpc = "stublink"
  /\ next' = [next EXCEPT ![cprev] = Stub]
  /\ cpc' = "last"
  /\ UNCHANGED <<head, tail, owned, producerVars, cnext, cprev, order, overlap>>

\* The last look at tail->next.
PopLast ==
  /\ cpc = "last"
  /\ cnext' = next[tail]
  /\ cpc' = IF next[tail] # Null THEN "test" ELSE "false"
  /\ UNCHANGED <<head, tail, next, owned, producerVars, cprev, order, overlap>>

\* return false
PopFalse ==
  /\ cpc = "false"
  /\ cpc' = "idle"
  /\ UNCHANGED <<head, tail, next, owned, producerVars, cnext, cprev, order, overlap>>

Consumer ==
  \/ PopLoad \/ PopReload \/ PopFront \/ PopCheckHead
  \/ PopStub \/ PopStubLink \/ PopLast \/ PopFalse

QueueNext == Consumer \/ \E p \in Producers : Producer(p)

\* The owner calls pop in every pass of its loop; a thread that has exchanged
\* head_ goes on to the link.
QueueSpec ==
  /\ QueueInit /\ [][QueueNext]_queueVars
  /\ WF_queueVars(Consumer)
  /\ \A p \in Producers : WF_queueVars(PushLink(p))
-----------------------------------------------------------------------------
(* Properties.                                                             *)

QueueTypeOK ==
  /\ head \in Nodes /\ tail \in Nodes
  /\ next \in [Nodes -> Nodes \cup {Null}]
  /\ owned \subseteq Items
  /\ ppc \in [Producers -> {"idle", "link"}]
  /\ pprev \in [Producers -> Nodes \cup {Null}]
  /\ pfirst \in [Producers -> Nodes \cup {Null}]
  /\ cpc \in {"idle", "reload", "test", "stub", "stublink", "last", "false"}
  /\ cnext \in Nodes \cup {Null} /\ cprev \in Nodes \cup {Null}
  /\ pushes \in 0 .. MaxPushes
  /\ order \in Seq(Items) /\ overlap \in BOOLEAN

\* A pop that succeeds returns the oldest task in the order in which the
\* pushes exchanged head_: nothing is skipped, reordered or returned twice.
PopReturnsFront ==
  cpc = "test" /\ cnext # Null => order # << >> /\ tail = Head(order)

\* pop answers "empty" while completed pushes are queued only if some push
\* overlapped the call.  That push still has its MarkQueuedWork and
\* NotifyWorker to come, so the owner may go to sleep on the answer.
EmptyIsHonest == cpc = "false" => order = << >> \/ overlap

\* Whatever was pushed is popped: a gap left by a slow producer closes and the
\* tasks behind it come out.
EverythingPopped ==
  \A t \in Items : t \in Range(order) ~> t \notin Range(order)
=============================================================================
