----------------------------- MODULE PoolProofs -----------------------------
(***************************************************************************)
(* Proofs about the pools.  First ParallelFor and the TaskAllocator under  *)
(* it: a blocking call returns when func has run exactly once for every    *)
(* index, and every slot is always in exactly one place.  Then StartPool   *)
(* and the FiberPool under it: every thread has its epoch slot, the        *)
(* topology is the machine's, a fiber is always in exactly one place, and  *)
(* AcquireFiber gives up only when the others have them all.               *)
(***************************************************************************)
EXTENDS ParallelFor, StartPool, SequenceTheorems, FunctionTheorems, FiniteSetTheorems,
        WellFoundedInduction, TLAPS

CallRecords == [op : {"for", "FJ", "NB"}, start : Int, end : Int, chunk : Int]
Pcs == {"call", "idle", "return", "loop", "rec", "wait", "alloc", "count", "push", "leaf",
        "finish", "free", "splice"}
TaskRecords == [call : Nat, a : Int, b : Int, split : BOOLEAN, counted : BOOLEAN]

SlotTypeOK ==
  /\ shared \in Seq(Slots) /\ cache \in [Threads -> Seq(Slots)]
  /\ peeled \in [Threads -> Seq(Slots)] /\ liveCount \in Int
  /\ own \in [Threads -> Slots \cup {None}] /\ made \in [Threads -> Slots \cup {None}]
  /\ queued \subseteq Slots

CallTypeOK ==
  /\ SlotTypeOK
  /\ theScript \in Seq(CallRecords) /\ script \in Seq(CallRecords)
  /\ no \in Nat \ {0} /\ no + Len(script) = Len(theScript) + 1
  /\ pc \in [Threads -> Pcs]
  /\ range \in [Threads -> Int \X Int] /\ right \in [Threads -> Int \X Int] /\ i \in Nat
  /\ task \in [Slots -> TaskRecords]
  /\ n \in [Calls -> Int] /\ runs \in [Calls -> [Indices -> Int]]
-----------------------------------------------------------------------------
(* Slots.                                                                  *)

\* The free lists by name: the shared one, the caches, the chains peeled off.
ListIds == {<<"shared", None>>} \cup ({"cache", "peeled"} \X Threads)
FreeLists == [x \in ListIds |-> IF x[1] = "shared" THEN shared
                                ELSE IF x[1] = "cache" THEN cache[x[2]] ELSE peeled[x[2]]]

\* No slot is twice in a list, or in two lists.
Apart(lists) ==
  \A x, y \in ListIds : \A j \in 1 .. Len(lists[x]), k \in 1 .. Len(lists[y]) :
     lists[x][j] = lists[y][k] => x = y /\ j = k
Names(lists, s) == \E x \in ListIds : \E j \in 1 .. Len(lists[x]) : lists[x][j] = s

InUse(s) ==
  s \in queued \/ (\E t \in Threads : own[t] = s) \/ (\E t \in Threads : made[t] = s)

\* A task has one place too.
UsesApart ==
  /\ \A t \in Threads : own[t] \notin queued /\ made[t] \notin queued
  /\ \A t, u \in Threads : own[t] # None => own[t] # made[u]
  /\ \A t, u \in Threads : own[t] # None /\ own[t] = own[u] => t = u
  /\ \A t, u \in Threads : made[t] # None /\ made[t] = made[u] => t = u

SlotInv ==
  /\ Apart(FreeLists) /\ UsesApart
  /\ \A s \in Slots : Names(FreeLists, s) <=> ~ InUse(s)
  /\ liveCount = Cardinality({s \in Slots : InUse(s)})
-----------------------------------------------------------------------------
(* Control.                                                                *)

Creating(t) == pc[t] \in {"alloc", "count", "push"}

\* What a thread has in hand at each point.
ThreadInv(t) ==
  /\ made[t] # None <=> pc[t] \in {"count", "push"}
  /\ own[t] # None => pc[t] \in {"rec", "leaf", "alloc", "count", "push", "finish", "free"}
  /\ pc[t] \in {"leaf", "finish", "free"} => own[t] # None
  /\ t # Caller => pc[t] \in {"idle", "splice"} \/ own[t] # None
  /\ t # Caller => pc[t] \notin {"call", "loop", "wait", "return"}
  /\ pc[t] # "splice" => peeled[t] = << >>

\* Who splits a range or creates a task works for the call in progress.
WorkInv(t) ==
  /\ pc[t] = "rec" => Form = "rec"
  /\ pc[t] = "count" => Cmd.op # "NB"
  /\ pc[t] = "rec" \/ Creating(t) =>
       /\ own[t] # None => task[own[t]].split
       /\ own[t] = None => Form \in {"loop", "rec"}
  /\ pc[t] \in {"count", "push"} => task[made[t]] =
       [call |-> no, a |-> right[t][1], b |-> right[t][2],
        split |-> Form = "rec", counted |-> Cmd.op # "NB"]

CallerInv ==
  /\ pc[Caller] # "idle"
  /\ pc[Caller] # "call" => script # << >>
  /\ pc[Caller] = "loop" => Form = "loop"
  /\ pc[Caller] \in {"wait", "splice"} \/ own[Caller] # None =>
       Form \in {"loop", "rec"} /\ Cmd.op # "NB"

\* A task that waits, or that runs and has not been counted down.
Open(s) == s \in queued \/ \E t \in Threads : own[t] = s /\ pc[t] # "free"

\* Open tasks of a blocking call belong to the one in progress; the others come
\* from calls of ParallelForNB.
TaskInv ==
  \A s \in Slots : Open(s) =>
    /\ task[s].call \in 1 .. no
    /\ task[s].counted => task[s].call = no /\ pc[Caller] \notin {"call", "return"} /\ Cmd.op # "NB"
    /\ ~ task[s].counted => ~ task[s].split
    /\ ~ task[s].counted /\ task[s].call = no => pc[Caller] # "call" /\ Cmd.op = "NB"
    /\ task[s].split => Form = "rec"

\* The WaitGroup counts the tasks from CountTask to Finish.
Counted ==
  {s \in Slots : /\ task[s].counted
                 /\ Open(s) \/ \E t \in Threads : made[t] = s /\ pc[t] = "push"}
Blocking == pc[Caller] # "call" /\ Cmd.op # "NB"
CountInv == Blocking => n[no] = Cardinality(Counted)

ReturnInv == pc[Caller] = "return" => Counted = {}

\* Calls that have not begun.
Fresh(c) == c > no \/ (c = no /\ pc[Caller] = "call")
FreshInv == \A c \in Calls : Fresh(c) => n[c] = 0 /\ \A k \in Indices : runs[c][k] = 0

ControlInv ==
  /\ CallTypeOK /\ SlotInv /\ CallerInv /\ \A t \in Threads : ThreadInv(t) /\ WorkInv(t)
  /\ TaskInv /\ CountInv /\ ReturnInv /\ FreshInv
-----------------------------------------------------------------------------
(* Work.                                                                   *)

Within(k, r) == r[1] <= k /\ k < r[2]

\* The indices for which func has yet to run, by where they are.
RangePart(t) ==
  {k \in Indices : /\ pc[t] \in {"loop", "rec", "leaf", "alloc", "count", "push"}
                   /\ CallOf(t) = no /\ Within(k, range[t])}
RightPart(t) == {k \in Indices : Creating(t) /\ Within(k, right[t])}
SlotPart(s) ==
  {k \in Indices : /\ s \in queued /\ task[s].call = no
                   /\ Within(k, <<task[s].a, task[s].b>>)}
RestPart ==
  {k \in Indices : /\ pc[Caller] \in {"loop", "alloc", "count", "push"} /\ own[Caller] = None
                   /\ Form = "loop" /\ Within(k, <<Cmd.start + i * Chunk, Cmd.end>>)}

Places == ({"range", "right"} \X Threads) \cup ({"slot"} \X Slots) \cup {<<"rest", None>>}
Parts == [p \in Places |->
  CASE p[1] = "range" -> RangePart(p[2])
    [] p[1] = "right" -> RightPart(p[2])
    [] p[1] = "slot" -> SlotPart(p[2])
    [] OTHER -> RestPart]

\* Every index of the call was run once and is nowhere, or was not run and is in
\* exactly one place.
Covers(parts, ran, todo) ==
  \A k \in Indices :
    /\ ran[k] \in {0, 1} /\ (k \notin todo => ran[k] = 0)
    /\ k \in todo /\ ran[k] = 0 => \E p \in Places : k \in parts[p]
    /\ \A p \in Places : k \in parts[p] =>
         k \in todo /\ ran[k] = 0 /\ \A q \in Places : k \in parts[q] => p = q
CoverInv == Blocking => Covers(Parts, runs[no], Cmd.start .. Cmd.end - 1)

CallInv == ControlInv /\ CoverInv
-----------------------------------------------------------------------------
(* The free lists.                                                         *)

\* The first m entries of a list become another one, which was empty.
LEMMA MoveFront ==
  ASSUME NEW L \in [ListIds -> Seq(Slots)], NEW M \in [ListIds -> Seq(Slots)],
         NEW x \in ListIds, NEW y \in ListIds, x # y, NEW m \in 0 .. Len(L[x]),
         Apart(L), L[y] = << >>,
         M = [L EXCEPT ![x] = SubSeq(L[x], m + 1, Len(L[x])), ![y] = SubSeq(L[x], 1, m)]
  PROVE  Apart(M) /\ \A s : Names(M, s) <=> Names(L, s)
<1>1. /\ Len(L[x]) \in Nat /\ m \in Nat
      /\ M[x] = SubSeq(L[x], m + 1, Len(L[x])) /\ M[y] = SubSeq(L[x], 1, m)
      /\ \A z \in ListIds : z # x /\ z # y => M[z] = L[z]
  OBVIOUS
<1>2. /\ Len(M[x]) = Len(L[x]) - m
      /\ \A j \in 1 .. Len(M[x]) : M[x][j] = L[x][j + m] /\ j + m \in 1 .. Len(L[x])
  <2> DEFINE c == L[x]
             l == Len(c)
             b == m + 1
  <2>1. b \in Int /\ l \in Int /\ b = m + 1 /\ m \in Nat /\ m <= l
    BY <1>1
  <2>6. \A j \in b .. l : c[j] \in Slots
    <3>1. c \in Seq(Slots) /\ \A j \in 1 .. l : c[j] \in Slots
      OBVIOUS
    <3> HIDE DEF c, l
    <3> QED BY <2>1, <3>1
  <2>2. M[x] = SubSeq(c, b, l)
    BY <1>1
  <2> HIDE DEF c, l, b
  <2>3. /\ Len(SubSeq(c, b, l)) = (IF b <= l THEN l - b + 1 ELSE 0)
        /\ \A j \in 1 .. l - b + 1 : SubSeq(c, b, l)[j] = c[b + j - 1]
    BY <2>1, <2>6, SubSeqProperties
  <2>4. Len(M[x]) = l - m
    BY <2>1, <2>2, <2>3
  <2>5. ASSUME NEW j \in 1 .. l - m PROVE M[x][j] = c[j + m] /\ j + m \in 1 .. l
    <3>1. j \in 1 .. l - b + 1 /\ b + j - 1 = j + m /\ j + m \in 1 .. l
      BY <2>1
    <3> QED BY <2>2, <2>3, <3>1
  <2> QED BY <2>4, <2>5 DEF c, l
<1>3. /\ Len(M[y]) = m
      /\ \A j \in 1 .. Len(M[y]) : M[y][j] = L[x][j] /\ j \in 1 .. Len(L[x])
  BY <1>1
<1>4. Len(L[y]) = 0
  OBVIOUS
<1> DEFINE From(a, j, c, e) == /\ e \in 1 .. Len(L[c]) /\ M[a][j] = L[c][e]
                               /\ \/ a = x /\ c = x /\ e = j + m
                                  \/ a = y /\ c = x /\ e = j /\ j <= m
                                  \/ a # x /\ a # y /\ c = a /\ e = j
<1>o. ASSUME NEW a \in ListIds, NEW j \in 1 .. Len(M[a])
      PROVE  \E c \in ListIds, e \in Nat : From(a, j, c, e)
  <2>1. CASE a = x
    <3>1. From(a, j, x, j + m) /\ j + m \in Nat
      BY <1>1, <1>2, <2>1
    <3> QED BY <3>1
  <2>2. CASE a = y
    <3>1. From(a, j, x, j) /\ j \in Nat
      BY <1>1, <1>3, <2>2
    <3> QED BY <3>1
  <2>3. CASE a # x /\ a # y
    <3>1. From(a, j, a, j) /\ j \in Nat
      BY <1>1, <2>3
    <3> QED BY <3>1
  <2> QED BY <2>1, <2>2, <2>3
<1>5. Apart(M)
  <2> SUFFICES ASSUME NEW a \in ListIds, NEW b \in ListIds, NEW j \in 1 .. Len(M[a]),
                      NEW k \in 1 .. Len(M[b]), M[a][j] = M[b][k]
               PROVE  a = b /\ j = k
    BY DEF Apart
  <2>1. PICK c \in ListIds, e \in Nat : From(a, j, c, e)
    BY <1>o
  <2>2. PICK d \in ListIds, f \in Nat : From(b, k, d, f)
    BY <1>o
  <2>3. e \in 1 .. Len(L[c]) /\ f \in 1 .. Len(L[d]) /\ L[c][e] = L[d][f]
    BY <2>1, <2>2
  <2>4. c = d /\ e = f
    BY <2>3 DEF Apart
  <2>5. j \in Nat /\ k \in Nat /\ j > 0 /\ k > 0 /\ m \in Nat
    BY <1>1
  <2>6. \/ a = x /\ c = x /\ e = j + m
        \/ a = y /\ c = x /\ e = j /\ j <= m
        \/ a # x /\ a # y /\ c = a /\ e = j
    BY <2>1
  <2>7. \/ b = x /\ d = x /\ f = k + m
        \/ b = y /\ d = x /\ f = k /\ k <= m
        \/ b # x /\ b # y /\ d = b /\ f = k
    BY <2>2
  <2> HIDE DEF From
  <2> QED BY <2>4, <2>5, <2>6, <2>7, SMTT(30)
<1>6. ASSUME NEW s, Names(L, s) PROVE Names(M, s)
  <2>1. PICK a \in ListIds : \E j \in 1 .. Len(L[a]) : L[a][j] = s
    BY <1>6 DEF Names
  <2>2. PICK j \in 1 .. Len(L[a]) : L[a][j] = s
    BY <2>1
  <2>3. CASE a = x /\ j > m
    <3>1. j - m \in 1 .. Len(M[x]) /\ (j - m) + m = j
      BY <1>1, <1>2, <2>3
    <3>2. M[x][j - m] = s
      BY <1>2, <2>2, <2>3, <3>1
    <3> QED BY <3>1, <3>2 DEF Names
  <2>4. CASE a = x /\ j <= m
    BY <1>3, <2>2, <2>4 DEF Names
  <2>5. CASE a # x
    BY <1>1, <1>4, <2>2, <2>5 DEF Names
  <2> QED BY <1>1, <2>3, <2>4, <2>5
<1>7. ASSUME NEW s, Names(M, s) PROVE Names(L, s)
  <2>1. PICK a \in ListIds : \E j \in 1 .. Len(M[a]) : M[a][j] = s
    BY <1>7 DEF Names
  <2>2. PICK j \in 1 .. Len(M[a]) : M[a][j] = s
    BY <2>1
  <2>3. CASE a = x
    BY <1>2, <2>2, <2>3 DEF Names
  <2>4. CASE a = y
    BY <1>3, <2>2, <2>4 DEF Names
  <2>5. CASE a # x /\ a # y
    BY <1>1, <2>2, <2>5 DEF Names
  <2> QED BY <2>3, <2>4, <2>5
<1> QED BY <1>5, <1>6, <1>7

\* A list is put in front of another one.
LEMMA Prepend ==
  ASSUME NEW L \in [ListIds -> Seq(Slots)], NEW M \in [ListIds -> Seq(Slots)],
         NEW x \in ListIds, NEW y \in ListIds, x # y, Apart(L),
         M = [L EXCEPT ![x] = L[y] \o L[x], ![y] = << >>]
  PROVE  Apart(M) /\ \A s : Names(M, s) <=> Names(L, s)
<1>1. /\ M[x] = L[y] \o L[x] /\ M[y] = << >>
      /\ \A z \in ListIds : z # x /\ z # y => M[z] = L[z]
      /\ L[x] \in Seq(Slots) /\ L[y] \in Seq(Slots)
  OBVIOUS
<1>2. /\ Len(L[x]) \in Nat /\ Len(L[y]) \in Nat /\ Len(M[x]) = Len(L[y]) + Len(L[x])
      /\ \A j \in 1 .. Len(M[x]) : \/ j \in 1 .. Len(L[y]) /\ M[x][j] = L[y][j]
                                   \/ /\ j > Len(L[y]) /\ j - Len(L[y]) \in 1 .. Len(L[x])
                                      /\ M[x][j] = L[x][j - Len(L[y])]
  BY <1>1, ConcatProperties
<1>3. Len(M[y]) = 0
  BY <1>1
<1> DEFINE From(a, j, c, e) == /\ e \in 1 .. Len(L[c]) /\ M[a][j] = L[c][e]
                               /\ \/ a = x /\ c = x /\ e = j - Len(L[y])
                                  \/ a = x /\ c = y /\ e = j
                                  \/ a # x /\ a # y /\ c = a /\ e = j
<1>o. ASSUME NEW a \in ListIds, NEW j \in 1 .. Len(M[a])
      PROVE  \E c \in ListIds, e \in Nat : From(a, j, c, e)
  <2>1. CASE a = x
    <3>1. CASE j \in 1 .. Len(L[y]) /\ M[x][j] = L[y][j]
      <4>1. From(a, j, y, j) /\ j \in Nat
        BY <2>1, <3>1
      <4> QED BY <4>1
    <3>2. CASE j - Len(L[y]) \in 1 .. Len(L[x]) /\ M[x][j] = L[x][j - Len(L[y])]
      <4>1. From(a, j, x, j - Len(L[y])) /\ j - Len(L[y]) \in Nat
        BY <2>1, <3>2
      <4> QED BY <4>1
    <3> QED BY <1>2, <2>1, <3>1, <3>2
  <2>2. CASE a # x
    <3>1. From(a, j, a, j) /\ j \in Nat
      BY <1>1, <1>3, <2>2
    <3> QED BY <3>1
  <2> QED BY <2>1, <2>2
<1>4. Apart(M)
  <2> SUFFICES ASSUME NEW a \in ListIds, NEW b \in ListIds, NEW j \in 1 .. Len(M[a]),
                      NEW k \in 1 .. Len(M[b]), M[a][j] = M[b][k]
               PROVE  a = b /\ j = k
    BY DEF Apart
  <2>1. PICK c \in ListIds, e \in Nat : From(a, j, c, e)
    BY <1>o
  <2>2. PICK d \in ListIds, f \in Nat : From(b, k, d, f)
    BY <1>o
  <2>3. c = d /\ e = f
    BY <2>1, <2>2 DEF Apart
  <2> QED BY <1>2, <2>1, <2>2, <2>3
<1>5. ASSUME NEW s, Names(L, s) PROVE Names(M, s)
  <2>1. PICK a \in ListIds : \E j \in 1 .. Len(L[a]) : L[a][j] = s
    BY <1>5 DEF Names
  <2>2. PICK j \in 1 .. Len(L[a]) : L[a][j] = s
    BY <2>1
  <2>3. CASE a = x
    <3>1. j + Len(L[y]) \in 1 .. Len(M[x]) /\ (j + Len(L[y])) - Len(L[y]) = j
          /\ ~ (j + Len(L[y]) \in 1 .. Len(L[y]))
      BY <1>2, <2>3
    <3> QED BY <1>2, <2>2, <2>3, <3>1 DEF Names
  <2>4. CASE a = y
    <3>1. j \in 1 .. Len(M[x]) /\ ~ j > Len(L[y])
      BY <1>2, <2>4
    <3> QED BY <1>2, <2>2, <2>4, <3>1 DEF Names
  <2>5. CASE a # x /\ a # y
    BY <1>1, <2>2, <2>5 DEF Names
  <2> QED BY <2>3, <2>4, <2>5
<1>6. ASSUME NEW s, Names(M, s) PROVE Names(L, s)
  <2>1. PICK a \in ListIds : \E j \in 1 .. Len(M[a]) : M[a][j] = s
    BY <1>6 DEF Names
  <2>2. PICK j \in 1 .. Len(M[a]) : M[a][j] = s
    BY <2>1
  <2>3. CASE a = x
    BY <1>2, <2>2, <2>3 DEF Names
  <2>4. CASE a # x
    BY <1>1, <1>3, <2>2, <2>4 DEF Names
  <2> QED BY <2>3, <2>4
<1> QED BY <1>4, <1>5, <1>6

\* The lists M name r no longer, or now, and else what the lists L name.
Drops(L, M, r) ==
  \A s : /\ Names(M, s) => Names(L, s) /\ s # r
         /\ Names(L, s) /\ s # r => Names(M, s)
Adds(L, M, r) == Drops(M, L, r) /\ Names(M, r)

\* A list loses its head.
LEMMA DropHead ==
  ASSUME NEW L \in [ListIds -> Seq(Slots)], NEW M \in [ListIds -> Seq(Slots)],
         NEW x \in ListIds, L[x] # << >>, Apart(L),
         NEW rest, rest = Tail(L[x]), NEW r, r = Head(L[x]), M = [L EXCEPT ![x] = rest]
  PROVE  Apart(M) /\ Drops(L, M, r)
<1>1. /\ Len(L[x]) \in Nat \ {0} /\ M[x] = Tail(L[x]) /\ Head(L[x]) = L[x][1]
      /\ \A z \in ListIds : z # x => M[z] = L[z]
  <2>1. L[x] \in Seq(Slots)
    OBVIOUS
  <2> QED BY <2>1, HeadTailProperties, EmptySeq
<1>2. /\ Len(M[x]) = Len(L[x]) - 1
      /\ \A j \in 1 .. Len(M[x]) : M[x][j] = L[x][j + 1] /\ j + 1 \in 1 .. Len(L[x])
  <2>1. L[x] \in Seq(Slots)
    OBVIOUS
  <2> QED BY <1>1, <2>1, HeadTailProperties
<1>3. Apart(M)
  <2> SUFFICES ASSUME NEW a \in ListIds, NEW b \in ListIds, NEW j \in 1 .. Len(M[a]),
                      NEW k \in 1 .. Len(M[b]), M[a][j] = M[b][k]
               PROVE  a = b /\ j = k
    BY DEF Apart
  <2>1. CASE a = x /\ b = x
    BY <1>2, <2>1 DEF Apart
  <2>2. CASE a # x /\ b = x
    BY <1>1, <1>2, <2>2 DEF Apart
  <2>3. CASE a = x /\ b # x
    BY <1>1, <1>2, <2>3 DEF Apart
  <2>4. CASE a # x /\ b # x
    BY <1>1, <2>4 DEF Apart
  <2> QED BY <2>1, <2>2, <2>3, <2>4
<1>4. ASSUME NEW s, Names(L, s), s # r PROVE Names(M, s)
  <2>1. PICK a \in ListIds : \E j \in 1 .. Len(L[a]) : L[a][j] = s
    BY <1>4 DEF Names
  <2>2. PICK j \in 1 .. Len(L[a]) : L[a][j] = s
    BY <2>1
  <2>3. CASE a = x
    <3> DEFINE k == j - 1
    <3>1. k \in 1 .. Len(M[x]) /\ k + 1 = j
      BY <1>1, <1>2, <1>4, <2>2, <2>3
    <3> HIDE DEF k
    <3>2. M[x][k] = s
      BY <1>2, <2>2, <2>3, <3>1
    <3> QED BY <3>1, <3>2 DEF Names
  <2>4. CASE a # x
    BY <1>1, <2>2, <2>4 DEF Names
  <2> QED BY <2>3, <2>4
<1>5. ASSUME NEW s, Names(M, s) PROVE Names(L, s) /\ s # r
  <2>1. PICK a \in ListIds : \E j \in 1 .. Len(M[a]) : M[a][j] = s
    BY <1>5 DEF Names
  <2>2. PICK j \in 1 .. Len(M[a]) : M[a][j] = s
    BY <2>1
  <2>3. 1 \in 1 .. Len(L[x])
    BY <1>1
  <2>4. CASE a = x
    BY <1>1, <1>2, <2>2, <2>3, <2>4 DEF Names, Apart
  <2>5. CASE a # x
    BY <1>1, <2>2, <2>3, <2>5 DEF Names, Apart
  <2> QED BY <2>4, <2>5
<1>6. Drops(L, M, r)
  BY <1>4, <1>5 DEF Drops
<1> QED BY <1>3, <1>6

\* A slot that no list names becomes the head of one.
LEMMA AddHead ==
  ASSUME NEW L \in [ListIds -> Seq(Slots)], NEW M \in [ListIds -> Seq(Slots)],
         NEW x \in ListIds, NEW r \in Slots, ~ Names(L, r), Apart(L),
         NEW longer, longer = <<r>> \o L[x], M = [L EXCEPT ![x] = longer]
  PROVE  Apart(M) /\ Adds(L, M, r)
<1>1. /\ M[x] = <<r>> \o L[x] /\ L[x] \in Seq(Slots) /\ <<r>> \in Seq(Slots)
      /\ \A z \in ListIds : z # x => M[z] = L[z]
  OBVIOUS
<1>2. /\ Len(L[x]) \in Nat /\ Len(M[x]) = Len(L[x]) + 1 /\ M[x][1] = r
      /\ \A j \in 1 .. Len(M[x]) : j = 1 \/ (j - 1 \in 1 .. Len(L[x]) /\ M[x][j] = L[x][j - 1])
  <2>1. /\ Len(<<r>>) = 1 /\ <<r>>[1] = r /\ Len(L[x]) \in Nat
        /\ Len(<<r>> \o L[x]) = 1 + Len(L[x])
        /\ \A j \in 1 .. 1 + Len(L[x]) :
             (<<r>> \o L[x])[j] = IF j <= 1 THEN <<r>>[j] ELSE L[x][j - 1]
    BY <1>1, ConcatProperties
  <2>2. 1 \in 1 .. 1 + Len(L[x]) /\ M[x][1] = r
    BY <1>1, <2>1
  <2>3. ASSUME NEW j \in 1 .. Len(M[x]), j # 1
        PROVE  j - 1 \in 1 .. Len(L[x]) /\ M[x][j] = L[x][j - 1]
    BY <1>1, <2>1, <2>3
  <2>4. Len(M[x]) = Len(L[x]) + 1
    BY <1>1, <2>1
  <2>5. \A j \in 1 .. Len(M[x]) :
            j = 1 \/ (j - 1 \in 1 .. Len(L[x]) /\ M[x][j] = L[x][j - 1])
    <3> TAKE j \in 1 .. Len(M[x])
    <3>1. CASE j = 1
      BY <3>1
    <3>2. CASE j # 1
      BY <2>3, <3>2
    <3> QED BY <3>1, <3>2
  <2> QED BY <2>1, <2>2, <2>4, <2>5
<1>3. \A a \in ListIds : \A j \in 1 .. Len(L[a]) : L[a][j] # r
  BY DEF Names
<1>4. Apart(M)
  <2> SUFFICES ASSUME NEW a \in ListIds, NEW b \in ListIds, NEW j \in 1 .. Len(M[a]),
                      NEW k \in 1 .. Len(M[b]), M[a][j] = M[b][k]
               PROVE  a = b /\ j = k
    BY DEF Apart
  <2>1. CASE a = x /\ b = x
    <3>1. CASE j = 1 \/ k = 1
      BY <1>2, <1>3, <2>1, <3>1
    <3>2. CASE j # 1 /\ k # 1
      <4>1. j - 1 \in 1 .. Len(L[x]) /\ k - 1 \in 1 .. Len(L[x]) /\ L[x][j - 1] = L[x][k - 1]
        BY <1>2, <2>1, <3>2
      <4>2. \A e, f \in 1 .. Len(L[x]) : L[x][e] = L[x][f] => e = f
        BY DEF Apart
      <4>3. j - 1 = k - 1
        BY <4>1, <4>2
      <4> QED BY <1>2, <2>1, <4>3
    <3> QED BY <3>1, <3>2
  <2>2. CASE a # x /\ b = x
    BY <1>1, <1>2, <1>3, <2>2 DEF Apart
  <2>3. CASE a = x /\ b # x
    BY <1>1, <1>2, <1>3, <2>3 DEF Apart
  <2>4. CASE a # x /\ b # x
    BY <1>1, <2>4 DEF Apart
  <2> QED BY <2>1, <2>2, <2>3, <2>4
<1>5. ASSUME NEW s, Names(L, s) PROVE Names(M, s)
  <2>1. PICK a \in ListIds : \E j \in 1 .. Len(L[a]) : L[a][j] = s
    BY <1>5 DEF Names
  <2>2. PICK j \in 1 .. Len(L[a]) : L[a][j] = s
    BY <2>1
  <2>3. CASE a = x
    <3> DEFINE k == j + 1
    <3>1. k \in 1 .. Len(M[x]) /\ k - 1 = j /\ k # 1
      BY <1>2, <2>3
    <3> HIDE DEF k
    <3>2. M[x][k] = s
      BY <1>2, <2>2, <2>3, <3>1
    <3> QED BY <3>1, <3>2 DEF Names
  <2>4. CASE a # x
    BY <1>1, <2>2, <2>4 DEF Names
  <2> QED BY <2>3, <2>4
<1>6. Names(M, r)
  <2>1. 1 \in 1 .. Len(M[x])
    BY <1>2
  <2> QED BY <1>2, <2>1 DEF Names
<1>7. ASSUME NEW s, Names(M, s) PROVE Names(L, s) \/ s = r
  <2>1. PICK a \in ListIds : \E j \in 1 .. Len(M[a]) : M[a][j] = s
    BY <1>7 DEF Names
  <2>2. PICK j \in 1 .. Len(M[a]) : M[a][j] = s
    BY <2>1
  <2>3. CASE a = x
    BY <1>2, <2>2, <2>3 DEF Names
  <2>4. CASE a # x
    BY <1>1, <2>2, <2>4 DEF Names
  <2> QED BY <2>3, <2>4
<1>8. ASSUME NEW s, Names(L, s) PROVE s # r
  BY <1>8
<1>9. Adds(L, M, r)
  BY <1>5, <1>6, <1>7, <1>8 DEF Adds, Drops
<1> QED BY <1>4, <1>9

LEMMA MinOfTwo ==
  ASSUME NEW a \in Int, NEW b \in Int
  PROVE  Min({a, b}) = IF a <= b THEN a ELSE b
<1> DEFINE P(m) == m \in {a, b} /\ \A y \in {a, b} : m <= y
<1>1. P(IF a <= b THEN a ELSE b)
  OBVIOUS
<1>2. P(Min({a, b}))
  BY <1>1 DEF Min
<1> QED BY <1>2

LEMMA MaxOfTwo ==
  ASSUME NEW a \in Int, NEW b \in Int
  PROVE  Max({a, b}) = IF a >= b THEN a ELSE b
<1> DEFINE P(m) == m \in {a, b} /\ \A y \in {a, b} : m >= y
<1>1. P(IF a >= b THEN a ELSE b)
  OBVIOUS
<1>2. P(Max({a, b}))
  BY <1>1 DEF Max
<1> QED BY <1>2
-----------------------------------------------------------------------------
(* Steps of the allocator, and of the tasks between created and freed.     *)

LEMMA ListsType == SlotTypeOK => FreeLists \in [ListIds -> Seq(Slots)]
BY DEF SlotTypeOK, FreeLists, ListIds

LEMMA ListsTypeNext == SlotTypeOK' => FreeLists' \in [ListIds -> Seq(Slots)]
BY DEF SlotTypeOK, FreeLists, ListIds

\* The three kinds of lists, by name.
LEMMA ListOfId ==
  /\ <<"shared", None>> \in ListIds /\ FreeLists[<<"shared", None>>] = shared
  /\ \A t \in Threads : /\ <<"cache", t>> \in ListIds /\ FreeLists[<<"cache", t>>] = cache[t]
                        /\ <<"peeled", t>> \in ListIds /\ FreeLists[<<"peeled", t>>] = peeled[t]
BY DEF FreeLists, ListIds

LEMMA ListsAre ==
  ASSUME NEW F, F = [z \in ListIds |-> F[z]], F[<<"shared", None>>] = shared',
         \A t \in Threads : F[<<"cache", t>>] = cache'[t] /\ F[<<"peeled", t>>] = peeled'[t]
  PROVE  FreeLists' = F
<1>1. ASSUME NEW z \in ListIds PROVE FreeLists'[z] = F[z]
  <2>1. CASE z = <<"shared", None>>
    BY <2>1 DEF FreeLists
  <2>2. ASSUME NEW t \in Threads, z = <<"cache", t>> PROVE FreeLists'[z] = F[z]
    BY <2>2 DEF FreeLists
  <2>3. ASSUME NEW t \in Threads, z = <<"peeled", t>> PROVE FreeLists'[z] = F[z]
    BY <2>3 DEF FreeLists
  <2> QED BY <2>1, <2>2, <2>3 DEF ListIds
<1>2. FreeLists' = [z \in ListIds |-> FreeLists'[z]]
  BY DEF FreeLists
<1> QED BY <1>1, <1>2

\* The same slots are in use, and as many.
LEMMA SlotsStand ==
  ASSUME SlotInv, SlotTypeOK, UsesApart', Apart(FreeLists)',
         \A s \in Slots : Names(FreeLists, s)' <=> Names(FreeLists, s),
         \A s \in Slots : InUse(s)' <=> InUse(s), liveCount' = liveCount
  PROVE  SlotInv'
<1>1. {s \in Slots : InUse(s)'} = {s \in Slots : InUse(s)}
  OBVIOUS
<1> QED BY <1>1 DEF SlotInv

LEMMA RefillSlots ==
  ASSUME SlotInv, SlotTypeOK, NEW t \in Threads, Refill(t), UNCHANGED <<queued, own, made>>
  PROVE  SlotInv' /\ SlotTypeOK'
<1> DEFINE m == Min({BATCH, Len(shared)})
           x == <<"shared", None>>
           y == <<"cache", t>>
<1>1. m \in 0 .. Len(shared) /\ Len(shared) \in Nat
  <2>1. Len(shared) \in Nat /\ BATCH \in Nat
    BY AllocatorAssumption DEF SlotTypeOK
  <2>2. m = IF BATCH <= Len(shared) THEN BATCH ELSE Len(shared)
    BY <2>1, MinOfTwo
  <2> HIDE DEF m
  <2> QED BY <2>1, <2>2
<1>2. /\ cache' = [cache EXCEPT ![t] = SubSeq(shared, 1, m)] /\ cache[t] = << >>
      /\ shared' = SubSeq(shared, m + 1, Len(shared)) /\ UNCHANGED <<peeled, liveCount>>
  BY DEF Refill
<1> HIDE DEF m
<1>3. SlotTypeOK'
  <2>1. SubSeq(shared, 1, m) \in Seq(Slots) /\ SubSeq(shared, m + 1, Len(shared)) \in Seq(Slots)
    BY <1>1 DEF SlotTypeOK
  <2> QED BY <1>2, <2>1 DEF SlotTypeOK
<1>5. FreeLists[x] = shared /\ FreeLists[y] = << >> /\ x \in ListIds /\ y \in ListIds /\ x # y
  BY <1>2, ListOfId
<1>4. FreeLists' = [FreeLists EXCEPT ![x] = SubSeq(FreeLists[x], m + 1, Len(FreeLists[x])),
                                     ![y] = SubSeq(FreeLists[x], 1, m)]
  <2> DEFINE F == [FreeLists EXCEPT ![x] = SubSeq(shared, m + 1, Len(shared)),
                                    ![y] = SubSeq(shared, 1, m)]
  <2>1. F = [z \in ListIds |-> F[z]] /\ F[x] = shared'
    BY <1>2, <1>5 DEF FreeLists
  <2>2. \A u \in Threads : F[<<"cache", u>>] = cache'[u] /\ F[<<"peeled", u>>] = peeled'[u]
    BY <1>2, ListOfId DEF FreeLists, SlotTypeOK
  <2>3. FreeLists' = F
    BY <2>1, <2>2, ListsAre
  <2> QED BY <1>5, <2>3
<1> HIDE DEF x, y
<1>6. Apart(FreeLists') /\ \A s : Names(FreeLists', s) <=> Names(FreeLists, s)
  <2>1. /\ FreeLists \in [ListIds -> Seq(Slots)] /\ FreeLists' \in [ListIds -> Seq(Slots)]
        /\ m \in 0 .. Len(FreeLists[x]) /\ Apart(FreeLists)
    BY <1>1, <1>3, <1>5, ListsType, ListsTypeNext DEF SlotInv
  <2> QED BY <1>4, <1>5, <2>1, MoveFront
<1>7. UsesApart' /\ \A s \in Slots : InUse(s)' <=> InUse(s)
  BY DEF SlotInv, UsesApart, InUse
<1>8. Apart(FreeLists)' /\ \A s \in Slots : Names(FreeLists, s)' <=> Names(FreeLists, s)
  BY <1>6 DEF Names
<1> QED BY <1>2, <1>3, <1>7, <1>8, SlotsStand

LEMMA SpliceSlots ==
  ASSUME SlotInv, SlotTypeOK, NEW t \in Threads, Splice(t), UNCHANGED <<queued, own, made>>
  PROVE  SlotInv' /\ SlotTypeOK'
<1> DEFINE x == <<"shared", None>>
           y == <<"peeled", t>>
<1>2. /\ peeled' = [peeled EXCEPT ![t] = << >>] /\ shared' = peeled[t] \o shared
      /\ UNCHANGED <<cache, liveCount>>
  BY DEF Splice
<1>3. SlotTypeOK'
  <2>1. peeled[t] \o shared \in Seq(Slots) /\ << >> \in Seq(Slots)
    BY DEF SlotTypeOK
  <2> QED BY <1>2, <2>1 DEF SlotTypeOK
<1>5. FreeLists[x] = shared /\ FreeLists[y] = peeled[t] /\ x \in ListIds /\ y \in ListIds /\ x # y
  BY ListOfId
<1>4. FreeLists' = [FreeLists EXCEPT ![x] = FreeLists[y] \o FreeLists[x], ![y] = << >>]
  <2> DEFINE F == [FreeLists EXCEPT ![x] = peeled[t] \o shared, ![y] = << >>]
  <2>1. F = [z \in ListIds |-> F[z]] /\ F[x] = shared'
    BY <1>2, <1>5 DEF FreeLists
  <2>2. \A u \in Threads : F[<<"cache", u>>] = cache'[u] /\ F[<<"peeled", u>>] = peeled'[u]
    BY <1>2, ListOfId DEF FreeLists, SlotTypeOK
  <2>3. FreeLists' = F
    BY <2>1, <2>2, ListsAre
  <2> QED BY <1>5, <2>3
<1> HIDE DEF x, y
<1>6. Apart(FreeLists') /\ \A s : Names(FreeLists', s) <=> Names(FreeLists, s)
  <2>1. /\ FreeLists \in [ListIds -> Seq(Slots)] /\ FreeLists' \in [ListIds -> Seq(Slots)]
        /\ Apart(FreeLists)
    BY <1>3, ListsType, ListsTypeNext DEF SlotInv
  <2> QED BY <1>4, <1>5, <2>1, Prepend, ZenonT(30)
<1>7. UsesApart' /\ \A s \in Slots : InUse(s)' <=> InUse(s)
  BY DEF SlotInv, UsesApart, InUse
<1>8. Apart(FreeLists)' /\ \A s \in Slots : Names(FreeLists, s)' <=> Names(FreeLists, s)
  BY <1>6 DEF Names
<1> QED BY <1>2, <1>3, <1>7, <1>8, SlotsStand

\* The slot Alloc returns is in nobody's use.
LEMMA AllocSlots ==
  ASSUME SlotInv, SlotTypeOK, NEW t \in Threads, NEW r \in Slots, Alloc(t, r),
         made[t] = None, made' = [made EXCEPT ![t] = r], UNCHANGED <<queued, own>>
  PROVE  SlotInv' /\ SlotTypeOK' /\ ~ InUse(r)
<1> DEFINE x == <<"cache", t>>
           used == {s \in Slots : InUse(s)}
<1>1. /\ cache[t] # << >> /\ r = Head(cache[t]) /\ cache' = [cache EXCEPT ![t] = Tail(cache[t])]
      /\ liveCount' = liveCount + 1 /\ UNCHANGED <<shared, peeled>>
  BY DEF Alloc
<1>2. cache[t] \in Seq(Slots) /\ Tail(cache[t]) \in Seq(Slots)
  BY <1>1, HeadTailProperties DEF SlotTypeOK
<1>3. SlotTypeOK'
  BY <1>1, <1>2 DEF SlotTypeOK
<1>5. FreeLists[x] = cache[t] /\ x \in ListIds
  BY ListOfId
<1>4. FreeLists' = [FreeLists EXCEPT ![x] = Tail(FreeLists[x])]
  <2> DEFINE F == [FreeLists EXCEPT ![x] = Tail(cache[t])]
  <2>1. F = [z \in ListIds |-> F[z]] /\ F[<<"shared", None>>] = shared'
    BY <1>1, <1>5, ListOfId DEF FreeLists
  <2>2. \A u \in Threads : F[<<"cache", u>>] = cache'[u] /\ F[<<"peeled", u>>] = peeled'[u]
    BY <1>1, ListOfId DEF FreeLists, SlotTypeOK
  <2>3. FreeLists' = F
    BY <2>1, <2>2, ListsAre
  <2> QED BY <1>5, <2>3
<1> HIDE DEF x
<1>6. Apart(FreeLists') /\ Drops(FreeLists, FreeLists', r)
  <2>1. /\ FreeLists \in [ListIds -> Seq(Slots)] /\ FreeLists' \in [ListIds -> Seq(Slots)]
        /\ Apart(FreeLists) /\ FreeLists[x] # << >> /\ r = Head(FreeLists[x])
    BY <1>1, <1>3, <1>5, ListsType, ListsTypeNext DEF SlotInv
  <2> DEFINE rest == Tail(FreeLists[x])
  <2>2. rest = Tail(FreeLists[x]) /\ FreeLists' = [FreeLists EXCEPT ![x] = rest]
    BY <1>4
  <2> HIDE DEF rest
  <2> QED BY <1>5, <2>1, <2>2, DropHead
<1>7. Names(FreeLists, r)
  <2>1. Len(cache[t]) \in Nat \ {0} /\ r = cache[t][1] /\ 1 \in 1 .. Len(cache[t])
    BY <1>1, <1>2
  <2> QED BY <1>5, <2>1 DEF Names
<1>8. ~ InUse(r)
  BY <1>7 DEF SlotInv
<1>9. r \notin queued /\ \A u \in Threads : own[u] # r /\ made[u] # r
  BY <1>8 DEF InUse
<1>10. UsesApart'
  BY <1>9, AllocatorAssumption DEF SlotInv, UsesApart
<1>11. made'[t] = r /\ \A u \in Threads : u # t => made'[u] = made[u]
  BY DEF SlotTypeOK
<1>12. \A s \in Slots : InUse(s)' <=> InUse(s) \/ s = r
  BY <1>11, AllocatorAssumption DEF InUse
<1>13. liveCount' = Cardinality({s \in Slots : InUse(s)'})
  <2>1. {s \in Slots : InUse(s)'} = used \cup {r} /\ r \notin used
    BY <1>8, <1>12
  <2>2. IsFiniteSet(used)
    BY AllocatorAssumption, FS_Subset
  <2>3. Cardinality(used \cup {r}) = Cardinality(used) + 1
    BY <2>1, <2>2, FS_AddElement
  <2> QED BY <1>1, <2>1, <2>3 DEF SlotInv
<1>14. \A s \in Slots : Names(FreeLists, s)' <=> ~ InUse(s)'
  <2>1. \A s \in Slots : Names(FreeLists, s)' <=> (Names(FreeLists, s) /\ s # r)
    BY <1>6 DEF Drops
  <2> QED BY <1>12, <2>1 DEF SlotInv
<1>15. Apart(FreeLists)'
  BY <1>6 DEF Apart
<1> QED BY <1>3, <1>8, <1>10, <1>13, <1>14, <1>15 DEF SlotInv

LEMMA PushSlots ==
  ASSUME SlotInv, SlotTypeOK, NEW t \in Threads, made[t] # None,
         queued' = queued \cup {made[t]}, made' = [made EXCEPT ![t] = None],
         UNCHANGED <<allocVars, own>>
  PROVE  SlotInv' /\ SlotTypeOK'
<1>1. SlotTypeOK' /\ UNCHANGED <<shared, cache, peeled, liveCount>>
  BY DEF SlotTypeOK, allocVars
<1>2. FreeLists' = FreeLists
  BY <1>1 DEF FreeLists
<1>3. made'[t] = None /\ \A u \in Threads : u # t => made'[u] = made[u]
  BY DEF SlotTypeOK
<1>4. UsesApart'
  BY <1>3, AllocatorAssumption DEF SlotInv, UsesApart, SlotTypeOK
<1>5. \A s \in Slots : InUse(s)' <=> InUse(s)
  BY <1>3, AllocatorAssumption DEF InUse
<1>6. Apart(FreeLists)' /\ \A s \in Slots : Names(FreeLists, s)' <=> Names(FreeLists, s)
  BY <1>2 DEF SlotInv
<1> QED BY <1>1, <1>4, <1>5, <1>6, SlotsStand

LEMMA RunSlots ==
  ASSUME SlotInv, SlotTypeOK, NEW t \in Threads, NEW r \in queued, own[t] = None,
         queued' = queued \ {r}, own' = [own EXCEPT ![t] = r], UNCHANGED <<allocVars, made>>
  PROVE  SlotInv' /\ SlotTypeOK'
<1>1. SlotTypeOK' /\ UNCHANGED <<shared, cache, peeled, liveCount>> /\ r \in Slots
  BY DEF SlotTypeOK, allocVars
<1>2. FreeLists' = FreeLists
  BY <1>1 DEF FreeLists
<1>3. own'[t] = r /\ \A u \in Threads : u # t => own'[u] = own[u]
  BY DEF SlotTypeOK
<1>4. UsesApart'
  BY <1>1, <1>3, AllocatorAssumption DEF SlotInv, UsesApart
<1>5. \A s \in Slots : InUse(s)' <=> InUse(s)
  BY <1>3, AllocatorAssumption DEF InUse
<1>6. Apart(FreeLists)' /\ \A s \in Slots : Names(FreeLists, s)' <=> Names(FreeLists, s)
  BY <1>2 DEF SlotInv
<1> QED BY <1>1, <1>4, <1>5, <1>6, SlotsStand

\* The slot goes to the front of the cache, and what exceeds the batch is peeled
\* off: no slot is lost between the two.
LEMMA FreeSlots ==
  ASSUME SlotInv, SlotTypeOK, NEW t \in Threads, own[t] # None, peeled[t] = << >>,
         Free(t, own[t]), own' = [own EXCEPT ![t] = None], UNCHANGED <<queued, made>>
  PROVE  SlotInv' /\ SlotTypeOK'
<1> DEFINE r == own[t]
           x == <<"cache", t>>
           y == <<"peeled", t>>
           c == <<r>> \o cache[t]
           toMove == IF Len(c) > 2 * BATCH THEN Len(c) - BATCH ELSE 0
           used == {s \in Slots : InUse(s)}
           M == [FreeLists EXCEPT ![x] = c]
<1>1. /\ cache' = [cache EXCEPT ![t] = SubSeq(c, toMove + 1, Len(c))]
      /\ peeled' = [peeled EXCEPT ![t] = SubSeq(c, 1, toMove)]
      /\ liveCount' = liveCount - 1 /\ shared' = shared
  BY DEF Free
<1>2. r \in Slots /\ c \in Seq(Slots) /\ Len(c) \in Nat /\ toMove \in 0 .. Len(c)
  <2>1. r \in Slots /\ cache[t] \in Seq(Slots)
    BY DEF SlotTypeOK
  <2>2. c \in Seq(Slots) /\ Len(c) \in Nat
    BY <2>1
  <2> HIDE DEF c
  <2> QED BY <2>1, <2>2, AllocatorAssumption
<1> HIDE DEF c, toMove
<1>3. SlotTypeOK'
  <2>1. SubSeq(c, 1, toMove) \in Seq(Slots) /\ SubSeq(c, toMove + 1, Len(c)) \in Seq(Slots)
    BY <1>2
  <2> QED BY <1>1, <2>1 DEF SlotTypeOK
<1>4. FreeLists' = [M EXCEPT ![x] = SubSeq(c, toMove + 1, Len(c)), ![y] = SubSeq(c, 1, toMove)]
  <2> DEFINE F == [M EXCEPT ![x] = SubSeq(c, toMove + 1, Len(c)), ![y] = SubSeq(c, 1, toMove)]
  <2>1. F = [z \in ListIds |-> F[z]] /\ F[<<"shared", None>>] = shared'
    BY <1>1, ListOfId DEF FreeLists
  <2>2. \A u \in Threads : F[<<"cache", u>>] = cache'[u] /\ F[<<"peeled", u>>] = peeled'[u]
    BY <1>1, ListOfId DEF FreeLists, SlotTypeOK
  <2> QED BY <2>1, <2>2, ListsAre
<1>5. /\ FreeLists[x] = cache[t] /\ FreeLists[y] = << >>
      /\ x \in ListIds /\ y \in ListIds /\ x # y
  BY ListOfId
<1>6. FreeLists \in [ListIds -> Seq(Slots)] /\ FreeLists' \in [ListIds -> Seq(Slots)]
  BY <1>3, ListsType, ListsTypeNext
<1> HIDE DEF x, y
<1>7. M \in [ListIds -> Seq(Slots)] /\ M[x] = c /\ M[y] = << >>
  BY <1>2, <1>5, <1>6
<1>8. InUse(r) /\ ~ Names(FreeLists, r)
  BY <1>2 DEF InUse, SlotInv
<1>9. Apart(M) /\ Adds(FreeLists, M, r)
  <2>1. M = [FreeLists EXCEPT ![x] = c] /\ c = <<r>> \o FreeLists[x]
    BY <1>5 DEF c
  <2>2. Apart(FreeLists)
    BY DEF SlotInv
  <2>3. /\ M \in [ListIds -> Seq(Slots)] /\ FreeLists \in [ListIds -> Seq(Slots)]
        /\ x \in ListIds /\ r \in Slots /\ ~ Names(FreeLists, r)
    BY <1>2, <1>5, <1>6, <1>7, <1>8
  <2> HIDE DEF M, r
  <2> QED BY <2>1, <2>2, <2>3, AddHead
<1> HIDE DEF M
<1>10. Apart(FreeLists') /\ \A s : Names(FreeLists', s) <=> Names(M, s)
  <2>1. FreeLists' = [M EXCEPT ![x] = SubSeq(M[x], toMove + 1, Len(M[x])),
                               ![y] = SubSeq(M[x], 1, toMove)]
    BY <1>4, <1>7
  <2>2. toMove \in 0 .. Len(M[x])
    BY <1>2, <1>7
  <2> QED BY <1>5, <1>6, <1>7, <1>9, <2>1, <2>2, MoveFront
<1>11. own'[t] = None /\ \A u \in Threads : u # t => own'[u] = own[u]
  BY DEF SlotTypeOK
<1>12. UsesApart'
  BY <1>11, AllocatorAssumption DEF SlotInv, UsesApart, SlotTypeOK
<1>13. \A s \in Slots : InUse(s)' <=> InUse(s) /\ s # r
  <2>1. r \notin queued /\ \A u \in Threads : made[u] # r /\ (own[u] = r => u = t)
    BY DEF SlotInv, UsesApart
  <2> QED BY <1>2, <1>11, <2>1, AllocatorAssumption DEF InUse
<1>14. liveCount' = Cardinality({s \in Slots : InUse(s)'})
  <2>1. {s \in Slots : InUse(s)'} = used \ {r} /\ r \in used
    BY <1>2, <1>8, <1>13
  <2>2. IsFiniteSet(used)
    BY AllocatorAssumption, FS_Subset
  <2>3. Cardinality(used \ {r}) = Cardinality(used) - 1
    BY <2>1, <2>2, FS_RemoveElement
  <2> QED BY <1>1, <2>1, <2>3 DEF SlotInv
<1>15. \A s \in Slots : Names(FreeLists, s)' <=> ~ InUse(s)'
  <2>1. \A s \in Slots : Names(FreeLists, s)' <=> (Names(FreeLists, s) \/ s = r)
    <3>1. \A s : Names(FreeLists, s)' <=> Names(FreeLists', s)
      BY DEF Names
    <3>2. \A s : Names(M, s) <=> (Names(FreeLists, s) \/ s = r)
      BY <1>9 DEF Adds, Drops
    <3> QED BY <1>10, <3>1, <3>2
  <2> QED BY <1>8, <1>13, <2>1 DEF SlotInv
<1>16. Apart(FreeLists)'
  BY <1>10 DEF Apart
<1> QED BY <1>3, <1>12, <1>14, <1>15, <1>16 DEF SlotInv

-----------------------------------------------------------------------------
(* Control: what holds at each point, and what a step leaves alone.        *)

LEMMA FormFacts ==
  ASSUME script # << >>, script \in Seq(CallRecords)
  PROVE  /\ Cmd \in CallRecords /\ Form \in {"return", "loop", "inline", "rec"}
         /\ Form = "rec" => Cmd.op # "NB"
         /\ Form = "loop" /\ Cmd.op # "NB" => Cmd.op = "for"
<1>1. Cmd \in CallRecords
  BY DEF Cmd
<1> QED BY <1>1 DEF Form

LEMMA ScriptSame ==
  ASSUME script' = script
  PROVE  /\ Cmd' = Cmd /\ Form' = Form /\ Chunk' = Chunk /\ NumTasks' = NumTasks
         /\ Resumed' = Resumed
BY DEF Cmd, Form, Chunk, NumTasks, Total, Resumed

LEMMA ChunkType ==
  ASSUME script # << >>, script \in Seq(CallRecords)
  PROVE  Chunk \in Nat \ {0} /\ Chunk = IF 1 >= Cmd.chunk THEN 1 ELSE Cmd.chunk
<1>1. Cmd.chunk \in Int
  BY FormFacts DEF CallRecords
<1>2. Chunk = IF 1 >= Cmd.chunk THEN 1 ELSE Cmd.chunk
  BY <1>1, MaxOfTwo DEF Chunk
<1> QED BY <1>1, <1>2

LEMMA ChunkRangeType ==
  ASSUME script # << >>, script \in Seq(CallRecords), NEW k \in Nat
  PROVE  /\ ChunkRange(k) \in Int \X Int
         /\ ChunkRange(k)[1] = Cmd.start + k * Chunk
         /\ ChunkRange(k)[2] = IF Cmd.start + (k + 1) * Chunk <= Cmd.end
                               THEN Cmd.start + (k + 1) * Chunk ELSE Cmd.end
<1>1. Cmd.start \in Int /\ Cmd.end \in Int /\ Chunk \in Nat
  BY FormFacts, ChunkType DEF CallRecords
<1>2. k * Chunk \in Int /\ (k + 1) * Chunk \in Int
  BY <1>1
<1>3. Cmd.start + k * Chunk \in Int /\ Cmd.start + (k + 1) * Chunk \in Int
  BY <1>1, <1>2
<1>4. Min({Cmd.start + (k + 1) * Chunk, Cmd.end}) =
        IF Cmd.start + (k + 1) * Chunk <= Cmd.end THEN Cmd.start + (k + 1) * Chunk ELSE Cmd.end
  BY <1>1, <1>3, MinOfTwo
<1> QED BY <1>1, <1>3, <1>4 DEF ChunkRange

\* The number of a call in progress is one of its script's.
LEMMA CallNumber ==
  ASSUME CallTypeOK, script # << >>
  PROVE  no \in Calls /\ no \in Nat \ {0} /\ Len(script) \in Nat \ {0} /\ script \in Seq(CallRecords)
<1>1. /\ Len(script) \in Nat \ {0} /\ Len(theScript) \in Nat /\ no \in Nat \ {0}
      /\ no + Len(script) = Len(theScript) + 1 /\ Calls = 1 .. Len(theScript)
  BY EmptySeq DEF CallTypeOK, Calls
<1> QED BY <1>1 DEF CallTypeOK

\* Who splits or creates works for the call in progress, which is not over.
LEMMA AtWork ==
  ASSUME ControlInv, NEW t \in Threads, pc[t] = "rec" \/ Creating(t)
  PROVE  /\ CallOf(t) = no /\ pc[Caller] \notin {"call", "return"} /\ script # << >>
         /\ own[t] # None => own[t] \in Slots /\ Form = "rec" /\ Cmd.op # "NB" /\ Open(own[t])
         /\ Form \in {"loop", "rec"} /\ (t # Caller => own[t] # None)
         /\ (Cmd.op = "NB" => Form = "loop")
<1>1. ThreadInv(t) /\ WorkInv(t) /\ own[t] \in Slots \cup {None}
  BY DEF ControlInv, CallTypeOK, SlotTypeOK
<1>2. CASE own[t] # None
  <2>1. own[t] \in Slots /\ Open(own[t]) /\ task[own[t]].split
    BY <1>1, <1>2 DEF WorkInv, Open, Creating
  <2>2. /\ task[own[t]].call = no /\ pc[Caller] \notin {"call", "return"} /\ Cmd.op # "NB"
        /\ Form = "rec"
    <3>1. task[own[t]] \in TaskRecords
      BY <2>1 DEF ControlInv, CallTypeOK
    <3> QED BY <2>1, <3>1 DEF ControlInv, TaskInv
  <2> QED BY <1>2, <2>1, <2>2 DEF CallOf, ControlInv, CallerInv
<1>3. CASE own[t] = None
  <2>1. t = Caller
    BY <1>1, <1>3 DEF ThreadInv, Creating
  <2>2. pc[Caller] \notin {"call", "return"} /\ script # << >> /\ Form \in {"loop", "rec"}
    BY <1>1, <1>3, <2>1 DEF ControlInv, CallerInv, Creating, WorkInv
  <2>3. Form = "rec" => Cmd.op # "NB"
    BY <2>2, FormFacts DEF ControlInv, CallTypeOK
  <2> QED BY <1>3, <2>1, <2>2, <2>3 DEF CallOf
<1> QED BY <1>2, <1>3

\* What a step of t leaves alone is still right for the others.
LEMMA OthersStand ==
  ASSUME ControlInv, NEW t \in Threads, script' = script, no' = no,
         \A u \in Threads : u # t =>
           /\ pc'[u] = pc[u] /\ own'[u] = own[u] /\ made'[u] = made[u]
           /\ right'[u] = right[u] /\ peeled'[u] = peeled[u]
           /\ own[u] # None => task'[own[u]] = task[own[u]]
           /\ made[u] # None => task'[made[u]] = task[made[u]],
         ThreadInv(t)', WorkInv(t)'
  PROVE  \A u \in Threads : ThreadInv(u)' /\ WorkInv(u)'
<1> SUFFICES ASSUME NEW u \in Threads, u # t PROVE ThreadInv(u)' /\ WorkInv(u)'
  OBVIOUS
<1>1. ThreadInv(u) /\ WorkInv(u)
  BY DEF ControlInv
<1>2. Cmd' = Cmd /\ Form' = Form
  BY ScriptSame
<1>3. ThreadInv(u)'
  BY <1>1 DEF ThreadInv
<1>4. pc'[u] \in {"count", "push"} => made[u] # None
  BY <1>1 DEF ThreadInv
<1>5. WorkInv(u)'
  BY <1>1, <1>2, <1>4 DEF WorkInv, Creating
<1> QED BY <1>3, <1>5

\* No task has come, and the caller is as it was.
LEMMA TasksStand ==
  ASSUME ControlInv, script' = script, no' = no,
         \A s \in Slots : Open(s)' => Open(s) /\ task'[s] = task[s],
         pc[Caller] \notin {"call", "return"} => pc'[Caller] \notin {"call", "return"},
         pc[Caller] # "call" => pc'[Caller] # "call"
  PROVE  TaskInv'
<1>1. Cmd' = Cmd /\ Form' = Form
  BY ScriptSame
<1> SUFFICES ASSUME NEW s \in Slots, Open(s)'
             PROVE  (/\ task[s].call \in 1 .. no
                     /\ task[s].counted => /\ task[s].call = no /\ Cmd.op # "NB"
                                           /\ pc[Caller] \notin {"call", "return"}
                     /\ ~ task[s].counted => ~ task[s].split
                     /\ ~ task[s].counted /\ task[s].call = no => pc[Caller] # "call" /\ Cmd.op = "NB"
                     /\ task[s].split => Form = "rec")'
  BY DEF TaskInv
<1>2. Open(s) /\ task'[s] = task[s]
  OBVIOUS
<1> QED BY <1>1, <1>2 DEF ControlInv, TaskInv

LEMMA CountStands ==
  ASSUME ControlInv, script' = script, no' = no, n' = n, Counted' = Counted,
         pc'[Caller] # "call" => pc[Caller] # "call",
         pc'[Caller] = "return" => pc[Caller] = "return"
  PROVE  CountInv' /\ ReturnInv'
BY ScriptSame DEF ControlInv, CountInv, ReturnInv, Blocking

LEMMA FreshStands ==
  ASSUME ControlInv, UNCHANGED <<theScript, no>>, pc'[Caller] = "call" => pc[Caller] = "call",
         \A c \in Calls : Fresh(c) => n'[c] = n[c] /\ runs'[c] = runs[c]
  PROVE  FreshInv'
BY DEF ControlInv, FreshInv, Fresh, Calls

LEMMA Moved ==
  ASSUME CallTypeOK, NEW t \in Threads, NEW p \in Pcs, At(t, p)
  PROVE  pc' \in [Threads -> Pcs] /\ pc'[t] = p /\ \A u \in Threads : u # t => pc'[u] = pc[u]
BY DEF CallTypeOK, At

\* func(a, b) counts its indices, for its call.
LEMMA FuncRuns ==
  ASSUME CallTypeOK, NEW c, NEW r, Func(c, r)
  PROVE  /\ runs' \in [Calls -> [Indices -> Int]]
         /\ \A d \in Calls : d # c => runs'[d] = runs[d]
         /\ c \in Calls => \A k \in Indices :
              runs'[c][k] = IF Within(k, r) THEN runs[c][k] + 1 ELSE runs[c][k]
<1> DEFINE f == [k \in Indices |-> IF r[1] <= k /\ k < r[2] THEN runs[c][k] + 1 ELSE runs[c][k]]
<1>1. runs' = [runs EXCEPT ![c] = f] /\ runs \in [Calls -> [Indices -> Int]]
  BY DEF Func, CallTypeOK
<1>2. \A k \in Indices : f[k] = IF Within(k, r) THEN runs[c][k] + 1 ELSE runs[c][k]
  BY DEF Within
<1>3. c \in Calls => f \in [Indices -> Int]
  BY <1>1
<1> HIDE DEF f
<1> QED BY <1>1, <1>2, <1>3

LEMMA SlotsUntouched ==
  ASSUME SlotInv, SlotTypeOK, UNCHANGED <<allocVars, own, made, queued>>
  PROVE  SlotInv' /\ SlotTypeOK'
<1>1. UNCHANGED <<shared, cache, peeled, liveCount>>
  BY DEF allocVars
<1>2. SlotTypeOK'
  BY <1>1 DEF SlotTypeOK
<1>3. FreeLists' = FreeLists
  BY <1>1 DEF FreeLists
<1>4. UsesApart' /\ \A s \in Slots : InUse(s)' <=> InUse(s)
  BY DEF SlotInv, UsesApart, InUse
<1>5. Apart(FreeLists)' /\ \A s \in Slots : Names(FreeLists, s)' <=> Names(FreeLists, s)
  BY <1>3 DEF SlotInv
<1> QED BY <1>1, <1>2, <1>4, <1>5, SlotsStand

LEMMA SameTasks ==
  ASSUME UNCHANGED <<queued, own, made, task>>,
         \A u \in Threads : own[u] # None => (pc'[u] = "free" <=> pc[u] = "free"),
         \A u \in Threads : made[u] # None => (pc'[u] = "push" <=> pc[u] = "push")
  PROVE  Counted' = Counted /\ \A s \in Slots : Open(s)' => Open(s) /\ task'[s] = task[s]
<1>1. \A s \in Slots : Open(s)' <=> Open(s)
  BY AllocatorAssumption DEF Open
<1>2. \A s \in Slots : (\E t \in Threads : made[t] = s /\ pc[t] = "push")'
                       <=> (\E t \in Threads : made[t] = s /\ pc[t] = "push")
  BY AllocatorAssumption
<1>3. \A s \in Slots : s \in Counted' <=> s \in Counted
  BY <1>1, <1>2 DEF Counted
<1>4. Counted' = Counted
  BY <1>3 DEF Counted
<1> QED BY <1>1, <1>4

\* A blocking call that waits for nothing, or whose caller is at a call, has no
\* task that counts.
LEMMA NothingCounted ==
  ASSUME ControlInv, \/ pc[Caller] = "call"
                     \/ script # << >> /\ Cmd.op = "NB"
                     \/ pc[Caller] # "call" /\ Cmd.op # "NB" /\ n[no] = 0
                     \/ pc[Caller] = "return"
  PROVE  /\ Counted = {}
         /\ \A s \in Slots : Open(s) => ~ task[s].counted /\ ~ task[s].split
<1>1. IsFiniteSet(Counted)
  BY AllocatorAssumption, FS_Subset DEF Counted
<1>5. Counted = {}
  <2>2. CASE n[no] = 0 /\ pc[Caller] # "call" /\ Cmd.op # "NB"
    BY <1>1, <2>2, FS_EmptySet DEF ControlInv, CountInv, Blocking
  <2>3. CASE pc[Caller] = "return"
    BY <2>3 DEF ControlInv, ReturnInv
  <2>4. CASE pc[Caller] = "call" \/ Cmd.op = "NB"
    <3> SUFFICES ASSUME NEW s \in Counted PROVE FALSE
      OBVIOUS
    <3>1. s \in Slots /\ task[s].counted /\ ~ Open(s)
      BY <2>4 DEF Counted, ControlInv, TaskInv
    <3>2. PICK t \in Threads : made[t] = s /\ pc[t] = "push"
      BY <3>1 DEF Counted
    <3>3. WorkInv(t) /\ pc[Caller] # "call"
      BY <3>2, AtWork DEF Creating, ControlInv
    <3>4. task[s].counted = (Cmd.op # "NB")
      BY <3>2, <3>3 DEF WorkInv
    <3> QED BY <2>4, <3>1, <3>3, <3>4
  <2> QED BY <2>2, <2>3, <2>4
<1>6. ASSUME NEW s \in Slots, Open(s) PROVE ~ task[s].counted /\ ~ task[s].split
  <2>1. ~ task[s].counted
    BY <1>5, <1>6 DEF Counted
  <2> QED BY <1>6, <2>1 DEF ControlInv, TaskInv
<1> QED BY <1>5, <1>6

\* Then nobody but the caller splits or creates.
LEMMA NobodyAtWork ==
  ASSUME ControlInv, \A s \in Slots : Open(s) => ~ task[s].split,
         NEW u \in Threads, u # Caller
  PROVE  pc[u] # "rec" /\ ~ Creating(u)
<1> SUFFICES ASSUME pc[u] = "rec" \/ Creating(u) PROVE FALSE
  OBVIOUS
<1>1. own[u] \in Slots /\ Open(own[u]) /\ WorkInv(u) /\ own[u] # None
  BY AtWork DEF ControlInv
<1> QED BY <1>1 DEF WorkInv

LEMMA BeginControl ==
  ASSUME ControlInv, Begin
  PROVE  ControlInv'
<1> DEFINE p == IF Form = "inline" THEN "return" ELSE Form
<1>1. /\ CallTypeOK /\ SlotInv /\ CallerInv /\ (\A t \in Threads : ThreadInv(t) /\ WorkInv(t))
      /\ TaskInv /\ FreshInv
  BY DEF ControlInv
<1>2. /\ pc[Caller] = "call" /\ script # << >> /\ At(Caller, p) /\ Caller \in Threads
      /\ UNCHANGED <<allocVars, theScript, script, no, right, own, made, task, queued, n, lost>>
  BY CallAssumption DEF Begin
<1>3. script \in Seq(CallRecords) /\ no \in Calls
  BY <1>1, <1>2, CallNumber
<1>4. p \in {"return", "loop", "rec"} /\ Cmd' = Cmd /\ Form' = Form /\ Cmd \in CallRecords
  BY <1>2, <1>3, FormFacts, ScriptSame
<1>5. /\ pc' \in [Threads -> Pcs] /\ pc'[Caller] = p
      /\ \A u \in Threads : u # Caller => pc'[u] = pc[u]
  BY <1>1, <1>2, <1>4, Moved DEF Pcs
<1>6. SlotInv' /\ SlotTypeOK'
  BY <1>1, <1>2, SlotsUntouched DEF CallTypeOK
<1>7. CallTypeOK'
  <2>1. ChunkRange(0) \in Int \X Int /\ <<Cmd.start, Cmd.end>> \in Int \X Int
    BY <1>2, <1>3, <1>4, ChunkRangeType DEF CallRecords
  <2>2. range' \in [Threads -> Int \X Int] /\ i' \in Nat
    BY <1>1, <2>1 DEF Begin, CallTypeOK
  <2>3. runs' \in [Calls -> [Indices -> Int]]
    BY <1>1, FuncRuns DEF Begin, CallTypeOK
  <2> QED BY <1>1, <1>2, <1>5, <1>6, <2>2, <2>3 DEF CallTypeOK, Calls
<1>8. own[Caller] = None /\ made[Caller] = None /\ peeled[Caller] = << >>
  BY <1>1, <1>2 DEF ThreadInv
<1>9. CallerInv'
  BY <1>2, <1>4, <1>5, <1>8 DEF CallerInv
<1>10. ThreadInv(Caller)' /\ WorkInv(Caller)'
  <2>1. UNCHANGED peeled
    BY <1>2 DEF allocVars
  <2> QED BY <1>2, <1>4, <1>5, <1>8, <2>1 DEF ThreadInv, WorkInv, Creating
<1>11. \A u \in Threads : ThreadInv(u)' /\ WorkInv(u)'
  <2>1. UNCHANGED peeled
    BY <1>2 DEF allocVars
  <2> QED BY <1>2, <1>5, <1>10, <2>1, OthersStand
<1>12. Counted' = Counted /\ \A s \in Slots : Open(s)' => Open(s) /\ task'[s] = task[s]
  BY <1>2, <1>5, <1>8, SameTasks
<1>13. Counted = {} /\ \A s \in Slots : Open(s) => ~ task[s].counted /\ ~ task[s].split
  BY <1>2, NothingCounted
<1>14. TaskInv'
  <2> SUFFICES ASSUME NEW s \in Slots, Open(s)'
               PROVE  /\ task[s].call \in 1 .. no /\ ~ task[s].counted /\ ~ task[s].split
                      /\ task[s].call # no
    BY <1>2, <1>12 DEF TaskInv
  <2> QED BY <1>1, <1>2, <1>12, <1>13 DEF TaskInv
<1>15. CountInv'
  <2>1. n[no] = 0
    BY <1>1, <1>2, <1>3 DEF FreshInv, Fresh
  <2> QED BY <1>2, <1>12, <1>13, <2>1, FS_EmptySet DEF CountInv
<1>16. ReturnInv'
  BY <1>12, <1>13 DEF ReturnInv
<1>17. FreshInv'
  <2>1. \A c \in Calls : c > no => runs'[c] = runs[c]
    BY <1>1, <1>2, <1>3, FuncRuns, SMTT(30) DEF Begin, CallTypeOK
  <2> QED BY <1>1, <1>2, <1>4, <1>5, <2>1 DEF FreshInv, Fresh, Calls
<1> QED BY <1>6, <1>7, <1>9, <1>11, <1>14, <1>15, <1>16, <1>17 DEF ControlInv

\* A step that touches no task: what is left to show of it.
LEMMA QuietStep ==
  ASSUME ControlInv, NEW t \in Threads, NEW p \in Pcs, At(t, p),
         UNCHANGED <<allocVars, theScript, script, no, own, made, task, queued>>,
         own[t] # None => (p = "free" <=> pc[t] = "free"),
         made[t] # None => (p = "push" <=> pc[t] = "push"),
         range' \in [Threads -> Int \X Int], right' \in [Threads -> Int \X Int], i' \in Nat,
         n' \in [Calls -> Int], runs' \in [Calls -> [Indices -> Int]],
         \A u \in Threads : u # t => right'[u] = right[u]
  PROVE  /\ CallTypeOK' /\ SlotInv' /\ Cmd' = Cmd /\ Form' = Form
         /\ pc'[t] = p /\ (\A u \in Threads : u # t => pc'[u] = pc[u])
         /\ Counted' = Counted /\ (\A s \in Slots : Open(s)' => Open(s) /\ task'[s] = task[s])
         /\ ThreadInv(t)' /\ WorkInv(t)' => \A u \in Threads : ThreadInv(u)' /\ WorkInv(u)'
<1>1. CallTypeOK /\ SlotInv /\ \A u \in Threads : ThreadInv(u) /\ WorkInv(u)
  BY DEF ControlInv
<1>2. Cmd' = Cmd /\ Form' = Form
  BY ScriptSame
<1>3. /\ pc' \in [Threads -> Pcs] /\ pc'[t] = p
      /\ \A u \in Threads : u # t => pc'[u] = pc[u]
  BY <1>1, Moved
<1>4. SlotInv' /\ SlotTypeOK'
  BY <1>1, SlotsUntouched DEF CallTypeOK
<1>5. CallTypeOK'
  BY <1>1, <1>3, <1>4 DEF CallTypeOK, Calls
<1>6. Counted' = Counted /\ \A s \in Slots : Open(s)' => Open(s) /\ task'[s] = task[s]
  BY <1>3, SameTasks
<1>7. ASSUME ThreadInv(t)', WorkInv(t)' PROVE \A u \in Threads : ThreadInv(u)' /\ WorkInv(u)'
  <2>1. UNCHANGED peeled
    BY DEF allocVars
  <2> QED BY <1>3, <1>7, <2>1, OthersStand
<1> QED BY <1>2, <1>3, <1>4, <1>5, <1>6, <1>7

LEMMA ChunkLoopControl ==
  ASSUME ControlInv, ChunkLoop
  PROVE  ControlInv'
<1>1. CallTypeOK /\ CallerInv /\ ThreadInv(Caller) /\ Caller \in Threads
  BY CallAssumption DEF ControlInv
<1>2. /\ pc[Caller] = "loop" /\ At(Caller, "alloc") /\ i' = i + 1
      /\ right' = [right EXCEPT ![Caller] = ChunkRange(i)]
      /\ UNCHANGED <<allocVars, theScript, script, no, range, own, made, task, queued, n, runs>>
  BY DEF ChunkLoop
<1>3. /\ script # << >> /\ Form = "loop" /\ own[Caller] = None /\ made[Caller] = None
      /\ peeled[Caller] = << >>
  BY <1>1, <1>2 DEF CallerInv, ThreadInv
<1>4. ChunkRange(i) \in Int \X Int
  BY <1>1, <1>3, ChunkRangeType DEF CallTypeOK
<1>5. /\ "alloc" \in Pcs /\ range' \in [Threads -> Int \X Int]
      /\ right' \in [Threads -> Int \X Int] /\ i' \in Nat
      /\ n' \in [Calls -> Int] /\ runs' \in [Calls -> [Indices -> Int]]
      /\ \A u \in Threads : u # Caller => right'[u] = right[u]
  BY <1>1, <1>2, <1>4 DEF CallTypeOK, Pcs
<1>6. /\ CallTypeOK' /\ SlotInv' /\ Cmd' = Cmd /\ Form' = Form
      /\ pc'[Caller] = "alloc" /\ (\A u \in Threads : u # Caller => pc'[u] = pc[u])
      /\ Counted' = Counted /\ (\A s \in Slots : Open(s)' => Open(s) /\ task'[s] = task[s])
      /\ ThreadInv(Caller)' /\ WorkInv(Caller)' =>
           \A u \in Threads : ThreadInv(u)' /\ WorkInv(u)'
  BY <1>1, <1>2, <1>3, <1>5, QuietStep
<1>7. ThreadInv(Caller)' /\ WorkInv(Caller)'
  <2>1. UNCHANGED peeled
    BY <1>2 DEF allocVars
  <2> QED BY <1>2, <1>3, <1>6, <2>1 DEF ThreadInv, WorkInv
<1>8. CallerInv'
  BY <1>2, <1>3, <1>6 DEF CallerInv
<1>9. TaskInv'
  BY <1>2, <1>6, TasksStand
<1>10. CountInv' /\ ReturnInv'
  BY <1>2, <1>6, CountStands
<1>11. FreshInv'
  BY <1>2, <1>6, FreshStands
<1> QED BY <1>6, <1>7, <1>8, <1>9, <1>10, <1>11 DEF ControlInv

LEMMA ChunksDoneControl ==
  ASSUME ControlInv, ChunksDone
  PROVE  ControlInv'
<1> DEFINE p == IF Cmd.op = "NB" THEN "return" ELSE "wait"
<1>1. CallTypeOK /\ CallerInv /\ ThreadInv(Caller) /\ Caller \in Threads
  BY CallAssumption DEF ControlInv
<1>2. /\ pc[Caller] = "loop" /\ At(Caller, p) /\ p \in {"return", "wait"} /\ p \in Pcs
      /\ runs' = runs \/ Func(no, range[Caller])
      /\ UNCHANGED <<allocVars, theScript, script, no, range, right, i, own, made, task, queued,
                     n>>
  BY DEF ChunksDone, Pcs
<1>3. /\ script # << >> /\ Form = "loop" /\ own[Caller] = None /\ made[Caller] = None
      /\ peeled[Caller] = << >> /\ script \in Seq(CallRecords) /\ no \in Nat
  BY <1>1, <1>2 DEF CallerInv, ThreadInv, CallTypeOK
<1>4. /\ runs' \in [Calls -> [Indices -> Int]]
      /\ \A d \in Calls : d # no => runs'[d] = runs[d]
  BY <1>1, <1>2, FuncRuns DEF CallTypeOK
<1>5. /\ range' \in [Threads -> Int \X Int] /\ right' \in [Threads -> Int \X Int] /\ i' \in Nat
      /\ n' \in [Calls -> Int]
      /\ \A u \in Threads : u # Caller => right'[u] = right[u]
  BY <1>1, <1>2 DEF CallTypeOK
<1> HIDE DEF p
<1>6. /\ CallTypeOK' /\ SlotInv' /\ Cmd' = Cmd /\ Form' = Form
      /\ pc'[Caller] = p /\ (\A u \in Threads : u # Caller => pc'[u] = pc[u])
      /\ Counted' = Counted /\ (\A s \in Slots : Open(s)' => Open(s) /\ task'[s] = task[s])
      /\ ThreadInv(Caller)' /\ WorkInv(Caller)' =>
           \A u \in Threads : ThreadInv(u)' /\ WorkInv(u)'
  BY <1>1, <1>2, <1>3, <1>4, <1>5, QuietStep
<1>7. ThreadInv(Caller)' /\ WorkInv(Caller)'
  <2>1. UNCHANGED peeled
    BY <1>2 DEF allocVars
  <2> QED BY <1>2, <1>3, <1>6, <2>1 DEF ThreadInv, WorkInv
<1>8. CallerInv'
  BY <1>2, <1>3, <1>6 DEF CallerInv, p
<1>9. TaskInv' /\ CountInv' /\ ReturnInv'
  <2>a. CASE p = "return"
    <3>1. Counted = {} /\ \A s \in Slots : Open(s) => ~ task[s].counted /\ ~ task[s].split
      BY <1>3, <2>a, NothingCounted DEF p
    <3>2. ReturnInv' /\ CountInv'
      BY <1>6, <2>a, <3>1 DEF ReturnInv, CountInv, Blocking, p
    <3>3. TaskInv'
      <4> SUFFICES ASSUME NEW s \in Slots, Open(s)'
                   PROVE  /\ task[s].call \in 1 .. no /\ ~ task[s].counted /\ ~ task[s].split
                          /\ Cmd'.op = "NB" /\ pc'[Caller] # "call"
        BY <1>2, <1>6 DEF TaskInv
      <4>1. Open(s)
        BY <1>6
      <4> QED BY <1>6, <2>a, <3>1, <4>1 DEF ControlInv, TaskInv, p
    <3> QED BY <3>2, <3>3
  <2>b. CASE p = "wait"
    <3>1. TaskInv'
      BY <1>2, <1>6, <2>b, TasksStand
    <3>2. CountInv' /\ ReturnInv'
      BY <1>2, <1>6, <2>b, CountStands
    <3> QED BY <3>1, <3>2
  <2> QED BY <1>2, <2>a, <2>b
<1>11. FreshInv'
  <2>1. \A c \in Calls : Fresh(c) => n'[c] = n[c] /\ runs'[c] = runs[c]
    BY <1>2, <1>3, <1>4 DEF Fresh
  <2> QED BY <1>2, <1>6, <2>1, FreshStands
<1> QED BY <1>6, <1>7, <1>8, <1>9, <1>11 DEF ControlInv

LEMMA WaitReturnsControl ==
  ASSUME ControlInv, WaitReturns
  PROVE  ControlInv'
<1>1. CallTypeOK /\ CallerInv /\ ThreadInv(Caller) /\ Caller \in Threads
  BY CallAssumption DEF ControlInv
<1>2. /\ pc[Caller] = "wait" /\ At(Caller, "return") /\ n[no] = 0 /\ "return" \in Pcs
      /\ UNCHANGED <<allocVars, theScript, script, no, range, right, i, own, made, task, queued,
                     n, runs>>
  BY DEF WaitReturns, Pcs
<1>3. /\ script # << >> /\ own[Caller] = None /\ made[Caller] = None
      /\ peeled[Caller] = << >> /\ Cmd.op # "NB"
  BY <1>1, <1>2 DEF CallerInv, ThreadInv
<1>5. /\ range' \in [Threads -> Int \X Int] /\ right' \in [Threads -> Int \X Int] /\ i' \in Nat
      /\ n' \in [Calls -> Int] /\ runs' \in [Calls -> [Indices -> Int]]
      /\ \A u \in Threads : u # Caller => right'[u] = right[u]
  BY <1>1, <1>2 DEF CallTypeOK
<1>6. /\ CallTypeOK' /\ SlotInv' /\ Cmd' = Cmd /\ Form' = Form
      /\ pc'[Caller] = "return" /\ (\A u \in Threads : u # Caller => pc'[u] = pc[u])
      /\ Counted' = Counted /\ (\A s \in Slots : Open(s)' => Open(s) /\ task'[s] = task[s])
      /\ ThreadInv(Caller)' /\ WorkInv(Caller)' =>
           \A u \in Threads : ThreadInv(u)' /\ WorkInv(u)'
  BY <1>1, <1>2, <1>3, <1>5, QuietStep
<1>7. ThreadInv(Caller)' /\ WorkInv(Caller)'
  <2>1. UNCHANGED peeled
    BY <1>2 DEF allocVars
  <2> QED BY <1>2, <1>3, <1>6, <2>1 DEF ThreadInv, WorkInv, Creating
<1>8. CallerInv'
  BY <1>2, <1>3, <1>6 DEF CallerInv
<1>9. Counted = {} /\ \A s \in Slots : Open(s) => ~ task[s].counted /\ ~ task[s].split
  BY <1>2, <1>3, NothingCounted
<1>10. ReturnInv' /\ CountInv'
  BY <1>2, <1>6, <1>9, FS_EmptySet DEF ReturnInv, CountInv
<1>11. TaskInv'
  <2> SUFFICES ASSUME NEW s \in Slots, Open(s)'
               PROVE  /\ task[s].call \in 1 .. no /\ ~ task[s].counted /\ ~ task[s].split
                      /\ task[s].call # no
    BY <1>2, <1>6 DEF TaskInv
  <2>1. Open(s)
    BY <1>6
  <2> QED BY <1>3, <1>9, <2>1 DEF ControlInv, TaskInv
<1>12. FreshInv'
  BY <1>2, <1>6, FreshStands
<1> QED BY <1>6, <1>7, <1>8, <1>10, <1>11, <1>12 DEF ControlInv

LEMMA ReturnControl ==
  ASSUME ControlInv, Return
  PROVE  ControlInv'
<1>1. /\ CallTypeOK /\ SlotInv /\ CallerInv /\ Caller \in Threads /\ TaskInv
      /\ \A u \in Threads : ThreadInv(u) /\ WorkInv(u)
  BY CallAssumption DEF ControlInv
<1>2. /\ pc[Caller] = "return" /\ At(Caller, "call") /\ script' = Tail(script) /\ no' = no + 1
      /\ range' = [range EXCEPT ![Caller] = NoRange]
      /\ right' = [right EXCEPT ![Caller] = NoRange] /\ "call" \in Pcs
      /\ UNCHANGED <<allocVars, theScript, i, own, made, task, queued, n, runs>>
  BY DEF Return, Pcs
<1>3. /\ script # << >> /\ own[Caller] = None /\ made[Caller] = None
      /\ peeled[Caller] = << >>
  BY <1>1, <1>2 DEF CallerInv, ThreadInv
<1>4. /\ pc' \in [Threads -> Pcs] /\ pc'[Caller] = "call"
      /\ \A u \in Threads : u # Caller => pc'[u] = pc[u]
  BY <1>1, <1>2, Moved
<1>5. SlotInv' /\ SlotTypeOK'
  BY <1>1, <1>2, SlotsUntouched DEF CallTypeOK
<1>6. CallTypeOK'
  <2>1. script' \in Seq(CallRecords) /\ Len(script') = Len(script) - 1 /\ Len(script) \in Nat
    BY <1>1, <1>2, <1>3 DEF CallTypeOK
  <2>2. no' + Len(script') = Len(theScript') + 1 /\ no' \in Nat \ {0} /\ Len(theScript) \in Nat
    BY <1>1, <1>2, <2>1 DEF CallTypeOK
  <2>3. NoRange \in Int \X Int
    BY DEF NoRange
  <2>4. range' \in [Threads -> Int \X Int] /\ right' \in [Threads -> Int \X Int]
    BY <1>1, <1>2, <2>3 DEF CallTypeOK
  <2> QED BY <1>1, <1>2, <1>4, <1>5, <2>1, <2>2, <2>4 DEF CallTypeOK, Calls
<1>7. Counted = {} /\ \A s \in Slots : Open(s) => ~ task[s].counted /\ ~ task[s].split
  BY <1>2, NothingCounted
<1>8. Counted' = Counted /\ \A s \in Slots : Open(s)' => Open(s) /\ task'[s] = task[s]
  BY <1>2, <1>3, <1>4, SameTasks
<1>9. ASSUME NEW u \in Threads PROVE ThreadInv(u)' /\ WorkInv(u)'
  <2>0. UNCHANGED peeled
    BY <1>2 DEF allocVars
  <2>1. CASE u = Caller
    BY <1>2, <1>3, <1>4, <2>0, <2>1 DEF ThreadInv, WorkInv, Creating
  <2>2. CASE u # Caller
    <3>1. pc[u] # "rec" /\ ~ Creating(u) /\ pc'[u] = pc[u] /\ ThreadInv(u)
      BY <1>1, <1>4, <1>7, <2>2, NobodyAtWork
    <3> QED BY <1>2, <2>0, <2>2, <3>1 DEF ThreadInv, WorkInv, Creating
  <2> QED BY <2>1, <2>2
<1>10. CallerInv'
  BY <1>2, <1>3, <1>4 DEF CallerInv
<1>11. TaskInv'
  <2> SUFFICES ASSUME NEW s \in Slots, Open(s)'
               PROVE  /\ task[s].call \in 1 .. no /\ ~ task[s].counted /\ ~ task[s].split
                      /\ task[s].call # no + 1 /\ task[s].call \in 1 .. no + 1
    BY <1>2, <1>8 DEF TaskInv
  <2>1. Open(s) /\ no \in Nat
    BY <1>1, <1>8 DEF CallTypeOK
  <2> QED BY <1>1, <1>7, <2>1 DEF TaskInv
<1>12. CountInv' /\ ReturnInv'
  BY <1>4 DEF CountInv, ReturnInv, Blocking
<1>13. FreshInv'
  <2>1. \A c \in Calls : c \in Int /\ no \in Int
    BY <1>1 DEF Calls, CallTypeOK
  <2> QED BY <1>2, <2>1 DEF ControlInv, FreshInv, Fresh, Calls
<1> QED BY <1>5, <1>6, <1>9, <1>10, <1>11, <1>12, <1>13 DEF ControlInv

LEMMA SplitControl ==
  ASSUME ControlInv, NEW t \in Threads, Split(t)
  PROVE  ControlInv'
<1> DEFINE mid == range[t][1] + (range[t][2] - range[t][1]) \div 2
<1>1. CallTypeOK /\ CallerInv /\ ThreadInv(t) /\ WorkInv(t)
  BY DEF ControlInv
<1>2. /\ pc[t] = "rec" /\ At(t, "alloc") /\ "alloc" \in Pcs
      /\ right' = [right EXCEPT ![t] = <<mid, range[t][2]>>]
      /\ range' = [range EXCEPT ![t][2] = mid]
      /\ UNCHANGED <<allocVars, theScript, script, no, i, own, made, task, queued, n, runs>>
  BY DEF Split, Pcs
<1>3. Form = "rec" /\ made[t] = None /\ peeled[t] = << >>
  BY <1>1, <1>2 DEF WorkInv, ThreadInv
<1>4. range[t][1] \in Int /\ range[t][2] \in Int /\ mid \in Int
  <2>1. range[t] \in Int \X Int
    BY <1>1 DEF CallTypeOK
  <2> QED BY <2>1
<1>5. /\ range' \in [Threads -> Int \X Int] /\ right' \in [Threads -> Int \X Int] /\ i' \in Nat
      /\ n' \in [Calls -> Int] /\ runs' \in [Calls -> [Indices -> Int]]
      /\ \A u \in Threads : u # t => right'[u] = right[u]
  <2> HIDE DEF mid
  <2>1. range' = [range EXCEPT ![t] = [range[t] EXCEPT ![2] = mid]]
    BY <1>2
  <2>2. [range[t] EXCEPT ![2] = mid] \in Int \X Int
    <3>1. range[t] \in Int \X Int
      BY <1>1 DEF CallTypeOK
    <3> QED BY <1>4, <3>1
  <2> QED BY <1>1, <1>2, <1>4, <2>1, <2>2 DEF CallTypeOK
<1> HIDE DEF mid
<1>6. /\ CallTypeOK' /\ SlotInv' /\ Cmd' = Cmd /\ Form' = Form
      /\ pc'[t] = "alloc" /\ (\A u \in Threads : u # t => pc'[u] = pc[u])
      /\ Counted' = Counted /\ (\A s \in Slots : Open(s)' => Open(s) /\ task'[s] = task[s])
      /\ ThreadInv(t)' /\ WorkInv(t)' => \A u \in Threads : ThreadInv(u)' /\ WorkInv(u)'
  BY <1>1, <1>2, <1>3, <1>5, QuietStep
<1>7. ThreadInv(t)' /\ WorkInv(t)'
  <2>1. UNCHANGED peeled
    BY <1>2 DEF allocVars
  <2> QED BY <1>1, <1>2, <1>3, <1>6, <2>1 DEF ThreadInv, WorkInv
<1>8. CallerInv'
  BY <1>1, <1>2, <1>6, CallAssumption DEF CallerInv
<1>9. TaskInv'
  BY <1>2, <1>6, TasksStand, CallAssumption
<1>10. CountInv' /\ ReturnInv'
  BY <1>2, <1>6, CountStands, CallAssumption
<1>11. FreshInv'
  BY <1>2, <1>6, FreshStands, CallAssumption
<1> QED BY <1>6, <1>7, <1>8, <1>9, <1>10, <1>11 DEF ControlInv

\* Whoever runs func does so for a call that has begun.
LEMMA CallBegun ==
  ASSUME ControlInv, NEW t \in Threads,
         pc[t] = "rec" \/ pc[t] = "leaf" \/ pc[t] = "finish" \/ Creating(t)
  PROVE  ~ Fresh(CallOf(t)) /\ CallOf(t) \in Nat
<1>1. ThreadInv(t) /\ own[t] \in Slots \cup {None} /\ no \in Nat
  BY DEF ControlInv, CallTypeOK, SlotTypeOK
<1>2. CASE pc[t] = "rec" \/ Creating(t)
  BY <1>1, <1>2, AtWork DEF Fresh
<1>3. CASE pc[t] = "leaf" \/ pc[t] = "finish"
  <2>1. own[t] \in Slots /\ Open(own[t]) /\ own[t] # None
    BY <1>1, <1>3 DEF ThreadInv, Open
  <2>2. task[own[t]] \in TaskRecords
    BY <2>1 DEF ControlInv, CallTypeOK
  <2> QED BY <1>1, <2>1, <2>2 DEF ControlInv, TaskInv, Fresh, CallOf
<1> QED BY <1>2, <1>3

LEMMA LeafControl ==
  ASSUME ControlInv, NEW t \in Threads, Leaf(t)
  PROVE  ControlInv'
<1> DEFINE p == IF own[t] = None THEN "wait" ELSE "finish"
<1>1. CallTypeOK /\ CallerInv /\ ThreadInv(t) /\ WorkInv(t)
  BY DEF ControlInv
<1>2. /\ (pc[t] = "leaf" \/ pc[t] = "rec") /\ At(t, p) /\ p \in Pcs
      /\ Func(CallOf(t), range[t])
      /\ UNCHANGED <<allocVars, theScript, script, no, range, right, i, own, made, task, queued,
                     n>>
  BY DEF Leaf, Pcs
<1>3. made[t] = None /\ peeled[t] = << >> /\ (own[t] = None => t = Caller /\ pc[t] = "rec")
  BY <1>1, <1>2 DEF ThreadInv
<1>4. /\ runs' \in [Calls -> [Indices -> Int]]
      /\ \A d \in Calls : d # CallOf(t) => runs'[d] = runs[d]
  BY <1>1, <1>2, FuncRuns
<1>5. /\ range' \in [Threads -> Int \X Int] /\ right' \in [Threads -> Int \X Int] /\ i' \in Nat
      /\ n' \in [Calls -> Int] /\ \A u \in Threads : u # t => right'[u] = right[u]
  BY <1>1, <1>2 DEF CallTypeOK
<1>6. /\ CallTypeOK' /\ SlotInv' /\ Cmd' = Cmd /\ Form' = Form
      /\ pc'[t] = p /\ (\A u \in Threads : u # t => pc'[u] = pc[u])
      /\ Counted' = Counted /\ (\A s \in Slots : Open(s)' => Open(s) /\ task'[s] = task[s])
      /\ ThreadInv(t)' /\ WorkInv(t)' => \A u \in Threads : ThreadInv(u)' /\ WorkInv(u)'
  BY <1>1, <1>2, <1>3, <1>4, <1>5, QuietStep
<1>7. ThreadInv(t)' /\ WorkInv(t)'
  <2>1. UNCHANGED peeled
    BY <1>2 DEF allocVars
  <2> QED BY <1>1, <1>2, <1>3, <1>6, <2>1 DEF ThreadInv, WorkInv, Creating
<1>8. CallerInv'
  <2>1. own[t] = None => Form \in {"loop", "rec"} /\ Cmd.op # "NB"
    <3> SUFFICES ASSUME own[t] = None PROVE Form = "rec" /\ Cmd.op # "NB"
      OBVIOUS
    <3>1. Form = "rec" /\ script # << >>
      BY <1>1, <1>3, AtWork DEF WorkInv
    <3> QED BY <1>1, <3>1, FormFacts DEF CallTypeOK
  <2> QED BY <1>1, <1>2, <1>3, <1>6, <2>1, CallAssumption DEF CallerInv
<1>9. TaskInv'
  BY <1>2, <1>6, TasksStand, CallAssumption
<1>10. CountInv' /\ ReturnInv'
  BY <1>2, <1>6, CountStands, CallAssumption
<1>11. FreshInv'
  <2>1. \A c \in Calls : Fresh(c) => n'[c] = n[c] /\ runs'[c] = runs[c]
    BY <1>2, <1>4, CallBegun
  <2> QED BY <1>2, <1>6, <2>1, FreshStands, CallAssumption
<1> QED BY <1>6, <1>7, <1>8, <1>9, <1>10, <1>11 DEF ControlInv

LEMMA CreateFailsControl ==
  ASSUME ControlInv, NEW t \in Threads, CreateFails(t)
  PROVE  ControlInv'
<1>1. CallTypeOK /\ CallerInv /\ ThreadInv(t) /\ WorkInv(t)
  BY DEF ControlInv
<1>2. /\ pc[t] = "alloc" /\ At(t, Resumed) /\ Resumed \in Pcs
      /\ Func(CallOf(t), right[t]) \/ runs' = runs
      /\ UNCHANGED <<allocVars, theScript, script, no, range, right, i, own, made, task, queued,
                     n>>
  BY DEF CreateFails, Pcs, Resumed
<1>3. made[t] = None /\ peeled[t] = << >>
  BY <1>1, <1>2 DEF ThreadInv
<1>4. /\ runs' \in [Calls -> [Indices -> Int]]
      /\ \A d \in Calls : d # CallOf(t) => runs'[d] = runs[d]
  BY <1>1, <1>2, FuncRuns DEF CallTypeOK
<1>5. /\ range' \in [Threads -> Int \X Int] /\ right' \in [Threads -> Int \X Int] /\ i' \in Nat
      /\ n' \in [Calls -> Int] /\ \A u \in Threads : u # t => right'[u] = right[u]
  BY <1>1, <1>2 DEF CallTypeOK
<1>6. /\ CallTypeOK' /\ SlotInv' /\ Cmd' = Cmd /\ Form' = Form
      /\ pc'[t] = Resumed /\ (\A u \in Threads : u # t => pc'[u] = pc[u])
      /\ Counted' = Counted /\ (\A s \in Slots : Open(s)' => Open(s) /\ task'[s] = task[s])
      /\ ThreadInv(t)' /\ WorkInv(t)' => \A u \in Threads : ThreadInv(u)' /\ WorkInv(u)'
  <2>1. own[t] # None => (Resumed = "free" <=> pc[t] = "free")
    BY <1>2 DEF Resumed
  <2> QED BY <1>1, <1>2, <1>3, <1>4, <1>5, <2>1, QuietStep
<1>7. /\ Form \in {"loop", "rec"} /\ (t # Caller => own[t] # None)
      /\ (own[t] # None => Form = "rec") /\ Resumed = Form
  BY <1>2, AtWork DEF Creating, Resumed
<1>8. ThreadInv(t)' /\ WorkInv(t)'
  <2>1. UNCHANGED peeled
    BY <1>2 DEF allocVars
  <2> QED BY <1>1, <1>2, <1>3, <1>6, <1>7, <2>1 DEF ThreadInv, WorkInv, Creating
<1>9. CallerInv'
  BY <1>1, <1>2, <1>6, <1>7, CallAssumption DEF CallerInv
<1>10. TaskInv'
  BY <1>2, <1>6, <1>7, TasksStand, CallAssumption
<1>11. CountInv' /\ ReturnInv'
  BY <1>2, <1>6, <1>7, CountStands, CallAssumption
<1>12. FreshInv'
  <2>1. \A c \in Calls : Fresh(c) => n'[c] = n[c] /\ runs'[c] = runs[c]
    BY <1>2, <1>4, CallBegun DEF Creating
  <2> QED BY <1>2, <1>6, <1>7, <2>1, FreshStands, CallAssumption
<1> QED BY <1>6, <1>8, <1>9, <1>10, <1>11, <1>12 DEF ControlInv

LEMMA CreateTaskControl ==
  ASSUME ControlInv, NEW t \in Threads, CreateTask(t)
  PROVE  ControlInv'
<1>1. /\ CallTypeOK /\ SlotInv /\ CallerInv /\ ThreadInv(t) /\ WorkInv(t) /\ SlotTypeOK
      /\ \A u \in Threads : ThreadInv(u)
  BY DEF ControlInv, CallTypeOK
<1>2. /\ pc[t] = "alloc"
      /\ UNCHANGED <<theScript, script, no, range, right, i, own, queued, n, runs>>
  BY DEF CreateTask
<1>3. made[t] = None /\ Cmd' = Cmd /\ Form' = Form /\ peeled[t] = << >>
  BY <1>1, <1>2, ScriptSame DEF ThreadInv
<1>4. CASE Refill(t) /\ UNCHANGED <<pc, made, task>>
  <2>1. SlotInv' /\ SlotTypeOK'
    BY <1>1, <1>2, <1>4, RefillSlots
  <2>2. CallTypeOK'
    BY <1>1, <1>2, <1>4, <2>1 DEF CallTypeOK, Calls
  <2>3. UNCHANGED peeled
    BY <1>4 DEF Refill
  <2>4. ThreadInv(t)' /\ WorkInv(t)'
    BY <1>1, <1>2, <1>3, <1>4, <2>3 DEF ThreadInv, WorkInv, Creating
  <2>5. \A u \in Threads : ThreadInv(u)' /\ WorkInv(u)'
    BY <1>2, <1>4, <2>3, <2>4, OthersStand
  <2>6. CallerInv'
    BY <1>1, <1>2, <1>3, <1>4 DEF CallerInv
  <2>7. Counted' = Counted /\ \A s \in Slots : Open(s)' => Open(s) /\ task'[s] = task[s]
    BY <1>2, <1>4, SameTasks
  <2>8. TaskInv'
    BY <1>2, <1>4, <2>7, TasksStand
  <2>9. CountInv' /\ ReturnInv'
    BY <1>2, <1>4, <2>7, CountStands
  <2>10. FreshInv'
    BY <1>2, <1>4, FreshStands
  <2> QED BY <2>1, <2>2, <2>5, <2>6, <2>8, <2>9, <2>10 DEF ControlInv
<1>5. ASSUME NEW r \in Slots, Alloc(t, r),
             At(t, IF Cmd.op = "NB" THEN "push" ELSE "count"),
             made' = [made EXCEPT ![t] = r],
             task' = [task EXCEPT ![r] =
               [call |-> CallOf(t), a |-> right[t][1], b |-> right[t][2],
                split |-> Form = "rec", counted |-> Cmd.op # "NB"]]
      PROVE  ControlInv'
  <2> DEFINE p == IF Cmd.op = "NB" THEN "push" ELSE "count"
             new == [call |-> no, a |-> right[t][1], b |-> right[t][2],
                     split |-> Form = "rec", counted |-> Cmd.op # "NB"]
  <2>1. SlotInv' /\ SlotTypeOK' /\ ~ InUse(r)
    BY <1>1, <1>2, <1>3, <1>5, AllocSlots
  <2>2. /\ pc' \in [Threads -> Pcs] /\ pc'[t] = p
        /\ \A u \in Threads : u # t => pc'[u] = pc[u]
    BY <1>1, <1>5, Moved DEF Pcs
  <2>3. CallOf(t) = no
    BY <1>2, AtWork DEF Creating
  <2>4. /\ task'[r] = new /\ new \in TaskRecords /\ task' \in [Slots -> TaskRecords]
        /\ \A s \in Slots : s # r => task'[s] = task[s]
    <3>1. new \in TaskRecords
      <4>1. right[t] \in Int \X Int /\ no \in Nat
        BY <1>1 DEF CallTypeOK
      <4> QED BY <4>1 DEF TaskRecords
    <3>2. task' = [task EXCEPT ![r] = new]
      BY <1>5, <2>3
    <3> HIDE DEF new
    <3> QED BY <1>1, <3>1, <3>2 DEF CallTypeOK
  <2>5. made'[t] = r /\ \A u \in Threads : u # t => made'[u] = made[u]
    BY <1>1, <1>5 DEF SlotTypeOK
  <2>6. UNCHANGED peeled
    BY <1>5 DEF Alloc
  <2>7. r \notin queued /\ \A u \in Threads : own[u] # r /\ made[u] # r
    BY <2>1 DEF InUse
  <2>8. CallTypeOK'
    BY <1>1, <1>2, <2>1, <2>2, <2>4 DEF CallTypeOK, Calls
  <2>9. ThreadInv(t)'
    BY <1>1, <1>2, <2>2, <2>5, <2>6, AllocatorAssumption DEF ThreadInv
  <2>10. WorkInv(t)'
    <3>1. own[t] # None => task'[own[t]] = task[own[t]]
      BY <1>1, <2>4, <2>7 DEF SlotTypeOK
    <3>2. task'[made'[t]] = new /\ new' = new
      BY <1>2, <1>3, <2>4, <2>5
    <3> HIDE DEF new
    <3>3. (pc[t] \in {"count", "push"} => task[made[t]] = new)'
      BY <3>2
    <3> QED BY <1>1, <1>2, <1>3, <2>2, <3>1, <3>3 DEF WorkInv, Creating, new
  <2>11. \A u \in Threads : ThreadInv(u)' /\ WorkInv(u)'
    <3>1. \A u \in Threads : own[u] \in Slots \cup {None} /\ made[u] \in Slots \cup {None}
      BY <1>1 DEF SlotTypeOK
    <3> QED BY <1>2, <2>2, <2>4, <2>5, <2>6, <2>7, <2>9, <2>10, <3>1, OthersStand
  <2>12. CallerInv'
    BY <1>1, <1>2, <1>3, <2>2, CallAssumption DEF CallerInv
  <2>13. \A s \in Slots : /\ Open(s)' <=> Open(s)
                          /\ s = r => ~ Open(s)
    BY <1>2, <2>2, <2>7 DEF Open
  <2>14. Counted' = Counted
    <3>1. ASSUME NEW s \in Slots, s # r PROVE s \in Counted' <=> s \in Counted
      <4>1. task'[s] = task[s] /\ (Open(s)' <=> Open(s))
        BY <2>4, <2>13, <3>1
      <4>2. \A u \in Threads : made'[u] = s /\ pc'[u] = "push" <=> made[u] = s /\ pc[u] = "push"
        BY <1>3, <2>2, <2>5, <3>1, AllocatorAssumption
      <4> QED BY <4>1, <4>2 DEF Counted
    <3>2. r \notin Counted
      BY <2>7, <2>13 DEF Counted
    <3>3. r \notin Counted'
      <4> SUFFICES ASSUME r \in Counted' PROVE FALSE
        OBVIOUS
      <4>1. /\ task'[r].counted
            /\ \E u \in Threads : made'[u] = r /\ pc'[u] = "push"
        BY <2>13 DEF Counted
      <4>2. p = "push"
        BY <2>2, <2>5, <2>7, <4>1
      <4>3. ~ new.counted
        BY <4>2
      <4> HIDE DEF new
      <4> QED BY <2>4, <4>1, <4>3
    <3> QED BY <3>1, <3>2, <3>3 DEF Counted
  <2>15. TaskInv'
    BY <1>2, <2>2, <2>4, <2>13, TasksStand, CallAssumption
  <2>16. CountInv' /\ ReturnInv'
    BY <1>2, <2>2, <2>14, CountStands, CallAssumption
  <2>17. FreshInv'
    BY <1>2, <2>2, FreshStands, CallAssumption
  <2> QED BY <2>1, <2>8, <2>11, <2>12, <2>15, <2>16, <2>17 DEF ControlInv
<1> QED BY <1>4, <1>5 DEF CreateTask

LEMMA CountTaskControl ==
  ASSUME ControlInv, NEW t \in Threads, CountTask(t)
  PROVE  ControlInv'
<1> DEFINE r == made[t]
<1>1. /\ CallTypeOK /\ SlotInv /\ CallerInv /\ ThreadInv(t) /\ WorkInv(t) /\ SlotTypeOK
      /\ \A u \in Threads : ThreadInv(u)
  BY DEF ControlInv, CallTypeOK
<1>2. /\ pc[t] = "count" /\ At(t, "push") /\ n' = [n EXCEPT ![CallOf(t)] = @ + 1]
      /\ UNCHANGED <<allocVars, theScript, script, no, range, right, i, own, made, task, queued,
                     runs>>
  BY DEF CountTask
<1>3. /\ CallOf(t) = no /\ pc[Caller] \notin {"call", "return"} /\ script # << >>
      /\ Cmd.op # "NB" /\ peeled[t] = << >>
  BY <1>1, <1>2, AtWork DEF Creating, WorkInv, ThreadInv
<1>4. r \in Slots /\ r \notin queued /\ \A u \in Threads : own[u] # r /\ (made[u] = r => u = t)
  <2>1. r # None /\ r \in Slots \cup {None}
    BY <1>1, <1>2 DEF ThreadInv, SlotTypeOK
  <2>2. \A u \in Threads : own[u] = r => own[u] # None
    BY <2>1
  <2> QED BY <1>1, <2>1, <2>2 DEF SlotInv, UsesApart
<1>5. no \in Calls /\ n \in [Calls -> Int]
  BY <1>1, <1>3, CallNumber DEF CallTypeOK
<1>6. n' \in [Calls -> Int] /\ n'[no] = n[no] + 1 /\ \A c \in Calls : c # no => n'[c] = n[c]
  BY <1>2, <1>3, <1>5
<1>7. Cmd' = Cmd /\ Form' = Form
  BY <1>2, ScriptSame
<1>8. /\ pc' \in [Threads -> Pcs] /\ pc'[t] = "push"
      /\ \A u \in Threads : u # t => pc'[u] = pc[u]
  BY <1>1, <1>2, Moved DEF Pcs
<1>9. SlotInv' /\ SlotTypeOK'
  BY <1>1, <1>2, SlotsUntouched
<1>10. CallTypeOK'
  BY <1>1, <1>2, <1>6, <1>8, <1>9 DEF CallTypeOK, Calls
<1>11. UNCHANGED peeled
  BY <1>2 DEF allocVars
<1>12. ThreadInv(t)' /\ WorkInv(t)'
  BY <1>1, <1>2, <1>7, <1>8, <1>11 DEF ThreadInv, WorkInv, Creating
<1>13. \A u \in Threads : ThreadInv(u)' /\ WorkInv(u)'
  BY <1>2, <1>8, <1>11, <1>12, OthersStand
<1>14. CallerInv'
  BY <1>1, <1>2, <1>7, <1>8, CallAssumption DEF CallerInv
<1>15. \A s \in Slots : /\ Open(s)' <=> Open(s)
                        /\ s = r => ~ Open(s)
  BY <1>2, <1>4, <1>8 DEF Open
<1>16. Counted' = Counted \cup {r} /\ r \notin Counted
  <2>1. ASSUME NEW s \in Slots, s # r PROVE s \in Counted' <=> s \in Counted
    <3>1. \A u \in Threads : made'[u] = s /\ pc'[u] = "push" <=> made[u] = s /\ pc[u] = "push"
      BY <1>2, <1>8, <2>1
    <3> QED BY <1>2, <1>15, <3>1 DEF Counted
  <2>2. r \notin Counted
    BY <1>2, <1>4, <1>15 DEF Counted
  <2>3. r \in Counted'
    <3>1. task'[r].counted
      <4>1. task[r].counted = (Cmd.op # "NB")
        BY <1>1, <1>2 DEF WorkInv
      <4> QED BY <1>2, <1>3, <4>1
    <3> QED BY <1>2, <1>4, <1>8, <3>1 DEF Counted
  <2> QED BY <2>1, <2>2, <2>3 DEF Counted
<1>17. CountInv' /\ ReturnInv'
  <2>1. IsFiniteSet(Counted)
    BY AllocatorAssumption, FS_Subset DEF Counted
  <2>2. Cardinality(Counted') = Cardinality(Counted) + 1
    BY <1>16, <2>1, FS_AddElement
  <2>3. n[no] = Cardinality(Counted)
    BY <1>3 DEF ControlInv, CountInv, Blocking
  <2>4. pc'[Caller] # "return"
    BY <1>3, <1>8, CallAssumption
  <2> QED BY <1>2, <1>6, <2>2, <2>3, <2>4 DEF CountInv, ReturnInv
<1>18. TaskInv'
  BY <1>2, <1>8, <1>15, TasksStand, CallAssumption
<1>19. FreshInv'
  <2>1. \A c \in Calls : Fresh(c) => n'[c] = n[c] /\ runs'[c] = runs[c]
    <3>1. no \in Nat
      BY <1>1 DEF CallTypeOK
    <3> QED BY <1>2, <1>3, <1>6, <3>1 DEF Fresh
  <2> QED BY <1>2, <1>8, <2>1, FreshStands, CallAssumption
<1> QED BY <1>9, <1>10, <1>13, <1>14, <1>17, <1>18, <1>19 DEF ControlInv

LEMMA PushTaskControl ==
  ASSUME ControlInv, NEW t \in Threads, PushTask(t)
  PROVE  ControlInv'
<1> DEFINE r == made[t]
<1>1. /\ CallTypeOK /\ SlotInv /\ CallerInv /\ ThreadInv(t) /\ WorkInv(t) /\ SlotTypeOK
      /\ \A u \in Threads : ThreadInv(u)
  BY DEF ControlInv, CallTypeOK
<1>2. /\ pc[t] = "push" /\ At(t, Resumed) /\ queued' = queued \cup {r}
      /\ made' = [made EXCEPT ![t] = None]
      /\ UNCHANGED <<allocVars, theScript, script, no, range, right, i, own, task, n, runs>>
  BY DEF PushTask
<1>3. /\ pc[Caller] \notin {"call", "return"} /\ script # << >>
      /\ Form \in {"loop", "rec"} /\ (t # Caller => own[t] # None)
      /\ (own[t] # None => Form = "rec") /\ Resumed = Form /\ (Cmd.op = "NB" => Form = "loop")
  BY <1>2, AtWork DEF Creating, Resumed
<1>4. r \in Slots /\ r # None
  BY <1>1, <1>2 DEF ThreadInv, SlotTypeOK
<1>5. \A u \in Threads : own[u] # r /\ (made[u] = r => u = t)
  <2>1. \A u \in Threads : own[u] = r => own[u] # None
    BY <1>4
  <2> QED BY <1>1, <1>4, <2>1 DEF SlotInv, UsesApart
<1>6. Cmd' = Cmd /\ Form' = Form /\ UNCHANGED peeled /\ peeled[t] = << >>
  BY <1>1, <1>2, ScriptSame DEF allocVars, ThreadInv
<1>7. /\ pc' \in [Threads -> Pcs] /\ pc'[t] = Form
      /\ \A u \in Threads : u # t => pc'[u] = pc[u]
  BY <1>1, <1>2, <1>3, Moved DEF Pcs
<1>8. SlotInv' /\ SlotTypeOK'
  BY <1>1, <1>2, <1>4, PushSlots
<1>9. CallTypeOK'
  BY <1>1, <1>2, <1>7, <1>8 DEF CallTypeOK, Calls
<1>10. made'[t] = None /\ \A u \in Threads : u # t => made'[u] = made[u]
  BY <1>1, <1>2 DEF SlotTypeOK
<1>11. ThreadInv(t)' /\ WorkInv(t)'
  BY <1>1, <1>2, <1>3, <1>6, <1>7, <1>10 DEF ThreadInv, WorkInv, Creating
<1>12. \A u \in Threads : ThreadInv(u)' /\ WorkInv(u)'
  BY <1>2, <1>6, <1>7, <1>10, <1>11, OthersStand
<1>13. CallerInv'
  BY <1>1, <1>2, <1>3, <1>6, <1>7, CallAssumption DEF CallerInv
<1>14. \A s \in Slots : s # r => (Open(s)' <=> Open(s))
  BY <1>2, <1>3, <1>7 DEF Open
<1>15. Counted' = Counted
  <2>1. ASSUME NEW s \in Slots, s # r PROVE s \in Counted' <=> s \in Counted
    <3>1. \A u \in Threads : made'[u] = s /\ pc'[u] = "push" <=> made[u] = s /\ pc[u] = "push"
      BY <1>2, <1>7, <1>10, <2>1, AllocatorAssumption
    <3> QED BY <1>2, <1>14, <2>1, <3>1 DEF Counted
  <2>2. r \in Counted' <=> r \in Counted
    BY <1>2, <1>4 DEF Counted, Open
  <2> QED BY <2>1, <2>2 DEF Counted
<1>16. /\ task[r].call = no /\ task[r].split = (Form = "rec")
       /\ task[r].counted = (Cmd.op # "NB")
  BY <1>1, <1>2 DEF WorkInv
<1>17. TaskInv'
  <2>1. pc'[Caller] \notin {"call", "return"}
    BY <1>3, <1>7, CallAssumption
  <2>2. ASSUME NEW s \in Slots, Open(s)'
        PROVE  (/\ task[s].call \in 1 .. no
                /\ task[s].counted => /\ task[s].call = no /\ Cmd.op # "NB"
                                      /\ pc[Caller] \notin {"call", "return"}
                /\ ~ task[s].counted => ~ task[s].split
                /\ ~ task[s].counted /\ task[s].call = no => pc[Caller] # "call" /\ Cmd.op = "NB"
                /\ task[s].split => Form = "rec")'
    <3>1. CASE s = r
      <4>1. no \in 1 .. no
        BY <1>1 DEF CallTypeOK
      <4> QED BY <1>2, <1>3, <1>6, <1>16, <2>1, <3>1, <4>1
    <3>2. CASE s # r
      BY <1>2, <1>6, <1>14, <2>1, <2>2, <3>2 DEF ControlInv, TaskInv
    <3> QED BY <3>1, <3>2
  <2> QED BY <2>2 DEF TaskInv
<1>18. CountInv' /\ ReturnInv'
  BY <1>2, <1>3, <1>7, <1>15, CountStands, CallAssumption
<1>19. FreshInv'
  BY <1>2, <1>3, <1>7, FreshStands, CallAssumption
<1> QED BY <1>8, <1>9, <1>12, <1>13, <1>17, <1>18, <1>19 DEF ControlInv

LEMMA RunTaskControl ==
  ASSUME ControlInv, NEW t \in Threads, NEW r \in queued, RunTask(t, r)
  PROVE  ControlInv'
<1> DEFINE p == IF task[r].split THEN "rec" ELSE "leaf"
<1>1. /\ CallTypeOK /\ SlotInv /\ CallerInv /\ ThreadInv(t) /\ WorkInv(t) /\ SlotTypeOK
      /\ \A u \in Threads : ThreadInv(u)
  BY DEF ControlInv, CallTypeOK
<1>2. /\ pc[t] = IF t = Caller THEN "wait" ELSE "idle"
      /\ At(t, p) /\ queued' = queued \ {r} /\ own' = [own EXCEPT ![t] = r]
      /\ range' = [range EXCEPT ![t] = <<task[r].a, task[r].b>>]
      /\ UNCHANGED <<allocVars, theScript, script, no, right, i, made, task, n, runs>>
  BY DEF RunTask
<1>3. r \in Slots /\ Open(r) /\ r # None /\ task[r] \in TaskRecords
  BY <1>1, AllocatorAssumption DEF SlotTypeOK, Open, CallTypeOK
<1>4. own[t] = None /\ made[t] = None /\ peeled[t] = << >>
  BY <1>1, <1>2 DEF ThreadInv
<1>5. Cmd' = Cmd /\ Form' = Form /\ UNCHANGED peeled
  BY <1>1, <1>2, ScriptSame DEF allocVars
<1>6. /\ pc' \in [Threads -> Pcs] /\ pc'[t] = p
      /\ \A u \in Threads : u # t => pc'[u] = pc[u]
  BY <1>1, <1>2, Moved DEF Pcs
<1>7. SlotInv' /\ SlotTypeOK'
  BY <1>1, <1>2, <1>4, RunSlots
<1>8. CallTypeOK'
  <2>1. <<task[r].a, task[r].b>> \in Int \X Int
    BY <1>3 DEF TaskRecords
  <2>2. range' \in [Threads -> Int \X Int]
    BY <1>1, <1>2, <2>1 DEF CallTypeOK
  <2> QED BY <1>1, <1>2, <1>6, <1>7, <2>2 DEF CallTypeOK, Calls
<1>9. own'[t] = r /\ \A u \in Threads : u # t => own'[u] = own[u]
  BY <1>1, <1>2 DEF SlotTypeOK
<1>10. task[r].split => Form = "rec"
  BY <1>3 DEF ControlInv, TaskInv
<1>11. ThreadInv(t)' /\ WorkInv(t)'
  BY <1>1, <1>2, <1>3, <1>4, <1>5, <1>6, <1>9, <1>10 DEF ThreadInv, WorkInv, Creating
<1>12. \A u \in Threads : ThreadInv(u)' /\ WorkInv(u)'
  BY <1>2, <1>5, <1>6, <1>9, <1>11, OthersStand
<1>13. CallerInv'
  BY <1>1, <1>2, <1>5, <1>6, <1>9, CallAssumption DEF CallerInv
<1>14. \A s \in Slots : Open(s)' <=> Open(s)
  <2>1. ASSUME NEW s \in Slots, s # r PROVE Open(s)' <=> Open(s)
    BY <1>2, <1>4, <1>6, <1>9, <2>1, AllocatorAssumption DEF Open
  <2>2. Open(r)'
    BY <1>6, <1>9 DEF Open
  <2> QED BY <1>3, <2>1, <2>2
<1>15. Counted' = Counted
  <2>1. ASSUME NEW s \in Slots PROVE s \in Counted' <=> s \in Counted
    <3>1. \A u \in Threads : made'[u] = s /\ pc'[u] = "push" <=> made[u] = s /\ pc[u] = "push"
      BY <1>2, <1>4, <1>6, AllocatorAssumption
    <3> QED BY <1>2, <1>14, <3>1 DEF Counted
  <2> QED BY <2>1 DEF Counted
<1>16. TaskInv'
  BY <1>2, <1>6, <1>14, TasksStand, CallAssumption
<1>17. CountInv' /\ ReturnInv'
  BY <1>2, <1>6, <1>15, CountStands, CallAssumption
<1>18. FreshInv'
  BY <1>2, <1>6, FreshStands, CallAssumption
<1> QED BY <1>7, <1>8, <1>12, <1>13, <1>16, <1>17, <1>18 DEF ControlInv

LEMMA FinishControl ==
  ASSUME ControlInv, NEW t \in Threads, Finish(t)
  PROVE  ControlInv'
<1> DEFINE r == own[t]
<1>1. /\ CallTypeOK /\ SlotInv /\ CallerInv /\ ThreadInv(t) /\ WorkInv(t) /\ SlotTypeOK
      /\ \A u \in Threads : ThreadInv(u)
  BY DEF ControlInv, CallTypeOK
<1>2. /\ pc[t] = "finish" /\ At(t, "free")
      /\ n' = IF task[r].counted THEN [n EXCEPT ![task[r].call] = @ - 1] ELSE n
      /\ UNCHANGED <<allocVars, theScript, script, no, range, right, i, own, made, task, queued,
                     runs>>
  BY DEF Finish
<1>3. r \in Slots /\ r # None /\ made[t] = None /\ peeled[t] = << >> /\ Open(r)
  BY <1>1, <1>2 DEF ThreadInv, SlotTypeOK, Open
<1>4. r \notin queued /\ \A u \in Threads : made[u] # r /\ (own[u] = r => u = t)
  BY <1>1, <1>3 DEF SlotInv, UsesApart
<1>5. Cmd' = Cmd /\ Form' = Form /\ UNCHANGED peeled
  BY <1>1, <1>2, ScriptSame DEF allocVars
<1>6. /\ pc' \in [Threads -> Pcs] /\ pc'[t] = "free"
      /\ \A u \in Threads : u # t => pc'[u] = pc[u]
  BY <1>1, <1>2, Moved DEF Pcs
<1>7. SlotInv' /\ SlotTypeOK'
  BY <1>1, <1>2, SlotsUntouched
<1>8. /\ task[r].counted => /\ task[r].call = no /\ pc[Caller] \notin {"call", "return"}
                            /\ script # << >> /\ no \in Calls
      /\ n \in [Calls -> Int]
  <2>1. task[r].counted => task[r].call = no /\ pc[Caller] \notin {"call", "return"}
    BY <1>3 DEF ControlInv, TaskInv
  <2>2. pc[Caller] # "call" => script # << >> /\ no \in Calls
    BY <1>1, CallNumber DEF CallerInv
  <2> QED BY <1>1, <2>1, <2>2 DEF CallTypeOK
<1>9. /\ n' \in [Calls -> Int] /\ \A c \in Calls : c # no => n'[c] = n[c]
      /\ task[r].counted => n'[no] = n[no] - 1
      /\ ~ task[r].counted => n' = n
  BY <1>2, <1>8
<1>10. CallTypeOK'
  BY <1>1, <1>2, <1>6, <1>7, <1>9 DEF CallTypeOK, Calls
<1>11. ThreadInv(t)' /\ WorkInv(t)'
  BY <1>1, <1>2, <1>3, <1>5, <1>6 DEF ThreadInv, WorkInv, Creating
<1>12. \A u \in Threads : ThreadInv(u)' /\ WorkInv(u)'
  BY <1>2, <1>5, <1>6, <1>11, OthersStand
<1>13. CallerInv'
  BY <1>1, <1>2, <1>5, <1>6, CallAssumption DEF CallerInv
<1>14. \A s \in Slots : Open(s)' <=> Open(s) /\ s # r
  <2>1. ASSUME NEW s \in Slots, s # r PROVE Open(s)' <=> Open(s)
    BY <1>2, <1>6, <2>1 DEF Open
  <2>2. \A s \in Slots : s = r => ~ Open(s)'
    BY <1>2, <1>4, <1>6 DEF Open
  <2> QED BY <1>3, <2>1, <2>2
<1>15. Counted' = Counted \ {r} /\ (r \in Counted <=> task[r].counted)
  <2>1. ASSUME NEW s \in Slots PROVE s \in Counted' <=> s \in Counted \ {r}
    <3>1. \A u \in Threads : made'[u] = s /\ pc'[u] = "push" <=> made[u] = s /\ pc[u] = "push"
      BY <1>2, <1>3, <1>6, AllocatorAssumption
    <3>2. CASE s # r
      BY <1>2, <1>14, <3>1, <3>2 DEF Counted
    <3>3. CASE s = r
      BY <1>2, <1>4, <1>14, <3>3 DEF Counted
    <3> QED BY <3>2, <3>3
  <2>2. r \in Counted <=> task[r].counted
    BY <1>3 DEF Counted
  <2> QED BY <2>1, <2>2 DEF Counted
<1>16. TaskInv'
  BY <1>2, <1>6, <1>14, TasksStand, CallAssumption
<1>17. CASE task[r].counted
  <2>1. IsFiniteSet(Counted)
    BY AllocatorAssumption, FS_Subset DEF Counted
  <2>2. Cardinality(Counted') = Cardinality(Counted) - 1
    BY <1>15, <1>17, <2>1, FS_RemoveElement
  <2>3. n[no] = Cardinality(Counted)
    <3>1. Cmd.op # "NB"
      BY <1>3, <1>17 DEF ControlInv, TaskInv
    <3> QED BY <1>8, <1>17, <3>1 DEF ControlInv, CountInv, Blocking
  <2>4. pc'[Caller] # "return"
    BY <1>6, <1>8, <1>17, CallAssumption
  <2>5. CountInv' /\ ReturnInv'
    BY <1>2, <1>9, <1>17, <2>2, <2>3, <2>4 DEF CountInv, ReturnInv
  <2>6. \A c \in Calls : Fresh(c) => n'[c] = n[c] /\ runs'[c] = runs[c]
    <3>1. no \in Nat
      BY <1>1 DEF CallTypeOK
    <3> QED BY <1>2, <1>8, <1>9, <1>17, <3>1 DEF Fresh
  <2>7. FreshInv'
    BY <1>2, <1>6, <2>6, FreshStands, CallAssumption
  <2> QED BY <1>7, <1>10, <1>12, <1>13, <1>16, <2>5, <2>7 DEF ControlInv
<1>18. CASE ~ task[r].counted
  <2>1. Counted' = Counted
    BY <1>15, <1>18
  <2>2. CountInv' /\ ReturnInv'
    BY <1>2, <1>6, <1>9, <1>18, <2>1, CountStands, CallAssumption
  <2>3. FreshInv'
    BY <1>2, <1>6, <1>9, <1>18, FreshStands, CallAssumption
  <2> QED BY <1>7, <1>10, <1>12, <1>13, <1>16, <2>2, <2>3 DEF ControlInv
<1> QED BY <1>17, <1>18

LEMMA FreeTaskControl ==
  ASSUME ControlInv, NEW t \in Threads, FreeTask(t)
  PROVE  ControlInv'
<1> DEFINE r == own[t]
           rest == IF t = Caller THEN "wait" ELSE "idle"
<1>1. /\ CallTypeOK /\ SlotInv /\ CallerInv /\ ThreadInv(t) /\ WorkInv(t) /\ SlotTypeOK
      /\ \A u \in Threads : ThreadInv(u)
  BY DEF ControlInv, CallTypeOK
<1>2. UNCHANGED <<theScript, script, no, i, made, queued, n, runs>>
  BY DEF FreeTask
<1>3. Cmd' = Cmd /\ Form' = Form
  BY <1>2, ScriptSame
<1>4. ASSUME pc[t] = "free", Free(t, r), task' = [task EXCEPT ![r] = NoTask],
             own' = [own EXCEPT ![t] = None], range' = [range EXCEPT ![t] = NoRange],
             right' = [right EXCEPT ![t] = NoRange],
             At(t, IF peeled'[t] # << >> THEN "splice" ELSE rest)
      PROVE  ControlInv'
  <2> DEFINE p == IF peeled'[t] # << >> THEN "splice" ELSE rest
  <2>1. r \in Slots /\ r # None /\ made[t] = None /\ peeled[t] = << >>
    BY <1>1, <1>4 DEF ThreadInv, SlotTypeOK
  <2>2. r \notin queued /\ \A u \in Threads : made[u] # r /\ (own[u] = r => u = t)
    BY <1>1, <2>1 DEF SlotInv, UsesApart
  <2>3. SlotInv' /\ SlotTypeOK'
    BY <1>1, <1>2, <1>4, <2>1, FreeSlots
  <2>4. /\ pc' \in [Threads -> Pcs] /\ pc'[t] = p /\ p \in {"splice", rest}
        /\ \A u \in Threads : u # t => pc'[u] = pc[u]
    BY <1>1, <1>4, Moved DEF Pcs
  <2>5. /\ own'[t] = None /\ \A u \in Threads : u # t =>
             own'[u] = own[u] /\ right'[u] = right[u] /\ peeled'[u] = peeled[u]
    BY <1>1, <1>4 DEF SlotTypeOK, Free
  <2>6. NoTask \in TaskRecords /\ NoRange \in Int \X Int
    BY DEF NoTask, TaskRecords, NoRange
  <2>7. /\ range' \in [Threads -> Int \X Int] /\ right' \in [Threads -> Int \X Int]
        /\ task' \in [Slots -> TaskRecords] /\ \A s \in Slots : s # r => task'[s] = task[s]
    BY <1>1, <1>4, <2>6 DEF CallTypeOK
  <2>8. CallTypeOK'
    BY <1>1, <1>2, <2>3, <2>4, <2>7 DEF CallTypeOK, Calls
  <2>9. ThreadInv(t)' /\ WorkInv(t)'
    BY <1>2, <2>1, <2>4, <2>5 DEF ThreadInv, WorkInv, Creating
  <2>10. \A u \in Threads : ThreadInv(u)' /\ WorkInv(u)'
    <3>1. \A u \in Threads : own[u] \in Slots \cup {None} /\ made[u] \in Slots \cup {None}
      BY <1>1 DEF SlotTypeOK
    <3> QED BY <1>2, <2>2, <2>4, <2>5, <2>7, <2>9, <3>1, OthersStand
  <2>11. CallerInv'
    <3> HIDE DEF p
    <3>1. CASE t = Caller
      <4>1. pc'[Caller] \in {"splice", "wait"} /\ own[Caller] # None /\ pc[Caller] = "free"
        BY <1>4, <2>1, <2>4, <3>1
      <4> QED BY <1>1, <1>2, <1>3, <4>1 DEF CallerInv
    <3>2. CASE t # Caller
      <4>1. pc'[Caller] = pc[Caller] /\ own'[Caller] = own[Caller]
        BY <2>4, <2>5, <3>2, CallAssumption
      <4> QED BY <1>1, <1>2, <1>3, <4>1 DEF CallerInv
    <3> QED BY <3>1, <3>2
  <2>12. \A s \in Slots : /\ Open(s)' <=> Open(s)
                          /\ s = r => ~ Open(s)
    <3>1. \A s \in Slots : s = r => ~ Open(s) /\ ~ Open(s)'
      BY <1>2, <1>4, <2>1, <2>2, <2>5 DEF Open
    <3>2. ASSUME NEW s \in Slots, s # r PROVE Open(s)' <=> Open(s)
      BY <1>2, <2>4, <2>5, <3>2, AllocatorAssumption DEF Open
    <3> QED BY <3>1, <3>2
  <2>13. Counted' = Counted
    <3>1. ASSUME NEW s \in Slots, s # r PROVE s \in Counted' <=> s \in Counted
      <4>1. \A u \in Threads : made'[u] = s /\ pc'[u] = "push" <=> made[u] = s /\ pc[u] = "push"
        BY <1>2, <2>1, <2>4, AllocatorAssumption
      <4> QED BY <2>7, <2>12, <3>1, <4>1 DEF Counted
    <3>2. r \notin Counted /\ r \notin Counted'
      BY <1>2, <2>2, <2>12 DEF Counted
    <3> QED BY <3>1, <3>2 DEF Counted
  <2>14. TaskInv'
    BY <1>2, <2>4, <2>7, <2>12, TasksStand, CallAssumption
  <2>15. CountInv' /\ ReturnInv'
    BY <1>2, <1>4, <2>4, <2>13, CountStands, CallAssumption
  <2>16. FreshInv'
    BY <1>2, <2>4, FreshStands, CallAssumption
  <2> QED BY <2>3, <2>8, <2>10, <2>11, <2>14, <2>15, <2>16 DEF ControlInv
<1>5. ASSUME pc[t] = "splice", Splice(t), At(t, rest), UNCHANGED <<task, own, range, right>>
      PROVE  ControlInv'
  <2>1. own[t] = None /\ made[t] = None
    BY <1>1, <1>5 DEF ThreadInv
  <2>2. SlotInv' /\ SlotTypeOK'
    BY <1>1, <1>2, <1>5, SpliceSlots
  <2>3. /\ pc' \in [Threads -> Pcs] /\ pc'[t] = rest
        /\ \A u \in Threads : u # t => pc'[u] = pc[u]
    BY <1>1, <1>5, Moved DEF Pcs
  <2>4. peeled'[t] = << >> /\ \A u \in Threads : u # t => peeled'[u] = peeled[u]
    BY <1>1, <1>5 DEF SlotTypeOK, Splice
  <2>5. CallTypeOK'
    BY <1>1, <1>2, <1>5, <2>2, <2>3 DEF CallTypeOK, Calls
  <2>6. ThreadInv(t)' /\ WorkInv(t)'
    BY <1>2, <1>5, <2>1, <2>3, <2>4 DEF ThreadInv, WorkInv, Creating
  <2>7. \A u \in Threads : ThreadInv(u)' /\ WorkInv(u)'
    BY <1>2, <1>5, <2>3, <2>4, <2>6, OthersStand
  <2>8. CallerInv'
    BY <1>1, <1>2, <1>3, <1>5, <2>3, CallAssumption DEF CallerInv
  <2>9. Counted' = Counted /\ \A s \in Slots : Open(s)' => Open(s) /\ task'[s] = task[s]
    BY <1>2, <1>5, <2>1, <2>3, SameTasks
  <2>10. TaskInv'
    BY <1>2, <2>3, <2>9, TasksStand, CallAssumption
  <2>11. CountInv' /\ ReturnInv'
    BY <1>2, <1>5, <2>3, <2>9, CountStands, CallAssumption
  <2>12. FreshInv'
    BY <1>2, <2>3, FreshStands, CallAssumption
  <2> QED BY <2>2, <2>5, <2>7, <2>8, <2>10, <2>11, <2>12 DEF ControlInv
<1> QED BY <1>4, <1>5 DEF FreeTask

\* SetToSeq lists a finite set, each element once.
LEMMA ListOfSlots ==
  /\ SetToSeq(Slots) \in Seq(Slots)
  /\ \A s \in Slots : \E j \in 1 .. Len(SetToSeq(Slots)) : SetToSeq(Slots)[j] = s
  /\ \A j, k \in 1 .. Len(SetToSeq(Slots)) : SetToSeq(Slots)[j] = SetToSeq(Slots)[k] => j = k
<1> DEFINE N == Cardinality(Slots)
           Lists(f) == f \in [1 .. N -> Slots] /\ IsInjective(f)
           q == SetToSeq(Slots)
<1>1. N \in Nat /\ IsFiniteSet(Slots)
  BY AllocatorAssumption, FS_CardinalityType
<1>2. PICK f : f \in Bijection(1 .. N, Slots)
  BY <1>1, FS_CardinalityType DEF ExistsBijection
<1>3. Lists(f)
  BY <1>2 DEF Bijection, Injection
<1>4. Lists(q)
  BY <1>3 DEF SetToSeq
<1> HIDE DEF q, N
<1>5. q \in Injection(1 .. N, Slots)
  BY <1>4 DEF Injection
<1>6. Cardinality(1 .. N) = Cardinality(Slots)
  <2>1. Cardinality(1 .. N) = N
    BY <1>1, FS_Interval
  <2> QED BY <2>1 DEF N
<1>7. q \in Surjection(1 .. N, Slots)
  BY <1>1, <1>5, <1>6, FS_Injection
<1>8. q \in Seq(Slots) /\ Len(q) = N
  BY <1>1, <1>4
<1>9. \A s \in Slots : \E j \in 1 .. Len(q) : q[j] = s
  BY <1>7, <1>8 DEF Surjection
<1>10. \A j, k \in 1 .. Len(q) : q[j] = q[k] => j = k
  BY <1>4, <1>8 DEF IsInjective
<1> QED BY <1>8, <1>9, <1>10 DEF q

LEMMA InitControl == Init => ControlInv
<1> SUFFICES ASSUME Init PROVE ControlInv
  OBVIOUS
<1> DEFINE q == SetToSeq(Slots)
<1>1. /\ shared = q /\ cache = [t \in Threads |-> << >>] /\ peeled = [t \in Threads |-> << >>]
      /\ liveCount = 0 /\ theScript \in Scripts /\ script = theScript /\ no = 1
      /\ pc = [t \in Threads |-> IF t = Caller THEN "call" ELSE "idle"]
      /\ range = [t \in Threads |-> NoRange] /\ right = [t \in Threads |-> NoRange]
      /\ i = 0 /\ own = [t \in Threads |-> None] /\ made = [t \in Threads |-> None]
      /\ task = [s \in Slots |-> NoTask] /\ queued = {}
      /\ n = [c \in Calls |-> 0] /\ runs = [c \in Calls |-> [k \in Indices |-> 0]]
  BY DEF Init, AllocInit
<1>2. /\ q \in Seq(Slots) /\ (\A s \in Slots : \E j \in 1 .. Len(q) : q[j] = s)
      /\ \A j, k \in 1 .. Len(q) : q[j] = q[k] => j = k
  BY ListOfSlots
<1> HIDE DEF q
<1>3. SlotTypeOK
  BY <1>1, <1>2 DEF SlotTypeOK
<1>4. CallTypeOK
  <2>1. theScript \in Seq(CallRecords) /\ Len(script) \in Nat
    BY <1>1, CallAssumption DEF CallRecords
  <2>2. NoTask \in TaskRecords /\ NoRange \in Int \X Int
    BY DEF NoTask, TaskRecords, NoRange
  <2>3. pc \in [Threads -> Pcs]
    BY <1>1 DEF Pcs
  <2> QED BY <1>1, <1>3, <2>1, <2>2, <2>3 DEF CallTypeOK
<1>5. FreeLists[<<"shared", None>>] = q /\ <<"shared", None>> \in ListIds
  BY <1>1, ListOfId
<1>6. \A x \in ListIds : x # <<"shared", None>> => FreeLists[x] = << >>
  BY <1>1 DEF FreeLists, ListIds
<1>7. Apart(FreeLists)
  <2> SUFFICES ASSUME NEW x \in ListIds, NEW y \in ListIds, NEW j \in 1 .. Len(FreeLists[x]),
                      NEW k \in 1 .. Len(FreeLists[y]), FreeLists[x][j] = FreeLists[y][k]
               PROVE  x = y /\ j = k
    BY DEF Apart
  <2>1. x = <<"shared", None>> /\ y = <<"shared", None>>
    <3>1. Len(<< >>) = 0
      OBVIOUS
    <3> QED BY <1>6, <3>1
  <2>2. FreeLists[x] = q /\ FreeLists[y] = q
    BY <1>5, <2>1
  <2> QED BY <1>2, <2>1, <2>2
<1>8. \A s \in Slots : ~ InUse(s)
  BY <1>1, AllocatorAssumption DEF InUse
<1>9. \A s \in Slots : Names(FreeLists, s)
  BY <1>2, <1>5 DEF Names
<1>10. SlotInv
  <2>1. {s \in Slots : InUse(s)} = {}
    BY <1>8
  <2>2. UsesApart
    BY <1>1 DEF UsesApart
  <2> QED BY <1>1, <1>7, <1>8, <1>9, <2>1, <2>2, FS_EmptySet DEF SlotInv
<1>11. pc[Caller] = "call" /\ \A t \in Threads : t # Caller => pc[t] = "idle"
  BY <1>1, CallAssumption
<1>12. \A s \in Slots : ~ Open(s)
  BY <1>8 DEF Open, InUse
<1>13. \A t \in Threads : ThreadInv(t) /\ WorkInv(t)
  BY <1>1, <1>11 DEF ThreadInv, WorkInv, Creating
<1>14. CallerInv /\ TaskInv /\ CountInv /\ ReturnInv
  BY <1>1, <1>11, <1>12, CallAssumption DEF CallerInv, TaskInv, CountInv, ReturnInv, Blocking
<1>15. FreshInv
  BY <1>1 DEF FreshInv
<1> QED BY <1>4, <1>10, <1>13, <1>14, <1>15 DEF ControlInv

LEMMA NextControl == ControlInv /\ [Next]_vars => ControlInv'
<1> SUFFICES ASSUME ControlInv, [Next]_vars PROVE ControlInv'
  OBVIOUS
<1>1. CASE UNCHANGED vars
  <2>1. /\ UNCHANGED <<shared, cache, peeled, liveCount>>
        /\ UNCHANGED <<theScript, script, no, pc, range, right, i, own, made, task, queued, n, runs>>
    BY <1>1 DEF vars, allocVars, callVars
  <2>2. SlotTypeOK' /\ SlotInv'
    BY <2>1, SlotsUntouched DEF ControlInv, CallTypeOK, allocVars
  <2>3. CallTypeOK'
    BY <2>1, <2>2 DEF ControlInv, CallTypeOK, Calls
  <2>4. Cmd' = Cmd /\ Form' = Form
    BY <2>1, ScriptSame
  <2>5. CallerInv'
    BY <2>1, <2>4 DEF ControlInv, CallerInv
  <2>6. ThreadInv(Caller)' /\ WorkInv(Caller)'
    BY <2>1, <2>4, CallAssumption DEF ControlInv, ThreadInv, WorkInv, Creating
  <2>7. \A u \in Threads : ThreadInv(u)' /\ WorkInv(u)'
    BY <2>1, <2>6, OthersStand, CallAssumption
  <2>8. Counted' = Counted /\ \A s \in Slots : Open(s)' => Open(s) /\ task'[s] = task[s]
    BY <2>1, SameTasks
  <2>9. TaskInv'
    BY <2>1, <2>8, TasksStand
  <2>10. CountInv' /\ ReturnInv'
    BY <2>1, <2>8, CountStands
  <2>11. FreshInv'
    BY <2>1, FreshStands
  <2> QED BY <2>2, <2>3, <2>5, <2>7, <2>9, <2>10, <2>11 DEF ControlInv
<1>2. CASE CallerStep
  BY <1>2, BeginControl, ChunkLoopControl, ChunksDoneControl, WaitReturnsControl, ReturnControl
     DEF CallerStep
<1>3. ASSUME NEW t \in Threads, Step(t) PROVE ControlInv'
  BY <1>3, SplitControl, LeafControl, CreateTaskControl, CreateFailsControl, CountTaskControl,
     PushTaskControl, RunTaskControl, FinishControl, FreeTaskControl DEF Step
<1> QED BY <1>1, <1>2, <1>3 DEF Next

LEMMA ControlAlways == Spec => []ControlInv
BY InitControl, NextControl, PTL DEF Spec

\* A list names a slot where FreePlaces says.
LEMMA SlotInvSuffices == ControlInv => SlotOwnedOnce
<1> SUFFICES ASSUME ControlInv PROVE SlotOwnedOnce
  OBVIOUS
<1>0. SlotInv /\ UsesApart /\ Apart(FreeLists) /\ SlotTypeOK
  BY DEF ControlInv, SlotInv, CallTypeOK
<1> DEFINE Place(x, j) == <<x[1], x[2], j>>
<1>1. ASSUME NEW s \in Slots
      PROVE  \A p : p \in FreePlaces(s) <=>
               \E x \in ListIds : \E j \in 1 .. Len(FreeLists[x]) :
                 FreeLists[x][j] = s /\ p = Place(x, j)
  <2>1. /\ DOMAIN shared = 1 .. Len(shared)
        /\ \A t \in Threads : /\ DOMAIN cache[t] = 1 .. Len(cache[t])
                              /\ DOMAIN peeled[t] = 1 .. Len(peeled[t])
    BY <1>0 DEF SlotTypeOK
  <2> DEFINE A == {<<"shared", None, j>> : j \in Find(s, shared)}
             C(t) == {<<"cache", t, j>> : j \in Find(s, cache[t])}
             P(t) == {<<"peeled", t, j>> : j \in Find(s, peeled[t])}
             U == UNION {C(t) : t \in Threads}
             V == UNION {P(t) : t \in Threads}
  <2>4. FreePlaces(s) = A \cup U \cup V
    BY DEF FreePlaces
  <2>5. \A p : p \in FreePlaces(s) <=> \/ p \in A \/ (\E t \in Threads : p \in C(t))
                                      \/ \E t \in Threads : p \in P(t)
    <3> HIDE DEF A, C, P
    <3> TAKE p
    <3>1. p \in U <=> \E t \in Threads : p \in C(t)
      BY Zenon
    <3>2. p \in V <=> \E t \in Threads : p \in P(t)
      BY Zenon
    <3> HIDE DEF U, V
    <3> QED BY <2>4, <3>1, <3>2
  <2>2. ASSUME NEW p, p \in FreePlaces(s)
        PROVE  \E x \in ListIds : \E j \in 1 .. Len(FreeLists[x]) :
                 FreeLists[x][j] = s /\ p = Place(x, j)
    <3>1. CASE p \in A
      BY <2>1, <3>1, ListOfId DEF Find
    <3>2. ASSUME NEW t \in Threads, p \in C(t)
          PROVE  \E x \in ListIds : \E j \in 1 .. Len(FreeLists[x]) :
                   FreeLists[x][j] = s /\ p = Place(x, j)
      <4>1. PICK j \in 1 .. Len(cache[t]) : cache[t][j] = s /\ p = Place(<<"cache", t>>, j)
        BY <2>1, <3>2 DEF Find
      <4> QED BY <4>1, ListOfId
    <3>3. ASSUME NEW t \in Threads, p \in P(t)
          PROVE  \E x \in ListIds : \E j \in 1 .. Len(FreeLists[x]) :
                   FreeLists[x][j] = s /\ p = Place(x, j)
      <4>1. PICK j \in 1 .. Len(peeled[t]) : peeled[t][j] = s /\ p = Place(<<"peeled", t>>, j)
        BY <2>1, <3>3 DEF Find
      <4> QED BY <4>1, ListOfId
    <3> HIDE DEF Place, A, C, P
    <3> QED BY <2>2, <2>5, <3>1, <3>2, <3>3
  <2>3. ASSUME NEW x \in ListIds, NEW j \in 1 .. Len(FreeLists[x]), FreeLists[x][j] = s
        PROVE  Place(x, j) \in FreePlaces(s)
    <3>1. CASE x = <<"shared", None>>
      BY <2>1, <2>3, <2>5, <3>1, ListOfId DEF Find
    <3>2. ASSUME NEW t \in Threads, x = <<"cache", t>> PROVE Place(x, j) \in FreePlaces(s)
      <4>1. j \in Find(s, cache[t]) /\ Place(x, j) = <<"cache", t, j>>
        BY <2>1, <2>3, <3>2, ListOfId DEF Find
      <4>2. Place(x, j) \in C(t)
        BY <4>1
      <4> QED BY <2>5, <4>2
    <3>3. ASSUME NEW t \in Threads, x = <<"peeled", t>> PROVE Place(x, j) \in FreePlaces(s)
      <4>1. j \in Find(s, peeled[t]) /\ Place(x, j) = <<"peeled", t, j>>
        BY <2>1, <2>3, <3>3, ListOfId DEF Find
      <4>2. Place(x, j) \in P(t)
        BY <4>1
      <4> QED BY <2>5, <4>2
    <3> QED BY <3>1, <3>2, <3>3 DEF ListIds
  <2> QED BY <2>2, <2>3
<1>2. ASSUME NEW s \in Slots PROVE FreePlaces(s) # {} <=> Names(FreeLists, s)
  <2>1. ASSUME Names(FreeLists, s) PROVE FreePlaces(s) # {}
    <3>1. PICK x \in ListIds : \E j \in 1 .. Len(FreeLists[x]) : FreeLists[x][j] = s
      BY <2>1 DEF Names
    <3>2. PICK j \in 1 .. Len(FreeLists[x]) : FreeLists[x][j] = s
      BY <3>1
    <3>3. Place(x, j) \in FreePlaces(s)
      BY <1>1, <3>2
    <3> QED BY <3>3
  <2>2. ASSUME NEW p \in FreePlaces(s) PROVE Names(FreeLists, s)
    <3> HIDE DEF Place
    <3> QED BY <1>1 DEF Names
  <2> QED BY <2>1, <2>2
<1>3. ASSUME NEW s \in Slots, NEW p \in FreePlaces(s), NEW o \in FreePlaces(s) PROVE p = o
  BY <1>0, <1>1 DEF Apart
<1>4. ASSUME NEW s \in Slots PROVE UsePlaces(s) # {} <=> InUse(s)
  BY DEF UsePlaces, InUse
<1>5. ASSUME NEW s \in Slots, NEW p \in UsePlaces(s), NEW o \in UsePlaces(s) PROVE p = o
  <2>1. /\ s \in queued => \A t \in Threads : own[t] # s /\ made[t] # s
        /\ \A t, u \in Threads : own[t] = s => made[u] # s
        /\ \A t, u \in Threads : own[t] = s /\ own[u] = s => t = u
        /\ \A t, u \in Threads : made[t] = s /\ made[u] = s => t = u
    BY <1>0, AllocatorAssumption DEF UsesApart
  <2> QED BY <2>1 DEF UsePlaces
<1>6. ASSUME NEW s \in Slots
      PROVE  \E p \in FreePlaces(s) \cup UsePlaces(s) : FreePlaces(s) \cup UsePlaces(s) = {p}
  <2>1. (FreePlaces(s) # {}) <=> (UsePlaces(s) = {})
    BY <1>0, <1>2, <1>4 DEF SlotInv
  <2> QED BY <1>3, <1>5, <2>1
<1>7. {s \in Slots : UsePlaces(s) # {}} = {s \in Slots : InUse(s)}
  BY <1>4
<1> QED BY <1>0, <1>6, <1>7 DEF SlotOwnedOnce, SlotInv

\* Every slot of the allocator is in exactly one place, a free list, a chain being
\* spliced, a queue or a thread's hands, and the live count is the number of those
\* in use: Alloc and Free hand no slot out twice and lose none, however the batches
\* of a cache's overflow interleave with the threads that take them over.
THEOREM SlotsOwnedOnce == Spec => []SlotOwnedOnce
BY ControlAlways, SlotInvSuffices, PTL

-----------------------------------------------------------------------------
(* Work: where the indices are.                                            *)

\* What a step may do with an index: leave it, move it from one place to another,
\* or run it.
Stays(H, M, R, S, k) == S[k] = R[k] /\ \A z \in Places : k \in M[z] <=> k \in H[z]
Moves(H, M, R, S, k) ==
  /\ S[k] = R[k]
  /\ \E p, q \in Places : /\ k \in H[p] /\ k \in M[q] /\ k \notin M[p]
                          /\ \A z \in Places : z # p /\ z # q => (k \in M[z] <=> k \in H[z])
Runs(H, M, R, S, k) ==
  /\ S[k] = R[k] + 1
  /\ \E p \in Places : /\ k \in H[p] /\ k \notin M[p]
                       /\ \A z \in Places : z # p => (k \in M[z] <=> k \in H[z])

LEMMA CoverStep ==
  ASSUME NEW H, NEW M, NEW R, NEW S, NEW D, Covers(H, R, D),
         \A k \in Indices : Stays(H, M, R, S, k) \/ Moves(H, M, R, S, k) \/ Runs(H, M, R, S, k)
  PROVE  Covers(M, S, D)
<1> SUFFICES ASSUME NEW k \in Indices
             PROVE  /\ S[k] \in {0, 1} /\ (k \notin D => S[k] = 0)
                    /\ k \in D /\ S[k] = 0 => \E p \in Places : k \in M[p]
                    /\ \A p \in Places : k \in M[p] =>
                         k \in D /\ S[k] = 0 /\ \A q \in Places : k \in M[q] => p = q
  BY DEF Covers
<1>1. /\ R[k] \in {0, 1} /\ (k \notin D => R[k] = 0)
      /\ k \in D /\ R[k] = 0 => \E p \in Places : k \in H[p]
      /\ \A p \in Places : k \in H[p] =>
           k \in D /\ R[k] = 0 /\ \A q \in Places : k \in H[q] => p = q
  BY DEF Covers
<1>2. CASE Stays(H, M, R, S, k)
  BY <1>1, <1>2 DEF Stays
<1>3. CASE Moves(H, M, R, S, k)
  BY <1>1, <1>3 DEF Moves
<1>4. CASE Runs(H, M, R, S, k)
  BY <1>1, <1>4 DEF Runs
<1> QED BY <1>2, <1>3, <1>4

\* The places, and what is there.
LEMMA PlacesAre ==
  /\ \A t \in Threads : /\ <<"range", t>> \in Places /\ Parts[<<"range", t>>] = RangePart(t)
                        /\ <<"right", t>> \in Places /\ Parts[<<"right", t>>] = RightPart(t)
  /\ \A s \in Slots : <<"slot", s>> \in Places /\ Parts[<<"slot", s>>] = SlotPart(s)
  /\ <<"rest", None>> \in Places /\ Parts[<<"rest", None>>] = RestPart
BY DEF Places, Parts

LEMMA PlacesAreNext ==
  /\ \A t \in Threads : /\ Parts'[<<"range", t>>] = RangePart(t)'
                        /\ Parts'[<<"right", t>>] = RightPart(t)'
  /\ \A s \in Slots : Parts'[<<"slot", s>>] = SlotPart(s)'
  /\ Parts'[<<"rest", None>>] = RestPart'
BY DEF Places, Parts

\* A place is one of those.
LEMMA PlaceKinds ==
  ASSUME NEW z \in Places
  PROVE  \/ \E t \in Threads : z = <<"range", t>> \/ z = <<"right", t>>
         \/ \E s \in Slots : z = <<"slot", s>>
         \/ z = <<"rest", None>>
BY DEF Places

\* Places outside a set hold an index after a step if they held it before.
LEMMA Elsewhere ==
  ASSUME NEW k, NEW touched,
         \A t \in Threads : <<"range", t>> \notin touched =>
                              (k \in RangePart(t)' <=> k \in RangePart(t)),
         \A t \in Threads : <<"right", t>> \notin touched =>
                              (k \in RightPart(t)' <=> k \in RightPart(t)),
         \A s \in Slots : <<"slot", s>> \notin touched =>
                              (k \in SlotPart(s)' <=> k \in SlotPart(s)),
         <<"rest", None>> \notin touched => (k \in RestPart' <=> k \in RestPart)
  PROVE  \A z \in Places : z \notin touched => (k \in Parts'[z] <=> k \in Parts[z])
<1> SUFFICES ASSUME NEW z \in Places, z \notin touched PROVE k \in Parts'[z] <=> k \in Parts[z]
  OBVIOUS
<1>1. ASSUME NEW t \in Threads, z = <<"range", t>> PROVE k \in Parts'[z] <=> k \in Parts[z]
  BY <1>1, PlacesAre, PlacesAreNext
<1>2. ASSUME NEW t \in Threads, z = <<"right", t>> PROVE k \in Parts'[z] <=> k \in Parts[z]
  BY <1>2, PlacesAre, PlacesAreNext
<1>3. ASSUME NEW s \in Slots, z = <<"slot", s>> PROVE k \in Parts'[z] <=> k \in Parts[z]
  BY <1>3, PlacesAre, PlacesAreNext
<1>4. CASE z = <<"rest", None>>
  BY <1>4, PlacesAre, PlacesAreNext
<1> QED BY <1>1, <1>2, <1>3, <1>4, PlaceKinds

\* A thread that a step does not concern holds what it held.
LEMMA OtherParts ==
  ASSUME NEW u \in Threads, no' = no, pc'[u] = pc[u], own'[u] = own[u], range'[u] = range[u],
         right'[u] = right[u], own[u] # None => task'[own[u]] = task[own[u]]
  PROVE  RangePart(u)' = RangePart(u) /\ RightPart(u)' = RightPart(u)
<1>1. CallOf(u)' = CallOf(u) /\ (Creating(u)' <=> Creating(u))
  BY DEF CallOf, Creating
<1> QED BY <1>1 DEF RangePart, RightPart

LEMMA OtherSlots ==
  ASSUME NEW s \in Slots, no' = no, s \in queued' <=> s \in queued,
         s \in queued => task'[s] = task[s]
  PROVE  SlotPart(s)' = SlotPart(s)
BY DEF SlotPart

\* The rest of the loop is the caller's, and there is none in the other forms.
LEMMA SameRest ==
  ASSUME script' = script,
         \/ i' = i /\ own'[Caller] = own[Caller]
            /\ (pc[Caller] \in {"loop", "alloc", "count", "push"} <=>
                pc'[Caller] \in {"loop", "alloc", "count", "push"})
         \/ Form # "loop"
         \/ /\ pc[Caller] \notin {"loop", "alloc", "count", "push"}
            /\ pc'[Caller] \notin {"loop", "alloc", "count", "push"}
  PROVE  RestPart' = RestPart
<1>1. Cmd' = Cmd /\ Form' = Form /\ Chunk' = Chunk
  BY ScriptSame
<1> QED BY <1>1 DEF RestPart

\* When nothing moves.
LEMMA WorkStands ==
  ASSUME CoverInv, script' = script, no' = no, runs' = runs,
         pc'[Caller] # "call" => pc[Caller] # "call",
         \A t \in Threads : RangePart(t)' = RangePart(t) /\ RightPart(t)' = RightPart(t),
         \A s \in Slots : SlotPart(s)' = SlotPart(s), RestPart' = RestPart
  PROVE  CoverInv'
<1> SUFFICES ASSUME Blocking' PROVE Covers(Parts', runs'[no'], (Cmd.start .. Cmd.end - 1)')
  BY DEF CoverInv
<1>1. Cmd' = Cmd /\ Blocking
  BY ScriptSame DEF Blocking
<1>2. Covers(Parts, runs[no], Cmd.start .. Cmd.end - 1)
  BY <1>1 DEF CoverInv
<1>3. ASSUME NEW k \in Indices PROVE Stays(Parts, Parts', runs[no], runs'[no'], k)
  <2> DEFINE none == {}
  <2>2. /\ \A t \in Threads : k \in RangePart(t)' <=> k \in RangePart(t)
        /\ \A t \in Threads : k \in RightPart(t)' <=> k \in RightPart(t)
        /\ \A s \in Slots : k \in SlotPart(s)' <=> k \in SlotPart(s)
        /\ k \in RestPart' <=> k \in RestPart
    OBVIOUS
  <2>3. \A z : z \notin none
    OBVIOUS
  <2> HIDE DEF none
  <2>4. \A z \in Places : z \notin none => (k \in Parts'[z] <=> k \in Parts[z])
    BY <2>2, Elsewhere
  <2>1. \A z \in Places : k \in Parts'[z] <=> k \in Parts[z]
    BY <2>3, <2>4
  <2> QED BY <2>1 DEF Stays
<1>4. Covers(Parts', runs'[no'], Cmd.start .. Cmd.end - 1)
  BY <1>2, <1>3, CoverStep
<1> QED BY <1>1, <1>4

LEMMA WorkMoves ==
  ASSUME CoverInv, script' = script, no' = no, pc'[Caller] # "call" => pc[Caller] # "call",
         Blocking => \A k \in Indices : \/ Stays(Parts, Parts', runs[no], runs'[no], k)
                                        \/ Moves(Parts, Parts', runs[no], runs'[no], k)
                                        \/ Runs(Parts, Parts', runs[no], runs'[no], k)
  PROVE  CoverInv'
<1> SUFFICES ASSUME Blocking' PROVE Covers(Parts', runs'[no'], (Cmd.start .. Cmd.end - 1)')
  BY DEF CoverInv
<1>1. Cmd' = Cmd /\ Blocking
  BY ScriptSame DEF Blocking
<1>2. Covers(Parts, runs[no], Cmd.start .. Cmd.end - 1)
  BY <1>1 DEF CoverInv
<1>4. Covers(Parts', runs'[no'], Cmd.start .. Cmd.end - 1)
  BY <1>1, <1>2, CoverStep
<1> QED BY <1>1, <1>4

LEMMA WaitReturnsCover ==
  ASSUME ControlInv, CoverInv, WaitReturns PROVE CoverInv'
<1>1. /\ pc[Caller] = "wait" /\ pc'[Caller] = "return" /\ Caller \in Threads
      /\ \A u \in Threads : u # Caller => pc'[u] = pc[u]
      /\ UNCHANGED <<script, no, range, right, i, own, task, queued, runs>>
  BY Moved, CallAssumption DEF WaitReturns, Pcs, ControlInv
<1>2. RangePart(Caller)' = RangePart(Caller) /\ RightPart(Caller)' = RightPart(Caller)
  BY <1>1 DEF RangePart, RightPart, Creating
<1>3. \A t \in Threads : RangePart(t)' = RangePart(t) /\ RightPart(t)' = RightPart(t)
  BY <1>1, <1>2, OtherParts
<1>4. \A s \in Slots : SlotPart(s)' = SlotPart(s)
  BY <1>1, OtherSlots
<1>5. RestPart' = RestPart
  BY <1>1, SameRest
<1> QED BY <1>1, <1>3, <1>4, <1>5, WorkStands

LEMMA ReturnCover ==
  ASSUME ControlInv, Return PROVE CoverInv'
<1>1. pc'[Caller] = "call"
  BY Moved, CallAssumption DEF Return, Pcs, ControlInv
<1> QED BY <1>1 DEF CoverInv, Blocking

LEMMA CountTaskCover ==
  ASSUME ControlInv, CoverInv, NEW t \in Threads, CountTask(t) PROVE CoverInv'
<1>1. /\ pc[t] = "count" /\ pc'[t] = "push"
      /\ \A u \in Threads : u # t => pc'[u] = pc[u]
      /\ UNCHANGED <<script, no, range, right, i, own, task, queued, runs>>
  BY Moved DEF CountTask, Pcs, ControlInv
<1>2. RangePart(t)' = RangePart(t) /\ RightPart(t)' = RightPart(t)
  BY <1>1 DEF RangePart, RightPart, Creating, CallOf
<1>3. \A u \in Threads : RangePart(u)' = RangePart(u) /\ RightPart(u)' = RightPart(u)
  BY <1>1, <1>2, OtherParts
<1>4. \A s \in Slots : SlotPart(s)' = SlotPart(s)
  BY <1>1, OtherSlots
<1>5. RestPart' = RestPart
  BY <1>1, SameRest, CallAssumption
<1> QED BY <1>1, <1>3, <1>4, <1>5, WorkStands, CallAssumption

LEMMA FinishCover ==
  ASSUME ControlInv, CoverInv, NEW t \in Threads, Finish(t) PROVE CoverInv'
<1>1. /\ pc[t] = "finish" /\ pc'[t] = "free"
      /\ \A u \in Threads : u # t => pc'[u] = pc[u]
      /\ UNCHANGED <<script, no, range, right, i, own, task, queued, runs>>
  BY Moved DEF Finish, Pcs, ControlInv
<1>2. RangePart(t)' = RangePart(t) /\ RightPart(t)' = RightPart(t)
  BY <1>1 DEF RangePart, RightPart, Creating
<1>3. \A u \in Threads : RangePart(u)' = RangePart(u) /\ RightPart(u)' = RightPart(u)
  BY <1>1, <1>2, OtherParts
<1>4. \A s \in Slots : SlotPart(s)' = SlotPart(s)
  BY <1>1, OtherSlots
<1>5. RestPart' = RestPart
  BY <1>1, SameRest, CallAssumption
<1> QED BY <1>1, <1>3, <1>4, <1>5, WorkStands, CallAssumption

LEMMA CreateTaskCover ==
  ASSUME ControlInv, CoverInv, NEW t \in Threads, CreateTask(t) PROVE CoverInv'
<1>1. /\ SlotInv /\ SlotTypeOK /\ CallTypeOK /\ pc[t] = "alloc" /\ made[t] = None
      /\ UNCHANGED <<script, no, range, right, i, own, queued, runs>>
  BY DEF ControlInv, CallTypeOK, CreateTask, ThreadInv
<1>2. /\ pc'[t] \in {"alloc", "count", "push"} /\ \A u \in Threads : u # t => pc'[u] = pc[u]
      /\ \E r \in Slots : /\ ~ InUse(r) \/ task' = task
                          /\ \A s \in Slots : s # r => task'[s] = task[s]
  <2>1. CASE Refill(t) /\ UNCHANGED <<pc, made, task>>
    <3>1. cache[t] = << >> /\ shared # << >>
      BY <2>1 DEF Refill
    <3>2. shared \in Seq(Slots) /\ shared[1] \in Slots
      BY <1>1, <3>1, EmptySeq DEF SlotTypeOK
    <3> QED BY <1>1, <2>1, <3>2
  <2>2. ASSUME NEW r \in Slots, Alloc(t, r), At(t, IF Cmd.op = "NB" THEN "push" ELSE "count"),
               made' = [made EXCEPT ![t] = r],
               \E x : task' = [task EXCEPT ![r] = x]
        PROVE  /\ pc'[t] \in {"alloc", "count", "push"}
               /\ \A u \in Threads : u # t => pc'[u] = pc[u]
               /\ \E q \in Slots : /\ ~ InUse(q) \/ task' = task
                                   /\ \A s \in Slots : s # q => task'[s] = task[s]
    <3>1. ~ InUse(r)
      BY <1>1, <2>2, AllocSlots
    <3>2. \A s \in Slots : s # r => task'[s] = task[s]
      BY <1>1, <2>2 DEF CallTypeOK
    <3>3. pc'[t] \in {"alloc", "count", "push"} /\ \A u \in Threads : u # t => pc'[u] = pc[u]
      BY <1>1, <2>2, Moved DEF Pcs
    <3> QED BY <3>1, <3>2, <3>3
  <2> QED BY <2>1, <2>2 DEF CreateTask
<1>3. PICK r \in Slots : /\ ~ InUse(r) \/ task' = task
                         /\ \A s \in Slots : s # r => task'[s] = task[s]
  BY <1>2
<1>4. /\ \A u \in Threads : own[u] # None => task'[own[u]] = task[own[u]]
      /\ \A s \in queued : task'[s] = task[s]
  BY <1>1, <1>3 DEF InUse, SlotTypeOK
<1>5. RangePart(t)' = RangePart(t) /\ RightPart(t)' = RightPart(t)
  BY <1>1, <1>2, <1>4 DEF RangePart, RightPart, Creating, CallOf
<1>6. \A u \in Threads : RangePart(u)' = RangePart(u) /\ RightPart(u)' = RightPart(u)
  BY <1>1, <1>2, <1>4, <1>5, OtherParts
<1>7. \A s \in Slots : SlotPart(s)' = SlotPart(s)
  BY <1>1, <1>4, OtherSlots
<1>8. RestPart' = RestPart
  BY <1>1, <1>2, SameRest, CallAssumption
<1> QED BY <1>1, <1>2, <1>6, <1>7, <1>8, WorkStands, CallAssumption

LEMMA FreeTaskCover ==
  ASSUME ControlInv, CoverInv, NEW t \in Threads, FreeTask(t) PROVE CoverInv'
<1>1. /\ SlotInv /\ UsesApart /\ SlotTypeOK /\ CallTypeOK
      /\ UNCHANGED <<script, no, i, queued, runs>>
      /\ pc[t] \in {"free", "splice"} /\ ThreadInv(t)
  BY DEF ControlInv, SlotInv, CallTypeOK, FreeTask
<1>2. /\ pc'[t] \in {"splice", "wait", "idle"} /\ \A u \in Threads : u # t => pc'[u] = pc[u]
      /\ \A u \in Threads : u # t =>
           own'[u] = own[u] /\ range'[u] = range[u] /\ right'[u] = right[u]
      /\ \A s \in Slots : s # own[t] => task'[s] = task[s]
      /\ pc[t] = "splice" => task' = task
  <2>1. CASE pc[t] = "splice"
    BY <1>1, <2>1, Moved DEF FreeTask, Pcs
  <2>2. CASE pc[t] = "free"
    BY <1>1, <2>2, Moved DEF FreeTask, CallTypeOK, SlotTypeOK, Pcs
  <2> QED BY <1>1, <2>1, <2>2
<1>3. /\ \A u \in Threads : u # t /\ own[u] # None => task'[own[u]] = task[own[u]]
      /\ \A s \in queued : task'[s] = task[s]
  BY <1>1, <1>2 DEF UsesApart, SlotTypeOK
<1>4. RangePart(t)' = RangePart(t) /\ RightPart(t)' = RightPart(t)
  BY <1>1, <1>2 DEF RangePart, RightPart, Creating
<1>5. \A u \in Threads : RangePart(u)' = RangePart(u) /\ RightPart(u)' = RightPart(u)
  BY <1>1, <1>2, <1>3, <1>4, OtherParts
<1>6. \A s \in Slots : SlotPart(s)' = SlotPart(s)
  BY <1>1, <1>3, OtherSlots
<1>7. RestPart' = RestPart
  <2>1. CASE t = Caller
    BY <1>1, <1>2, <2>1, SameRest
  <2>2. CASE t # Caller
    BY <1>1, <1>2, <2>2, SameRest, CallAssumption
  <2> QED BY <2>1, <2>2
<1>8. pc'[Caller] # "call" => pc[Caller] # "call"
  BY <1>1, <1>2, CallAssumption
<1> QED BY <1>1, <1>5, <1>6, <1>7, <1>8, WorkStands

\* A step that touches two places at most.
LEMMA PointStep ==
  ASSUME NEW H, NEW M, NEW R, NEW S, NEW k, NEW p \in Places, NEW q \in Places, p # q,
         \A z \in Places : z \notin {p, q} => (k \in M[z] <=> k \in H[z]),
         \/ /\ S[k] = R[k] /\ (k \in M[p] <=> k \in H[p]) /\ (k \in M[q] <=> k \in H[q])
         \/ S[k] = R[k] /\ k \in H[p] /\ k \notin M[p] /\ k \in M[q]
         \/ S[k] = R[k] + 1 /\ k \in H[p] /\ k \notin M[p] /\ (k \in M[q] <=> k \in H[q])
  PROVE  Stays(H, M, R, S, k) \/ Moves(H, M, R, S, k) \/ Runs(H, M, R, S, k)
<1>1. CASE S[k] = R[k] /\ (k \in M[p] <=> k \in H[p]) /\ (k \in M[q] <=> k \in H[q])
  BY <1>1 DEF Stays
<1>2. CASE S[k] = R[k] /\ k \in H[p] /\ k \notin M[p] /\ k \in M[q]
  BY <1>2 DEF Moves
<1>3. CASE S[k] = R[k] + 1 /\ k \in H[p] /\ k \notin M[p] /\ (k \in M[q] <=> k \in H[q])
  BY <1>3 DEF Runs
<1> QED BY <1>1, <1>2, <1>3

LEMMA Halves ==
  ASSUME NEW a \in Int, NEW b \in Int, b - a > 0
  PROVE  a <= a + (b - a) \div 2 /\ a + (b - a) \div 2 <= b /\ a + (b - a) \div 2 \in Int
OBVIOUS

LEMMA IndicesAreInts == ASSUME NEW k \in Indices PROVE k \in Int
BY CallAssumption DEF Indices

LEMMA SplitCover ==
  ASSUME ControlInv, CoverInv, NEW t \in Threads, Split(t) PROVE CoverInv'
<1> DEFINE mid == range[t][1] + (range[t][2] - range[t][1]) \div 2
           p == <<"range", t>>
           q == <<"right", t>>
<1>1. CallTypeOK /\ WorkInv(t) /\ pc[t] = "rec" /\ Long(t) /\ range[t] \in Int \X Int
  BY DEF ControlInv, Split, CallTypeOK
<1>2. /\ pc'[t] = "alloc" /\ (\A u \in Threads : u # t => pc'[u] = pc[u])
      /\ UNCHANGED <<script, no, i, own, task, queued, runs>>
  BY <1>1, Moved DEF Split, Pcs
<1>3. /\ range'[t][1] = range[t][1] /\ range'[t][2] = mid
      /\ right'[t][1] = mid /\ right'[t][2] = range[t][2]
      /\ \A u \in Threads : u # t => range'[u] = range[u] /\ right'[u] = right[u]
  <2> HIDE DEF mid
  <2>1. range' = [range EXCEPT ![t][2] = mid] /\ right' = [right EXCEPT ![t] = <<mid, range[t][2]>>]
    BY DEF Split, mid
  <2>2. range'[t] = [range[t] EXCEPT ![2] = mid] /\ right'[t] = <<mid, range[t][2]>>
    BY <1>1, <2>1 DEF CallTypeOK
  <2>3. \A u \in Threads : u # t => range'[u] = range[u] /\ right'[u] = right[u]
    BY <1>1, <2>1 DEF CallTypeOK
  <2> QED BY <1>1, <2>2, <2>3
<1>4. CallOf(t) = no /\ CallOf(t)' = no /\ script # << >> /\ Form = "rec"
  BY <1>1, <1>2, AtWork DEF CallOf, WorkInv
<1>5. range[t][1] <= mid /\ mid <= range[t][2] /\ mid \in Int /\ range[t][1] \in Int /\ range[t][2] \in Int
  <2>1. Chunk \in Nat \ {0}
    BY <1>1, <1>4, ChunkType DEF CallTypeOK
  <2>2. range[t][1] \in Int /\ range[t][2] \in Int /\ range[t][2] - range[t][1] > 0
    BY <1>1, <2>1 DEF Long
  <2> QED BY <2>2, Halves
<1> HIDE DEF mid
<1>6. ASSUME NEW k \in Indices
      PROVE  \/ Stays(Parts, Parts', runs[no], runs'[no], k)
             \/ Moves(Parts, Parts', runs[no], runs'[no], k)
             \/ Runs(Parts, Parts', runs[no], runs'[no], k)
  <2>1. /\ k \in RangePart(t) <=> range[t][1] <= k /\ k < range[t][2]
        /\ k \notin RightPart(t)
    BY <1>1, <1>4 DEF RangePart, RightPart, Creating, Within
  <2>2. /\ k \in RangePart(t)' <=> range[t][1] <= k /\ k < mid
        /\ k \in RightPart(t)' <=> mid <= k /\ k < range[t][2]
    BY <1>2, <1>3, <1>4 DEF RangePart, RightPart, Creating, Within
  <2>3. \A z \in Places : z \notin {p, q} => (k \in Parts'[z] <=> k \in Parts[z])
    <3>1. \A u \in Threads : u # t => RangePart(u)' = RangePart(u) /\ RightPart(u)' = RightPart(u)
      BY <1>2, <1>3, OtherParts
    <3>2. \A s \in Slots : SlotPart(s)' = SlotPart(s)
      BY <1>2, OtherSlots
    <3>3. RestPart' = RestPart
      BY <1>2, <1>4, SameRest
    <3> QED BY <3>1, <3>2, <3>3, Elsewhere
  <2>4. /\ p \in Places /\ q \in Places /\ p # q
        /\ Parts[p] = RangePart(t) /\ Parts[q] = RightPart(t)
        /\ Parts'[p] = RangePart(t)' /\ Parts'[q] = RightPart(t)'
    BY PlacesAre, PlacesAreNext
  <2>5. k \in Int
    BY IndicesAreInts
  <2> HIDE DEF p, q
  <2>6. \/ /\ (k \in Parts'[p] <=> k \in Parts[p]) /\ (k \in Parts'[q] <=> k \in Parts[q])
        \/ k \in Parts[p] /\ k \notin Parts'[p] /\ k \in Parts'[q]
    BY <1>5, <2>1, <2>2, <2>4, <2>5
  <2> QED BY <1>2, <2>3, <2>4, <2>6, PointStep
<1> QED BY <1>1, <1>2, <1>6, WorkMoves, CallAssumption

LEMMA LeafCover ==
  ASSUME ControlInv, CoverInv, NEW t \in Threads, Leaf(t) PROVE CoverInv'
<1> DEFINE p == <<"range", t>>
           q == <<"right", t>>
<1>1. CallTypeOK /\ ThreadInv(t) /\ pc[t] \in {"leaf", "rec"}
  BY DEF ControlInv, Leaf
<1>2. /\ pc'[t] \in {"wait", "finish"} /\ (\A u \in Threads : u # t => pc'[u] = pc[u])
      /\ UNCHANGED <<script, no, i, own, task, queued, range, right>>
      /\ Func(CallOf(t), range[t])
  BY <1>1, Moved DEF Leaf, Pcs
<1>3. ASSUME NEW k \in Indices, Blocking
      PROVE  \/ Stays(Parts, Parts', runs[no], runs'[no], k)
             \/ Moves(Parts, Parts', runs[no], runs'[no], k)
             \/ Runs(Parts, Parts', runs[no], runs'[no], k)
  <2>1. k \in RangePart(t) <=> CallOf(t) = no /\ Within(k, range[t])
    BY <1>1 DEF RangePart
  <2>2. k \notin RangePart(t)' /\ k \notin RightPart(t) /\ k \notin RightPart(t)'
    BY <1>1, <1>2 DEF RangePart, RightPart, Creating
  <2>3. runs'[no][k] = IF k \in RangePart(t) THEN runs[no][k] + 1 ELSE runs[no][k]
    <3>1. no \in Calls
      BY <1>1, <1>3, CallNumber DEF Blocking, ControlInv, CallerInv
    <3> QED BY <1>1, <1>2, <2>1, <3>1, FuncRuns
  <2>4. \A z \in Places : z \notin {p, q} => (k \in Parts'[z] <=> k \in Parts[z])
    <3>1. \A u \in Threads : u # t => RangePart(u)' = RangePart(u) /\ RightPart(u)' = RightPart(u)
      BY <1>2, OtherParts
    <3>2. \A s \in Slots : SlotPart(s)' = SlotPart(s)
      BY <1>2, OtherSlots
    <3>3. RestPart' = RestPart
      BY <1>1, <1>2, SameRest, CallAssumption
    <3> QED BY <3>1, <3>2, <3>3, Elsewhere
  <2>5. /\ p \in Places /\ q \in Places /\ p # q
        /\ Parts[p] = RangePart(t) /\ Parts[q] = RightPart(t)
        /\ Parts'[p] = RangePart(t)' /\ Parts'[q] = RightPart(t)'
    BY PlacesAre, PlacesAreNext
  <2> HIDE DEF p, q
  <2>6. \/ /\ runs'[no][k] = runs[no][k]
           /\ (k \in Parts'[p] <=> k \in Parts[p]) /\ (k \in Parts'[q] <=> k \in Parts[q])
        \/ /\ runs'[no][k] = runs[no][k] + 1 /\ k \in Parts[p] /\ k \notin Parts'[p]
           /\ (k \in Parts'[q] <=> k \in Parts[q])
    BY <2>2, <2>3, <2>5
  <2> QED BY <2>4, <2>5, <2>6, PointStep
<1> QED BY <1>1, <1>2, <1>3, WorkMoves, CallAssumption

LEMMA CreateFailsCover ==
  ASSUME ControlInv, CoverInv, NEW t \in Threads, CreateFails(t) PROVE CoverInv'
<1> DEFINE p == <<"right", t>>
           q == <<"range", t>>
<1>1. CallTypeOK /\ ThreadInv(t) /\ pc[t] = "alloc"
  BY DEF ControlInv, CreateFails
<1>2. /\ CallOf(t) = no /\ script # << >> /\ (own[t] # None => Form = "rec")
      /\ Resumed = Form /\ Form \in {"loop", "rec"} /\ (t # Caller => own[t] # None)
  BY <1>1, AtWork DEF Creating, Resumed
<1>3. /\ pc'[t] = Form /\ (\A u \in Threads : u # t => pc'[u] = pc[u])
      /\ UNCHANGED <<script, no, i, own, task, queued, range, right>>
      /\ Cmd.op # "NB" => Func(no, right[t])
  BY <1>1, <1>2, Moved DEF CreateFails, Pcs
<1>4. ASSUME NEW k \in Indices, Blocking
      PROVE  \/ Stays(Parts, Parts', runs[no], runs'[no], k)
             \/ Moves(Parts, Parts', runs[no], runs'[no], k)
             \/ Runs(Parts, Parts', runs[no], runs'[no], k)
  <2>1. k \in RightPart(t) <=> Within(k, right[t])
    BY <1>1 DEF RightPart, Creating
  <2>2. k \notin RightPart(t)' /\ (k \in RangePart(t)' <=> k \in RangePart(t))
    BY <1>1, <1>2, <1>3 DEF RangePart, RightPart, Creating, CallOf
  <2>3. runs'[no][k] = IF k \in RightPart(t) THEN runs[no][k] + 1 ELSE runs[no][k]
    <3>1. no \in Calls
      BY <1>1, <1>2, CallNumber
    <3> QED BY <1>1, <1>3, <1>4, <2>1, <3>1, FuncRuns DEF Blocking
  <2>4. \A z \in Places : z \notin {p, q} => (k \in Parts'[z] <=> k \in Parts[z])
    <3>1. \A u \in Threads : u # t => RangePart(u)' = RangePart(u) /\ RightPart(u)' = RightPart(u)
      BY <1>3, OtherParts
    <3>2. \A s \in Slots : SlotPart(s)' = SlotPart(s)
      BY <1>3, OtherSlots
    <3>3. RestPart' = RestPart
      BY <1>1, <1>2, <1>3, SameRest, CallAssumption
    <3> QED BY <3>1, <3>2, <3>3, Elsewhere
  <2>5. /\ p \in Places /\ q \in Places /\ p # q
        /\ Parts[p] = RightPart(t) /\ Parts[q] = RangePart(t)
        /\ Parts'[p] = RightPart(t)' /\ Parts'[q] = RangePart(t)'
    BY PlacesAre, PlacesAreNext
  <2> HIDE DEF p, q
  <2>6. \/ /\ runs'[no][k] = runs[no][k]
           /\ (k \in Parts'[p] <=> k \in Parts[p]) /\ (k \in Parts'[q] <=> k \in Parts[q])
        \/ /\ runs'[no][k] = runs[no][k] + 1 /\ k \in Parts[p] /\ k \notin Parts'[p]
           /\ (k \in Parts'[q] <=> k \in Parts[q])
    BY <2>2, <2>3, <2>5
  <2> QED BY <2>4, <2>5, <2>6, PointStep
<1> QED BY <1>1, <1>2, <1>3, <1>4, WorkMoves, CallAssumption

LEMMA PushTaskCover ==
  ASSUME ControlInv, CoverInv, NEW t \in Threads, PushTask(t) PROVE CoverInv'
<1> DEFINE r == made[t]
           p == <<"right", t>>
           q == <<"slot", r>>
<1>1. /\ CallTypeOK /\ SlotTypeOK /\ ThreadInv(t) /\ WorkInv(t) /\ pc[t] = "push"
      /\ SlotInv /\ UsesApart
  BY DEF ControlInv, CallTypeOK, PushTask, SlotInv
<1>2. /\ CallOf(t) = no /\ script # << >> /\ (own[t] # None => Form = "rec")
      /\ Resumed = Form /\ Form \in {"loop", "rec"} /\ (t # Caller => own[t] # None)
  BY <1>1, AtWork DEF Creating, Resumed
<1>3. /\ pc'[t] = Form /\ (\A u \in Threads : u # t => pc'[u] = pc[u])
      /\ UNCHANGED <<script, no, i, own, task, runs, range, right>>
      /\ queued' = queued \cup {r}
  BY <1>1, <1>2, Moved DEF PushTask, Pcs
<1>4. /\ r \in Slots /\ r \notin queued /\ task[r].call = no
      /\ task[r].a = right[t][1] /\ task[r].b = right[t][2]
  <2>1. made[t] # None /\ made[t] \notin queued
    BY <1>1 DEF ThreadInv, UsesApart
  <2>2. made[t] \in Slots
    BY <1>1, <2>1 DEF SlotTypeOK
  <2> QED BY <1>1, <2>1, <2>2 DEF WorkInv
<1>5. ASSUME NEW k \in Indices
      PROVE  \/ Stays(Parts, Parts', runs[no], runs'[no], k)
             \/ Moves(Parts, Parts', runs[no], runs'[no], k)
             \/ Runs(Parts, Parts', runs[no], runs'[no], k)
  <2>1. k \in RightPart(t) <=> right[t][1] <= k /\ k < right[t][2]
    BY <1>1 DEF RightPart, Creating, Within
  <2>2. k \notin RightPart(t)'
    BY <1>2, <1>3 DEF RightPart, Creating
  <2>3. k \notin SlotPart(r)
    BY <1>4 DEF SlotPart
  <2>4. \A s \in Slots : s = r => (k \in SlotPart(s)' <=> right[t][1] <= k /\ k < right[t][2])
    BY <1>3, <1>4 DEF SlotPart, Within
  <2>5. RangePart(t)' = RangePart(t)
    BY <1>1, <1>2, <1>3 DEF RangePart, CallOf
  <2>6. \A z \in Places : z \notin {p, q} => (k \in Parts'[z] <=> k \in Parts[z])
    <3>1. \A u \in Threads : u # t => RangePart(u)' = RangePart(u) /\ RightPart(u)' = RightPart(u)
      BY <1>3, OtherParts
    <3>2. \A s \in Slots : s # r => SlotPart(s)' = SlotPart(s)
      BY <1>3, OtherSlots
    <3>3. RestPart' = RestPart
      BY <1>1, <1>2, <1>3, SameRest, CallAssumption
    <3> HIDE DEF r
    <3> QED BY <2>5, <3>1, <3>2, <3>3, Elsewhere
  <2>7. /\ p \in Places /\ q \in Places /\ p # q
        /\ Parts[p] = RightPart(t) /\ Parts[q] = SlotPart(r)
        /\ Parts'[p] = RightPart(t)'
        /\ \A s \in Slots : s = r => Parts'[q] = SlotPart(s)'
    BY <1>4, PlacesAre, PlacesAreNext
  <2> HIDE DEF p, q, r
  <2>8. \/ /\ (k \in Parts'[p] <=> k \in Parts[p]) /\ (k \in Parts'[q] <=> k \in Parts[q])
        \/ k \in Parts[p] /\ k \notin Parts'[p] /\ k \in Parts'[q]
    BY <1>4, <2>1, <2>2, <2>3, <2>4, <2>7
  <2> QED BY <1>3, <2>6, <2>7, <2>8, PointStep
<1> QED BY <1>1, <1>2, <1>3, <1>5, WorkMoves, CallAssumption

LEMMA RunTaskCover ==
  ASSUME ControlInv, CoverInv, NEW t \in Threads, NEW r \in queued, RunTask(t, r)
  PROVE  CoverInv'
<1> DEFINE p == <<"slot", r>>
           q == <<"range", t>>
<1>1. /\ CallTypeOK /\ SlotTypeOK /\ ThreadInv(t) /\ r \in Slots
      /\ pc[t] \in {"wait", "idle"}
  BY AllocatorAssumption DEF ControlInv, CallTypeOK, RunTask, SlotTypeOK
<1>2. /\ pc'[t] \in {"rec", "leaf"} /\ (\A u \in Threads : u # t => pc'[u] = pc[u])
      /\ UNCHANGED <<script, no, i, task, runs, right>>
      /\ queued' = queued \ {r} /\ own'[t] = r /\ range'[t] = <<task[r].a, task[r].b>>
      /\ \A u \in Threads : u # t => own'[u] = own[u] /\ range'[u] = range[u]
  BY <1>1, Moved DEF RunTask, Pcs, SlotTypeOK, CallTypeOK
<1>3. ASSUME NEW k \in Indices
      PROVE  \/ Stays(Parts, Parts', runs[no], runs'[no], k)
             \/ Moves(Parts, Parts', runs[no], runs'[no], k)
             \/ Runs(Parts, Parts', runs[no], runs'[no], k)
  <2>1. k \in SlotPart(r) <=> task[r].call = no /\ Within(k, <<task[r].a, task[r].b>>)
    BY DEF SlotPart
  <2>2. k \notin SlotPart(r)' /\ k \notin RangePart(t)
    BY <1>1, <1>2 DEF SlotPart, RangePart
  <2>3. k \in RangePart(t)' <=> task[r].call = no /\ Within(k, <<task[r].a, task[r].b>>)
    <3>1. CallOf(t)' = task[r].call
      BY <1>1, <1>2, AllocatorAssumption DEF CallOf
    <3> QED BY <1>2, <3>1 DEF RangePart
  <2>4. RightPart(t)' = RightPart(t)
    BY <1>1, <1>2 DEF RightPart, Creating
  <2>6. \A z \in Places : z \notin {p, q} => (k \in Parts'[z] <=> k \in Parts[z])
    <3>1. \A u \in Threads : u # t => RangePart(u)' = RangePart(u) /\ RightPart(u)' = RightPart(u)
      BY <1>2, OtherParts
    <3>2. \A s \in Slots : s # r => SlotPart(s)' = SlotPart(s)
      BY <1>2, OtherSlots
    <3>3. RestPart' = RestPart
      BY <1>1, <1>2, SameRest, CallAssumption
    <3> QED BY <2>4, <3>1, <3>2, <3>3, Elsewhere
  <2>7. /\ p \in Places /\ q \in Places /\ p # q
        /\ Parts[p] = SlotPart(r) /\ Parts[q] = RangePart(t)
        /\ Parts'[p] = SlotPart(r)' /\ Parts'[q] = RangePart(t)'
    BY <1>1, PlacesAre, PlacesAreNext
  <2> HIDE DEF p, q
  <2>8. \/ /\ (k \in Parts'[p] <=> k \in Parts[p]) /\ (k \in Parts'[q] <=> k \in Parts[q])
        \/ k \in Parts[p] /\ k \notin Parts'[p] /\ k \in Parts'[q]
    BY <2>1, <2>2, <2>3, <2>7
  <2> QED BY <1>2, <2>6, <2>7, <2>8, PointStep
<1> QED BY <1>1, <1>2, <1>3, WorkMoves, CallAssumption

\* The chunks follow one another, and NumTasks of them reach the end.
LEMMA NextChunk ==
  ASSUME NEW k \in Nat, NEW c \in Nat
  PROVE  (k + 1) * c = k * c + c /\ k * c \in Nat
OBVIOUS

LEMMA ChunksReach ==
  ASSUME NEW k \in Nat, NEW c \in Nat \ {0}, NEW total \in Nat, k >= (total + c - 1) \div c
  PROVE  k * c >= total
<1> DEFINE d == (total + c - 1) \div c
<1>1. d \in Int /\ c * d + c > total + c - 1
  OBVIOUS
<1> HIDE DEF d
<1>2. k >= d
  BY DEF d
<1>3. c * k >= c * d
  BY <1>1, <1>2
<1> QED BY <1>1, <1>3

LEMMA ChunkLoopCover ==
  ASSUME ControlInv, CoverInv, ChunkLoop PROVE CoverInv'
<1> DEFINE p == <<"rest", None>>
           q == <<"right", Caller>>
           lo == Cmd.start + i * Chunk
           hi == Cmd.start + (i + 1) * Chunk
<1>1. /\ CallTypeOK /\ ThreadInv(Caller) /\ CallerInv /\ Caller \in Threads
      /\ pc[Caller] = "loop" /\ i \in Nat
  BY CallAssumption DEF ControlInv, ChunkLoop, CallTypeOK
<1>2. /\ pc'[Caller] = "alloc" /\ (\A u \in Threads : u # Caller => pc'[u] = pc[u])
      /\ UNCHANGED <<script, no, own, task, queued, runs, range>> /\ i' = i + 1
      /\ right'[Caller] = ChunkRange(i)
      /\ \A u \in Threads : u # Caller => right'[u] = right[u]
  BY <1>1, Moved DEF ChunkLoop, Pcs, CallTypeOK
<1>3. script # << >> /\ Form = "loop" /\ own[Caller] = None /\ script \in Seq(CallRecords)
  BY <1>1 DEF CallerInv, ThreadInv, CallTypeOK
<1>4. /\ lo \in Int /\ hi = lo + Chunk /\ Cmd.end \in Int /\ Chunk \in Nat
      /\ ChunkRange(i)[1] = lo /\ ChunkRange(i)[2] = IF hi <= Cmd.end THEN hi ELSE Cmd.end
  <2>1. Chunk \in Nat /\ Cmd.start \in Int /\ Cmd.end \in Int
    BY <1>3, ChunkType, FormFacts DEF CallRecords
  <2>2. (i + 1) * Chunk = i * Chunk + Chunk /\ i * Chunk \in Nat
    BY <1>1, <2>1, NextChunk
  <2>3. /\ ChunkRange(i)[1] = lo
        /\ ChunkRange(i)[2] = IF hi <= Cmd.end THEN hi ELSE Cmd.end
    BY <1>1, <1>3, ChunkRangeType
  <2>4. lo \in Int /\ hi = lo + Chunk
    BY <2>1, <2>2
  <2> HIDE DEF lo, hi
  <2> QED BY <2>1, <2>3, <2>4
<1>5. ASSUME NEW k \in Indices
      PROVE  \/ Stays(Parts, Parts', runs[no], runs'[no], k)
             \/ Moves(Parts, Parts', runs[no], runs'[no], k)
             \/ Runs(Parts, Parts', runs[no], runs'[no], k)
  <2>1. k \in RestPart <=> lo <= k /\ k < Cmd.end
    BY <1>1, <1>3 DEF RestPart, Within
  <2>2. k \in RestPart' <=> hi <= k /\ k < Cmd.end
    <3>1. Cmd' = Cmd /\ Form' = Form /\ Chunk' = Chunk
      BY <1>2, ScriptSame
    <3> QED BY <1>2, <1>3, <3>1 DEF RestPart, Within
  <2> HIDE DEF lo, hi
  <2>3. /\ k \notin RightPart(Caller)
        /\ k \in RightPart(Caller)' <=>
             lo <= k /\ k < IF hi <= Cmd.end THEN hi ELSE Cmd.end
    BY <1>1, <1>2, <1>4 DEF RightPart, Creating, Within
  <2>4. RangePart(Caller)' = RangePart(Caller)
    BY <1>1, <1>2, <1>3 DEF RangePart, CallOf
  <2>6. \A z \in Places : z \notin {p, q} => (k \in Parts'[z] <=> k \in Parts[z])
    <3>1. \A u \in Threads : u # Caller => RangePart(u)' = RangePart(u) /\ RightPart(u)' = RightPart(u)
      BY <1>2, OtherParts
    <3>2. \A s \in Slots : SlotPart(s)' = SlotPart(s)
      BY <1>2, OtherSlots
    <3> QED BY <2>4, <3>1, <3>2, Elsewhere
  <2>7. /\ p \in Places /\ q \in Places /\ p # q
        /\ Parts[p] = RestPart /\ Parts[q] = RightPart(Caller)
        /\ Parts'[p] = RestPart' /\ Parts'[q] = RightPart(Caller)'
    BY <1>1, PlacesAre, PlacesAreNext
  <2>5. k \in Int
    BY IndicesAreInts
  <2> HIDE DEF p, q
  <2>8. \/ /\ (k \in Parts'[p] <=> k \in Parts[p]) /\ (k \in Parts'[q] <=> k \in Parts[q])
        \/ k \in Parts[p] /\ k \notin Parts'[p] /\ k \in Parts'[q]
    BY <1>4, <2>1, <2>2, <2>3, <2>5, <2>7
  <2> QED BY <1>2, <2>6, <2>7, <2>8, PointStep
<1> QED BY <1>1, <1>2, <1>5, WorkMoves

LEMMA ChunksDoneCover ==
  ASSUME ControlInv, CoverInv, ChunksDone PROVE CoverInv'
<1> DEFINE p == <<"range", Caller>>
           q == <<"right", Caller>>
<1>1. /\ CallTypeOK /\ ThreadInv(Caller) /\ CallerInv /\ Caller \in Threads
      /\ pc[Caller] = "loop" /\ i \in Nat /\ i >= NumTasks
  BY CallAssumption DEF ControlInv, ChunksDone, CallTypeOK
<1>2. /\ pc'[Caller] \in {"return", "wait"} /\ (\A u \in Threads : u # Caller => pc'[u] = pc[u])
      /\ UNCHANGED <<script, no, own, task, queued, range, right, i>>
      /\ Cmd.op # "NB" => Func(no, range[Caller])
  BY <1>1, Moved DEF ChunksDone, Pcs
<1>3. /\ script # << >> /\ Form = "loop" /\ own[Caller] = None /\ script \in Seq(CallRecords)
      /\ no \in Calls
  BY <1>1, CallNumber DEF CallerInv, ThreadInv
<1>4. RestPart = {} /\ RestPart' = {}
  <2>1. Chunk \in Nat \ {0} /\ Cmd.start \in Int /\ Cmd.end \in Int
    BY <1>3, ChunkType, FormFacts DEF CallRecords
  <2>2. Total \in Nat /\ Total = Cmd.end - Cmd.start
    BY <1>3, <2>1 DEF Form, Total
  <2>3. i * Chunk >= Total /\ i * Chunk \in Nat
    BY <1>1, <2>1, <2>2, ChunksReach, NextChunk DEF NumTasks
  <2>4. Cmd.start + i * Chunk >= Cmd.end
    BY <2>1, <2>2, <2>3
  <2>5. \A k \in Indices : k \notin RestPart
    <3> TAKE k \in Indices
    <3>1. k \in Int
      BY IndicesAreInts
    <3>2. Cmd.start + i * Chunk \in Int
      BY <2>1, <2>3
    <3> QED BY <2>1, <2>4, <3>1, <3>2 DEF RestPart, Within
  <2>6. RestPart' = {}
    BY <1>2 DEF RestPart
  <2> QED BY <2>5, <2>6 DEF RestPart
<1>5. ASSUME NEW k \in Indices, Blocking
      PROVE  \/ Stays(Parts, Parts', runs[no], runs'[no], k)
             \/ Moves(Parts, Parts', runs[no], runs'[no], k)
             \/ Runs(Parts, Parts', runs[no], runs'[no], k)
  <2>1. k \in RangePart(Caller) <=> Within(k, range[Caller])
    BY <1>1, <1>3 DEF RangePart, CallOf
  <2>2. k \notin RangePart(Caller)' /\ k \notin RightPart(Caller) /\ k \notin RightPart(Caller)'
    BY <1>1, <1>2 DEF RangePart, RightPart, Creating
  <2>3. runs'[no][k] = IF k \in RangePart(Caller) THEN runs[no][k] + 1 ELSE runs[no][k]
    BY <1>1, <1>2, <1>3, <1>5, <2>1, FuncRuns DEF Blocking
  <2>4. \A z \in Places : z \notin {p, q} => (k \in Parts'[z] <=> k \in Parts[z])
    <3>1. \A u \in Threads : u # Caller => RangePart(u)' = RangePart(u) /\ RightPart(u)' = RightPart(u)
      BY <1>2, OtherParts
    <3>2. \A s \in Slots : SlotPart(s)' = SlotPart(s)
      BY <1>2, OtherSlots
    <3> QED BY <1>4, <3>1, <3>2, Elsewhere
  <2>5. /\ p \in Places /\ q \in Places /\ p # q
        /\ Parts[p] = RangePart(Caller) /\ Parts[q] = RightPart(Caller)
        /\ Parts'[p] = RangePart(Caller)' /\ Parts'[q] = RightPart(Caller)'
    BY <1>1, PlacesAre, PlacesAreNext
  <2> HIDE DEF p, q
  <2>6. \/ /\ runs'[no][k] = runs[no][k]
           /\ (k \in Parts'[p] <=> k \in Parts[p]) /\ (k \in Parts'[q] <=> k \in Parts[q])
        \/ /\ runs'[no][k] = runs[no][k] + 1 /\ k \in Parts[p] /\ k \notin Parts'[p]
           /\ (k \in Parts'[q] <=> k \in Parts[q])
    BY <2>2, <2>3, <2>5
  <2> QED BY <2>4, <2>5, <2>6, PointStep
<1> QED BY <1>1, <1>2, <1>5, WorkMoves

\* At a call nothing of it is done or handed out, so its first step hands out or
\* does all of it.
LEMMA BeginCover ==
  ASSUME ControlInv, Begin PROVE CoverInv'
<1> DEFINE todo == Cmd.start .. Cmd.end - 1
           p == <<"range", Caller>>
           q == <<"rest", None>>
<1>1. /\ CallTypeOK /\ FreshInv /\ Caller \in Threads /\ pc[Caller] = "call" /\ script # << >>
      /\ script \in Seq(CallRecords) /\ no \in Calls /\ own[Caller] = None
  BY CallAssumption, CallNumber DEF ControlInv, Begin, ThreadInv
<1>2. /\ Form \in {"return", "loop", "inline", "rec"}
      /\ pc'[Caller] = IF Form = "inline" THEN "return" ELSE Form
      /\ (\A u \in Threads : u # Caller => pc'[u] = pc[u])
      /\ UNCHANGED <<script, no, own, task, queued, right>>
      /\ range'[Caller] = IF Form = "loop" THEN ChunkRange(0) ELSE <<Cmd.start, Cmd.end>>
      /\ \A u \in Threads : u # Caller => range'[u] = range[u]
  <2>1. Form \in {"return", "loop", "inline", "rec"}
    BY <1>1, FormFacts
  <2> QED BY <1>1, <2>1, Moved DEF Begin, Pcs, CallTypeOK
<1>3. Cmd' = Cmd /\ Form' = Form /\ Chunk' = Chunk
  BY <1>2, ScriptSame
<1>4. /\ Cmd.start \in Int /\ Cmd.end \in Int /\ Chunk \in Nat \ {0}
      /\ Form = "return" <=> Cmd.end - Cmd.start <= 0
  <2>1. Cmd \in CallRecords /\ Chunk \in Nat \ {0}
    BY <1>1, FormFacts, ChunkType
  <2> QED BY <2>1 DEF CallRecords, Form, Total
<1> SUFFICES ASSUME Blocking' PROVE Covers(Parts', runs'[no], todo)
  BY <1>2, <1>3 DEF CoverInv
<1>5. Cmd.op # "NB" /\ i' = 1
  BY <1>3 DEF Blocking, Begin
<1>6. \A u \in Threads : /\ RightPart(u)' = {}
                         /\ u # Caller => RangePart(u)' = {}
  <2>1. \A s \in Slots : Open(s) => ~ task[s].counted /\ ~ task[s].split
    BY <1>1, NothingCounted
  <2>2. ASSUME NEW u \in Threads, u # Caller PROVE RightPart(u)' = {}
    BY <1>2, <2>1, <2>2, NobodyAtWork DEF RightPart, Creating
  <2>3. RightPart(Caller)' = {}
    BY <1>2 DEF RightPart, Creating
  <2>4. ASSUME NEW u \in Threads, u # Caller PROVE RangePart(u)' = {}
    <3> SUFFICES ASSUME pc[u] \in {"loop", "rec", "leaf", "alloc", "count", "push"},
                        CallOf(u)' = no
                 PROVE  FALSE
      BY <1>2, <2>4 DEF RangePart
    <3>1. own[u] \in Slots /\ own[u] # None /\ Open(own[u])
      BY <2>4 DEF ControlInv, ThreadInv, CallTypeOK, SlotTypeOK, Open
    <3>2. task[own[u]].call = no
      BY <1>2, <3>1 DEF CallOf
    <3> QED BY <1>1, <2>1, <3>1, <3>2 DEF ControlInv, TaskInv
  <2> QED BY <2>2, <2>3, <2>4
<1>7. \A s \in Slots : SlotPart(s)' = {}
  <2> SUFFICES ASSUME NEW s \in Slots, s \in queued, task[s].call = no PROVE FALSE
    BY <1>2 DEF SlotPart
  <2>1. Open(s)
    BY DEF Open
  <2>2. ~ task[s].counted
    BY <1>1, <2>1, NothingCounted
  <2> QED BY <1>1, <2>1, <2>2 DEF ControlInv, TaskInv
<1>8. \A k \in Indices : runs[no][k] = 0
  BY <1>1 DEF FreshInv, Fresh
<1>9. /\ p \in Places /\ q \in Places /\ p # q
      /\ Parts'[p] = RangePart(Caller)' /\ Parts'[q] = RestPart'
      /\ \A z \in Places : z # p /\ z # q => Parts'[z] = {}
  BY <1>1, <1>6, <1>7, PlacesAre, PlacesAreNext, PlaceKinds
<1>10. \A k \in Indices : k \in Int /\ (k \in todo <=> Cmd.start <= k /\ k < Cmd.end)
  BY <1>4, IndicesAreInts
<1> HIDE DEF p, q, todo
<1>11. ASSUME Form \in {"loop", "rec"},
              \A k \in Indices : runs'[no][k] = 0,
              \A k \in Indices : k \in todo <=> k \in RangePart(Caller)' \/ k \in RestPart',
              \A k \in Indices : ~ (k \in RangePart(Caller)' /\ k \in RestPart')
       PROVE  Covers(Parts', runs'[no], todo)
  BY <1>9, <1>11 DEF Covers
<1>12. CASE Form \in {"return", "inline"}
  <2>1. RangePart(Caller)' = {} /\ RestPart' = {}
    BY <1>2, <1>12 DEF RangePart, RestPart
  <2>2. \A k \in Indices : runs'[no][k] = IF k \in todo THEN 1 ELSE 0
    <3>1. CASE Form = "return"
      BY <1>4, <1>8, <1>10, <3>1 DEF Begin
    <3>2. CASE Form = "inline"
      <4>1. Func(no, <<Cmd.start, Cmd.end>>)
        BY <3>2 DEF Begin
      <4> QED BY <1>1, <1>8, <1>10, <4>1, FuncRuns DEF Within
    <3> QED BY <1>12, <3>1, <3>2
  <2> QED BY <1>9, <2>1, <2>2 DEF Covers
<1>13. CASE Form = "rec"
  <2>1. RestPart' = {}
    BY <1>2, <1>13 DEF RestPart
  <2>2. \A k \in Indices : k \in RangePart(Caller)' <=> k \in todo
    BY <1>1, <1>2, <1>10, <1>13 DEF RangePart, CallOf, Within
  <2>3. \A k \in Indices : runs'[no][k] = 0
    BY <1>8, <1>13 DEF Begin
  <2> QED BY <1>11, <1>13, <2>1, <2>2, <2>3
<1>14. CASE Form = "loop"
  <2>1. \A k \in Indices : runs'[no][k] = 0
    BY <1>8, <1>14 DEF Begin
  <2>2. /\ ChunkRange(0)[1] = Cmd.start
        /\ ChunkRange(0)[2] = IF Cmd.start + Chunk <= Cmd.end THEN Cmd.start + Chunk ELSE Cmd.end
    <3>1. PICK z \in Nat : z = 0
      OBVIOUS
    <3>2. /\ ChunkRange(z)[1] = Cmd.start + z * Chunk
          /\ ChunkRange(z)[2] = IF Cmd.start + (z + 1) * Chunk <= Cmd.end
                                THEN Cmd.start + (z + 1) * Chunk ELSE Cmd.end
      BY <1>1, ChunkRangeType
    <3>3. z * Chunk = 0 /\ (z + 1) * Chunk = Chunk
      BY <1>4, <3>1
    <3> QED BY <1>4, <3>1, <3>2, <3>3
  <2>3. \A k \in Indices : k \in RangePart(Caller)' <=>
          Cmd.start <= k /\ k < IF Cmd.start + Chunk <= Cmd.end THEN Cmd.start + Chunk ELSE Cmd.end
    BY <1>1, <1>2, <1>14, <2>2 DEF RangePart, CallOf, Within
  <2>4. \A k \in Indices : k \in RestPart' <=> Cmd.start + Chunk <= k /\ k < Cmd.end
    <3>1. i' * Chunk' = Chunk
      BY <1>3, <1>4, <1>5
    <3> QED BY <1>1, <1>2, <1>3, <1>14, <3>1 DEF RestPart, Within
  <2>5. \A k \in Indices : /\ k \in todo <=> k \in RangePart(Caller)' \/ k \in RestPart'
                           /\ ~ (k \in RangePart(Caller)' /\ k \in RestPart')
    BY <1>4, <1>10, <2>3, <2>4
  <2> QED BY <1>11, <1>14, <2>1, <2>5
<1> QED BY <1>2, <1>12, <1>13, <1>14

LEMMA NextCover == ControlInv /\ CoverInv /\ [Next]_vars => CoverInv'
<1> SUFFICES ASSUME ControlInv, CoverInv, [Next]_vars PROVE CoverInv'
  OBVIOUS
<1>1. CASE UNCHANGED vars
  <2>1. UNCHANGED <<script, no, pc, range, right, i, own, task, queued, runs>>
    BY <1>1 DEF vars, callVars
  <2>2. \A t \in Threads : RangePart(t)' = RangePart(t) /\ RightPart(t)' = RightPart(t)
    BY <2>1, OtherParts
  <2>3. \A s \in Slots : SlotPart(s)' = SlotPart(s)
    BY <2>1, OtherSlots
  <2>4. RestPart' = RestPart
    BY <2>1, SameRest
  <2> QED BY <2>1, <2>2, <2>3, <2>4, WorkStands
<1>2. CASE CallerStep
  BY <1>2, BeginCover, ChunkLoopCover, ChunksDoneCover, WaitReturnsCover, ReturnCover
     DEF CallerStep
<1>3. ASSUME NEW t \in Threads, Step(t) PROVE CoverInv'
  BY <1>3, SplitCover, LeafCover, CreateTaskCover, CreateFailsCover, CountTaskCover,
     PushTaskCover, RunTaskCover, FinishCover, FreeTaskCover DEF Step
<1> QED BY <1>1, <1>2, <1>3 DEF Next

LEMMA CoverAlways == Spec => []CallInv
<1>1. Init => CallInv
  <2> SUFFICES ASSUME Init PROVE ControlInv /\ CoverInv
    BY DEF CallInv
  <2>1. pc[Caller] = "call"
    BY CallAssumption DEF Init
  <2> QED BY <2>1, InitControl DEF CoverInv, Blocking
<1>2. CallInv /\ [Next]_vars => CallInv'
  BY NextControl, NextCover DEF CallInv
<1> QED BY <1>1, <1>2, PTL DEF Spec

LEMMA CallInvSuffices == CallInv => ReturnsComplete
<1> SUFFICES ASSUME ControlInv, CoverInv, pc[Caller] = "return", Cmd.op # "NB"
             PROVE  /\ \A k \in Indices :
                         runs[no][k] = IF k \in Cmd.start .. Cmd.end - 1 THEN 1 ELSE 0
                    /\ ~ Busy(no)
  BY DEF CallInv, ReturnsComplete
<1>1. \A s \in Slots : Open(s) => ~ task[s].counted /\ ~ task[s].split
  BY NothingCounted
<1>2. \A s \in Slots : Open(s) => task[s].call # no
  BY <1>1 DEF ControlInv, TaskInv
<1>3. ~ Busy(no)
  BY <1>2 DEF Busy, Open, ControlInv, CallTypeOK, SlotTypeOK
<1>4. ASSUME NEW u \in Threads PROVE RangePart(u) = {} /\ RightPart(u) = {}
  <2>1. CASE u = Caller
    BY <2>1 DEF RangePart, RightPart, Creating
  <2>2. CASE u # Caller
    <3>1. pc[u] # "rec" /\ ~ Creating(u)
      BY <1>1, <2>2, NobodyAtWork
    <3>2. CASE pc[u] = "leaf"
      <4>1. own[u] \in Slots /\ own[u] # None /\ Open(own[u])
        BY <3>2 DEF ControlInv, ThreadInv, CallTypeOK, SlotTypeOK, Open
      <4>2. CallOf(u) # no
        BY <1>2, <4>1 DEF CallOf
      <4> QED BY <3>1, <4>2 DEF RangePart, RightPart
    <3>3. CASE pc[u] # "leaf"
      <4>1. pc[u] # "loop"
        BY <2>2 DEF ControlInv, ThreadInv
      <4> QED BY <3>1, <3>3, <4>1 DEF RangePart, RightPart, Creating
    <3> QED BY <3>2, <3>3
  <2> QED BY <2>1, <2>2
<1>5. RestPart = {} /\ \A s \in Slots : SlotPart(s) = {}
  <2>1. \A s \in queued : s \in Slots /\ Open(s)
    BY DEF ControlInv, CallTypeOK, SlotTypeOK, Open
  <2> QED BY <1>2, <2>1 DEF RestPart, SlotPart
<1>6. \A z \in Places : Parts[z] = {}
  BY <1>4, <1>5, PlacesAre, PlaceKinds
<1>7. Covers(Parts, runs[no], Cmd.start .. Cmd.end - 1)
  BY DEF CoverInv, Blocking
<1> QED BY <1>3, <1>6, <1>7 DEF Covers

\* A blocking call (ParallelFor, ParallelForFJ) has returned only when func has run
\* exactly once for every index of its range and for no other, and no task can use
\* the frame that is gone: for every chunk size, depth of splitting, number of
\* threads and order of stealing, and also when CreateTask finds no slot and the
\* chunk is run on the spot.
THEOREM CallsComplete == Spec => []ReturnsComplete
BY CoverAlways, CallInvSuffices, PTL

-----------------------------------------------------------------------------
(* Numbers.                                                                *)

\* A set of natural numbers that is not empty has a least element.
LEMMA LeastNumber ==
  ASSUME NEW T, T \subseteq Nat, T # {}
  PROVE  \E x \in T : \A y \in T : x <= y
<1> DEFINE R == {ss \in Nat \X Nat : ss[1] < ss[2]}
<1>1. IsWellFoundedOn(R, Nat)
  BY NatLessThanWellFounded DEF OpToRel
<1>2. PICK x \in T : \A y \in T : <<y, x>> \notin R
  <2> HIDE DEF R
  <2> QED  BY <1>1, WFMin
<1>3. ASSUME NEW y \in T  PROVE x <= y
  <2>1. <<y, x>> \in Nat \X Nat /\ <<y, x>>[1] = y /\ <<y, x>>[2] = x
    OBVIOUS
  <2>2. ~(y < x)
    BY <1>2, <2>1
  <2> QED  BY <2>2
<1> QED  BY <1>3

\* A recursion over the natural numbers defines a function: g[k] is step k of
\* the recursion applied to g[k - 1].
LEMMA RecursionDefines ==
  ASSUME NEW C, NEW c0 \in C, NEW s \in [Nat -> [C -> C]]
  PROVE  \E g \in [Nat -> C] : \A k \in Nat : g[k] = IF k = 0 THEN c0 ELSE s[k][g[k - 1]]
<1> DEFINE P(z) == {f \in [0 .. z -> C] : f[0] = c0 /\ \A k \in 1 .. z : f[k] = s[k][f[k - 1]]}
<1>1. \A z \in Nat : P(z) # {}
  <2> SUFFICES ASSUME {z \in Nat : P(z) = {}} # {}  PROVE FALSE
    OBVIOUS
  <2>1. PICK x \in {z \in Nat : P(z) = {}} : \A y \in {z \in Nat : P(z) = {}} : x <= y
    <3> HIDE DEF P
    <3> QED  BY LeastNumber
  <2>2. x # 0
    <3>1. [k \in 0 .. 0 |-> c0] \in P(0)
      OBVIOUS
    <3> QED  BY <2>1, <3>1
  <2>3. PICK f : f \in P(x - 1)
    <3> HIDE DEF P
    <3>1. x - 1 \in Nat /\ ~(x <= x - 1)
      BY <2>1, <2>2
    <3>2. P(x - 1) # {}
      BY <2>1, <3>1
    <3> QED  BY <3>2
  <2> DEFINE h == [k \in 0 .. x |-> IF k = x THEN s[x][f[x - 1]] ELSE f[k]]
  <2>4. h \in P(x)
    <3>0. x \in Nat /\ x >= 1
      BY <2>1, <2>2
    <3>1. f \in [0 .. x - 1 -> C] /\ f[0] = c0 /\ \A k \in 1 .. x - 1 : f[k] = s[k][f[k - 1]]
      BY <2>3
    <3>2. s[x][f[x - 1]] \in C
      BY <3>0, <3>1
    <3>3. h \in [0 .. x -> C]
      BY <3>0, <3>1, <3>2
    <3>4. h[0] = c0
      BY <3>0, <3>1
    <3>5. ASSUME NEW k \in 1 .. x  PROVE h[k] = s[k][h[k - 1]]
      <4>1. k - 1 \in 0 .. x /\ k - 1 # x /\ h[k - 1] = f[k - 1]
        BY <3>0, <3>1
      <4>2. CASE k = x
        BY <3>0, <4>1, <4>2
      <4>3. CASE k # x
        BY <3>0, <3>1, <4>1, <4>3
      <4> QED  BY <4>2, <4>3
    <3> QED  BY <3>3, <3>4, <3>5
  <2> QED  BY <2>1, <2>4
<1>2. ASSUME NEW z \in Nat, NEW m \in Nat, NEW f \in P(z), NEW g \in P(m),
             NEW k \in Nat, k <= z, k <= m
      PROVE  f[k] = g[k]
  <2> DEFINE T == {j \in 0 .. k : f[j] # g[j]}
  <2> SUFFICES ASSUME T # {}  PROVE FALSE
    <3> HIDE DEF P
    <3>1. k \in 0 .. k
      OBVIOUS
    <3> QED  BY <3>1
  <2>1. PICK x \in T : \A y \in T : x <= y
    <3>1. T \subseteq Nat
      <4> HIDE DEF P
      <4> QED  OBVIOUS
    <3> HIDE DEF T, P
    <3> QED  BY <3>1, LeastNumber
  <2>2. x # 0
    BY <2>1, <1>2
  <2>3. f[x - 1] = g[x - 1]
    BY <2>1, <2>2
  <2>4. f[x] = s[x][f[x - 1]] /\ g[x] = s[x][g[x - 1]]
    BY <2>1, <2>2, <1>2
  <2> QED  BY <2>1, <2>3, <2>4
<1> DEFINE c(z) == CHOOSE f : f \in P(z)
<1>3. \A z \in Nat : c(z) \in P(z)
  <2> HIDE DEF P
  <2> QED  BY <1>1
<1> DEFINE g == [k \in Nat |-> c(k)[k]]
<1>4. g \in [Nat -> C]
  <2> HIDE DEF c
  <2>1. \A k \in Nat : c(k)[k] \in C
    BY <1>3
  <2> QED  BY <2>1
<1>5. ASSUME NEW k \in Nat  PROVE g[k] = IF k = 0 THEN c0 ELSE s[k][g[k - 1]]
  <2> HIDE DEF c
  <2>1. CASE k = 0
    <3>1. c(0)[0] = c0
      BY <1>3
    <3> QED  BY <3>1, <2>1
  <2>2. CASE k # 0
    <3>1. c(k)[k - 1] = c(k - 1)[k - 1]
      <4>1. k - 1 \in Nat /\ k - 1 <= k
        BY <2>2
      <4> HIDE DEF P
      <4> QED  BY <1>2, <1>3, <4>1
    <3>2. c(k)[k] = s[k][c(k)[k - 1]]
      BY <1>3, <2>2
    <3> QED  BY <2>2, <3>1, <3>2
  <2> QED  BY <2>1, <2>2
<1> HIDE DEF g
<1> QED  BY <1>4, <1>5

-----------------------------------------------------------------------------
(* The ids of the threads.                                                 *)

Numbered == {w \in DOMAIN wpc : wpc[w] \in {"numbered", "ready"}}

\* How far the main thread and the workers have got with each other.
StartInv ==
  /\ machine \in Machines /\ mpc \in {"init", "pool", "spawn", "release", "active"}
  /\ num_workers \in Nat
  /\ mpc # "init" => num_workers > 0 /\ threadEpochs = num_workers + 1
  /\ mpc \in {"init", "pool"} => DOMAIN wpc = {}
  /\ IsFiniteSet(DOMAIN wpc) /\ DOMAIN wpc = 0 .. NewWorker - 1 /\ NewWorker <= num_workers
  /\ mpc = "release" => NewWorker > 0
  /\ \A w \in DOMAIN wpc :
       /\ wpc[w] \in {"created", "released", "numbered", "ready"}
       /\ wpc[w] = "created" <=> mpc = "release" /\ w = NewWorker - 1
  /\ mpc = "active" => NewWorker = num_workers /\ \A w \in DOMAIN wpc : wpc[w] = "ready"

\* An id is a number that was given out, and no two threads have the same one.
IdInv ==
  /\ DOMAIN thread_id = IF mpc = "active" THEN Numbered \cup {Main} ELSE Numbered
  /\ thread_counter = IF mpc = "active" THEN num_workers + 1 ELSE Cardinality(Numbered)
  /\ \A x \in DOMAIN thread_id : thread_id[x] \in 0 .. thread_counter - 1
  /\ \A x, y \in DOMAIN thread_id : x # y => thread_id[x] # thread_id[y]
  /\ mpc = "active" => thread_id[Main] = num_workers

LEMMA EmptyIs == DOMAIN Empty = {}
BY DEF Empty

\* The workers that have an id are finitely many, and no more than there are.
LEMMA NumberedFew ==
  ASSUME StartInv
  PROVE  /\ IsFiniteSet(Numbered) /\ Cardinality(Numbered) \in Nat
         /\ NewWorker \in Nat /\ Cardinality(Numbered) <= NewWorker
<1>1. Numbered \subseteq DOMAIN wpc /\ IsFiniteSet(DOMAIN wpc)
  BY DEF StartInv, Numbered
<1> QED BY <1>1, FS_Subset, FS_CardinalityType DEF NewWorker

LEMMA IdsFit == ASSUME StartInv, IdInv PROVE ThreadIdsValid
<1>1. thread_counter \in Nat /\ (DOMAIN thread_id # {} => thread_counter <= threadEpochs)
  <2>1. CASE mpc = "active"
    BY <2>1 DEF StartInv, IdInv
  <2>2. CASE mpc \in {"spawn", "release"}
    BY <2>2, NumberedFew DEF StartInv, IdInv
  <2>3. CASE mpc \in {"init", "pool"}
    BY <2>3, NumberedFew DEF StartInv, IdInv, Numbered
  <2> QED BY <2>1, <2>2, <2>3 DEF StartInv
<1>2. ASSUME NEW x \in DOMAIN thread_id PROVE thread_id[x] < threadEpochs
  <2>1. thread_id[x] \in 0 .. thread_counter - 1 /\ thread_counter <= threadEpochs
    BY <1>1 DEF IdInv
  <2>2. threadEpochs \in Nat
    <3>1. mpc # "init"
      BY DEF IdInv, StartInv, Numbered
    <3> QED BY <3>1 DEF StartInv
  <2> QED BY <1>1, <2>1, <2>2
<1> QED BY <1>2 DEF ThreadIdsValid, IdInv

LEMMA StartInitInv == ASSUME StartInit PROVE StartInv /\ IdInv
<1>1. DOMAIN wpc = {} /\ NewWorker = 0 /\ Numbered = {} /\ DOMAIN thread_id = {}
  BY EmptyIs, FS_EmptySet DEF StartInit, NewWorker, Numbered
<1>2. StartInv
  BY <1>1, FS_EmptySet, MachinesAssumption DEF StartInit, StartInv
<1>3. IdInv
  BY <1>1, FS_EmptySet DEF StartInit, IdInv
<1> QED BY <1>2, <1>3

\* Steps that leave wpc alone.
LEMMA PrepareIds == ASSUME StartInv, IdInv, Prepare PROVE StartInv' /\ IdInv'
<1>1. GetSafeTC \in Nat /\ GetSafeTC > 0
  BY MachinesAssumption DEF StartInv, GetSafeTC
<1>2. NewWorker' = NewWorker /\ Numbered' = Numbered /\ DOMAIN wpc = {} /\ NewWorker = 0
  BY FS_EmptySet DEF Prepare, NewWorker, Numbered, StartInv
<1>3. num_workers' \in Nat /\ num_workers' > 0 /\ threadEpochs' = num_workers' + 1
  BY <1>1 DEF Prepare, StartInv
<1>4. StartInv'
  BY <1>2, <1>3 DEF Prepare, StartInv
<1>5. IdInv'
  BY <1>2 DEF Prepare, IdInv, StartInv
<1> QED BY <1>4, <1>5

LEMMA CreateIds == ASSUME StartInv, IdInv, CreatePool PROVE StartInv' /\ IdInv'
<1>1. /\ NewWorker' = NewWorker /\ Numbered' = Numbered /\ mpc = "pool" /\ mpc' = "spawn"
      /\ wpc' = wpc /\ machine' = machine /\ num_workers' = num_workers
      /\ threadEpochs' = threadEpochs /\ thread_id' = thread_id /\ thread_counter' = thread_counter
  BY DEF CreatePool, NewWorker, Numbered
<1>2. StartInv'
  BY <1>1 DEF StartInv
<1>3. IdInv'
  BY <1>1 DEF IdInv
<1> QED BY <1>2, <1>3

LEMMA MainIds == ASSUME StartInv, IdInv, MainNumbered PROVE StartInv' /\ IdInv'
<1>1. /\ NewWorker' = NewWorker /\ Numbered' = Numbered /\ mpc = "spawn" /\ mpc' = "active"
      /\ wpc' = wpc /\ machine' = machine /\ num_workers' = num_workers
      /\ threadEpochs' = threadEpochs /\ NewWorker = num_workers
      /\ \A w \in DOMAIN wpc : wpc[w] = "ready"
      /\ thread_id' = Extend(thread_id, Main, thread_counter)
      /\ thread_counter' = thread_counter + 1
  BY DEF MainNumbered, NewWorker, Numbered
<1>2. StartInv'
  BY <1>1 DEF StartInv
<1>3. Numbered = DOMAIN wpc
  BY <1>1 DEF Numbered
<1>4. thread_counter = num_workers /\ num_workers \in Nat /\ DOMAIN thread_id = Numbered
  BY <1>1, <1>3 DEF IdInv, StartInv, NewWorker
<1>5. Main \notin Numbered
  BY <1>3 DEF StartInv, Main
<1>6. /\ DOMAIN thread_id' = Numbered \cup {Main} /\ thread_id'[Main] = num_workers
      /\ \A x \in Numbered : thread_id'[x] = thread_id[x]
  BY <1>1, <1>4, <1>5 DEF Extend
<1>7. \A x \in Numbered : thread_id[x] \in 0 .. num_workers - 1
  BY <1>4 DEF IdInv
<1>8. \A x \in DOMAIN thread_id' : thread_id'[x] \in 0 .. num_workers
  BY <1>4, <1>6, <1>7
<1>9. ASSUME NEW x \in DOMAIN thread_id', NEW y \in DOMAIN thread_id', x # y
      PROVE  thread_id'[x] # thread_id'[y]
  BY <1>4, <1>6, <1>7, <1>9 DEF IdInv
<1>10. IdInv'
  BY <1>1, <1>4, <1>6, <1>8, <1>9 DEF IdInv
<1> QED BY <1>2, <1>10

\* The main thread adds a worker ...
LEMMA SpawnIds == ASSUME StartInv, IdInv, SpawnWorker PROVE StartInv' /\ IdInv'
<1> DEFINE k == NewWorker
<1>1. /\ mpc = "spawn" /\ mpc' = "release" /\ k < num_workers
      /\ wpc' = Extend(wpc, k, "created") /\ machine' = machine /\ num_workers' = num_workers
      /\ threadEpochs' = threadEpochs /\ thread_id' = thread_id /\ thread_counter' = thread_counter
  BY DEF SpawnWorker
<1>2. k \in Nat /\ DOMAIN wpc = 0 .. k - 1 /\ k \notin DOMAIN wpc /\ num_workers \in Nat
  BY NumberedFew DEF StartInv
<1>3. /\ DOMAIN wpc' = DOMAIN wpc \cup {k} /\ wpc'[k] = "created"
      /\ \A w \in DOMAIN wpc : wpc'[w] = wpc[w]
  BY <1>1, <1>2 DEF Extend
<1>4. IsFiniteSet(DOMAIN wpc') /\ NewWorker' = k + 1
  BY <1>2, <1>3, FS_AddElement DEF StartInv, NewWorker
<1>5. DOMAIN wpc' = 0 .. k
  BY <1>2, <1>3
<1>6. Numbered' = Numbered
  BY <1>2, <1>3 DEF Numbered
<1> HIDE DEF k
<1>7. \A w \in DOMAIN wpc : wpc[w] # "created"
  BY <1>1 DEF StartInv
<1>8. ASSUME NEW w \in DOMAIN wpc'
      PROVE  /\ wpc'[w] \in {"created", "released", "numbered", "ready"}
             /\ wpc'[w] = "created" <=> w = k
  BY <1>2, <1>3, <1>7 DEF StartInv
<1>9. StartInv'
  BY <1>1, <1>2, <1>4, <1>5, <1>8 DEF StartInv
<1>10. IdInv'
  BY <1>1, <1>6 DEF IdInv
<1> QED BY <1>9, <1>10

\* ... and lets it run.
LEMMA ReleaseIds == ASSUME StartInv, IdInv, ReleaseWorker PROVE StartInv' /\ IdInv'
<1>1. /\ mpc = "release" /\ mpc' = "spawn" /\ machine' = machine /\ num_workers' = num_workers
      /\ wpc' = [wpc EXCEPT ![NewWorker - 1] = "released"]
      /\ threadEpochs' = threadEpochs /\ thread_id' = thread_id /\ thread_counter' = thread_counter
  BY DEF ReleaseWorker
<1>2. NewWorker \in Nat /\ NewWorker > 0 /\ NewWorker - 1 \in DOMAIN wpc
  BY <1>1, NumberedFew DEF StartInv
<1>3. /\ DOMAIN wpc' = DOMAIN wpc /\ wpc'[NewWorker - 1] = "released"
      /\ wpc[NewWorker - 1] = "created"
      /\ \A w \in DOMAIN wpc : w # NewWorker - 1 => wpc'[w] = wpc[w] /\ wpc[w] # "created"
  BY <1>1, <1>2 DEF StartInv
<1>4. NewWorker' = NewWorker
  BY <1>3 DEF NewWorker
<1>5. Numbered' = Numbered
  BY <1>2, <1>3 DEF Numbered
<1>6. StartInv'
  BY <1>1, <1>2, <1>3, <1>4 DEF StartInv
<1>7. IdInv'
  BY <1>1, <1>5 DEF IdInv
<1> QED BY <1>6, <1>7

\* A worker takes the next id; several may be about to.
LEMMA NumberIds ==
  ASSUME StartInv, IdInv, NEW w \in DOMAIN wpc, NumberWorker(w) PROVE StartInv' /\ IdInv'
<1>1. /\ wpc[w] = "released" /\ wpc' = [wpc EXCEPT ![w] = "numbered"]
      /\ thread_id' = Extend(thread_id, w, thread_counter) /\ thread_counter' = thread_counter + 1
      /\ mpc' = mpc /\ machine' = machine /\ num_workers' = num_workers
      /\ threadEpochs' = threadEpochs
  BY DEF NumberWorker
<1>2. /\ DOMAIN wpc' = DOMAIN wpc /\ wpc'[w] = "numbered"
      /\ \A v \in DOMAIN wpc : v # w => wpc'[v] = wpc[v]
  BY <1>1
<1>3. NewWorker' = NewWorker
  BY <1>2 DEF NewWorker
<1>4. mpc # "active"
  BY <1>1 DEF StartInv
<1>5. w \notin Numbered /\ Numbered' = Numbered \cup {w}
  BY <1>1, <1>2 DEF Numbered
<1>6. Cardinality(Numbered') = Cardinality(Numbered) + 1 /\ Cardinality(Numbered) \in Nat
  BY <1>5, NumberedFew, FS_AddElement
<1>7. StartInv'
  BY <1>1, <1>2, <1>3, <1>4 DEF StartInv
<1>8. thread_counter = Cardinality(Numbered) /\ DOMAIN thread_id = Numbered
  BY <1>4 DEF IdInv
<1>9. /\ DOMAIN thread_id' = Numbered' /\ thread_id'[w] = thread_counter
      /\ \A x \in Numbered : thread_id'[x] = thread_id[x]
  BY <1>1, <1>5, <1>8 DEF Extend
<1>10. \A x \in Numbered : thread_id[x] \in 0 .. thread_counter - 1
  BY <1>8 DEF IdInv
<1>11. \A x \in DOMAIN thread_id' : thread_id'[x] \in 0 .. thread_counter
  BY <1>5, <1>6, <1>8, <1>9, <1>10
<1>12. ASSUME NEW x \in DOMAIN thread_id', NEW y \in DOMAIN thread_id', x # y
       PROVE  thread_id'[x] # thread_id'[y]
  BY <1>5, <1>6, <1>8, <1>9, <1>10, <1>12 DEF IdInv
<1>13. thread_counter \in Nat /\ thread_counter' - 1 = thread_counter
  BY <1>1, <1>6, <1>8
<1>14. IdInv'
  BY <1>1, <1>4, <1>6, <1>8, <1>9, <1>11, <1>12, <1>13 DEF IdInv
<1> QED BY <1>7, <1>14

LEMMA EnterIds ==
  ASSUME StartInv, IdInv, NEW w \in DOMAIN wpc, EnterLoop(w) PROVE StartInv' /\ IdInv'
<1>1. /\ wpc[w] = "numbered" /\ wpc' = [wpc EXCEPT ![w] = "ready"]
      /\ thread_id' = thread_id /\ thread_counter' = thread_counter
      /\ mpc' = mpc /\ machine' = machine /\ num_workers' = num_workers
      /\ threadEpochs' = threadEpochs
  BY DEF EnterLoop
<1>2. /\ DOMAIN wpc' = DOMAIN wpc /\ wpc'[w] = "ready"
      /\ \A v \in DOMAIN wpc : v # w => wpc'[v] = wpc[v]
  BY <1>1
<1>3. NewWorker' = NewWorker
  BY <1>2 DEF NewWorker
<1>4. Numbered' = Numbered
  BY <1>1, <1>2 DEF Numbered
<1>5. StartInv'
  BY <1>1, <1>2, <1>3 DEF StartInv
<1>6. IdInv'
  BY <1>1, <1>4 DEF IdInv
<1> QED BY <1>5, <1>6

LEMMA RestIds == ASSUME StartInv, IdInv, UNCHANGED startVars PROVE StartInv' /\ IdInv'
<1>1. NewWorker' = NewWorker /\ Numbered' = Numbered
  BY DEF startVars, NewWorker, Numbered
<1> QED BY <1>1 DEF startVars, StartInv, IdInv

LEMMA IdsStep == ASSUME StartInv, IdInv, [StartNext]_systemVars PROVE StartInv' /\ IdInv'
<1>1. CASE StartStep
  BY <1>1, PrepareIds, CreateIds, SpawnIds, ReleaseIds, MainIds DEF StartStep
<1>2. CASE \E w \in DOMAIN wpc : NumberWorker(w) \/ EnterLoop(w)
  BY <1>2, NumberIds, EnterIds
<1>3. CASE \E w \in Cached : NewTask(w) \/ (FiberStep(w) /\ UNCHANGED startVars)
  <2>1. UNCHANGED startVars
    BY <1>3 DEF NewTask
  <2> QED BY <2>1, RestIds
<1>4. CASE UNCHANGED systemVars
  BY <1>4, RestIds DEF systemVars
<1> QED BY <1>1, <1>2, <1>3, <1>4 DEF StartNext

\* Whatever the order in which the workers number themselves: every id that was
\* given out has its epoch slot, no two threads share one, and the main thread
\* has the last, for machines and pools of every size.
THEOREM IdsHaveSlots == StartSpec => []ThreadIdsValid
<1>1. StartInit => StartInv /\ IdInv
  BY StartInitInv
<1>2. StartInv /\ IdInv /\ [StartNext]_systemVars => (StartInv /\ IdInv)'
  BY IdsStep
<1>3. StartInv /\ IdInv => ThreadIdsValid
  BY IdsFit
<1> QED BY <1>1, <1>2, <1>3, PTL DEF StartSpec
-----------------------------------------------------------------------------
(* The topology.                                                           *)

\* The workers of a mask, and what is left without a worker and its sibling.
LEMMA GroupSize ==
  ASSUME NEW size \in Nat, NEW mask, NEW q, NEW s
  PROVE  LET g == QsInGroup(size, mask) IN
         /\ g \subseteq 0 .. size - 1 /\ IsFiniteSet(g) /\ Cardinality(g) \in Nat
         /\ IsFiniteSet(g \ {q, s}) /\ Cardinality(g \ {q, s}) \in Nat
         /\ q \in g => /\ Cardinality(g) >= 1
                       /\ Cardinality(g \ {q, s}) + 1 <= Cardinality(g)
                       /\ Cardinality(g) <= Cardinality(g \ {q, s}) + 2
<1> DEFINE g == QsInGroup(size, mask)
           h == g \ {q}
<1>1. g \subseteq 0 .. size - 1
  BY DEF QsInGroup
<1>2. IsFiniteSet(g) /\ Cardinality(g) \in Nat
  <2>1. IsFiniteSet(0 .. size - 1)
    BY FS_Interval
  <2> HIDE DEF g
  <2> QED BY <1>1, <2>1, FS_Subset, FS_CardinalityType
<1> HIDE DEF g
<1>3. IsFiniteSet(h) /\ Cardinality(h) \in Nat /\ (q \in g => Cardinality(h) = Cardinality(g) - 1)
  BY <1>2, FS_RemoveElement, FS_CardinalityType
<1>4. /\ IsFiniteSet(h \ {s}) /\ Cardinality(h \ {s}) \in Nat
      /\ Cardinality(h \ {s}) \in {Cardinality(h), Cardinality(h) - 1}
  <2> HIDE DEF h
  <2> QED BY <1>3, FS_RemoveElement, FS_CardinalityType
<1>5. h \ {s} = g \ {q, s}
  OBVIOUS
<1> HIDE DEF h
<1>6. q \in g => /\ Cardinality(g) >= 1
                 /\ Cardinality(g \ {q, s}) + 1 <= Cardinality(g)
                 /\ Cardinality(g) <= Cardinality(g \ {q, s}) + 2
  <2>1. Cardinality(g \ {q, s}) \in {Cardinality(h), Cardinality(h) - 1}
    BY <1>4, <1>5
  <2> QED BY <1>2, <1>3, <2>1
<1> QED BY <1>1, <1>2, <1>4, <1>5, <1>6 DEF g

\* A group of two is two workers.
LEMMA TwoWorkers ==
  ASSUME NEW g, IsFiniteSet(g), Cardinality(g) = 2, NEW q \in g
  PROVE  \E r : r # q /\ g = {q, r}
<1>1. IsFiniteSet(g \ {q}) /\ Cardinality(g \ {q}) = 1
  BY FS_RemoveElement
<1>2. PICK r : g \ {q} = {r}
  BY <1>1, FS_Singleton
<1> QED BY <1>2

LEMMA PairIsTwo == ASSUME NEW q, NEW r, q # r PROVE Cardinality({q, r}) = 2
<1>1. IsFiniteSet({q}) /\ Cardinality({q}) = 1
  BY FS_Singleton
<1>2. r \notin {q} /\ {q} \cup {r} = {q, r}
  OBVIOUS
<1> QED BY <1>1, <1>2, FS_AddElement

\* Groups of cores that do not share a CPU.
CoresApart(cores) ==
  \A a, b \in DOMAIN cores : a # b => cores[a] \cap cores[b] = {}
CoreGroups(size, cores) == {QsInGroup(size, cores[a]) : a \in DOMAIN cores}

LEMMA OneCore ==
  ASSUME NEW size \in Nat, NEW cores \in Seq(SUBSET Nat), CoresApart(cores),
         NEW g \in CoreGroups(size, cores), NEW h \in CoreGroups(size, cores),
         NEW x \in g, x \in h
  PROVE  g = h
<1>1. PICK a \in DOMAIN cores : g = QsInGroup(size, cores[a])
  BY DEF CoreGroups
<1>2. PICK b \in DOMAIN cores : h = QsInGroup(size, cores[b])
  BY DEF CoreGroups
<1>3. cores[a] \subseteq Nat /\ cores[b] \subseteq Nat
  OBVIOUS
<1>4. PICK c \in cores[a] : c - 1 = x
  BY <1>1 DEF QsInGroup
<1>5. PICK d \in cores[b] : d - 1 = x
  BY <1>2 DEF QsInGroup
<1>6. c = d
  BY <1>3, <1>4, <1>5
<1> QED BY <1>1, <1>2, <1>4, <1>5, <1>6 DEF CoresApart

\* Each of two workers on a core of their own has the other as its sibling.
LEMMA PairGives ==
  ASSUME NEW size \in Nat, NEW cores \in Seq(SUBSET Nat), CoresApart(cores),
         NEW q \in 0 .. size - 1, NEW r, r # q, {q, r} \in CoreGroups(size, cores)
  PROVE  Siblings(size, cores)[q] = r
<1> DEFINE pairs == {g \in {QsInGroup(size, cores[a]) : a \in DOMAIN cores} :
                       q \in g /\ Cardinality(g) = 2}
<1>1. pairs = {{q, r}}
  <2>1. {q, r} \in pairs
    BY PairIsTwo DEF CoreGroups
  <2>2. ASSUME NEW g \in pairs PROVE g = {q, r}
    <3>1. g \in CoreGroups(size, cores) /\ q \in g
      BY DEF CoreGroups
    <3> QED BY <3>1, OneCore
  <2> QED BY <2>1, <2>2
<1>2. UNION pairs = {q, r}
  BY <1>1
<1>3. (CHOOSE x \in UNION pairs : x # q) = r
  <2> HIDE DEF pairs
  <2> QED BY <1>2
<1>4. pairs # {}
  BY <1>1
<1> QED BY <1>3, <1>4 DEF Siblings

LEMMA SiblingsSound ==
  ASSUME NEW size \in Nat, NEW cores \in Seq(SUBSET Nat), CoresApart(cores),
         NEW q \in 0 .. size - 1
  PROVE  LET s == Siblings(size, cores)[q]
             groups == {g \in CoreGroups(size, cores) : q \in g}
         IN  /\ s # -1 => /\ s \in 0 .. size - 1 /\ s # q /\ Siblings(size, cores)[s] = q
                          /\ {q, s} \in groups
             /\ s = -1 => \A g \in groups : Cardinality(g) # 2
<1> DEFINE groups == {g \in CoreGroups(size, cores) : q \in g}
<1>1. CASE \E g \in groups : Cardinality(g) = 2
  <2>1. PICK g \in groups : Cardinality(g) = 2
    BY <1>1
  <2>2. g \subseteq 0 .. size - 1 /\ IsFiniteSet(g)
    BY GroupSize DEF CoreGroups
  <2>3. PICK r : r # q /\ g = {q, r}
    <3>1. q \in g
      OBVIOUS
    <3>2. Cardinality(g) = 2 /\ IsFiniteSet(g)
      BY <2>1, <2>2
    <3> HIDE DEF groups
    <3>3. \A x \in g : \E r : r # x /\ g = {x, r}
      BY <3>2, TwoWorkers
    <3> QED BY <3>1, <3>3
  <2>4. r \in 0 .. size - 1 /\ {q, r} \in CoreGroups(size, cores) /\ {r, q} = {q, r}
    BY <2>1, <2>2, <2>3
  <2>5. Siblings(size, cores)[q] = r
    BY <2>3, <2>4, PairGives
  <2>6. Siblings(size, cores)[r] = q
    BY <2>3, <2>4, PairGives
  <2> QED BY <2>3, <2>4, <2>5, <2>6
<1>2. CASE \A g \in groups : Cardinality(g) # 2
  <2> DEFINE pairs == {g \in {QsInGroup(size, cores[a]) : a \in DOMAIN cores} :
                         q \in g /\ Cardinality(g) = 2}
  <2>1. pairs = {}
    BY <1>2 DEF CoreGroups
  <2>2. Siblings(size, cores)[q] = -1
    BY <2>1 DEF Siblings
  <2> QED BY <1>2, <2>2
<1> QED BY <1>1, <1>2

\* Without a report there are no siblings.
LEMMA NoSiblings ==
  ASSUME NEW size \in Nat, NEW q \in 0 .. size - 1 PROVE Siblings(size, << >>)[q] = -1
BY DEF Siblings

\* One mask after the other: the stages by which Mates gets at its result.
LEMMA MatesStages ==
  ASSUME NEW size \in Nat, NEW sib, NEW masks
  PROVE  masks \in Seq(SUBSET Nat) /\ masks # NoInfo =>
         \E g : /\ Mates(size, sib, masks) = g[Len(masks)]
                /\ g[0] = [q \in 0 .. size - 1 |-> {}]
                /\ \A k \in 1 .. Len(masks) : g[k] = MatesAfter(size, sib, g[k - 1], masks[k])
<1> DEFINE L == Len(masks)
           C == [0 .. size - 1 -> SUBSET (0 .. size - 1)]
           c0 == [q \in 0 .. size - 1 |-> {}]
           R(k, m) == MatesAfter(size, sib, m, masks[k])
           t == [k \in Nat |-> [m \in C |-> R(k, m)]]
<1>1. PICK g \in [Nat -> C] : \A k \in Nat : g[k] = IF k = 0 THEN c0 ELSE t[k][g[k - 1]]
  <2>1. \A k \in Nat : \A m \in C : R(k, m) \in C
    BY DEF MatesAfter, QsInGroup
  <2>2. t \in [Nat -> [C -> C]]
    <3> HIDE DEF C, R
    <3> QED BY <2>1
  <2>3. c0 \in C
    OBVIOUS
  <2>4. \E g \in [Nat -> C] : \A k \in Nat : g[k] = IF k = 0 THEN c0 ELSE t[k][g[k - 1]]
    <3> HIDE DEF t, C, c0
    <3> QED BY <2>2, <2>3, RecursionDefines
  <2> HIDE DEF t, C, c0
  <2> QED BY <2>4
<1>2. ASSUME NEW k \in Nat, k # 0 PROVE g[k] = R(k, g[k - 1])
  <2>1. k - 1 \in Nat
    BY <1>2
  <2>2. g[k - 1] \in C
    <3> HIDE DEF C
    <3> QED BY <2>1
  <2>3. t[k][g[k - 1]] = R(k, g[k - 1])
    <3> HIDE DEF C, R
    <3> QED BY <2>2
  <2> HIDE DEF t, R, C, c0
  <2> QED BY <1>1, <1>2, <2>3
<1>3. g[0] = c0
  <2> HIDE DEF t, C, c0
  <2> QED BY <1>1
<1> DEFINE h == [k \in 0 .. L |-> g[k]]
<1>a. SUFFICES ASSUME masks \in Seq(SUBSET Nat), masks # NoInfo
               PROVE  \E f : /\ Mates(size, sib, masks) = f[L] /\ f[0] = c0
                             /\ \A k \in 1 .. L : f[k] = R(k, f[k - 1])
  OBVIOUS
<1>b. L \in Nat
  BY <1>a
<1>5. h = [k \in 0 .. L |-> IF k = 0 THEN c0 ELSE R(k, h[k - 1])]
  <2>1. ASSUME NEW k \in 0 .. L PROVE g[k] = IF k = 0 THEN c0 ELSE R(k, h[k - 1])
    <3>1. CASE k = 0
      BY <1>3, <3>1
    <3>2. CASE k # 0
      <4>1. k \in Nat /\ k - 1 \in 0 .. L
        BY <1>b, <3>2
      <4>2. h[k - 1] = g[k - 1]
        BY <4>1
      <4> HIDE DEF h, R
      <4> QED BY <1>2, <3>2, <4>1, <4>2
    <3> QED BY <3>1, <3>2
  <2> HIDE DEF R, c0, L, C, t
  <2> QED BY <2>1
<1> DEFINE F == CHOOSE f : f = [k \in 0 .. L |-> IF k = 0 THEN c0 ELSE R(k, f[k - 1])]
<1>6. F = [k \in 0 .. L |-> IF k = 0 THEN c0 ELSE R(k, F[k - 1])]
  <2> HIDE DEF R, c0, h, L, C, t
  <2> QED BY <1>5
<1>7. Mates(size, sib, masks) = F[L]
  BY <1>a DEF Mates
<1> HIDE DEF F
<1>8. F[0] = c0 /\ \A k \in 1 .. L : F[k] = R(k, F[k - 1])
  <2> HIDE DEF R, c0, L
  <2> QED BY <1>b, <1>6
<1> QED BY <1>7, <1>8

\* The mates of a worker after the first k masks: those of a largest group so
\* far, and none as long as no group is larger than two.
LargestOf(mates, q, s, size, masks, k) ==
  LET groups == {g \in {QsInGroup(size, masks[a]) : a \in 1 .. k} : q \in g} IN
  \/ mates = {} /\ \A h \in groups : Cardinality(h) <= 2
  \/ \E g \in groups :
       mates = g \ {q, s} /\ \A h \in groups : Cardinality(h) <= Cardinality(g)

LEMMA MatesStep ==
  ASSUME NEW size \in Nat, NEW sib, NEW masks, NEW k \in Nat, NEW q \in 0 .. size - 1,
         NEW m, LargestOf(m[q], q, sib[q], size, masks, k)
  PROVE  LargestOf(MatesAfter(size, sib, m, masks[k + 1])[q], q, sib[q], size, masks, k + 1)
<1> DEFINE s == sib[q]
           new == QsInGroup(size, masks[k + 1])
           old == {g \in {QsInGroup(size, masks[a]) : a \in 1 .. k} : q \in g}
           all == {g \in {QsInGroup(size, masks[a]) : a \in 1 .. k + 1} : q \in g}
           r == MatesAfter(size, sib, m, masks[k + 1])[q]
<1>1. r = IF q \in new /\ Cardinality(new) > 1 /\ Cardinality(new) > Cardinality(m[q]) + 1
            THEN new \ {q, s} ELSE m[q]
  BY DEF MatesAfter
<1>2. all = IF q \in new THEN old \cup {new} ELSE old
  <2>1. 1 .. k + 1 = (1 .. k) \cup {k + 1}
    OBVIOUS
  <2>2. {QsInGroup(size, masks[a]) : a \in 1 .. k + 1} =
          {QsInGroup(size, masks[a]) : a \in 1 .. k} \cup {new}
    BY <2>1
  <2> QED BY <2>2
<1>3. \A g \in old \cup {new} :
        /\ Cardinality(g) \in Nat /\ Cardinality(g \ {q, s}) \in Nat
        /\ q \in g => /\ Cardinality(g) >= 1
                      /\ Cardinality(g \ {q, s}) + 1 <= Cardinality(g)
                      /\ Cardinality(g) <= Cardinality(g \ {q, s}) + 2
  BY GroupSize
<1>4. \A g \in old : q \in g
  OBVIOUS
<1>5. \/ m[q] = {} /\ \A h \in old : Cardinality(h) <= 2
      \/ \E g \in old : m[q] = g \ {q, s} /\ \A h \in old : Cardinality(h) <= Cardinality(g)
  BY DEF LargestOf
<1>6. SUFFICES \/ r = {} /\ \A h \in all : Cardinality(h) <= 2
               \/ \E g \in all : r = g \ {q, s} /\ \A h \in all : Cardinality(h) <= Cardinality(g)
  BY DEF LargestOf
<1> HIDE DEF new, old, all, r, s
<1>7. Cardinality({}) = 0
  BY FS_EmptySet
<1>8. CASE q \notin new
  BY <1>1, <1>2, <1>5, <1>8
<1>9. CASE q \in new
  <2>0. /\ all = old \cup {new} /\ Cardinality(new) \in Nat /\ Cardinality(new) >= 1
        /\ r = IF Cardinality(new) > 1 /\ Cardinality(new) > Cardinality(m[q]) + 1
                 THEN new \ {q, s} ELSE m[q]
    BY <1>1, <1>2, <1>3, <1>9
  <2>1. CASE m[q] = {} /\ \A h \in old : Cardinality(h) <= 2
    <3>1. CASE Cardinality(new) > 1
      <4>1. r = new \ {q, s}
        BY <1>7, <2>0, <2>1, <3>1
      <4>2. ASSUME NEW h \in old PROVE Cardinality(h) <= Cardinality(new)
        <5>1. Cardinality(h) \in Nat /\ Cardinality(h) <= 2
          BY <1>3, <2>1
        <5> QED BY <2>0, <3>1, <5>1
      <4>3. \A h \in all : Cardinality(h) <= Cardinality(new)
        BY <2>0, <4>2
      <4> QED BY <2>0, <4>1, <4>3
    <3>2. CASE ~(Cardinality(new) > 1)
      <4>1. r = {} /\ Cardinality(new) <= 2
        BY <2>0, <2>1, <3>2
      <4> QED BY <2>0, <2>1, <4>1
    <3> QED BY <3>1, <3>2
  <2>2. CASE \E g \in old : m[q] = g \ {q, s} /\ \A h \in old : Cardinality(h) <= Cardinality(g)
    <3>1. PICK g \in old : m[q] = g \ {q, s} /\ \A h \in old : Cardinality(h) <= Cardinality(g)
      BY <2>2
    <3> DEFINE cn == Cardinality(new)
               cg == Cardinality(g)
               cm == Cardinality(m[q])
    <3>2. cg \in Nat /\ cm \in Nat /\ cg >= 1 /\ cm + 1 <= cg /\ cg <= cm + 2
      BY <1>3, <1>4, <3>1
    <3>3. cn \in Nat /\ cn >= 1
      BY <2>0
    <3>4. CASE cn > 1 /\ cn > cm + 1
      <4>1. r = new \ {q, s}
        BY <2>0, <3>4
      <4>2. cg <= cn
        <5> HIDE DEF cn, cg, cm
        <5> QED BY <3>2, <3>3, <3>4
      <4>3. ASSUME NEW h \in old PROVE Cardinality(h) <= cn
        <5>1. Cardinality(h) \in Nat /\ Cardinality(h) <= cg
          BY <1>3, <3>1
        <5> HIDE DEF cn, cg, cm
        <5> QED BY <3>2, <3>3, <4>2, <5>1
      <4>4. \A h \in all : Cardinality(h) <= Cardinality(new)
        BY <2>0, <4>3
      <4> QED BY <2>0, <4>1, <4>4
    <3>5. CASE ~(cn > 1 /\ cn > cm + 1)
      <4>1. r = m[q]
        BY <2>0, <3>5
      <4>2. cn <= cg
        <5> HIDE DEF cn, cg, cm
        <5> QED BY <3>2, <3>3, <3>5
      <4>3. \A h \in all : Cardinality(h) <= Cardinality(g)
        BY <2>0, <3>1, <4>2
      <4> QED BY <2>0, <3>1, <4>1, <4>3
    <3> QED BY <3>4, <3>5
  <2> QED BY <1>5, <2>1, <2>2
<1> QED BY <1>8, <1>9

\* Whatever the order of the masks and however they overlap.
LEMMA MatesSound ==
  ASSUME NEW size \in Nat, NEW sib, NEW masks \in Seq(SUBSET Nat), masks # NoInfo,
         NEW q \in 0 .. size - 1
  PROVE  LargestOf(Mates(size, sib, masks)[q], q, sib[q], size, masks, Len(masks))
<1>1. PICK g : /\ Mates(size, sib, masks) = g[Len(masks)]
               /\ g[0] = [v \in 0 .. size - 1 |-> {}]
               /\ \A k \in 1 .. Len(masks) : g[k] = MatesAfter(size, sib, g[k - 1], masks[k])
  BY MatesStages, SMTT(30)
<1> DEFINE Good(k) == LargestOf(g[k][q], q, sib[q], size, masks, k)
           Bad == {k \in 0 .. Len(masks) : ~ Good(k)}
<1>2. Good(0)
  <2>1. g[0][q] = {}
    BY <1>1
  <2>2. {h \in {QsInGroup(size, masks[a]) : a \in 1 .. 0} : q \in h} = {}
    OBVIOUS
  <2> QED BY <2>1, <2>2 DEF LargestOf
<1>3. ASSUME NEW k \in 1 .. Len(masks), Good(k - 1) PROVE Good(k)
  <2>1. k - 1 \in Nat /\ (k - 1) + 1 = k
    OBVIOUS
  <2>2. g[k] = MatesAfter(size, sib, g[k - 1], masks[k])
    BY <1>1
  <2>3. LargestOf(MatesAfter(size, sib, g[k - 1], masks[(k - 1) + 1])[q], q, sib[q], size, masks, (k - 1) + 1)
    BY <1>3, <2>1, MatesStep
  <2> QED BY <2>1, <2>2, <2>3
<1>4. Bad = {}
  <2> SUFFICES ASSUME Bad # {} PROVE FALSE
    OBVIOUS
  <2> HIDE DEF Good
  <2>1. Bad \subseteq Nat
    OBVIOUS
  <2>2. PICK x \in Bad : \A y \in Bad : x <= y
    <3> HIDE DEF Bad
    <3> QED BY <2>1, LeastNumber
  <2>3. x \in 1 .. Len(masks) /\ ~ Good(x)
    BY <1>2, <2>2
  <2>4. x - 1 \in 0 .. Len(masks) /\ ~(x <= x - 1)
    BY <2>3
  <2>5. Good(x - 1)
    BY <2>2, <2>4
  <2> QED BY <1>3, <2>3, <2>5
<1>5. Good(Len(masks))
  <2> HIDE DEF Good
  <2> QED BY <1>4
<1> QED BY <1>1, <1>5

\* Mates are other workers.
LEMMA MatesOthers ==
  ASSUME NEW size \in Nat, NEW sib, NEW caches, NEW q \in 0 .. size - 1
  PROVE  caches = NoInfo \/ caches \in Seq(SUBSET Nat) =>
           Mates(size, sib, caches)[q] \subseteq (0 .. size - 1) \ {q}
<1>1. CASE caches = NoInfo
  BY <1>1 DEF Mates
<1>2. CASE caches # NoInfo /\ caches \in Seq(SUBSET Nat)
  <2>1. LargestOf(Mates(size, sib, caches)[q], q, sib[q], size, caches, Len(caches))
    BY <1>2, MatesSound
  <2>2. \A a : QsInGroup(size, caches[a]) \subseteq 0 .. size - 1
    BY DEF QsInGroup
  <2> QED BY <2>1, <2>2 DEF LargestOf
<1> QED BY <1>1, <1>2

\* The random choice alone reaches every worker from some other one.
LEMMA RandomReaches ==
  ASSUME NEW size \in Nat, size > 1, NEW q \in 0 .. size - 1
  PROVE  \E w \in 0 .. size - 1 : q \in {IF r = w THEN r + 1 ELSE r : r \in 0 .. size - 2}
<1>1. CASE q = size - 1
  <2>1. size - 2 \in 0 .. size - 2 /\ size - 2 \in 0 .. size - 1 /\ (size - 2) + 1 = q
    BY <1>1
  <2> QED BY <2>1
<1>2. CASE q # size - 1
  <2>1. q \in 0 .. size - 2 /\ size - 1 \in 0 .. size - 1 /\ q # size - 1
    BY <1>2
  <2> QED BY <2>1
<1> QED BY <1>1, <1>2

LEMMA VictimsSound ==
  ASSUME NEW size \in Nat, size > 1, NEW q \in 0 .. size - 1, NEW mates, NEW s,
         mates \subseteq (0 .. size - 1) \ {q}, s # -1 => s \in (0 .. size - 1) \ {q}
  PROVE  LET victims == mates \cup ({s} \ {-1})
                          \cup {IF r = q THEN r + 1 ELSE r : r \in 0 .. size - 2}
         IN  q \notin victims /\ victims \subseteq 0 .. size - 1
<1>1. ASSUME NEW r \in 0 .. size - 2
      PROVE  (IF r = q THEN r + 1 ELSE r) \in (0 .. size - 1) \ {q}
  <2>1. CASE r = q
    BY <2>1
  <2>2. CASE r # q
    BY <2>2
  <2> QED BY <2>1, <2>2
<1> QED BY <1>1

LEMMA PrepareTopology == ASSUME StartInv, Prepare PROVE TopologySound'
<1> DEFINE size == num_workers'
           sib == siblingQIndex'
           mates == clusterMates'
           cores == IF machine.cores = NoInfo THEN << >> ELSE machine.cores
           caches == machine.caches
<1>1. size \in Nat /\ machine' = machine
  BY MachinesAssumption DEF StartInv, Prepare, GetSafeTC
<1>2. sib = Siblings(size, cores) /\ mates = Mates(size, sib, caches)
  BY DEF Prepare, BuildTopology
<1>3. cores \in Seq(SUBSET Nat) /\ CoresApart(cores)
  BY MachinesAssumption DEF StartInv, CoresApart
<1>4. caches = NoInfo \/ caches \in Seq(SUBSET Nat)
  BY MachinesAssumption DEF StartInv
<1> SUFFICES ASSUME NEW q \in 0 .. size - 1
             PROVE  LET s == sib[q] IN
                    /\ s # -1 => s # q /\ sib[s] = q /\ {q, s} \in Groups(q, machine.cores)'
                    /\ s = -1 /\ machine.cores # NoInfo =>
                         \A g \in Groups(q, machine.cores)' : Cardinality(g) # 2
                    /\ machine.caches # NoInfo /\ mates[q] # {} =>
                         \E g \in Groups(q, machine.caches)' :
                           /\ mates[q] = g \ {q, s}
                           /\ \A h \in Groups(q, machine.caches)' : Cardinality(h) <= Cardinality(g)
                    /\ size > 1 =>
                         /\ q \notin Victims(q)' /\ Victims(q)' \subseteq 0 .. size - 1
                         /\ \E w \in 0 .. size - 1 : q \in Victims(w)'
  BY <1>1 DEF TopologySound
<1> DEFINE s == sib[q]
<1>5. /\ s # -1 => /\ s \in 0 .. size - 1 /\ s # q /\ sib[s] = q
                   /\ {q, s} \in {g \in CoreGroups(size, cores) : q \in g}
      /\ s = -1 => \A g \in {h \in CoreGroups(size, cores) : q \in h} : Cardinality(g) # 2
  <2> DEFINE F == Siblings(size, cores)
  <2> HIDE DEF size, sib, cores
  <2>1. /\ F[q] # -1 => /\ F[q] \in 0 .. size - 1 /\ F[q] # q /\ F[F[q]] = q
                        /\ {q, F[q]} \in {g \in CoreGroups(size, cores) : q \in g}
        /\ F[q] = -1 => \A g \in {h \in CoreGroups(size, cores) : q \in h} : Cardinality(g) # 2
    BY <1>1, <1>3, SiblingsSound
  <2>2. sib = F
    BY <1>2
  <2> HIDE DEF F
  <2> QED BY <2>1, <2>2
<1>6. machine.cores = NoInfo => s = -1
  <2>1. machine.cores = NoInfo => cores = << >>
    OBVIOUS
  <2> HIDE DEF size, cores
  <2> QED BY <1>1, <1>2, <2>1, NoSiblings
<1>7. machine.cores # NoInfo =>
        Groups(q, machine.cores)' = {g \in CoreGroups(size, cores) : q \in g}
  BY <1>1 DEF Groups, CoreGroups
<1>8. s # -1 => s # q /\ sib[s] = q /\ {q, s} \in Groups(q, machine.cores)'
  BY <1>5, <1>6, <1>7
<1>9. s = -1 /\ machine.cores # NoInfo =>
        \A g \in Groups(q, machine.cores)' : Cardinality(g) # 2
  BY <1>5, <1>7
<1>10. ASSUME caches # NoInfo, mates[q] # {}
       PROVE  \E g \in Groups(q, caches)' :
                /\ mates[q] = g \ {q, s}
                /\ \A h \in Groups(q, caches)' : Cardinality(h) <= Cardinality(g)
  <2>1. LargestOf(mates[q], q, s, size, caches, Len(caches))
    <3> HIDE DEF size, sib, mates, caches
    <3> QED BY <1>1, <1>2, <1>4, <1>10, MatesSound
  <2>2. DOMAIN caches = 1 .. Len(caches)
    BY <1>4, <1>10
  <2>3. Groups(q, caches)' = {g \in {QsInGroup(size, caches[a]) : a \in 1 .. Len(caches)} : q \in g}
    BY <1>1, <2>2 DEF Groups
  <2> QED BY <1>10, <2>1, <2>3 DEF LargestOf
<1>11. \A w \in 0 .. size - 1 :
         Victims(w)' = mates[w] \cup ({sib[w]} \ {-1})
                         \cup {IF r = w THEN r + 1 ELSE r : r \in 0 .. size - 2}
  BY DEF Victims
<1>12. mates[q] \subseteq (0 .. size - 1) \ {q}
  <2> HIDE DEF size, sib, mates, caches
  <2> QED BY <1>1, <1>2, <1>4, MatesOthers
<1>13. ASSUME size > 1
       PROVE  /\ q \notin Victims(q)' /\ Victims(q)' \subseteq 0 .. size - 1
              /\ \E w \in 0 .. size - 1 : q \in Victims(w)'
  <2>1. s # -1 => s \in (0 .. size - 1) \ {q}
    BY <1>5
  <2> HIDE DEF size, sib, mates, s
  <2>2. q \notin Victims(q)' /\ Victims(q)' \subseteq 0 .. size - 1
    <3>1. Victims(q)' = mates[q] \cup ({s} \ {-1})
                         \cup {IF r = q THEN r + 1 ELSE r : r \in 0 .. size - 2}
      BY <1>11 DEF s
    <3> QED BY <1>1, <1>12, <1>13, <2>1, <3>1, VictimsSound
  <2>3. PICK w \in 0 .. size - 1 : q \in {IF r = w THEN r + 1 ELSE r : r \in 0 .. size - 2}
    BY <1>1, <1>13, RandomReaches
  <2>4. q \in Victims(w)'
    BY <1>11, <2>3
  <2> QED BY <2>2, <2>4
<1> QED BY <1>8, <1>9, <1>10, <1>13

\* The topology is built before the first worker starts, and stays.
LEMMA TopologyStep ==
  ASSUME StartInv, TopologySound, [StartNext]_systemVars PROVE TopologySound'
<1>1. CASE Prepare
  BY <1>1, PrepareTopology
<1>2. CASE ~Prepare
  <2>1. /\ machine' = machine /\ num_workers' = num_workers /\ siblingQIndex' = siblingQIndex
        /\ clusterMates' = clusterMates /\ (mpc' # "init" => mpc # "init")
    <3>1. CASE CreatePool
      BY <3>1 DEF CreatePool
    <3>2. CASE SpawnWorker
      BY <3>2 DEF SpawnWorker
    <3>3. CASE ReleaseWorker
      BY <3>3 DEF ReleaseWorker
    <3>4. CASE MainNumbered
      BY <3>4 DEF MainNumbered
    <3>5. CASE \E w \in DOMAIN wpc : NumberWorker(w) \/ EnterLoop(w)
      BY <3>5 DEF NumberWorker, EnterLoop
    <3>6. CASE UNCHANGED startVars
      BY <3>6 DEF startVars
    <3>7. CASE \E w \in Cached : NewTask(w) \/ (FiberStep(w) /\ UNCHANGED startVars)
      BY <3>6, <3>7 DEF NewTask
    <3>8. CASE UNCHANGED systemVars
      BY <3>6, <3>8 DEF systemVars
    <3> QED BY <1>2, <3>1, <3>2, <3>3, <3>4, <3>5, <3>7, <3>8 DEF StartNext, StartStep
  <2>2. \A q : Victims(q)' = Victims(q)
    BY <2>1 DEF Victims
  <2>3. \A q, masks : Groups(q, masks)' = Groups(q, masks)
    BY <2>1 DEF Groups
  <2> QED BY <2>1, <2>2, <2>3 DEF TopologySound
<1> QED BY <1>1, <1>2

\* For every machine the operating system may report: the sibling is the other
\* worker of the core, the mates are those of a largest cache group in whatever
\* order the masks come, and every worker can be robbed by another one.
THEOREM TopologyBuilt == StartSpec => []TopologySound
<1>1. StartInit => StartInv /\ IdInv /\ TopologySound
  BY StartInitInv DEF StartInit, TopologySound
<1>2. StartInv /\ IdInv /\ TopologySound /\ [StartNext]_systemVars
        => (StartInv /\ IdInv /\ TopologySound)'
  BY IdsStep, TopologyStep
<1> QED BY <1>1, <1>2, PTL DEF StartSpec
-----------------------------------------------------------------------------
(* The pool of fibers.                                                     *)

\* What a worker has at each point.
HoldInv(w) ==
  /\ localFibers[w] \in Seq(Fibers) /\ stolen[w] \in Seq(Fibers) /\ returned[w] \in Nat
  /\ activeCapacity[w] \in Nat /\ activeCapacity[w] >= 2
  /\ fat[w] \in {"idle", "pop", "pop2", "failed", "run", "spill"}
  /\ Len(localFibers[w]) <= activeCapacity[w] /\ Len(stolen[w]) <= activeCapacity[w]
  /\ IF fat[w] \in {"run", "spill"} THEN fiberOf[w] \in Fibers ELSE fiberOf[w] = NoFiber
  /\ stolen[w] # << >> => fat[w] \in {"pop", "pop2"} /\ localFibers[w] = << >>
  /\ returned[w] <= Half(w) /\ (returned[w] # 0 => fat[w] = "spill")
  /\ fat[w] = "spill" => Len(localFibers[w]) = activeCapacity[w]

PoolInv ==
  /\ Fibers \subseteq Nat /\ IsFiniteSet(Fibers)
  /\ DOMAIN available = Fibers /\ \A f \in Fibers : available[f] \in Nat
  /\ parked \subseteq Fibers
  /\ mpc \in {"init", "pool"} => Fibers = {}
  /\ Cached = {w \in DOMAIN wpc : wpc[w] = "ready"}
  /\ DOMAIN activeCapacity = Cached /\ DOMAIN stolen = Cached /\ DOMAIN returned = Cached
  /\ DOMAIN fat = Cached /\ DOMAIN fiberOf = Cached
  /\ \A w \in Cached : HoldInv(w)

LEMMA HalfFits ==
  ASSUME NEW w, activeCapacity[w] \in Nat, activeCapacity[w] >= 2
  PROVE  Half(w) \in Nat /\ Half(w) >= 1 /\ Half(w) < activeCapacity[w]
BY DEF Half

LEMMA FrontAndLast ==
  ASSUME NEW T, NEW s \in Seq(T), s # << >>
  PROVE  /\ Len(s) \in Nat /\ Len(s) >= 1 /\ Last(s) = s[Len(s)] /\ Last(s) \in T
         /\ Front(s) \in Seq(T) /\ Len(Front(s)) = Len(s) - 1
         /\ \A j \in 1 .. Len(s) - 1 : Front(s)[j] = s[j]
<1>1. Len(s) \in Nat /\ Len(s) >= 1
  OBVIOUS
<1>2. Last(s) = s[Len(s)] /\ Last(s) \in T
  BY <1>1 DEF Last
<1> DEFINE c == Len(s) - 1
<1>3. Front(s) = SubSeq(s, 1, c) /\ c \in Nat /\ \A j \in 1 .. c : s[j] \in T
  BY <1>1 DEF Front
<1> HIDE DEF c
<1>4. /\ SubSeq(s, 1, c) \in Seq(T) /\ Len(SubSeq(s, 1, c)) = IF 1 <= c THEN c - 1 + 1 ELSE 0
      /\ \A j \in 1 .. c - 1 + 1 : SubSeq(s, 1, c)[j] = s[1 + j - 1]
  BY <1>3, SubSeqProperties
<1>5. Front(s) \in Seq(T) /\ Len(Front(s)) = c /\ \A j \in 1 .. c : Front(s)[j] = s[j]
  BY <1>3, <1>4
<1> QED BY <1>1, <1>2, <1>5 DEF c

LEMMA FirstInQueue ==
  ASSUME PoolInv, InQueue # {}
  PROVE  Min(InQueue) \in Fibers /\ available[Min(InQueue)] > 0
<1>1. InQueue \subseteq Nat
  BY DEF PoolInv, InQueue
<1>2. \E x \in InQueue : \A y \in InQueue : x <= y
  BY <1>1, LeastNumber
<1>3. Min(InQueue) \in InQueue
  BY <1>2 DEF Min
<1> QED BY <1>3 DEF InQueue

\* A step of one worker leaves what the others have alone.
OthersKeep(w) ==
  /\ UNCHANGED <<stackBase, mpc, wpc>>
  /\ DOMAIN localFibers' = Cached /\ DOMAIN activeCapacity' = Cached /\ DOMAIN stolen' = Cached
  /\ DOMAIN returned' = Cached /\ DOMAIN fat' = Cached /\ DOMAIN fiberOf' = Cached
  /\ \A v \in Cached : v # w =>
       /\ localFibers'[v] = localFibers[v] /\ activeCapacity'[v] = activeCapacity[v]
       /\ stolen'[v] = stolen[v] /\ returned'[v] = returned[v] /\ fat'[v] = fat[v]
       /\ fiberOf'[v] = fiberOf[v]

LEMMA StepKeeps ==
  ASSUME PoolInv, NEW w \in Cached, FiberStep(w), UNCHANGED startVars
  PROVE  /\ OthersKeep(w) /\ Fibers' = Fibers /\ Cached' = Cached
         /\ Half(w)' = Half(w) /\ activeCapacity'[w] = activeCapacity[w]
<1>1. OthersKeep(w)
  BY DEF FiberStep, PopCached, StealOne, StealEnds, AcquireRetry, ParkFiber, ResumeFiber,
         ReleaseFiber, ReturnOne, SpillDone, Goto, startVars, PoolInv, Cached, OthersKeep
<1>2. Half(w)' = Half(w) /\ activeCapacity'[w] = activeCapacity[w]
  BY DEF FiberStep, PopCached, StealOne, StealEnds, AcquireRetry, ParkFiber, ResumeFiber,
         ReleaseFiber, ReturnOne, SpillDone, Half
<1> QED BY <1>1, <1>2 DEF OthersKeep, Fibers, Cached

LEMMA PoolFrame ==
  ASSUME PoolInv, NEW w \in Cached, OthersKeep(w), HoldInv(w)', DOMAIN available' = Fibers,
         \A f \in Fibers : available'[f] \in Nat, parked' \subseteq Fibers
  PROVE  PoolInv'
<1>1. Fibers' = Fibers /\ Cached' = Cached
  BY DEF Fibers, Cached, OthersKeep
<1>2. ASSUME NEW v \in Cached, v # w PROVE HoldInv(v)'
  <2>1. HoldInv(v)
    BY DEF PoolInv
  <2> QED BY <1>1, <1>2, <2>1 DEF HoldInv, Half, OthersKeep
<1> QED BY <1>1, <1>2 DEF PoolInv, OthersKeep

LEMMA PoolTypesStep ==
  ASSUME PoolInv, NEW w \in Cached, FiberStep(w), UNCHANGED startVars
  PROVE  PoolInv'
<1>0. HoldInv(w) /\ Half(w) \in Nat /\ Half(w) >= 1 /\ Half(w) < activeCapacity[w]
  <2>1. HoldInv(w)
    BY DEF PoolInv
  <2> QED BY <2>1, HalfFits DEF HoldInv
<1>d. Half(w)' = Half(w) /\ activeCapacity'[w] = activeCapacity[w] /\ Fibers' = Fibers
  BY StepKeeps
<1>q. DOMAIN available = Fibers /\ (\A f \in Fibers : available[f] \in Nat) /\ parked \subseteq Fibers
  BY DEF PoolInv
<1>1. SUFFICES /\ HoldInv(w)' /\ DOMAIN available' = Fibers
               /\ (\A f \in Fibers : available'[f] \in Nat) /\ parked' \subseteq Fibers
  BY StepKeeps, PoolFrame
<1>e. w \in DOMAIN localFibers /\ w \in DOMAIN stolen /\ w \in DOMAIN returned /\ w \in DOMAIN fat
      /\ w \in DOMAIN fiberOf
  BY DEF PoolInv, Cached
<1>2. CASE PopCached(w)
  <2>1. /\ fat[w] = "pop" /\ localFibers[w] # << >> /\ available' = available /\ parked' = parked
        /\ fat'[w] = "run" /\ localFibers'[w] = Front(localFibers[w])
        /\ fiberOf'[w] = Last(localFibers[w]) /\ stolen' = stolen /\ returned' = returned
    BY <1>2, <1>e DEF PopCached, Goto
  <2>2. localFibers[w] \in Seq(Fibers)
    BY <1>0 DEF HoldInv
  <2>3. /\ Front(localFibers[w]) \in Seq(Fibers) /\ Last(localFibers[w]) \in Fibers
        /\ Len(Front(localFibers[w])) = Len(localFibers[w]) - 1 /\ Len(localFibers[w]) \in Nat
    BY <2>1, <2>2, FrontAndLast
  <2> QED BY <1>0, <1>d, <1>q, <2>1, <2>3 DEF HoldInv
<1>3. CASE StealOne(w)
  <2>1. /\ fat[w] \in {"pop", "pop2"} /\ localFibers[w] = << >> /\ parked' = parked
        /\ fat' = fat /\ localFibers' = localFibers /\ fiberOf' = fiberOf /\ returned' = returned
        /\ Len(stolen[w]) < activeCapacity[w] /\ InQueue # {}
        /\ stolen'[w] = Append(stolen[w], Min(InQueue))
        /\ available' = [available EXCEPT ![Min(InQueue)] = @ - 1]
    BY <1>3, <1>e DEF StealOne
  <2>2. Min(InQueue) \in Fibers /\ available[Min(InQueue)] > 0
    BY <2>1, FirstInQueue
  <2>3. /\ stolen'[w] \in Seq(Fibers) /\ Len(stolen'[w]) <= activeCapacity[w]
        /\ localFibers[w] \in Seq(Fibers)
    BY <1>0, <2>1, <2>2 DEF HoldInv
  <2>4. DOMAIN available' = Fibers /\ \A f \in Fibers : available'[f] \in Nat
    BY <1>q, <2>1, <2>2
  <2> QED BY <1>0, <1>d, <1>q, <2>1, <2>3, <2>4 DEF HoldInv
<1>4. CASE StealEnds(w)
  <2>1. /\ fat[w] \in {"pop", "pop2"} /\ localFibers[w] = << >> /\ parked' = parked
        /\ available' = available /\ stolen'[w] = << >> /\ returned' = returned
    BY <1>4, <1>e DEF StealEnds
  <2>2. CASE stolen[w] # << >>
    <3>1. /\ fat'[w] = "run" /\ fiberOf'[w] = Last(stolen[w]) /\ localFibers'[w] = Front(stolen[w])
      BY <1>4, <1>e, <2>2 DEF StealEnds, Goto
    <3>2. stolen[w] \in Seq(Fibers)
      BY <1>0 DEF HoldInv
    <3>3. /\ Front(stolen[w]) \in Seq(Fibers) /\ Last(stolen[w]) \in Fibers
          /\ Len(Front(stolen[w])) = Len(stolen[w]) - 1 /\ Len(stolen[w]) \in Nat
      BY <2>2, <3>2, FrontAndLast
    <3>4. << >> \in Seq(Fibers) /\ Len(<< >>) = 0
      OBVIOUS
    <3> QED BY <1>0, <1>d, <1>q, <2>1, <3>1, <3>3, <3>4 DEF HoldInv
  <2>3. CASE stolen[w] = << >>
    <3>1. fat'[w] \in {"pop2", "failed"} /\ fiberOf' = fiberOf /\ localFibers' = localFibers
      BY <1>4, <1>e, <2>3 DEF StealEnds, Goto
    <3> QED BY <1>0, <1>d, <1>q, <2>1, <2>3, <3>1 DEF HoldInv
  <2> QED BY <2>2, <2>3
<1>5. CASE AcquireRetry(w)
  BY <1>0, <1>d, <1>e, <1>q, <1>5 DEF AcquireRetry, Goto, HoldInv
<1>6. CASE ParkFiber(w)
  BY <1>0, <1>d, <1>e, <1>q, <1>6 DEF ParkFiber, Goto, HoldInv
<1>7. CASE \E f \in parked : ResumeFiber(w, f)
  BY <1>0, <1>d, <1>e, <1>q, <1>7 DEF ResumeFiber, Goto, HoldInv
<1>8. CASE ReleaseFiber(w)
  <2>1. /\ fat[w] = "run" /\ parked' = parked
        /\ available' = available /\ stolen' = stolen /\ returned' = returned
    BY <1>8 DEF ReleaseFiber
  <2>2. CASE Len(localFibers[w]) < activeCapacity[w]
    <3>1. /\ fat'[w] = "idle" /\ fiberOf'[w] = NoFiber
          /\ localFibers'[w] = Append(localFibers[w], fiberOf[w])
      BY <1>0, <1>8, <1>e, <2>2 DEF ReleaseFiber, Goto, HoldInv
    <3>2. /\ localFibers'[w] \in Seq(Fibers) /\ Len(localFibers'[w]) = Len(localFibers[w]) + 1
          /\ Len(localFibers[w]) \in Nat
      BY <1>0, <2>1, <3>1 DEF HoldInv
    <3> QED BY <1>0, <1>d, <1>q, <2>1, <2>2, <3>1, <3>2 DEF HoldInv
  <2>3. CASE ~(Len(localFibers[w]) < activeCapacity[w])
    <3>1. fat'[w] = "spill" /\ fiberOf' = fiberOf /\ localFibers' = localFibers
      BY <1>8, <1>e, <2>3 DEF ReleaseFiber, Goto
    <3> QED BY <1>0, <1>d, <1>q, <2>1, <2>3, <3>1 DEF HoldInv
  <2> QED BY <2>2, <2>3
<1>9. CASE ReturnOne(w)
  <2>1. /\ fat[w] = "spill" /\ returned[w] < Half(w) /\ returned'[w] = returned[w] + 1
        /\ parked' = parked /\ fat' = fat /\ fiberOf' = fiberOf /\ localFibers' = localFibers
        /\ stolen' = stolen
        /\ available' = [available EXCEPT ![Spilled(w, returned[w] + 1)] = @ + 1]
    BY <1>9, <1>e DEF ReturnOne
  <2>2. DOMAIN available' = Fibers /\ \A f \in Fibers : available'[f] \in Nat
    BY <1>q, <2>1
  <2> QED BY <1>0, <1>d, <1>q, <2>1, <2>2 DEF HoldInv
<1>10. CASE SpillDone(w)
  <2> DEFINE keep == Len(localFibers[w]) - Half(w)
  <2>1. /\ fat[w] = "spill" /\ fat'[w] = "idle" /\ returned'[w] = 0
        /\ localFibers'[w] = Append(SubSeq(localFibers[w], 1, keep), fiberOf[w])
        /\ fiberOf'[w] = NoFiber /\ available' = available /\ stolen' = stolen /\ parked' = parked
    BY <1>10, <1>e DEF SpillDone, Goto
  <2>2. /\ keep \in 1 .. Len(localFibers[w]) - 1 /\ Len(localFibers[w]) \in Nat
        /\ localFibers[w] \in Seq(Fibers) /\ fiberOf[w] \in Fibers
    BY <1>0, <2>1 DEF HoldInv
  <2>3. SubSeq(localFibers[w], 1, keep) \in Seq(Fibers) /\ Len(SubSeq(localFibers[w], 1, keep)) = keep
    <3> HIDE DEF keep
    <3> QED BY <2>2
  <2>4. localFibers'[w] \in Seq(Fibers) /\ Len(localFibers'[w]) = keep + 1
    <3> HIDE DEF keep
    <3> QED BY <2>1, <2>2, <2>3
  <2>5. keep + 1 <= activeCapacity[w]
    BY <1>0, <2>2 DEF HoldInv
  <2>6. stolen[w] = << >> /\ << >> \in Seq(Fibers) /\ Len(<< >>) = 0
    BY <1>0, <2>1 DEF HoldInv
  <2> HIDE DEF keep
  <2> QED BY <1>0, <1>d, <1>q, <2>1, <2>4, <2>5, <2>6 DEF HoldInv
<1> QED BY <1>2, <1>3, <1>4, <1>5, <1>6, <1>7, <1>8, <1>9, <1>10 DEF FiberStep

LEMMA PickOfTwo ==
  ASSUME NEW x \in Nat, NEW y \in Nat
  PROVE  Min({x, y}) \in Nat /\ Max({x, y}) \in Nat /\ Max({x, y}) >= x
<1>1. \E z \in {x, y} : \A u \in {x, y} : z <= u
  OBVIOUS
<1>2. \E z \in {x, y} : \A u \in {x, y} : z >= u
  OBVIOUS
<1> QED BY <1>1, <1>2 DEF Min, Max

LEMMA CapacityFits ==
  Capacity(Max({PerCore \div 2, MinCapacity})) \in Nat
    /\ Capacity(Max({PerCore \div 2, MinCapacity})) >= 2
<1>1. PerCore \div 2 \in Nat /\ MinCapacity \in Nat /\ MaxCapacity \in Nat
  BY PoolAssumption DEF PerCore
<1>2. Max({PerCore \div 2, MinCapacity}) \in Nat
  BY <1>1, PickOfTwo
<1>3. Min({Max({PerCore \div 2, MinCapacity}), MaxCapacity}) \in Nat
  BY <1>1, <1>2, PickOfTwo
<1> QED BY <1>3, PickOfTwo DEF Capacity

LEMMA PoolInitInv == ASSUME StartInit PROVE PoolInv
BY EmptyIs, FS_EmptySet DEF StartInit, PoolInv, Fibers, Cached

\* Steps of the start-up that make no fibers and no cache.
LEMMA PoolStarts ==
  ASSUME StartInv, PoolInv, UNCHANGED poolVars,
         (Prepare \/ SpawnWorker \/ ReleaseWorker \/ MainNumbered \/ \E w \in DOMAIN wpc : NumberWorker(w))
           \/ UNCHANGED startVars
  PROVE  PoolInv'
<1>1. Fibers' = Fibers /\ Cached' = Cached /\ \A v : HoldInv(v)' <=> HoldInv(v)
  BY DEF poolVars, Fibers, Cached, HoldInv, Half
<1>2. mpc' \in {"init", "pool"} => mpc \in {"init", "pool"}
  BY DEF Prepare, SpawnWorker, ReleaseWorker, MainNumbered, NumberWorker, startVars
<1>3. {w \in DOMAIN wpc' : wpc'[w] = "ready"} = {w \in DOMAIN wpc : wpc[w] = "ready"}
  <2>1. CASE Prepare \/ MainNumbered \/ UNCHANGED startVars
    BY <2>1 DEF Prepare, MainNumbered, startVars
  <2>2. CASE SpawnWorker
    BY <2>2, NumberedFew DEF SpawnWorker, Extend, StartInv
  <2>3. CASE ReleaseWorker
    <3>1. wpc[NewWorker - 1] = "created" /\ NewWorker - 1 \in DOMAIN wpc
      BY <2>3, NumberedFew DEF ReleaseWorker, StartInv
    <3> QED BY <2>3, <3>1 DEF ReleaseWorker
  <2>4. CASE \E w \in DOMAIN wpc : NumberWorker(w)
    BY <2>4 DEF NumberWorker
  <2> QED BY <2>1, <2>2, <2>3, <2>4
<1> QED BY <1>1, <1>2, <1>3 DEF PoolInv, poolVars

LEMMA PoolEnters ==
  ASSUME PoolInv, NEW w \in DOMAIN wpc, EnterLoop(w)
  PROVE  PoolInv'
<1> DEFINE c == Capacity(Max({PerCore \div 2, MinCapacity}))
<1>1. /\ wpc[w] = "numbered" /\ wpc' = [wpc EXCEPT ![w] = "ready"] /\ mpc' = mpc
      /\ activeCapacity' = Extend(activeCapacity, w, c)
      /\ localFibers' = Extend(localFibers, w, << >>) /\ stolen' = Extend(stolen, w, << >>)
      /\ returned' = Extend(returned, w, 0) /\ fat' = Extend(fat, w, "idle")
      /\ fiberOf' = Extend(fiberOf, w, NoFiber)
      /\ stackBase' = stackBase /\ available' = available /\ parked' = parked
  BY DEF EnterLoop
<1>2. c \in Nat /\ c >= 2
  BY CapacityFits
<1> HIDE DEF c
<1>3. Fibers' = Fibers /\ Cached' = Cached \cup {w} /\ w \notin Cached
  BY <1>1 DEF Fibers, Cached, Extend, PoolInv
<1>4. /\ DOMAIN activeCapacity' = Cached' /\ DOMAIN stolen' = Cached' /\ DOMAIN returned' = Cached'
      /\ DOMAIN fat' = Cached' /\ DOMAIN fiberOf' = Cached'
  BY <1>1, <1>3 DEF Extend, PoolInv
<1>5. HoldInv(w)'
  <2>1. /\ activeCapacity'[w] = c /\ localFibers'[w] = << >> /\ stolen'[w] = << >>
        /\ returned'[w] = 0 /\ fat'[w] = "idle" /\ fiberOf'[w] = NoFiber
    BY <1>1 DEF Extend
  <2>2. Half(w)' = c \div 2 /\ c \div 2 \in Nat
    BY <1>2, <2>1 DEF Half
  <2>3. << >> \in Seq(Fibers') /\ Len(<< >>) = 0
    OBVIOUS
  <2> QED BY <1>2, <2>1, <2>2, <2>3 DEF HoldInv
<1>6. ASSUME NEW v \in Cached PROVE HoldInv(v)'
  <2>1. /\ activeCapacity'[v] = activeCapacity[v] /\ localFibers'[v] = localFibers[v]
        /\ stolen'[v] = stolen[v] /\ returned'[v] = returned[v] /\ fat'[v] = fat[v]
        /\ fiberOf'[v] = fiberOf[v]
    BY <1>1, <1>3 DEF Extend, PoolInv, Cached
  <2>2. HoldInv(v)
    BY DEF PoolInv
  <2> QED BY <1>3, <2>1, <2>2 DEF HoldInv, Half
<1>7. Cached' = {v \in DOMAIN wpc' : wpc'[v] = "ready"}
  BY <1>1, <1>3 DEF PoolInv
<1> QED BY <1>1, <1>3, <1>4, <1>5, <1>6, <1>7 DEF PoolInv

LEMMA PoolNewTask ==
  ASSUME PoolInv, NEW w \in Cached, NewTask(w)
  PROVE  PoolInv'
<1>1. /\ fat[w] = "idle" /\ fat' = [fat EXCEPT ![w] = "pop"]
      /\ UNCHANGED <<stackBase, available, localFibers, activeCapacity, stolen, returned, fiberOf,
                     parked, mpc, wpc>>
  BY DEF NewTask, Goto, startVars
<1>2. w \in DOMAIN fat /\ HoldInv(w)
  BY DEF PoolInv
<1>3. HoldInv(w)'
  BY <1>1, <1>2 DEF HoldInv, Half, Fibers
<1>4. /\ DOMAIN fat' = Cached /\ \A v \in Cached : v # w => fat'[v] = fat[v]
  BY <1>1 DEF PoolInv
<1>5. OthersKeep(w)
  BY <1>1, <1>4 DEF OthersKeep, PoolInv, Cached
<1> QED BY <1>1, <1>3, <1>5, PoolFrame DEF PoolInv

\* The stacks of an arena follow each other.
LEMMA StacksFollow ==
  ASSUME NEW x \in Nat, NEW y \in Nat, x < y, NEW u \in Nat
  PROVE  x * u + u <= y * u
<1>1. PICK d \in Nat : y = (x + 1) + d
  <2>1. y - (x + 1) \in Nat /\ y = (x + 1) + (y - (x + 1))
    OBVIOUS
  <2> QED BY <2>1
<1>2. y * u = (x + 1) * u + d * u /\ (x + 1) * u = x * u + u
  BY <1>1
<1>3. d * u \in Nat /\ x * u \in Nat
  OBVIOUS
<1> QED BY <1>2, <1>3

\* Fibers are made once.
LEMMA CreateFibers ==
  ASSUME StartInv, PoolInv, CreatePool
  PROVE  /\ PoolInv' /\ Cached' = {} /\ parked' = {}
         /\ \A f \in Fibers' : available'[f] = 1
         /\ \A f, g \in Fibers' : f # g => Disjoint(stackBase'[f], stackBase'[g])
<1> DEFINE k == machine.cpus - 1
           coreCount == IF k = 0 THEN 4 ELSE k
           sc == coreCount * StandardPerCore
           hc == coreCount * HeavyPerCore
           U == 8 * StackUnit
<1>1. coreCount \in Nat
  BY MachinesAssumption DEF StartInv
<1>2. sc \in Nat /\ hc \in Nat /\ StackUnit \in Nat /\ U \in Nat
  <2> HIDE DEF coreCount
  <2> QED BY <1>1, PoolAssumption
<1>3. /\ mpc = "pool" /\ mpc' = "spawn" /\ wpc' = wpc
      /\ stackBase' = [f \in 1 .. sc + hc |->
           IF f <= sc THEN [arena |-> "standard", from |-> (f - 1) * StackUnit, size |-> StackUnit]
           ELSE [arena |-> "heavy", from |-> (f - sc - 1) * U, size |-> U]]
      /\ available' = [f \in DOMAIN stackBase' |-> 1]
      /\ UNCHANGED <<localFibers, activeCapacity, stolen, returned, fat, fiberOf, parked>>
  BY DEF CreatePool, Create, Stack
<1> HIDE DEF coreCount, sc, hc, U
<1>4. Fibers' = 1 .. sc + hc
  BY <1>3 DEF Fibers
<1>5. Cached' = {} /\ Cached = {} /\ parked' = {} /\ DOMAIN wpc = {}
  BY <1>3 DEF StartInv, PoolInv, Cached
<1>6. IsFiniteSet(1 .. sc + hc)
  <2>1. sc + hc \in Int /\ 1 \in Int
    BY <1>2
  <2> QED BY <2>1, FS_Interval
<1>7. PoolInv'
  BY <1>2, <1>3, <1>4, <1>5, <1>6 DEF PoolInv, Fibers
<1>8. ASSUME NEW f \in Fibers', NEW g \in Fibers', f < g
      PROVE  Disjoint(stackBase'[f], stackBase'[g]) /\ Disjoint(stackBase'[g], stackBase'[f])
  <2>1. f \in 1 .. sc + hc /\ g \in 1 .. sc + hc
    BY <1>4
  <2>2. CASE g <= sc
    <3>1. f - 1 \in Nat /\ g - 1 \in Nat /\ f - 1 < g - 1 /\ f <= sc
      BY <1>2, <1>8, <2>1, <2>2
    <3>2. (f - 1) * StackUnit + StackUnit <= (g - 1) * StackUnit
      BY <1>2, <3>1, StacksFollow
    <3>3. /\ stackBase'[f] = [arena |-> "standard", from |-> (f - 1) * StackUnit, size |-> StackUnit]
          /\ stackBase'[g] = [arena |-> "standard", from |-> (g - 1) * StackUnit, size |-> StackUnit]
      BY <1>3, <2>1, <2>2, <3>1
    <3> QED BY <3>2, <3>3 DEF Disjoint
  <2>3. CASE f <= sc /\ ~(g <= sc)
    <3>1. stackBase'[f].arena = "standard" /\ stackBase'[g].arena = "heavy"
      BY <1>3, <2>1, <2>3
    <3> QED BY <3>1 DEF Disjoint
  <2>4. CASE ~(f <= sc) /\ ~(g <= sc)
    <3>1. f - sc - 1 \in Nat /\ g - sc - 1 \in Nat /\ f - sc - 1 < g - sc - 1
      BY <1>2, <1>8, <2>1, <2>4
    <3>2. (f - sc - 1) * U + U <= (g - sc - 1) * U
      BY <1>2, <3>1, StacksFollow
    <3>3. /\ stackBase'[f] = [arena |-> "heavy", from |-> (f - sc - 1) * U, size |-> U]
          /\ stackBase'[g] = [arena |-> "heavy", from |-> (g - sc - 1) * U, size |-> U]
      BY <1>3, <2>1, <2>4
    <3> QED BY <3>2, <3>3 DEF Disjoint
  <2> QED BY <1>2, <1>8, <2>1, <2>2, <2>3, <2>4
<1>9. ASSUME NEW f \in Fibers', NEW g \in Fibers', f # g
      PROVE  Disjoint(stackBase'[f], stackBase'[g])
  <2>1. f < g \/ g < f
    BY <1>2, <1>4, <1>9
  <2> QED BY <1>8, <2>1
<1>10. \A f \in Fibers' : available'[f] = 1
  BY <1>3, <1>4
<1> QED BY <1>5, <1>7, <1>9, <1>10
-----------------------------------------------------------------------------
(* One owner.                                                              *)

CacheAt(f, w, j) == w \in Cached /\ j \in InCache(w) /\ localFibers[w][j] = f
StolenAt(f, w, j) == w \in Cached /\ j \in DOMAIN stolen[w] /\ stolen[w][j] = f
RunAt(f, w) == w \in Cached /\ fiberOf[w] = f

\* Fiber f is at place p of worker w (0 where there is none), the j-th there.
LiesAt(f, p, w, j) ==
  \/ p = "queue" /\ w = 0 /\ j \in 1 .. available[f]
  \/ p = "parked" /\ w = 0 /\ j = 0 /\ f \in parked
  \/ p = "cache" /\ CacheAt(f, w, j)
  \/ p = "stolen" /\ StolenAt(f, w, j)
  \/ p = "run" /\ j = 0 /\ RunAt(f, w)
OnlyAt(f, p, w, j) == \A q, v, k : LiesAt(f, q, v, k) <=> q = p /\ v = w /\ k = j
OneOwner(f) == \E p, w, j : OnlyAt(f, p, w, j)

OwnerInv ==
  /\ \A f \in Fibers : OneOwner(f)
  /\ \A f, g \in Fibers : f # g => Disjoint(stackBase[f], stackBase[g])

\* What is left to a cache while its top half goes back: all but the entries
\* that ReturnBatch has enqueued.
LEMMA LeftInCache ==
  ASSUME NEW T, NEW c \in Seq(T), NEW h \in Nat, NEW r \in Nat
  PROVE  /\ DOMAIN c = 1 .. Len(c)
         /\ \A j \in 1 .. Len(c) : (\E k \in 1 .. r : j = Len(c) - h + k)
                                     <=> ~(j <= Len(c) - h \/ j > Len(c) - h + r)
<1>1. Len(c) \in Nat /\ DOMAIN c = 1 .. Len(c)
  OBVIOUS
<1>2. ASSUME NEW j \in 1 .. Len(c)
      PROVE  (\E k \in 1 .. r : j = Len(c) - h + k) <=> j > Len(c) - h /\ j <= Len(c) - h + r
  <2>1. ASSUME j > Len(c) - h, j <= Len(c) - h + r
        PROVE  \E k \in 1 .. r : j = Len(c) - h + k
    <3>1. j - (Len(c) - h) \in 1 .. r /\ j = Len(c) - h + (j - (Len(c) - h))
      BY <1>1, <2>1
    <3> QED BY <3>1
  <2> QED BY <1>1, <2>1
<1>3. ASSUME NEW j \in 1 .. Len(c)
      PROVE  ~(j > Len(c) - h /\ j <= Len(c) - h + r) <=> j <= Len(c) - h \/ j > Len(c) - h + r
  BY <1>1
<1> QED BY <1>1, <1>2, <1>3

LEMMA InCacheIs ==
  ASSUME NEW w, HoldInv(w)
  PROVE  LET l == Len(localFibers[w]) IN
         /\ l \in Nat /\ Half(w) \in Nat /\ Half(w) >= 1 /\ Half(w) < activeCapacity[w]
         /\ returned[w] \in Nat
         /\ InCache(w) = {j \in 1 .. l : j <= l - Half(w) \/ j > l - Half(w) + returned[w]}
         /\ returned[w] = 0 => InCache(w) = 1 .. l
<1> DEFINE l == Len(localFibers[w])
<1>1. l \in Nat /\ Half(w) \in Nat /\ Half(w) >= 1 /\ Half(w) < activeCapacity[w] /\ returned[w] \in Nat
  BY HalfFits DEF HoldInv
<1>2. InCache(w) = {j \in 1 .. l : j <= l - Half(w) \/ j > l - Half(w) + returned[w]}
  <2> DEFINE c == localFibers[w]
             h == Half(w)
             r == returned[w]
  <2>1. c \in Seq(Fibers) /\ h \in Nat /\ r \in Nat
    BY <1>1 DEF HoldInv
  <2>2. InCache(w) = {j \in DOMAIN c : ~\E k \in 1 .. r : j = Len(c) - h + k}
    BY DEF InCache
  <2> HIDE DEF c, h, r
  <2>3. InCache(w) = {j \in 1 .. Len(c) : j <= Len(c) - h \/ j > Len(c) - h + r}
    <3>1. /\ DOMAIN c = 1 .. Len(c)
          /\ \A j \in 1 .. Len(c) : (\E k \in 1 .. r : j = Len(c) - h + k)
                                      <=> ~(j <= Len(c) - h \/ j > Len(c) - h + r)
      BY <2>1, LeftInCache
    <3> QED BY <2>2, <3>1
  <2> QED BY <2>3 DEF c, h, r
<1> HIDE DEF l
<1>3. \A j \in 1 .. l : j <= l - Half(w) \/ j > l - Half(w) + 0
  BY <1>1
<1>4. returned[w] = 0 => InCache(w) = 1 .. l
  BY <1>2, <1>3
<1> QED BY <1>1, <1>2, <1>4 DEF l

\* The same after a step.
LEMMA InCacheAfter ==
  ASSUME NEW w, HoldInv(w)'
  PROVE  LET l == Len(localFibers'[w]) IN
         /\ InCache(w)' = {j \in 1 .. l : j <= l - Half(w)' \/ j > l - Half(w)' + returned'[w]}
         /\ returned'[w] = 0 => InCache(w)' = 1 .. l
<1> DEFINE l == Len(localFibers'[w])
<1>1. l \in Nat /\ Half(w)' \in Nat /\ returned'[w] \in Nat
  BY DEF HoldInv, Half
<1>2. InCache(w)' = {j \in 1 .. l : j <= l - Half(w)' \/ j > l - Half(w)' + returned'[w]}
  <2> DEFINE c == localFibers'[w]
             h == Half(w)'
             r == returned'[w]
  <2>1. c \in Seq(Fibers') /\ h \in Nat /\ r \in Nat
    BY <1>1 DEF HoldInv
  <2>2. InCache(w)' = {j \in DOMAIN c : ~\E k \in 1 .. r : j = Len(c) - h + k}
    BY DEF InCache
  <2> HIDE DEF c, h, r
  <2>3. InCache(w)' = {j \in 1 .. Len(c) : j <= Len(c) - h \/ j > Len(c) - h + r}
    <3>1. /\ DOMAIN c = 1 .. Len(c)
          /\ \A j \in 1 .. Len(c) : (\E k \in 1 .. r : j = Len(c) - h + k)
                                      <=> ~(j <= Len(c) - h \/ j > Len(c) - h + r)
      BY <2>1, LeftInCache
    <3> QED BY <2>2, <3>1
  <2> QED BY <2>3 DEF c, h, r
<1> HIDE DEF l
<1>3. \A j \in 1 .. l : j <= l - Half(w)' \/ j > l - Half(w)' + 0
  BY <1>1
<1>4. returned'[w] = 0 => InCache(w)' = 1 .. l
  BY <1>2, <1>3
<1> QED BY <1>2, <1>4 DEF l

\* A cache that is not touched.
LEMMA CacheStays ==
  ASSUME NEW w, localFibers'[w] = localFibers[w], activeCapacity'[w] = activeCapacity[w],
         returned'[w] = returned[w]
  PROVE  InCache(w)' = InCache(w)
BY DEF InCache, Half

LEMMA FiberStays ==
  ASSUME NEW f, OneOwner(f), f \in parked' <=> f \in parked, available'[f] = available[f],
         \A w, j : CacheAt(f, w, j)' <=> CacheAt(f, w, j),
         \A w, j : StolenAt(f, w, j)' <=> StolenAt(f, w, j),
         \A w : RunAt(f, w)' <=> RunAt(f, w)
  PROVE  OneOwner(f)'
<1>1. \A p, w, j : LiesAt(f, p, w, j)' <=> LiesAt(f, p, w, j)
  BY DEF LiesAt
<1>2. PICK p, w, j : OnlyAt(f, p, w, j)
  BY DEF OneOwner
<1>3. OnlyAt(f, p, w, j)'
  BY <1>1, <1>2 DEF OnlyAt
<1> QED BY <1>3 DEF OneOwner

LEMMA AtOne ==
  ASSUME NEW f, OneOwner(f), NEW p, NEW w, NEW j, LiesAt(f, p, w, j)
  PROVE  OnlyAt(f, p, w, j)
BY DEF OneOwner, OnlyAt

LEMMA OnlyMeans ==
  ASSUME NEW f, available[f] \in Nat, NEW p, NEW w, NEW j, OnlyAt(f, p, w, j)
  PROVE  /\ available[f] = IF p = "queue" THEN 1 ELSE 0
         /\ f \in parked <=> p = "parked"
         /\ \A v, k : CacheAt(f, v, k) <=> p = "cache" /\ v = w /\ k = j
         /\ \A v, k : StolenAt(f, v, k) <=> p = "stolen" /\ v = w /\ k = j
         /\ \A v : RunAt(f, v) <=> p = "run" /\ v = w
<1>0. \A q, v, k : LiesAt(f, q, v, k) <=> q = p /\ v = w /\ k = j
  BY DEF OnlyAt
<1>1. available[f] = IF p = "queue" THEN 1 ELSE 0
  <2>1. \A k \in 1 .. available[f] : p = "queue" /\ k = j
    <3>1. \A k \in 1 .. available[f] : LiesAt(f, "queue", 0, k)
      BY DEF LiesAt
    <3> QED BY <1>0, <3>1
  <2>2. p = "queue" => j \in 1 .. available[f]
    <3>1. LiesAt(f, p, w, j)
      BY <1>0
    <3> QED BY <3>1 DEF LiesAt
  <2>3. CASE p = "queue"
    <3>1. j = 1
      BY <2>1, <2>2, <2>3
    <3>2. available[f] \in 1 .. available[f]
      BY <2>2, <2>3
    <3> QED BY <2>1, <2>3, <3>1, <3>2
  <2>4. CASE p # "queue"
    <3>1. ~(1 \in 1 .. available[f])
      BY <2>1, <2>4
    <3> QED BY <2>4, <3>1
  <2> QED BY <2>3, <2>4
<1>2. f \in parked <=> p = "parked"
  <2>1. f \in parked <=> LiesAt(f, "parked", 0, 0)
    BY DEF LiesAt
  <2>2. p = "parked" => LiesAt(f, "parked", w, j)
    BY <1>0
  <2>3. LiesAt(f, "parked", w, j) => f \in parked
    BY DEF LiesAt
  <2> QED BY <1>0, <2>1, <2>2, <2>3
<1>3. \A v, k : CacheAt(f, v, k) <=> p = "cache" /\ v = w /\ k = j
  <2>1. \A v, k : LiesAt(f, "cache", v, k) <=> CacheAt(f, v, k)
    BY DEF LiesAt
  <2> QED BY <1>0, <2>1
<1>4. \A v, k : StolenAt(f, v, k) <=> p = "stolen" /\ v = w /\ k = j
  <2>1. \A v, k : LiesAt(f, "stolen", v, k) <=> StolenAt(f, v, k)
    BY DEF LiesAt
  <2> QED BY <1>0, <2>1
<1>5. \A v : RunAt(f, v) <=> p = "run" /\ v = w
  <2>1. ASSUME NEW v, RunAt(f, v) PROVE p = "run" /\ v = w
    <3>1. LiesAt(f, "run", v, 0)
      BY <2>1 DEF LiesAt
    <3> QED BY <1>0, <3>1
  <2>2. ASSUME p = "run" PROVE RunAt(f, w)
    <3>1. LiesAt(f, "run", w, j)
      BY <1>0, <2>2
    <3> QED BY <3>1 DEF LiesAt
  <2> QED BY <2>1, <2>2
<1> QED BY <1>1, <1>2, <1>3, <1>4, <1>5

LEMMA ComesTo ==
  ASSUME NEW f, NEW p \in {"queue", "parked", "cache", "stolen", "run"}, NEW w, NEW j,
         p = "queue" => w = 0 /\ j = 1, p = "parked" => w = 0 /\ j = 0, p = "run" => j = 0,
         available'[f] = IF p = "queue" THEN 1 ELSE 0,
         f \in parked' <=> p = "parked",
         \A v, k : CacheAt(f, v, k)' <=> p = "cache" /\ v = w /\ k = j,
         \A v, k : StolenAt(f, v, k)' <=> p = "stolen" /\ v = w /\ k = j,
         \A v : RunAt(f, v)' <=> p = "run" /\ v = w
  PROVE  OneOwner(f)'
<1>1. \A k : k \in 1 .. available'[f] <=> p = "queue" /\ k = 1
  OBVIOUS
<1>2. \A q, v, k : LiesAt(f, q, v, k)' <=> q = p /\ v = w /\ k = j
  BY <1>1 DEF LiesAt
<1> QED BY <1>2 DEF OneOwner, OnlyAt

LEMMA OthersStay ==
  ASSUME NEW w, OthersKeep(w), NEW f
  PROVE  /\ \A v, j : v # w => (CacheAt(f, v, j)' <=> CacheAt(f, v, j))
         /\ \A v, j : v # w => (StolenAt(f, v, j)' <=> StolenAt(f, v, j))
         /\ \A v : v # w => (RunAt(f, v)' <=> RunAt(f, v))
<1>1. Cached' = Cached
  BY DEF OthersKeep, Cached
<1>2. ASSUME NEW v \in Cached, v # w PROVE InCache(v)' = InCache(v)
  BY <1>2, CacheStays DEF OthersKeep
<1>3. \A v \in Cached : v # w => /\ localFibers'[v] = localFibers[v] /\ stolen'[v] = stolen[v]
                                 /\ fiberOf'[v] = fiberOf[v]
  BY DEF OthersKeep
<1> QED BY <1>1, <1>2, <1>3 DEF CacheAt, StolenAt, RunAt

\* A step of worker w that does not touch f, and one that moves it.
LEMMA StaysHere ==
  ASSUME NEW w, OthersKeep(w), NEW f, OneOwner(f), f \in parked' <=> f \in parked,
         available'[f] = available[f],
         \A k : CacheAt(f, w, k)' <=> CacheAt(f, w, k),
         \A k : StolenAt(f, w, k)' <=> StolenAt(f, w, k),
         RunAt(f, w)' <=> RunAt(f, w)
  PROVE  OneOwner(f)'
<1>1. \A v, k : CacheAt(f, v, k)' <=> CacheAt(f, v, k)
  BY OthersStay
<1>2. \A v, k : StolenAt(f, v, k)' <=> StolenAt(f, v, k)
  BY OthersStay
<1>3. \A v : RunAt(f, v)' <=> RunAt(f, v)
  BY OthersStay
<1> QED BY <1>1, <1>2, <1>3, FiberStays

LEMMA MovesHere ==
  ASSUME NEW w, OthersKeep(w), NEW f, available[f] \in Nat, OneOwner(f),
         NEW p0, NEW w0, NEW j0, LiesAt(f, p0, w0, j0), p0 \in {"queue", "parked"} \/ w0 = w,
         NEW p \in {"queue", "parked", "cache", "stolen", "run"}, NEW j,
         p = "queue" => j = 1, p \in {"parked", "run"} => j = 0,
         available'[f] = IF p = "queue" THEN 1 ELSE 0,
         f \in parked' <=> p = "parked",
         \A k : CacheAt(f, w, k)' <=> p = "cache" /\ k = j,
         \A k : StolenAt(f, w, k)' <=> p = "stolen" /\ k = j,
         RunAt(f, w)' <=> p = "run"
  PROVE  OneOwner(f)'
<1> DEFINE u == IF p \in {"queue", "parked"} THEN 0 ELSE w
<1>1. OnlyAt(f, p0, w0, j0)
  BY AtOne
<1>2. /\ \A v, k : CacheAt(f, v, k) => v = w
      /\ \A v, k : StolenAt(f, v, k) => v = w
      /\ \A v : RunAt(f, v) => v = w
  <2>1. /\ \A v, k : CacheAt(f, v, k) <=> p0 = "cache" /\ v = w0 /\ k = j0
        /\ \A v, k : StolenAt(f, v, k) <=> p0 = "stolen" /\ v = w0 /\ k = j0
        /\ \A v : RunAt(f, v) <=> p0 = "run" /\ v = w0
    BY <1>1, OnlyMeans
  <2> QED BY <2>1
<1>3. \A v, k : CacheAt(f, v, k)' <=> p = "cache" /\ v = u /\ k = j
  <2>1. \A v, k : v # w => ~CacheAt(f, v, k)'
    BY <1>2, OthersStay
  <2> QED BY <2>1
<1>4. \A v, k : StolenAt(f, v, k)' <=> p = "stolen" /\ v = u /\ k = j
  <2>1. \A v, k : v # w => ~StolenAt(f, v, k)'
    BY <1>2, OthersStay
  <2> QED BY <2>1
<1>5. \A v : RunAt(f, v)' <=> p = "run" /\ v = u
  <2>1. \A v : v # w => ~RunAt(f, v)'
    BY <1>2, OthersStay
  <2> QED BY <2>1
<1>6. p \in {"queue", "parked"} => u = 0
  OBVIOUS
<1> HIDE DEF u
<1> QED BY <1>3, <1>4, <1>5, <1>6, ComesTo, SMTT(30)

\* f is where worker w can reach it: in the queue, parked, or on the worker.
Near(f, w) == \E q, v, k : LiesAt(f, q, v, k) /\ (q \in {"queue", "parked"} \/ v = w)

LEMMA ToQueue ==
  ASSUME NEW w, OthersKeep(w), NEW f, available[f] \in Nat, OneOwner(f), Near(f, w),
         available'[f] = 1, f \notin parked', ~RunAt(f, w)',
         \A k : ~CacheAt(f, w, k)', \A k : ~StolenAt(f, w, k)'
  PROVE  OneOwner(f)'
<1>1. PICK q, v, k : LiesAt(f, q, v, k) /\ (q \in {"queue", "parked"} \/ v = w)
  BY DEF Near
<1> DEFINE p == "queue"
           j == 1
<1>2. /\ p \in {"queue", "parked", "cache", "stolen", "run"} /\ (p = "queue" => j = 1)
      /\ (p \in {"parked", "run"} => j = 0) /\ available'[f] = (IF p = "queue" THEN 1 ELSE 0)
      /\ (f \in parked' <=> p = "parked") /\ (RunAt(f, w)' <=> p = "run")
      /\ (\A x : CacheAt(f, w, x)' <=> p = "cache" /\ x = j)
      /\ (\A x : StolenAt(f, w, x)' <=> p = "stolen" /\ x = j)
  OBVIOUS
<1> HIDE DEF p, j
<1> QED BY <1>1, <1>2, MovesHere

LEMMA ToParked ==
  ASSUME NEW w, OthersKeep(w), NEW f, available[f] \in Nat, OneOwner(f), Near(f, w),
         available'[f] = 0, f \in parked', ~RunAt(f, w)',
         \A k : ~CacheAt(f, w, k)', \A k : ~StolenAt(f, w, k)'
  PROVE  OneOwner(f)'
<1>1. PICK q, v, k : LiesAt(f, q, v, k) /\ (q \in {"queue", "parked"} \/ v = w)
  BY DEF Near
<1> DEFINE p == "parked"
           j == 0
<1>2. /\ p \in {"queue", "parked", "cache", "stolen", "run"} /\ (p = "queue" => j = 1)
      /\ (p \in {"parked", "run"} => j = 0) /\ available'[f] = (IF p = "queue" THEN 1 ELSE 0)
      /\ (f \in parked' <=> p = "parked") /\ (RunAt(f, w)' <=> p = "run")
      /\ (\A x : CacheAt(f, w, x)' <=> p = "cache" /\ x = j)
      /\ (\A x : StolenAt(f, w, x)' <=> p = "stolen" /\ x = j)
  OBVIOUS
<1> HIDE DEF p, j
<1> QED BY <1>1, <1>2, MovesHere

LEMMA ToRun ==
  ASSUME NEW w, OthersKeep(w), NEW f, available[f] \in Nat, OneOwner(f), Near(f, w),
         available'[f] = 0, f \notin parked', RunAt(f, w)',
         \A k : ~CacheAt(f, w, k)', \A k : ~StolenAt(f, w, k)'
  PROVE  OneOwner(f)'
<1>1. PICK q, v, k : LiesAt(f, q, v, k) /\ (q \in {"queue", "parked"} \/ v = w)
  BY DEF Near
<1> DEFINE p == "run"
           j == 0
<1>2. /\ p \in {"queue", "parked", "cache", "stolen", "run"} /\ (p = "queue" => j = 1)
      /\ (p \in {"parked", "run"} => j = 0) /\ available'[f] = (IF p = "queue" THEN 1 ELSE 0)
      /\ (f \in parked' <=> p = "parked") /\ (RunAt(f, w)' <=> p = "run")
      /\ (\A x : CacheAt(f, w, x)' <=> p = "cache" /\ x = j)
      /\ (\A x : StolenAt(f, w, x)' <=> p = "stolen" /\ x = j)
  OBVIOUS
<1> HIDE DEF p, j
<1> QED BY <1>1, <1>2, MovesHere

LEMMA ToCache ==
  ASSUME NEW w, OthersKeep(w), NEW f, available[f] \in Nat, OneOwner(f), Near(f, w),
         available'[f] = 0, f \notin parked', ~RunAt(f, w)', NEW j,
         \A k : CacheAt(f, w, k)' <=> k = j, \A k : ~StolenAt(f, w, k)'
  PROVE  OneOwner(f)'
<1>1. PICK q, v, k : LiesAt(f, q, v, k) /\ (q \in {"queue", "parked"} \/ v = w)
  BY DEF Near
<1> DEFINE p == "cache"
<1>2. /\ p \in {"queue", "parked", "cache", "stolen", "run"} /\ (p = "queue" => j = 1)
      /\ (p \in {"parked", "run"} => j = 0) /\ available'[f] = (IF p = "queue" THEN 1 ELSE 0)
      /\ (f \in parked' <=> p = "parked") /\ (RunAt(f, w)' <=> p = "run")
      /\ (\A x : CacheAt(f, w, x)' <=> p = "cache" /\ x = j)
      /\ (\A x : StolenAt(f, w, x)' <=> p = "stolen" /\ x = j)
  OBVIOUS
<1> HIDE DEF p
<1> QED BY <1>1, <1>2, MovesHere

LEMMA ToStolen ==
  ASSUME NEW w, OthersKeep(w), NEW f, available[f] \in Nat, OneOwner(f), Near(f, w),
         available'[f] = 0, f \notin parked', ~RunAt(f, w)', NEW j,
         \A k : ~CacheAt(f, w, k)', \A k : StolenAt(f, w, k)' <=> k = j
  PROVE  OneOwner(f)'
<1>1. PICK q, v, k : LiesAt(f, q, v, k) /\ (q \in {"queue", "parked"} \/ v = w)
  BY DEF Near
<1> DEFINE p == "stolen"
<1>2. /\ p \in {"queue", "parked", "cache", "stolen", "run"} /\ (p = "queue" => j = 1)
      /\ (p \in {"parked", "run"} => j = 0) /\ available'[f] = (IF p = "queue" THEN 1 ELSE 0)
      /\ (f \in parked' <=> p = "parked") /\ (RunAt(f, w)' <=> p = "run")
      /\ (\A x : CacheAt(f, w, x)' <=> p = "cache" /\ x = j)
      /\ (\A x : StolenAt(f, w, x)' <=> p = "stolen" /\ x = j)
  OBVIOUS
<1> HIDE DEF p
<1> QED BY <1>1, <1>2, MovesHere

\* Where f is on worker w.
LEMMA HereAt ==
  ASSUME NEW f, NEW w, NEW j
  PROVE  /\ CacheAt(f, w, j) \/ StolenAt(f, w, j) \/ RunAt(f, w) \/ f \in parked => Near(f, w)
         /\ available[f] \in Nat /\ available[f] > 0 => Near(f, w)
         /\ CacheAt(f, w, j) => LiesAt(f, "cache", w, j)
         /\ StolenAt(f, w, j) => LiesAt(f, "stolen", w, j)
         /\ RunAt(f, w) => LiesAt(f, "run", w, 0)
         /\ f \in parked => LiesAt(f, "parked", 0, 0)
         /\ available[f] \in Nat /\ available[f] > 0 => LiesAt(f, "queue", 0, 1)
<1>1. /\ CacheAt(f, w, j) => LiesAt(f, "cache", w, j)
      /\ StolenAt(f, w, j) => LiesAt(f, "stolen", w, j)
      /\ RunAt(f, w) => LiesAt(f, "run", w, 0)
      /\ f \in parked => LiesAt(f, "parked", 0, 0)
      /\ available[f] \in Nat /\ available[f] > 0 => LiesAt(f, "queue", 0, 1)
  BY DEF LiesAt
<1> QED BY <1>1 DEF Near

\* A fiber with another place is not in this one.
LEMMA NotElsewhere ==
  ASSUME NEW f, available[f] \in Nat, OneOwner(f), NEW p, NEW w, NEW j, LiesAt(f, p, w, j)
  PROVE  /\ available[f] = IF p = "queue" THEN 1 ELSE 0
         /\ f \in parked <=> p = "parked"
         /\ \A v, k : CacheAt(f, v, k) <=> p = "cache" /\ v = w /\ k = j
         /\ \A v, k : StolenAt(f, v, k) <=> p = "stolen" /\ v = w /\ k = j
         /\ \A v : RunAt(f, v) <=> p = "run" /\ v = w
<1>1. OnlyAt(f, p, w, j)
  BY AtOne
<1> QED BY <1>1, OnlyMeans

\* The steps of AcquireFiber: the cache is popped ...
LEMMA PopOwner ==
  ASSUME PoolInv, PoolInv', NEW w \in Cached, OthersKeep(w), PopCached(w),
         NEW f \in Fibers, OneOwner(f)
  PROVE  OneOwner(f)'
<1> DEFINE l == Len(localFibers[w])
<1>1. /\ fat[w] = "pop" /\ localFibers[w] # << >> /\ available' = available /\ parked' = parked
      /\ localFibers'[w] = Front(localFibers[w]) /\ fiberOf'[w] = Last(localFibers[w])
      /\ stolen' = stolen /\ returned' = returned
  BY DEF PopCached, PoolInv, Cached
<1>2. HoldInv(w) /\ HoldInv(w)' /\ w \in Cached' /\ available[f] \in Nat
  BY DEF PoolInv, OthersKeep, Cached
<1>3. /\ l \in Nat /\ l >= 1 /\ Last(localFibers[w]) = localFibers[w][l]
      /\ Len(Front(localFibers[w])) = l - 1
      /\ \A j \in 1 .. l - 1 : Front(localFibers[w])[j] = localFibers[w][j]
  BY <1>1, <1>2, FrontAndLast DEF HoldInv
<1>4. InCache(w) = 1 .. l /\ InCache(w)' = 1 .. l - 1
  <2>1. returned[w] = 0 /\ returned'[w] = 0
    BY <1>1, <1>2 DEF HoldInv
  <2>2. InCache(w)' = 1 .. Len(localFibers'[w])
    BY <1>2, <2>1, InCacheAfter
  <2>3. InCache(w) = 1 .. l
    BY <1>2, <2>1, InCacheIs
  <2> QED BY <1>1, <1>3, <2>2, <2>3
<1>5. \A j : CacheAt(f, w, j)' <=> j \in 1 .. l - 1 /\ localFibers[w][j] = f
  BY <1>1, <1>2, <1>3, <1>4 DEF CacheAt
<1>6. \A j : CacheAt(f, w, j) <=> j \in 1 .. l /\ localFibers[w][j] = f
  BY <1>4 DEF CacheAt
<1>7. \A j : StolenAt(f, w, j)' <=> StolenAt(f, w, j)
  BY <1>1, <1>2 DEF StolenAt
<1>8. ~RunAt(f, w) /\ (RunAt(f, w)' <=> f = localFibers[w][l])
  BY <1>1, <1>2, <1>3, PoolAssumption DEF RunAt, HoldInv, PoolInv
<1> HIDE DEF l
<1>9. CASE f # localFibers[w][l]
  <2>1. \A j : CacheAt(f, w, j)' <=> CacheAt(f, w, j)
    BY <1>3, <1>5, <1>6, <1>9
  <2> QED BY <1>1, <1>7, <1>8, <1>9, <2>1, StaysHere
<1>10. CASE f = localFibers[w][l]
  <2>1. LiesAt(f, "cache", w, l)
    BY <1>3, <1>6, <1>10, HereAt
  <2>2. /\ available[f] = 0 /\ f \notin parked /\ \A k : ~StolenAt(f, w, k)
        /\ \A k : CacheAt(f, w, k) => k = l
    BY <1>2, <2>1, NotElsewhere
  <2>3. \A k : ~CacheAt(f, w, k)'
    BY <1>3, <1>5, <1>6, <2>2
  <2> QED BY <1>1, <1>2, <1>7, <1>8, <1>10, <2>1, <2>2, <2>3, MovesHere
<1> QED BY <1>9, <1>10

\* ... or filled, one fiber of the global queue after the other ...
LEMMA StealOwner ==
  ASSUME PoolInv, NEW w \in Cached, OthersKeep(w), StealOne(w), NEW f \in Fibers, OneOwner(f)
  PROVE  OneOwner(f)'
<1> DEFINE l == Len(stolen[w])
           g == Min(InQueue)
<1>1. /\ InQueue # {} /\ stolen'[w] = Append(stolen[w], g) /\ parked' = parked
      /\ available' = [available EXCEPT ![g] = @ - 1]
      /\ UNCHANGED <<localFibers, activeCapacity, returned, fiberOf>>
  BY DEF StealOne, PoolInv
<1>2. /\ g \in Fibers /\ available[g] > 0 /\ DOMAIN available = Fibers /\ available[f] \in Nat
      /\ HoldInv(w) /\ Cached' = Cached
  BY <1>1, FirstInQueue DEF PoolInv, OthersKeep, Cached
<1>3. /\ l \in Nat /\ DOMAIN stolen[w] = 1 .. l /\ DOMAIN stolen'[w] = 1 .. l + 1
      /\ stolen'[w][l + 1] = g /\ \A j \in 1 .. l : stolen'[w][j] = stolen[w][j]
  BY <1>1, <1>2 DEF HoldInv
<1>4. \A j : CacheAt(f, w, j)' <=> CacheAt(f, w, j)
  <2>1. InCache(w)' = InCache(w)
    BY <1>1, CacheStays
  <2> QED BY <1>1, <1>2, <2>1 DEF CacheAt
<1>5. RunAt(f, w)' <=> RunAt(f, w)
  BY <1>1, <1>2 DEF RunAt
<1>6. \A j : StolenAt(f, w, j)' <=> (j \in 1 .. l /\ stolen[w][j] = f) \/ (j = l + 1 /\ f = g)
  BY <1>2, <1>3 DEF StolenAt
<1>7. \A j : StolenAt(f, w, j) <=> j \in 1 .. l /\ stolen[w][j] = f
  BY <1>2, <1>3 DEF StolenAt
<1> HIDE DEF l, g
<1>8. CASE f # g
  <2>1. \A j : StolenAt(f, w, j)' <=> StolenAt(f, w, j)
    BY <1>6, <1>7, <1>8
  <2>2. available'[f] = available[f]
    BY <1>1, <1>2, <1>8
  <2> QED BY <1>1, <1>4, <1>5, <2>1, <2>2, StaysHere
<1>9. CASE f = g
  <2>1. LiesAt(f, "queue", 0, 1)
    BY <1>2, <1>9, HereAt
  <2>2. /\ available[f] = 1 /\ f \notin parked /\ (\A k : ~StolenAt(f, w, k))
        /\ (\A k : ~CacheAt(f, w, k)) /\ ~RunAt(f, w)
    BY <1>2, <2>1, NotElsewhere
  <2>3. \A k : StolenAt(f, w, k)' <=> k = l + 1
    BY <1>6, <1>7, <1>9, <2>2
  <2>4. available'[f] = 0
    BY <1>1, <1>2, <1>9, <2>2
  <2>5. f \notin parked' /\ (\A k : ~CacheAt(f, w, k)') /\ ~RunAt(f, w)'
    BY <1>1, <1>4, <1>5, <2>2
  <2>6. Near(f, w)
    BY <1>2, <1>9, HereAt
  <2> DEFINE j == l + 1
  <2>7. \A k : StolenAt(f, w, k)' <=> k = j
    BY <2>3
  <2> HIDE DEF j
  <2> QED BY <1>2, <2>4, <2>5, <2>6, <2>7, ToStolen
<1> QED BY <1>8, <1>9

\* ... until the fibers got become the cache, but for the one that runs.
LEMMA EndsOwner ==
  ASSUME PoolInv, PoolInv', NEW w \in Cached, OthersKeep(w), StealEnds(w),
         NEW f \in Fibers, OneOwner(f)
  PROVE  OneOwner(f)'
<1> DEFINE l == Len(stolen[w])
<1>1. /\ localFibers[w] = << >> /\ parked' = parked /\ available' = available
      /\ fat[w] \in {"pop", "pop2"} /\ stolen'[w] = << >> /\ returned' = returned
      /\ activeCapacity' = activeCapacity
  BY DEF StealEnds, PoolInv
<1>2. HoldInv(w) /\ HoldInv(w)' /\ w \in Cached' /\ available[f] \in Nat /\ Cached' = Cached
  BY DEF PoolInv, OthersKeep, Cached
<1>3. returned[w] = 0 /\ returned'[w] = 0 /\ fiberOf[w] = NoFiber
  BY <1>1, <1>2 DEF HoldInv
<1>4. \A j : ~CacheAt(f, w, j) /\ ~StolenAt(f, w, j)'
  <2>1. InCache(w) \subseteq DOMAIN localFibers[w]
    BY DEF InCache
  <2> QED BY <1>1, <2>1 DEF CacheAt, StolenAt
<1>5. ~RunAt(f, w)
  BY <1>3, PoolAssumption DEF RunAt, PoolInv
<1>6. CASE stolen[w] = << >>
  <2>1. fiberOf' = fiberOf /\ localFibers' = localFibers
    BY <1>6 DEF StealEnds
  <2>2. \A j : CacheAt(f, w, j)' <=> CacheAt(f, w, j)
    BY <1>1, <1>2, <2>1, CacheStays DEF CacheAt
  <2>3. \A j : StolenAt(f, w, j)' <=> StolenAt(f, w, j)
    BY <1>1, <1>2, <1>6 DEF StolenAt
  <2>4. RunAt(f, w)' <=> RunAt(f, w)
    BY <1>2, <2>1 DEF RunAt
  <2> QED BY <1>1, <2>2, <2>3, <2>4, StaysHere
<1>7. CASE stolen[w] # << >>
  <2>1. fiberOf'[w] = Last(stolen[w]) /\ localFibers'[w] = Front(stolen[w])
    BY <1>7 DEF StealEnds, PoolInv, Cached
  <2>2. /\ l \in Nat /\ l >= 1 /\ Last(stolen[w]) = stolen[w][l] /\ DOMAIN stolen[w] = 1 .. l
        /\ Len(Front(stolen[w])) = l - 1 /\ \A j \in 1 .. l - 1 : Front(stolen[w])[j] = stolen[w][j]
    <3>1. stolen[w] \in Seq(Fibers)
      BY <1>2 DEF HoldInv
    <3>2. DOMAIN stolen[w] = 1 .. l
      BY <3>1
    <3> QED BY <1>7, <3>1, <3>2, FrontAndLast
  <2>3. InCache(w)' = 1 .. l - 1
    <3>1. InCache(w)' = 1 .. Len(localFibers'[w])
      BY <1>2, <1>3, InCacheAfter
    <3> QED BY <2>1, <2>2, <3>1
  <2>4. \A j : CacheAt(f, w, j)' <=> j \in 1 .. l - 1 /\ stolen[w][j] = f
    BY <1>2, <2>1, <2>2, <2>3 DEF CacheAt
  <2>5. \A j : StolenAt(f, w, j) <=> j \in 1 .. l /\ stolen[w][j] = f
    BY <2>2 DEF StolenAt
  <2>6. RunAt(f, w)' <=> f = stolen[w][l]
    BY <1>2, <2>1, <2>2 DEF RunAt
  <2> HIDE DEF l
  <2>7. CASE \A j : ~StolenAt(f, w, j)
    <3>1. ~RunAt(f, w)' /\ \A j : ~CacheAt(f, w, j)'
      BY <2>2, <2>4, <2>5, <2>6, <2>7
    <3> QED BY <1>1, <1>4, <1>5, <2>7, <3>1, StaysHere
  <2>8. ASSUME NEW j, StolenAt(f, w, j) PROVE OneOwner(f)'
    <3>1. LiesAt(f, "stolen", w, j) /\ Near(f, w)
      BY <2>8, HereAt
    <3>2. available[f] = 0 /\ f \notin parked /\ \A k : StolenAt(f, w, k) => k = j
      BY <1>2, <3>1, NotElsewhere
    <3>3. CASE j = l
      <4>1. RunAt(f, w)' /\ \A k : ~CacheAt(f, w, k)'
        BY <2>2, <2>4, <2>5, <2>6, <2>8, <3>2, <3>3
      <4> QED BY <1>1, <1>2, <1>4, <3>1, <3>2, <4>1, ToRun
    <3>4. CASE j # l
      <4>1. ~RunAt(f, w)'
        BY <2>2, <2>5, <2>6, <3>2, <3>4
      <4>2. j \in 1 .. l - 1 /\ stolen[w][j] = f
        BY <2>2, <2>5, <2>8, <3>4
      <4>3. \A k : CacheAt(f, w, k)' <=> k = j
        BY <2>2, <2>4, <2>5, <3>2, <4>2
      <4>4. available'[f] = 0 /\ f \notin parked' /\ \A k : ~StolenAt(f, w, k)'
        BY <1>1, <1>4, <3>2
      <4>5. available[f] \in Nat /\ Near(f, w)
        BY <1>2, <3>1
      <4> QED BY <4>1, <4>3, <4>4, <4>5, ToCache
    <3> QED BY <3>3, <3>4
  <2> QED BY <2>7, <2>8
<1> QED BY <1>6, <1>7

\* A task suspends ...
LEMMA ParkOwner ==
  ASSUME PoolInv, PoolInv', NEW w \in Cached, OthersKeep(w), ParkFiber(w),
         NEW f \in Fibers, OneOwner(f)
  PROVE  OneOwner(f)'
<1>1. /\ parked' = parked \cup {fiberOf[w]} /\ fiberOf'[w] = NoFiber
      /\ UNCHANGED <<available, localFibers, activeCapacity, stolen, returned>>
  BY DEF ParkFiber, PoolInv
<1>2. available[f] \in Nat /\ Cached' = Cached /\ f # NoFiber
  BY PoolAssumption DEF PoolInv, OthersKeep, Cached
<1>3. \A j : CacheAt(f, w, j)' <=> CacheAt(f, w, j)
  BY <1>1, <1>2, CacheStays DEF CacheAt
<1>4. \A j : StolenAt(f, w, j)' <=> StolenAt(f, w, j)
  BY <1>1, <1>2 DEF StolenAt
<1>5. ~RunAt(f, w)'
  BY <1>1, <1>2 DEF RunAt
<1>6. CASE f # fiberOf[w]
  <2>1. (RunAt(f, w)' <=> RunAt(f, w)) /\ (f \in parked' <=> f \in parked)
    BY <1>1, <1>5, <1>6 DEF RunAt
  <2> QED BY <1>1, <1>3, <1>4, <2>1, StaysHere
<1>7. CASE f = fiberOf[w]
  <2>1. LiesAt(f, "run", w, 0) /\ Near(f, w)
    BY <1>7, HereAt DEF RunAt
  <2>2. available[f] = 0 /\ (\A k : ~CacheAt(f, w, k)) /\ (\A k : ~StolenAt(f, w, k))
    BY <1>2, <2>1, NotElsewhere
  <2> QED BY <1>1, <1>2, <1>3, <1>4, <1>5, <1>7, <2>1, <2>2, ToParked
<1> QED BY <1>6, <1>7

\* ... and goes on.
LEMMA ResumeOwner ==
  ASSUME PoolInv, PoolInv', NEW w \in Cached, OthersKeep(w), NEW g \in parked, ResumeFiber(w, g),
         NEW f \in Fibers, OneOwner(f)
  PROVE  OneOwner(f)'
<1>1. /\ parked' = parked \ {g} /\ fiberOf'[w] = g /\ fat[w] = "idle"
      /\ UNCHANGED <<available, localFibers, activeCapacity, stolen, returned>>
  BY DEF ResumeFiber, PoolInv
<1>2. available[f] \in Nat /\ Cached' = Cached /\ w \in Cached' /\ fiberOf[w] # f
  BY <1>1, PoolAssumption DEF PoolInv, OthersKeep, Cached, HoldInv
<1>3. \A j : CacheAt(f, w, j)' <=> CacheAt(f, w, j)
  BY <1>1, <1>2, CacheStays DEF CacheAt
<1>4. \A j : StolenAt(f, w, j)' <=> StolenAt(f, w, j)
  BY <1>1, <1>2 DEF StolenAt
<1>5. CASE f # g
  <2>1. (RunAt(f, w)' <=> RunAt(f, w)) /\ (f \in parked' <=> f \in parked)
    BY <1>1, <1>2, <1>5 DEF RunAt
  <2> QED BY <1>1, <1>3, <1>4, <2>1, StaysHere
<1>6. CASE f = g
  <2>1. LiesAt(f, "parked", 0, 0) /\ Near(f, w)
    BY <1>6, HereAt
  <2>2. available[f] = 0 /\ (\A k : ~CacheAt(f, w, k)) /\ (\A k : ~StolenAt(f, w, k))
    BY <1>2, <2>1, NotElsewhere
  <2>3. RunAt(f, w)' /\ f \notin parked'
    BY <1>1, <1>2, <1>6 DEF RunAt
  <2> QED BY <1>1, <1>2, <1>3, <1>4, <2>1, <2>2, <2>3, ToRun
<1> QED BY <1>5, <1>6

\* The task ends and its fiber goes to the cache ...
LEMMA ReleaseOwner ==
  ASSUME PoolInv, PoolInv', NEW w \in Cached, OthersKeep(w), ReleaseFiber(w),
         NEW f \in Fibers, OneOwner(f)
  PROVE  OneOwner(f)'
<1> DEFINE l == Len(localFibers[w])
           m == l + 1
<1>1. /\ parked' = parked /\ available' = available /\ fat[w] = "run" /\ stolen' = stolen
      /\ returned' = returned /\ activeCapacity' = activeCapacity
  BY DEF ReleaseFiber
<1>2. HoldInv(w) /\ HoldInv(w)' /\ available[f] \in Nat /\ Cached' = Cached /\ f # NoFiber
  BY PoolAssumption DEF PoolInv, OthersKeep, Cached
<1>3. returned[w] = 0 /\ returned'[w] = 0 /\ l \in Nat
  BY <1>1, <1>2 DEF HoldInv
<1>4. \A j : StolenAt(f, w, j)' <=> StolenAt(f, w, j)
  BY <1>1, <1>2 DEF StolenAt
<1>5. CASE ~(l < activeCapacity[w])
  <2>1. fiberOf' = fiberOf /\ localFibers' = localFibers
    BY <1>5 DEF ReleaseFiber
  <2>2. \A j : CacheAt(f, w, j)' <=> CacheAt(f, w, j)
    BY <1>1, <1>2, <2>1, CacheStays DEF CacheAt
  <2>3. RunAt(f, w)' <=> RunAt(f, w)
    BY <1>2, <2>1 DEF RunAt
  <2> QED BY <1>1, <1>4, <2>2, <2>3, StaysHere
<1>6. CASE l < activeCapacity[w]
  <2>1. fiberOf'[w] = NoFiber /\ localFibers'[w] = Append(localFibers[w], fiberOf[w])
    BY <1>2, <1>3, <1>6 DEF ReleaseFiber, PoolInv, Cached, HoldInv
  <2>2. /\ Len(localFibers'[w]) = m /\ localFibers'[w][m] = fiberOf[w] /\ m \in Nat
        /\ \A j \in 1 .. l : localFibers'[w][j] = localFibers[w][j]
    BY <1>2, <2>1 DEF HoldInv
  <2>3. InCache(w) = 1 .. l /\ InCache(w)' = 1 .. m
    BY <1>2, <1>3, <2>2, InCacheIs, InCacheAfter
  <2>4. \A j : CacheAt(f, w, j)' <=> (j \in 1 .. l /\ localFibers[w][j] = f) \/ (j = m /\ f = fiberOf[w])
    BY <1>2, <1>3, <2>2, <2>3 DEF CacheAt
  <2>5. \A j : CacheAt(f, w, j) <=> j \in 1 .. l /\ localFibers[w][j] = f
    BY <2>3 DEF CacheAt
  <2>6. ~RunAt(f, w)' /\ (RunAt(f, w) <=> f = fiberOf[w])
    BY <1>2, <2>1 DEF RunAt
  <2> HIDE DEF l, m
  <2>7. CASE f # fiberOf[w]
    <3>1. \A j : CacheAt(f, w, j)' <=> CacheAt(f, w, j)
      BY <2>4, <2>5, <2>7
    <3> QED BY <1>1, <1>4, <2>6, <2>7, <3>1, StaysHere
  <2>8. CASE f = fiberOf[w]
    <3>1. LiesAt(f, "run", w, 0) /\ Near(f, w)
      BY <2>6, <2>8, HereAt
    <3>2. /\ available[f] = 0 /\ f \notin parked /\ (\A k : ~CacheAt(f, w, k))
          /\ \A k : ~StolenAt(f, w, k)
      BY <1>2, <3>1, NotElsewhere
    <3>3. \A k : CacheAt(f, w, k)' <=> k = m
      BY <2>4, <2>5, <2>8, <3>2
    <3> QED BY <1>1, <1>2, <1>4, <2>6, <3>1, <3>2, <3>3, ToCache
  <2> QED BY <2>7, <2>8
<1> QED BY <1>5, <1>6

\* ... or, when that is full, half of the cache goes back to the queue first ...
LEMMA ReturnOwner ==
  ASSUME PoolInv, PoolInv', NEW w \in Cached, OthersKeep(w), ReturnOne(w),
         NEW f \in Fibers, OneOwner(f)
  PROVE  OneOwner(f)'
<1> DEFINE l == Len(localFibers[w])
           h == Half(w)
           r == returned[w]
           m == l - h + (r + 1)
           g == localFibers[w][m]
<1>1. /\ parked' = parked /\ stolen' = stolen /\ fiberOf' = fiberOf /\ fat[w] = "spill" /\ r < h
      /\ returned'[w] = r + 1 /\ localFibers' = localFibers /\ activeCapacity' = activeCapacity
      /\ available' = [available EXCEPT ![g] = @ + 1]
  BY DEF ReturnOne, PoolInv, Spilled
<1>2. HoldInv(w) /\ HoldInv(w)' /\ available[f] \in Nat /\ Cached' = Cached /\ DOMAIN available = Fibers
  BY DEF PoolInv, OthersKeep, Cached
<1>3. /\ l \in Nat /\ h \in Nat /\ r \in Nat /\ h < l
      /\ InCache(w) = {j \in 1 .. l : j <= l - h \/ j > l - h + r}
  <2>1. l = activeCapacity[w]
    BY <1>1, <1>2 DEF HoldInv
  <2> QED BY <1>2, <2>1, InCacheIs
<1>4. InCache(w)' = {j \in 1 .. l : j <= l - h \/ j > l - h + (r + 1)}
  <2>1. Half(w)' = h
    BY <1>1 DEF Half
  <2> QED BY <1>1, <1>2, <2>1, InCacheAfter
<1>5. \A j : StolenAt(f, w, j)' <=> StolenAt(f, w, j)
  BY <1>1, <1>2 DEF StolenAt
<1>6. RunAt(f, w)' <=> RunAt(f, w)
  BY <1>1, <1>2 DEF RunAt
<1>7. m \in InCache(w) /\ InCache(w)' = InCache(w) \ {m}
  <2> HIDE DEF l, h, r
  <2>1. m \in InCache(w)
    BY <1>1, <1>3
  <2>2. \A j \in 1 .. l : (j <= l - h \/ j > l - h + (r + 1))
                            <=> (j <= l - h \/ j > l - h + r) /\ j # m
    BY <1>1, <1>3
  <2> HIDE DEF m
  <2> QED BY <1>3, <1>4, <2>1, <2>2
<1>8. \A j : CacheAt(f, w, j)' <=> CacheAt(f, w, j) /\ j # m
  BY <1>1, <1>2, <1>7 DEF CacheAt
<1>9. CacheAt(f, w, m) <=> f = g
  BY <1>7 DEF CacheAt
<1> HIDE DEF m, g
<1>10. CASE f # g
  <2>1. \A j : CacheAt(f, w, j)' <=> CacheAt(f, w, j)
    BY <1>8, <1>9, <1>10
  <2>2. available'[f] = available[f]
    BY <1>1, <1>2, <1>10
  <2> QED BY <1>1, <1>5, <1>6, <2>1, <2>2, StaysHere
<1>11. CASE f = g
  <2>1. LiesAt(f, "cache", w, m) /\ Near(f, w)
    BY <1>9, <1>11, HereAt
  <2>2. /\ available[f] = 0 /\ f \notin parked /\ ~RunAt(f, w) /\ (\A k : ~StolenAt(f, w, k))
        /\ \A k : CacheAt(f, w, k) => k = m
    BY <1>2, <2>1, NotElsewhere
  <2>3. available'[f] = 1
    BY <1>1, <1>2, <1>11, <2>2
  <2>4. f \notin parked' /\ ~RunAt(f, w)' /\ (\A k : ~StolenAt(f, w, k)') /\ \A k : ~CacheAt(f, w, k)'
    BY <1>1, <1>5, <1>6, <1>8, <2>2
  <2> QED BY <1>2, <2>1, <2>3, <2>4, ToQueue
<1> QED BY <1>10, <1>11

\* ... and the fiber lies on top of the other half.
LEMMA SpillOwner ==
  ASSUME PoolInv, PoolInv', NEW w \in Cached, OthersKeep(w), SpillDone(w),
         NEW f \in Fibers, OneOwner(f)
  PROVE  OneOwner(f)'
<1> DEFINE l == Len(localFibers[w])
           keep == l - Half(w)
           m == keep + 1
<1>1. /\ parked' = parked /\ available' = available /\ fat[w] = "spill" /\ stolen' = stolen
      /\ returned[w] = Half(w) /\ returned'[w] = 0 /\ fiberOf'[w] = NoFiber
      /\ localFibers'[w] = Append(SubSeq(localFibers[w], 1, keep), fiberOf[w])
  BY DEF SpillDone, PoolInv, Cached
<1>2. HoldInv(w) /\ HoldInv(w)' /\ available[f] \in Nat /\ Cached' = Cached /\ f # NoFiber
  BY PoolAssumption DEF PoolInv, OthersKeep, Cached
<1>3. /\ l \in Nat /\ keep \in Nat /\ keep <= l
      /\ InCache(w) = {j \in 1 .. l : j <= l - Half(w) \/ j > l - Half(w) + Half(w)}
  <2>1. l = activeCapacity[w]
    BY <1>1, <1>2 DEF HoldInv
  <2>2. /\ Half(w) \in Nat /\ Half(w) < activeCapacity[w] /\ l \in Nat
        /\ InCache(w) = {j \in 1 .. l : j <= l - Half(w) \/ j > l - Half(w) + returned[w]}
    BY <1>2, InCacheIs
  <2> QED BY <1>1, <2>1, <2>2
<1>4. InCache(w) = 1 .. keep
  <2>1. Half(w) \in Nat /\ Half(w) >= 1
    BY <1>2, InCacheIs
  <2>2. \A j \in 1 .. l : (j <= l - Half(w) \/ j > l - Half(w) + Half(w)) <=> j <= keep
    BY <1>3, <2>1
  <2> HIDE DEF keep, l
  <2>3. \A j : j \in 1 .. keep <=> j \in 1 .. l /\ j <= keep
    BY <1>3
  <2>4. InCache(w) = {j \in 1 .. l : j <= keep}
    BY <1>3, <2>2 DEF keep
  <2> QED BY <2>3, <2>4
<1>5. /\ Len(localFibers'[w]) = m /\ localFibers'[w][m] = fiberOf[w] /\ m \in Nat
      /\ \A j \in 1 .. keep : localFibers'[w][j] = localFibers[w][j]
  <2>1. localFibers[w] \in Seq(Fibers) /\ fiberOf[w] \in Fibers
    BY <1>1, <1>2 DEF HoldInv
  <2> HIDE DEF keep
  <2>2. /\ SubSeq(localFibers[w], 1, keep) \in Seq(Fibers) /\ Len(SubSeq(localFibers[w], 1, keep)) = keep
        /\ \A j \in 1 .. keep : SubSeq(localFibers[w], 1, keep)[j] = localFibers[w][j]
    BY <1>3, <2>1
  <2> QED BY <1>1, <1>3, <2>1, <2>2
<1>6. InCache(w)' = 1 .. m
  BY <1>1, <1>2, <1>5, InCacheAfter
<1>7. \A j : StolenAt(f, w, j)' <=> StolenAt(f, w, j)
  BY <1>1, <1>2 DEF StolenAt
<1>8. ~RunAt(f, w)' /\ (RunAt(f, w) <=> f = fiberOf[w])
  BY <1>1, <1>2 DEF RunAt
<1> HIDE DEF keep
<1>9. \A j : CacheAt(f, w, j)' <=> (j \in 1 .. keep /\ localFibers[w][j] = f) \/ (j = m /\ f = fiberOf[w])
  BY <1>2, <1>3, <1>5, <1>6 DEF CacheAt
<1>10. \A j : CacheAt(f, w, j) <=> j \in 1 .. keep /\ localFibers[w][j] = f
  BY <1>4 DEF CacheAt
<1> HIDE DEF m
<1>11. CASE f # fiberOf[w]
  <2>1. \A j : CacheAt(f, w, j)' <=> CacheAt(f, w, j)
    BY <1>9, <1>10, <1>11
  <2> QED BY <1>1, <1>7, <1>8, <1>11, <2>1, StaysHere
<1>12. CASE f = fiberOf[w]
  <2>1. LiesAt(f, "run", w, 0) /\ Near(f, w)
    BY <1>8, <1>12, HereAt
  <2>2. /\ available[f] = 0 /\ f \notin parked /\ (\A k : ~CacheAt(f, w, k))
        /\ \A k : ~StolenAt(f, w, k)
    BY <1>2, <2>1, NotElsewhere
  <2>3. \A k : CacheAt(f, w, k)' <=> k = m
    BY <1>9, <1>10, <1>12, <2>2
  <2>4. available'[f] = 0 /\ f \notin parked' /\ \A k : ~StolenAt(f, w, k)'
    BY <1>1, <1>7, <2>2
  <2>5. available[f] \in Nat /\ ~RunAt(f, w)'
    BY <1>2, <1>8
  <2>6. Near(f, w)
    BY <2>1
  <2> QED BY <2>3, <2>4, <2>5, <2>6, ToCache
<1> QED BY <1>11, <1>12

\* A worker that fails has and leaves nothing.
LEMMA RetryOwner ==
  ASSUME PoolInv, NEW w \in Cached, OthersKeep(w), AcquireRetry(w), NEW f \in Fibers, OneOwner(f)
  PROVE  OneOwner(f)'
<1>1. UNCHANGED <<available, localFibers, activeCapacity, stolen, returned, fiberOf, parked>>
  BY DEF AcquireRetry
<1>2. Cached' = Cached
  BY DEF OthersKeep, Cached
<1>3. \A j : CacheAt(f, w, j)' <=> CacheAt(f, w, j)
  BY <1>1, <1>2, CacheStays DEF CacheAt
<1>4. \A j : StolenAt(f, w, j)' <=> StolenAt(f, w, j)
  BY <1>1, <1>2 DEF StolenAt
<1>5. RunAt(f, w)' <=> RunAt(f, w)
  BY <1>1, <1>2 DEF RunAt
<1> QED BY <1>1, <1>3, <1>4, <1>5, StaysHere

LEMMA FiberStepOwner ==
  ASSUME PoolInv, PoolInv', OwnerInv, NEW w \in Cached, FiberStep(w), UNCHANGED startVars
  PROVE  OwnerInv'
<1>1. OthersKeep(w) /\ Fibers' = Fibers /\ stackBase' = stackBase
  BY StepKeeps DEF OthersKeep
<1>2. ASSUME NEW f \in Fibers PROVE OneOwner(f)'
  <2>1. OneOwner(f)
    BY DEF OwnerInv
  <2>2. CASE PopCached(w)
    BY <1>1, <2>1, <2>2, PopOwner
  <2>3. CASE StealOne(w)
    BY <1>1, <2>1, <2>3, StealOwner
  <2>4. CASE StealEnds(w)
    BY <1>1, <2>1, <2>4, EndsOwner
  <2>5. CASE AcquireRetry(w)
    BY <1>1, <2>1, <2>5, RetryOwner
  <2>6. CASE ParkFiber(w)
    BY <1>1, <2>1, <2>6, ParkOwner
  <2>7. CASE \E g \in parked : ResumeFiber(w, g)
    BY <1>1, <2>1, <2>7, ResumeOwner
  <2>8. CASE ReleaseFiber(w)
    BY <1>1, <2>1, <2>8, ReleaseOwner
  <2>9. CASE ReturnOne(w)
    BY <1>1, <2>1, <2>9, ReturnOwner
  <2>10. CASE SpillDone(w)
    BY <1>1, <2>1, <2>10, SpillOwner
  <2> QED BY <2>2, <2>3, <2>4, <2>5, <2>6, <2>7, <2>8, <2>9, <2>10 DEF FiberStep
<1> QED BY <1>1, <1>2 DEF OwnerInv

\* Steps that move no fiber.
LEMMA OwnerFrame ==
  ASSUME OwnerInv, UNCHANGED <<stackBase, available, localFibers, activeCapacity, stolen, returned,
                               fiberOf, parked>>
  PROVE  OwnerInv'
<1>1. Fibers' = Fibers /\ Cached' = Cached
  BY DEF Fibers, Cached
<1>2. ASSUME NEW f \in Fibers PROVE OneOwner(f)'
  <2>1. \A w, j : CacheAt(f, w, j)' <=> CacheAt(f, w, j)
    BY <1>1, CacheStays DEF CacheAt
  <2>2. \A w, j : StolenAt(f, w, j)' <=> StolenAt(f, w, j)
    BY <1>1 DEF StolenAt
  <2>3. \A w : RunAt(f, w)' <=> RunAt(f, w)
    BY <1>1 DEF RunAt
  <2> QED BY <2>1, <2>2, <2>3, FiberStays DEF OwnerInv
<1> QED BY <1>1, <1>2 DEF OwnerInv

\* A worker that enters its loop brings an empty cache.
LEMMA EnterOwner ==
  ASSUME PoolInv, OwnerInv, NEW w \in DOMAIN wpc, EnterLoop(w)
  PROVE  OwnerInv'
<1>1. /\ wpc[w] = "numbered"
      /\ \E c : activeCapacity' = Extend(activeCapacity, w, c)
      /\ localFibers' = Extend(localFibers, w, << >>) /\ stolen' = Extend(stolen, w, << >>)
      /\ returned' = Extend(returned, w, 0) /\ fiberOf' = Extend(fiberOf, w, NoFiber)
      /\ stackBase' = stackBase /\ available' = available /\ parked' = parked
  BY DEF EnterLoop
<1>2. Fibers' = Fibers /\ Cached' = Cached \cup {w} /\ w \notin Cached
  BY <1>1 DEF Fibers, Cached, Extend, PoolInv
<1>3. localFibers'[w] = << >> /\ stolen'[w] = << >> /\ fiberOf'[w] = NoFiber
  BY <1>1 DEF Extend
<1>4. \A v \in Cached : /\ localFibers'[v] = localFibers[v] /\ stolen'[v] = stolen[v]
                        /\ activeCapacity'[v] = activeCapacity[v] /\ returned'[v] = returned[v]
                        /\ fiberOf'[v] = fiberOf[v]
  BY <1>1, <1>2 DEF Extend, PoolInv, Cached
<1>5. \A v \in Cached : InCache(v)' = InCache(v)
  BY <1>4, CacheStays
<1>6. InCache(w)' = {}
  BY <1>3 DEF InCache
<1>7. ASSUME NEW f \in Fibers PROVE OneOwner(f)'
  <2>1. \A v, j : CacheAt(f, v, j)' <=> CacheAt(f, v, j)
    BY <1>2, <1>4, <1>5, <1>6 DEF CacheAt
  <2>2. \A v, j : StolenAt(f, v, j)' <=> StolenAt(f, v, j)
    BY <1>2, <1>3, <1>4 DEF StolenAt
  <2>3. \A v : RunAt(f, v)' <=> RunAt(f, v)
    BY <1>2, <1>3, <1>4, PoolAssumption DEF RunAt, PoolInv
  <2> QED BY <1>1, <2>1, <2>2, <2>3, FiberStays DEF OwnerInv
<1> QED BY <1>1, <1>2, <1>7 DEF OwnerInv

\* The new fibers are all in the queue.
LEMMA CreateOwner ==
  ASSUME StartInv, PoolInv, CreatePool
  PROVE  OwnerInv'
<1>1. /\ Cached' = {} /\ parked' = {} /\ \A f \in Fibers' : available'[f] = 1
      /\ \A f, g \in Fibers' : f # g => Disjoint(stackBase'[f], stackBase'[g])
  BY CreateFibers
<1>2. ASSUME NEW f \in Fibers' PROVE OneOwner(f)'
  <2>1. /\ \A v, k : ~CacheAt(f, v, k)'
        /\ \A v, k : ~StolenAt(f, v, k)'
        /\ \A v : ~RunAt(f, v)'
    BY <1>1 DEF CacheAt, StolenAt, RunAt
  <2> DEFINE p == "queue"
  <2>2. /\ p \in {"queue", "parked", "cache", "stolen", "run"} /\ (p = "queue" => 0 = 0 /\ 1 = 1)
        /\ (p = "parked" => 0 = 0 /\ 1 = 0) /\ (p = "run" => 1 = 0)
        /\ available'[f] = (IF p = "queue" THEN 1 ELSE 0)
        /\ (f \in parked' <=> p = "parked")
        /\ (\A v, k : CacheAt(f, v, k)' <=> p = "cache" /\ v = 0 /\ k = 1)
        /\ (\A v, k : StolenAt(f, v, k)' <=> p = "stolen" /\ v = 0 /\ k = 1)
        /\ (\A v : RunAt(f, v)' <=> p = "run" /\ v = 0)
    BY <1>1, <2>1
  <2> HIDE DEF p
  <2> QED BY <2>2, ComesTo
<1> QED BY <1>1, <1>2 DEF OwnerInv

LEMMA OwnerInitInv == ASSUME StartInit PROVE OwnerInv
BY EmptyIs DEF StartInit, OwnerInv, Fibers

LEMMA OwnerStep ==
  ASSUME StartInv, IdInv, PoolInv, OwnerInv, [StartNext]_systemVars
  PROVE  PoolInv' /\ OwnerInv'
<1>1. CASE Prepare \/ SpawnWorker \/ ReleaseWorker \/ MainNumbered
           \/ (\E w \in DOMAIN wpc : NumberWorker(w)) \/ UNCHANGED systemVars
  <2>2. UNCHANGED poolVars
    BY <1>1 DEF Prepare, SpawnWorker, ReleaseWorker, MainNumbered, NumberWorker, systemVars
  <2>1. PoolInv'
    BY <1>1, <2>2, PoolStarts DEF systemVars
  <2> QED BY <2>1, <2>2, OwnerFrame DEF poolVars
<1>2. CASE CreatePool
  BY <1>2, CreateFibers, CreateOwner
<1>3. CASE \E w \in DOMAIN wpc : EnterLoop(w)
  BY <1>3, PoolEnters, EnterOwner
<1>4. CASE \E w \in Cached : NewTask(w)
  <2>1. PoolInv'
    BY <1>4, PoolNewTask
  <2>2. UNCHANGED <<stackBase, available, localFibers, activeCapacity, stolen, returned, fiberOf, parked>>
    BY <1>4 DEF NewTask
  <2> QED BY <2>1, <2>2, OwnerFrame
<1>5. CASE \E w \in Cached : FiberStep(w) /\ UNCHANGED startVars
  BY <1>5, PoolTypesStep, FiberStepOwner
<1> QED BY <1>1, <1>2, <1>3, <1>4, <1>5 DEF StartNext, StartStep

\* The places of a fiber, as the model lists them.
LEMMA OwnersAre ==
  ASSUME NEW f
  PROVE  \A x : x \in Owners(f) <=> \E p, w, j : x = <<p, w, j>> /\ LiesAt(f, p, w, j)
<1> DEFINE Q == {<<"queue", 0, k>> : k \in 1 .. available[f]}
           P == {<<"parked", 0, 0>> : g \in {f} \cap parked}
           C(w) == {<<"cache", w, k>> : k \in {j \in InCache(w) : localFibers[w][j] = f}}
           S(w) == {<<"stolen", w, k>> : k \in {j \in DOMAIN stolen[w] : stolen[w][j] = f}}
           R == {<<"run", w, 0>> : w \in {v \in Cached : fiberOf[v] = f}}
<1>1. ASSUME NEW x
      PROVE  x \in Owners(f) <=> \/ x \in Q
                                 \/ x \in P
                                 \/ x \in R
                                 \/ \E w \in Cached : x \in C(w)
                                 \/ \E w \in Cached : x \in S(w)
  BY DEF Owners
<1>2. \A x : x \in Q <=> \E k \in 1 .. available[f] : x = <<"queue", 0, k>>
  OBVIOUS
<1>3. \A x : x \in P <=> f \in parked /\ x = <<"parked", 0, 0>>
  OBVIOUS
<1>4. \A w, x : x \in C(w) <=> \E k \in InCache(w) : localFibers[w][k] = f /\ x = <<"cache", w, k>>
  OBVIOUS
<1>5. \A w, x : x \in S(w) <=> \E k \in DOMAIN stolen[w] : stolen[w][k] = f /\ x = <<"stolen", w, k>>
  OBVIOUS
<1>6. \A x : x \in R <=> \E w \in Cached : fiberOf[w] = f /\ x = <<"run", w, 0>>
  OBVIOUS
<1> HIDE DEF Q, P, C, S, R
<1>8. ASSUME NEW x, NEW p, NEW w, NEW j, x = <<p, w, j>>, LiesAt(f, p, w, j) PROVE x \in Owners(f)
  BY <1>2, <1>3, <1>4, <1>5, <1>6, <1>1, <1>8 DEF LiesAt, CacheAt, StolenAt, RunAt
<1>9. ASSUME NEW x, x \in Owners(f) PROVE \E p, w, j : x = <<p, w, j>> /\ LiesAt(f, p, w, j)
  <2>1. CASE x \in Q
    BY <1>2, <2>1 DEF LiesAt
  <2>2. CASE x \in P
    BY <1>3, <2>2 DEF LiesAt
  <2>3. CASE \E w \in Cached : x \in C(w)
    BY <1>4, <2>3 DEF LiesAt, CacheAt
  <2>4. CASE \E w \in Cached : x \in S(w)
    BY <1>5, <2>4 DEF LiesAt, StolenAt
  <2>5. CASE x \in R
    BY <1>6, <2>5 DEF LiesAt, RunAt
  <2> QED BY <1>1, <1>9, <2>1, <2>2, <2>3, <2>4, <2>5
<1> QED BY <1>8, <1>9

LEMMA OwnedOnce == ASSUME PoolInv, OwnerInv PROVE FiberOwnedOnce
<1>1. ASSUME NEW f \in Fibers PROVE Cardinality(Owners(f)) = 1
  <2>1. PICK p, w, j : OnlyAt(f, p, w, j)
    BY DEF OwnerInv, OneOwner
  <2>2. Owners(f) = {<<p, w, j>>}
    BY <2>1, OwnersAre DEF OnlyAt
  <2> QED BY <2>2, FS_Singleton
<1> QED BY <1>1 DEF FiberOwnedOnce, OwnerInv, PoolInv, HoldInv

\* FiberOwnedOnce, for any machine, number of fibers per core and size of the
\* caches: through acquire, refill, suspend, resume on another worker, release
\* and spill, a fiber is in one place, its stack is its own, and no cache is
\* overrun.
THEOREM FibersOwned == StartSpec => []FiberOwnedOnce
<1>1. StartInit => StartInv /\ IdInv /\ PoolInv /\ OwnerInv
  BY StartInitInv, PoolInitInv, OwnerInitInv
<1>2. StartInv /\ IdInv /\ PoolInv /\ OwnerInv /\ [StartNext]_systemVars
        => StartInv' /\ IdInv' /\ PoolInv' /\ OwnerInv'
  BY IdsStep, OwnerStep
<1>3. PoolInv /\ OwnerInv => FiberOwnedOnce
  BY OwnedOnce
<1> QED BY <1>1, <1>2, <1>3, PTL DEF StartSpec
-----------------------------------------------------------------------------
(* When there is no fiber to be had.                                       *)

LEMMA RoomIsFinite ==
  ASSUME NEW W, IsFiniteSet(W), \A v \in W : activeCapacity[v] \in Nat
  PROVE  IsFiniteSet(CacheRoom(W))
<1> DEFINE Room(v) == {v} \X (1 .. activeCapacity[v])
           F == [v \in W |-> Room(v)]
           T == {Room(v) : v \in W}
<1>1. ASSUME NEW v \in W PROVE IsFiniteSet(Room(v))
  <2>1. IsFiniteSet({v}) /\ IsFiniteSet(1 .. activeCapacity[v])
    <3>1. 1 \in Int /\ activeCapacity[v] \in Int
      OBVIOUS
    <3> QED BY <3>1, FS_Singleton, FS_Interval
  <2> QED BY <2>1, FS_Product
<1>2. CacheRoom(W) = UNION T
  BY DEF CacheRoom
<1> HIDE DEF Room
<1>3. F \in Surjection(W, T)
  BY DEF Surjection
<1>4. IsFiniteSet(T)
  <2> HIDE DEF F, T
  <2> QED BY <1>3, FS_Surjection
<1>5. \A s \in T : IsFiniteSet(s)
  BY <1>1
<1> HIDE DEF T
<1> QED BY <1>2, <1>4, <1>5, FS_UNION

\* Place j of worker v, in its cache or its refill, holds f.
HeldAt(f, v, j) == CacheAt(f, v, j) \/ StolenAt(f, v, j)

\* A worker has room for what it holds, and one fiber in each place.
LEMMA HeldFits ==
  ASSUME PoolInv, NEW f, NEW v, NEW j, HeldAt(f, v, j)
  PROVE  /\ v \in Cached /\ j \in 1 .. activeCapacity[v]
         /\ \A g : HeldAt(g, v, j) => g = f
<1>1. v \in Cached
  BY DEF HeldAt, CacheAt, StolenAt
<1>2. HoldInv(v)
  BY <1>1 DEF PoolInv
<1>3. InCache(v) \subseteq DOMAIN localFibers[v]
  BY DEF InCache
<1>4. /\ DOMAIN localFibers[v] = 1 .. Len(localFibers[v]) /\ Len(localFibers[v]) \in Nat
      /\ DOMAIN stolen[v] = 1 .. Len(stolen[v]) /\ Len(stolen[v]) \in Nat
  BY <1>2 DEF HoldInv
<1>5. /\ Len(localFibers[v]) <= activeCapacity[v] /\ Len(stolen[v]) <= activeCapacity[v]
      /\ activeCapacity[v] \in Nat
  BY <1>2 DEF HoldInv
<1>6. j \in DOMAIN localFibers[v] \/ j \in DOMAIN stolen[v]
  BY <1>3 DEF HeldAt, CacheAt, StolenAt
<1>7. j \in 1 .. activeCapacity[v]
  BY <1>4, <1>5, <1>6
<1>8. ~(j \in DOMAIN localFibers[v] /\ j \in DOMAIN stolen[v])
  <2>1. stolen[v] # << >> => localFibers[v] = << >>
    BY <1>2 DEF HoldInv
  <2>2. CASE stolen[v] = << >>
    BY <2>2
  <2>3. CASE localFibers[v] = << >>
    BY <2>3
  <2> QED BY <2>1, <2>2, <2>3
<1>9. \A g : HeldAt(g, v, j) => g = f
  BY <1>3, <1>8 DEF HeldAt, CacheAt, StolenAt
<1> QED BY <1>1, <1>7, <1>9

\* With an empty queue, the fibers not in use are held by the workers.
LEMMA OthersHold ==
  ASSUME PoolInv, OwnerInv, InQueue = {}, NEW w \in Cached, localFibers[w] = << >>, stolen[w] = << >>,
         NEW f \in Fibers \ FibersInUse
  PROVE  \E z \in CacheRoom(Cached \ {w}) : HeldAt(f, z[1], z[2])
<1>1. OneOwner(f) /\ available[f] \in Nat /\ ~(available[f] > 0)
  BY DEF OwnerInv, PoolInv, InQueue
<1>2. PICK p, v, j : OnlyAt(f, p, v, j)
  BY <1>1 DEF OneOwner
<1>3. LiesAt(f, p, v, j)
  BY <1>2 DEF OnlyAt
<1>4. f \notin parked /\ ~RunAt(f, v)
  BY PoolAssumption DEF FibersInUse, RunAt, PoolInv
<1>5. ~(j \in 1 .. available[f])
  BY <1>1
<1>6. HeldAt(f, v, j)
  BY <1>3, <1>4, <1>5 DEF LiesAt, HeldAt
<1>7. v \in Cached /\ j \in 1 .. activeCapacity[v]
  BY <1>6, HeldFits
<1>8. v # w
  <2>1. InCache(v) \subseteq DOMAIN localFibers[v]
    BY DEF InCache
  <2> QED BY <1>6, <2>1 DEF HeldAt, CacheAt, StolenAt
<1>9. <<v, j>> \in CacheRoom(Cached \ {w})
  BY <1>7, <1>8 DEF CacheRoom
<1>10. <<v, j>>[1] = v /\ <<v, j>>[2] = j
  OBVIOUS
<1> QED BY <1>6, <1>9, <1>10

LEMMA FailsFull ==
  ASSUME PoolInv, OwnerInv, IsFiniteSet(Cached), InQueue = {}, NEW w \in Cached,
         localFibers[w] = << >>, stolen[w] = << >>
  PROVE  Cardinality(FibersInUse) + Cardinality(CacheRoom(Cached \ {w})) >= Cardinality(Fibers)
<1> DEFINE D == Fibers \ FibersInUse
           T == CacheRoom(Cached \ {w})
           Z(f) == CHOOSE z \in T : HeldAt(f, z[1], z[2])
           F == [f \in D |-> Z(f)]
<1>1. IsFiniteSet(T)
  <2>1. IsFiniteSet(Cached \ {w})
    BY FS_Difference
  <2>2. \A v \in Cached \ {w} : activeCapacity[v] \in Nat
    BY DEF PoolInv, HoldInv
  <2> QED BY <2>1, <2>2, RoomIsFinite
<1>2. \A f \in D : \E z \in T : HeldAt(f, z[1], z[2])
  BY OthersHold
<1> HIDE DEF T
<1>3. \A f \in D : Z(f) \in T /\ HeldAt(f, Z(f)[1], Z(f)[2])
  BY <1>2
<1> HIDE DEF Z, D
<1>4. F \in [D -> T] /\ \A f, g \in D : F[f] = F[g] => f = g
  <2>1. ASSUME NEW f \in D, NEW g \in D, Z(f) = Z(g) PROVE f = g
    <3>1. HeldAt(f, Z(f)[1], Z(f)[2]) /\ HeldAt(g, Z(f)[1], Z(f)[2])
      BY <1>3, <2>1
    <3> QED BY <3>1, HeldFits
  <2> QED BY <1>3, <2>1
<1>5. F \in Injection(D, T)
  BY <1>4, Fun_IsInj
<1>6. Cardinality(D) <= Cardinality(T)
  <2> HIDE DEF F
  <2> QED BY <1>1, <1>5, FS_Injection
<1>7. FibersInUse \subseteq Fibers
  <2>1. ASSUME NEW v \in Cached, fiberOf[v] # NoFiber PROVE fiberOf[v] \in Fibers
    BY <2>1 DEF PoolInv, HoldInv
  <2> QED BY <2>1 DEF FibersInUse, PoolInv
<1>8. /\ Cardinality(D) = Cardinality(Fibers) - Cardinality(FibersInUse)
      /\ IsFiniteSet(FibersInUse) /\ IsFiniteSet(Fibers)
  <2>1. IsFiniteSet(Fibers)
    BY DEF PoolInv
  <2>2. Fibers \cap FibersInUse = FibersInUse
    BY <1>7
  <2>3. Cardinality(D) = Cardinality(Fibers) - Cardinality(Fibers \cap FibersInUse)
    BY <2>1, FS_Difference DEF D
  <2>4. IsFiniteSet(FibersInUse)
    BY <1>7, <2>1, FS_Subset
  <2> QED BY <2>1, <2>2, <2>3, <2>4
<1>9. /\ Cardinality(FibersInUse) \in Nat /\ Cardinality(Fibers) \in Nat /\ Cardinality(T) \in Nat
  BY <1>1, <1>8, FS_CardinalityType
<1> QED BY <1>6, <1>8, <1>9 DEF T

Gave(w) ==
  fat[w] # "failed" /\ fat'[w] = "failed" =>
    Cardinality(FibersInUse) + Cardinality(CacheRoom(Cached \ {w})) >= Cardinality(Fibers)

\* Only an empty queue makes a worker give up.
LEMMA GivesUpStep ==
  ASSUME StartInv, PoolInv, OwnerInv, [StartNext]_systemVars, NEW w \in Cached,
         fat[w] # "failed", fat'[w] = "failed"
  PROVE  InQueue = {} /\ localFibers[w] = << >> /\ stolen[w] = << >>
<1>1. HoldInv(w) /\ w \in DOMAIN fat /\ DOMAIN fat = Cached
  BY DEF PoolInv
<1>2. fat' # fat
  OBVIOUS
<1>3. \A v \in DOMAIN wpc : ~EnterLoop(v)
  <2>1. ASSUME NEW v \in DOMAIN wpc, EnterLoop(v) PROVE FALSE
    <3>1. fat' = Extend(fat, v, "idle") /\ wpc[v] = "numbered"
      BY <2>1 DEF EnterLoop
    <3>2. v # w
      BY <3>1 DEF PoolInv
    <3> QED BY <1>1, <3>1, <3>2 DEF Extend
  <2> QED BY <2>1
<1>4. \A v \in Cached : ~NewTask(v)
  BY <1>1 DEF NewTask, Goto
<1>5. PICK v \in Cached : FiberStep(v) /\ UNCHANGED startVars
  BY <1>2, <1>3, <1>4
     DEF StartNext, StartStep, systemVars, Prepare, CreatePool, SpawnWorker, ReleaseWorker,
         MainNumbered, NumberWorker, poolVars
<1>6. v = w
  <2>1. OthersKeep(v)
    BY <1>5, StepKeeps
  <2> QED BY <2>1 DEF OthersKeep
<1>7. StealEnds(w)
  BY <1>1, <1>5, <1>6 DEF FiberStep, PopCached, StealOne, AcquireRetry, ParkFiber, ResumeFiber,
                          ReleaseFiber, ReturnOne, SpillDone, Goto
<1>8. localFibers[w] = << >> /\ stolen[w] = << >>
  BY <1>1, <1>7 DEF StealEnds, Goto
<1>9. Len(stolen[w]) # activeCapacity[w]
  <2>1. Len(<< >>) = 0
    OBVIOUS
  <2> QED BY <1>1, <1>8, <2>1 DEF HoldInv
<1> QED BY <1>7, <1>8, <1>9 DEF StealEnds

\* AcquireFailsWhenBusy, for any machine and any sizes: AcquireFiber returns null
\* only when what the others' tasks hold and what the others' caches could hold
\* are all the fibers there are.  It rests on FibersOwned: a fiber that is in no
\* task and not in the queue is in a place of its own in another worker's cache.
THEOREM AcquireGivesUp == StartSpec => AcquireFailsWhenBusy
<1> DEFINE Allowed == \A w \in Cached : Gave(w)
<1>1. StartInit => StartInv /\ IdInv /\ PoolInv /\ OwnerInv
  BY StartInitInv, PoolInitInv, OwnerInitInv
<1>2. StartInv /\ IdInv /\ PoolInv /\ OwnerInv /\ [StartNext]_systemVars
        => StartInv' /\ IdInv' /\ PoolInv' /\ OwnerInv'
  BY IdsStep, OwnerStep
<1>3. StartInv /\ PoolInv /\ OwnerInv /\ [StartNext]_systemVars => [Allowed]_poolVars
  <2> SUFFICES ASSUME StartInv, PoolInv, OwnerInv, [StartNext]_systemVars, NEW w \in Cached,
                      fat[w] # "failed", fat'[w] = "failed"
               PROVE  Cardinality(FibersInUse) + Cardinality(CacheRoom(Cached \ {w}))
                        >= Cardinality(Fibers)
    BY DEF Gave
  <2>1. IsFiniteSet(Cached)
    <3>1. Cached \subseteq DOMAIN wpc /\ IsFiniteSet(DOMAIN wpc)
      BY DEF PoolInv, StartInv
    <3> QED BY <3>1, FS_Subset
  <2>2. InQueue = {} /\ localFibers[w] = << >> /\ stolen[w] = << >>
    BY GivesUpStep
  <2> QED BY <2>1, <2>2, FailsFull
<1>4. StartSpec => [][Allowed]_poolVars
  <2> HIDE DEF Allowed
  <2> QED BY <1>1, <1>2, <1>3, PTL DEF StartSpec
<1> QED BY <1>4 DEF AcquireFailsWhenBusy, Gave
=============================================================================
