---------------------------- MODULE TaskDAGProofs ----------------------------
(***************************************************************************)
(* TaskDAG for every graph, number of threads and schedule: Submit's       *)
(* verdict is right, nodes fire in order, each of them runs, is retired    *)
(* and is freed once, and nothing that was freed is used (unless an OR     *)
(* gate with several predecessors meets the reclaimer).                    *)
(*                                                                         *)
(* DagInv says where a node is on its way from the graph to the queue, to  *)
(* a call of OnTaskFinished, to the lists of retired nodes and to the      *)
(* allocator, and that dependencies_left is at least the number of         *)
(* predecessors that have not finished or have not visited the node yet.   *)
(***************************************************************************)
EXTENDS TaskDAG, FiniteSetTheorems, SequenceTheorems, WellFoundedInduction, TLAPS

(***************************************************************************)
(* Recursive functions: the least-number principle takes a set where the   *)
(* library's induction takes an operator.                                  *)
(***************************************************************************)

\* A set of natural numbers that is not empty has a least element.
LEMMA LeastNumber ==
  ASSUME NEW T, T \subseteq Nat, T # {}
  PROVE  \E x \in T : \A y \in T : x <= y
<1> DEFINE R == {ss \in Nat \X Nat : ss[1] < ss[2]}
<1>1. IsWellFoundedOn(R, Nat)
  BY NatLessThanWellFounded DEF OpToRel
<1>2. PICK x \in T : \A y \in T : <<y, x>> \notin R
  <2> HIDE DEF R
  <2> QED  BY <1>1, WFMin
<1>3. ASSUME NEW y \in T  PROVE x <= y
  <2>1. <<y, x>> \in Nat \X Nat /\ <<y, x>>[1] = y /\ <<y, x>>[2] = x
    OBVIOUS
  <2>2. ~(y < x)
    BY <1>2, <2>1
  <2> QED  BY <2>2
<1> QED  BY <1>3

\* A recursion over the natural numbers defines a function: g[k] is step k of
\* the recursion applied to g[k - 1].
LEMMA RecursionDefines ==
  ASSUME NEW C, NEW c0 \in C, NEW s \in [Nat -> [C -> C]]
  PROVE  \E g \in [Nat -> C] : \A k \in Nat : g[k] = IF k = 0 THEN c0 ELSE s[k][g[k - 1]]
<1> DEFINE P(n) == {f \in [0 .. n -> C] : f[0] = c0 /\ \A k \in 1 .. n : f[k] = s[k][f[k - 1]]}
<1>1. \A n \in Nat : P(n) # {}
  <2> SUFFICES ASSUME {n \in Nat : P(n) = {}} # {}  PROVE FALSE
    OBVIOUS
  <2>1. PICK x \in {n \in Nat : P(n) = {}} : \A y \in {n \in Nat : P(n) = {}} : x <= y
    <3> HIDE DEF P
    <3> QED  BY LeastNumber
  <2>2. x # 0
    <3>1. [k \in 0 .. 0 |-> c0] \in P(0)
      OBVIOUS
    <3> QED  BY <2>1, <3>1
  <2>3. PICK f : f \in P(x - 1)
    <3> HIDE DEF P
    <3>1. x - 1 \in Nat /\ ~(x <= x - 1)
      BY <2>1, <2>2
    <3>2. P(x - 1) # {}
      BY <2>1, <3>1
    <3> QED  BY <3>2
  <2> DEFINE h == [k \in 0 .. x |-> IF k = x THEN s[x][f[x - 1]] ELSE f[k]]
  <2>4. h \in P(x)
    <3>0. x \in Nat /\ x >= 1
      BY <2>1, <2>2
    <3>1. f \in [0 .. x - 1 -> C] /\ f[0] = c0 /\ \A k \in 1 .. x - 1 : f[k] = s[k][f[k - 1]]
      BY <2>3
    <3>2. s[x][f[x - 1]] \in C
      BY <3>0, <3>1
    <3>3. h \in [0 .. x -> C]
      BY <3>0, <3>1, <3>2
    <3>4. h[0] = c0
      BY <3>0, <3>1
    <3>5. ASSUME NEW k \in 1 .. x  PROVE h[k] = s[k][h[k - 1]]
      <4>1. k - 1 \in 0 .. x /\ k - 1 # x /\ h[k - 1] = f[k - 1]
        BY <3>0, <3>1
      <4>2. CASE k = x
        BY <3>0, <4>1, <4>2
      <4>3. CASE k # x
        BY <3>0, <3>1, <4>1, <4>3
      <4> QED  BY <4>2, <4>3
    <3> QED  BY <3>3, <3>4, <3>5
  <2> QED  BY <2>1, <2>4
<1>2. ASSUME NEW n \in Nat, NEW m \in Nat, NEW f \in P(n), NEW g \in P(m),
             NEW k \in Nat, k <= n, k <= m
      PROVE  f[k] = g[k]
  <2> DEFINE T == {j \in 0 .. k : f[j] # g[j]}
  <2> SUFFICES ASSUME T # {}  PROVE FALSE
    <3> HIDE DEF P
    <3>1. k \in 0 .. k
      OBVIOUS
    <3> QED  BY <3>1
  <2>1. PICK x \in T : \A y \in T : x <= y
    <3>1. T \subseteq Nat
      <4> HIDE DEF P
      <4> QED  OBVIOUS
    <3> HIDE DEF T, P
    <3> QED  BY <3>1, LeastNumber
  <2>2. x # 0
    BY <2>1, <1>2
  <2>3. f[x - 1] = g[x - 1]
    BY <2>1, <2>2
  <2>4. f[x] = s[x][f[x - 1]] /\ g[x] = s[x][g[x - 1]]
    BY <2>1, <2>2, <1>2
  <2> QED  BY <2>1, <2>3, <2>4
<1> DEFINE c(n) == CHOOSE f : f \in P(n)
<1>3. \A n \in Nat : c(n) \in P(n)
  <2> HIDE DEF P
  <2> QED  BY <1>1
<1> DEFINE g == [k \in Nat |-> c(k)[k]]
<1>4. g \in [Nat -> C]
  <2> HIDE DEF c
  <2>1. \A k \in Nat : c(k)[k] \in C
    BY <1>3
  <2> QED  BY <2>1
<1>5. ASSUME NEW k \in Nat  PROVE g[k] = IF k = 0 THEN c0 ELSE s[k][g[k - 1]]
  <2> HIDE DEF c
  <2>1. CASE k = 0
    <3>1. c(0)[0] = c0
      BY <1>3
    <3> QED  BY <3>1, <2>1
  <2>2. CASE k # 0
    <3>1. c(k)[k - 1] = c(k - 1)[k - 1]
      <4>1. k - 1 \in Nat /\ k - 1 <= k
        BY <2>2
      <4> HIDE DEF P
      <4> QED  BY <1>2, <1>3, <4>1
    <3>2. c(k)[k] = s[k][c(k)[k - 1]]
      BY <1>3, <2>2
    <3> QED  BY <2>2, <3>1, <3>2
  <2> QED  BY <2>1, <2>2
<1> HIDE DEF g
<1> QED  BY <1>4, <1>5

\* Drained is what its definition says.
LEMMA DrainedRounds ==
  /\ Drained[0] = {}
  /\ \A k \in Nat : Drained[k + 1] =
       {n \in created : dependencies_left[n] = Cardinality(Preds(n) \cap Drained[k])}
<1> DEFINE R(S) == {n \in created : dependencies_left[n] = Cardinality(Preds(n) \cap S)}
           s == [k \in Nat |-> [S \in SUBSET created |-> R(S)]]
<1>1. PICK g \in [Nat -> SUBSET created] :
        \A k \in Nat : g[k] = IF k = 0 THEN {} ELSE s[k][g[k - 1]]
  <2> DEFINE C == SUBSET created
             e == {}
  <2>1. s \in [Nat -> [C -> C]]
    OBVIOUS
  <2>2. e \in C
    OBVIOUS
  <2>3. \E g \in [Nat -> C] : \A k \in Nat : g[k] = IF k = 0 THEN e ELSE s[k][g[k - 1]]
    <3> HIDE DEF s, C, e
    <3> QED  BY <2>1, <2>2, RecursionDefines
  <2> HIDE DEF s
  <2> QED  BY <2>3
<1>2. ASSUME NEW k \in Nat, k # 0  PROVE s[k][g[k - 1]] = R(g[k - 1])
  <2>1. g[k - 1] \in SUBSET created
    BY <1>2
  <2> QED  BY <2>1
<1>3. \A k \in Nat : g[k] = IF k = 0 THEN {} ELSE R(g[k - 1])
  <2> HIDE DEF s, R
  <2> QED  BY <1>1, <1>2
<1>4. g = [k \in Nat |-> IF k = 0 THEN {} ELSE R(g[k - 1])]
  <2> HIDE DEF s, R
  <2> QED  BY <1>3
<1>5. Drained = [k \in Nat |-> IF k = 0 THEN {} ELSE R(Drained[k - 1])]
  <2> HIDE DEF s
  <2> QED  BY <1>4 DEF Drained
<1>6. Drained[0] = {}
  <2> HIDE DEF s, R
  <2> QED  BY <1>5
<1>7. ASSUME NEW k \in Nat  PROVE Drained[k + 1] = R(Drained[k])
  <2> HIDE DEF s, R
  <2>1. k + 1 \in Nat /\ k + 1 # 0 /\ (k + 1) - 1 = k
    OBVIOUS
  <2> QED  BY <1>5, <2>1
<1> QED  BY <1>6, <1>7

\* Kept is what its definition says.
LEMMA KeptRounds ==
  ASSUME NEW E
  PROVE  pending \in Seq(E) =>
         /\ Kept[0] = << >>
         /\ \A i \in 0 .. Len(pending) : Kept[i] \in Seq(E)
         /\ \A i \in 1 .. Len(pending) :
              Kept[i] = IF Safe(pending[i]) THEN Kept[i - 1] ELSE Append(Kept[i - 1], pending[i])
<1> DEFINE N == Len(pending)
           C == Seq(E)
           R(i, q) == IF Safe(pending[i]) THEN q ELSE Append(q, pending[i])
           s == [i \in Nat |-> [q \in C |-> IF i \in 1 .. N THEN R(i, q) ELSE q]]
<1>a. SUFFICES ASSUME pending \in Seq(E)
               PROVE  /\ Kept[0] = << >>
                      /\ \A i \in 0 .. N : Kept[i] \in C
                      /\ \A i \in 1 .. N : Kept[i] = R(i, Kept[i - 1])
  OBVIOUS
<1>0. N \in Nat /\ \A i \in 1 .. N : pending[i] \in E
  BY <1>a
<1>1. PICK g \in [Nat -> C] : \A i \in Nat : g[i] = IF i = 0 THEN << >> ELSE s[i][g[i - 1]]
  <2>1. s \in [Nat -> [C -> C]]
    <3>1. \A i \in 1 .. N, q \in C : R(i, q) \in C
      BY <1>0
    <3> HIDE DEF R, C, N
    <3> QED  BY <3>1
  <2>2. << >> \in C
    OBVIOUS
  <2> HIDE DEF s, C
  <2> QED  BY <2>1, <2>2, RecursionDefines
<1>2. ASSUME NEW i \in 1 .. N  PROVE g[i] = R(i, g[i - 1])
  <2>1. i \in Nat /\ i # 0 /\ i - 1 \in Nat
    BY <1>0
  <2>2. g[i - 1] \in C
    <3> HIDE DEF C
    <3> QED  BY <2>1
  <2>3. s[i][g[i - 1]] = R(i, g[i - 1])
    <3> HIDE DEF C, R, N
    <3> QED  BY <2>1, <2>2
  <2> HIDE DEF s, R, C, N
  <2> QED  BY <1>1, <2>1, <2>3
<1> DEFINE h == [i \in 0 .. N |-> g[i]]
<1>3. h = [i \in 0 .. N |-> IF i = 0 THEN << >> ELSE R(i, h[i - 1])]
  <2>1. ASSUME NEW i \in 0 .. N  PROVE g[i] = IF i = 0 THEN << >> ELSE R(i, h[i - 1])
    <3>1. CASE i = 0
      <4> HIDE DEF s, R
      <4> QED  BY <1>1, <3>1
    <3>2. CASE i # 0
      <4>1. i \in 1 .. N /\ i - 1 \in 0 .. N
        BY <1>0, <3>2
      <4>2. h[i - 1] = g[i - 1]
        <5> HIDE DEF N
        <5> QED BY <4>1
      <4> HIDE DEF R, N, h
      <4> QED  BY <1>2, <3>2, <4>1, <4>2
    <3> QED  BY <3>1, <3>2
  <2> HIDE DEF R, N
  <2> QED  BY <2>1
<1>4. Kept = [i \in 0 .. N |-> IF i = 0 THEN << >> ELSE R(i, Kept[i - 1])]
  <2> HIDE DEF h
  <2> QED  BY <1>3 DEF Kept
<1>5. Kept[0] = << >>
  <2> HIDE DEF R
  <2> QED  BY <1>0, <1>4
<1>6. ASSUME NEW i \in 1 .. N  PROVE Kept[i] = R(i, Kept[i - 1])
  <2>1. i \in 0 .. N /\ i # 0
    BY <1>0
  <2> HIDE DEF R, N
  <2> QED  BY <1>4, <2>1
<1>7. \A i \in 0 .. N : Kept[i] \in C
  <2> DEFINE T == {i \in 0 .. N : Kept[i] \notin C}
  <2> SUFFICES ASSUME T # {}  PROVE FALSE
    OBVIOUS
  <2>1. PICK x \in T : \A y \in T : x <= y
    <3>1. T \subseteq Nat
      BY <1>0
    <3> HIDE DEF T
    <3> QED  BY <3>1, LeastNumber
  <2>2. x # 0
    <3>1. Kept[0] \in C
      BY <1>5
    <3> QED  BY <3>1
  <2>3. x \in 1 .. N /\ Kept[x - 1] \in C
    <3>1. x - 1 \in 0 .. N /\ ~(x <= x - 1)
      BY <1>0, <2>2
    <3>2. x - 1 \notin T
      <4> HIDE DEF T
      <4> QED  BY <2>1, <3>1
    <3>3. x \in 1 .. N
      BY <1>0, <2>2
    <3> HIDE DEF C, N
    <3> QED  BY <3>1, <3>2, <3>3
  <2>4. R(x, Kept[x - 1]) \in C
    BY <1>0, <2>3
  <2> HIDE DEF R
  <2> QED  BY <1>6, <2>3, <2>4
<1> QED  BY <1>5, <1>6, <1>7

\* The survivors are pointers that were pending, each of them as often.
LEMMA KeptSurvivors ==
  ASSUME NEW E, pending \in Seq(E),
         \A i, j \in 1 .. Len(pending) : pending[i].ptr = pending[j].ptr => i = j
  PROVE  LET q == Kept[Len(pending)] IN
         /\ q \in Seq(E)
         /\ \A a \in 1 .. Len(q) :
              \E j \in 1 .. Len(pending) : q[a] = pending[j] /\ ~Safe(pending[j])
         /\ \A a, b \in 1 .. Len(q) : q[a].ptr = q[b].ptr => a = b
<1> DEFINE N == Len(pending)
           Good(i) ==
             /\ \A a \in 1 .. Len(Kept[i]) :
                  \E j \in 1 .. i : Kept[i][a] = pending[j] /\ ~Safe(pending[j])
             /\ \A a, b \in 1 .. Len(Kept[i]) : Kept[i][a].ptr = Kept[i][b].ptr => a = b
           T == {i \in 0 .. N : ~Good(i)}
<1>0. N \in Nat
  OBVIOUS
<1>1. T = {}
  <2> SUFFICES ASSUME T # {}  PROVE FALSE
    OBVIOUS
  <2>1. PICK x \in T : \A y \in T : x <= y
    <3>1. T \subseteq Nat
      BY <1>0
    <3> HIDE DEF T
    <3> QED  BY <3>1, LeastNumber
  <2>2. x # 0
    <3>1. Kept[0] = << >>
      BY KeptRounds
    <3> QED  BY <3>1
  <2>3. x \in 1 .. N /\ x - 1 \in 0 .. N /\ ~(x <= x - 1)
    BY <1>0, <2>2
  <2>4. Good(x - 1)
    <3> HIDE DEF Good
    <3> QED  BY <2>1, <2>3
  <2> DEFINE q == Kept[x - 1]
  <2>5. /\ q \in Seq(E)
        /\ Kept[x] = IF Safe(pending[x]) THEN q ELSE Append(q, pending[x])
    BY KeptRounds, <2>3
  <2>6. CASE Safe(pending[x])
    <3>1. Kept[x] = q
      BY <2>5, <2>6
    <3>2. Good(x)
      BY <1>0, <2>3, <2>4, <3>1
    <3> QED  BY <2>1, <3>2
  <2>7. CASE ~Safe(pending[x])
    <3>1. Kept[x] = Append(q, pending[x])
      BY <2>5, <2>7
    <3> HIDE DEF q
    <3>2. /\ Len(Kept[x]) = Len(q) + 1 /\ Len(q) \in Nat
          /\ \A a \in 1 .. Len(q) : Kept[x][a] = q[a]
          /\ Kept[x][Len(q) + 1] = pending[x]
      BY <2>5, <3>1, AppendProperties, LenProperties
    <3>3. ASSUME NEW a \in 1 .. Len(Kept[x])
          PROVE  \E j \in 1 .. x : Kept[x][a] = pending[j] /\ ~Safe(pending[j])
      <4>1. CASE a = Len(q) + 1
        BY <1>0, <2>3, <2>7, <3>2, <4>1
      <4>2. CASE a # Len(q) + 1
        <5>1. a \in 1 .. Len(q)
          BY <3>2, <4>2
        <5>2. PICK j \in 1 .. x - 1 : Kept[x - 1][a] = pending[j] /\ ~Safe(pending[j])
          BY <2>4, <5>1 DEF q
        <5>3. j \in 1 .. x /\ Kept[x][a] = pending[j]
          BY <1>0, <2>3, <3>2, <5>1, <5>2 DEF q
        <5> QED  BY <5>2, <5>3
      <4> QED  BY <4>1, <4>2
    <3>4. \A a \in 1 .. Len(q) : Kept[x][a].ptr # pending[x].ptr
      <4> SUFFICES ASSUME NEW a \in 1 .. Len(q)  PROVE Kept[x][a].ptr # pending[x].ptr
        OBVIOUS
      <4>1. PICK j \in 1 .. x - 1 : Kept[x][a] = pending[j]
        BY <2>4, <3>2 DEF q
      <4>2. j \in 1 .. N /\ j # x
        BY <1>0, <2>3
      <4> QED  BY <2>3, <4>1, <4>2
    <3>5. \A a, b \in 1 .. Len(q) : Kept[x][a].ptr = Kept[x][b].ptr => a = b
      BY <2>4, <3>2 DEF q
    <3>6. \A a, b \in 1 .. Len(Kept[x]) : Kept[x][a].ptr = Kept[x][b].ptr => a = b
      <4> SUFFICES ASSUME NEW a \in 1 .. Len(Kept[x]), NEW b \in 1 .. Len(Kept[x]),
                          Kept[x][a].ptr = Kept[x][b].ptr
                   PROVE  a = b
        OBVIOUS
      <4>1. (a \in 1 .. Len(q) \/ a = Len(q) + 1) /\ (b \in 1 .. Len(q) \/ b = Len(q) + 1)
        BY <3>2
      <4> QED  BY <3>2, <3>4, <3>5, <4>1
    <3> QED  BY <2>1, <3>3, <3>6
  <2> QED  BY <2>6, <2>7
<1>2. Good(N)
  <2> HIDE DEF Good
  <2> QED  BY <1>0, <1>1
<1>3. Kept[N] \in Seq(E)
  BY <1>0, KeptRounds
<1> QED  BY <1>2, <1>3
-----------------------------------------------------------------------------
(***************************************************************************)
(* Submit's check for cycles (Kahn's algorithm).                           *)
(***************************************************************************)

GraphOk ==
  /\ phase \in {"build", "submitted", "rejected"}
  /\ kind \in Seq(Range(Kinds)) /\ created \subseteq Nodes
  /\ edges \subseteq created \X created /\ calls \in Nat
  /\ dependencies_left \in [Nodes -> Int]
  /\ \A n \in Nodes \ created : dependencies_left[n] = 0

Sortable ==
  \E rank \in [created -> 1 .. Cardinality(created)] : \A e \in edges : rank[e[1]] < rank[e[2]]

\* Before Submit: every edge is counted, and one that was added again twice.
Exact ==
  calls = Cardinality(edges) /\ \A n \in created : dependencies_left[n] = Cardinality(Preds(n))
Over ==
  calls > Cardinality(edges) /\ \E n \in created : dependencies_left[n] > Cardinality(Preds(n))
Counted ==
  phase = "build" =>
    /\ \A n \in Nodes : dependencies_left[n] >= Cardinality(Preds(n))
    /\ Exact \/ Over

\* The nodes, the edges and the predecessors of a node are finite sets.
LEMMA Finite ==
  ASSUME GraphOk
  PROVE  /\ created = 1 .. Len(kind) /\ IsFiniteSet(created) /\ Cardinality(created) \in Nat
         /\ IsFiniteSet(edges) /\ Cardinality(edges) \in Nat
         /\ \A n : Preds(n) \subseteq created /\ IsFiniteSet(Preds(n))
         /\ \A n : Cardinality(Preds(n)) \in Nat
         /\ \A n \in created : n \in Nodes /\ dependencies_left[n] \in Int
         /\ \A n \in created : n # None
<1>1. created = 1 .. Len(kind) /\ Len(kind) \in Nat
  BY DEF GraphOk, created
<1>2. IsFiniteSet(created) /\ Cardinality(created) \in Nat
  BY <1>1, FS_Interval, FS_CardinalityType
<1>3. IsFiniteSet(created \X created)
  BY <1>2, FS_Product
<1>4. IsFiniteSet(edges) /\ Cardinality(edges) \in Nat
  BY <1>3, FS_Subset, FS_CardinalityType DEF GraphOk
<1>5. \A n : Preds(n) \subseteq created
  BY DEF GraphOk, Preds
<1>6. \A n : IsFiniteSet(Preds(n)) /\ Cardinality(Preds(n)) \in Nat
  BY <1>2, <1>5, FS_Subset, FS_CardinalityType
<1>7. \A n \in created : n \in Nodes /\ dependencies_left[n] \in Int /\ n # None
  BY DagAssumption DEF GraphOk
<1> QED  BY <1>1, <1>2, <1>4, <1>5, <1>6, <1>7

\* A node that round k + 1 processes has all its predecessors processed.
LEMMA DrainedPreds ==
  ASSUME GraphOk, \A n \in created : dependencies_left[n] >= Cardinality(Preds(n)),
         NEW k \in Nat, NEW n \in Drained[k + 1]
  PROVE  /\ n \in created /\ Preds(n) \subseteq Drained[k]
         /\ dependencies_left[n] = Cardinality(Preds(n))
<1>1. n \in created /\ dependencies_left[n] = Cardinality(Preds(n) \cap Drained[k])
  BY DrainedRounds
<1> DEFINE S == Preds(n)
           T == Preds(n) \cap Drained[k]
<1>2. IsFiniteSet(S) /\ Cardinality(S) \in Nat /\ T \in SUBSET S
  BY Finite
<1>3. dependencies_left[n] >= Cardinality(S) /\ dependencies_left[n] = Cardinality(T)
  BY <1>1
<1> HIDE DEF S, T
<1>4. IsFiniteSet(T) /\ Cardinality(T) <= Cardinality(S) /\ (Cardinality(S) = Cardinality(T) => S = T)
  BY <1>2, FS_Subset
<1>5. Cardinality(T) \in Nat
  BY <1>4, FS_CardinalityType
<1>6. S = T /\ dependencies_left[n] = Cardinality(S)
  BY <1>2, <1>3, <1>4, <1>5
<1> QED  BY <1>1, <1>6 DEF S, T

\* A graph without a cycle has a topological order and no edge counted twice.
LEMMA AcyclicSorted ==
  ASSUME GraphOk, \A n \in created : dependencies_left[n] >= Cardinality(Preds(n)), ~HasCycle
  PROVE  Sortable /\ \A n \in created : dependencies_left[n] = Cardinality(Preds(n))
<1> DEFINE N == Cardinality(created)
           Level(n) == {k \in Nat : n \in Drained[k]}
           Least(n, x) == x \in Level(n) /\ \A y \in Level(n) : x <= y
<1>1. N \in Nat /\ Drained[N] = created
  BY Finite DEF HasCycle
<1>2. ASSUME NEW n \in created  PROVE \E x \in 1 .. N : Least(n, x)
  <2>1. N \in Level(n)
    BY <1>1
  <2>2. PICK x \in Level(n) : \A y \in Level(n) : x <= y
    <3>1. Level(n) \subseteq Nat
      OBVIOUS
    <3> HIDE DEF Level
    <3> QED  BY <2>1, <3>1, LeastNumber
  <2>3. x # 0
    BY DrainedRounds
  <2>4. x \in 1 .. N
    BY <1>1, <2>1, <2>2, <2>3
  <2> QED  BY <2>2, <2>4
<1> DEFINE rank == [n \in created |-> CHOOSE x \in 1 .. N : Least(n, x)]
<1>3. \A n \in created : rank[n] \in 1 .. N /\ Least(n, rank[n])
  <2> HIDE DEF Least
  <2> QED  BY <1>2
<1>4. ASSUME NEW n \in created
      PROVE  /\ dependencies_left[n] = Cardinality(Preds(n))
             /\ \A m \in Preds(n) : rank[m] < rank[n]
  <2> DEFINE k == rank[n] - 1
  <2>1. k \in Nat /\ k + 1 = rank[n] /\ rank[n] \in Int
    <3> HIDE DEF rank
    <3> QED  BY <1>1, <1>3
  <2>2. n \in Drained[k + 1]
    <3> HIDE DEF rank
    <3> QED  BY <1>3, <2>1
  <2> HIDE DEF k
  <2>3. Preds(n) \subseteq Drained[k] /\ dependencies_left[n] = Cardinality(Preds(n))
    BY <2>1, <2>2, DrainedPreds
  <2>4. ASSUME NEW m \in Preds(n)  PROVE rank[m] < rank[n]
    <3>1. m \in created /\ k \in Level(m)
      BY Finite, <2>1, <2>3
    <3>2. rank[m] <= k
      <4> HIDE DEF Level, rank
      <4> QED  BY <1>3, <3>1
    <3>3. rank[m] \in Int
      <4> HIDE DEF rank, Least
      <4> QED  BY <1>1, <1>3, <3>1
    <3> HIDE DEF rank
    <3> QED  BY <2>1, <3>2, <3>3
  <2> QED  BY <2>3, <2>4
<1>5. rank \in [created -> 1 .. N]
  <2> HIDE DEF Least
  <2> QED  BY <1>3
<1>6. ASSUME NEW e \in edges  PROVE rank[e[1]] < rank[e[2]]
  <2>1. e[2] \in created /\ e[1] \in Preds(e[2])
    BY DEF GraphOk, Preds
  <2> HIDE DEF rank
  <2> QED  BY <1>4, <2>1
<1> HIDE DEF rank
<1> QED  BY <1>4, <1>5, <1>6 DEF Sortable

\* A graph with a topological order and no edge counted twice has no cycle.
LEMMA SortedAcyclic ==
  ASSUME GraphOk, Sortable, \A n \in created : dependencies_left[n] = Cardinality(Preds(n))
  PROVE  ~HasCycle
<1> DEFINE N == Cardinality(created)
<1>1. PICK rank \in [created -> 1 .. N] : \A e \in edges : rank[e[1]] < rank[e[2]]
  BY DEF Sortable
<1> DEFINE T == {k \in Nat : \E n \in created : rank[n] <= k /\ n \notin Drained[k]}
<1>0. N \in Nat
  BY Finite
<1>2. T = {}
  <2> SUFFICES ASSUME T # {}  PROVE FALSE
    OBVIOUS
  <2>1. PICK x \in T : \A y \in T : x <= y
    <3>1. T \subseteq Nat
      OBVIOUS
    <3> HIDE DEF T
    <3> QED  BY <3>1, LeastNumber
  <2>2. PICK n \in created : rank[n] <= x /\ n \notin Drained[x]
    BY <2>1
  <2>3. x \in Nat /\ x # 0 /\ rank[n] \in 1 .. N
    BY <1>0, <2>2
  <2> DEFINE k == x - 1
  <2>4. k \in Nat /\ k + 1 = x /\ k \notin T
    <3>1. k \in Nat /\ k + 1 = x /\ ~(x <= k)
      BY <2>3
    <3> HIDE DEF T
    <3> QED  BY <2>1, <3>1
  <2>5. ASSUME NEW m \in Preds(n)  PROVE m \in Drained[k]
    <3>1. <<m, n>> \in edges /\ m \in created
      <4>1. PICK e \in edges : e[2] = n /\ m = e[1]
        BY DEF Preds
      <4>2. e = <<e[1], e[2]>>
        BY DEF GraphOk
      <4> QED  BY <4>1, <4>2, Finite
    <3>2. rank[m] < rank[n] /\ rank[m] \in 1 .. N
      <4>1. <<m, n>>[1] = m /\ <<m, n>>[2] = n
        OBVIOUS
      <4> QED  BY <1>1, <3>1, <4>1
    <3>3. rank[m] <= k
      BY <1>0, <2>2, <2>3, <3>2
    <3> QED  BY <2>4, <3>1, <3>3
  <2>6. Preds(n) \cap Drained[k] = Preds(n)
    BY <2>5
  <2> HIDE DEF k
  <2>7. n \in Drained[k + 1]
    BY <2>4, <2>6, DrainedRounds
  <2> QED  BY <2>2, <2>4, <2>7
<1>3. created \subseteq Drained[N]
  BY <1>0, <1>1, <1>2
<1>4. Drained[N] \subseteq created
  <2>1. CASE N = 0
    BY <2>1, DrainedRounds
  <2>2. CASE N # 0
    <3> DEFINE k == N - 1
    <3>1. k \in Nat /\ N = k + 1
      BY <1>0, <2>2
    <3> HIDE DEF k, N
    <3> QED  BY <3>1, DrainedRounds
  <2> QED  BY <2>1, <2>2
<1> QED  BY <1>3, <1>4 DEF HasCycle
-----------------------------------------------------------------------------
(***************************************************************************)
(* The inductive invariant.                                                *)
(***************************************************************************)

Frames == [node : created \cup {None}, todo : SUBSET created]
Points == {"idle", "run", "guard", "enter", "each", "fire", "stamp", "retire"}
Retirals == [ptr : created, epoch : Nat]

StateOk ==
  /\ submitted \subseteq created /\ queue \subseteq created /\ freed \subseteq created
  /\ mainQ \in Seq(created) /\ runs \in [Nodes -> Nat]
  /\ globalEpoch \in Nat /\ incoming \in Seq(Retirals) /\ pending \in Seq(Retirals)
  /\ stack \in [Threads -> Seq(Frames)] /\ pc \in [Threads -> Points]
  /\ dep \in [Threads -> created \cup {None}] /\ epoch \in [Threads -> Nat]

\* Where a thread is tells what is on its stack.
ControlOk ==
  \A t \in Threads :
    /\ pc[t] \in {"run", "fire"} => dep[t] # None
    /\ pc[t] \in {"guard", "enter", "each", "fire", "stamp", "retire"} => Len(stack[t]) > 0
    /\ pc[t] \in {"guard", "enter", "stamp", "retire"} => Top(t).node # None
    /\ pc[t] \in {"stamp", "retire"} => Top(t).todo = {}

\* Nothing runs before Submit, nor after a Submit that rejected the graph.
Quiet ==
  phase # "submitted" =>
    /\ \A t \in Threads : pc[t] = "idle" /\ stack[t] = << >>
    /\ queue = {} /\ mainQ = << >> /\ submitted = {} /\ incoming = << >> /\ pending = << >>
    /\ \A n \in Nodes : runs[n] = 0
    /\ phase = "build" => freed = {}

\* A node that waits for its run is submitted, has not run and waits once.
Waiting ==
  /\ \A n \in queue : n \in submitted /\ kind[n] = "task" /\ runs[n] = 0
  /\ \A i \in 1 .. Len(mainQ) :
       mainQ[i] \in submitted /\ kind[mainQ[i]] = "main" /\ runs[mainQ[i]] = 0
  /\ \A i, j \in 1 .. Len(mainQ) : mainQ[i] = mainQ[j] => i = j
  /\ \A t \in Threads : pc[t] = "run" =>
       /\ dep[t] \in submitted /\ ~IsGate(dep[t]) /\ runs[dep[t]] = 0
       /\ dep[t] \notin queue /\ \A i \in 1 .. Len(mainQ) : mainQ[i] # dep[t]
       /\ \A u \in Threads : pc[u] = "run" /\ dep[u] = dep[t] => u = t

Retired(n) ==
  \/ \E i \in 1 .. Len(incoming) : incoming[i].ptr = n
  \/ \E i \in 1 .. Len(pending) : pending[i].ptr = n

\* A finished node is in one call of OnTaskFinished, then retired, then freed.
DoneOnce ==
  \A n \in created : runs[n] <= 1 /\ (Finished(n) => n \in submitted)
CallsOnce ==
  \A t \in Threads : \A i \in 1 .. Len(stack[t]) :
    /\ stack[t][i].node # None =>
         Finished(stack[t][i].node) /\ stack[t][i].todo \subseteq Dependents(stack[t][i].node)
    /\ stack[t][i].node \notin freed /\ ~Retired(stack[t][i].node)
    /\ \A u \in Threads : \A j \in 1 .. Len(stack[u]) :
         stack[u][j].node = stack[t][i].node => u = t /\ j = i
RetiredOnce ==
  /\ \A n : Retired(n) => Finished(n) /\ n \notin freed
  /\ \A i, j \in 1 .. Len(incoming) : incoming[i].ptr = incoming[j].ptr => i = j
  /\ \A i, j \in 1 .. Len(pending) : pending[i].ptr = pending[j].ptr => i = j
  /\ \A i \in 1 .. Len(incoming), j \in 1 .. Len(pending) : incoming[i].ptr # pending[j].ptr
  /\ phase = "submitted" => \A n \in freed : Finished(n)

\* A call for p has still to visit n; the predecessors n waits for.
Owes(p, n) ==
  \E t \in Threads : \E i \in 1 .. Len(stack[t]) : stack[t][i].node = p /\ n \in stack[t][i].todo
Unvisited(n) == {p \in Preds(n) : ~Finished(p) \/ Owes(p, n)}

\* Only an OR with several predecessors can be made ready more than once.
Solo(n) == kind[n] # "OR" \/ \A p, q \in Preds(n) : p = q
Firing(t, n) == pc[t] = "fire" /\ dep[t] = n
Ready(n) == n \in submitted \/ Owes(None, n) \/ \E t \in Threads : Firing(t, n)

LeftOk(n) == kind[n] # "OR" => dependencies_left[n] >= Cardinality(Unvisited(n))
ReadyOk(n) ==
  /\ Solo(n) /\ Ready(n) => Unvisited(n) = {}
  /\ ~Solo(n) /\ Ready(n) => \E p \in Preds(n) : Finished(p)
TokenOk(n) ==
  Solo(n) =>
    /\ Owes(None, n) => n \notin submitted
    /\ \A t \in Threads : Firing(t, n) =>
         n \notin submitted /\ ~Owes(None, n) /\ \A u \in Threads : Firing(u, n) => u = t
Order == phase = "submitted" => \A n \in created : LeftOk(n) /\ ReadyOk(n) /\ TokenOk(n)

Verdict ==
  /\ phase = "submitted" => Sortable /\ calls = Cardinality(edges)
  /\ phase = "rejected" => ~Sortable \/ calls > Cardinality(edges)

DagInv ==
  /\ GraphOk /\ StateOk /\ ControlOk /\ Quiet /\ Waiting
  /\ DoneOnce /\ CallsOnce /\ RetiredOnce /\ Order /\ Counted /\ Verdict
-----------------------------------------------------------------------------
(* What the steps do to the stacks.                                        *)

\* An edge, seen from its two ends.
LEMMA EdgeEnds ==
  ASSUME GraphOk
  PROVE  /\ \A m, n : m \in Preds(n) <=> <<m, n>> \in edges
         /\ \A m, n : n \in Dependents(m) <=> <<m, n>> \in edges
         /\ \A m : Dependents(m) \subseteq created
<1>1. ASSUME NEW e \in edges  PROVE e = <<e[1], e[2]>> /\ e[2] \in created
  BY DEF GraphOk
<1>2. \A m, n : <<m, n>>[1] = m /\ <<m, n>>[2] = n
  OBVIOUS
<1>3. \A m, n : m \in Preds(n) <=> <<m, n>> \in edges
  BY <1>1, <1>2 DEF Preds
<1>4. \A m, n : n \in Dependents(m) <=> <<m, n>> \in edges
  BY <1>1, <1>2 DEF Dependents
<1>5. \A m : Dependents(m) \subseteq created
  BY <1>1 DEF Dependents
<1> QED  BY <1>3, <1>4, <1>5

\* A call puts one frame on top.
LEMMA CallEffect ==
  ASSUME StateOk, NEW t \in Threads, NEW n \in created \cup {None}, NEW S \in SUBSET created,
         Call(t, n, S)
  PROVE  /\ stack' \in [Threads -> Seq(Frames)]
         /\ \A u \in Threads : u # t => stack'[u] = stack[u]
         /\ Len(stack[t]) \in Nat /\ Len(stack'[t]) = Len(stack[t]) + 1
         /\ \A i \in 1 .. Len(stack[t]) : stack'[t][i] = stack[t][i]
         /\ stack'[t][Len(stack[t]) + 1].node = n /\ stack'[t][Len(stack[t]) + 1].todo = S
<1> DEFINE f == [node |-> n, todo |-> S]
<1>1. f \in Frames /\ f.node = n /\ f.todo = S
  BY DEF Frames
<1>2. stack \in [Threads -> Seq(Frames)] /\ stack[t] \in Seq(Frames)
  BY DEF StateOk
<1>3. stack' = [stack EXCEPT ![t] = Append(stack[t], f)]
  BY DEF Call
<1> HIDE DEF f
<1>4. /\ Append(stack[t], f) \in Seq(Frames) /\ Len(stack[t]) \in Nat
      /\ Len(Append(stack[t], f)) = Len(stack[t]) + 1
      /\ \A i \in 1 .. Len(stack[t]) : Append(stack[t], f)[i] = stack[t][i]
      /\ Append(stack[t], f)[Len(stack[t]) + 1] = f
  BY <1>1, <1>2, AppendProperties, LenProperties
<1>5. stack'[t] = Append(stack[t], f) /\ \A u \in Threads : u # t => stack'[u] = stack[u]
  BY <1>2, <1>3
<1>6. stack' \in [Threads -> Seq(Frames)]
  BY <1>2, <1>3, <1>4
<1> QED  BY <1>1, <1>4, <1>5, <1>6

\* A return takes the top frame off.
LEMMA PopEffect ==
  ASSUME StateOk, NEW t \in Threads, Len(stack[t]) > 0, Pop(t)
  PROVE  /\ stack' \in [Threads -> Seq(Frames)]
         /\ \A u \in Threads : u # t => stack'[u] = stack[u]
         /\ Len(stack[t]) \in Nat /\ Len(stack'[t]) = Len(stack[t]) - 1
         /\ \A i \in 1 .. Len(stack[t]) - 1 : stack'[t][i] = stack[t][i]
<1>2. stack \in [Threads -> Seq(Frames)] /\ stack[t] \in Seq(Frames) /\ Len(stack[t]) \in Nat
  BY DEF StateOk
<1> DEFINE q == SubSeq(stack[t], 1, Len(stack[t]) - 1)
<1>3. stack' = [stack EXCEPT ![t] = q]
  BY DEF Pop, Front
<1>4. /\ q \in Seq(Frames) /\ Len(q) = Len(stack[t]) - 1
      /\ \A i \in 1 .. Len(stack[t]) - 1 : q[i] = stack[t][i]
  <2> DEFINE s == stack[t]
             L == Len(stack[t]) - 1
  <2>1. s \in Seq(Frames) /\ 1 \in 1 .. Len(s) + 1 /\ L \in 1 - 1 .. Len(s) /\ L \in Nat
    BY <1>2
  <2>2. q = SubSeq(s, 1, L)
    OBVIOUS
  <2> HIDE DEF s, L, q
  <2>3. q \in Seq(Frames) /\ Len(q) = L
    BY <2>1, <2>2, SubSeqProperties
  <2>4. \A i \in 1 .. L : q[i] = s[i]
    BY <2>1, <2>2, SubSeqProperties
  <2> QED  BY <2>3, <2>4 DEF s, L
<1> HIDE DEF q
<1>5. stack'[t] = q /\ \A u \in Threads : u # t => stack'[u] = stack[u]
  BY <1>2, <1>3
<1>6. stack' \in [Threads -> Seq(Frames)]
  BY <1>2, <1>3, <1>4
<1> QED  BY <1>2, <1>4, <1>5, <1>6

\* A visit takes one node from the list of the top frame.
LEMMA VisitEffect ==
  ASSUME StateOk, NEW t \in Threads, Len(stack[t]) > 0, NEW n,
         stack' = [stack EXCEPT ![t][Len(stack[t])].todo = @ \ {n}]
  PROVE  /\ stack' \in [Threads -> Seq(Frames)]
         /\ \A u \in Threads : Len(stack'[u]) = Len(stack[u])
         /\ \A u \in Threads : \A i \in 1 .. Len(stack[u]) :
              /\ stack'[u][i].node = stack[u][i].node
              /\ ~(u = t /\ i = Len(stack[t])) => stack'[u][i].todo = stack[u][i].todo
         /\ stack'[t][Len(stack[t])].todo = stack[t][Len(stack[t])].todo \ {n}
         /\ Len(stack[t]) \in 1 .. Len(stack[t])
<1> DEFINE L == Len(stack[t])
           f == [stack[t][L] EXCEPT !.todo = stack[t][L].todo \ {n}]
           q == [stack[t] EXCEPT ![L] = f]
<1>2. stack \in [Threads -> Seq(Frames)] /\ stack[t] \in Seq(Frames) /\ L \in Nat /\ L \in 1 .. L
  BY DEF StateOk
<1>3. stack[t][L] \in Frames
  BY <1>2
<1>4. f \in Frames /\ f.node = stack[t][L].node /\ f.todo = stack[t][L].todo \ {n}
  BY <1>3 DEF Frames
<1>5. stack' = [stack EXCEPT ![t] = q]
  OBVIOUS
<1> HIDE DEF f, L
<1>6. q \in Seq(Frames) /\ Len(q) = L /\ \A i \in 1 .. L : q[i] = IF i = L THEN f ELSE stack[t][i]
  <2>1. q \in Seq(Frames) /\ Len(q) = Len(stack[t])
    BY <1>2, <1>4, ExceptSeq DEF L
  <2>2. \A i \in 1 .. Len(stack[t]) : q[i] = IF i = L THEN f ELSE stack[t][i]
    BY <1>2
  <2> QED  BY <2>1, <2>2 DEF L
<1> USE DEF L
<1> HIDE DEF q
<1>7. stack'[t] = q /\ \A u \in Threads : u # t => stack'[u] = stack[u]
  BY <1>2, <1>5
<1>8. stack' \in [Threads -> Seq(Frames)]
  BY <1>2, <1>5, <1>6
<1>9. \A u \in Threads : Len(stack'[u]) = Len(stack[u])
  BY <1>6, <1>7
<1>10. ASSUME NEW u \in Threads, NEW i \in 1 .. Len(stack[u])
       PROVE  /\ stack'[u][i].node = stack[u][i].node
              /\ ~(u = t /\ i = L) => stack'[u][i].todo = stack[u][i].todo
  <2>1. CASE u # t
    BY <1>7, <2>1
  <2>2. CASE u = t /\ i # L
    BY <1>6, <1>7, <2>2
  <2>3. CASE u = t /\ i = L
    BY <1>2, <1>4, <1>6, <1>7, <2>3
  <2> QED  BY <2>1, <2>2, <2>3
<1>11. stack'[t][L].todo = stack[t][L].todo \ {n}
  BY <1>2, <1>4, <1>6, <1>7
<1> QED  BY <1>2, <1>8, <1>9, <1>10, <1>11

\* What is on the stacks and in the lists of retired nodes.
LEMMA Elements ==
  ASSUME StateOk
  PROVE  /\ \A t \in Threads : \A i \in 1 .. Len(stack[t]) :
              stack[t][i].node \in created \cup {None} /\ stack[t][i].todo \subseteq created
         /\ \A i \in 1 .. Len(incoming) : incoming[i].ptr \in created
         /\ \A i \in 1 .. Len(pending) : pending[i].ptr \in created
         /\ \A i \in 1 .. Len(mainQ) : mainQ[i] \in created
         /\ \A t \in Threads : Len(stack[t]) \in Nat
         /\ \A n : Retired(n) => n \in created
<1>1. ASSUME NEW t \in Threads, NEW i \in 1 .. Len(stack[t])
      PROVE  stack[t][i].node \in created \cup {None} /\ stack[t][i].todo \subseteq created
  <2>1. stack[t] \in Seq(Frames)
    BY DEF StateOk
  <2>2. stack[t][i] \in Frames
    BY <2>1
  <2> QED  BY <2>2 DEF Frames
<1>2. \A i \in 1 .. Len(incoming) : incoming[i] \in Retirals
  BY DEF StateOk
<1>3. \A i \in 1 .. Len(pending) : pending[i] \in Retirals
  BY DEF StateOk
<1>4. /\ \A i \in 1 .. Len(incoming) : incoming[i].ptr \in created
      /\ \A i \in 1 .. Len(pending) : pending[i].ptr \in created
  BY <1>2, <1>3 DEF Retirals
<1>5. \A i \in 1 .. Len(mainQ) : mainQ[i] \in created
  BY DEF StateOk
<1>6. \A t \in Threads : Len(stack[t]) \in Nat
  BY DEF StateOk
<1> QED  BY <1>1, <1>4, <1>5, <1>6 DEF Retired

\* What is owed to whom after a call, a return and a visit.
LEMMA OwesCall ==
  ASSUME StateOk, NEW t \in Threads, NEW n \in created \cup {None}, NEW S \in SUBSET created,
         Call(t, n, S)
  PROVE  \A p, m : Owes(p, m)' <=> Owes(p, m) \/ (p = n /\ m \in S)
<1> DEFINE L == Len(stack[t])
<1>1. /\ \A u \in Threads : u # t => stack'[u] = stack[u]
      /\ L \in Nat /\ Len(stack'[t]) = L + 1
      /\ \A i \in 1 .. L : stack'[t][i] = stack[t][i]
      /\ stack'[t][L + 1].node = n /\ stack'[t][L + 1].todo = S
  BY CallEffect
<1> HIDE DEF L
<1>2. ASSUME NEW p, NEW m, Owes(p, m)'  PROVE Owes(p, m) \/ (p = n /\ m \in S)
  <2>0. PICK u \in Threads : \E i \in 1 .. Len(stack'[u]) : stack'[u][i].node = p /\ m \in stack'[u][i].todo
    BY <1>2 DEF Owes
  <2>1. PICK i \in 1 .. Len(stack'[u]) : stack'[u][i].node = p /\ m \in stack'[u][i].todo
    BY <2>0
  <2>2. CASE u = t /\ i = L + 1
    BY <1>1, <2>1, <2>2
  <2>3. CASE u # t \/ i # L + 1
    <3>1. i \in 1 .. Len(stack[u]) /\ stack'[u][i] = stack[u][i]
      BY <1>1, <2>3 DEF L
    <3> QED  BY <2>1, <3>1 DEF Owes
  <2> QED  BY <2>2, <2>3
<1>3. ASSUME NEW p, NEW m, Owes(p, m)  PROVE Owes(p, m)'
  <2>0. PICK u \in Threads : \E i \in 1 .. Len(stack[u]) : stack[u][i].node = p /\ m \in stack[u][i].todo
    BY <1>3 DEF Owes
  <2>1. PICK i \in 1 .. Len(stack[u]) : stack[u][i].node = p /\ m \in stack[u][i].todo
    BY <2>0
  <2>2. i \in 1 .. Len(stack'[u]) /\ stack'[u][i] = stack[u][i]
    BY <1>1 DEF L
  <2> QED  BY <2>1, <2>2 DEF Owes
<1>4. ASSUME NEW m \in S  PROVE Owes(n, m)'
  <2>1. L + 1 \in 1 .. Len(stack'[t])
    BY <1>1
  <2> QED  BY <1>1, <2>1 DEF Owes
<1> QED  BY <1>2, <1>3, <1>4

LEMMA OwesPop ==
  ASSUME StateOk, NEW t \in Threads, Len(stack[t]) > 0, Top(t).todo = {}, Pop(t)
  PROVE  \A p, m : Owes(p, m)' <=> Owes(p, m)
<1> DEFINE L == Len(stack[t])
<1>1. /\ \A u \in Threads : u # t => stack'[u] = stack[u]
      /\ L \in Nat /\ Len(stack'[t]) = L - 1
      /\ \A i \in 1 .. L - 1 : stack'[t][i] = stack[t][i]
      /\ stack[t][L].todo = {}
  BY PopEffect DEF Top
<1> HIDE DEF L
<1>2. ASSUME NEW p, NEW m, Owes(p, m)'  PROVE Owes(p, m)
  <2>0. PICK u \in Threads : \E i \in 1 .. Len(stack'[u]) : stack'[u][i].node = p /\ m \in stack'[u][i].todo
    BY <1>2 DEF Owes
  <2>1. PICK i \in 1 .. Len(stack'[u]) : stack'[u][i].node = p /\ m \in stack'[u][i].todo
    BY <2>0
  <2>2. i \in 1 .. Len(stack[u]) /\ stack'[u][i] = stack[u][i]
    BY <1>1 DEF L
  <2> QED  BY <2>1, <2>2 DEF Owes
<1>3. ASSUME NEW p, NEW m, Owes(p, m)  PROVE Owes(p, m)'
  <2>0. PICK u \in Threads : \E i \in 1 .. Len(stack[u]) : stack[u][i].node = p /\ m \in stack[u][i].todo
    BY <1>3 DEF Owes
  <2>1. PICK i \in 1 .. Len(stack[u]) : stack[u][i].node = p /\ m \in stack[u][i].todo
    BY <2>0
  <2>2. ~(u = t /\ i = L)
    BY <1>1, <2>1
  <2>3. i \in 1 .. Len(stack'[u]) /\ stack'[u][i] = stack[u][i]
    BY <1>1, <2>2 DEF L
  <2> QED  BY <2>1, <2>3 DEF Owes
<1> QED  BY <1>2, <1>3

LEMMA OwesVisit ==
  ASSUME StateOk, CallsOnce, NEW t \in Threads, Len(stack[t]) > 0, NEW n \in Top(t).todo,
         stack' = [stack EXCEPT ![t][Len(stack[t])].todo = @ \ {n}]
  PROVE  /\ Owes(Top(t).node, n)
         /\ \A p, m : Owes(p, m)' <=> Owes(p, m) /\ ~(p = Top(t).node /\ m = n)
<1> DEFINE L == Len(stack[t])
           d == Top(t).node
<1>1. /\ \A u \in Threads : Len(stack'[u]) = Len(stack[u])
      /\ \A u \in Threads : \A i \in 1 .. Len(stack[u]) :
           /\ stack'[u][i].node = stack[u][i].node
           /\ ~(u = t /\ i = L) => stack'[u][i].todo = stack[u][i].todo
      /\ stack'[t][L].todo = stack[t][L].todo \ {n}
      /\ L \in 1 .. Len(stack[t])
  BY VisitEffect
<1>1a. stack[t][L].node = d /\ n \in stack[t][L].todo
  BY DEF Top
<1>2. Owes(d, n)
  BY <1>1, <1>1a, <1>1a DEF Owes
<1>3. ASSUME NEW u \in Threads, NEW i \in 1 .. Len(stack[u]), stack[u][i].node = d
      PROVE  u = t /\ i = L
  BY <1>1, <1>1a, <1>3 DEF CallsOnce
<1>4. ASSUME NEW p, NEW m, Owes(p, m)'  PROVE Owes(p, m) /\ ~(p = d /\ m = n)
  <2>0. PICK u \in Threads : \E i \in 1 .. Len(stack'[u]) : stack'[u][i].node = p /\ m \in stack'[u][i].todo
    BY <1>4 DEF Owes
  <2>1. PICK i \in 1 .. Len(stack'[u]) : stack'[u][i].node = p /\ m \in stack'[u][i].todo
    BY <2>0
  <2>2. i \in 1 .. Len(stack[u]) /\ stack[u][i].node = p
    BY <1>1, <2>1
  <2>3. CASE u = t /\ i = L
    BY <1>1, <1>1a, <2>1, <2>2, <2>3 DEF Owes
  <2>4. CASE ~(u = t /\ i = L)
    <3>1. m \in stack[u][i].todo /\ p # d
      BY <1>1, <1>3, <2>1, <2>2, <2>4
    <3> QED  BY <2>2, <3>1 DEF Owes
  <2> QED  BY <2>3, <2>4
<1>5. ASSUME NEW p, NEW m, Owes(p, m), ~(p = d /\ m = n)  PROVE Owes(p, m)'
  <2>0. PICK u \in Threads : \E i \in 1 .. Len(stack[u]) : stack[u][i].node = p /\ m \in stack[u][i].todo
    BY <1>5 DEF Owes
  <2>1. PICK i \in 1 .. Len(stack[u]) : stack[u][i].node = p /\ m \in stack[u][i].todo
    BY <2>0
  <2>2. i \in 1 .. Len(stack'[u]) /\ stack'[u][i].node = p
    BY <1>1, <2>1
  <2>3. m \in stack'[u][i].todo
    <3>1. CASE u = t /\ i = L
      BY <1>1, <1>1a, <1>5, <2>1, <3>1
    <3>2. CASE ~(u = t /\ i = L)
      BY <1>1, <2>1, <3>2
    <3> QED  BY <3>1, <3>2
  <2> QED  BY <2>2, <2>3 DEF Owes
<1> QED  BY <1>2, <1>4, <1>5 DEF d
-----------------------------------------------------------------------------
(* What a step leaves alone.                                               *)

\* Something runs only in a graph that was submitted.
LEMMA Busy ==
  ASSUME Quiet, GraphOk, \/ \E t \in Threads : pc[t] # "idle"
                         \/ queue # {} \/ mainQ # << >> \/ submitted # {}
  PROVE  phase = "submitted"
BY DEF Quiet

\* The steps that run the graph do not change it.
LEMMA GraphStays ==
  ASSUME DagInv, phase = "submitted", UNCHANGED graph,
         dependencies_left' \in [Nodes -> Int],
         \A n \in Nodes \ created : dependencies_left'[n] = dependencies_left[n]
  PROVE  GraphOk' /\ Quiet' /\ Counted' /\ Verdict'
BY DEF DagInv, GraphOk, Quiet, Counted, Verdict, Sortable, graph, created

LEMMA FinishedStays ==
  ASSUME UNCHANGED graph, submitted \subseteq submitted',
         \A n \in created : runs[n] > 0 => runs'[n] > 0, NEW n \in created, Finished(n)
  PROVE  Finished(n)'
BY DEF Finished, IsGate, graph

LEMMA CallsStay ==
  ASSUME CallsOnce, StateOk, UNCHANGED graph, UNCHANGED <<stack, incoming, pending, freed>>,
         \A n \in created : Finished(n) => Finished(n)'
  PROVE  CallsOnce'
<1>1. \A t \in Threads : \A i \in 1 .. Len(stack[t]) : stack[t][i].node \in created \cup {None}
  BY Elements
<1>2. \A n : Dependents(n)' = Dependents(n) /\ (Retired(n)' <=> Retired(n))
  BY DEF Dependents, graph, Retired
<1> QED  BY <1>1, <1>2 DEF CallsOnce

LEMMA RetiredStay ==
  ASSUME RetiredOnce, StateOk, UNCHANGED graph, UNCHANGED <<incoming, pending, freed>>,
         \A n \in created : Finished(n) => Finished(n)'
  PROVE  RetiredOnce'
<1>1. \A n : Retired(n) => n \in created
  BY Elements
<1>2. \A n : Retired(n)' <=> Retired(n)
  BY DEF Retired
<1>3. freed \subseteq created /\ phase' = phase
  BY DEF StateOk, graph
<1> QED  BY <1>1, <1>2, <1>3 DEF RetiredOnce

\* Fewer predecessors to wait for, and nothing new that is ready.
LEMMA OrderShrinks ==
  ASSUME GraphOk, Order, phase = "submitted", UNCHANGED graph, UNCHANGED dependencies_left,
         \A n \in created : Finished(n) => Finished(n)',
         \A p, n \in created : Owes(p, n)' \/ ~Finished(p)' => Owes(p, n) \/ ~Finished(p),
         \A n \in created : Ready(n)' => Ready(n)
  PROVE  \A n \in created : LeftOk(n)' /\ ReadyOk(n)'
<1> SUFFICES ASSUME NEW n \in created  PROVE LeftOk(n)' /\ ReadyOk(n)'
  OBVIOUS
<1>1. Preds(n)' = Preds(n) /\ kind' = kind /\ (Solo(n)' <=> Solo(n))
  BY DEF Preds, Solo, graph
<1>2. Preds(n) \subseteq created /\ IsFiniteSet(Preds(n)) /\ dependencies_left[n] \in Int
  BY Finite
<1>3. Unvisited(n)' \subseteq Unvisited(n)
  BY <1>1, <1>2 DEF Unvisited
<1>4. Cardinality(Unvisited(n)') <= Cardinality(Unvisited(n))
      /\ Cardinality(Unvisited(n)) \in Nat /\ Cardinality(Unvisited(n)') \in Nat
  <2>1. Unvisited(n) \subseteq Preds(n)
    BY DEF Unvisited
  <2> QED  BY <1>2, <1>3, <2>1, FS_Subset, FS_CardinalityType
<1>5. LeftOk(n) /\ ReadyOk(n)
  BY DEF Order
<1>6. LeftOk(n)'
  BY <1>1, <1>2, <1>4, <1>5 DEF LeftOk
<1>7. ReadyOk(n)'
  BY <1>1, <1>2, <1>3, <1>5 DEF ReadyOk
<1> QED  BY <1>6, <1>7

\* A step that fires nothing.
LEMMA OrderStays ==
  ASSUME GraphOk, Order, phase = "submitted", UNCHANGED graph, UNCHANGED dependencies_left,
         submitted' = submitted,
         \A n \in created : Finished(n) => Finished(n)',
         \A p, n \in created : Owes(p, n)' \/ ~Finished(p)' => Owes(p, n) \/ ~Finished(p),
         \A n \in created : Owes(None, n)' => Owes(None, n),
         \A t \in Threads : pc'[t] = "fire" => pc[t] = "fire" /\ dep'[t] = dep[t]
  PROVE  Order'
<1>1. \A t \in Threads, n \in created : Firing(t, n)' => Firing(t, n)
  BY DEF Firing
<1>2. \A n \in created : Ready(n)' => Ready(n)
  BY <1>1 DEF Ready
<1>3. \A n \in created : LeftOk(n)' /\ ReadyOk(n)'
  BY <1>2, OrderShrinks
<1>4. \A n \in created : Solo(n)' <=> Solo(n)
  BY DEF Preds, Solo, graph
<1>5. \A n \in created : TokenOk(n)
  BY DEF Order
<1>6. \A n \in created : TokenOk(n)'
  BY <1>1, <1>4, <1>5 DEF TokenOk
<1>7. created' = created
  BY DEF graph, created
<1> QED  BY <1>3, <1>6, <1>7 DEF Order

\* The same when the stacks and what is finished stay as they are.
LEMMA OrderSame ==
  ASSUME GraphOk, Order, phase = "submitted", UNCHANGED graph, UNCHANGED dependencies_left,
         UNCHANGED <<submitted, stack, runs>>,
         \A t \in Threads : pc'[t] = "fire" => pc[t] = "fire" /\ dep'[t] = dep[t]
  PROVE  Order'
<1>1. \A p, n : Owes(p, n)' <=> Owes(p, n)
  BY DEF Owes
<1>2. \A n : Finished(n)' <=> Finished(n)
  BY DEF Finished, IsGate, graph
<1> QED  BY <1>1, <1>2, OrderStays
-----------------------------------------------------------------------------
(* Building and submitting the graph.                                      *)

LEMMA InitKeeps ==
  ASSUME DagInit
  PROVE  DagInv
<1> USE DEF DagInit, EpochInit
<1>0. created = {} /\ \A n : Preds(n) = {}
  BY DEF created, Preds
<1>1. GraphOk
  BY <1>0 DEF GraphOk
<1>2. StateOk
  <2>1. \A S : << >> \in Seq(S)
    OBVIOUS
  <2>2. /\ stack \in [Threads -> Seq(Frames)] /\ mainQ \in Seq(created)
        /\ incoming \in Seq(Retirals) /\ pending \in Seq(Retirals)
    BY <2>1
  <2>3. dep \in [Threads -> created \cup {None}] /\ epoch \in [Threads -> Nat]
    OBVIOUS
  <2>3a. runs \in [Nodes -> Nat] /\ globalEpoch \in Nat
    OBVIOUS
  <2>3b. pc \in [Threads -> Points]
    BY DEF Points
  <2>4. submitted \subseteq created /\ queue \subseteq created /\ freed \subseteq created
    OBVIOUS
  <2> QED  BY <2>2, <2>3, <2>3a, <2>3b, <2>4 DEF StateOk
<1>3. ControlOk /\ Quiet
  BY DEF ControlOk, Quiet
<1>4. Waiting /\ DoneOnce /\ CallsOnce /\ RetiredOnce
  BY <1>0 DEF Waiting, DoneOnce, CallsOnce, RetiredOnce, Retired
<1>5. Order /\ Verdict
  BY DEF Order, Verdict
<1>6. Counted
  <2>1. Cardinality({}) = 0
    BY FS_EmptySet
  <2>2. \A n : Cardinality(Preds(n)) = 0
    BY <1>0, <2>1
  <2>3. Exact
    BY <1>0, <2>1 DEF Exact
  <2> QED  BY <2>2, <2>3 DEF Counted
<1> QED  BY <1>1, <1>2, <1>3, <1>4, <1>5, <1>6 DEF DagInv

\* Before Submit only the graph and the counters matter.
LEMMA StillQuiet ==
  ASSUME DagInv, phase = "build", phase' \in {"build", "rejected"}, created \subseteq created',
         UNCHANGED <<epochVars, submitted, queue, mainQ, locals, runs>>,
         phase' = "build" => freed' = freed, freed' \subseteq created'
  PROVE  /\ StateOk' /\ ControlOk' /\ Quiet' /\ Waiting'
         /\ CallsOnce' /\ RetiredOnce' /\ Order'
<1> USE DEF DagInv, epochVars, locals
<1>1. Quiet'
  BY DEF Quiet
<1>2. StateOk'
  <2>1. \A t \in Threads : stack'[t] = << >> /\ stack' = stack
    BY DEF Quiet
  <2>2. stack' \in [Threads -> Seq(Frames')]
    BY <2>1 DEF StateOk
  <2>3. mainQ' = << >> /\ incoming' = << >> /\ pending' = << >> /\ queue' = {} /\ submitted' = {}
    BY DEF Quiet
  <2> QED  BY <2>2, <2>3 DEF StateOk
<1>3. /\ \A t \in Threads : pc'[t] = "idle" /\ stack'[t] = << >>
      /\ mainQ' = << >> /\ incoming' = << >> /\ pending' = << >> /\ queue' = {} /\ submitted' = {}
      /\ \A n \in Nodes : runs'[n] = 0
  BY DEF Quiet
<1>4. ControlOk' /\ Waiting' /\ CallsOnce'
  BY <1>3 DEF ControlOk, Waiting, CallsOnce
<1>5. RetiredOnce'
  BY <1>3 DEF RetiredOnce, Retired
<1>6. Order'
  BY DEF Order
<1> QED  BY <1>1, <1>2, <1>4, <1>5, <1>6

LEMMA CreateNodeKeeps ==
  ASSUME DagInv, NEW i \in DOMAIN Kinds, CreateNode(i)
  PROVE  DagInv'
<1> DEFINE L == Len(kind)
<1>1. /\ phase = "build" /\ phase' = phase /\ L + 1 \in Nodes /\ kind' = Append(kind, Kinds[i])
      /\ UNCHANGED <<epochVars, edges, calls, dependencies_left, submitted, queue, mainQ,
                     freed, locals, runs>>
  BY DEF CreateNode
<1>2. GraphOk /\ kind \in Seq(Range(Kinds)) /\ Kinds[i] \in Range(Kinds) /\ created = 1 .. L /\ L \in Nat
  BY Finite DEF DagInv, GraphOk, Range
<1>3. kind' \in Seq(Range(Kinds)) /\ created' = 1 .. L + 1
  <2>1. kind' \in Seq(Range(Kinds)) /\ Len(kind') = L + 1
    BY <1>1, <1>2, AppendProperties
  <2> QED  BY <2>1 DEF created
<1>4. created' = created \cup {L + 1} /\ L + 1 \notin created
  BY <1>2, <1>3
<1>5. GraphOk'
  BY <1>1, <1>2, <1>3, <1>4 DEF GraphOk
<1>6. Counted' /\ DoneOnce'
  <2>1. \A n : Preds(n)' = Preds(n)
    BY <1>1 DEF Preds
  <2>2. Preds(L + 1) = {} /\ dependencies_left[L + 1] = 0 /\ Cardinality(Preds(L + 1)) = 0
    <3>1. L + 1 \notin created /\ L + 1 \in Nodes
      BY <1>1, <1>4
    <3>2. Preds(L + 1) = {}
      <4>1. \A e \in edges : e[2] \in created
        BY <1>2 DEF GraphOk
      <4> HIDE DEF L
      <4> QED  BY <3>1, <4>1 DEF Preds
    <3>3. dependencies_left[L + 1] = 0
      BY <1>2, <3>1 DEF GraphOk
    <3> QED  BY <3>2, <3>3, FS_EmptySet
  <2>3. Exact \/ Over
    BY <1>1 DEF DagInv, Counted
  <2>4. (Exact => Exact') /\ (Over => Over')
    BY <1>1, <1>4, <2>1, <2>2 DEF Exact, Over
  <2>5. \A n \in Nodes : dependencies_left'[n] >= Cardinality(Preds(n)')
    BY <1>1, <2>1 DEF DagInv, Counted
  <2>6. \A n \in Nodes : runs'[n] = 0 /\ submitted' = {}
    BY <1>1 DEF DagInv, Quiet
  <2>7. DoneOnce'
    BY <1>5, <2>6 DEF DoneOnce, Finished, GraphOk
  <2> QED  BY <2>3, <2>4, <2>5, <2>7 DEF Counted
<1>7. Verdict'
  BY <1>1 DEF Verdict
<1>8. /\ StateOk' /\ ControlOk' /\ Quiet' /\ Waiting'
      /\ CallsOnce' /\ RetiredOnce' /\ Order'
  <2>1. freed' \subseteq created'
    BY <1>1, <1>4 DEF DagInv, StateOk
  <2> QED  BY <1>1, <1>4, <2>1, StillQuiet
<1> QED  BY <1>5, <1>6, <1>7, <1>8 DEF DagInv

LEMMA AddDependencyKeeps ==
  ASSUME DagInv, NEW n \in created, NEW m \in created, AddDependency(n, m)
  PROVE  DagInv'
<1>1. /\ phase = "build" /\ phase' = phase /\ kind' = kind /\ calls' = calls + 1
      /\ dependencies_left' = [dependencies_left EXCEPT ![n] = @ + 1]
      /\ edges' = edges \cup {<<m, n>>}
      /\ UNCHANGED <<epochVars, submitted, queue, mainQ, freed, locals, runs>>
  BY DEF AddDependency
<1>2. GraphOk /\ created' = created /\ n \in Nodes
  BY <1>1, Finite DEF DagInv, created
<1>3. GraphOk'
  BY <1>1, <1>2 DEF GraphOk
<1>4. /\ Preds(n)' = Preds(n) \cup {m}
      /\ \A k : k # n => Preds(k)' = Preds(k)
  <2>1. \A j, k : j \in Preds(k) <=> <<j, k>> \in edges
    BY <1>2, EdgeEnds
  <2>2. \A j, k : j \in Preds(k)' <=> <<j, k>> \in edges'
    <3>1. \A e \in edges' : e = <<e[1], e[2]>>
      BY <1>3 DEF GraphOk
    <3>2. \A j, k : <<j, k>>[1] = j /\ <<j, k>>[2] = k
      OBVIOUS
    <3> QED  BY <3>1, <3>2 DEF Preds
  <2>3. \A j, k : <<j, k>> \in edges' <=> <<j, k>> \in edges \/ (j = m /\ k = n)
    BY <1>1
  <2>4. \A j : j \in Preds(n)' <=> j \in Preds(n) \/ j = m
    BY <2>1, <2>2, <2>3
  <2>5. \A j, k : k # n => (j \in Preds(k)' <=> j \in Preds(k))
    BY <2>1, <2>2, <2>3
  <2> QED  BY <2>4, <2>5
<1>5. /\ \A k : IsFiniteSet(Preds(k)) /\ Cardinality(Preds(k)) \in Nat
      /\ IsFiniteSet(edges) /\ Cardinality(edges) \in Nat /\ calls \in Nat
      /\ \A k \in created : k \in Nodes /\ dependencies_left[k] \in Int
  BY <1>2, Finite DEF GraphOk
<1>6. m \in Preds(n) <=> <<m, n>> \in edges
  BY <1>2, EdgeEnds
<1>7. /\ Cardinality(Preds(n)') = IF <<m, n>> \in edges THEN Cardinality(Preds(n))
                                                       ELSE Cardinality(Preds(n)) + 1
      /\ Cardinality(edges') = IF <<m, n>> \in edges THEN Cardinality(edges)
                                                     ELSE Cardinality(edges) + 1
  <2>1. ASSUME NEW S, IsFiniteSet(S), NEW x
        PROVE  Cardinality(S \cup {x}) = IF x \in S THEN Cardinality(S) ELSE Cardinality(S) + 1
    <3>1. x \in S => S \cup {x} = S
      OBVIOUS
    <3> QED  BY <2>1, <3>1, FS_AddElement
  <2>2. Cardinality(Preds(n)') = IF m \in Preds(n) THEN Cardinality(Preds(n))
                                                   ELSE Cardinality(Preds(n)) + 1
    BY <1>4, <1>5, <2>1
  <2>3. Cardinality(edges') = IF <<m, n>> \in edges THEN Cardinality(edges)
                                                    ELSE Cardinality(edges) + 1
    BY <1>1, <1>5, <2>1
  <2> QED  BY <1>6, <2>2, <2>3
<1>8. /\ dependencies_left'[n] = dependencies_left[n] + 1
      /\ \A k \in Nodes : k # n => dependencies_left'[k] = dependencies_left[k]
  BY <1>1, <1>2 DEF GraphOk
<1>9. Counted'
  <2>1. (Exact \/ Over) /\ \A k \in Nodes : dependencies_left[k] >= Cardinality(Preds(k))
    BY <1>1 DEF DagInv, Counted
  <2>2. \A k \in Nodes : dependencies_left'[k] >= Cardinality(Preds(k)')
    <3> TAKE k \in Nodes
    <3>1. CASE k = n
      BY <1>2, <1>5, <1>7, <1>8, <2>1, <3>1
    <3>2. CASE k # n
      BY <1>4, <1>8, <2>1, <3>2
    <3> QED  BY <3>1, <3>2
  <2>3. CASE <<m, n>> \in edges
    <3>1. calls' > Cardinality(edges')
      BY <1>1, <1>5, <1>7, <2>1, <2>3 DEF Exact, Over
    <3>2. dependencies_left'[n] > Cardinality(Preds(n)')
      BY <1>2, <1>5, <1>7, <1>8, <2>1, <2>3
    <3>3. Over'
      BY <1>2, <3>1, <3>2 DEF Over
    <3> QED  BY <2>2, <3>3 DEF Counted
  <2>4. CASE <<m, n>> \notin edges
    <3>1. Exact => Exact'
      BY <1>1, <1>2, <1>4, <1>5, <1>7, <1>8, <2>4 DEF Exact
    <3>2. ASSUME Over  PROVE Over'
      <4>1. PICK k \in created : dependencies_left[k] > Cardinality(Preds(k))
        BY <3>2 DEF Over
      <4>2. dependencies_left'[k] > Cardinality(Preds(k)')
        <5>1. CASE k = n
          BY <1>5, <1>7, <1>8, <2>4, <4>1, <5>1
        <5>2. CASE k # n
          BY <1>4, <1>5, <1>8, <4>1, <5>2
        <5> QED  BY <5>1, <5>2
      <4>3. calls' > Cardinality(edges')
        BY <1>1, <1>5, <1>7, <2>4, <3>2 DEF Over
      <4> QED  BY <1>2, <4>2, <4>3 DEF Over
    <3> QED  BY <2>1, <2>2, <3>1, <3>2 DEF Counted
  <2> QED  BY <2>3, <2>4
<1>10. Verdict'
  BY <1>1 DEF Verdict
<1>11. DoneOnce'
  <2>1. \A k \in Nodes : runs'[k] = 0 /\ submitted' = {}
    BY <1>1 DEF DagInv, Quiet
  <2> QED  BY <1>3, <2>1 DEF DoneOnce, Finished, GraphOk
<1>12. /\ StateOk' /\ ControlOk' /\ Quiet' /\ Waiting'
       /\ CallsOnce' /\ RetiredOnce' /\ Order'
  <2>1. freed' \subseteq created'
    BY <1>1, <1>2 DEF DagInv, StateOk
  <2> QED  BY <1>1, <1>2, <2>1, StillQuiet
<1> QED  BY <1>3, <1>9, <1>10, <1>11, <1>12 DEF DagInv

LEMMA SubmitRejectsKeeps ==
  ASSUME DagInv, SubmitRejects
  PROVE  DagInv'
<1>1. /\ phase = "build" /\ phase' = "rejected" /\ HasCycle /\ freed' = created
      /\ UNCHANGED <<epochVars, kind, edges, calls, dependencies_left, submitted, queue, mainQ,
                     locals, runs>>
  BY DEF SubmitRejects
<1>2. GraphOk /\ created' = created
  BY <1>1 DEF DagInv, created
<1>3. GraphOk' /\ Counted'
  BY <1>1, <1>2 DEF GraphOk, Counted
<1>4. Verdict'
  <2>1. CASE Exact
    <3>1. ~Sortable
      BY <1>1, <1>2, <2>1, SortedAcyclic DEF Exact
    <3> QED  BY <1>1, <1>2, <3>1 DEF Verdict, Sortable
  <2>2. CASE Over
    BY <1>1, <1>2, <2>2 DEF Verdict, Over
  <2> QED  BY <1>1, <2>1, <2>2 DEF DagInv, Counted
<1>5. DoneOnce'
  <2>1. \A k \in Nodes : runs'[k] = 0 /\ submitted' = {}
    BY <1>1 DEF DagInv, Quiet
  <2> QED  BY <1>3, <2>1 DEF DoneOnce, Finished, GraphOk
<1>6. /\ StateOk' /\ ControlOk' /\ Quiet' /\ Waiting'
      /\ CallsOnce' /\ RetiredOnce' /\ Order'
  <2>1. freed' \subseteq created'
    BY <1>1, <1>2
  <2> QED  BY <1>1, <1>2, <2>1, StillQuiet
<1> QED  BY <1>3, <1>4, <1>5, <1>6 DEF DagInv

\* A call for a node that was in no call before.
LEMMA CallsCall ==
  ASSUME CallsOnce, StateOk, UNCHANGED <<kind, edges, incoming, pending, freed>>,
         NEW t \in Threads, NEW n \in created \cup {None}, NEW S \in SUBSET created,
         Call(t, n, S), \A k \in created : Finished(k) => Finished(k)',
         n # None => Finished(n)' /\ S \subseteq Dependents(n),
         n \notin freed, ~Retired(n),
         \A u \in Threads : \A j \in 1 .. Len(stack[u]) : stack[u][j].node # n
  PROVE  CallsOnce'
<1> DEFINE L == Len(stack[t])
<1>1. /\ \A u \in Threads : u # t => stack'[u] = stack[u]
      /\ L \in Nat /\ Len(stack'[t]) = L + 1
      /\ \A i \in 1 .. L : stack'[t][i] = stack[t][i]
      /\ stack'[t][L + 1].node = n /\ stack'[t][L + 1].todo = S
  <2>1. /\ stack' \in [Threads -> Seq(Frames)]
        /\ \A u \in Threads : u # t => stack'[u] = stack[u]
        /\ Len(stack[t]) \in Nat /\ Len(stack'[t]) = Len(stack[t]) + 1
        /\ \A i \in 1 .. Len(stack[t]) : stack'[t][i] = stack[t][i]
        /\ stack'[t][Len(stack[t]) + 1].node = n /\ stack'[t][Len(stack[t]) + 1].todo = S
    BY CallEffect, SMTT(30)
  <2> QED  BY <2>1
<1>2. \A m : Dependents(m)' = Dependents(m) /\ (Retired(m)' <=> Retired(m))
  BY DEF Dependents, Retired
<1>3. \A u \in Threads : \A i \in 1 .. Len(stack[u]) : stack[u][i].node \in created \cup {None}
  BY Elements
<1> HIDE DEF L
<1>4. ASSUME NEW u \in Threads, NEW i \in 1 .. Len(stack'[u]), ~(u = t /\ i = L + 1)
      PROVE  i \in 1 .. Len(stack[u]) /\ stack'[u][i] = stack[u][i]
  BY <1>1, <1>4 DEF L
<1>5. ASSUME NEW u \in Threads, NEW i \in 1 .. Len(stack'[u]), NEW d, d = stack'[u][i].node
      PROVE  /\ d # None => Finished(d)' /\ stack'[u][i].todo \subseteq Dependents(d)'
             /\ d \notin freed' /\ ~Retired(d)'
             /\ d = n => u = t /\ i = L + 1
  <2>1. CASE u = t /\ i = L + 1
    <3>1. d = n /\ stack'[u][i].todo = S
      BY <1>1, <1>5, <2>1
    <3> QED  BY <1>2, <2>1, <3>1
  <2>2. CASE ~(u = t /\ i = L + 1)
    <3>1. i \in 1 .. Len(stack[u]) /\ stack'[u][i] = stack[u][i] /\ d = stack[u][i].node
      BY <1>4, <1>5, <2>2
    <3>2. d \in created \cup {None} /\ d # n
      BY <1>3, <3>1
    <3>3. /\ d # None => Finished(d) /\ stack[u][i].todo \subseteq Dependents(d)
          /\ d \notin freed /\ ~Retired(d)
      BY <3>1 DEF CallsOnce
    <3> QED  BY <1>2, <3>1, <3>2, <3>3
  <2> QED  BY <2>1, <2>2
<1>6. ASSUME NEW u \in Threads, NEW i \in 1 .. Len(stack'[u]),
             NEW v \in Threads, NEW j \in 1 .. Len(stack'[v]),
             stack'[v][j].node = stack'[u][i].node
      PROVE  v = u /\ j = i
  <2>1. CASE stack'[u][i].node = n
    <3>1. u = t /\ i = L + 1
      BY <1>5, <2>1
    <3>2. v = t /\ j = L + 1
      BY <1>5, <1>6, <2>1
    <3> QED  BY <3>1, <3>2
  <2>2. CASE stack'[u][i].node # n
    <3>1. /\ i \in 1 .. Len(stack[u]) /\ stack'[u][i] = stack[u][i]
          /\ j \in 1 .. Len(stack[v]) /\ stack'[v][j] = stack[v][j]
      BY <1>1, <1>4, <1>6, <2>2
    <3> QED  BY <1>6, <3>1 DEF CallsOnce
  <2> QED  BY <2>1, <2>2
<1>7. \A u \in Threads : \A i \in 1 .. Len(stack'[u]) : \A d : d = stack'[u][i].node =>
        /\ d # None => Finished(d)' /\ stack'[u][i].todo \subseteq Dependents(d)'
        /\ d \notin freed' /\ ~Retired(d)'
  BY <1>5
<1>8. \A u \in Threads : \A i \in 1 .. Len(stack'[u]) :
        \A v \in Threads : \A j \in 1 .. Len(stack'[v]) :
          stack'[v][j].node = stack'[u][i].node => v = u /\ j = i
  BY <1>6
<1> QED  BY <1>7, <1>8 DEF CallsOnce

LEMMA SubmitKeeps ==
  ASSUME DagInv, Submit
  PROVE  DagInv'
<1> DEFINE roots == {n \in created : dependencies_left[n] = 0}
<1>1. /\ phase = "build" /\ phase' = "submitted" /\ ~HasCycle
      /\ Call(Main, None, roots) /\ At(Main, "each")
      /\ UNCHANGED <<epochVars, kind, edges, calls, dependencies_left, submitted, queue, mainQ,
                     freed, dep, epoch, runs>>
  BY DEF Submit
<1>2. GraphOk /\ StateOk /\ Quiet /\ created' = created /\ Main \in Threads
  BY <1>1, DagAssumption DEF DagInv, created
<1>3. /\ \A t \in Threads : pc[t] = "idle" /\ stack[t] = << >> /\ Len(stack[t]) = 0
      /\ queue = {} /\ mainQ = << >> /\ submitted = {} /\ incoming = << >> /\ pending = << >>
      /\ \A n \in Nodes : runs[n] = 0
      /\ freed = {} /\ \A n : ~Retired(n)
  BY <1>1, <1>2 DEF Quiet, Retired
<1>4. pc' = [pc EXCEPT ![Main] = "each"]
  BY <1>1 DEF At
<1> HIDE DEF roots
<1>5. roots \in SUBSET created
  BY DEF roots
<1>6. /\ stack' \in [Threads -> Seq(Frames)]
      /\ \A u \in Threads : u # Main => stack'[u] = << >>
      /\ Len(stack'[Main]) = 1 /\ stack'[Main][1].node = None /\ stack'[Main][1].todo = roots
  <2>1. None \in created \cup {None} /\ Call(Main, None, roots)
    BY <1>1
  <2>2. Len(stack[Main]) = 0
    BY <1>2, <1>3
  <2>3. /\ stack' \in [Threads -> Seq(Frames)]
        /\ \A u \in Threads : u # Main => stack'[u] = stack[u]
        /\ Len(stack'[Main]) = Len(stack[Main]) + 1
        /\ stack'[Main][Len(stack[Main]) + 1].node = None
        /\ stack'[Main][Len(stack[Main]) + 1].todo = roots
    BY <1>2, <1>5, <2>1, CallEffect
  <2> QED  BY <1>3, <2>2, <2>3
<1>7. GraphOk' /\ Quiet'
  BY <1>1, <1>2 DEF GraphOk, Quiet
<1>8. StateOk'
  <2>1. stack' \in [Threads -> Seq(Frames')] /\ pc' \in [Threads -> Points]
    BY <1>1, <1>2, <1>4, <1>6 DEF Frames, StateOk, Points
  <2>2. Retirals' = Retirals
    BY <1>2 DEF Retirals
  <2> QED  BY <1>1, <1>2, <2>1, <2>2 DEF StateOk, epochVars
<1>9. ControlOk'
  BY <1>2, <1>3, <1>4, <1>6 DEF ControlOk, StateOk
<1>10. Waiting'
  BY <1>1, <1>2, <1>3, <1>4 DEF Waiting, StateOk
<1>11. DoneOnce'
  BY <1>1, <1>2, <1>3 DEF DoneOnce, GraphOk, Finished, IsGate
<1>12. CallsOnce'
  <2>1. \A n \in created : Finished(n) => Finished(n)'
    BY <1>1 DEF Finished, IsGate
  <2>2. CallsOnce /\ None \in created \cup {None}
    BY DEF DagInv
  <2> QED  BY <1>1, <1>2, <1>3, <1>5, <2>1, <2>2, CallsCall DEF epochVars
<1>13. RetiredOnce'
  BY <1>1, <1>3 DEF RetiredOnce, Retired, epochVars
<1>14. Counted' /\ Verdict'
  <2>1. \A n \in created : dependencies_left[n] >= Cardinality(Preds(n))
    BY <1>1, <1>2 DEF DagInv, Counted, GraphOk
  <2>2. Sortable /\ \A n \in created : dependencies_left[n] = Cardinality(Preds(n))
    BY <1>1, <1>2, <2>1, AcyclicSorted
  <2>3. ~Over
    <3>1. \A n \in created : Cardinality(Preds(n)) \in Nat
      BY <1>2, Finite
    <3> QED  BY <2>2, <3>1 DEF Over
  <2>4. calls = Cardinality(edges)
    BY <1>1, <2>3 DEF DagInv, Counted, Exact
  <2> QED  BY <1>1, <1>2, <2>2, <2>4 DEF Counted, Verdict, Sortable
<1>15. Order'
  <2> SUFFICES ASSUME NEW n \in created  PROVE LeftOk(n)' /\ ReadyOk(n)' /\ TokenOk(n)'
    BY <1>2 DEF Order
  <2>1. Preds(n)' = Preds(n) /\ kind' = kind
    BY <1>1 DEF Preds
  <2>2. /\ IsFiniteSet(Preds(n)) /\ Cardinality(Preds(n)) \in Nat /\ n \in Nodes
        /\ dependencies_left[n] >= Cardinality(Preds(n)) /\ dependencies_left[n] \in Int
    BY <1>1, <1>2, Finite DEF DagInv, Counted
  <2>3. Unvisited(n)' \subseteq Preds(n)
    BY <2>1 DEF Unvisited
  <2>4. LeftOk(n)'
    <3>1. Cardinality(Unvisited(n)') <= Cardinality(Preds(n)) /\ Cardinality(Unvisited(n)') \in Nat
      BY <2>2, <2>3, FS_Subset, FS_CardinalityType
    <3> QED  BY <1>1, <2>2, <3>1 DEF LeftOk
  <2>5. \A t \in Threads : ~Firing(t, n)'
    BY <1>2, <1>3, <1>4 DEF Firing, StateOk
  <2>6. n \notin submitted'
    BY <1>1, <1>3
  <2>7. Owes(None, n)' => n \in roots
    <3>1. Owes(None, n)' <=> Owes(None, n) \/ n \in roots
      BY <1>1, <1>2, <1>5, OwesCall
    <3>2. ~Owes(None, n)
      BY <1>3 DEF Owes
    <3> QED  BY <3>1, <3>2
  <2>8. Ready(n)' => Preds(n) = {}
    <3>1. n \in roots => Preds(n) = {}
      BY <2>2, FS_EmptySet DEF roots
    <3> QED  BY <2>5, <2>6, <2>7, <3>1 DEF Ready
  <2>9. ReadyOk(n)'
    BY <2>1, <2>3, <2>8 DEF ReadyOk, Solo
  <2>10. TokenOk(n)'
    BY <2>5, <2>6 DEF TokenOk
  <2> QED  BY <2>4, <2>9, <2>10
<1> QED  BY <1>7, <1>8, <1>9, <1>10, <1>11, <1>12, <1>13, <1>14, <1>15 DEF DagInv
-----------------------------------------------------------------------------
(* Running the graph.                                                      *)

LEMMA TakeTaskKeeps ==
  ASSUME DagInv, NEW t \in Threads, TakeTask(t)
  PROVE  DagInv'
<1>1. PICK n \in queue : queue' = queue \ {n} /\ dep' = [dep EXCEPT ![t] = n]
  BY DEF TakeTask
<1>2. /\ pc[t] = "idle" /\ pc' = [pc EXCEPT ![t] = "run"]
      /\ UNCHANGED <<epochVars, graph, dependencies_left, submitted, mainQ, freed, stack, epoch, runs>>
  BY DEF TakeTask, At
<1>3. GraphOk /\ StateOk /\ n \in created /\ n # None /\ phase = "submitted"
  BY <1>1, Busy, Finite DEF DagInv, StateOk
<1>4. created' = created /\ kind' = kind /\ \A m : Finished(m)' <=> Finished(m)
  BY <1>2 DEF graph, created, Finished, IsGate
<1>5. GraphOk' /\ Quiet' /\ Counted' /\ Verdict'
  BY <1>2, <1>3, GraphStays DEF GraphOk
<1>6. StateOk'
  BY <1>1, <1>2, <1>3, <1>4 DEF StateOk, Frames, Retirals, Points, epochVars
<1>7. ControlOk'
  BY <1>1, <1>2, <1>3 DEF DagInv, ControlOk, StateOk, Top
<1>8. Waiting'
  <2>1. n \in submitted /\ kind[n] = "task" /\ runs[n] = 0
    BY <1>1 DEF DagInv, Waiting
  <2>2. \A i \in 1 .. Len(mainQ) : mainQ[i] # n
    BY <2>1 DEF DagInv, Waiting
  <2>3. \A u \in Threads : pc[u] = "run" => dep[u] # n
    BY <1>1 DEF DagInv, Waiting
  <2>4. \A u \in Threads : u # t => pc'[u] = pc[u] /\ dep'[u] = dep[u]
    BY <1>1, <1>2, <1>3 DEF StateOk
  <2>5. pc'[t] = "run" /\ dep'[t] = n
    BY <1>1, <1>2, <1>3 DEF StateOk
  <2> QED  BY <1>1, <1>2, <1>4, <2>1, <2>2, <2>3, <2>4, <2>5 DEF DagInv, Waiting, IsGate
<1>9. DoneOnce'
  BY <1>2, <1>4 DEF DagInv, DoneOnce
<1>10. CallsOnce' /\ RetiredOnce'
  BY <1>2, <1>3, <1>4, CallsStay, RetiredStay DEF DagInv, epochVars
<1>11. Order'
  BY <1>1, <1>2, <1>3, OrderSame DEF DagInv, StateOk
<1> QED  BY <1>5, <1>6, <1>7, <1>8, <1>9, <1>10, <1>11 DEF DagInv

LEMMA TakeMainKeeps ==
  ASSUME DagInv, TakeMain
  PROVE  DagInv'
<1> DEFINE n == Head(mainQ)
<1>1. /\ pc[Main] = "idle" /\ pc' = [pc EXCEPT ![Main] = "run"] /\ mainQ # << >>
      /\ mainQ' = Tail(mainQ) /\ dep' = [dep EXCEPT ![Main] = n]
      /\ UNCHANGED <<epochVars, graph, dependencies_left, submitted, queue, freed, stack, epoch, runs>>
  BY DEF TakeMain, At
<1>2. GraphOk /\ StateOk /\ phase = "submitted" /\ Main \in Threads /\ mainQ \in Seq(created)
  BY <1>1, Busy, DagAssumption DEF DagInv, StateOk
<1>3. /\ n = mainQ[1] /\ 1 \in 1 .. Len(mainQ) /\ mainQ' \in Seq(created)
      /\ Len(mainQ') = Len(mainQ) - 1 /\ Len(mainQ) \in Nat
      /\ \A i \in 1 .. Len(mainQ') : mainQ'[i] = mainQ[i + 1] /\ i + 1 \in 1 .. Len(mainQ)
  BY <1>1, <1>2, HeadTailProperties, LenProperties
<1> HIDE DEF n
<1>4. n \in created /\ n # None
  BY <1>2, <1>3, Elements, Finite
<1>5. created' = created /\ kind' = kind /\ \A m : Finished(m)' <=> Finished(m)
  BY <1>1 DEF graph, created, Finished, IsGate
<1>6. GraphOk' /\ Quiet' /\ Counted' /\ Verdict'
  BY <1>1, <1>2, GraphStays DEF GraphOk
<1>7. StateOk'
  BY <1>1, <1>2, <1>3, <1>4, <1>5 DEF StateOk, Frames, Retirals, Points, epochVars
<1>8. ControlOk'
  BY <1>1, <1>2, <1>4 DEF DagInv, ControlOk, StateOk, Top
<1>9. Waiting'
  <2>1. n \in submitted /\ kind[n] = "main" /\ runs[n] = 0
    BY <1>3 DEF DagInv, Waiting
  <2>2. \A i \in 1 .. Len(mainQ') : mainQ'[i] # n
    BY <1>3 DEF DagInv, Waiting
  <2>3. \A u \in Threads : pc[u] = "run" => dep[u] # n
    BY <1>3 DEF DagInv, Waiting
  <2>4. \A u \in Threads : u # Main => pc'[u] = pc[u] /\ dep'[u] = dep[u]
    BY <1>1, <1>2 DEF StateOk
  <2>5. pc'[Main] = "run" /\ dep'[Main] = n
    BY <1>1, <1>2 DEF StateOk
  <2>6. n \notin queue
    BY <2>1 DEF DagInv, Waiting
  <2>7. /\ \A i \in 1 .. Len(mainQ') :
             mainQ'[i] \in submitted /\ kind[mainQ'[i]] = "main" /\ runs[mainQ'[i]] = 0
        /\ \A i, j \in 1 .. Len(mainQ') : mainQ'[i] = mainQ'[j] => i = j
    <3>1. \A i \in 1 .. Len(mainQ) : mainQ[i] \in submitted /\ kind[mainQ[i]] = "main" /\ runs[mainQ[i]] = 0
      BY DEF DagInv, Waiting
    <3>2. \A i, j \in 1 .. Len(mainQ) : mainQ[i] = mainQ[j] => i = j
      BY DEF DagInv, Waiting
    <3>3. \A i \in 1 .. Len(mainQ') : i \in Int
      OBVIOUS
    <3>4. ASSUME NEW i \in 1 .. Len(mainQ'), NEW j \in 1 .. Len(mainQ'), mainQ'[i] = mainQ'[j]
          PROVE  i = j
      <4>1. i + 1 = j + 1
        BY <1>3, <3>2, <3>4
      <4> QED  BY <3>3, <4>1
    <3>5. \A i \in 1 .. Len(mainQ') :
            mainQ'[i] \in submitted /\ kind[mainQ'[i]] = "main" /\ runs[mainQ'[i]] = 0
      BY <1>3, <3>1
    <3> QED  BY <3>4, <3>5
  <2>8. \A u \in Threads : pc[u] = "run" => \A i \in 1 .. Len(mainQ') : mainQ'[i] # dep[u]
    BY <1>3 DEF DagInv, Waiting
  <2> QED  BY <1>1, <1>5, <2>1, <2>2, <2>3, <2>4, <2>5, <2>6, <2>7, <2>8 DEF DagInv, Waiting, IsGate
<1>10. DoneOnce'
  BY <1>1, <1>5 DEF DagInv, DoneOnce
<1>11. CallsOnce' /\ RetiredOnce'
  BY <1>1, <1>2, <1>5, CallsStay, RetiredStay DEF DagInv, epochVars
<1>12. Order'
  BY <1>1, <1>2, OrderSame DEF DagInv, StateOk
<1> QED  BY <1>6, <1>7, <1>8, <1>9, <1>10, <1>11, <1>12 DEF DagInv

\* The steps that only read or write an epoch.
LEMMA MoveKeeps ==
  ASSUME DagInv, NEW t \in Threads, pc[t] \notin {"idle", "fire"},
         NEW q \in {"enter", "each", "stamp", "retire"}, At(t, q),
         UNCHANGED <<globalEpoch, incoming, pending, graph, dependencies_left, submitted, queue,
                     mainQ, freed, stack, dep, runs>>,
         epoch' \in [Threads -> Nat], Len(stack[t]) > 0,
         q # "each" => Top(t).node # None, q \in {"stamp", "retire"} => Top(t).todo = {}
  PROVE  DagInv'
<1>1. GraphOk /\ StateOk /\ phase = "submitted" /\ pc' = [pc EXCEPT ![t] = q]
  BY Busy DEF DagInv, At
<1>2. created' = created /\ kind' = kind /\ \A m : Finished(m)' <=> Finished(m)
  BY DEF graph, created, Finished, IsGate
<1>3. GraphOk' /\ Quiet' /\ Counted' /\ Verdict'
  BY <1>1, GraphStays DEF GraphOk
<1>4. StateOk'
  BY <1>1, <1>2 DEF StateOk, Frames, Retirals, Points
<1>5. ControlOk'
  BY <1>1 DEF DagInv, ControlOk, StateOk, Top
<1>6. Waiting'
  BY <1>1, <1>2 DEF DagInv, Waiting, StateOk, IsGate
<1>7. DoneOnce'
  BY <1>2 DEF DagInv, DoneOnce
<1>8. CallsOnce' /\ RetiredOnce'
  BY <1>1, <1>2, CallsStay, RetiredStay DEF DagInv
<1>9. Order'
  BY <1>1, OrderSame DEF DagInv, StateOk
<1> QED  BY <1>3, <1>4, <1>5, <1>6, <1>7, <1>8, <1>9 DEF DagInv

LEMMA GuardKeeps ==
  ASSUME DagInv, NEW t \in Threads,
         ReadEpoch(t) \/ EnterGuard(t) \/ LeaveGuard(t) \/ ReadRetireEpoch(t)
  PROVE  DagInv'
<1>0. StateOk /\ ControlOk
  BY DEF DagInv
<1>1. CASE ReadEpoch(t)
  <2>1. /\ pc[t] = "guard" /\ At(t, "enter") /\ epoch' \in [Threads -> Nat]
        /\ UNCHANGED <<globalEpoch, incoming, pending, graph, dependencies_left, submitted, queue,
                       mainQ, freed, stack, dep, runs>>
    BY <1>0, <1>1 DEF ReadEpoch, StateOk, epochVars
  <2>2. Len(stack[t]) > 0 /\ Top(t).node # None
    BY <1>0, <2>1 DEF ControlOk
  <2> QED  BY <2>1, <2>2, MoveKeeps
<1>2. CASE EnterGuard(t)
  <2>1. /\ pc[t] = "enter" /\ At(t, "each") /\ epoch' \in [Threads -> Nat]
        /\ UNCHANGED <<globalEpoch, incoming, pending, graph, dependencies_left, submitted, queue,
                       mainQ, freed, stack, dep, runs>>
    BY <1>0, <1>2 DEF EnterGuard, StateOk
  <2>2. Len(stack[t]) > 0
    BY <1>0, <2>1 DEF ControlOk
  <2> QED  BY <2>1, <2>2, MoveKeeps
<1>3. CASE LeaveGuard(t)
  <2>1. /\ pc[t] = "each" /\ At(t, "stamp") /\ epoch' \in [Threads -> Nat]
        /\ Top(t).node # None /\ Top(t).todo = {}
        /\ UNCHANGED <<globalEpoch, incoming, pending, graph, dependencies_left, submitted, queue,
                       mainQ, freed, stack, dep, runs>>
    BY <1>0, <1>3 DEF LeaveGuard, StateOk
  <2>2. Len(stack[t]) > 0
    BY <1>0, <2>1 DEF ControlOk
  <2> QED  BY <2>1, <2>2, MoveKeeps
<1>4. CASE ReadRetireEpoch(t)
  <2>1. /\ pc[t] = "stamp" /\ At(t, "retire") /\ epoch' \in [Threads -> Nat]
        /\ UNCHANGED <<globalEpoch, incoming, pending, graph, dependencies_left, submitted, queue,
                       mainQ, freed, stack, dep, runs>>
    BY <1>0, <1>4 DEF ReadRetireEpoch, StateOk, epochVars
  <2>2. Len(stack[t]) > 0 /\ Top(t).node # None /\ Top(t).todo = {}
    BY <1>0, <2>1 DEF ControlOk
  <2> QED  BY <2>1, <2>2, MoveKeeps
<1> QED  BY <1>1, <1>2, <1>3, <1>4

LEMMA RunTaskKeeps ==
  ASSUME DagInv, NEW t \in Threads, RunTask(t)
  PROVE  DagInv'
<1>0. PICK n : n = dep[t]
  OBVIOUS
<1>1. /\ pc[t] = "run" /\ pc' = [pc EXCEPT ![t] = "guard"] /\ runs' = [runs EXCEPT ![n] = @ + 1]
      /\ Call(t, n, Dependents(n))
      /\ UNCHANGED <<epochVars, graph, dependencies_left, submitted, queue, mainQ, freed, dep, epoch>>
  BY <1>0 DEF RunTask, At
<1>2. GraphOk /\ StateOk /\ phase = "submitted" /\ CallsOnce /\ RetiredOnce /\ Order
  BY <1>1, Busy DEF DagInv
<1>3. /\ n \in submitted /\ n \in created /\ n \in Nodes /\ n # None /\ ~IsGate(n) /\ runs[n] = 0
      /\ n \notin queue /\ \A i \in 1 .. Len(mainQ) : mainQ[i] # n
      /\ \A u \in Threads : pc[u] = "run" /\ dep[u] = n => u = t
  <2>1. /\ n \in submitted /\ ~IsGate(n) /\ runs[n] = 0
        /\ n \notin queue /\ \A i \in 1 .. Len(mainQ) : mainQ[i] # n
        /\ \A u \in Threads : pc[u] = "run" /\ dep[u] = n => u = t
    BY <1>0, <1>1 DEF DagInv, Waiting
  <2>2. n \in created
    BY <1>2, <2>1 DEF StateOk
  <2> QED  BY <1>2, <2>1, <2>2, Finite
<1>4. Dependents(n) \in SUBSET created
  BY <1>2, EdgeEnds
<1>5. created' = created /\ kind' = kind /\ edges' = edges
  BY <1>1 DEF graph, created
<1>6. runs'[n] = 1 /\ \A m \in Nodes : m # n => runs'[m] = runs[m]
  BY <1>1, <1>2, <1>3 DEF StateOk
<1>7. /\ ~Finished(n) /\ Finished(n)'
      /\ \A m \in created : m # n => (Finished(m)' <=> Finished(m))
  <2>1. \A m \in created : m \in Nodes
    BY <1>2, Finite
  <2> QED  BY <1>1, <1>3, <1>5, <1>6, <2>1 DEF Finished, IsGate
<1>8. GraphOk' /\ Quiet' /\ Counted' /\ Verdict'
  BY <1>1, <1>2, GraphStays DEF GraphOk
<1>9. /\ stack' \in [Threads -> Seq(Frames)]
      /\ \A u \in Threads : u # t => stack'[u] = stack[u]
      /\ Len(stack[t]) \in Nat /\ Len(stack'[t]) = Len(stack[t]) + 1
      /\ stack'[t][Len(stack[t]) + 1].node = n
  BY <1>1, <1>2, <1>3, <1>4, CallEffect
<1>10. StateOk'
  <2>1. runs' \in [Nodes -> Nat] /\ pc' \in [Threads -> Points]
    BY <1>1, <1>2, <1>3 DEF StateOk, Points
  <2> QED  BY <1>1, <1>2, <1>5, <1>9, <2>1 DEF StateOk, Frames, Retirals, epochVars
<1>11. /\ pc'[t] = "guard" /\ \A u \in Threads : u # t => pc'[u] = pc[u]
  BY <1>1, <1>2 DEF StateOk
<1>12. ControlOk'
  <2>1. Len(stack'[t]) > 0 /\ Top(t)'.node # None
    BY <1>3, <1>9 DEF Top
  <2> QED  BY <1>1, <1>9, <1>11, <2>1 DEF DagInv, ControlOk, Top
<1>13. Waiting'
  <2>1. \A m \in queue : m # n /\ m \in Nodes /\ runs'[m] = 0
    BY <1>2, <1>3, <1>6, Finite DEF DagInv, Waiting, StateOk
  <2>2. \A i \in 1 .. Len(mainQ) : runs'[mainQ[i]] = 0
    <3>1. \A i \in 1 .. Len(mainQ) : mainQ[i] \in Nodes
      BY <1>2, Elements, Finite
    <3> QED  BY <1>3, <1>6, <3>1 DEF DagInv, Waiting
  <2>3. \A u \in Threads : pc'[u] = "run" => u # t /\ pc[u] = "run" /\ dep'[u] = dep[u] /\ runs'[dep[u]] = 0
    <3>1. \A u \in Threads : pc[u] = "run" => dep[u] \in Nodes
      BY <1>2, Finite DEF DagInv, Waiting, StateOk
    <3> QED  BY <1>1, <1>3, <1>6, <1>11, <3>1 DEF DagInv, Waiting
  <2> QED  BY <1>1, <1>5, <2>1, <2>2, <2>3 DEF DagInv, Waiting, IsGate
<1>14. DoneOnce'
  <2>1. \A m \in created : m \in Nodes
    BY <1>2, Finite
  <2> QED  BY <1>1, <1>3, <1>5, <1>6, <1>7, <2>1 DEF DagInv, DoneOnce
<1>15. CallsOnce'
  <2>1. n \notin freed /\ ~Retired(n)
    BY <1>2, <1>7 DEF RetiredOnce
  <2>2. \A u \in Threads : \A j \in 1 .. Len(stack[u]) : stack[u][j].node # n
    BY <1>2, <1>3, <1>7 DEF CallsOnce
  <2> QED  BY <1>1, <1>2, <1>3, <1>4, <1>5, <1>7, <2>1, <2>2, CallsCall DEF epochVars
<1>16. RetiredOnce'
  BY <1>1, <1>2, <1>7, RetiredStay DEF epochVars
<1>17. Order'
  <2>1. \A p, m : Owes(p, m)' <=> Owes(p, m) \/ (p = n /\ m \in Dependents(n))
    BY <1>1, <1>2, <1>3, <1>4, OwesCall
  <2>2. \A p, m \in created : Owes(p, m)' \/ ~Finished(p)' => Owes(p, m) \/ ~Finished(p)
    BY <1>7, <2>1
  <2>3. \A m \in created : Owes(None, m)' => Owes(None, m)
    BY <1>3, <2>1
  <2> QED  BY <1>1, <1>2, <1>7, <1>11, <2>2, <2>3, OrderStays
<1> QED  BY <1>8, <1>10, <1>12, <1>13, <1>14, <1>15, <1>16, <1>17 DEF DagInv

\* Fire: what all kinds of nodes have in common, then the gate, the queues and
\* the node that goes nowhere.
LEMMA FireOrder ==
  ASSUME GraphOk, StateOk, Order, phase = "submitted", UNCHANGED graph,
         UNCHANGED <<dependencies_left, dep>>,
         NEW t \in Threads, NEW n \in created, pc[t] = "fire", dep[t] = n,
         pc'[t] # "fire", \A u \in Threads : u # t => pc'[u] = pc[u],
         submitted' = submitted \cup {n},
         \A m \in created : Finished(m) => Finished(m)',
         \A p, m \in created : Owes(p, m)' \/ ~Finished(p)' => Owes(p, m) \/ ~Finished(p),
         \A m \in created : Owes(None, m)' => Owes(None, m)
  PROVE  Order'
<1>1. \A u \in Threads, m \in created : Firing(u, m)' => Firing(u, m) /\ u # t
  BY DEF Firing
<1>2. Firing(t, n)
  BY DEF Firing
<1>3. \A m \in created : Ready(m)' => Ready(m)
  BY <1>1, <1>2 DEF Ready
<1>4. \A m \in created : LeftOk(m)' /\ ReadyOk(m)'
  BY <1>3, OrderShrinks
<1>5. \A m \in created : Solo(m)' <=> Solo(m)
  BY DEF Preds, Solo, graph
<1>6. \A m \in created : TokenOk(m)
  BY DEF Order
<1>7. ASSUME NEW m \in created  PROVE TokenOk(m)'
  <2>1. CASE m = n
    BY <1>1, <1>2, <1>5, <1>6, <2>1 DEF TokenOk
  <2>2. CASE m # n
    BY <1>1, <1>5, <1>6, <2>2 DEF TokenOk
  <2> QED  BY <2>1, <2>2
<1>8. created' = created
  BY DEF graph, created
<1> QED  BY <1>4, <1>7, <1>8 DEF Order

LEMMA FireKeeps ==
  ASSUME DagInv, NEW t \in Threads, Fire(t)
  PROVE  DagInv'
<1>0. PICK n : n = dep[t]
  OBVIOUS
<1>1. /\ pc[t] = "fire" /\ submitted' = submitted \cup {n}
      /\ UNCHANGED <<epochVars, graph, dependencies_left, freed, dep, epoch, runs>>
  BY <1>0 DEF Fire
<1>2. /\ GraphOk /\ StateOk /\ phase = "submitted" /\ CallsOnce /\ RetiredOnce /\ Order
      /\ ControlOk /\ Waiting /\ DoneOnce
  BY <1>1, Busy DEF DagInv
<1>3. n \in created /\ n # None /\ n \in Nodes /\ Len(stack[t]) > 0
  BY <1>0, <1>1, <1>2, Finite DEF ControlOk, StateOk
<1>4. created' = created /\ kind' = kind /\ edges' = edges
  BY <1>1 DEF graph, created
<1>5. \A m \in created : Finished(m) => Finished(m)'
  BY <1>1, <1>4 DEF Finished, IsGate
<1>6. GraphOk' /\ Quiet' /\ Counted' /\ Verdict'
  BY <1>1, <1>2, GraphStays DEF GraphOk
<1>7. DoneOnce'
  BY <1>1, <1>2, <1>4 DEF DoneOnce, Finished, IsGate
<1>8. RetiredOnce'
  BY <1>1, <1>2, <1>5, RetiredStay DEF epochVars
<1>9. ASSUME n \notin submitted
      PROVE  /\ ~Finished(n) /\ (~IsGate(n) => runs[n] = 0) /\ n \notin queue
             /\ \A i \in 1 .. Len(mainQ) : mainQ[i] # n
             /\ \A u \in Threads : pc[u] = "run" => dep[u] # n
  <2>1. ~Finished(n) /\ n \notin queue
    BY <1>2, <1>3, <1>9 DEF DoneOnce, Waiting
  <2>2. ~IsGate(n) => runs[n] = 0
    <3>1. runs[n] \in Nat
      BY <1>2, <1>3 DEF StateOk
    <3> QED  BY <2>1, <3>1 DEF Finished
  <2> QED  BY <1>2, <1>9, <2>1, <2>2 DEF Waiting
<1>10. CASE /\ n \in submitted \/ kind[n] = "priority"
            /\ At(t, "each") /\ UNCHANGED <<queue, mainQ, stack>>
  <2>1. pc' = [pc EXCEPT ![t] = "each"] /\ UNCHANGED <<queue, mainQ, stack>>
    BY <1>10 DEF At
  <2>2. pc'[t] = "each" /\ \A u \in Threads : u # t => pc'[u] = pc[u]
    BY <1>2, <2>1 DEF StateOk
  <2>3. StateOk'
    BY <1>1, <1>2, <1>3, <1>4, <2>1 DEF StateOk, Frames, Retirals, Points, epochVars
  <2>4. ControlOk'
    BY <1>1, <1>2, <1>3, <2>1, <2>2 DEF ControlOk, Top
  <2>5. Waiting'
    BY <1>1, <1>2, <1>4, <2>1, <2>2 DEF Waiting, IsGate
  <2>6. CallsOnce'
    BY <1>1, <1>2, <1>5, <2>1, CallsStay DEF epochVars
  <2>7. Order'
    <3>1. \A m \in created : Finished(m)' <=> Finished(m)
      BY <1>1, <1>4, <1>10 DEF Finished, IsGate
    <3>2. \A p, m : Owes(p, m)' <=> Owes(p, m)
      BY <2>1 DEF Owes
    <3> QED  BY <1>0, <1>1, <1>2, <1>3, <2>2, <3>1, <3>2, FireOrder
  <2> QED  BY <1>6, <1>7, <1>8, <2>3, <2>4, <2>5, <2>6, <2>7 DEF DagInv
<1>11. CASE /\ n \notin submitted /\ IsGate(n) /\ Call(t, n, Dependents(n)) /\ At(t, "guard")
            /\ UNCHANGED <<queue, mainQ>>
  <2>1. pc' = [pc EXCEPT ![t] = "guard"] /\ UNCHANGED <<queue, mainQ>>
    BY <1>11 DEF At
  <2>2. pc'[t] = "guard" /\ \A u \in Threads : u # t => pc'[u] = pc[u]
    BY <1>2, <2>1 DEF StateOk
  <2>3. Dependents(n) \in SUBSET created
    BY <1>2, EdgeEnds
  <2>4. /\ stack' \in [Threads -> Seq(Frames)]
        /\ \A u \in Threads : u # t => stack'[u] = stack[u]
        /\ Len(stack[t]) \in Nat /\ Len(stack'[t]) = Len(stack[t]) + 1
        /\ stack'[t][Len(stack[t]) + 1].node = n
    BY <1>2, <1>3, <1>11, <2>3, CallEffect
  <2>5. StateOk'
    BY <1>1, <1>2, <1>3, <1>4, <2>1, <2>4 DEF StateOk, Frames, Retirals, Points, epochVars
  <2>6. ControlOk'
    <3>1. Len(stack'[t]) > 0 /\ Top(t)'.node # None
      BY <1>3, <2>4 DEF Top
    <3> QED  BY <1>1, <1>2, <2>2, <2>4, <3>1 DEF ControlOk, Top
  <2>7. Waiting'
    BY <1>1, <1>2, <1>4, <2>1, <2>2 DEF Waiting, IsGate
  <2>8. ~Finished(n) /\ Finished(n)' /\ \A m \in created : m # n => (Finished(m)' <=> Finished(m))
    BY <1>1, <1>4, <1>11 DEF Finished, IsGate
  <2>9. CallsOnce'
    <3>1. n \notin freed /\ ~Retired(n)
      BY <1>2, <2>8 DEF RetiredOnce
    <3>2. \A u \in Threads : \A j \in 1 .. Len(stack[u]) : stack[u][j].node # n
      BY <1>2, <1>3, <2>8 DEF CallsOnce
    <3> QED  BY <1>1, <1>2, <1>3, <1>4, <1>5, <1>11, <2>3, <2>8, <3>1, <3>2, CallsCall DEF epochVars
  <2>10. Order'
    <3>1. \A p, m : Owes(p, m)' <=> Owes(p, m) \/ (p = n /\ m \in Dependents(n))
      BY <1>2, <1>3, <1>11, <2>3, OwesCall
    <3>2. \A p, m \in created : Owes(p, m)' \/ ~Finished(p)' => Owes(p, m) \/ ~Finished(p)
      BY <2>8, <3>1
    <3>3. \A m \in created : Owes(None, m)' => Owes(None, m)
      BY <1>3, <3>1
    <3> QED  BY <1>0, <1>1, <1>2, <1>3, <1>5, <2>2, <3>2, <3>3, FireOrder
  <2> QED  BY <1>6, <1>7, <1>8, <2>5, <2>6, <2>7, <2>9, <2>10 DEF DagInv
<1>12. CASE /\ n \notin submitted /\ kind[n] = "main" /\ mainQ' = Append(mainQ, n)
            /\ At(t, "each") /\ UNCHANGED <<queue, stack>>
  <2>1. pc' = [pc EXCEPT ![t] = "each"] /\ mainQ' = Append(mainQ, n) /\ UNCHANGED <<queue, stack>>
    BY <1>12 DEF At
  <2>2. pc'[t] = "each" /\ \A u \in Threads : u # t => pc'[u] = pc[u]
    BY <1>2, <2>1 DEF StateOk
  <2>3. /\ mainQ' \in Seq(created) /\ Len(mainQ) \in Nat /\ Len(mainQ') = Len(mainQ) + 1
        /\ \A i \in 1 .. Len(mainQ) : mainQ'[i] = mainQ[i]
        /\ mainQ'[Len(mainQ) + 1] = n
    BY <1>2, <1>3, <2>1, AppendProperties, LenProperties DEF StateOk
  <2>4. StateOk'
    BY <1>1, <1>2, <1>3, <1>4, <2>1, <2>3 DEF StateOk, Frames, Retirals, Points, epochVars
  <2>5. ControlOk'
    BY <1>1, <1>2, <1>3, <2>1, <2>2 DEF ControlOk, Top
  <2>6. Waiting'
    <3>0. \A i \in 1 .. Len(mainQ') : i \in 1 .. Len(mainQ) \/ i = Len(mainQ) + 1
      BY <2>3
    <3>1. \A i \in 1 .. Len(mainQ') :
            mainQ'[i] \in submitted' /\ kind[mainQ'[i]] = "main" /\ runs[mainQ'[i]] = 0
      BY <1>1, <1>2, <1>9, <1>12, <2>3, <3>0 DEF Waiting, IsGate
    <3>2. \A i, j \in 1 .. Len(mainQ') : mainQ'[i] = mainQ'[j] => i = j
      BY <1>2, <1>9, <1>12, <2>3, <3>0 DEF Waiting
    <3>3. \A u \in Threads : pc'[u] = "run" =>
            pc[u] = "run" /\ dep'[u] = dep[u] /\ \A i \in 1 .. Len(mainQ') : mainQ'[i] # dep[u]
      BY <1>1, <1>2, <1>9, <1>12, <2>2, <2>3, <3>0 DEF Waiting
    <3> QED  BY <1>1, <1>2, <1>4, <2>1, <3>1, <3>2, <3>3 DEF Waiting, IsGate
  <2>7. CallsOnce'
    BY <1>1, <1>2, <1>5, <2>1, CallsStay DEF epochVars
  <2>8. Order'
    <3>1. \A m \in created : Finished(m)' <=> Finished(m)
      BY <1>1, <1>4, <1>12 DEF Finished, IsGate
    <3>2. \A p, m : Owes(p, m)' <=> Owes(p, m)
      BY <2>1 DEF Owes
    <3> QED  BY <1>0, <1>1, <1>2, <1>3, <2>2, <3>1, <3>2, FireOrder
  <2> QED  BY <1>6, <1>7, <1>8, <2>4, <2>5, <2>6, <2>7, <2>8 DEF DagInv
<1>13. CASE /\ n \notin submitted /\ kind[n] = "task" /\ queue' = queue \cup {n}
            /\ At(t, "each") /\ UNCHANGED <<mainQ, stack>>
  <2>1. pc' = [pc EXCEPT ![t] = "each"] /\ queue' = queue \cup {n} /\ UNCHANGED <<mainQ, stack>>
    BY <1>13 DEF At
  <2>2. pc'[t] = "each" /\ \A u \in Threads : u # t => pc'[u] = pc[u]
    BY <1>2, <2>1 DEF StateOk
  <2>3. StateOk'
    BY <1>1, <1>2, <1>3, <1>4, <2>1 DEF StateOk, Frames, Retirals, Points, epochVars
  <2>4. ControlOk'
    BY <1>1, <1>2, <1>3, <2>1, <2>2 DEF ControlOk, Top
  <2>5. Waiting'
    <3>1. \A u \in Threads : pc'[u] = "run" => pc[u] = "run" /\ dep'[u] = dep[u] /\ dep[u] # n
      BY <1>1, <1>9, <1>13, <2>2
    <3>2. \A m \in queue' : m \in submitted' /\ kind[m] = "task" /\ runs[m] = 0
      BY <1>1, <1>2, <1>9, <1>13, <2>1 DEF Waiting, IsGate
    <3> QED  BY <1>1, <1>2, <1>4, <2>1, <3>1, <3>2 DEF Waiting, IsGate
  <2>6. CallsOnce'
    BY <1>1, <1>2, <1>5, <2>1, CallsStay DEF epochVars
  <2>7. Order'
    <3>1. \A m \in created : Finished(m)' <=> Finished(m)
      BY <1>1, <1>4, <1>13 DEF Finished, IsGate
    <3>2. \A p, m : Owes(p, m)' <=> Owes(p, m)
      BY <2>1 DEF Owes
    <3> QED  BY <1>0, <1>1, <1>2, <1>3, <2>2, <3>1, <3>2, FireOrder
  <2> QED  BY <1>6, <1>7, <1>8, <2>3, <2>4, <2>5, <2>6, <2>7 DEF DagInv
<1> QED  BY <1>0, <1>10, <1>11, <1>12, <1>13 DEF Fire

\* A return takes a frame away and leaves the others.
LEMMA CallsPop ==
  ASSUME CallsOnce, StateOk, UNCHANGED <<graph, submitted, runs, pending, freed>>,
         NEW t \in Threads, Len(stack[t]) > 0, Pop(t),
         \A n : Retired(n)' => Retired(n) \/ n = Top(t).node
  PROVE  CallsOnce'
<1> DEFINE L == Len(stack[t])
<1>1. /\ \A u \in Threads : u # t => stack'[u] = stack[u]
      /\ L \in Nat /\ Len(stack'[t]) = L - 1
      /\ \A i \in 1 .. L - 1 : stack'[t][i] = stack[t][i]
      /\ stack[t][L] = Top(t) /\ L \in 1 .. L
  BY PopEffect DEF Top
<1> HIDE DEF L
<1>2. ASSUME NEW u \in Threads, NEW i \in 1 .. Len(stack'[u])
      PROVE  i \in 1 .. Len(stack[u]) /\ stack'[u][i] = stack[u][i] /\ ~(u = t /\ i = L)
  BY <1>1 DEF L
<1>3. \A n : Dependents(n)' = Dependents(n) /\ (Finished(n)' <=> Finished(n))
  BY DEF Dependents, Finished, IsGate, graph
<1>4. ASSUME NEW u \in Threads, NEW i \in 1 .. Len(stack'[u])
      PROVE  stack'[u][i].node # Top(t).node
  <2>1. i \in 1 .. Len(stack[u]) /\ stack'[u][i] = stack[u][i] /\ ~(u = t /\ i = L)
    BY <1>2
  <2>2. L \in 1 .. Len(stack[t]) /\ stack[t][L].node = Top(t).node
    BY <1>1 DEF L
  <2> QED  BY <2>1, <2>2 DEF CallsOnce
<1>5. ASSUME NEW u \in Threads, NEW i \in 1 .. Len(stack'[u]), NEW d, d = stack'[u][i].node
      PROVE  /\ d # None => Finished(d)' /\ stack'[u][i].todo \subseteq Dependents(d)'
             /\ d \notin freed' /\ ~Retired(d)'
  <2>1. i \in 1 .. Len(stack[u]) /\ stack'[u][i] = stack[u][i] /\ d = stack[u][i].node
    BY <1>2, <1>5
  <2>2. /\ d # None => Finished(d) /\ stack[u][i].todo \subseteq Dependents(d)
        /\ d \notin freed /\ ~Retired(d)
    BY <2>1 DEF CallsOnce
  <2>3. d # Top(t).node
    BY <1>4, <1>5
  <2>4. ~Retired(d)'
    BY <2>2, <2>3
  <2> QED  BY <1>3, <2>1, <2>2, <2>4
<1>6. ASSUME NEW u \in Threads, NEW i \in 1 .. Len(stack'[u]),
             NEW v \in Threads, NEW j \in 1 .. Len(stack'[v]), stack'[v][j].node = stack'[u][i].node
      PROVE  v = u /\ j = i
  <2>1. i \in 1 .. Len(stack[u]) /\ stack'[u][i] = stack[u][i]
    BY <1>2
  <2>2. j \in 1 .. Len(stack[v]) /\ stack'[v][j] = stack[v][j]
    BY <1>2
  <2>3. stack[v][j].node = stack[u][i].node
    BY <1>6, <2>1, <2>2
  <2> QED  BY <2>1, <2>2, <2>3 DEF CallsOnce
<1> QED  BY <1>5, <1>6 DEF CallsOnce

\* What a return leaves in order, whether the node is retired or it is Submit.
LEMMA PopKeeps ==
  ASSUME DagInv, NEW t \in Threads, pc[t] \in {"each", "retire"}, Top(t).todo = {}, Pop(t),
         UNCHANGED <<graph, dependencies_left, submitted, queue, mainQ, freed, runs,
                     globalEpoch, pending>>,
         incoming' \in Seq(Retirals)
  PROVE  /\ GraphOk' /\ Quiet' /\ Counted' /\ Verdict' /\ StateOk' /\ ControlOk'
         /\ Waiting' /\ DoneOnce' /\ Order'
<1>1. /\ GraphOk /\ StateOk /\ phase = "submitted" /\ ControlOk /\ Waiting /\ DoneOnce /\ Order
      /\ Len(stack[t]) > 0
  BY Busy DEF DagInv, ControlOk
<1>2. /\ dep' = [dep EXCEPT ![t] = None] /\ epoch' = [epoch EXCEPT ![t] = 0]
      /\ pc' = [pc EXCEPT ![t] = IF Len(stack[t]) = 1 THEN "idle" ELSE "each"]
  BY DEF Pop, At
<1>3. /\ stack' \in [Threads -> Seq(Frames)]
      /\ \A u \in Threads : u # t => stack'[u] = stack[u]
      /\ Len(stack[t]) \in Nat /\ Len(stack'[t]) = Len(stack[t]) - 1
  BY <1>1, PopEffect
<1>4. created' = created /\ kind' = kind /\ \A m : Finished(m)' <=> Finished(m)
  BY DEF graph, created, Finished, IsGate
<1>5. GraphOk' /\ Quiet' /\ Counted' /\ Verdict'
  BY <1>1, GraphStays DEF GraphOk
<1>6. /\ pc'[t] \in {"idle", "each"} /\ (pc'[t] = "each" => Len(stack'[t]) > 0)
      /\ \A u \in Threads : u # t => pc'[u] = pc[u] /\ dep'[u] = dep[u]
  <2>1. pc \in [Threads -> Points] /\ dep \in [Threads -> created \cup {None}]
    BY <1>1 DEF StateOk
  <2>2. \A u \in Threads : u # t => pc'[u] = pc[u] /\ dep'[u] = dep[u]
    BY <1>2, <2>1
  <2>3. pc'[t] = IF Len(stack[t]) = 1 THEN "idle" ELSE "each"
    BY <1>2, <2>1
  <2>4. CASE Len(stack[t]) = 1
    BY <2>2, <2>3, <2>4
  <2>5. CASE Len(stack[t]) # 1
    <3>1. \A k, l : k \in Nat /\ k > 0 /\ k # 1 /\ l = k - 1 => l > 0
      OBVIOUS
    <3>2. Len(stack'[t]) > 0
      BY <1>1, <1>3, <2>5, <3>1
    <3> QED  BY <2>2, <2>3, <2>5, <3>2
  <2> QED  BY <2>4, <2>5
<1>7. StateOk'
  <2>1. /\ dep' \in [Threads -> created \cup {None}] /\ epoch' \in [Threads -> Nat]
        /\ pc' \in [Threads -> Points]
    BY <1>1, <1>2 DEF StateOk, Points
  <2> QED  BY <1>1, <1>3, <1>4, <2>1 DEF StateOk, Frames, Retirals
<1>8. ControlOk'
  BY <1>1, <1>3, <1>6 DEF ControlOk, Top
<1>9. Waiting'
  BY <1>1, <1>4, <1>6 DEF Waiting, IsGate
<1>10. DoneOnce'
  BY <1>1, <1>4 DEF DoneOnce
<1>11. Order'
  <2>1. \A p, m : Owes(p, m)' <=> Owes(p, m)
    BY <1>1, OwesPop
  <2> QED  BY <1>1, <1>4, <1>6, <2>1, OrderStays
<1> QED  BY <1>5, <1>7, <1>8, <1>9, <1>10, <1>11

LEMMA SubmitReturnsKeeps ==
  ASSUME DagInv, SubmitReturns
  PROVE  DagInv'
<1>1. /\ pc[Main] = "each" /\ Top(Main).todo = {} /\ Pop(Main) /\ Main \in Threads
      /\ UNCHANGED <<epochVars, graph, dependencies_left, submitted, queue, mainQ, freed, runs>>
  BY DagAssumption DEF SubmitReturns
<1>2. StateOk /\ CallsOnce /\ RetiredOnce /\ Len(stack[Main]) > 0
  BY <1>1 DEF DagInv, ControlOk
<1>3. incoming' = incoming /\ pending' = pending /\ globalEpoch' = globalEpoch
  BY <1>1 DEF epochVars
<1>4. /\ GraphOk' /\ Quiet' /\ Counted' /\ Verdict' /\ StateOk' /\ ControlOk'
      /\ Waiting' /\ DoneOnce' /\ Order'
  BY <1>1, <1>2, <1>3, PopKeeps DEF StateOk
<1>5. \A n : Retired(n)' <=> Retired(n)
  BY <1>3 DEF Retired
<1>6. CallsOnce'
  BY <1>1, <1>2, <1>3, <1>5, CallsPop
<1>7. RetiredOnce'
  <2>1. \A n \in created : Finished(n) => Finished(n)'
    BY <1>1 DEF Finished, IsGate, graph
  <2> QED  BY <1>1, <1>2, <1>3, <2>1, RetiredStay
<1> QED  BY <1>4, <1>6, <1>7 DEF DagInv

LEMMA RetireKeeps ==
  ASSUME DagInv, NEW t \in Threads, Retire(t)
  PROVE  DagInv'
<1>0. PICK n : n = Top(t).node
  OBVIOUS
<1> DEFINE r == [ptr |-> n, epoch |-> epoch[t]]
<1>1. /\ pc[t] = "retire" /\ incoming' = Append(incoming, r) /\ Pop(t)
      /\ UNCHANGED <<globalEpoch, pending, graph, dependencies_left, submitted, queue, mainQ,
                     freed, runs>>
  BY <1>0 DEF Retire, RetirePtr
<1>2. /\ StateOk /\ CallsOnce /\ RetiredOnce /\ Len(stack[t]) > 0 /\ Top(t).todo = {} /\ n # None
  BY <1>0, <1>1 DEF DagInv, ControlOk
<1>3. Len(stack[t]) \in 1 .. Len(stack[t]) /\ stack[t][Len(stack[t])].node = n
  BY <1>0, <1>2, Elements DEF Top
<1>4. n \in created /\ Finished(n) /\ n \notin freed /\ ~Retired(n)
  BY <1>2, <1>3, Elements DEF CallsOnce
<1>5. r \in Retirals /\ r.ptr = n
  BY <1>2, <1>4 DEF Retirals, StateOk
<1> HIDE DEF r
<1>6. /\ incoming' \in Seq(Retirals) /\ Len(incoming) \in Nat /\ Len(incoming') = Len(incoming) + 1
      /\ \A i \in 1 .. Len(incoming) : incoming'[i] = incoming[i]
      /\ incoming'[Len(incoming) + 1] = r
  BY <1>1, <1>2, <1>5, AppendProperties, LenProperties DEF StateOk
<1>7. /\ GraphOk' /\ Quiet' /\ Counted' /\ Verdict' /\ StateOk' /\ ControlOk'
      /\ Waiting' /\ DoneOnce' /\ Order'
  BY <1>1, <1>2, <1>6, PopKeeps
<1>8. \A i \in 1 .. Len(incoming') : i \in 1 .. Len(incoming) \/ i = Len(incoming) + 1
  BY <1>6
<1>9. \A m : Retired(m)' => Retired(m) \/ m = n
  BY <1>1, <1>5, <1>6, <1>8 DEF Retired
<1>10. CallsOnce'
  BY <1>0, <1>1, <1>2, <1>9, CallsPop
<1>11. RetiredOnce'
  <2>1. \A m : Finished(m)' <=> Finished(m)
    BY <1>1 DEF Finished, IsGate, graph
  <2>2. \A m : Retired(m)' => Finished(m)' /\ m \notin freed'
    BY <1>1, <1>2, <1>4, <1>9, <2>1 DEF RetiredOnce
  <2>3. \A i \in 1 .. Len(incoming) : incoming[i].ptr # n
    BY <1>4 DEF Retired
  <2>4. \A j \in 1 .. Len(pending) : pending[j].ptr # n
    BY <1>4 DEF Retired
  <2>5. \A i, j \in 1 .. Len(incoming') : incoming'[i].ptr = incoming'[j].ptr => i = j
    BY <1>2, <1>5, <1>6, <1>8, <2>3 DEF RetiredOnce
  <2>6. \A i \in 1 .. Len(incoming'), j \in 1 .. Len(pending') : incoming'[i].ptr # pending'[j].ptr
    BY <1>1, <1>2, <1>5, <1>6, <1>8, <2>4 DEF RetiredOnce
  <2>7. phase' = phase
    BY <1>1 DEF graph
  <2> QED  BY <1>1, <1>2, <2>1, <2>2, <2>5, <2>6, <2>7 DEF RetiredOnce
<1> QED  BY <1>7, <1>10, <1>11 DEF DagInv
-----------------------------------------------------------------------------
(* A visit: the node is taken from the list, and fires or waits on.        *)

\* What a visit leaves for the other nodes.
LEMMA VisitOthers ==
  ASSUME GraphOk, Order, phase = "submitted", UNCHANGED graph, UNCHANGED submitted,
         NEW t \in Threads, NEW n \in created, NEW m \in created, m # n,
         dependencies_left'[m] = dependencies_left[m],
         \A p : Finished(p)' <=> Finished(p), \A p : Owes(p, m)' <=> Owes(p, m),
         \A u \in Threads : Firing(u, m)' <=> Firing(u, m)
  PROVE  LeftOk(m)' /\ ReadyOk(m)' /\ TokenOk(m)'
<1>1. Preds(m)' = Preds(m) /\ kind' = kind /\ (Solo(m)' <=> Solo(m))
  BY DEF Preds, Solo, graph
<1>2. Unvisited(m)' = Unvisited(m)
  BY <1>1 DEF Unvisited
<1>3. Ready(m)' <=> Ready(m)
  BY DEF Ready
<1>4. LeftOk(m) /\ ReadyOk(m) /\ TokenOk(m)
  BY DEF Order
<1>5. LeftOk(m)'
  BY <1>1, <1>2, <1>4 DEF LeftOk
<1>6. ReadyOk(m)'
  BY <1>1, <1>2, <1>3, <1>4 DEF ReadyOk
<1>7. TokenOk(m)'
  BY <1>1, <1>4 DEF TokenOk
<1> QED  BY <1>5, <1>6, <1>7

LEMMA VisitOrder ==
  ASSUME DagInv, phase = "submitted", NEW t \in Threads, NEW n, NEW d, pc[t] = "each",
         d = Top(t).node, n \in Top(t).todo,
         stack' = [stack EXCEPT ![t][Len(stack[t])].todo = @ \ {n}],
         dep' = [dep EXCEPT ![t] = n], UNCHANGED graph, UNCHANGED <<submitted, runs>>,
         \/ (d = None \/ kind[n] = "OR") /\ At(t, "fire") /\ UNCHANGED dependencies_left
         \/ /\ d # None /\ kind[n] # "OR"
            /\ dependencies_left' = [dependencies_left EXCEPT ![n] = @ - 1]
            /\ At(t, IF dependencies_left[n] = 1 THEN "fire" ELSE "each")
  PROVE  Order'
<1>1. GraphOk /\ StateOk /\ Order /\ CallsOnce /\ Len(stack[t]) > 0
  BY DEF DagInv, ControlOk
<1>2. Len(stack[t]) \in 1 .. Len(stack[t]) /\ stack[t][Len(stack[t])] = Top(t)
  BY <1>1, Elements DEF Top
<1>3. n \in created /\ n # None /\ n \in Nodes /\ dependencies_left[n] \in Int
  BY <1>1, <1>2, Elements, Finite
<1>4. /\ Owes(d, n)
      /\ \A p, m : Owes(p, m)' <=> Owes(p, m) /\ ~(p = d /\ m = n)
  BY <1>1, OwesVisit
<1>5. \A p : Finished(p)' <=> Finished(p)
  BY DEF Finished, IsGate, graph
<1>6. d # None => Finished(d) /\ d \in Preds(n)
  BY <1>1, <1>2, EdgeEnds DEF CallsOnce
<1>7. pc'[t] \in {"fire", "each"} /\ \A u \in Threads : u # t => pc'[u] = pc[u] /\ dep'[u] = dep[u]
  <2>1. pc \in [Threads -> Points] /\ dep \in [Threads -> created \cup {None}]
    BY <1>1 DEF StateOk
  <2> QED  BY <2>1 DEF At
<1>8. dep'[t] = n
  BY <1>1 DEF StateOk
<1>9. /\ \A u \in Threads : \A m : u # t => (Firing(u, m)' <=> Firing(u, m))
      /\ \A m : ~Firing(t, m) /\ (Firing(t, m)' <=> pc'[t] = "fire" /\ m = n)
  BY <1>7, <1>8 DEF Firing
<1>10. \A m \in created : m # n => dependencies_left'[m] = dependencies_left[m]
  BY <1>1 DEF GraphOk
<1>11. ASSUME NEW m \in created, m # n  PROVE LeftOk(m)' /\ ReadyOk(m)' /\ TokenOk(m)'
  <2>1. \A u \in Threads : Firing(u, m)' <=> Firing(u, m)
    BY <1>9, <1>11
  <2>2. \A p : Owes(p, m)' <=> Owes(p, m)
    BY <1>4, <1>11
  <2> QED  BY <1>1, <1>3, <1>5, <1>10, <1>11, <2>1, <2>2, VisitOthers
<1>12. Preds(n)' = Preds(n) /\ kind' = kind /\ (Solo(n)' <=> Solo(n))
  BY DEF Preds, Solo, graph
<1>13. LeftOk(n) /\ ReadyOk(n) /\ TokenOk(n)
  BY <1>1, <1>3 DEF Order
<1>14. ASSUME d = None  PROVE LeftOk(n)' /\ ReadyOk(n)' /\ TokenOk(n)'
  <2>1. pc'[t] = "fire" /\ dependencies_left' = dependencies_left
    BY <1>1, <1>14 DEF At, StateOk
  <2>2. Unvisited(n)' = Unvisited(n)
    <3>1. None \notin Preds(n)
      BY <1>1, Finite
    <3> QED  BY <1>4, <1>5, <1>12, <1>14, <3>1 DEF Unvisited
  <2>3. Ready(n) /\ Owes(None, n) /\ ~Owes(None, n)'
    BY <1>4, <1>14 DEF Ready
  <2>4. LeftOk(n)'
    BY <1>12, <1>13, <2>1, <2>2 DEF LeftOk
  <2>5. ReadyOk(n)'
    BY <1>5, <1>12, <1>13, <2>2, <2>3 DEF ReadyOk
  <2>6. TokenOk(n)'
    BY <1>9, <1>12, <1>13, <2>3 DEF TokenOk
  <2> QED  BY <2>4, <2>5, <2>6
<1>15. ASSUME d # None
       PROVE  /\ d \in Unvisited(n) /\ Unvisited(n)' = Unvisited(n) \ {d}
              /\ Owes(None, n)' <=> Owes(None, n)
              /\ Solo(n) => ~Ready(n) /\ TokenOk(n)'
  <2>1. d \in Unvisited(n)
    BY <1>4, <1>6, <1>15 DEF Unvisited
  <2>2. Unvisited(n)' = Unvisited(n) \ {d}
    BY <1>4, <1>5, <1>6, <1>12, <1>15 DEF Unvisited
  <2>3. Owes(None, n)' <=> Owes(None, n)
    BY <1>4, <1>15
  <2>4. Solo(n) => ~Ready(n)
    BY <1>13, <2>1 DEF ReadyOk
  <2>5. Solo(n) => TokenOk(n)'
    BY <1>9, <1>12, <2>3, <2>4 DEF TokenOk, Ready
  <2> QED  BY <2>1, <2>2, <2>3, <2>4, <2>5
<1>16. ASSUME d # None, kind[n] = "OR"  PROVE LeftOk(n)' /\ ReadyOk(n)' /\ TokenOk(n)'
  <2>1. LeftOk(n)'
    BY <1>12, <1>16 DEF LeftOk
  <2>2. Solo(n) => Unvisited(n)' = {}
    BY <1>6, <1>15, <1>16 DEF Solo, Unvisited
  <2>3. ReadyOk(n)'
    BY <1>5, <1>6, <1>12, <1>16, <2>2 DEF ReadyOk
  <2>4. TokenOk(n)'
    BY <1>12, <1>15, <1>16 DEF TokenOk
  <2> QED  BY <2>1, <2>3, <2>4
<1>17. ASSUME d # None, kind[n] # "OR"  PROVE LeftOk(n)' /\ ReadyOk(n)' /\ TokenOk(n)'
  <2>1. /\ dependencies_left'[n] = dependencies_left[n] - 1
        /\ pc'[t] = "fire" => dependencies_left[n] = 1
    <3>1. dependencies_left \in [Nodes -> Int] /\ pc \in [Threads -> Points]
      BY <1>1 DEF GraphOk, StateOk
    <3> QED  BY <1>3, <1>17, <3>1 DEF At
  <2>2. Solo(n) /\ ~Ready(n) /\ dependencies_left[n] >= Cardinality(Unvisited(n))
    BY <1>13, <1>15, <1>17 DEF Solo, LeftOk
  <2>3. IsFiniteSet(Unvisited(n))
    <3>1. Unvisited(n) \subseteq Preds(n) /\ IsFiniteSet(Preds(n))
      BY <1>1, Finite DEF Unvisited
    <3> QED  BY <3>1, FS_Subset
  <2>4. /\ Cardinality(Unvisited(n)') = Cardinality(Unvisited(n)) - 1
        /\ Cardinality(Unvisited(n)) \in Nat /\ IsFiniteSet(Unvisited(n)')
        /\ Cardinality(Unvisited(n)') \in Nat
    BY <1>15, <1>17, <2>3, FS_RemoveElement, FS_CardinalityType
  <2>5. LeftOk(n)'
    BY <1>3, <2>1, <2>2, <2>4 DEF LeftOk
  <2>6. pc'[t] = "fire" => Unvisited(n)' = {}
    <3>1. pc'[t] = "fire" => Cardinality(Unvisited(n)') = 0
      BY <1>3, <2>1, <2>2, <2>4
    <3> QED  BY <2>4, <3>1, FS_EmptySet
  <2>7. ReadyOk(n)'
    <3>1. Ready(n)' => pc'[t] = "fire"
      BY <1>9, <1>15, <1>17, <2>2 DEF Ready
    <3> QED  BY <1>12, <2>2, <2>6, <3>1 DEF ReadyOk
  <2>8. TokenOk(n)'
    BY <1>15, <1>17, <2>2
  <2> QED  BY <2>5, <2>7, <2>8
<1>18. created' = created
  BY DEF graph, created
<1> QED  BY <1>11, <1>14, <1>16, <1>17, <1>18 DEF Order

LEMMA VisitKeeps ==
  ASSUME DagInv, NEW t \in Threads, Visit(t)
  PROVE  DagInv'
<1>0. PICK d : d = Top(t).node
  OBVIOUS
<1>1. PICK n \in Top(t).todo :
        /\ stack' = [stack EXCEPT ![t][Len(stack[t])].todo = @ \ {n}]
        /\ dep' = [dep EXCEPT ![t] = n]
        /\ \/ (d = None \/ kind[n] = "OR") /\ At(t, "fire") /\ UNCHANGED dependencies_left
           \/ /\ d # None /\ kind[n] # "OR"
              /\ dependencies_left' = [dependencies_left EXCEPT ![n] = @ - 1]
              /\ At(t, IF dependencies_left[n] = 1 THEN "fire" ELSE "each")
  BY <1>0 DEF Visit
<1>2. /\ pc[t] = "each"
      /\ UNCHANGED <<epochVars, graph, submitted, queue, mainQ, freed, epoch, runs>>
  BY DEF Visit
<1>3. /\ GraphOk /\ StateOk /\ phase = "submitted" /\ CallsOnce /\ RetiredOnce /\ Order
      /\ ControlOk /\ Waiting /\ DoneOnce /\ Len(stack[t]) > 0
  BY <1>2, Busy DEF DagInv, ControlOk
<1>4. Len(stack[t]) \in 1 .. Len(stack[t]) /\ stack[t][Len(stack[t])] = Top(t)
  BY <1>3, Elements DEF Top
<1>5. n \in created /\ n # None /\ n \in Nodes
  BY <1>3, <1>4, Elements, Finite
<1>6. /\ stack' \in [Threads -> Seq(Frames)]
      /\ \A u \in Threads : Len(stack'[u]) = Len(stack[u])
      /\ \A u \in Threads : \A i \in 1 .. Len(stack[u]) :
           /\ stack'[u][i].node = stack[u][i].node
           /\ stack'[u][i].todo \subseteq stack[u][i].todo
  <2> DEFINE L == Len(stack[t])
  <2>1. /\ stack' \in [Threads -> Seq(Frames)]
        /\ \A u \in Threads : Len(stack'[u]) = Len(stack[u])
        /\ \A u \in Threads : \A i \in 1 .. Len(stack[u]) :
             /\ stack'[u][i].node = stack[u][i].node
             /\ ~(u = t /\ i = L) => stack'[u][i].todo = stack[u][i].todo
        /\ stack'[t][L].todo = stack[t][L].todo \ {n}
    BY <1>1, <1>3, VisitEffect
  <2> HIDE DEF L
  <2>2. stack'[t][L].todo \subseteq stack[t][L].todo
    BY <2>1
  <2>3. ASSUME NEW u \in Threads, NEW i \in 1 .. Len(stack[u])
        PROVE  stack'[u][i].todo \subseteq stack[u][i].todo
    <3>1. CASE u = t /\ i = L
      BY <2>2, <3>1
    <3>2. CASE ~(u = t /\ i = L)
      BY <2>1, <3>2
    <3> QED  BY <3>1, <3>2
  <2> QED  BY <2>1, <2>3
<1>7. created' = created /\ kind' = kind /\ \A m : Finished(m)' <=> Finished(m)
  BY <1>2 DEF graph, created, Finished, IsGate
<1>8. /\ pc' \in [Threads -> Points] /\ dep' \in [Threads -> created \cup {None}]
      /\ dependencies_left' \in [Nodes -> Int]
      /\ \A m \in Nodes \ created : dependencies_left'[m] = dependencies_left[m]
  <2>1. /\ pc \in [Threads -> Points] /\ dep \in [Threads -> created \cup {None}]
        /\ dependencies_left \in [Nodes -> Int]
    BY <1>3 DEF StateOk, GraphOk
  <2> QED  BY <1>1, <1>5, <2>1 DEF At, Points
<1>9. /\ pc'[t] \in {"fire", "each"} /\ dep'[t] = n
      /\ \A u \in Threads : u # t => pc'[u] = pc[u] /\ dep'[u] = dep[u]
  <2>1. pc \in [Threads -> Points] /\ dep \in [Threads -> created \cup {None}]
    BY <1>3 DEF StateOk
  <2> QED  BY <1>1, <2>1 DEF At
<1>10. GraphOk' /\ Quiet' /\ Counted' /\ Verdict'
  BY <1>2, <1>3, <1>8, GraphStays
<1>11. StateOk'
  BY <1>2, <1>3, <1>6, <1>7, <1>8 DEF StateOk, Frames, Retirals, epochVars
<1>12. ControlOk'
  <2>1. \A u \in Threads : u # t => stack'[u] = stack[u]
    BY <1>1, <1>3 DEF StateOk
  <2> QED  BY <1>3, <1>5, <1>6, <1>9, <2>1 DEF ControlOk, Top
<1>13. Waiting'
  BY <1>2, <1>3, <1>7, <1>9 DEF Waiting, IsGate
<1>14. DoneOnce'
  BY <1>2, <1>3, <1>7 DEF DoneOnce
<1>15. CallsOnce'
  <2>1. \A m : Dependents(m)' = Dependents(m) /\ (Retired(m)' <=> Retired(m))
    BY <1>2 DEF Dependents, graph, Retired, epochVars
  <2>2. ASSUME NEW u \in Threads, NEW i \in 1 .. Len(stack'[u]), NEW x, x = stack'[u][i].node
        PROVE  /\ x # None => Finished(x)' /\ stack'[u][i].todo \subseteq Dependents(x)'
               /\ x \notin freed' /\ ~Retired(x)'
    <3>1. i \in 1 .. Len(stack[u]) /\ x = stack[u][i].node /\ stack'[u][i].todo \subseteq stack[u][i].todo
      BY <1>6, <2>2
    <3>2. /\ x # None => Finished(x) /\ stack[u][i].todo \subseteq Dependents(x)
          /\ x \notin freed /\ ~Retired(x)
      BY <1>3, <3>1 DEF CallsOnce
    <3> QED  BY <1>2, <1>7, <2>1, <3>1, <3>2
  <2>3. \A u \in Threads : \A i \in 1 .. Len(stack'[u]) :
          \A v \in Threads : \A j \in 1 .. Len(stack'[v]) :
            stack'[v][j].node = stack'[u][i].node => v = u /\ j = i
    BY <1>3, <1>6 DEF CallsOnce
  <2> QED  BY <2>2, <2>3 DEF CallsOnce
<1>16. RetiredOnce'
  BY <1>2, <1>3, <1>7, RetiredStay DEF epochVars
<1>17. Order'
  BY <1>0, <1>1, <1>2, <1>3, VisitOrder
<1> QED  BY <1>10, <1>11, <1>12, <1>13, <1>14, <1>15, <1>16, <1>17 DEF DagInv
-----------------------------------------------------------------------------
(* Tick: retired nodes move on, and some of them are freed.                *)

LEMMA TickKeeps ==
  ASSUME DagInv, UNCHANGED <<graph, dependencies_left, submitted, queue, mainQ, locals, runs>>,
         globalEpoch' \in Nat, incoming' \in Seq(Retirals), pending' \in Seq(Retirals),
         \A i, j \in 1 .. Len(incoming') : incoming'[i].ptr = incoming'[j].ptr => i = j,
         \A i, j \in 1 .. Len(pending') : pending'[i].ptr = pending'[j].ptr => i = j,
         \A i \in 1 .. Len(incoming'), j \in 1 .. Len(pending') : incoming'[i].ptr # pending'[j].ptr,
         \A n : Retired(n)' => Retired(n) /\ n \notin freed',
         freed \subseteq freed', \A n \in freed' : n \in freed \/ Retired(n)
  PROVE  DagInv'
<1>1. /\ GraphOk /\ StateOk /\ CallsOnce /\ RetiredOnce /\ Order
      /\ ControlOk /\ Waiting /\ DoneOnce /\ Quiet /\ Counted /\ Verdict
  BY DEF DagInv
<1>2. /\ phase' = phase /\ kind' = kind /\ edges' = edges /\ calls' = calls /\ created' = created
      /\ pc' = pc /\ stack' = stack /\ dep' = dep /\ epoch' = epoch
  BY DEF graph, locals, created
<1>3. \A n : (Finished(n)' <=> Finished(n)) /\ Dependents(n)' = Dependents(n) /\ Preds(n)' = Preds(n)
  BY <1>2 DEF Finished, IsGate, Dependents, Preds
<1>4. GraphOk' /\ Counted' /\ Verdict'
  BY <1>1, <1>2, <1>3 DEF GraphOk, Counted, Exact, Over, Verdict, Sortable
<1>5. freed' \subseteq created
  BY <1>1, Elements DEF StateOk
<1>6. StateOk'
  BY <1>1, <1>2, <1>5 DEF StateOk, Frames, Retirals
<1>7. ControlOk' /\ Waiting' /\ DoneOnce'
  BY <1>1, <1>2, <1>3 DEF ControlOk, Top, Waiting, IsGate, DoneOnce
<1>8. Quiet'
  <2> SUFFICES ASSUME phase # "submitted"
               PROVE  incoming' = << >> /\ pending' = << >> /\ freed' = freed
    BY <1>1, <1>2 DEF Quiet
  <2>1. \A n : ~Retired(n)
    BY <1>1 DEF Quiet, Retired
  <2>2. freed' = freed /\ \A n : ~Retired(n)'
    BY <2>1
  <2>3. 1 \notin 1 .. Len(incoming') /\ 1 \notin 1 .. Len(pending')
    BY <2>2 DEF Retired
  <2>4. Len(incoming') \in Nat /\ Len(pending') \in Nat
    OBVIOUS
  <2>5. Len(incoming') = 0 /\ Len(pending') = 0
    BY <2>3, <2>4
  <2> QED  BY <2>2, <2>5, EmptySeq
<1>9. CallsOnce'
  <2>1. ASSUME NEW u \in Threads, NEW i \in 1 .. Len(stack[u]), NEW d, d = stack[u][i].node
        PROVE  d \notin freed' /\ ~Retired(d)'
    <3>1. d \notin freed /\ ~Retired(d)
      BY <1>1, <2>1 DEF CallsOnce
    <3> QED  BY <3>1
  <2>2. ASSUME NEW u \in Threads, NEW i \in 1 .. Len(stack[u]), NEW d, d = stack[u][i].node
        PROVE  d # None => Finished(d)' /\ stack[u][i].todo \subseteq Dependents(d)'
    BY <1>1, <1>3, <2>2 DEF CallsOnce
  <2>3. \A u \in Threads : \A i \in 1 .. Len(stack[u]) :
          \A v \in Threads : \A j \in 1 .. Len(stack[v]) :
            stack[v][j].node = stack[u][i].node => v = u /\ j = i
    BY <1>1 DEF CallsOnce
  <2> QED  BY <1>2, <2>1, <2>2, <2>3 DEF CallsOnce
<1>10. RetiredOnce'
  BY <1>1, <1>2, <1>3 DEF RetiredOnce
<1>11. Order'
  <2>1. CASE phase = "submitted"
    BY <1>1, <1>2, <2>1, OrderSame
  <2>2. CASE phase # "submitted"
    BY <1>2, <2>2 DEF Order
  <2> QED  BY <2>1, <2>2
<1> QED  BY <1>4, <1>6, <1>7, <1>8, <1>9, <1>10, <1>11 DEF DagInv

LEMMA TickStepKeeps ==
  ASSUME DagInv, NEW t \in Threads, TickStep(t), UNCHANGED dagVars
  PROVE  DagInv'
<1>1. StateOk /\ RetiredOnce
  BY DEF DagInv
<1>2. UNCHANGED <<graph, dependencies_left, submitted, queue, mainQ, freed, locals, runs>>
  BY DEF dagVars
<1>3. globalEpoch \in Nat /\ incoming \in Seq(Retirals) /\ pending \in Seq(Retirals)
  BY <1>1 DEF StateOk
<1>4. CASE UNCHANGED <<incoming, pending>> /\ globalEpoch' \in {globalEpoch, globalEpoch + 1}
  <2>1. \A n : Retired(n)' <=> Retired(n)
    BY <1>4 DEF Retired
  <2>2. globalEpoch' \in Nat
    BY <1>3, <1>4
  <2>3. /\ incoming' \in Seq(Retirals) /\ pending' \in Seq(Retirals)
        /\ \A i, j \in 1 .. Len(incoming') : incoming'[i].ptr = incoming'[j].ptr => i = j
        /\ \A i, j \in 1 .. Len(pending') : pending'[i].ptr = pending'[j].ptr => i = j
        /\ \A i \in 1 .. Len(incoming'), j \in 1 .. Len(pending') : incoming'[i].ptr # pending'[j].ptr
        /\ \A n : Retired(n) => n \notin freed
    BY <1>1, <1>3, <1>4 DEF RetiredOnce
  <2> QED  BY <1>2, <2>1, <2>2, <2>3, TickKeeps
<1>5. CASE pending' = pending \o incoming /\ incoming' = << >> /\ globalEpoch' = globalEpoch
  <2> DEFINE P == Len(pending)
             I == Len(incoming)
  <2>1. /\ P \in Nat /\ I \in Nat /\ pending' \in Seq(Retirals) /\ Len(pending') = P + I
        /\ \A i \in 1 .. P + I : pending'[i] = IF i <= P THEN pending[i] ELSE incoming[i - P]
    BY <1>3, <1>5, ConcatProperties
  <2>2. Len(incoming') = 0 /\ incoming' \in Seq(Retirals)
    BY <1>5
  <2> HIDE DEF P, I
  <2>3. ASSUME NEW i \in 1 .. Len(pending')
        PROVE  \/ i \in 1 .. P /\ pending'[i] = pending[i]
               \/ i - P \in 1 .. I /\ i > P /\ pending'[i] = incoming[i - P]
    BY <2>1
  <2>4. \A n : Retired(n)' => Retired(n)
    <3>1. \A i \in 1 .. Len(incoming') : FALSE
      BY <2>2
    <3>2. \A i \in 1 .. Len(pending') : Retired(pending'[i].ptr)
      BY <2>3 DEF Retired, P, I
    <3> QED  BY <3>1, <3>2 DEF Retired
  <2>5. \A i, j \in 1 .. Len(pending') : pending'[i].ptr = pending'[j].ptr => i = j
    <3>1. /\ \A i, j \in 1 .. I : incoming[i].ptr = incoming[j].ptr => i = j
          /\ \A i, j \in 1 .. P : pending[i].ptr = pending[j].ptr => i = j
          /\ \A i \in 1 .. I, j \in 1 .. P : incoming[i].ptr # pending[j].ptr
      BY <1>1 DEF RetiredOnce, P, I
    <3> SUFFICES ASSUME NEW i \in 1 .. Len(pending'), NEW j \in 1 .. Len(pending'),
                        pending'[i].ptr = pending'[j].ptr
                 PROVE  i = j
      OBVIOUS
    <3>2. i \in Int /\ j \in Int /\ P \in Int
      BY <2>1
    <3>3. CASE i \in 1 .. P /\ pending'[i] = pending[i]
      BY <2>3, <3>1, <3>3
    <3>4. CASE i - P \in 1 .. I /\ i > P /\ pending'[i] = incoming[i - P]
      <4>1. CASE j \in 1 .. P /\ pending'[j] = pending[j]
        BY <3>1, <3>4, <4>1
      <4>2. CASE j - P \in 1 .. I /\ pending'[j] = incoming[j - P]
        <5>1. i - P = j - P
          BY <3>1, <3>4, <4>2
        <5> QED  BY <3>2, <5>1
      <4> QED  BY <2>3, <4>1, <4>2
    <3> QED  BY <2>3, <3>3, <3>4
  <2>6. \A i, j \in 1 .. Len(incoming') : incoming'[i].ptr = incoming'[j].ptr => i = j
    BY <2>2
  <2>7. \A i \in 1 .. Len(incoming'), j \in 1 .. Len(pending') : incoming'[i].ptr # pending'[j].ptr
    BY <2>2
  <2>8. \A n : Retired(n)' => Retired(n) /\ n \notin freed'
    BY <1>1, <1>2, <2>4 DEF RetiredOnce
  <2> QED  BY <1>2, <1>3, <1>5, <2>1, <2>2, <2>5, <2>6, <2>7, <2>8, TickKeeps
<1> QED  BY <1>4, <1>5 DEF TickStep, TickAdvance, TryReclaim, Drain, LoadGlobal, MinActiveEpoch

LEMMA ReclaimKeeps ==
  ASSUME DagInv, NEW t \in Threads, Reclaim(t), freed' = freed \cup Reclaimable,
         UNCHANGED <<graph, dependencies_left, submitted, queue, mainQ, locals, runs>>
  PROVE  DagInv'
<1>1. StateOk /\ RetiredOnce
  BY DEF DagInv
<1>2. globalEpoch \in Nat /\ incoming \in Seq(Retirals) /\ pending \in Seq(Retirals)
  BY <1>1 DEF StateOk
<1>3. /\ \A i, j \in 1 .. Len(incoming) : incoming[i].ptr = incoming[j].ptr => i = j
      /\ \A i, j \in 1 .. Len(pending) : pending[i].ptr = pending[j].ptr => i = j
      /\ \A i \in 1 .. Len(incoming), j \in 1 .. Len(pending) : incoming[i].ptr # pending[j].ptr
  BY <1>1 DEF RetiredOnce
<1>4. globalEpoch' = globalEpoch /\ incoming' = incoming /\ pending' = Kept[Len(pending)]
  BY DEF Reclaim
<1>5. /\ pending' \in Seq(Retirals)
      /\ \A a \in 1 .. Len(pending') :
           \E j \in 1 .. Len(pending) : pending'[a] = pending[j] /\ ~Safe(pending[j])
      /\ \A a, b \in 1 .. Len(pending') : pending'[a].ptr = pending'[b].ptr => a = b
  BY <1>2, <1>3, <1>4, KeptSurvivors
<1>6. Reclaimable = {pending[j].ptr : j \in {k \in 1 .. Len(pending) : Safe(pending[k])}}
  <2>1. DOMAIN pending = 1 .. Len(pending)
    BY <1>2
  <2>2. \A q : q \in Range(pending) <=> \E j \in 1 .. Len(pending) : q = pending[j]
    BY <2>1 DEF Range
  <2> QED  BY <2>2 DEF Reclaimable
<1>7. \A i \in 1 .. Len(incoming'), j \in 1 .. Len(pending') : incoming'[i].ptr # pending'[j].ptr
  BY <1>3, <1>4, <1>5
<1>8. \A n : Retired(n)' => Retired(n) /\ n \notin freed'
  <2>1. \A n : Retired(n)' => Retired(n)
    BY <1>4, <1>5 DEF Retired
  <2>2. \A i \in 1 .. Len(incoming') : incoming'[i].ptr \notin Reclaimable
    BY <1>3, <1>4, <1>6
  <2>3. ASSUME NEW a \in 1 .. Len(pending'), pending'[a].ptr \in Reclaimable  PROVE FALSE
    <3>1. PICK j \in 1 .. Len(pending) : pending'[a] = pending[j] /\ ~Safe(pending[j])
      BY <1>5
    <3>2. PICK k \in 1 .. Len(pending) : Safe(pending[k]) /\ pending'[a].ptr = pending[k].ptr
      BY <1>6, <2>3
    <3>3. k = j
      BY <1>3, <3>1, <3>2
    <3> QED  BY <3>1, <3>2, <3>3
  <2>4. \A n : Retired(n)' => n \notin Reclaimable
    BY <2>2, <2>3 DEF Retired
  <2> QED  BY <1>1, <2>1, <2>4 DEF RetiredOnce
<1>9. \A n \in freed' : n \in freed \/ Retired(n)
  BY <1>6 DEF Retired
<1> QED  BY <1>2, <1>3, <1>4, <1>5, <1>7, <1>8, <1>9, TickKeeps
-----------------------------------------------------------------------------
(***************************************************************************)
(* The theorems.                                                           *)
(***************************************************************************)

LEMMA BuildKeeps ==
  ASSUME DagInv, Build
  PROVE  DagInv'
<1>1. CASE \E i \in DOMAIN Kinds : CreateNode(i)
  BY <1>1, CreateNodeKeeps
<1>2. CASE \E n, m \in created : AddDependency(n, m)
  BY <1>2, AddDependencyKeeps
<1>3. CASE SubmitRejects
  BY <1>3, SubmitRejectsKeeps
<1>4. CASE Submit
  BY <1>4, SubmitKeeps
<1> QED  BY <1>1, <1>2, <1>3, <1>4 DEF Build

LEMMA TickBetweenKeeps ==
  ASSUME DagInv, NEW t \in Threads, TickBetween(t)
  PROVE  DagInv'
<1>1. CASE TickStep(t) /\ UNCHANGED dagVars
  BY <1>1, TickStepKeeps
<1>2. CASE /\ Reclaim(t) /\ freed' = freed \cup Reclaimable
           /\ UNCHANGED <<graph, dependencies_left, submitted, queue, mainQ, locals, runs>>
  BY <1>2, ReclaimKeeps
<1> QED  BY <1>1, <1>2 DEF TickBetween

LEMMA ThreadStepKeeps ==
  ASSUME DagInv, NEW t \in Threads, ThreadStep(t)
  PROVE  DagInv'
<1>1. CASE TakeTask(t)
  BY <1>1, TakeTaskKeeps
<1>2. CASE RunTask(t)
  BY <1>2, RunTaskKeeps
<1>3. CASE ReadEpoch(t) \/ EnterGuard(t) \/ LeaveGuard(t) \/ ReadRetireEpoch(t)
  BY <1>3, GuardKeeps
<1>4. CASE Visit(t)
  BY <1>4, VisitKeeps
<1>5. CASE Fire(t)
  BY <1>5, FireKeeps
<1>6. CASE Retire(t)
  BY <1>6, RetireKeeps
<1>7. CASE TickBetween(t)
  BY <1>7, TickBetweenKeeps
<1> QED  BY <1>1, <1>2, <1>3, <1>4, <1>5, <1>6, <1>7 DEF ThreadStep

LEMMA StutterKeeps ==
  ASSUME DagInv, UNCHANGED vars
  PROVE  DagInv'
<1>1. /\ UNCHANGED <<graph, dependencies_left, submitted, queue, mainQ, locals, runs>>
      /\ UNCHANGED <<globalEpoch, incoming, pending, freed>>
  BY DEF vars, epochVars, dagVars
<1>2. StateOk /\ RetiredOnce
  BY DEF DagInv
<1>3. \A n : Retired(n)' <=> Retired(n)
  BY <1>1 DEF Retired
<1>4. globalEpoch' \in Nat /\ incoming' \in Seq(Retirals) /\ pending' \in Seq(Retirals)
  BY <1>1, <1>2 DEF StateOk
<1>5. /\ \A i, j \in 1 .. Len(incoming') : incoming'[i].ptr = incoming'[j].ptr => i = j
      /\ \A i, j \in 1 .. Len(pending') : pending'[i].ptr = pending'[j].ptr => i = j
      /\ \A i \in 1 .. Len(incoming'), j \in 1 .. Len(pending') : incoming'[i].ptr # pending'[j].ptr
      /\ \A n : Retired(n) => n \notin freed
  BY <1>1, <1>2 DEF RetiredOnce
<1> QED  BY <1>1, <1>3, <1>4, <1>5, TickKeeps

LEMMA StepKeeps ==
  ASSUME DagInv, [Next]_vars
  PROVE  DagInv'
<1>1. CASE Build
  BY <1>1, BuildKeeps
<1>2. CASE \E t \in Threads : ThreadStep(t)
  BY <1>2, ThreadStepKeeps
<1>3. CASE TakeMain
  BY <1>3, TakeMainKeeps
<1>4. CASE SubmitReturns
  BY <1>4, SubmitReturnsKeeps
<1>5. CASE UNCHANGED vars
  BY <1>5, StutterKeeps
<1> QED  BY <1>1, <1>2, <1>3, <1>4, <1>5 DEF Next

\* The invariant of the whole graph: where each node is on its way from the
\* graph to the queue, the call of OnTaskFinished, the list of retired nodes
\* and the allocator, and which predecessors it waits for.
THEOREM GraphInvariant == Spec => []DagInv
<1>1. DagInit => DagInv
  BY InitKeeps
<1>2. DagInv /\ [Next]_vars => DagInv'
  BY StepKeeps
<1> QED  BY <1>1, <1>2, PTL DEF Spec

\* TaskDAG::Submit's count of processed nodes is right for every graph: it
\* accepts a graph exactly when that has a topological order and no edge was
\* added twice.
THEOREM SubmitIsExact == Spec => []SubmitVerdict
<1>1. DagInv => SubmitVerdict
  BY DEF DagInv, Verdict, Sortable, SubmitVerdict
<1> QED  BY <1>1, GraphInvariant, PTL

\* However the completions of OnTaskFinished interleave, Fire is called for an
\* AND after all its predecessors and for an OR after one of them.
THEOREM DependenciesFirst == Spec => []FiresInOrder
<1>1. ASSUME DagInv, NEW n \in submitted
      PROVE  IF kind[n] = "OR" THEN Preds(n) = {} \/ \E p \in Preds(n) : Finished(p)
             ELSE \A p \in Preds(n) : Finished(p)
  <2>1. GraphOk /\ StateOk /\ Order /\ phase = "submitted"
    BY <1>1, Busy DEF DagInv
  <2>2. n \in created /\ Ready(n)
    BY <2>1 DEF StateOk, Ready
  <2>3. ReadyOk(n)
    BY <2>1, <2>2 DEF Order
  <2>4. Solo(n) => \A p \in Preds(n) : Finished(p)
    BY <2>2, <2>3 DEF ReadyOk, Unvisited
  <2>5. ~Solo(n) => kind[n] = "OR" /\ \E p \in Preds(n) : Finished(p)
    BY <2>2, <2>3 DEF ReadyOk, Solo
  <2> QED  BY <2>4, <2>5
<1>2. DagInv => FiresInOrder
  BY <1>1 DEF FiresInOrder
<1> QED  BY <1>2, GraphInvariant, PTL

\* What has at most one element.
LEMMA AtMostOne ==
  ASSUME NEW S, \A x, y \in S : x = y
  PROVE  Cardinality(S) <= 1
<1>1. CASE S = {}
  BY <1>1, FS_EmptySet
<1>2. CASE S # {}
  <2>1. PICK x : S = {x}
    BY <1>2
  <2> QED  BY <2>1, FS_Singleton
<1> QED  BY <1>1, <1>2

\* A task runs at most once and its node is retired and freed at most once,
\* although several predecessors may find it ready at the same time.
THEOREM NodesOnce == Spec => []OnceEach
<1>1. ASSUME DagInv, NEW n \in created
      PROVE  /\ runs[n] <= 1
             /\ Cardinality({i \in 1 .. Len(incoming \o pending) : (incoming \o pending)[i].ptr = n}) <= 1
             /\ n \in freed => n \notin RetiredPtrs
  <2> DEFINE q == incoming \o pending
             I == Len(incoming)
             P == Len(pending)
  <2>1. runs[n] <= 1 /\ StateOk /\ RetiredOnce
    BY <1>1 DEF DagInv, DoneOnce
  <2>2. /\ I \in Nat /\ P \in Nat /\ q \in Seq(Retirals) /\ Len(q) = I + P
        /\ \A i \in 1 .. I + P : q[i] = IF i <= I THEN incoming[i] ELSE pending[i - I]
    BY <2>1, ConcatProperties DEF StateOk
  <2>3. /\ \A i, j \in 1 .. I : incoming[i].ptr = incoming[j].ptr => i = j
        /\ \A i, j \in 1 .. P : pending[i].ptr = pending[j].ptr => i = j
        /\ \A i \in 1 .. I, j \in 1 .. P : incoming[i].ptr # pending[j].ptr
    BY <2>1 DEF RetiredOnce
  <2>4. \A m : Retired(m) <=> (\E i \in 1 .. I : incoming[i].ptr = m) \/ (\E i \in 1 .. P : pending[i].ptr = m)
    BY DEF Retired
  <2> HIDE DEF q, I, P
  <2>5. ASSUME NEW i \in 1 .. Len(q)
        PROVE  \/ i \in 1 .. I /\ q[i] = incoming[i]
               \/ i - I \in 1 .. P /\ q[i] = pending[i - I]
    BY <2>2
  <2>6. ASSUME NEW i \in 1 .. Len(q), NEW j \in 1 .. Len(q), q[i].ptr = q[j].ptr
        PROVE  i = j
    <3>1. i \in Int /\ j \in Int /\ I \in Int
      BY <2>2
    <3>2. CASE i \in 1 .. I /\ q[i] = incoming[i]
      BY <2>3, <2>5, <2>6, <3>2
    <3>3. CASE i - I \in 1 .. P /\ q[i] = pending[i - I]
      <4>1. CASE j \in 1 .. I /\ q[j] = incoming[j]
        BY <2>3, <2>6, <3>3, <4>1
      <4>2. CASE j - I \in 1 .. P /\ q[j] = pending[j - I]
        <5>1. i - I = j - I
          BY <2>3, <2>6, <3>3, <4>2
        <5> QED  BY <3>1, <5>1
      <4> QED  BY <2>5, <4>1, <4>2
    <3> QED  BY <2>5, <3>2, <3>3
  <2>7. Cardinality({i \in 1 .. Len(q) : q[i].ptr = n}) <= 1
    BY <2>6, AtMostOne
  <2>8. n \in freed => n \notin RetiredPtrs
    <3>1. RetiredPtrs = {r.ptr : r \in Range(q)}
      BY DEF RetiredPtrs, q
    <3>2. \A r \in Range(q) : \E i \in 1 .. Len(q) : r = q[i]
      BY <2>2 DEF Range
    <3>3. \A i \in 1 .. Len(q) : Retired(q[i].ptr)
      BY <2>4, <2>5
    <3>4. \A m \in RetiredPtrs : Retired(m)
      BY <3>1, <3>2, <3>3
    <3> QED  BY <2>1, <3>4 DEF RetiredOnce
  <2> QED  BY <2>1, <2>7, <2>8 DEF q
<1>2. DagInv => OnceEach
  BY <1>1 DEF OnceEach
<1> QED  BY <1>2, GraphInvariant, PTL
-----------------------------------------------------------------------------
(* Memory.                                                                 *)

\* Nothing was freed, or no node can be fired a second time.
Spared == phase = "submitted" /\ freed # {} => \A n \in created : Solo(n)

LEMMA SparedStep ==
  ASSUME ~ReclaimWithOr, DagInv, Spared, [Next]_vars
  PROVE  Spared'
<1>1. GraphOk /\ Quiet
  BY DEF DagInv
<1>2. CASE UNCHANGED graph /\ freed' = freed
  BY <1>2 DEF Spared, Solo, Preds, created, graph
<1>3. CASE phase' # "submitted"
  BY <1>3 DEF Spared
<1>4. CASE freed' = {}
  BY <1>4 DEF Spared
<1>5. ASSUME NEW t \in Threads, TickBetween(t)  PROVE Spared'
  <2>1. UNCHANGED graph
    BY <1>5 DEF TickBetween, dagVars
  <2>2. \A n \in created : kind[n] = "OR" => Cardinality(Preds(n)) <= 1
    BY <1>5 DEF TickBetween
  <2>3. ASSUME NEW n \in created  PROVE Solo(n)
    <3>1. SUFFICES ASSUME kind[n] = "OR", NEW p \in Preds(n), NEW q \in Preds(n), p # q
                   PROVE  FALSE
      BY DEF Solo
    <3>2. IsFiniteSet(Preds(n)) /\ {p, q} \in SUBSET Preds(n)
      BY <1>1, Finite
    <3>3. Cardinality({p, q}) <= Cardinality(Preds(n)) /\ Cardinality(Preds(n)) \in Nat
      BY <3>2, FS_Subset, FS_CardinalityType
    <3>4. Cardinality({p, q}) = 2
      <4>1. {p, q} = {p} \cup {q} /\ q \notin {p}
        BY <3>1
      <4>2. IsFiniteSet({p}) /\ Cardinality({p}) = 1
        BY FS_Singleton
      <4>3. Cardinality({p} \cup {q}) = Cardinality({p}) + 1
        BY <4>1, <4>2, FS_AddElement
      <4> QED  BY <4>1, <4>2, <4>3
    <3> QED  BY <2>2, <3>1, <3>3, <3>4
  <2> QED  BY <2>1, <2>3 DEF Spared, Solo, Preds, created, graph
<1>6. ASSUME NEW t \in Threads, ThreadStep(t), ~TickBetween(t)  PROVE UNCHANGED graph /\ freed' = freed
  BY <1>6 DEF ThreadStep, TakeTask, RunTask, ReadEpoch, EnterGuard, Visit, Fire, LeaveGuard,
              ReadRetireEpoch, Retire
<1>7. CASE \E t \in Threads : ThreadStep(t)
  BY <1>2, <1>5, <1>6, <1>7
<1>8. CASE TakeMain \/ SubmitReturns
  BY <1>2, <1>8 DEF TakeMain, SubmitReturns
<1>9. CASE \E i \in DOMAIN Kinds : CreateNode(i)
  BY <1>3, <1>9 DEF CreateNode
<1>10. CASE \E n, m \in created : AddDependency(n, m)
  BY <1>3, <1>10 DEF AddDependency
<1>11. CASE SubmitRejects
  BY <1>3, <1>11 DEF SubmitRejects
<1>12. CASE Submit
  BY <1>1, <1>4, <1>12 DEF Submit, Quiet
<1>13. CASE UNCHANGED vars
  BY <1>2, <1>13 DEF vars, dagVars
<1> QED  BY <1>7, <1>8, <1>9, <1>10, <1>11, <1>12, <1>13 DEF Next, Build

\* A node that can be fired again is not freed, so no thread runs, visits or
\* fires a freed node: as long as nothing is reclaimed while the graph has an
\* OR gate with several predecessors (otherwise TaskDAGOr has the violation).
THEOREM FreedNotUsed ==
  ASSUME ~ReclaimWithOr
  PROVE  Spec => []NoUseAfterFree
<1>1. ASSUME DagInv, Spared, NEW t \in Threads
      PROVE  /\ dep[t] # None /\ pc[t] \in {"run", "fire"} => dep[t] \notin freed
             /\ \A i \in 1 .. Len(stack[t]) :
                  stack[t][i].node \notin freed /\ stack[t][i].todo \cap freed = {}
  <2>1. GraphOk /\ StateOk /\ Order /\ CallsOnce /\ RetiredOnce /\ DoneOnce /\ Waiting /\ Quiet
    BY <1>1 DEF DagInv
  <2>2. CASE phase # "submitted"
    BY <2>1, <2>2 DEF Quiet
  <2>3. CASE phase = "submitted" /\ freed = {}
    BY <2>3
  <2>4. CASE phase = "submitted" /\ freed # {}
    <3>1. \A n \in freed : n \in created /\ Finished(n) /\ n \in submitted /\ Solo(n)
      BY <1>1, <2>1, <2>4 DEF RetiredOnce, DoneOnce, StateOk, Spared
    <3>2. pc[t] = "run" => dep[t] \notin freed
      BY <2>1, <3>1 DEF Waiting, Finished
    <3>3. pc[t] = "fire" => dep[t] \notin freed
      BY <2>1, <2>4, <3>1 DEF Order, TokenOk, Firing
    <3>4. ASSUME NEW i \in 1 .. Len(stack[t]), NEW n \in stack[t][i].todo, n \in freed  PROVE FALSE
      <4>0. PICK d : d = stack[t][i].node
        OBVIOUS
      <4>1. Owes(d, n) /\ Ready(n) /\ n \in created /\ Solo(n)
        BY <3>1, <3>4, <4>0 DEF Owes, Ready
      <4>2. TokenOk(n) /\ ReadyOk(n)
        BY <2>1, <2>4, <4>1 DEF Order
      <4>3. CASE d = None
        BY <3>1, <3>4, <4>1, <4>2, <4>3 DEF TokenOk
      <4>4. CASE d # None
        <5>1. n \in Dependents(d)
          BY <2>1, <4>0, <4>4 DEF CallsOnce
        <5>2. d \in Unvisited(n)
          BY <2>1, <4>1, <5>1, EdgeEnds DEF Unvisited
        <5> QED  BY <4>1, <4>2, <5>2 DEF ReadyOk
      <4> QED  BY <4>3, <4>4
    <3>5. \A i \in 1 .. Len(stack[t]) : stack[t][i].node \notin freed
      BY <2>1 DEF CallsOnce
    <3> QED  BY <3>2, <3>3, <3>4, <3>5
  <2> QED  BY <2>2, <2>3, <2>4
<1>2. DagInv /\ Spared => NoUseAfterFree
  BY <1>1 DEF NoUseAfterFree
<1>3. DagInit => Spared
  BY DEF DagInit, Spared
<1>4. DagInv /\ Spared /\ [Next]_vars => Spared'
  BY SparedStep
<1> QED  BY <1>2, <1>3, <1>4, GraphInvariant, PTL DEF Spec
=============================================================================
