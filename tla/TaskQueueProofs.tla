--------------------------- MODULE TaskQueueProofs ---------------------------
(***************************************************************************)
(* The two queues of a worker, for every number of tasks and threads.      *)
(*                                                                         *)
(* TaskDeque: the safety invariants are inductive with DequeInv, and the   *)
(* deque implements TaskBag.                                               *)
(*                                                                         *)
(* TaskMPSCQueue: a pop returns the oldest task, and it answers "empty"    *)
(* with tasks queued only when a push overlapped it.                       *)
(***************************************************************************)
EXTENDS TaskDeque, TaskMPSCQueue, SequenceTheorems, TLAPS

\* Euclidean division by a positive divisor.
LEMMA DivMod ==
  ASSUME NEW C \in Nat \ {0}, NEW i \in Nat
  PROVE  i % C \in 0 .. C - 1 /\ i \div C \in Nat /\ i = C * (i \div C) + (i % C)
BY SMT

\* No multiple of C lies strictly between 0 and C.
LEMMA NoMultiple ==
  ASSUME NEW C \in Nat \ {0}, NEW p \in Int, NEW q \in Int,
         0 < C * q - C * p, C * q - C * p < C
  PROVE  FALSE
<1>1. CASE q <= p
  BY <1>1, SMT
<1>2. CASE q >= p + 1
  <2>1. C * q >= C * (p + 1)      BY <1>2, SMT
  <2>2. C * (p + 1) = C * p + C   BY SMT
  <2>   QED                       BY <2>1, <2>2, SMT
<1> QED BY <1>1, <1>2, SMT

\* A slot index is inside the buffer.
LEMMA SlotType == ASSUME NEW i \in Nat PROVE Slot(i) \in 0 .. Capacity - 1
BY DivMod, CapacityAssumption DEF Slot

\* Two indices less than Capacity apart use different slots: what makes the
\* ring buffer safe as long as b - t stays within the capacity.
LEMMA SlotsDiffer ==
  ASSUME NEW i \in Nat, NEW j \in Nat, i < j, j < i + Capacity
  PROVE  Slot(i) # Slot(j)
<1> DEFINE qi == i \div Capacity  qj == j \div Capacity
           ri == i % Capacity     rj == j % Capacity
<1>1. qi \in Int /\ qj \in Int /\ ri \in Int /\ rj \in Int
  BY DivMod, CapacityAssumption, SMT
<1>2. i = Capacity * qi + ri /\ j = Capacity * qj + rj
  BY DivMod, CapacityAssumption
<1>3. Capacity * qi \in Int /\ Capacity * qj \in Int
  BY <1>1, CapacityAssumption, SMT
<1> SUFFICES ASSUME ri = rj PROVE FALSE
  BY DEF Slot
<1> HIDE DEF qi, qj, ri, rj
<1>4. j - i = Capacity * qj - Capacity * qi
  BY <1>1, <1>2, <1>3, SMT
<1>5. 0 < Capacity * qj - Capacity * qi /\ Capacity * qj - Capacity * qi < Capacity
  BY <1>3, <1>4, CapacityAssumption, SMT
<1> QED BY <1>1, <1>5, NoMultiple, CapacityAssumption
-----------------------------------------------------------------------------
(* The steps that leave the offered tasks as they are. *)

LEMMA PushBeginStep ==
  ASSUME DequeInv, NEW items \in Batches(held), PushBegin(items)
  PROVE  DequeInv' /\ UNCHANGED <<Live, held>>
<1> USE CapacityAssumption DEF DequeInv, TypeOK, PushBegin, ownerVars, thiefVars
<1>0. /\ items \in Seq(held) /\ items \in Seq(Tasks)
      /\ \A i, j \in 1 .. Len(items) : items[i] = items[j] => i = j
  BY BoundsAssumption DEF Batches
<1>1. Live' = Live
  BY SMT DEF Live, Avail, PopInv
<1>2. TypeOK'
  BY <1>0, SMT DEF IndicesOrdered
<1>3. IndicesOrdered' /\ PushInv' /\ PopInv'
  <2>1. IndicesOrdered' /\ PopInv'
    BY <1>0, SMT DEF IndicesOrdered, PopInv, Avail
  <2>2. PushInv'
    BY <1>0, SMTT(30) DEF IndicesOrdered, PushInv, Avail
  <2> QED  BY <2>1, <2>2
<1>4. ThiefInv'
  BY SMT DEF ThiefInv, PopInv, IndicesOrdered, Avail
<1>5. NoDoubleClaim' /\ NothingLost'
  BY <1>1, SMT DEF NoDoubleClaim, NothingLost, Avail, PopInv
<1> QED BY <1>1, <1>2, <1>3, <1>4, <1>5

LEMMA PopBeginStep ==
  ASSUME DequeInv, PopBegin
  PROVE  DequeInv' /\ UNCHANGED <<Live, held>>
<1> USE CapacityAssumption DEF DequeInv, TypeOK, PopBegin, ownerVars, thiefVars
<1>1. Live' = Live
  BY SMT DEF Live, Avail, PopInv
<1>2. TypeOK'
  BY SMT DEF IndicesOrdered
<1>3. IndicesOrdered' /\ PushInv' /\ PopInv'
  BY SMT DEF IndicesOrdered, PushInv, PopInv, Avail
<1>4. ThiefInv'
  BY SMT DEF ThiefInv, PopInv, IndicesOrdered, Avail
<1>5. NoDoubleClaim' /\ NothingLost'
  BY <1>1, SMT DEF NoDoubleClaim, NothingLost, Avail, PopInv
<1> QED BY <1>1, <1>2, <1>3, <1>4, <1>5

LEMMA PopReserveStep ==
  ASSUME DequeInv, PopReserve
  PROVE  DequeInv' /\ UNCHANGED <<Live, held>>
<1> USE CapacityAssumption DEF DequeInv, TypeOK, PopReserve, ownerVars, thiefVars
<1>1. Live' = Live
  BY SMT DEF Live, Avail, PopInv
<1>2. TypeOK'
  BY SMT DEF IndicesOrdered
<1>3. IndicesOrdered' /\ PushInv' /\ PopInv'
  BY SMT DEF IndicesOrdered, PushInv, PopInv, Avail
<1>4. ThiefInv'
  BY SMT DEF ThiefInv, PopInv, IndicesOrdered, Avail
<1>5. NoDoubleClaim' /\ NothingLost'
  BY <1>1, SMT DEF NoDoubleClaim, NothingLost, Avail, PopInv
<1> QED BY <1>1, <1>2, <1>3, <1>4, <1>5

LEMMA PopContendStep ==
  ASSUME DequeInv, PopContend
  PROVE  DequeInv' /\ UNCHANGED <<Live, held>>
<1> USE CapacityAssumption DEF DequeInv, TypeOK, PopContend, ownerVars, thiefVars
<1>1. Live' = Live
  BY SMT DEF Live, Avail, PopInv
<1>2. TypeOK'
  BY SMT DEF IndicesOrdered
<1>3. IndicesOrdered' /\ PushInv' /\ PopInv'
  BY SMT DEF IndicesOrdered, PushInv, PopInv, Avail
<1>4. ThiefInv'
  BY SMT DEF ThiefInv, PopInv, IndicesOrdered, Avail
<1>5. NoDoubleClaim' /\ NothingLost'
  BY <1>1, SMT DEF NoDoubleClaim, NothingLost, Avail, PopInv
<1> QED BY <1>1, <1>2, <1>3, <1>4, <1>5

LEMMA PopEmptyStep ==
  ASSUME DequeInv, PopEmpty
  PROVE  DequeInv' /\ UNCHANGED <<Live, held>>
<1> USE CapacityAssumption DEF DequeInv, TypeOK, PopEmpty, ownerVars, thiefVars
<1>1. Live' = Live
  BY SMT DEF Live, Avail, PopInv
<1>2. TypeOK'
  BY SMT DEF IndicesOrdered
<1>3. IndicesOrdered' /\ PushInv' /\ PopInv'
  BY SMT DEF IndicesOrdered, PushInv, PopInv, Avail
<1>4. ThiefInv'
  BY SMT DEF ThiefInv, PopInv, IndicesOrdered, Avail
<1>5. NoDoubleClaim' /\ NothingLost'
  BY <1>1, SMT DEF NoDoubleClaim, NothingLost, Avail, PopInv
<1> QED BY <1>1, <1>2, <1>3, <1>4, <1>5

LEMMA PopCasLoseStep ==
  ASSUME DequeInv, PopCasLose
  PROVE  DequeInv' /\ UNCHANGED <<Live, held>>
<1> USE CapacityAssumption DEF DequeInv, TypeOK, PopCasLose, ownerVars, thiefVars
<1>1. Live' = Live
  BY SMT DEF Live, Avail, PopInv
<1>2. TypeOK'
  BY SMT DEF IndicesOrdered
<1>3. IndicesOrdered' /\ PushInv' /\ PopInv'
  BY SMT DEF IndicesOrdered, PushInv, PopInv, Avail
<1>4. ThiefInv'
  BY SMT DEF ThiefInv, PopInv, IndicesOrdered, Avail
<1>5. NoDoubleClaim' /\ NothingLost'
  BY <1>1, SMT DEF NoDoubleClaim, NothingLost, Avail, PopInv
<1> QED BY <1>1, <1>2, <1>3, <1>4, <1>5

LEMMA PopRestoreStep ==
  ASSUME DequeInv, PopRestore
  PROVE  DequeInv' /\ UNCHANGED <<Live, held>>
<1> USE CapacityAssumption DEF DequeInv, TypeOK, PopRestore, ownerVars, thiefVars
<1>1. Live' = Live
  BY SMT DEF Live, Avail, PopInv
<1>2. TypeOK'
  BY SMT DEF IndicesOrdered
<1>3. IndicesOrdered' /\ PushInv' /\ PopInv'
  BY SMT DEF IndicesOrdered, PushInv, PopInv, Avail
<1>4. ThiefInv'
  BY SMT DEF ThiefInv, PopInv, IndicesOrdered, Avail
<1>5. NoDoubleClaim' /\ NothingLost'
  BY <1>1, SMT DEF NoDoubleClaim, NothingLost, Avail, PopInv
<1> QED BY <1>1, <1>2, <1>3, <1>4, <1>5

LEMMA StealLoadTopStep ==
  ASSUME DequeInv, NEW th \in Thieves, StealLoadTop(th)
  PROVE  DequeInv' /\ UNCHANGED <<Live, held>>
<1> USE CapacityAssumption DEF DequeInv, TypeOK, StealLoadTop, ownerVars, thiefVars
<1>1. Live' = Live
  BY SMT DEF Live, Avail, PopInv
<1>2. TypeOK'
  BY SMT DEF IndicesOrdered
<1>3. IndicesOrdered' /\ PushInv' /\ PopInv'
  BY SMT DEF IndicesOrdered, PushInv, PopInv, Avail
<1>4. ThiefInv'
  BY SMT DEF ThiefInv, PopInv, IndicesOrdered, Avail
<1>5. NoDoubleClaim' /\ NothingLost'
  BY <1>1, SMT DEF NoDoubleClaim, NothingLost, Avail, PopInv
<1> QED BY <1>1, <1>2, <1>3, <1>4, <1>5

LEMMA StealLoadBottomStep ==
  ASSUME DequeInv, NEW th \in Thieves, StealLoadBottom(th)
  PROVE  DequeInv' /\ UNCHANGED <<Live, held>>
<1> USE CapacityAssumption DEF DequeInv, TypeOK, StealLoadBottom, ownerVars, thiefVars
<1>1. Live' = Live
  BY SMT DEF Live, Avail, PopInv
<1>2. TypeOK'
  BY SMT DEF IndicesOrdered
<1>3. IndicesOrdered' /\ PushInv' /\ PopInv'
  BY SMT DEF IndicesOrdered, PushInv, PopInv, Avail
<1>4. ThiefInv'
  BY SMT DEF ThiefInv, PopInv, IndicesOrdered, Avail
<1>5. NoDoubleClaim' /\ NothingLost'
  BY <1>1, SMT DEF NoDoubleClaim, NothingLost, Avail, PopInv
<1> QED BY <1>1, <1>2, <1>3, <1>4, <1>5

LEMMA StealReadStep ==
  ASSUME DequeInv, NEW th \in Thieves, StealRead(th)
  PROVE  DequeInv' /\ UNCHANGED <<Live, held>>
<1> USE CapacityAssumption DEF DequeInv, TypeOK, StealRead, ownerVars, thiefVars
<1>1. Live' = Live
  BY SMT DEF Live, Avail, PopInv
<1>2. TypeOK'
  <2>1. buffer[Slot(tt[th])] \in Tasks \cup {NoTask}   BY SlotType
  <2>   QED                                             BY <2>1, SMT
<1>3. IndicesOrdered' /\ PushInv' /\ PopInv'
  BY SMT DEF IndicesOrdered, PushInv, PopInv, Avail
<1>4. ThiefInv'
  BY SMT DEF ThiefInv, PopInv, IndicesOrdered, Avail
<1>5. NoDoubleClaim' /\ NothingLost'
  BY <1>1, SMT DEF NoDoubleClaim, NothingLost, Avail, PopInv
<1> QED BY <1>1, <1>2, <1>3, <1>4, <1>5

LEMMA StealCasLoseStep ==
  ASSUME DequeInv, NEW th \in Thieves, StealCasLose(th)
  PROVE  DequeInv' /\ UNCHANGED <<Live, held>>
<1> USE CapacityAssumption DEF DequeInv, TypeOK, StealCasLose, ownerVars, thiefVars
<1>1. Live' = Live
  BY SMT DEF Live, Avail, PopInv
<1>2. TypeOK'
  BY SMT DEF IndicesOrdered
<1>3. IndicesOrdered' /\ PushInv' /\ PopInv'
  BY SMT DEF IndicesOrdered, PushInv, PopInv, Avail
<1>4. ThiefInv'
  BY SMT DEF ThiefInv, PopInv, IndicesOrdered, Avail
<1>5. NoDoubleClaim' /\ NothingLost'
  BY <1>1, SMT DEF NoDoubleClaim, NothingLost, Avail, PopInv
<1> QED BY <1>1, <1>2, <1>3, <1>4, <1>5

LEMMA PushWriteStep ==
  ASSUME DequeInv, PushWrite
  PROVE  DequeInv' /\ UNCHANGED <<Live, held>>
<1> USE CapacityAssumption DEF DequeInv, TypeOK, PushWrite, ownerVars, thiefVars
<1>1. top <= bottom /\ bottom <= ob /\ ob < top + Capacity /\ Avail = bottom
  BY SMT DEF IndicesOrdered, PushInv, Avail
<1>2. \A i \in top .. ob - 1 : buffer'[Slot(i)] = buffer[Slot(i)]
  <2> TAKE i \in top .. ob - 1
  <2>1. i \in Nat /\ i < ob /\ ob < i + Capacity   BY <1>1, CapacityAssumption, SMT
  <2>2. Slot(i) # Slot(ob)                         BY <2>1, SlotsDiffer
  <2>   QED                                        BY <2>1, <2>2, SlotType, SMT
<1>3. Live' = Live
  <2>1. Avail' = Avail /\ top' = top                  BY SMT DEF Avail
  <2>2. \A i \in top .. Avail - 1 : i \in top .. ob - 1  BY <1>1, SMT
  <2>   QED                                           BY <1>2, <2>1, <2>2 DEF Live
<1>4. TypeOK'
  <2>1. oitems[ob - bottom + 1] \in Tasks  BY <1>1, SMT
  <2>2. Slot(ob) \in 0 .. Capacity - 1     BY SlotType
  <2>   QED                                BY <1>1, <2>1, <2>2, SMT
<1>5. IndicesOrdered' /\ PopInv'
  BY SMT DEF IndicesOrdered, PopInv, Avail
<1>6. PushInv'
  <2>1. buffer'[Slot(ob)] = oitems[ob - bottom + 1]
    BY SlotType, SMT
  <2>2. \A i \in bottom .. ob : buffer'[Slot(i)] = oitems[i - bottom + 1]
    <3> TAKE i \in bottom .. ob
    <3>1. CASE i = ob             BY <3>1, <2>1
    <3>2. CASE i \in bottom .. ob - 1
      BY <3>2, <1>1, <1>2, SMT DEF PushInv
    <3>   QED                     BY <3>1, <3>2, <1>1, SMT
  <2> QED BY <2>2, <1>1, SMT DEF PushInv
<1>7. ThiefInv'
  BY <1>1, <1>2, SMT DEF ThiefInv, Avail
<1>8. NoDoubleClaim' /\ NothingLost'
  BY <1>1, <1>2, <1>3, SMT DEF NoDoubleClaim, NothingLost, Avail
<1> QED BY <1>3, <1>4, <1>5, <1>6, <1>7, <1>8

(* The steps that put tasks in or take one out. *)

LEMMA PushPublishStep ==
  ASSUME DequeInv, PushPublish
  PROVE  DequeInv' /\ \E S \in SUBSET held : Bag!Put(S)
<1> DEFINE S == {oitems[i] : i \in DOMAIN oitems}
           n == Len(oitems)
<1> USE CapacityAssumption DEF DequeInv, TypeOK, PushPublish, ownerVars, thiefVars
<1>1. /\ n \in Nat /\ DOMAIN oitems = 1 .. n
      /\ top <= bottom /\ ob = bottom + n /\ ob <= top + Capacity
      /\ Avail = bottom /\ Avail' = bottom + n /\ n \in Int
  BY SMT DEF IndicesOrdered, PushInv, Avail
<1>2. S \subseteq held /\ S \subseteq Tasks
  BY <1>1, SMT DEF PushInv
<1>3. \A i \in bottom .. bottom + n - 1 :
         buffer[Slot(i)] = oitems[i - bottom + 1] /\ i - bottom + 1 \in 1 .. n
  <2> TAKE i \in bottom .. bottom + n - 1
  <2>1. i \in bottom .. ob - 1             BY <1>1
  <2>   QED                                BY <1>1, <2>1, SMTT(30) DEF PushInv
<1>4. \A i, j \in 1 .. n : oitems[i] = oitems[j] => i = j
  BY DEF PushInv
<1> HIDE DEF n
<1>5. Live' = Live \cup S
  <2>0. \A x : x \in Live' <=> \E i \in top .. bottom + n - 1 : x = buffer[Slot(i)]
    <3>1. buffer' = buffer /\ top' .. Avail' - 1 = top .. bottom + n - 1
      BY <1>1
    <3>2. \A x : x \in Live' <=> \E i \in top' .. Avail' - 1 : x = buffer'[Slot(i)]
      BY Zenon DEF Live
    <3>3. \A x : (\E i \in top' .. Avail' - 1 : x = buffer'[Slot(i)])
                    <=> (\E i \in top .. bottom + n - 1 : x = buffer[Slot(i)])
      BY <3>1
    <3> QED BY <3>2, <3>3, Zenon
  <2>1. Live' \subseteq Live \cup S
    <3> SUFFICES ASSUME NEW i \in top .. bottom + n - 1
                 PROVE  buffer[Slot(i)] \in Live \cup S
      BY <2>0
    <3>1. CASE i \in top .. bottom - 1             BY <1>1, <3>1 DEF Live
    <3>2. CASE i \in bottom .. bottom + n - 1      BY <1>1, <1>3, <3>2
    <3>   QED                                      BY <1>1, <3>1, <3>2, SMT
  <2>2. S \subseteq Live'
    <3> SUFFICES ASSUME NEW k \in 1 .. n PROVE oitems[k] \in Live'
      BY <1>1
    <3> DEFINE i == bottom + k - 1
    <3>1. i \in bottom .. bottom + n - 1 /\ i \in top .. bottom + n - 1 /\ k = i - bottom + 1
      BY <1>1, SMT
    <3> HIDE DEF i
    <3>2. buffer[Slot(i)] = oitems[k]               BY <1>3, <3>1
    <3>   QED                                       BY <1>1, <3>1, <3>2 DEF Live
  <2>3. Live \subseteq Live'
    <3>1. top .. bottom - 1 \subseteq top .. bottom + n - 1   BY <1>1, SMT
    <3>   QED                                                 BY <1>1, <3>1, SMTT(30) DEF Live
  <2> QED BY <2>1, <2>2, <2>3
<1>6. TypeOK'
  BY <1>1, SMT
<1>7. IndicesOrdered' /\ PushInv' /\ PopInv'
  BY <1>1, SMT DEF IndicesOrdered, PushInv, PopInv, Avail
<1>8. ThiefInv'
  BY <1>1, SMT DEF ThiefInv
<1>9. NoDoubleClaim'
  <2>1. Live' \cap held' = {}
    BY <1>5 DEF NoDoubleClaim
  <2>2. ASSUME NEW i \in top .. bottom + n - 1, NEW j \in top .. bottom + n - 1,
               buffer[Slot(i)] = buffer[Slot(j)]
        PROVE  i = j
    <3>1. CASE i < bottom /\ j < bottom
      BY <1>1, <2>2, <3>1, SMT DEF NoDoubleClaim
    <3>2. CASE i >= bottom /\ j >= bottom
      <4>1. i \in bottom .. bottom + n - 1 /\ j \in bottom .. bottom + n - 1
        BY <1>1, <3>2, SMT
      <4>2. oitems[i - bottom + 1] = oitems[j - bottom + 1]
        BY <1>3, <2>2, <4>1
      <4>3. i - bottom + 1 = j - bottom + 1
        BY <1>3, <1>4, <4>1, <4>2
      <4>4. i \in Int /\ j \in Int /\ bottom \in Int   BY <1>1, <4>1, SMT
      <4> QED BY <4>3, <4>4, SMT
    <3>3. \A k \in top .. bottom - 1, l \in bottom .. bottom + n - 1 :
             buffer[Slot(k)] # buffer[Slot(l)]
      <4> TAKE k \in top .. bottom - 1, l \in bottom .. bottom + n - 1
      <4>1. buffer[Slot(k)] \in Live  BY <1>1 DEF Live
      <4>2. buffer[Slot(l)] \in held  BY <1>1, <1>2, <1>3
      <4>   QED                       BY <4>1, <4>2 DEF NoDoubleClaim
    <3>4. i \in Int /\ j \in Int /\ bottom \in Int
      BY <1>1, SMT
    <3>5. CASE i < bottom /\ j >= bottom
      <4>1. i \in top .. bottom - 1 /\ j \in bottom .. bottom + n - 1
        BY <1>1, <3>4, <3>5, SMT
      <4> QED BY <2>2, <3>3, <4>1
    <3>6. CASE i >= bottom /\ j < bottom
      <4>1. j \in top .. bottom - 1 /\ i \in bottom .. bottom + n - 1
        BY <1>1, <3>4, <3>6, SMT
      <4> QED BY <2>2, <3>3, <4>1
    <3> QED BY <3>1, <3>2, <3>4, <3>5, <3>6, SMT
  <2> QED BY <1>1, <2>1, <2>2, SMTT(30) DEF NoDoubleClaim
<1>10. NothingLost' /\ (Live \subseteq Tasks)'
  BY <1>2, <1>5 DEF NothingLost
<1>11. Bag!Put(S)
  BY <1>2, <1>5 DEF Bag!Put
<1> QED BY <1>2, <1>6, <1>7, <1>8, <1>9, <1>10, <1>11

LEMMA PopTakeStep ==
  ASSUME DequeInv, PopTake
  PROVE  DequeInv' /\ \E x \in Live : Bag!Take(x)
<1> DEFINE x == buffer[Slot(ob)]
<1> USE CapacityAssumption DEF DequeInv, TypeOK, PopTake, ownerVars, thiefVars
<1>1. /\ top' = top /\ Avail' = ob /\ Avail = ob + 1
      /\ ob \in top .. Avail - 1 /\ buffer' = buffer
      /\ held' = held \cup {x}
  BY SMT DEF IndicesOrdered, PopInv, ThiefInv, Avail
<1>2. x \in Live /\ x \in Tasks
  BY <1>1 DEF Live
<1>3. Live' = Live \ {x}
  <2>1. \A i \in top .. Avail - 1 : i # ob => buffer[Slot(i)] # x
    BY <1>1 DEF NoDoubleClaim
  <2>2. top' .. Avail' - 1 = (top .. Avail - 1) \ {ob}
    BY <1>1, SMT DEF Avail
  <2> QED BY <1>1, <2>1, <2>2 DEF Live
<1>4. TypeOK'
  BY <1>1, <1>2, SMT
<1>5. IndicesOrdered' /\ PushInv' /\ PopInv'
  BY SMT DEF IndicesOrdered, PushInv, PopInv, ThiefInv, Avail
<1>6. ThiefInv'
  BY SMT DEF ThiefInv, PopInv, IndicesOrdered, Avail
<1>7. NoDoubleClaim'
  <2>1. Live' \cap held' = {}
    BY <1>1, <1>3 DEF NoDoubleClaim
  <2>2. top' .. Avail' - 1 \subseteq top .. Avail - 1
    BY <1>1, SMT
  <2> QED BY <1>1, <2>1, <2>2 DEF NoDoubleClaim
<1>8. NothingLost' /\ (Live \subseteq Tasks)'
  BY <1>1, <1>2, <1>3 DEF NothingLost
<1>9. Bag!Take(x)
  BY <1>1, <1>2, <1>3 DEF Bag!Take
<1> QED BY <1>2, <1>4, <1>5, <1>6, <1>7, <1>8, <1>9

LEMMA PopCasWinStep ==
  ASSUME DequeInv, PopCasWin
  PROVE  DequeInv' /\ \E x \in Live : Bag!Take(x)
<1> DEFINE x == buffer[Slot(top)]
<1> USE CapacityAssumption DEF DequeInv, TypeOK, PopCasWin, ownerVars, thiefVars
<1>1. /\ top' = top + 1 /\ Avail' = Avail
      /\ top \in top .. Avail - 1 /\ buffer' = buffer
      /\ held' = held \cup {x}
  BY SMT DEF IndicesOrdered, PopInv, ThiefInv, Avail
<1>2. x \in Live /\ x \in Tasks
  BY <1>1 DEF Live
<1>3. Live' = Live \ {x}
  <2>1. \A i \in top .. Avail - 1 : i # top => buffer[Slot(i)] # x
    BY <1>1 DEF NoDoubleClaim
  <2>2. top' .. Avail' - 1 = (top .. Avail - 1) \ {top}
    BY <1>1, SMT DEF Avail
  <2> QED BY <1>1, <2>1, <2>2 DEF Live
<1>4. TypeOK'
  BY <1>1, <1>2, SMT
<1>5. IndicesOrdered' /\ PushInv' /\ PopInv'
  BY SMT DEF IndicesOrdered, PushInv, PopInv, ThiefInv, Avail
<1>6. ThiefInv'
  BY SMT DEF ThiefInv, PopInv, IndicesOrdered, Avail
<1>7. NoDoubleClaim'
  <2>1. Live' \cap held' = {}
    BY <1>1, <1>3 DEF NoDoubleClaim
  <2>2. top' .. Avail' - 1 \subseteq top .. Avail - 1
    BY <1>1, SMT
  <2> QED BY <1>1, <2>1, <2>2 DEF NoDoubleClaim
<1>8. NothingLost' /\ (Live \subseteq Tasks)'
  BY <1>1, <1>2, <1>3 DEF NothingLost
<1>9. Bag!Take(x)
  BY <1>1, <1>2, <1>3 DEF Bag!Take
<1> QED BY <1>2, <1>4, <1>5, <1>6, <1>7, <1>8, <1>9

LEMMA StealCasWinStep ==
  ASSUME DequeInv, NEW th \in Thieves, StealCasWin(th)
  PROVE  DequeInv' /\ \E x \in Live : Bag!Take(x)
<1> DEFINE x == buffer[Slot(top)]
<1> USE CapacityAssumption DEF DequeInv, TypeOK, StealCasWin, ownerVars, thiefVars
<1>1. /\ top' = top + 1 /\ Avail' = Avail
      /\ top \in top .. Avail - 1 /\ buffer' = buffer
      /\ held' = held \cup {x}
  BY SMT DEF IndicesOrdered, PopInv, ThiefInv, Avail
<1>2. x \in Live /\ x \in Tasks
  BY <1>1 DEF Live
<1>3. Live' = Live \ {x}
  <2>1. \A i \in top .. Avail - 1 : i # top => buffer[Slot(i)] # x
    BY <1>1 DEF NoDoubleClaim
  <2>2. top' .. Avail' - 1 = (top .. Avail - 1) \ {top}
    BY <1>1, SMT DEF Avail
  <2> QED BY <1>1, <2>1, <2>2 DEF Live
<1>4. TypeOK'
  BY <1>1, <1>2, SMT
<1>5. IndicesOrdered' /\ PushInv' /\ PopInv'
  BY SMT DEF IndicesOrdered, PushInv, PopInv, ThiefInv, Avail
<1>6. ThiefInv'
  BY SMT DEF ThiefInv, PopInv, IndicesOrdered, Avail
<1>7. NoDoubleClaim'
  <2>1. Live' \cap held' = {}
    BY <1>1, <1>3 DEF NoDoubleClaim
  <2>2. top' .. Avail' - 1 \subseteq top .. Avail - 1
    BY <1>1, SMT
  <2> QED BY <1>1, <2>1, <2>2 DEF NoDoubleClaim
<1>8. NothingLost' /\ (Live \subseteq Tasks)'
  BY <1>1, <1>2, <1>3 DEF NothingLost
<1>9. Bag!Take(x)
  BY <1>1, <1>2, <1>3 DEF Bag!Take
<1> QED BY <1>2, <1>4, <1>5, <1>6, <1>7, <1>8, <1>9
-----------------------------------------------------------------------------
\* Every step keeps the inductive invariant and is a step of TaskBag or a
\* stutter of it.
LEMMA DequeStep ==
  ASSUME DequeInv, [Next]_vars
  PROVE  DequeInv' /\ [Bag!Next]_Bag!vars
<1>1. ASSUME NEW items \in Batches(held), PushBegin(items)
      PROVE  DequeInv' /\ UNCHANGED <<Live, held>>
  BY <1>1, PushBeginStep
<1>2. CASE PushPublish
  BY <1>2, PushPublishStep DEF Bag!Next
<1>3. CASE PopTake
  BY <1>3, PopTakeStep DEF Bag!Next
<1>4. CASE PopCasWin
  BY <1>4, PopCasWinStep DEF Bag!Next
<1>5. ASSUME NEW th \in Thieves, StealCasWin(th)
      PROVE  DequeInv' /\ Bag!Next
  BY <1>5, StealCasWinStep DEF Bag!Next
<1>6. CASE PushWrite \/ PopBegin \/ PopReserve \/ PopContend \/ PopEmpty
           \/ PopCasLose \/ PopRestore
  BY <1>6, PushWriteStep, PopBeginStep, PopReserveStep, PopContendStep,
     PopEmptyStep, PopCasLoseStep, PopRestoreStep DEF Bag!vars
<1>7. ASSUME NEW th \in Thieves,
             StealLoadTop(th) \/ StealLoadBottom(th) \/ StealRead(th) \/ StealCasLose(th)
      PROVE  DequeInv' /\ UNCHANGED <<Live, held>>
  BY <1>7, StealLoadTopStep, StealLoadBottomStep, StealReadStep, StealCasLoseStep
<1>8. CASE UNCHANGED vars
  BY <1>8 DEF vars, DequeInv, TypeOK, IndicesOrdered, PushInv, PopInv, ThiefInv,
     NoDoubleClaim, NothingLost, Live, Avail, Bag!vars
<1> QED
  BY <1>1, <1>2, <1>3, <1>4, <1>5, <1>6, <1>7, <1>8 DEF Next, Owner, Thief, Bag!vars

LEMMA DequeInit ==
  ASSUME Init
  PROVE  DequeInv /\ Bag!Init
<1>1. Live = {}
  BY SMT DEF Init, Live, Avail
<1>2. TypeOK
  BY CapacityAssumption, SMT DEF Init, TypeOK
<1>3. IndicesOrdered /\ PushInv /\ PopInv /\ ThiefInv
  BY CapacityAssumption, SMT DEF Init, IndicesOrdered, PushInv, PopInv, ThiefInv, Avail
<1>4. NoDoubleClaim /\ NothingLost
  BY <1>1, SMT DEF Init, NoDoubleClaim, NothingLost, Avail
<1> QED
  BY <1>1, <1>2, <1>3, <1>4 DEF DequeInv, Bag!Init, Init

\* The variables keep their types for every instance of the deque.
THEOREM DequeTypeCorrect == Spec => []TypeOK
<1>1. Init => DequeInv                        BY DequeInit
<1>2. DequeInv /\ [Next]_vars => DequeInv'    BY DequeStep
<1>3. DequeInv => TypeOK                      BY DEF DequeInv
<1> QED                                       BY <1>1, <1>2, <1>3, PTL DEF Spec

\* push_bottom, push_bottom_batch, pop_bottom and steal never hand out a task
\* twice, never drop one, and never let b - t leave 0 .. capacity_, for any
\* capacity, batch size and number of concurrent thieves.
THEOREM DequeSafe == Spec => [](NoDoubleClaim /\ NothingLost /\ IndicesOrdered)
<1>1. Init => DequeInv                        BY DequeInit
<1>2. DequeInv /\ [Next]_vars => DequeInv'    BY DequeStep
<1>3. DequeInv => NoDoubleClaim /\ NothingLost /\ IndicesOrdered
                                              BY DEF DequeInv
<1> QED                                       BY <1>1, <1>2, <1>3, PTL DEF Spec

\* The deque implements TaskBag: PushPublish is the Put of its batch, PopTake,
\* PopCasWin and StealCasWin are a Take, every other step is invisible.
THEOREM DequeImplementsBag == Spec => RefinesTaskBag
<1>1. Init => DequeInv /\ Bag!Init            BY DequeInit
<1>2. DequeInv /\ [Next]_vars => DequeInv' /\ [Bag!Next]_Bag!vars
                                              BY DequeStep
<1> QED                                       BY <1>1, <1>2, PTL DEF Spec, RefinesTaskBag, Bag!Spec
-----------------------------------------------------------------------------
(***************************************************************************)
(* TaskMPSCQueue.  The list that the exchanges of head_ define, gaps       *)
(* included, is a sequence q of n distinct nodes from tail_ to head_, the  *)
(* stub being element k of it or, with k = 0, outside of it.               *)
(***************************************************************************)

\* q runs from tail_ to head_, without repetition, and no caller owns a node
\* of it.
Spine(n, q, k) ==
  /\ tail = q[1] /\ head = q[n] /\ next[head] = Null
  /\ \A i, j \in 1 .. n : q[i] = q[j] => i = j
  /\ \A i \in 1 .. n : q[i] = Stub <=> i = k
  /\ \A i \in 1 .. n : q[i] \notin owned

\* order is q without the stub.
Contents(n, q, k) ==
  /\ Len(order) = IF k = 0 THEN n ELSE n - 1
  /\ \A i \in 1 .. Len(order) : order[i] = q[IF k = 0 \/ i < k THEN i ELSE i + 1]

\* Neighbours are linked, except in a gap, which somebody is about to close.
Joined(n, q, k) ==
  \A i \in 1 .. n - 1 :
     \/ next[q[i]] = q[i + 1]
     \/ /\ next[q[i]] = Null
        /\ \/ cpc = "stublink" /\ i + 1 = k
           \/ \E p \in Producers : ppc[p] = "link" /\ pprev[p] = q[i]

\* A producer between exchange and link stands at a gap.
Pending(n, q, k) ==
  \A p \in Producers : ppc[p] = "link" =>
     \E i \in 1 .. n - 1 :
        /\ pprev[p] = q[i] /\ pfirst[p] = q[i + 1]
        /\ next[q[i]] = Null /\ i + 1 # k

\* The stub is outside when the consumer is about to append it, and its link
\* is the consumer's to set.
StubPlaced(n, q, k) ==
  /\ cpc = "stub" => k = 0
  /\ cpc = "stublink" => k > 1 /\ cprev = q[k - 1] /\ next[cprev] = Null

ListOf(n, q, k) ==
  /\ Spine(n, q, k) /\ Contents(n, q, k)
  /\ Joined(n, q, k) /\ Pending(n, q, k) /\ StubPlaced(n, q, k)

IsList ==
  \E n \in Nat \ {0} : \E q \in [1 .. n -> Nodes] : \E k \in 0 .. n : ListOf(n, q, k)

\* No two producers close the same gap.
OneLinker ==
  \A p1, p2 \in Producers :
     ppc[p1] = "link" /\ ppc[p2] = "link" /\ pprev[p1] = pprev[p2] => p1 = p2

\* What pop knows at each of its steps.
PopState ==
  /\ cpc \in {"reload", "test", "stub", "stublink", "last"} => tail # Stub
  /\ cpc = "test" /\ cnext # Null => cnext = next[tail]

\* What pop knows besides when no push overlapped it.
PopAlone ==
  ~ overlap =>
     /\ \A p \in Producers : ppc[p] = "idle"
     /\ cpc = "test" /\ cnext = Null => tail = head
     /\ cpc = "stub" => tail = head
     /\ cpc = "stublink" => cprev = tail
     /\ cpc = "last" => next[tail] # Null
     /\ cpc = "false" => order = << >>

QueueInv == QueueTypeOK /\ IsList /\ OneLinker /\ PopState /\ PopAlone
-----------------------------------------------------------------------------
(* Facts about the operators.                                              *)

\* A chain is a sequence of one or more distinct tasks.
LEMMA ChainShape ==
  ASSUME NEW S, NEW items \in Chains(S)
  PROVE  /\ items \in Seq(S) /\ Len(items) \in Nat \ {0}
         /\ items \in [1 .. Len(items) -> S]
         /\ \A i, j \in 1 .. Len(items) : items[i] = items[j] => i = j
<1>1. PICK m \in 1 .. MaxChain : items \in [1 .. m -> S]
  BY DEF Chains
<1>2. m \in Nat \ {0} /\ Len(items) = m /\ items \in Seq(S)
  BY <1>1, PushBounds
<1> QED BY <1>1, <1>2 DEF Chains, IsInjective

\* Linked writes the nodes of the chain and no other.
LEMMA LinkedChain ==
  ASSUME QueueTypeOK, NEW items \in Chains(owned)
  PROVE  /\ Linked(items) \in [Nodes -> Nodes \cup {Null}]
         /\ \A i \in 1 .. Len(items) - 1 : Linked(items)[items[i]] = items[i + 1]
         /\ Linked(items)[items[Len(items)]] = Null
         /\ \A x \in Nodes : x \notin owned => Linked(items)[x] = next[x]
<1> DEFINE m == Len(items)
<1>1. /\ m \in Nat \ {0} /\ items \in [1 .. m -> owned]
      /\ \A i, j \in 1 .. m : items[i] = items[j] => i = j
  BY ChainShape
<1>2. owned \subseteq Nodes /\ next \in [Nodes -> Nodes \cup {Null}]
  BY DEF QueueTypeOK, Nodes
<1> DEFINE at(x) == CHOOSE i \in 1 .. m - 1 : items[i] = x
<1>3. ASSUME NEW x \in Nodes
      PROVE  Linked(items)[x] = IF \E i \in 1 .. m - 1 : items[i] = x
                                THEN items[at(x) + 1]
                                ELSE IF x = items[m] THEN Null ELSE next[x]
  BY DEF Linked, Last
<1>4. \A i \in 1 .. m - 1 : at(items[i]) = i
  <2> TAKE i \in 1 .. m - 1
  <2>1. at(items[i]) \in 1 .. m - 1 /\ items[at(items[i])] = items[i]
    OBVIOUS
  <2> HIDE DEF at
  <2> QED BY <2>1, <1>1
<1> HIDE DEF at
<1>5. \A i \in 1 .. m - 1 : Linked(items)[items[i]] = items[i + 1]
  <2> TAKE i \in 1 .. m - 1
  <2>1. items[i] \in Nodes
    BY <1>1, <1>2
  <2> QED BY <1>3, <1>4, <2>1
<1>6. Linked(items)[items[m]] = Null
  <2>1. items[m] \in Nodes /\ ~ \E i \in 1 .. m - 1 : items[i] = items[m]
    BY <1>1, <1>2
  <2> QED BY <1>3, <2>1
<1>7. \A x \in Nodes : x \notin owned => Linked(items)[x] = next[x]
  <2> TAKE x \in Nodes
  <2> HAVE x \notin owned
  <2>1. \A i \in 1 .. m : items[i] # x
    BY <1>1
  <2> QED BY <1>1, <1>3, <2>1
<1>8. \A x \in Nodes : Linked(items)[x] \in Nodes \cup {Null}
  <2> TAKE x \in Nodes
  <2>1. CASE \E i \in 1 .. m - 1 : items[i] = x
    <3>1. PICK i \in 1 .. m - 1 : items[i] = x
      BY <2>1
    <3> QED BY <1>1, <1>2, <1>5, <3>1
  <2>2. CASE ~ \E i \in 1 .. m - 1 : items[i] = x
    BY <1>2, <1>3, <2>2
  <2> QED BY <2>1, <2>2
<1> QED BY <1>5, <1>6, <1>7, <1>8 DEF Linked

\* The nodes of the list: the stub and Null are not tasks.
LEMMA StubApart == Stub \in Nodes /\ Null \notin Nodes /\ Items \subseteq Nodes
                   /\ Stub \notin Items
BY NodesAssumption DEF Nodes
-----------------------------------------------------------------------------
(* One lemma per action: the invariant is kept.                            *)

LEMMA InitKeeps == QueueInit => QueueInv
<1> SUFFICES ASSUME QueueInit PROVE QueueInv
  OBVIOUS
<1> USE StubApart
<1>1. QueueTypeOK
  <2>1. order \in Seq(Items) /\ pushes \in 0 .. MaxPushes
    BY PushBounds DEF QueueInit
  <2> QED BY <2>1 DEF QueueInit, QueueTypeOK
<1>2. ListOf(1, [i \in 1 .. 1 |-> Stub], 1)
  BY DEF QueueInit, ListOf, Spine, Contents, Joined, Pending, StubPlaced
<1>3. IsList
  <2> DEFINE q == [i \in 1 .. 1 |-> Stub]
  <2>1. q \in [1 .. 1 -> Nodes] /\ 1 \in Nat \ {0} /\ 1 \in 0 .. 1
    OBVIOUS
  <2>2. ListOf(1, q, 1)
    BY <1>2
  <2> HIDE DEF q
  <2> QED BY <2>1, <2>2 DEF IsList
<1> QED BY <1>1, <1>3 DEF QueueInv, OneLinker, PopState, PopAlone, QueueInit

\* The list grows by the chain; the gap before it belongs to the producer.
LEMMA PushExchangeKeeps ==
  ASSUME QueueInv, NEW p \in Producers, NEW items \in Chains(owned), PushExchange(p, items)
  PROVE  QueueInv'
<1> USE StubApart
<1>t. QueueTypeOK
  BY DEF QueueInv
<1>n. PICK n \in Nat \ {0} : \E q \in [1 .. n -> Nodes] : \E k \in 0 .. n : ListOf(n, q, k)
  BY DEF QueueInv, IsList
<1>q. PICK q \in [1 .. n -> Nodes] : \E k \in 0 .. n : ListOf(n, q, k)
  BY <1>n
<1>1. PICK k \in 0 .. n : ListOf(n, q, k)
  BY <1>q
<1> DEFINE m == Len(items)
           r == [i \in 1 .. n + m |-> IF i <= n THEN q[i] ELSE items[i - n]]
<1>2. /\ m \in Nat \ {0} /\ items \in [1 .. m -> owned] /\ items \in Seq(owned)
      /\ \A i, j \in 1 .. m : items[i] = items[j] => i = j
  BY ChainShape
<1>3. /\ next' \in [Nodes -> Nodes \cup {Null}]
      /\ \A i \in 1 .. m - 1 : next'[items[i]] = items[i + 1]
      /\ next'[items[m]] = Null
      /\ \A i \in 1 .. n : next'[q[i]] = next[q[i]]
  BY <1>1, <1>t, LinkedChain DEF PushExchange, ListOf, Spine
<1>4. owned \subseteq Items
  BY <1>t DEF QueueTypeOK
<1>5. /\ \A i \in 1 .. n : r[i] = q[i]
      /\ \A i \in 1 .. m : r[n + i] = items[i]
      /\ n + m \in Nat \ {0} /\ k \in 0 .. n + m
      /\ \A i \in 1 .. n + m : i \in 1 .. n \/ (i - n \in 1 .. m /\ i = n + (i - n))
      /\ r \in [1 .. n + m -> Nodes]
  BY <1>2, <1>4
<1>6. head' = items[m] /\ tail' = tail /\ owned' = owned \ Range(items)
      /\ order' = order \o items
  BY DEF PushExchange, Last
<1>7. Range(items) \subseteq owned /\ \A i \in 1 .. m : items[i] \in Range(items)
  BY <1>2 DEF Range
<1>8. \A i \in 1 .. n + m : \/ i \in 1 .. n /\ r[i] = q[i]
                            \/ \E j \in 1 .. m : i = n + j /\ r[i] = items[j]
  BY <1>5
<1> HIDE DEF r
<1>9. Spine(n + m, r, k)'
  <2>1. tail' = r[1] /\ head' = r[n + m] /\ next'[head'] = Null
    BY <1>1, <1>2, <1>3, <1>5, <1>6 DEF ListOf, Spine
  <2>2. \A i \in 1 .. n : q[i] \notin owned /\ (q[i] = Stub <=> i = k)
    BY <1>1 DEF ListOf, Spine
  <2>3. \A i, j \in 1 .. n + m : r[i] = r[j] => i = j
    <3>1. \A i, j \in 1 .. n : q[i] = q[j] => i = j
      BY <1>1 DEF ListOf, Spine
    <3> QED BY <1>2, <1>8, <2>2, <3>1
  <2>4. \A i \in 1 .. n + m : r[i] = Stub <=> i = k
    BY <1>2, <1>4, <1>8, <2>2
  <2>5. \A i \in 1 .. n + m : r[i] \notin owned'
    BY <1>6, <1>7, <1>8, <2>2
  <2> QED BY <2>1, <2>3, <2>4, <2>5 DEF Spine
<1>10. order \in Seq(Items) /\ items \in Seq(Items)
  BY <1>t, <1>2, <1>4 DEF QueueTypeOK
<1>11. /\ order' \in Seq(Items) /\ Len(order') = Len(order) + m
       /\ \A i \in 1 .. Len(order') :
             order'[i] = IF i <= Len(order) THEN order[i] ELSE items[i - Len(order)]
  BY <1>6, <1>10, ConcatProperties
<1>12. Contents(n + m, r, k)'
  <2>1. /\ Len(order) = IF k = 0 THEN n ELSE n - 1
        /\ \A i \in 1 .. Len(order) : order[i] = q[IF k = 0 \/ i < k THEN i ELSE i + 1]
    BY <1>1 DEF ListOf, Contents
  <2>2. ASSUME NEW i \in 1 .. Len(order')
        PROVE  order'[i] = r[IF k = 0 \/ i < k THEN i ELSE i + 1]
    <3>1. CASE i <= Len(order)
      <4>1. (IF k = 0 \/ i < k THEN i ELSE i + 1) \in 1 .. n
        BY <2>1, <3>1
      <4> QED BY <1>5, <1>10, <1>11, <2>1, <3>1, <4>1
    <3>2. CASE i > Len(order)
      <4>1. /\ i - Len(order) \in 1 .. m
            /\ (IF k = 0 \/ i < k THEN i ELSE i + 1) = n + (i - Len(order))
        BY <1>2, <1>10, <1>11, <2>1, <3>2
      <4>2. order'[i] = items[i - Len(order)]
        BY <1>10, <1>11, <3>2
      <4>3. r[n + (i - Len(order))] = items[i - Len(order)]
        BY <1>5, <4>1
      <4> QED BY <4>1, <4>2, <4>3
    <3> QED BY <1>10, <3>1, <3>2
  <2>3. Len(order') = IF k = 0 THEN n + m ELSE n + m - 1
    BY <1>2, <1>11, <2>1
  <2> QED BY <2>2, <2>3 DEF Contents
<1>13. /\ cpc' = cpc /\ cprev' = cprev /\ cnext' = cnext /\ overlap' = TRUE
       /\ ppc[p] = "idle" /\ pushes' = pushes + 1 /\ pushes < MaxPushes
       /\ ppc' = [ppc EXCEPT ![p] = "link"]
       /\ pprev' = [pprev EXCEPT ![p] = head] /\ pfirst' = [pfirst EXCEPT ![p] = items[1]]
  BY DEF PushExchange
<1>14. /\ ppc'[p] = "link" /\ pprev'[p] = q[n] /\ pfirst'[p] = items[1]
       /\ \A x \in Producers : x # p => /\ ppc'[x] = ppc[x] /\ pprev'[x] = pprev[x]
                                        /\ pfirst'[x] = pfirst[x]
  BY <1>1, <1>13, <1>t DEF QueueTypeOK, ListOf, Spine
<1>15. next[q[n]] = Null
  BY <1>1 DEF ListOf, Spine
<1>16. Joined(n + m, r, k)'
  <2> SUFFICES ASSUME NEW i \in 1 .. n + m - 1
               PROVE  \/ next'[r[i]] = r[i + 1]
                      \/ /\ next'[r[i]] = Null
                         /\ \/ cpc' = "stublink" /\ i + 1 = k
                            \/ \E x \in Producers : ppc'[x] = "link" /\ pprev'[x] = r[i]
    BY DEF Joined
  <2>1. CASE i < n
    <3>1. i \in 1 .. n - 1 /\ r[i] = q[i] /\ r[i + 1] = q[i + 1]
      BY <1>5, <2>1
    <3>2. \/ next[q[i]] = q[i + 1]
          \/ /\ next[q[i]] = Null
             /\ \/ cpc = "stublink" /\ i + 1 = k
                \/ \E x \in Producers : ppc[x] = "link" /\ pprev[x] = q[i]
      BY <1>1, <3>1 DEF ListOf, Joined
    <3> QED BY <1>3, <1>13, <1>14, <3>1, <3>2
  <2>2. CASE i = n
    BY <1>3, <1>5, <1>14, <1>15, <2>2
  <2>3. CASE i > n
    <3>1. i - n \in 1 .. m - 1 /\ r[i] = items[i - n] /\ r[i + 1] = items[i - n + 1]
      <4>1. i - n \in 1 .. m - 1 /\ i = n + (i - n) /\ i + 1 = n + (i - n + 1)
            /\ i - n + 1 \in 1 .. m /\ i - n \in 1 .. m
        BY <1>2, <2>3
      <4> QED BY <1>5, <4>1
    <3> QED BY <1>3, <3>1
  <2> QED BY <2>1, <2>2, <2>3
<1>17. Pending(n, q, k)
  BY <1>1 DEF ListOf
<1>18. Pending(n + m, r, k)'
  <2> SUFFICES ASSUME NEW x \in Producers, ppc'[x] = "link"
               PROVE  \E i \in 1 .. n + m - 1 :
                         /\ pprev'[x] = r[i] /\ pfirst'[x] = r[i + 1]
                         /\ next'[r[i]] = Null /\ i + 1 # k
    BY DEF Pending
  <2>1. CASE x = p
    <3>1. n \in 1 .. n + m - 1 /\ r[n] = q[n] /\ r[n + 1] = items[1] /\ n + 1 # k
      BY <1>2, <1>5
    <3> QED BY <1>3, <1>14, <1>15, <2>1, <3>1
  <2>2. CASE x # p
    <3>1. PICK i \in 1 .. n - 1 : /\ pprev[x] = q[i] /\ pfirst[x] = q[i + 1]
                                  /\ next[q[i]] = Null /\ i + 1 # k
      BY <1>14, <1>17, <2>2 DEF Pending
    <3>2. i \in 1 .. n + m - 1 /\ r[i] = q[i] /\ r[i + 1] = q[i + 1] /\ i \in 1 .. n
      BY <1>2, <1>5
    <3> QED BY <1>3, <1>14, <2>2, <3>1, <3>2
  <2> QED BY <2>1, <2>2
<1>19. StubPlaced(n + m, r, k)'
  <2>1. StubPlaced(n, q, k)
    BY <1>1 DEF ListOf
  <2>2. k > 1 => k - 1 \in 1 .. n
    OBVIOUS
  <2> QED BY <1>3, <1>5, <1>13, <2>1, <2>2 DEF StubPlaced
<1>20. IsList'
  BY <1>5, <1>9, <1>12, <1>16, <1>18, <1>19 DEF IsList, ListOf
<1>21. OneLinker'
  <2>1. \A x \in Producers : ppc[x] = "link" => pprev[x] # q[n]
    BY <1>1, <1>17 DEF Pending, ListOf, Spine
  <2> QED BY <1>13, <1>14, <2>1 DEF OneLinker, QueueInv
<1>22. QueueTypeOK'
  <2>1. items[m] \in Nodes /\ items[1] \in Nodes /\ pushes' \in 0 .. MaxPushes
        /\ owned' \subseteq Items
    BY <1>2, <1>4, <1>6, <1>13, <1>t, PushBounds DEF QueueTypeOK
  <2> QED BY <1>3, <1>6, <1>11, <1>13, <1>t, <2>1 DEF QueueTypeOK
<1>23. PopState'
  <2>1. next'[tail] = next[tail]
    BY <1>1, <1>3 DEF ListOf, Spine
  <2> QED BY <1>6, <1>13, <2>1 DEF PopState, QueueInv
<1> QED BY <1>13, <1>20, <1>21, <1>22, <1>23 DEF QueueInv, PopAlone

\* The gap is closed by the one producer that stands at it.
LEMMA PushLinkKeeps ==
  ASSUME QueueInv, NEW p \in Producers, PushLink(p)
  PROVE  QueueInv'
<1> USE StubApart
<1>t. QueueTypeOK /\ OneLinker
  BY DEF QueueInv
<1>n. PICK n \in Nat \ {0} : \E q \in [1 .. n -> Nodes] : \E k \in 0 .. n : ListOf(n, q, k)
  BY DEF QueueInv, IsList
<1>q. PICK q \in [1 .. n -> Nodes] : \E k \in 0 .. n : ListOf(n, q, k)
  BY <1>n
<1>1. PICK k \in 0 .. n : ListOf(n, q, k)
  BY <1>q
<1>2. Spine(n, q, k) /\ Joined(n, q, k) /\ Pending(n, q, k) /\ StubPlaced(n, q, k)
  BY <1>1 DEF ListOf
<1>3. PICK g \in 1 .. n - 1 : /\ pprev[p] = q[g] /\ pfirst[p] = q[g + 1]
                              /\ next[q[g]] = Null /\ g + 1 # k
  BY <1>2 DEF Pending, PushLink
<1>4. /\ next' \in [Nodes -> Nodes \cup {Null}]
      /\ next'[q[g]] = q[g + 1]
      /\ \A i \in 1 .. n : i # g => next'[q[i]] = next[q[i]]
  <2>1. g \in 1 .. n /\ q[g] \in Nodes /\ q[g + 1] \in Nodes
    BY <1>1
  <2>2. \A i \in 1 .. n : i # g => q[i] # q[g]
    BY <1>2, <2>1 DEF Spine
  <2> QED BY <1>3, <1>t, <2>1, <2>2 DEF PushLink, QueueTypeOK
<1>5. /\ ppc[p] = "link" /\ ppc'[p] = "idle"
      /\ \A x \in Producers : x # p => ppc'[x] = ppc[x]
      /\ ppc' \in [Producers -> {"idle", "link"}]
      /\ UNCHANGED <<head, tail, owned, pprev, pfirst, pushes, cpc, cnext, cprev,
                     order, overlap>>
  BY <1>t DEF PushLink, QueueTypeOK
<1>6. \A x \in Producers : ppc[x] = "link" /\ x # p => pprev[x] # q[g]
  BY <1>3, <1>5, <1>t DEF OneLinker
<1>7. Spine(n, q, k)'
  BY <1>2, <1>4, <1>5 DEF Spine
<1>8. Contents(n, q, k)'
  BY <1>1, <1>5 DEF ListOf, Contents
<1>9. Joined(n, q, k)'
  <2> SUFFICES ASSUME NEW i \in 1 .. n - 1
               PROVE  \/ next'[q[i]] = q[i + 1]
                      \/ /\ next'[q[i]] = Null
                         /\ \/ cpc' = "stublink" /\ i + 1 = k
                            \/ \E x \in Producers : ppc'[x] = "link" /\ pprev'[x] = q[i]
    BY DEF Joined
  <2>1. CASE i = g
    BY <1>4, <2>1
  <2>2. CASE i # g
    <3>1. \/ next[q[i]] = q[i + 1]
          \/ /\ next[q[i]] = Null
             /\ \/ cpc = "stublink" /\ i + 1 = k
                \/ \E x \in Producers : ppc[x] = "link" /\ pprev[x] = q[i]
      BY <1>2 DEF Joined
    <3>2. q[i] # q[g]
      BY <1>2, <2>2 DEF Spine
    <3> QED BY <1>3, <1>4, <1>5, <2>2, <3>1, <3>2
  <2> QED BY <2>1, <2>2
<1>10. Pending(n, q, k)'
  <2> SUFFICES ASSUME NEW x \in Producers, ppc'[x] = "link"
               PROVE  \E i \in 1 .. n - 1 :
                         /\ pprev'[x] = q[i] /\ pfirst'[x] = q[i + 1]
                         /\ next'[q[i]] = Null /\ i + 1 # k
    BY DEF Pending
  <2>1. x # p /\ ppc[x] = "link"
    BY <1>5
  <2>2. PICK i \in 1 .. n - 1 : /\ pprev[x] = q[i] /\ pfirst[x] = q[i + 1]
                                /\ next[q[i]] = Null /\ i + 1 # k
    BY <1>2, <2>1 DEF Pending
  <2>3. i # g
    BY <1>6, <2>1, <2>2
  <2> QED BY <1>4, <1>5, <2>2, <2>3
<1>11. StubPlaced(n, q, k)'
  <2>1. k > 1 => k - 1 \in 1 .. n /\ k - 1 # g
    BY <1>3
  <2> QED BY <1>2, <1>4, <1>5, <2>1 DEF StubPlaced
<1>12. IsList'
  BY <1>7, <1>8, <1>9, <1>10, <1>11 DEF IsList, ListOf
<1>13. OneLinker'
  BY <1>5, <1>t DEF OneLinker
<1>14. QueueTypeOK'
  BY <1>4, <1>5, <1>t DEF QueueTypeOK
<1>15. PopState'
  <2>1. next[tail] # Null => next'[tail] = next[tail]
    BY <1>2, <1>3, <1>4 DEF Spine
  <2> QED BY <1>5, <2>1, <1>t, NodesAssumption DEF PopState, QueueInv
<1>16. PopAlone'
  BY <1>5, NodesAssumption DEF PopAlone, QueueInv
<1> QED BY <1>12, <1>13, <1>14, <1>15, <1>16 DEF QueueInv

\* Steps of pop that only look leave the list as it is.
LEMMA ListStands ==
  ASSUME QueueInv, UNCHANGED <<head, tail, next, owned, producerVars, order>>,
         cpc # "stublink", cpc' # "stublink",
         cpc' = "stub" => tail = head /\ tail # Stub
  PROVE  IsList' /\ OneLinker'
<1>n. PICK n \in Nat \ {0} : \E q \in [1 .. n -> Nodes] : \E k \in 0 .. n : ListOf(n, q, k)
  BY DEF QueueInv, IsList
<1>q. PICK q \in [1 .. n -> Nodes] : \E k \in 0 .. n : ListOf(n, q, k)
  BY <1>n
<1>1. PICK k \in 0 .. n : ListOf(n, q, k)
  BY <1>q
<1>2. UNCHANGED <<head, tail, next, owned, order, ppc, pprev, pfirst>>
  BY DEF producerVars
<1>3. cpc' = "stub" => k = 0
  <2>1. n \in 1 .. n /\ 1 \in 1 .. n
    OBVIOUS
  <2> QED BY <1>1, <2>1 DEF ListOf, Spine
<1>4. ListOf(n, q, k)'
  BY <1>1, <1>2, <1>3 DEF ListOf, Spine, Contents, Joined, Pending, StubPlaced
<1> QED BY <1>2, <1>4 DEF IsList, OneLinker, QueueInv

\* With no push and no append under way, a node without successor is the last.
LEMMA NoGapIsEnd ==
  ASSUME QueueInv, cpc # "stublink", \A p \in Producers : ppc[p] = "idle",
         next[tail] = Null
  PROVE  tail = head /\ (tail = Stub => order = << >>)
<1> USE StubApart
<1>n. PICK n \in Nat \ {0} : \E q \in [1 .. n -> Nodes] : \E k \in 0 .. n : ListOf(n, q, k)
  BY DEF QueueInv, IsList
<1>q. PICK q \in [1 .. n -> Nodes] : \E k \in 0 .. n : ListOf(n, q, k)
  BY <1>n
<1>1. PICK k \in 0 .. n : ListOf(n, q, k)
  BY <1>q
<1>2. n = 1
  <2> SUFFICES ASSUME n > 1 PROVE FALSE
    OBVIOUS
  <2>1. 1 \in 1 .. n - 1 /\ q[1 + 1] \in Nodes
    OBVIOUS
  <2> QED BY <1>1, <2>1 DEF ListOf, Spine, Joined
<1>3. order \in Seq(Items)
  BY DEF QueueInv, QueueTypeOK
<1>4. tail = Stub => Len(order) = 0
  <2>1. 1 \in 1 .. n
    OBVIOUS
  <2>2. tail = Stub => k = 1
    BY <1>1, <2>1 DEF ListOf, Spine
  <2> QED BY <1>1, <1>2, <2>2 DEF ListOf, Contents
<1> QED BY <1>1, <1>2, <1>3, <1>4, EmptySeq DEF ListOf, Spine

\* A task at the tail is the oldest task.
LEMMA TailIsFront ==
  ASSUME QueueInv, tail # Stub
  PROVE  order # << >> /\ tail = Head(order)
<1>n. PICK n \in Nat \ {0} : \E q \in [1 .. n -> Nodes] : \E k \in 0 .. n : ListOf(n, q, k)
  BY DEF QueueInv, IsList
<1>q. PICK q \in [1 .. n -> Nodes] : \E k \in 0 .. n : ListOf(n, q, k)
  BY <1>n
<1>1. PICK k \in 0 .. n : ListOf(n, q, k)
  BY <1>q
<1>2. 1 \in 1 .. n /\ k # 1
  BY <1>1 DEF ListOf, Spine
<1>3. order \in Seq(Items) /\ Len(order) >= 1 /\ order[1] = q[1]
  BY <1>1, <1>2 DEF QueueInv, QueueTypeOK, ListOf, Contents
<1> QED BY <1>1, <1>3 DEF ListOf, Spine

LEMMA PopReloadKeeps ==
  ASSUME QueueInv, PopReload
  PROVE  QueueInv'
<1>1. IsList' /\ OneLinker'
  BY ListStands DEF PopReload
<1>2. QueueTypeOK'
  BY DEF PopReload, QueueInv, QueueTypeOK, producerVars
<1>3. PopState'
  BY DEF PopReload, QueueInv, PopState
<1>4. PopAlone'
  BY NoGapIsEnd DEF PopReload, QueueInv, PopAlone, producerVars
<1> QED BY <1>1, <1>2, <1>3, <1>4 DEF QueueInv

LEMMA PopCheckHeadKeeps ==
  ASSUME QueueInv, PopCheckHead
  PROVE  QueueInv'
<1>1. IsList' /\ OneLinker'
  BY ListStands DEF PopCheckHead, QueueInv, PopState
<1>2. QueueTypeOK'
  BY DEF PopCheckHead, QueueInv, QueueTypeOK, producerVars
<1>3. PopState'
  BY DEF PopCheckHead, QueueInv, PopState
<1>4. PopAlone'
  BY DEF PopCheckHead, QueueInv, PopAlone, producerVars
<1> QED BY <1>1, <1>2, <1>3, <1>4 DEF QueueInv

LEMMA PopLastKeeps ==
  ASSUME QueueInv, PopLast
  PROVE  QueueInv'
<1>1. IsList' /\ OneLinker'
  BY ListStands DEF PopLast
<1>2. QueueTypeOK'
  BY DEF PopLast, QueueInv, QueueTypeOK, producerVars
<1>3. PopState'
  BY DEF PopLast, QueueInv, PopState
<1>4. PopAlone'
  BY DEF PopLast, QueueInv, PopAlone, producerVars
<1> QED BY <1>1, <1>2, <1>3, <1>4 DEF QueueInv

LEMMA PopFalseKeeps ==
  ASSUME QueueInv, PopFalse
  PROVE  QueueInv'
<1>1. IsList' /\ OneLinker'
  BY ListStands DEF PopFalse
<1>2. QueueTypeOK'
  BY DEF PopFalse, QueueInv, QueueTypeOK, producerVars
<1> QED BY <1>1, <1>2 DEF QueueInv, PopFalse, PopState, PopAlone, producerVars

\* The first node, linked to the second, leaves the list.
LEMMA FirstLeaves ==
  ASSUME NEW n \in Nat \ {0}, NEW q \in [1 .. n -> Nodes], NEW k \in 0 .. n,
         ListOf(n, q, k), QueueTypeOK, next[tail] # Null,
         tail' = next[tail], UNCHANGED <<head, next, producerVars>>,
         owned' = IF tail = Stub THEN owned ELSE owned \cup {tail},
         order' = IF tail = Stub THEN order ELSE SubSeq(order, 2, Len(order)),
         cpc # "stublink", cpc' \in {"idle", "reload"}
  PROVE  IsList'
<1> USE StubApart
<1>1. 1 \in 1 .. n /\ n \in 1 .. n
  OBVIOUS
<1>2. n > 1
  BY <1>1 DEF ListOf, Spine
<1>3. 1 \in 1 .. n - 1 /\ 2 \in 1 .. n /\ tail' = q[2]
  BY <1>1, <1>2 DEF ListOf, Spine, Joined
<1> DEFINE r == [i \in 1 .. n - 1 |-> q[i + 1]]
           j == IF k = 0 THEN 0 ELSE k - 1
<1>4. /\ n - 1 \in Nat \ {0} /\ r \in [1 .. n - 1 -> Nodes] /\ j \in 0 .. n - 1
      /\ \A i \in 1 .. n - 1 : r[i] = q[i + 1] /\ i + 1 \in 1 .. n
  BY <1>2
<1>5. \A i \in 1 .. n - 1 : i + 1 = k <=> i = j
  BY <1>2
<1>6. tail = q[1] /\ head = q[n] /\ (tail = Stub <=> k = 1)
  BY <1>1 DEF ListOf, Spine
<1>7. UNCHANGED <<ppc, pprev, pfirst>>
  BY DEF producerVars
<1> HIDE DEF r
<1>8. Spine(n - 1, r, j)'
  <2>1. tail' = r[1] /\ head' = r[n - 1] /\ next'[head'] = Null
    <3>1. r[1] = q[1 + 1] /\ r[n - 1] = q[n - 1 + 1]
      BY <1>2, <1>3, <1>4
    <3> QED BY <1>3, <1>6, <3>1 DEF ListOf, Spine
  <2>2. \A a, b \in 1 .. n - 1 : r[a] = r[b] => a = b
    BY <1>4 DEF ListOf, Spine
  <2>3. \A i \in 1 .. n - 1 : r[i] = Stub <=> i = j
    BY <1>4, <1>5 DEF ListOf, Spine
  <2>4. \A i \in 1 .. n - 1 : r[i] \notin owned'
    <3>1. \A i \in 1 .. n - 1 : q[i + 1] # q[1] /\ q[i + 1] \notin owned
      BY <1>1, <1>4 DEF ListOf, Spine
    <3> QED BY <1>4, <1>6, <3>1
  <2> QED BY <2>1, <2>2, <2>3, <2>4 DEF Spine
<1>9. order \in Seq(Items)
  BY DEF QueueTypeOK
<1>10. /\ Len(order) = IF k = 0 THEN n ELSE n - 1
       /\ \A i \in 1 .. Len(order) : order[i] = q[IF k = 0 \/ i < k THEN i ELSE i + 1]
  BY DEF ListOf, Contents
<1>11. Contents(n - 1, r, j)'
  <2>1. CASE k = 1
    <3>1. order' = order /\ Len(order') = n - 1 /\ j = 0
      BY <1>6, <1>10, <2>1
    <3>2. \A i \in 1 .. n - 1 : order'[i] = r[i]
      BY <1>4, <1>10, <2>1, <3>1
    <3> QED BY <3>1, <3>2 DEF Contents
  <2>2. CASE k # 1
    <3>1. order' = SubSeq(order, 2, Len(order))
      BY <1>6, <2>2
    <3>2. /\ Len(order') = Len(order) - 1
          /\ \A i \in 1 .. Len(order') : order'[i] = order[i + 1]
      BY <1>2, <1>9, <1>10, <3>1
    <3>3. Len(order') = IF j = 0 THEN n - 1 ELSE n - 1 - 1
      BY <1>10, <2>2, <3>2
    <3>4. ASSUME NEW i \in 1 .. Len(order')
          PROVE  order'[i] = r[IF j = 0 \/ i < j THEN i ELSE i + 1]
      <4>1. i + 1 \in 1 .. Len(order)
        BY <1>9, <3>2
      <4>2. order'[i] = q[IF k = 0 \/ i + 1 < k THEN i + 1 ELSE i + 1 + 1]
        BY <1>10, <3>2, <4>1
      <4>3. (IF j = 0 \/ i < j THEN i ELSE i + 1) \in 1 .. n - 1
        BY <1>2, <2>2, <3>3
      <4>4. (IF k = 0 \/ i + 1 < k THEN i + 1 ELSE i + 1 + 1)
              = (IF j = 0 \/ i < j THEN i ELSE i + 1) + 1
        BY <2>2, <1>9, <3>2
      <4> QED BY <1>4, <4>2, <4>3, <4>4
    <3> QED BY <3>3, <3>4 DEF Contents
  <2> QED BY <2>1, <2>2
<1>12. Joined(n - 1, r, j)'
  <2> SUFFICES ASSUME NEW i \in 1 .. n - 1 - 1
               PROVE  \/ next'[r[i]] = r[i + 1]
                      \/ /\ next'[r[i]] = Null
                         /\ \E x \in Producers : ppc'[x] = "link" /\ pprev'[x] = r[i]
    BY DEF Joined
  <2>1. i + 1 \in 1 .. n - 1 /\ r[i] = q[i + 1] /\ r[i + 1] = q[i + 1 + 1]
    BY <1>4
  <2> QED BY <1>7, <2>1 DEF ListOf, Joined
<1>13. Pending(n - 1, r, j)'
  <2> SUFFICES ASSUME NEW x \in Producers, ppc[x] = "link"
               PROVE  \E i \in 1 .. n - 1 - 1 :
                         /\ pprev[x] = r[i] /\ pfirst[x] = r[i + 1]
                         /\ next[r[i]] = Null /\ i + 1 # j
    BY <1>7 DEF Pending
  <2>1. PICK i \in 1 .. n - 1 : /\ pprev[x] = q[i] /\ pfirst[x] = q[i + 1]
                                /\ next[q[i]] = Null /\ i + 1 # k
    BY DEF ListOf, Pending
  <2>2. i # 1
    BY <1>6, <2>1
  <2>3. i - 1 \in 1 .. n - 1 - 1 /\ r[i - 1] = q[i] /\ r[i - 1 + 1] = q[i + 1]
    <3>1. i - 1 \in 1 .. n - 1 - 1 /\ i - 1 \in 1 .. n - 1 /\ i - 1 + 1 = i
      BY <2>2
    <3> QED BY <1>4, <3>1
  <2>4. i - 1 + 1 # j
    BY <2>1, <2>2
  <2> QED BY <2>1, <2>3, <2>4
<1>14. StubPlaced(n - 1, r, j)'
  BY DEF StubPlaced
<1> HIDE DEF j
<1> QED BY <1>4, <1>8, <1>11, <1>12, <1>13, <1>14 DEF IsList, ListOf

LEMMA PopTakeKeeps ==
  ASSUME QueueInv, PopFront
  PROVE  QueueInv'
<1> USE StubApart
<1>t. QueueTypeOK /\ PopState
  BY DEF QueueInv
<1>n. PICK n \in Nat \ {0} : \E q \in [1 .. n -> Nodes] : \E k \in 0 .. n : ListOf(n, q, k)
  BY DEF QueueInv, IsList
<1>q. PICK q \in [1 .. n -> Nodes] : \E k \in 0 .. n : ListOf(n, q, k)
  BY <1>n
<1>1. PICK k \in 0 .. n : ListOf(n, q, k)
  BY <1>q
<1>2. /\ tail # Stub /\ tail' = next[tail] /\ next[tail] # Null
      /\ cpc # "stublink" /\ cpc' = "idle"
  BY <1>t DEF PopFront, PopState
<1>3. /\ UNCHANGED <<head, next, producerVars>> /\ owned' = owned \cup {tail}
      /\ order' = SubSeq(order, 2, Len(order))
  BY DEF PopFront
<1>4. IsList'
  BY <1>1, <1>2, <1>3, <1>t, FirstLeaves
<1>5. OneLinker'
  BY <1>3 DEF QueueInv, OneLinker, producerVars
<1>6. QueueTypeOK'
  <2>1. order' \in Seq(Items)
    BY <1>3, <1>t DEF QueueTypeOK
  <2>2. tail \in Items /\ owned' \subseteq Items
    BY <1>2, <1>3, <1>t DEF QueueTypeOK, Nodes
  <2> QED BY <2>1, <2>2, <1>t DEF PopFront, QueueTypeOK, producerVars
<1> QED BY <1>2, <1>4, <1>5, <1>6 DEF QueueInv, PopFront, PopState, PopAlone, producerVars

LEMMA PopBeginKeeps ==
  ASSUME QueueInv, PopLoad
  PROVE  QueueInv'
<1> USE StubApart
<1>t. QueueTypeOK
  BY DEF QueueInv
<1>b. overlap' \in BOOLEAN
  BY DEF PopLoad, InFlight
<1>1. CASE tail = Stub /\ next[tail] # Null
  <2>n. PICK n \in Nat \ {0} : \E q \in [1 .. n -> Nodes] : \E k \in 0 .. n : ListOf(n, q, k)
    BY DEF QueueInv, IsList
  <2>q. PICK q \in [1 .. n -> Nodes] : \E k \in 0 .. n : ListOf(n, q, k)
    BY <2>n
  <2>1. PICK k \in 0 .. n : ListOf(n, q, k)
    BY <2>q
  <2>2. IsList'
    BY <1>1, <1>t, <2>1, FirstLeaves DEF PopLoad
  <2>3. next[tail] \in Nodes /\ next[tail] # Stub
    <3>1. n \in 1 .. n /\ 1 \in 1 .. n
      OBVIOUS
    <3>2. n > 1
      BY <1>1, <2>1, <3>1 DEF ListOf, Spine
    <3>3. 1 \in 1 .. n - 1 /\ 2 \in 1 .. n /\ q[2] \in Nodes
      BY <3>2
    <3> QED BY <1>1, <2>1, <3>1, <3>3 DEF ListOf, Spine, Joined
  <2>4. PopState'
    BY <1>1, <2>3 DEF PopLoad, PopState
  <2>5. QueueTypeOK'
    BY <1>1, <1>b, <1>t, <2>3 DEF PopLoad, QueueTypeOK, producerVars
  <2>6. OneLinker'
    BY DEF PopLoad, QueueInv, OneLinker, producerVars
  <2>7. PopAlone'
    BY <1>1, <1>t DEF PopLoad, PopAlone, InFlight, QueueTypeOK, producerVars
  <2> QED BY <2>2, <2>4, <2>5, <2>6, <2>7 DEF QueueInv
<1>2. CASE ~ (tail = Stub /\ next[tail] # Null)
  <2>1. UNCHANGED <<head, tail, next, owned, producerVars, order>>
    BY <1>2 DEF PopLoad
  <2>2. IsList' /\ OneLinker'
    BY <1>2, <2>1, ListStands DEF PopLoad
  <2>3. QueueTypeOK'
    BY <1>2, <1>b, <1>t DEF PopLoad, QueueTypeOK, producerVars
  <2>4. PopState'
    BY <1>2 DEF PopLoad, PopState
  <2>5. PopAlone'
    <3> SUFFICES ASSUME ~ overlap' PROVE PopAlone'
      BY DEF PopAlone
    <3>1. \A p \in Producers : ppc[p] = "idle"
      BY <1>t DEF PopLoad, InFlight, QueueTypeOK
    <3> QED BY <1>2, <3>1, NoGapIsEnd DEF PopLoad, PopAlone, producerVars
  <2> QED BY <2>2, <2>3, <2>4, <2>5 DEF QueueInv
<1> QED BY <1>1, <1>2

\* The stub becomes the last node; the gap before it is the consumer's.
LEMMA PopStubKeeps ==
  ASSUME QueueInv, PopStub
  PROVE  QueueInv'
<1> USE StubApart
<1>t. QueueTypeOK
  BY DEF QueueInv
<1>n. PICK n \in Nat \ {0} : \E q \in [1 .. n -> Nodes] : \E k \in 0 .. n : ListOf(n, q, k)
  BY DEF QueueInv, IsList
<1>q. PICK q \in [1 .. n -> Nodes] : \E k \in 0 .. n : ListOf(n, q, k)
  BY <1>n
<1>1. PICK k \in 0 .. n : ListOf(n, q, k)
  BY <1>q
<1>2. k = 0 /\ n \in 1 .. n
  BY <1>1 DEF ListOf, StubPlaced, PopStub
<1> DEFINE r == [i \in 1 .. n + 1 |-> IF i <= n THEN q[i] ELSE Stub]
<1>3. /\ n + 1 \in Nat \ {0} /\ r \in [1 .. n + 1 -> Nodes] /\ n + 1 \in 0 .. n + 1
      /\ \A i \in 1 .. n : r[i] = q[i] /\ r[n + 1] = Stub
      /\ \A i \in 1 .. n + 1 : i \in 1 .. n \/ i = n + 1
  OBVIOUS
<1>4. \A i \in 1 .. n : q[i] # Stub /\ next'[q[i]] = next[q[i]]
  BY <1>1, <1>2, <1>t DEF ListOf, Spine, PopStub
<1>5. /\ head' = Stub /\ next'[Stub] = Null /\ cprev' = q[n] /\ cpc' = "stublink"
      /\ next[q[n]] = Null /\ tail = q[1]
      /\ UNCHANGED <<tail, owned, cnext, order, overlap, ppc, pprev, pfirst, pushes>>
      /\ next' \in [Nodes -> Nodes \cup {Null}]
  BY <1>1, <1>t DEF ListOf, Spine, PopStub, producerVars, QueueTypeOK
<1> HIDE DEF r
<1>6. Spine(n + 1, r, n + 1)'
  <2>1. tail' = r[1] /\ head' = r[n + 1] /\ next'[head'] = Null
    BY <1>3, <1>5
  <2>2. \A i, j \in 1 .. n + 1 : r[i] = r[j] => i = j
    BY <1>1, <1>3, <1>4 DEF ListOf, Spine
  <2>3. \A i \in 1 .. n + 1 : r[i] = Stub <=> i = n + 1
    BY <1>3, <1>4
  <2>4. \A i \in 1 .. n + 1 : r[i] \notin owned'
    BY <1>1, <1>3, <1>5, <1>t DEF ListOf, Spine, QueueTypeOK
  <2> QED BY <2>1, <2>2, <2>3, <2>4 DEF Spine
<1>7. Contents(n + 1, r, n + 1)'
  <2>1. Len(order) = n /\ \A i \in 1 .. n : order[i] = q[i]
    BY <1>1, <1>2 DEF ListOf, Contents
  <2> QED BY <1>3, <1>5, <2>1 DEF Contents
<1>8. Joined(n + 1, r, n + 1)'
  <2> SUFFICES ASSUME NEW i \in 1 .. n
               PROVE  \/ next'[r[i]] = r[i + 1]
                      \/ /\ next'[r[i]] = Null
                         /\ \/ i + 1 = n + 1
                            \/ \E x \in Producers : ppc[x] = "link" /\ pprev[x] = r[i]
    BY <1>5 DEF Joined
  <2>1. CASE i = n
    BY <1>3, <1>4, <1>5, <2>1
  <2>2. CASE i < n
    <3>1. i \in 1 .. n - 1 /\ r[i] = q[i] /\ r[i + 1] = q[i + 1]
      BY <1>3, <2>2
    <3> QED BY <1>1, <1>4, <3>1 DEF ListOf, Joined, PopStub
  <2> QED BY <2>1, <2>2
<1>9. Pending(n + 1, r, n + 1)'
  <2> SUFFICES ASSUME NEW x \in Producers, ppc[x] = "link"
               PROVE  \E i \in 1 .. n :
                         /\ pprev[x] = r[i] /\ pfirst[x] = r[i + 1]
                         /\ next'[r[i]] = Null /\ i + 1 # n + 1
    BY <1>5 DEF Pending
  <2>1. PICK i \in 1 .. n - 1 : /\ pprev[x] = q[i] /\ pfirst[x] = q[i + 1]
                                /\ next[q[i]] = Null
    BY <1>1 DEF ListOf, Pending
  <2>2. i \in 1 .. n /\ r[i] = q[i] /\ r[i + 1] = q[i + 1] /\ i + 1 # n + 1
    BY <1>3
  <2> QED BY <1>4, <2>1, <2>2
<1>10. StubPlaced(n + 1, r, n + 1)'
  <2>1. n + 1 > 1 /\ n + 1 - 1 = n /\ r[n] = q[n]
    BY <1>3
  <2> QED BY <1>4, <1>5, <2>1 DEF StubPlaced
<1>11. IsList'
  BY <1>3, <1>6, <1>7, <1>8, <1>9, <1>10 DEF IsList, ListOf
<1>12. QueueTypeOK'
  <2>1. cprev' \in Nodes
    BY <1>t DEF PopStub, QueueTypeOK
  <2> QED BY <1>5, <1>t, <2>1 DEF QueueTypeOK
<1>13. OneLinker' /\ PopState'
  BY <1>5 DEF QueueInv, OneLinker, PopState, PopStub
<1>14. PopAlone'
  BY <1>5 DEF QueueInv, PopAlone, PopStub
<1> QED BY <1>11, <1>12, <1>13, <1>14 DEF QueueInv

LEMMA PopStubLinkKeeps ==
  ASSUME QueueInv, PopStubLink
  PROVE  QueueInv'
<1> USE StubApart
<1>t. QueueTypeOK
  BY DEF QueueInv
<1>n. PICK n \in Nat \ {0} : \E q \in [1 .. n -> Nodes] : \E k \in 0 .. n : ListOf(n, q, k)
  BY DEF QueueInv, IsList
<1>q. PICK q \in [1 .. n -> Nodes] : \E k \in 0 .. n : ListOf(n, q, k)
  BY <1>n
<1>1. PICK k \in 0 .. n : ListOf(n, q, k)
  BY <1>q
<1>2. /\ Spine(n, q, k) /\ Joined(n, q, k) /\ Pending(n, q, k)
      /\ k > 1 /\ cprev = q[k - 1] /\ next[cprev] = Null
  BY <1>1 DEF ListOf, StubPlaced, PopStubLink
<1>3. k - 1 \in 1 .. n /\ k \in 1 .. n /\ q[k] = Stub /\ k - 1 + 1 = k
  BY <1>2 DEF Spine
<1>4. /\ next' \in [Nodes -> Nodes \cup {Null}]
      /\ next'[q[k - 1]] = Stub
      /\ \A i \in 1 .. n : i # k - 1 => next'[q[i]] = next[q[i]]
  <2>1. \A i \in 1 .. n : i # k - 1 => q[i] # q[k - 1]
    BY <1>2, <1>3 DEF Spine
  <2> QED BY <1>2, <1>3, <1>t, <2>1 DEF PopStubLink, QueueTypeOK
<1>5. /\ cpc = "stublink" /\ cpc' = "last"
      /\ UNCHANGED <<head, tail, owned, cnext, cprev, order, overlap, ppc, pprev,
                     pfirst, pushes>>
  BY DEF PopStubLink, producerVars
<1>6. Spine(n, q, k)'
  BY <1>2, <1>3, <1>4, <1>5 DEF Spine
<1>7. Contents(n, q, k)'
  BY <1>1, <1>5 DEF ListOf, Contents
<1>8. Joined(n, q, k)'
  <2> SUFFICES ASSUME NEW i \in 1 .. n - 1
               PROVE  \/ next'[q[i]] = q[i + 1]
                      \/ /\ next'[q[i]] = Null
                         /\ \E x \in Producers : ppc[x] = "link" /\ pprev[x] = q[i]
    BY <1>5 DEF Joined
  <2>1. CASE i = k - 1
    BY <1>3, <1>4, <2>1
  <2>2. CASE i # k - 1
    BY <1>2, <1>4, <2>2 DEF Joined
  <2> QED BY <2>1, <2>2
<1>9. Pending(n, q, k)'
  <2> SUFFICES ASSUME NEW x \in Producers, ppc[x] = "link"
               PROVE  \E i \in 1 .. n - 1 :
                         /\ pprev[x] = q[i] /\ pfirst[x] = q[i + 1]
                         /\ next'[q[i]] = Null /\ i + 1 # k
    BY <1>5 DEF Pending
  <2>1. PICK i \in 1 .. n - 1 : /\ pprev[x] = q[i] /\ pfirst[x] = q[i + 1]
                                /\ next[q[i]] = Null /\ i + 1 # k
    BY <1>2 DEF Pending
  <2> QED BY <1>4, <2>1
<1>10. StubPlaced(n, q, k)'
  BY <1>5 DEF StubPlaced
<1>11. IsList'
  BY <1>6, <1>7, <1>8, <1>9, <1>10 DEF IsList, ListOf
<1>12. QueueTypeOK'
  BY <1>4, <1>5, <1>t DEF QueueTypeOK
<1>13. OneLinker' /\ PopState'
  BY <1>5 DEF QueueInv, OneLinker, PopState
<1>14. PopAlone'
  BY <1>2, <1>4, <1>5 DEF QueueInv, PopAlone
<1> QED BY <1>11, <1>12, <1>13, <1>14 DEF QueueInv
-----------------------------------------------------------------------------
LEMMA StepKeeps == QueueInv /\ [QueueNext]_queueVars => QueueInv'
<1> SUFFICES ASSUME QueueInv, [QueueNext]_queueVars PROVE QueueInv'
  OBVIOUS
<1>1. CASE Consumer
  BY <1>1, PopBeginKeeps, PopReloadKeeps, PopTakeKeeps, PopCheckHeadKeeps,
     PopStubKeeps, PopStubLinkKeeps, PopLastKeeps, PopFalseKeeps DEF Consumer
<1>2. CASE \E p \in Producers : Producer(p)
  BY <1>2, PushExchangeKeeps, PushLinkKeeps DEF Producer
<1>3. CASE UNCHANGED queueVars
  <2>1. UNCHANGED <<head, tail, next, owned, ppc, pprev, pfirst, cpc, cnext, cprev,
                    pushes, order, overlap>>
    BY <1>3 DEF queueVars
  <2>2. ASSUME NEW n, NEW q, NEW k, ListOf(n, q, k)
        PROVE  ListOf(n, q, k)'
    BY <2>1, <2>2 DEF ListOf, Spine, Contents, Joined, Pending, StubPlaced
  <2>3. IsList'
    BY <2>2 DEF QueueInv, IsList
  <2>4. QueueTypeOK' /\ OneLinker' /\ PopState' /\ PopAlone'
    BY <2>1 DEF QueueInv, QueueTypeOK, OneLinker, PopState, PopAlone
  <2> QED BY <2>3, <2>4 DEF QueueInv
<1> QED BY <1>1, <1>2, <1>3 DEF QueueNext

LEMMA QueueInvHolds == QueueSpec => []QueueInv
BY InitKeeps, StepKeeps, PTL DEF QueueSpec

\* Whatever the number of producers, the length of the batches and the number
\* of pushes: a pop that succeeds returns the oldest task in the order of the
\* exchanges of head_.
THEOREM QueueIsFIFO == QueueSpec => []PopReturnsFront
<1>1. QueueInv => PopReturnsFront
  BY TailIsFront DEF QueueInv, PopState, PopReturnsFront
<1> QED BY <1>1, QueueInvHolds, PTL

\* A pop that no push overlaps answers "empty" only of an empty queue, so a
\* worker that goes to sleep on the answer misses no completed push.
THEOREM QueueEmptyIsHonest == QueueSpec => []EmptyIsHonest
<1>1. QueueInv => EmptyIsHonest
  BY DEF QueueInv, PopAlone, EmptyIsHonest
<1> QED BY <1>1, QueueInvHolds, PTL
=============================================================================
