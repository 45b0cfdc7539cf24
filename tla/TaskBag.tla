------------------------------- MODULE TaskBag -------------------------------
(***************************************************************************)
(* What a task container of the scheduler promises its callers: a task is  *)
(* either inside the container or held by exactly one caller.  Callers put *)
(* tasks they hold in, and every successful take hands one task that is    *)
(* inside to one caller.  Order and spurious "empty" answers are left      *)
(* open.                                                                   *)
(***************************************************************************)
CONSTANT Tasks

VARIABLES
  bag,     \* tasks inside the container
  held     \* tasks that belong to a caller: not yet pushed, or taken out

vars == <<bag, held>>

Init == bag = {} /\ held = Tasks

\* One call may put several tasks in (push_bottom_batch, push_batch).
Put(S) ==
  /\ S \subseteq held
  /\ bag'  = bag \cup S
  /\ held' = held \ S

Take(x) ==
  /\ x \in bag
  /\ bag'  = bag \ {x}
  /\ held' = held \cup {x}

Next ==
  \/ \E S \in SUBSET held : Put(S)
  \/ \E x \in bag : Take(x)

Spec == Init /\ [][Next]_vars
=============================================================================
