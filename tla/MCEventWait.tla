----------------------------- MODULE MCEventWait -----------------------------
(***************************************************************************)
(* Two fibers, two workers and two signalling threads, under four plans:   *)
(* every kind of wait, signal and yield mixed in up to two starts of each  *)
(* fiber; the same without waits that nobody was armed for, so that every  *)
(* wait has to end; three direct waits of a fiber, which use the two       *)
(* events again; and bare suspensions against racing Resume calls.         *)
(***************************************************************************)
EXTENDS NamedEvent

MCPlans ==
  {[calls |-> {"armed", "plain", "one", "direct", "yield"}, uses |-> 2],
   [calls |-> {"armed", "one", "direct"}, uses |-> 2],
   [calls |-> {"direct"}, uses |-> 3],
   [calls |-> {"bare", "yield"}, uses |-> 2]}
=============================================================================
