--------------------------- MODULE MCLockFreeList ---------------------------
(* A key is added and removed while others add behind it, try the same key  *)
(* and walk over it.                                                        *)
EXTENDS LockFreeList

CONSTANTS t1, t2, t3

Call(o, k) == [op |-> o, key |-> k]

MCParticipants == <<t1, t2, t3>>
Calls(a, b, c) == (t1 :> a) @@ (t2 :> b) @@ (t3 :> c)
MCScripts ==
  { Calls(<<Call("remove", 1)>>, <<Call("add", 2)>>, <<Call("for_each", 0)>>),
    Calls(<<Call("remove", 1)>>, <<Call("add", 2)>>, <<Call("add", 3)>>),
    Calls(<<Call("add", 2)>>, <<Call("add", 2)>>, <<Call("remove", 3), Call("contains", 1)>>) }
=============================================================================
