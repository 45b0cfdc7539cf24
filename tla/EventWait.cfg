CONSTANTS
  Fibers = {f1, f2}
  Workers = {w1, w2}
  Resumers = {r1, r2}
  None = None
  Events = {e1, e2}
  MaxUses = 3
  Copies = 1
  Names = {n1}
  Plans <- MCPlans

SPECIFICATION NamedSpec

INVARIANTS AtMostOnePlace NeverRunUnsaved WokenByOwnSignal RegisteredIsWaiting

PROPERTY WaitEnds

CHECK_DEADLOCK FALSE
