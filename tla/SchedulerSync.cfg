CONSTANTS
  Fibers = {f1, f2}
  Workers = {w1, w2}
  Spinners = {s1}
  Resumers = {f1, f2, s1}
  None = None
  MaxLocks = 1
  Gate = gate
  GatePermits = 1

SPECIFICATION SyncSpec

INVARIANTS MutualExclusion GrantedNotQueued PermitsConserved HandlesAlive

CHECK_DEADLOCK FALSE
