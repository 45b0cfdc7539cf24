CONSTANTS
  Fibers = {f1, f2}
  Workers = {w1, w2}
  Completers = {c1, c2}
  Resumers = {f1, f2, c1, c2}
  Mains = {m1}
  None = None
  MaxTasks = 2
  MaxRounds = 2
  Reuse = FALSE

SPECIFICATION Spec

INVARIANTS NoLostWakeup WaitedUntilZero

PROPERTIES AllWaitersWake UsesFiberLifeCycle

CHECK_DEADLOCK FALSE
