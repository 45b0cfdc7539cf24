CONSTANTS
  Fibers = {f1, f2}
  Workers = {w1, w2}
  Spinners = {}
  Resumers = {f1, f2}
  None = None
  MaxLocks = 1

SPECIFICATION Spec

PROPERTY LockGranted

CHECK_DEADLOCK FALSE
