CONSTANTS
  Tasks = {a, b, c}
  Thieves = {t1, t2}
  Capacity = 2
  MaxBatch = 2
  MaxIndex = 5
  NoTask = NoTask

SPECIFICATION Spec

SYMMETRY Symmetry
INVARIANT NoDoubleClaim

PROPERTY RefinesTaskBag
