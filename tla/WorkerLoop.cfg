CONSTANTS
  NumWorkers = 2
  Callers = {c1}
  Tasks = {a, b, f, g, i, j, k}
  HiPri = {a, f}
  Fast = {f, i, j}
  Immediates = {i, k}
  Forked = {f}
  Endless = {}
  Pollers = {}
  BatchSize = 2
  MaxNaps <- MCMaxNaps
  MaxMisses <- MCMaxMisses
  MaxPauses = 1
  Mixes <- MCMixes
  Controlled <- MCControlled
  a = a
  b = b
  f = f
  g = g
  i = i
  j = j
  k = k
  None = None

SPECIFICATION Spec

INVARIANTS NoLostWakeup EachTaskOnce PendingBalanced CoresGivenBack

PROPERTIES EveryTaskRuns JoinReturns

CHECK_DEADLOCK FALSE
