CONSTANTS
  StandardPerCore = 1
  HeavyPerCore = 1
  StackUnit = 1
  MinCapacity = 2
  MaxCapacity = 4
  NoFiber = NoFiber
  NoInfo = NoInfo
  Machines <- MCMachines
  PoolSizes = {0, 2, 9}
  Slots = {s1, s2, s3, s4}
  BATCH = 1
  Threads = {main, w1, w2}
  None = None
  Caller = main
  InlineMax = 2
  Scripts <- MCScripts

SPECIFICATION PoolsSpec

INVARIANTS FiberOwnedOnce ThreadIdsValid TopologySound ReturnsComplete SlotOwnedOnce

PROPERTIES AcquireFailsWhenBusy Completes

CHECK_DEADLOCK FALSE
