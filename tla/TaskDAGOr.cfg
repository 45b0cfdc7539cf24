CONSTANTS
  Main = main
  w1 = w1
  Threads = {main, w1}
  Participants <- MCParticipants
  NoEpoch = 99
  MaxEpoch = 1
  ReclaimAbove = 0
  Nodes = {1, 2, 3}
  None = None
  Kinds <- OrKinds
  MaxEdges = 2
  ReclaimWithOr = TRUE

SPECIFICATION Spec

INVARIANT NoUseAfterFree

CHECK_DEADLOCK FALSE
