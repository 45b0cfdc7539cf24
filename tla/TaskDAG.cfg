CONSTANTS
  Main = main
  w1 = w1
  Threads = {main, w1}
  Participants <- MCParticipants
  NoEpoch = 99
  MaxEpoch = 1
  ReclaimAbove = 0
  Nodes = {1, 2, 3}
  None = None
  Kinds <- MCKinds
  MaxEdges = 3
  ReclaimWithOr = FALSE

SPECIFICATION Spec

INVARIANTS SubmitVerdict FiresInOrder OnceEach NoUseAfterFree

PROPERTY EverythingRuns

CHECK_DEADLOCK FALSE
