CONSTANTS
  t1 = t1
  t2 = t2
  t3 = t3
  Threads = {t1, t2, t3}
  Participants <- MCParticipants
  NoEpoch = 99
  MaxEpoch = 2
  ReclaimAbove = 0
  Cells = {c1, c2, c3, c4, c5, c6}
  Head0 = head
  Tail0 = tail
  MaxKey = 3
  First = c1
  Scripts <- MCScripts

SPECIFICATION Spec

INVARIANTS SetIsExact GuardProtects WalksAreHonest

PROPERTY CallsReturn

CHECK_DEADLOCK FALSE
