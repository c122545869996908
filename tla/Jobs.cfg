SPECIFICATION Spec
CONSTANTS
  i1 = i1
  i2 = i2
  w1 = w1
  s1 = s1
  s2 = s2
  Issues = {i1, i2}
  Words = {w1}
  Slots = {s1, s2}
  Plans <- MCPlans
  Twice <- MCTwice
  CoolAfter = 1
  Window = 2
  CloseAfter = 3
  Retention = 2
  TopN = 1
  MaxScore = 1
  MaxLag = 1
  MaxRankings = 2
  MaxFaults = 1
  Gone = Gone
INVARIANTS
  JobsTypeOK
  RunsAreRecorded
PROPERTIES
  NoFreshCooled
  BoardGoesForward
  UnseenIsClosed
