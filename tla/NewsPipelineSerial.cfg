SPECIFICATION Spec
CONSTANTS
  c1 = c1
  c2 = c2
  a1 = a1
  a2 = a2
  a3 = a3
  i1 = i1
  u1 = u1
  u2 = u2
  Cycles = {c1, c2}
  Articles = {a1, a2}
  CanonUrl <- OwnUrl
  TitleHash <- AgencyTitle
  Faulty = {}
  Issues = {i1}
  NoIssue = NoIssue
  Scores = {0, 1, 2, 3}
  Users = {u1, u2}
  Tracks <- TwoTrackers
  Rules <- HighBar
  Subs <- NoReader
  GateNum = 1
  GateDen = 2
  MaxOverlap = 1
INVARIANTS
  TypeOK
  FeedConsistent
  SerialNoNearDup
