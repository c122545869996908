SPECIFICATION Spec
CONSTANTS
  c1 = c1
  c2 = c2
  a1 = a1
  a2 = a2
  a3 = a3
  i1 = i1
  u1 = u1
  u2 = u2
  Cycles = {c1}
  Articles = {a1, a2, a3}
  CanonUrl <- OwnUrl
  TitleHash <- SharedTitle
  Faulty = {a3}
  Issues = {}
  NoIssue = NoIssue
  Scores = {0}
  Users = {u1}
  Tracks <- NoTracks
  Rules <- NoRules
  Subs <- NoReader
  GateNum = 1
  GateDen = 2
  MaxOverlap = 1
INVARIANT OtherArticlesSurvive
