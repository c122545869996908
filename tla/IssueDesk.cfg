SPECIFICATION FairSpec
CONSTANTS
  i1 = i1
  i2 = i2
  t1 = t1
  t2 = t2
  t3 = t3
  r1 = r1
  r2 = r2
  r3 = r3
  Issues = {i1, i2}
  Triggers = {t1, t2, t3}
  Requests = {r1, r2}
  OldIssues = {i1}
  OldTriggers = {t1, t2}
  Statuses = {"ongoing", "unverified"}
  Never = Never
  CloseAfter = 2
  ReigniteIn = 1
  LastDay = 3
  MaxOverlap = 2
INVARIANTS
  TypeOK
  NoOrphanTriggers
PROPERTIES
  DeleteRefreshes
  Settled
