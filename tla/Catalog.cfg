SPECIFICATION Spec
CONSTANTS
  e1 = e1
  e2 = e2
  i1 = i1
  g1 = g1
  g2 = g2
  x1 = x1
  x2 = x2
  u1 = u1
  u2 = u2
  s1 = s1
  s2 = s2
  Events = {e1, e2}
  Issues = {i1}
  Tags = {g1}
  Sources = {x1}
  Users = {u1, u2}
  Slots = {s1, s2}
  MaxRequests = 4
  NoRow = NoRow
  Gone = Gone
  Keep = Keep
INVARIANTS
  TypeOK
  NoOrphanRows
  CountersExact
  LabelsAsGiven
CHECK_DEADLOCK FALSE
SYMMETRY
  Interchangeable
