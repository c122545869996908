SPECIFICATION Spec
CONSTANTS
  u1 = u1
  u2 = u2
  n1 = n1
  p1 = p1
  p2 = p2
  t1 = t1
  t2 = t2
  t3 = t3
  s1 = s1
  s2 = s2
  Users = {u1, u2}
  SocialUsers = {u2}
  OldUsers = {}
  Names = {n1}
  Passwords = {p1, p2}
  Tokens = {t1, t2, t3}
  Slots = {s1, s2}
  None = None
  Gone = Gone
  TokenLife = 0
  RevokedKept = 0
  LastDay = 1
INVARIANTS
  TypeOK
  OneAnswerPerToken
PROPERTIES
  LogoutEndsSessions
  ColumnsKept
SYMMETRY
  Interchangeable
