SPECIFICATION FairSpec
CONSTANTS
  u1 = u1
  u2 = u2
  k1 = k1
  k2 = k2
  r1 = r1
  r2 = r2
  r3 = r3
  Users = {u1, u2}
  Comments = {k1, k2}
  Requests = {r1, r2, r3}
  Post = Post
  NoParent = NoParent
  Elsewhere = Elsewhere
  MaxOverlap = 2
INVARIANTS
  TypeOK
  OneVoteEach
  VotesExact
  NoOrphans
PROPERTY Repaired
