SPECIFICATION AlertOrSummarySpec
CONSTANTS
  u1 = u1
  u2 = u2
  i1 = i1
  i2 = i2
  a1 = a1
  a2 = a2
  Users = {u1, u2}
  Issues = {i1, i2}
  Articles = {a1, a2}
  Scores = {2}
  Minima = {0, 3}
  RuleIds = {1, 2}
  Cycles = {1}
  None = None
  ai = ai
  aiChip = aiChip
  aiChips = aiChips
  tax = tax
  p1 = p1
  p2 = p2
  Keywords <- MCKeywords
  Names <- MCNames
  Inside <- MCInside
  Lists <- MCLists
  Answers <- MCAnswers
  NoUrl = NoUrl
  NoName = NoName
  PassedOver = PassedOver
INVARIANTS
  StepsTypeOK
  SummariesAreShared
PROPERTIES
  ToldAsRuled
SYMMETRY MCSymmetry
CHECK_DEADLOCK FALSE
