SPECIFICATION Spec
CONSTANTS
  a = a  b = b  c = c
  None = None
  Slug <- Stems
  First <- OnePhase
  Added <- Before
  Known = {1}
  Revisions = {1}
  Sessions = {s1}
  MaxSeq = 2
  MaxReviews = 1
  MaxMishaps = 1
  MaxEvents = 3
ACTION_CONSTRAINT WhereItIsRead
INVARIANTS FrozenMeansClosed
PROPERTIES FrozenViewsKept CompletedPlanIsRendered
CHECK_DEADLOCK FALSE
