SPECIFICATION FairSpec
CONSTANTS
  a = a
  b = b
  s1 = s1
  s2 = s2
  s3 = s3
  p = p
  q = q
  None = None
  Nodes = {a, b}
  Deps <- Pair
  Paths <- OwnPaths
  WriteSets <- OnePathEach
  Tests <- AllTests
  Gates <- Plain
  Reports <- PassOnly
  Sessions = {s1, s2}
  Name <- OwnNames
  Isolated = TRUE
  Capacity = 1
  ClaimAttempts = 2
  UpdateAttempts = 1
  Commands = {"claim", "sync", "reverify"}
  MaxSeq = 1
  MaxRev = 2
  MaxClaims = 2
  MaxCrashes = 0
INVARIANTS ClaimantHasWorktree
PROPERTIES CommandsEnd
CHECK_DEADLOCK FALSE
