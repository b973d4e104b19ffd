SPECIFICATION Spec
CONSTANTS
  a = a
  b = b
  s1 = s1
  s2 = s2
  s3 = s3
  p = p
  q = q
  None = None
  Nodes = {a, b}
  Deps <- Pair
  Paths <- SharedPath
  WriteSets <- AnyPaths
  Tests <- AllTests
  Gates <- Plain
  Reports <- PassFail
  Sessions = {s1, s2}
  Name <- OwnNames
  Isolated = TRUE
  Capacity = 2
  ClaimAttempts = 1
  UpdateAttempts = 2
  Commands = {"claim", "sync", "release", "gc"}
  MaxSeq = 1
  MaxRev = 2
  MaxClaims = 1
  MaxCrashes = 1
SYMMETRY Interchangeable
INVARIANTS ClaimedPathsDisjoint
PROPERTIES LiveClaimsKept PublishesUnderItsClaim
CHECK_DEADLOCK FALSE
