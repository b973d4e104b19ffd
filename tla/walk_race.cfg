SPECIFICATION Spec
CONSTANTS
  a = a
  b = b
  s1 = s1
  s2 = s2
  s3 = s3
  p = p
  q = q
  None = None
  Nodes = {a, b}
  Deps <- Pair
  Paths <- OwnPaths
  WriteSets <- OnePathEach
  Tests <- AllTests
  Gates <- Plain
  Reports <- PassFail
  Sessions = {s1, s2}
  Name <- OwnNames
  Isolated = FALSE
  Capacity = 1
  ClaimAttempts = 2
  UpdateAttempts = 2
  Commands = {"claim", "release", "force"}
  MaxSeq = 2
  MaxRev = 2
  MaxClaims = 2
  MaxCrashes = 0
SYMMETRY Interchangeable
INVARIANTS EveryClaimHasClaimant
CHECK_DEADLOCK FALSE
