SPECIFICATION Spec
CONSTANTS
  a = a
  b = b
  s1 = s1
  s2 = s2
  s3 = s3
  p = p
  q = q
  None = None
  Nodes = {a, b}
  Deps <- Chain
  Paths <- OwnPaths
  WriteSets <- OnePathEach
  Tests <- AllTests
  Gates <- Proofs
  Reports <- PassFail
  Sessions = {s1, s2}
  Name <- OwnNames
  Isolated = FALSE
  Capacity = 1
  ClaimAttempts = 2
  UpdateAttempts = 2
  Commands = {"sync", "reverify", "settests", "setartifacts"}
  MaxSeq = 3
  MaxRev = 2
  MaxClaims = 1
  MaxCrashes = 0
SYMMETRY Interchangeable
INVARIANTS ObservationsMatchContract RedBeforeGreen
CHECK_DEADLOCK FALSE
