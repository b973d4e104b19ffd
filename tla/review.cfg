SPECIFICATION Spec
CONSTANTS
  a = a
  r1 = r1
  r2 = r2
  x = x
  ghost = ghost
  f = f
  s1 = s1
  s2 = s2
  None = None
  Plan <- Nested
  Earlier <- Either
  Tests <- AllTests
  Gates <- Proofs
  Contracts = {1, 2}
  Artifacts = {f}
  Contents <- AllReports
  Sessions = {s1, s2}
  Name <- OwnNames
  Commands <- Reviewer
  MaxSeq = 7
  Rewrites <- OnePass
  Claimable = {a}
  MaxRev = 2
INVARIANTS ClosedAsReviewed EvidenceOnce
PROPERTIES ContractChangeStales AmendmentStalesItsReview ClaimedContractsKept
CHECK_DEADLOCK FALSE
