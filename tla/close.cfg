CONSTANTS
  Tasks = {t1}
  ReviewIds = {r1}
  TheTask = t1
  TheReview = r1
  MaxCommits = 5
  MaxSrc = 1
  MaxDeviations = 2
  ReviewTasks = {"x"}
  Contents <- MCContents
  MaxNumber = 3
  MaxOpen = 1
  Overlap = FALSE
  KilledInGate = FALSE
SPECIFICATION MCSpec
INVARIANTS ValidMeansReviewed FrozenIsSettled SuccessionHolds
PROPERTIES GateMeansReviewed WorkflowCloses
CHECK_DEADLOCK FALSE
