SPECIFICATION Spec
CONSTANTS
  a = a  b = b  c = c  d = d  r = r  q = q  readme = readme  spec = spec
  s1 = s1  s2 = s2
  None = None
  Ids = {a, b, c, d, r, q}
  Proposals <- Payloads
  Splits <- SplitA
  Records <- Tombs
  Docs <- Related
  Plan = readme
  Inputs <- NoInputs
  Sessions = {s1, s2}
  Vocabulary <- Known
  ReviewLanes <- Lanes
  Legacy = TRUE
  MaxFragment = 2
  MaxSeq = 2
  MaxCommands = 5
  MaxCrashes = 1
  ReserveAttempts = 2
SYMMETRY Interchangeable
INVARIANTS CompiledGraphIsClean StagedWorkNotLost ReviewsCoverWhatTheySaw
CHECK_DEADLOCK FALSE
