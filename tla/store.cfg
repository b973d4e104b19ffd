SPECIFICATION MCSpec
CONSTANTS
  p1 = p1
  p2 = p2
  p3 = p3
  Absent = Absent
  Procs = {p1, p2}
  Initialisers = {p1}
  Editors = {}
  UpdateAttempts = 2
  MaxOps = 3
  MaxEdits = 0
  MaxCrashes = 1
  Sessions = {s1, s2}
  NoDoc = NoDoc
  Payloads <- MCPayloads
  Retirements <- MCRetirements
  Verbs <- MCVerbs
  MaxNum = 4
  MaxCommands = 2
INVARIANTS ReportsMatchFile FindingsAreExplained
PROPERTIES NoLostWrite ImplementsAtomicStore CommandsReturn EditsContinueTheDocument
CHECK_DEADLOCK FALSE
