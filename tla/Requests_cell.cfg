SPECIFICATION Spec
CONSTANTS
  Fixed = 2
  WarmSteps = 3
  CaseSteps = 50
  WarmTime = {1, 41}
  CaseTime = {20, 21, 23, 60, 690}
  ExtraMax = 4
  Budget = 120
  Converge = 5
  Repeats = 2
  PerfDump = TRUE
  DumpMax = 40
  Serving = 2
  MaxInputs = 8
CHECK_DEADLOCK FALSE
INVARIANTS
  NoTagTwice
  SettledOrSpent
