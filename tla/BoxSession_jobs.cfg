SPECIFICATION SessionSpec
CONSTANTS
  Chunks = 2
  Tries = 3
  Losses = 3
  NoStudy = NoStudy
  Runner = Runner
  NoFile = NoFile
  Earlier = Earlier
  Study = {j1, j2}
  Arms = 2
  Cases = 2
  MaxWait = 1
  Mishaps = 3
SYMMETRY MCStudies
CHECK_DEADLOCK FALSE
INVARIANTS
  PushedIsWhole
  StudyCompany
  RunnerCompany
  ReportedIsOwn
PROPERTIES
  ClearingSparesStudies
