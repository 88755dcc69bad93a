SPECIFICATION Spec
CONSTANTS
  Frameworks = 3
  Cases <- TwoNoneTwo
  Modes <- BothModes
  Installable <- LaterOnes
  Attempts = 2
CHECK_DEADLOCK FALSE
INVARIANTS
  MeasuredRowsSaved
  ExitTellsTruth
PROPERTY
  ImplementsLog
