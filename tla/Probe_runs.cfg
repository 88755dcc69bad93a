SPECIFICATION ProbeSpec
CONSTANTS
  Orders <- MCOrders
  MCLength = 5
  Windows = {1, 2, 5}
  Maxima = {3, 5}
  Matrices <- MCMatrices
  Profiles = {"weekly_pairwise", "stress"}
  Runs = 2
  Limits = {0, 1}
CHECK_DEADLOCK FALSE
INVARIANTS
  UncoveredIsUnseen
  EachAddsAPair
  NothingDropped
  CleanExit
  SummaryAgrees
  LeftIsFailed
PROPERTIES
  RunEnds
