SPECIFICATION FairSpec
CONSTANTS
  Last = 3
  Sglang <- SglangFirst
CHECK_DEADLOCK FALSE
INVARIANTS
  OwnServerMeasured
  EarlierLeadersDown
  FallbackNoted
PROPERTY
  RunEnds
