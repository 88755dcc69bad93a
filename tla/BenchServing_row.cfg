SPECIFICATION FairSpec
CONSTANTS
  N = 3
  Permits = 2
CHECK_DEADLOCK FALSE
INVARIANTS
  OkRowIsOwn
  ConcurrencyKept
PROPERTY
  GatherEnds
