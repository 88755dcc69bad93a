SPECIFICATION FairSpec
CONSTANTS
  r1 = r1
  r2 = r2
  Run = {r1, r2}
  RunId = {1, 2, 3}
  Ids <- MCIds
  Personal = Personal
  Retries = 1
  MaxParts = 2
  Lossy <- MCLossy
  Sizes <- MCSizes
  Watched = {r1}
CHECK_DEADLOCK FALSE
INVARIANTS
  PublishedIsOneResult
  OneWriter
PROPERTIES
  EndIsNoticed
