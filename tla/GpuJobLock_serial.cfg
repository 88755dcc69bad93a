SPECIFICATION SerialSpec
CONSTANTS
  j1 = j1
  j2 = j2
  j3 = j3
  h1 = h1
  h2 = h2
  Nobody = Nobody
  Job = {j1, j2, j3}
  Pid = {j1, j2, j3}
  Host = {h1, h2}
  HostOf <- AllOnOneBox
  PidOf <- OwnPid
CHECK_DEADLOCK FALSE
INVARIANTS
  HolderIsNamed
  MutualExclusion
PROPERTIES
  ImplementsMutex
