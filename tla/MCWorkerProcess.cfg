SPECIFICATION FairSpec
CONSTANTS
  NULL = NULL
  Jobs = {j1, j2}
  Processes = {p1, p2}
  MaxFaults = 2
INVARIANT AttemptInv
PROPERTIES
  JobsFinish
  ShutdownCompletes
