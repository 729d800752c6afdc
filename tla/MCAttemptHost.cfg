SPECIFICATION HostSpec
CONSTANTS
  NULL = NULL
  Leader = leader
  Helpers = {h1, h2}
  Processes = {p1, p2}
  Dirs = {d1, d2, d3, d4}
  Room = 1
  MaxFaults = 2
INVARIANTS
  ResultInv
  DirectoryInv
PROPERTIES
  NoSignalToStrangers
  StopIsHonoured
  WorkersStart
