SPECIFICATION Spec
CONSTANTS
  NULL = NULL
  MaxJobs = 3
  Messages <- MCMessages
  Hits <- MCHits
  Limit = 2
  Durations = {0, 6}
  Sizes = {2, 3}
  Videos = {v1, v2, v3}
  Typed = {v1, v2}
  PageSize = 1
  ListSize = 1
  Streams = {s1, s2}
  Missing = {missing}
  MaxCalls = 2
INVARIANTS
  PollInv
  ReadingInv
  SearchInv
  LoadingInv
PROPERTIES
  NeverGoesBack
  CatchesUp
  EndOrErrorIsShown
  RegistrationEnds
CHECK_DEADLOCK FALSE
