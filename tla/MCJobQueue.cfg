SPECIFICATION FairSpec
CONSTANTS
  NULL = NULL
  Streams = {s1}
  WorkerIds = {host}
  LeaseDuration = 2
  Jobs = {j1, j2, j3}
  Workers = {w1, w2}
  WorkerId <- MCWorkerId
  Clients = {c1, c2}
  Times <- MCTimes
  Counts <- MCCounts
  Codes <- MCCodes
  MaxRequests = 3
  MaxClaims = 3
INVARIANTS
  TypeOK
  ConstraintsHold
  OneActiveJobPerStream
  FencedByAttempt
PROPERTIES
  OutcomeFromLatestAttempt
  TerminalIsFinal
  ProgressMonotone
  ImplementsLifecycle
  RequestsEnd
CHECK_DEADLOCK FALSE
