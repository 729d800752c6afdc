SPECIFICATION FairSpec
CONSTANTS
  NULL = NULL
  Reservations = {r1, r2}
  Videos = {v1}
  Jobs = {j1, j2}
  Monitors = {m1}
  Clients = {}
  Outcomes = {"succeeded", "failed"}
  MaxMonitorAttempts = 1
  Revisions <- MCRevisions
PROPERTY SuccessIsNoticed
CHECK_DEADLOCK FALSE
