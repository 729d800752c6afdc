SPECIFICATION Spec
CONSTANTS
  NULL = NULL
  Reservations = {r1}
  Videos = {v1}
  Jobs = {j1}
  Monitors = {m1}
  Clients = {c1}
  Outcomes = {"succeeded"}
  MaxMonitorAttempts = 5
  Revisions <- MCRevisions
PROPERTIES
  TransientFailureKeepsState
CHECK_DEADLOCK FALSE
