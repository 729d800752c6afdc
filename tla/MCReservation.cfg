SPECIFICATION Spec
CONSTANTS
  NULL = NULL
  Reservations = {r1}
  Videos = {v1}
  Jobs = {j1, j2}
  Monitors = {m1, m2}
  Clients = {c1}
  Outcomes = {"succeeded", "failed"}
  MaxMonitorAttempts = 3
  Revisions <- MCRevisions
SYMMETRY Symmetry
INVARIANTS
  ReservationInv
  TrailIsHistory
PROPERTIES
  ImplementsLifecycle
CHECK_DEADLOCK FALSE
