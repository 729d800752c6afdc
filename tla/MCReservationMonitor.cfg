SPECIFICATION MonitorSpec
CONSTANTS
  NULL = NULL
  Reservations = {r1, r2}
  Videos = {v1}
  Jobs = {j1, j2}
  Monitors = {m1}
  Clients = {}
  Outcomes = {"succeeded", "failed"}
  MaxMonitorAttempts = 1
  Revisions <- MCRevisions
  Refused = {r2}
  Starts <- MCStarts
  MaxFaults = 2
  MaxOverdue = 2
INVARIANTS
  LinkInv
  ScheduleInv
PROPERTY ArchiveIsCollected
