SPECIFICATION Spec
CONSTANTS
  NULL = NULL
  m1 = m1
  m2 = m2
  m3 = m3
  Messages = {m1, m2, m3}
  Artifacts <- MCArtifacts
  BatchSize = 2
  MaxAttempts = 3
INVARIANT ImportInv
PROPERTY FirstWriteWins
CHECK_DEADLOCK FALSE
