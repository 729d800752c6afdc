SPECIFICATION Spec
CONSTANTS
  NULL = NULL
  Videos = {v1}
  MaxDuration = 2
  Users = {u1}
  Monitors = {m1, m2}
  Links <- MCLinks
SYMMETRY Symmetry
INVARIANT CatalogInv
PROPERTY EndedStaysEnded
