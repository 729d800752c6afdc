SPECIFICATION ApiSpec
CONSTANTS
  NULL = NULL
  old = old
  new1 = new1
  new2 = new2
  Processes = {old, new1, new2}
  Release <- MCRelease
  MaxFaults = 3
  Clients = {c1, c2}
  MaxJobs = 2
  MaxReservations = 2
  MaxTransactions = 3
INVARIANTS
  MigrationInv
  HttpInv
PROPERTIES
  EveryProcessServes
  ImplementsContract
