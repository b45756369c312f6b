SPECIFICATION Spec
CONSTANTS
  p1 = p1
  p2 = p2
  p3 = p3
  d1 = d1
  d2 = d2
  r1 = r1
  r2 = r2
  Procs = {p1, p2, p3}
  Dirs = {d1, d2}
  LockDir <- TwoHosts
  Remote = TRUE
  Registries = {r1}
  Batch = 1
  Poll = 2
  MaxTime = 4
  MaxRecovery = 2
  Existing <- OldAndNew
SYMMETRY HostSymmetry
INVARIANTS DiscardedNeverReturned OneAcquirer RetryAfterHonoured
PROPERTIES StoreProgress ImplementsSchedule
CHECK_DEADLOCK FALSE
