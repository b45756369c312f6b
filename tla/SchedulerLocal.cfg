SPECIFICATION Spec
CONSTANTS
  p1 = p1
  p2 = p2
  p3 = p3
  d1 = d1
  d2 = d2
  r1 = r1
  r2 = r2
  Procs = {p1, p2, p3}
  Dirs = {d1}
  LockDir <- OneDir
  Remote = FALSE
  Registries = {r1, r2}
  Batch = 1
  Poll = 2
  MaxTime = 5
  MaxRecovery = 1
  Existing <- OldAndNew
SYMMETRY ProcSymmetry
INVARIANTS TypeOK StoreReadable AdmissionSpacing NoSilentRetry
CHECK_DEADLOCK FALSE
