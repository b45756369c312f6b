SPECIFICATION Spec
CONSTANTS
  p1 = p1
  p2 = p2
  n1 = n1
  n2 = n2
  r1 = r1
  A = A
  Catalogs = {n1, n2, r1}
  Provider <- Provided
  Procs = {p1}
  Docs = {A}
  NoDoc = NoDoc
  Names = {"n"}
  NoName = "none"
  MaxTime = 3
  Deadlines = {2, 3}
  FeedLimit = 1
  MaxSeq = 2
PROPERTY CooldownAfterError
CHECK_DEADLOCK FALSE
