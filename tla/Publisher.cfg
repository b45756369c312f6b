SPECIFICATION Spec
CONSTANTS
  p1 = p1
  p2 = p2
  c1 = c1
  c2 = c2
  A = A
  B = B
  Catalogs = {c1, c2}
  Docs = {A, B}
  NoDoc = NoDoc
  Names = {"n"}
  NoName = "none"
  MaxTime = 2
  Deadlines = {}
  FeedLimit = 4
  Procs = {p1, p2}
  MaxSeq = 3
  MaxFails = 1
  PerCycle = 2
SYMMETRY Symmetry
INVARIANTS TypeOK CurrentComplete EventsMatch EveryDocumentAnnounced
PROPERTIES ImplementsLog DocumentsRetained EventsStable
CHECK_DEADLOCK FALSE
