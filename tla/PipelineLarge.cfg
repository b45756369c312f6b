SPECIFICATION Spec
CONSTANTS
  s1 = s1
  c1 = c1
  A = A
  B = B
  Catalogs = {s1, c1}
  Synthetic = s1
  Fixture = A
  Docs = {A, B}
  BigDocs = {B}
  Prompt = TRUE
  NoDoc = NoDoc
  Names = {"n"}
  NoName = "none"
  MaxTime = 1
  Deadlines = {}
  FeedLimit = 6
  MaxDeploys = 3
  MaxCommits = 4
  MaxFails = 1
INVARIANT SiteRestorable
CHECK_DEADLOCK FALSE
