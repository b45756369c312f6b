SPECIFICATION Spec
CONSTANTS
  r1 = r1
  r2 = r2
  Readers = {r1, r2}
  MaxSeq = 2
  MaxRoot = 3
  MaxVersion = 2
  MaxBundles = 2
SYMMETRY Symmetry
INVARIANTS TypeOK RestoresWhatWasSigned OldRootsFollow CandidateWhole
PROPERTY CacheForward
CHECK_DEADLOCK FALSE
