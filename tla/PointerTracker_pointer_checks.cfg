SPECIFICATION Spec
CONSTANTS
  Heap <- MCHeap
  Literals <- MCLiterals
  Sizes <- MCSizes
  r1 = r1
  r2 = r2
  r3 = r3
  s1 = s1
  Records = {r1, r2, r3}
  Sites = {s1}
  MaxGeneration = 1
  MaxBytes = 1
  MaxCount = 1
  NoRecord = NoRecord
SYMMETRY Symmetric
INVARIANTS TypeOK CacheAgrees AccessIsExact BlocksAreAccounted
PROPERTY RetainsTheLatest
CHECK_DEADLOCK FALSE
VIEW Relevant
