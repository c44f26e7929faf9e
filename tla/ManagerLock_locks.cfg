SPECIFICATION FairSpec
CONSTANTS
  Threads = {t1, t2}
  Slots = {0, 1}
  NULL = NULL
  MaxParents = 1
  MaxNesting = 2
  Library = TRUE
  Refusals = TRUE
  Usage = {}
INVARIANTS Exclusive OwnThread
PROPERTIES NobodyWaitsForever
