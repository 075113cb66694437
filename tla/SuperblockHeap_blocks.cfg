SPECIFICATION FairSpec
CONSTANTS
  Threads = {t1, t2}
  Heaps = {h1}
  Descriptors = {d1, d2, d3, d4}
  NBlocks = 5
  MaxCredits = 2
  TagModulus = 16
  MaxMallocs = 3
  MaxOsFailures = 0
  NULL = NULL
INVARIANTS
  TypeOK
  FreeListExact
PROPERTIES
  EveryCallReturns
