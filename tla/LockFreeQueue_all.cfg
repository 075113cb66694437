SPECIFICATION FairSpec
CONSTANTS
  Threads = {t1, t2}
  Nodes = {n1, n2, n3, n4}
  Values = {v1, v2}
  NULL = NULL
INVARIANTS
  TailNearEnd
PROPERTIES
  ImplementsFifo
  EveryOperationReturns
