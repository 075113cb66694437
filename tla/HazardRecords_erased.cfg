SPECIFICATION Spec
CONSTANTS
  Protectors = {p1, p2}
  Reclaimers = {s1}
  r1 = r1
  r2 = r2
  r3 = r3
  r4 = r4
  Records = {r1, r2, r3, r4}
  Pages <- TwoPages
  Nodes = {n1, n2, n3, n4}
  MaxEvents = 0
  NULL = NULL
SYMMETRY Symmetry
INVARIANTS
  HazardRespected
