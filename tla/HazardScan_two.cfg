SPECIFICATION ScanSpec
CONSTANTS
  Protectors = {p1, p2}
  Reclaimers = {s1}
  r1 = r1
  r2 = r2
  r3 = r3
  r4 = r4
  Records = {r1, r2, r3, r4}
  Pages <- TwoPages
  Nodes = {n1, n2, n3, n4}
  MaxEvents = 1
  NULL = NULL
  Pointers = {0, 3, 7, 8, 15, 16, 40, 63}
  WordRange = 64
  IntRange = 16
  MaxLength = 4
SYMMETRY Symmetry
INVARIANTS
  TypeOK
  ScanFits
  RecordsExclusive
  StandingHazardRespected
  SearchTypeOK
  SearchExact
  SortAscends
PROPERTIES
  SearchShrinks
