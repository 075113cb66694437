SPECIFICATION Spec
CONSTANTS
  Threads = {t1, t2}
  Heaps = {h1, h2}
  Descriptors = {d1, d2, d3, d4}
  NBlocks = 2
  MaxCredits = 1
  TagModulus = 16
  MaxMallocs = 4
  MaxOsFailures = 1
  NULL = NULL
SYMMETRY Symmetry
INVARIANTS
  OneOwner
  HeadersIntact
  NoUnmappedAccess
  OnePlace
  PartialHasBlocks
  NothingStranded
PROPERTIES
  UnmapOnlyUnowned
  ImplementsAllocator
