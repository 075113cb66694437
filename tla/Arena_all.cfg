SPECIFICATION ArenaSpec
CONSTANTS
  Granularity = 8
  NSizeClasses = 12
  HeaderBytes = 8
  SizeBits = 8
  Slots = {s1}
  Sizes = {0, 1, 8, 9, 16, 24, 25, 80, 87, 88, 89, 100, 240, 247, 248, 255}
  Counts = {0, 1, 3, 21}
  FrontBytes = 4
  BackBytes = 8
  Addresses = {8, 16, 24, 32}
  Alignments = {1, 8, 16, 32}
  PoliciesThrow = TRUE
  MaxEntered = 2
INVARIANTS
  LayoutSound
  WayBack
PROPERTIES
  NewBlockFits
CHECK_DEADLOCK FALSE
