SPECIFICATION Spec
CONSTANTS
  Elems = {e1, e2, e3, e4, e5}
  MaxSize = 8
  NULL = NULL
SYMMETRY Symmetry
INVARIANTS
  ChainSound
  NothingLeaks
PROPERTIES
  PopsTakeOneEnd
CHECK_DEADLOCK FALSE
