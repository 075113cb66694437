\* A tree with a link to a deleted node is not used any further.
SPECIFICATION RemovalSpec
CONSTANTS
  Keys = {1, 2, 3, 4, 5}
  Ordered = {}
  DifferenceRange = 32
  DifferenceSigned = TRUE
  NIL = NIL
  NULL = NULL
  MaxRefusals = 0
INVARIANTS
  SizeIsNodes
CHECK_DEADLOCK FALSE
