\* A tree with a link to a deleted node is not used any further.
SPECIFICATION RemovalSpec
CONSTANTS
  Keys = {1, 2, 3, 4, 5, 6, 7, 8, 9, 10}
  Ordered = {3, 4, 5, 6, 7, 8, 9, 10}
  DifferenceRange = 32
  DifferenceSigned = TRUE
  NIL = NIL
  NULL = NULL
  MaxRefusals = 0
INVARIANTS
  StillTree
  OneBlackMissing
  DanglingOnlyAtRoot
CHECK_DEADLOCK FALSE
