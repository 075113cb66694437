\* The program ends when it reads through a null child.
SPECIFICATION FairSpec
CONSTANTS
  Keys = {1, 2, 3, 4, 5, 6, 7, 8}
  DifferenceRange = 16
  DifferenceSigned = TRUE
  NIL = NIL
  NULL = NULL
  MaxRefusals = 1
INVARIANTS
  SearchOrder
  Linked
  RedBlack
  WalkInOrder
PROPERTIES
  KeysStay
  InsertionEnds
CHECK_DEADLOCK FALSE
