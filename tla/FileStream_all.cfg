SPECIFICATION StreamFairSpec
CONSTANTS
  BufferBytes = 16
  WordBits = 14
  MaxPrecision = 3
  Scale = 16
  Signed <- SignedValues
  Unsigned <- UnsignedValues
  Bases = {2, 10, 16}
  Reals <- RealValues
  Precisions = {0, 2, 5}
  Overflows = {0, 16383}
  Strings <- TextValues
  RingSize = 3
  Modes <- SourceModes
  InputBytes = 3
  MaxBytes = 7
  Streamed = {105}
INVARIANTS
  TextMeansNumber
  BytesInOrder
PROPERTIES
  PopReturns
CHECK_DEADLOCK FALSE
