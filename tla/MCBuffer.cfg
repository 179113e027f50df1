\* Two byte values, which end a line together; a vector of 4 bytes, 2 of them in front, that grows to 8.
CONSTANTS
  Byte = {0, 1}
  Zero = 0
  CR = 0
  LF = 1
  kCheapPrepend = 2
  initialSize = 2
  extraSize = 2
  MaxLen = 3
  MaxSize = 8
SPECIFICATION Spec
INVARIANTS
  HoldsContents
  MovesDown
