CONSTANTS
  Limit = 2
  IdHead = 2
  MaxChunk = 3
  MaxBytes = 7
SPECIFICATION Spec
INVARIANTS LinesAreExact BufferIsBounded
PROPERTIES LoopEnds
