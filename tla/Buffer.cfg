SPECIFICATION Spec
CONSTANTS
  Bytes = {0, 1}
  kCheapPrepend = 2
  kInitialSize = 2
  ExtraBuf = 2
  MaxChunk = 3
  MaxSize = 8
INVARIANTS WritesExact
PROPERTIES ImplementsByteQueue
