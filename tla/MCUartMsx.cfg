CONSTANTS
  BitClock = 4
  Bytes <- MCBytes
  NoByte = NoByte
  CharLen = 3
  StopBits = 1
  MaxBusEdges = 4
  Flags = {"ready", "empty"}
  MaxBytes = 3
SPECIFICATION Spec
INVARIANTS BytesOnceInOrder
PROPERTIES EveryByteSent
