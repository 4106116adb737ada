CONSTANTS
  BitClock = 4
  Bytes <- MCBytes
  NoByte = NoByte
  CharLen = 3
  StopBits = 1
  MaxHold = 2
  Flags = {"ready", "empty"}
  MaxBytes = 4
SPECIFICATION Spec
INVARIANTS BytesOnceInOrder ReceivedIntact OverrunReported
