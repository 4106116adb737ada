CONSTANTS
  Addr = {a0, a1}
  Data = {x, y}
  NoData = NoData
  NoRequest = NoRequest
  MinHold = 4
SPECIFICATION Spec
INVARIANTS NoContention DoneWhenReleased
PROPERTIES ServesOwnRequest ImplementsMemory
