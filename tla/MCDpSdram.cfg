CONSTANTS
  r0 = r0
  c0 = c0
  x = x
  y = y
  Row = {r0}
  Col = {c0}
  Data = {x, y}
  NoData = NoData
  NoRow = NoRow
  NoRequest = NoRequest
  MinHold = 25
  Requests <- MCRequests
  RefreshInputs = {TRUE, FALSE}
  RfshCycles = 1
  RfshPeriod = 2
SPECIFICATION Spec
INVARIANTS CommandsInTime DoneWhenReleased
PROPERTIES ImplementsMemory
