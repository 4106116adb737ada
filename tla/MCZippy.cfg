CONSTANTS
  Addrs = {0, 14, 15, 40, 44}
  InOrder <- MCInOrder
  Values = {0, 1}
  Patience = 6
  MaxErr = 1
  Cursors = {8, 12, 26, 27}
  Typed = {1}
  MemSize = 1
  Kinds = {"load", "local"}
  Timers = {FALSE}
SPECIFICATION Spec
INVARIANTS ViewIsTrue EditSeen StepsOnce OnlyCounterWaits
PROPERTIES ComesBack

CHECK_DEADLOCK FALSE
