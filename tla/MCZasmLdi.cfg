CONSTANTS
  Sources <- MCLoads
  LocalNames <- MCLocal
  NoLabel = NoLabel
  MaxDepth = 10
  Evaluate <- EvaluateTree
  AtLine <- TreeAtLine
SPECIFICATION Spec
INVARIANTS LdiLoads
CHECK_DEADLOCK FALSE
