CONSTANTS
  Sources <- MCSources
  LocalNames <- MCLocal
  NoLabel = NoLabel
  MaxDepth = 10
  Evaluate <- EvaluateTree
  AtLine <- TreeAtLine
SPECIFICATION Spec
INVARIANTS LayoutAgrees InstructionsAsWritten DataAsWritten ListingTrue ExecutedAsWritten EvaluationEnds
PROPERTIES OnlyReservedRewritten
CHECK_DEADLOCK FALSE
