CONSTANTS
  FifoData = {z, a, b}
  Zero = z
  Depth = 4
SPECIFICATION FifoSpec
INVARIANTS TypeOK SizeIsDistance FlagsTellTruth
PROPERTIES ImplementsQueue
