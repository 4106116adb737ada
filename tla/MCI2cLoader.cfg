CONSTANTS
  init_regs <- Table
  device_address = 26
  num_retries = 0
  MaxNaks = 1
SPECIFICATION Spec
INVARIANTS TableInOrder DoneMeansLoaded
PROPERTIES NoSpuriousConditions EventuallyDone
