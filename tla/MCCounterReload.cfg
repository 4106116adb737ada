CONSTANTS
  Base = 4
  Written = {0, 1}
  Formats = {3}
  Modes = {2}
  MinGap = 2
  MaxBytes = 4
SPECIFICATION Spec
INVARIANTS WordAsWritten
