CONSTANTS
  Base = 4
  Written = {0, 3}
  Formats = {0, 1, 3}
  Modes = {0, 2, 3, 4}
  MinGap = 2
  MaxBytes = 3
SPECIFICATION Spec
INVARIANTS  LoadTaken
PROPERTIES CountTaken SquareTiming
