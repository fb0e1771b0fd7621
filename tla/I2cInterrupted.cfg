CONSTANTS
  DEVICE = 114
  Registers = {7, 8}
  Values = {0, 165}
  Widths = {FALSE}
  LENGTH = 2
  Interruptible = TRUE
  RESETS = 0
  AfterReset = {}
SPECIFICATION Spec
INVARIANTS EntryClockLow
