SPECIFICATION Spec
CONSTANTS
  DEVICE = 114
  Registers = {0, 1, 257}
  Values = {0, 165}
  Widths = {FALSE, TRUE}
  LENGTH = 2
  Interruptible = FALSE
  RESETS = 1
  AfterReset = {0}
INVARIANTS
  BusReleased
PROPERTIES
  ActsAsRegisters
