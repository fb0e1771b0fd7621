SPECIFICATION Spec
CONSTANTS
  Modes = {"1440x900"}
  Timing <- MonitorTiming
  COUNT = 4096
INVARIANTS
  DeclaredRange
