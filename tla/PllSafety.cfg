SPECIFICATION Spec
CONSTANTS
  PERIOD = 100
  LOCK = 80
INVARIANTS
  SixtyFrames
  NeverMixed
  WritesAccepted
PROPERTIES
  Finished
