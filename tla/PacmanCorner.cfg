SPECIFICATION Spec
CONSTANTS
  Cols = 4
  Lines = 4
  NGhosts = 0
  CharBackground <- CornerWalls
  GhostBackground <- CornerWalls
  Start <- CornerStart
  StartFacing <- CornerFacing
  SCAN_PERIOD = 1
  StackGarbage = {"NONE", "DOWN"}
  OutOfBounds = {{1}}
  FRAMES_PER_INIT = 1
  Pressed = {"UP", "DOWN", "RIGHT"}
INVARIANTS
  TypeOK
  ScoreConservation
  NeverOutOfFrame
  WallSafety
  FoodMemoryInSync
  DisplayNeverAhead
PROPERTIES
  RequestsAreKept
