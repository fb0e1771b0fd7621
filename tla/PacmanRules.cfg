SPECIFICATION FairSpec
CONSTANTS
  Cols = 4
  Lines = 3
  NGhosts = 0
  CharBackground <- CorridorWalls
  GhostBackground <- CorridorWalls
  Start <- CorridorStart
  StartFacing <- CorridorFacing
  SCAN_PERIOD = 1
  StackGarbage = {"NONE"}
  OutOfBounds = {{1}}
  FRAMES_PER_INIT = 1
  Pressed = {"LEFT", "RIGHT"}
PROPERTIES
  PlaysByTheRules
