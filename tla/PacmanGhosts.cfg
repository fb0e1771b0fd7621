SPECIFICATION FramesSpec
CONSTANTS
  Cols = 24
  Lines = 15
  NGhosts = 1
  CharBackground <- CellWalls
  GhostBackground <- GhostMaze
  Start <- GhostsStart
  StartFacing <- GhostsFacing
  SCAN_PERIOD = 0
  StackGarbage = {"LEFT"}
  OutOfBounds = {{}}
  FRAMES_PER_INIT = 1
  Pressed = {}
PROPERTIES
  GhostsKeepMoving
  GetsOffTheWalls
