SPECIFICATION PixelSpec
CONSTANTS
  Modes = {"wide", "high"}
  Timing <- SmallTiming
  COUNT = 16
  BLOCK = 5
  MARGIN_COLUMNS = 1
  WORD = 2
  WORDS = 3
  ADDRESSES = 4
  DOT <- Dot
  BORDER = 1
  SPRITE = 2
  Positions <- Moves
  Maps <- OneMap
  Shape <- Corner
INVARIANTS
  TypeOK
  FramesAreWhole
  PictureAligned
PROPERTIES
  RasterOrder
  FramesGoOn
