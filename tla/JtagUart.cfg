SPECIFICATION Spec
CONSTANTS
  BUF_LEN = 3
  DEPTH = 2
  WRITE_THRESHOLD = 1
  READ_THRESHOLD = 0
  TIMEOUT = 2
  INT_MAX = 4
  ReadSizes = {2}
  WriteSizes = {2, 3}
  CHARACTERS = 5
INVARIANTS
  TypeOK
  LooksStayGood
  NeitherStaysOff
  GivesUpOnSilence
PROPERTIES
  OutputInOrder
  InputInOrder
  CallsReturn
  OutputArrives
