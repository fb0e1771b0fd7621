SPECIFICATION FairSpec
CONSTANTS
  NGhosts = 2
  here = here
  there = there
  Positions <- TwoPositions
  MIXED = MIXED
INVARIANTS
  TypeOK
  SentStaysRight
PROPERTIES CatchesUp
