CONSTANTS
  SCHUNK_SIZE = 4
  DATACHUNK_NUM = 2
  PARITYCHUNK_NUM = 1
  NUM_STRIPES = 3
  SECTOR_SIZE = 2
  INT_MAX = 5
  MaxIO = 2
  WritePieces <- SomePieces
  FollowerPieces <- OtherPieces
  Reads <- SomeReads
SPECIFICATION Spec
INVARIANTS TypeOK ReadCorrect CleanParity
