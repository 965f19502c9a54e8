CONSTANTS
  SCHUNK_SIZE = 4
  DATACHUNK_NUM = 3
  PARITYCHUNK_NUM = 1
  BLK_SIZE = 2
  WORD = 128
  MaxOff = 29
  MaxLen = 16
  Requests <- BlockRequests
SPECIFICATION Spec
INVARIANTS ReadExact
