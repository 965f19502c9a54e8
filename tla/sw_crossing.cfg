CONSTANTS
  SCHUNK_SIZE = 1
  DATACHUNK_NUM = 2
  PARITYCHUNK_NUM = 1
  Threads = {t1, t2}
  NoThread = NoThread
  NUM_STRIPES = 2
  QUEUE_LEN = 3
  MaxIO = 1
  Requests <- MixedRequests
SPECIFICATION Spec
INVARIANTS PieceExclusive
