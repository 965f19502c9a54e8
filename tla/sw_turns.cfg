CONSTANTS
  SCHUNK_SIZE = 1
  DATACHUNK_NUM = 2
  PARITYCHUNK_NUM = 1
  Threads = {t1, t2}
  NoThread = NoThread
  NUM_STRIPES = 2
  QUEUE_LEN = 4
  MaxIO = 3
  Requests <- OneChunk
SPECIFICATION FairSpec
INVARIANTS TypeOK PieceExclusive NoWriteCollision QueueBounded
PROPERTIES StripeTurns EveryWriteReturns
