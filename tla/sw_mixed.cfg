CONSTANTS
  SCHUNK_SIZE = 1
  DATACHUNK_NUM = 2
  PARITYCHUNK_NUM = 1
  Threads = {t1, t2, t3}
  NoThread = NoThread
  NUM_STRIPES = 2
  QUEUE_LEN = 2
  MaxIO = 1
  Requests <- MixedRequests
SPECIFICATION Spec
SYMMETRY Symmetry
INVARIANTS LockExclusive OwnerTagged JoinedServed
