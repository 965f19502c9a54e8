SPECIFICATION ReplaySpec
CONSTANTS
  Programs = {"trace_st"}
  NUM_THREADS = 2
  SCHUNK_SIZE = 2
  DATACHUNK_NUM = 2
  PARITYCHUNK_NUM = 1
  BLK_SIZE = 2
  USER_SPACE_LEN = 22
  SLACK = 2
  Traces <- OneTrace
  MB = 2
  AcceptedMBs = 10
  BufferMBs <- OneMB
  MD_LEN = 32
CHECK_DEADLOCK FALSE
INVARIANTS RequestsAreLines
