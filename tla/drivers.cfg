SPECIFICATION FairSpec
CONSTANTS
  Programs = {"main", "bench", "trace_md", "trace_st", "load"}
  NUM_THREADS = 2
  SCHUNK_SIZE = 2
  DATACHUNK_NUM = 2
  PARITYCHUNK_NUM = 1
  BLK_SIZE = 2
  USER_SPACE_LEN = 30
  SLACK = 2
  Traces <- MCTraces
  MB = 2
  AcceptedMBs = 10
  BufferMBs <- MCBuffers
  MD_LEN = 32
  LOOPs = {1, 3}
  DATASET_SIZE = 16
  Arguments <- MCArguments
  SlackMB = 2
  Builds <- MCBuilds
  WRITE_IOSIZE = 4
  READ_IOSIZE = 2
  USER_IO_SPACE = 12
INVARIANTS CursorsInTrace TotalsExact SamplesAddUp InTable InBuffer AbortCauses WrittenOnce OffsetBounded ThreadsApart ReadsAreWritten
PROPERTIES DriversEnd
