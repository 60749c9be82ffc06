SPECIFICATION FairSpec
CONSTANTS
  FILES = 2
  CHUNKS = 3
  BUFFER_SIZE = 2
  BUF_WRITER = 1
  MAX_RUNS = 2
  PidReuse = FALSE
  Faults = {"cancel", "crash", "chunk", "verify", "read", "compress", "open", "write", "remove"}
INVARIANTS
  Safe
  OkIsComplete
  CancelLeavesNothing
PROPERTIES
  RunEnds
