SPECIFICATION FairSpec
CONSTANTS
  Pool = {p1, p2}
  PREFETCH_LOW_THRESHOLD = 1
  PREFETCH_HIGH_THRESHOLD = 2
  CompLen <- MCCompLen
  Hash = {"d1", "d2", "a1", "a2", "a3"}
  Inputs <- MCInputs
  CHANNEL = 1
  BATCH_SIZE = 2
  BATCHES = 1
  ID_SPACE = 3
INVARIANTS
  Safe
  OkHasEveryDisc
  NeverAllWait
PROPERTIES
  ThreadsEnd
  AudioWriterSpec
