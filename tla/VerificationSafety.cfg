SPECIFICATION FairSpec
CONSTANTS
  FileSizes <- Sizes
  Discs <- SomeDiscs
  BATCH_SIZE = 2
  CHANNEL = 2
INVARIANTS
  Safe
  QuietAfterReturn
PROPERTIES
  ThreadsEnd
