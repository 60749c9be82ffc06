SPECIFICATION FairSpec
CONSTANTS
  sectors <- MixedDisc
  blocks <- MixedBlocks
  MaxBuffer = 6
  BytesPushed <- MixedPushed
  BytesTaken <- MixedTaken
  DiscFaults = {"load", "rebuild", "write", "hash", "flush", "rename", "cue"}
INVARIANTS
  BuffersSafe
  NobodyStalls
  FinalIsWhole
PROPERTIES
  Extracts
  ReturnsUnlessStuck
\* A failure while a worker waits stops the program: see DiscWriterStuck.
CHECK_DEADLOCK FALSE
