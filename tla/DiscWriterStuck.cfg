SPECIFICATION FairSpec
CONSTANTS
  sectors <- MixedDisc
  blocks <- MixedBlocks
  MaxBuffer = 6
  BytesPushed <- MixedPushed
  BytesTaken <- MixedTaken
  DiscFaults = {"write"}
PROPERTY CleansUp
CHECK_DEADLOCK FALSE
