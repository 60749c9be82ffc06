SPECIFICATION FairSpec
CONSTANTS
  h1 = h1
  h2 = h2
  h3 = h3
  h4 = h4
  h5 = h5
  NoHash = NoHash
  Hash = {h1, h2, h3, h4, h5}
  sorted_hashes <- FiveChunks
  CompLen <- Lengths
  Worker = {w1, w2, w3}
  LowThreshold = 2
  HighThreshold = 3
  ReadOutcomes = {"ok", "short", "cancelled", "error"}
  WriteOutcomes = {"ok", "cancelled", "error"}
  CompressOutcomes = {"ok", "error"}
INVARIANTS
  Safe
PROPERTIES
  BlobSpec
  QuietAfterReturn
  
  
\* Orphaned threads may wait for each other for ever.
CHECK_DEADLOCK FALSE
