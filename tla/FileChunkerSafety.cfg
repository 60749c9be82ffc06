SPECIFICATION FairSpec
CONSTANTS
  a = a
  b = b
  c = c
  f1 = f1
  f2 = f2
  f3 = f3
  Hash = {a, b, c}
  Byte = {1, 2, 3}
  Data <- Bytes
  OnDisk = TRUE
  File = {f1, f2, f3}
  file_name <- Distinct
  contents <- Contents
  POOL_SIZE = 2
  BATCH_SIZE = 2
  MAX_BATCHES = 1
  Faults = {"cancel", "open", "read", "insert"}
INVARIANTS
  Safe
  OkIsComplete
PROPERTIES
  StoreSpec
  NoThreadLeft
