SPECIFICATION Spec
CONSTANTS
  Worker = {1, 2}
  Sector <- MCSector
  Batches <- MCBatches
  SECTOR_BLOCK = 2
  CHUNK = 3
  MAX_IDS = 65536
  NoIndex = NoIndex
INVARIANTS
  Safe
  PlainDiscsVerify
  RandomAccess
