SPECIFICATION FairSpec
CONSTANTS
  Byte = {"a", "b", "c"}
  Inputs <- MCInputs
  Arguments <- MCArguments
  Cut <- MCCut
  CompLen <- MCCompLen
  FORMAT_SIZE <- MCFormatSize
  HEADER_SIZE = 2
  SUPPORTED_VERSION = 1
  MAX_SAMPLES_SIZE = 3
  U64 = 8
  SMALLEST_CUT = 2
  LARGEST_CUT = 8
  FIRST_WINDOW = 2
  FIRST_DICT = 1
  DEFAULT_WINDOW = 2
  DEFAULT_DICT = 2
  LAST_DICT = 4
  Sizes = {1, 2, 3}
  Lengths = {0, 2}
INVARIANTS
  ArchiveSafe
  ArchiveReadsBack
  SeekGivesRange
  ChunksOnceInOrder
PROPERTIES
  SearchesEnd
