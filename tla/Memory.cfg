SPECIFICATION MemorySpec
CONSTANTS
  ALIGN_SIZE_LOG2 = 2
  SL_INDEX_COUNT_LOG2 = 1
  FL_INDEX_MAX = 7
  Pools <- ThreePools
  Sizes = {0, 1, 16, 18, 28, 130}
  Aligns = {4, 8, 16}
  ReallocSizes = {5, 20, 30}
VIEW View
CHECK_DEADLOCK FALSE
INVARIANTS  HeapReused  RangesSound
PROPERTIES ListsSound  DynarraysSound
