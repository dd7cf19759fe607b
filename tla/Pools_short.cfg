SPECIFICATION PoolsSpec
CONSTANTS
  RequestedSize = 2
  Word = 1
  Width = 16
  FirstNextSize = 1
  MaxNextSize = 4
  Bases = {6, 30, 54}
  ArenaSize = 16
  MaxArray = 3
  Arrays = TRUE
  Unordered = TRUE
  c1 = c1
  c2 = c2
  c3 = c3
  c4 = c4
  NoChunk = NoChunk
CHECK_DEADLOCK FALSE
SYMMETRY ChunkSymmetry
PROPERTY BlockSuffices
