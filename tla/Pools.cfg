SPECIFICATION PoolsSpec
CONSTANTS
  RequestedSize = 3
  Word = 2
  Width = 16
  FirstNextSize = 2
  MaxNextSize = 4
  Bases = {6, 36}
  ArenaSize = 26
  MaxArray = 3
  Arrays = TRUE
  Unordered = TRUE
  c1 = c1
  c2 = c2
  c3 = c3
  c4 = c4
  NoChunk = NoChunk
CHECK_DEADLOCK FALSE
SYMMETRY ChunkSymmetry
INVARIANTS StorageSound ObjectsSound
PROPERTY PoolSound
