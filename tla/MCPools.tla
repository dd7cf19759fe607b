------------------------------ MODULE MCPools ------------------------------
(***************************************************************************)
(* The pools for TLC: pool with the storage it is made of, the storage on  *)
(* its own, and object_pool.  A behaviour exercises one of them in one     *)
(* setting, the one that the variable part names, and leaves the others in *)
(* their initial states.                                                   *)
(***************************************************************************)
EXTENDS Pool, TLC

CONSTANTS c1, c2, c3, c4, NoChunk

VARIABLES
  part,                                                \* the setting
  s_mem, s_added, s_held,                              \* of SegregatedStorage
  obj_list_, prev, next, object, misused, destroyed    \* of ObjectPool

storageVars == <<s_mem, s_added, s_held>>
objectVars == <<obj_list_, prev, next, object, misused, destroyed>>
allVars == <<part, vars, storageVars, objectVars>>

\* A pool whose users ask for single chunks only, until next_size_ wraps.
Single == INSTANCE Pool WITH Arrays <- FALSE, Width <- 6, MaxNextSize <- 64

\* Six chunks of two units: a block of one chunk, right below one whose size is
\* not a multiple of a chunk (three chunks), and a block that is one (two chunks
\* of the three that fit).
ThreeBlocks == {<<2, 2>>, <<4, 7>>, <<14, 6>>}

Mixed == INSTANCE SegregatedStorage
       WITH PartitionSize <- 2, Blocks <- ThreeBlocks, MaxArray <- 3,
            Arrays <- TRUE, Unordered <- TRUE,
            mem <- s_mem, added <- s_added, held <- s_held

\* Users keep to the ordered operations.
Sorted == INSTANCE SegregatedStorage
          WITH PartitionSize <- 2, Blocks <- ThreeBlocks, MaxArray <- 3,
               Arrays <- TRUE, Unordered <- FALSE,
               mem <- s_mem, added <- s_added, held <- s_held

Chunks == {c1, c2, c3, c4}
ChunkSymmetry == Permutations(Chunks)

Objects == INSTANCE ObjectPool WITH Null <- NoChunk, Throws <- FALSE
Throwing == INSTANCE ObjectPool WITH Null <- NoChunk, Throws <- TRUE

\* What the proofs about the components assume of them holds here.
ASSUME SettingsAssumption ==
  /\ Mixed!BlocksAssumption /\ Sorted!BlocksAssumption
  /\ Objects!ChunksAssumption /\ Throwing!ChunksAssumption

PoolsInit ==
  /\ part \in {"arrays", "single", "mixed", "sorted", "objects", "throwing"}
  /\ Init
  /\ Mixed!Init
  /\ Objects!Init

PoolsNext ==
  \/ part = "arrays" /\ Next /\ UNCHANGED <<part, storageVars, objectVars>>
  \/ part = "single" /\ Single!Next /\ UNCHANGED <<part, storageVars, objectVars>>
  \/ part = "mixed" /\ Mixed!Next /\ UNCHANGED <<part, vars, objectVars>>
  \/ part = "sorted" /\ Sorted!Next /\ UNCHANGED <<part, vars, objectVars>>
  \/ part = "objects" /\ Objects!Next /\ UNCHANGED <<part, vars, storageVars>>
  \/ part = "throwing" /\ Throwing!Next /\ UNCHANGED <<part, vars, storageVars>>

PoolsSpec == PoolsInit /\ [][PoolsNext]_allVars

----------------------------------------------------------------------------
OfPool == part \in {"arrays", "single"}

\* Users of a pool hold disjoint chunks of its blocks, apart from its free list and
\* from the size and next pointer it keeps at a block's end, and it knows every block
\* it took.  Without array operations every chunk is free or in use, and a malloc()
\* that gets a new block returns a chunk of it.
PoolSound ==
  /\ [](OfPool => ChunksSound /\ InfoApart /\ BlockListComplete)
  /\ [](part = "single" => NothingLost)
  /\ [][part = "single" /\ taken' # taken /\ status' = "alive" => held' # held]_allVars

\* The free list of the storage stays apart from what users hold, and users get
\* memory of its blocks, no byte of it twice; the ordered operations keep the list in
\* order after its first chunk.
StorageSound ==
  /\ part = "mixed" => Mixed!StorageSound
  /\ part = "sorted" => Sorted!StorageSound

\* The list of an object_pool runs through exactly the chunks in use, and
\* ~object_pool ends the life of every object, and of nothing else.
ObjectsSound ==
  /\ part = "objects" => Objects!ObjectsSound
  /\ part = "throwing" => Throwing!ObjectsSound
============================================================================
