-------------------------------- MODULE Pool --------------------------------
(***************************************************************************)
(* pool (pool.hpp): chunks of one size, from blocks that the pool gets     *)
(* from its user allocator and keeps on a list until it is destroyed.  The *)
(* free chunks are a simple_segregated_storage (module SegregatedStorage). *)
(* Each block ends in a block_info that describes the next block of the    *)
(* list.                                                                   *)
(*                                                                         *)
(* Every operation locks the pool's mutex for its whole body, so that an   *)
(* operation is one step.  Sizes are those of a machine with words of Word *)
(* bytes and a size_type of Width bits.  singleton_pool forwards every     *)
(* call to a pool.                                                         *)
(***************************************************************************)
EXTENDS Integers, FiniteSets, FiniteSetsExt

CONSTANTS
    RequestedSize,  \* requested_size_
    Word,           \* sizeof(void *) = sizeof(size_type) = alignof(block_info)
    Width,          \* the bits of a size_type
    FirstNextSize,  \* next_size_ at first: 32, or what set_next_size gave it
    MaxNextSize,    \* bound: no block is requested above this next_size_
    Bases,          \* where the user allocator may place blocks
    ArenaSize,      \* the largest block it can allocate
    MaxArray,       \* the longest array that is asked for
    Arrays,         \* does the user call the array forms?
    Unordered       \* does the user call malloc and free?

ASSUME PoolAssumption ==
    /\ RequestedSize \in Nat \ {0} /\ Word \in Nat \ {0} /\ Width \in Nat
    /\ FirstNextSize \in Nat \ {0} /\ MaxNextSize \in Nat
    /\ Bases \subseteq Nat \ {0} /\ ArenaSize \in Nat /\ MaxArray \in Nat \ {0}
    /\ \A a, b \in Bases : a < b => a + ArenaSize <= b
    /\ Arrays \in BOOLEAN /\ Unordered \in BOOLEAN

VARIABLES
    mem,         \* storage_: the pointers of the free list
    held,        \* the arrays <<address, chunks>> that users hold
    next_size_,
    block_list_, \* the block_info <<ptr, size>> of the first block
    info,        \* the block_infos stored in blocks, by address
    taken,       \* the blocks <<ptr, size>> the user allocator has given out
    status       \* "alive", "spinning" in request_new_block, or "destroyed"

vars == <<mem, held, next_size_, block_list_, info, taken, status>>

Null == 0
NoBlock == <<Null, 0>>

lcm(a, b) == CHOOSE n \in 1 .. a * b :
                /\ n % a = 0 /\ n % b = 0
                /\ \A m \in 1 .. n - 1 : m % a # 0 \/ m % b # 0

chunk_size_ == lcm(RequestedSize, Word)

sizeof_block_info == 2 * Word

\* Mutant of block_info_offset: leaves no room for the block_info.
OffsetAtEnd(size) == (size \div Word) * Word

block_info_offset(size) == ((size - sizeof_block_info) \div Word) * Word

chunk_count(n) == (n * RequestedSize + chunk_size_ - 1) \div chunk_size_

Storage == INSTANCE SegregatedStorage
           WITH PartitionSize <- chunk_size_,
                Blocks <- {<<b, ArenaSize>> : b \in Bases},
                added <- {<<b[1], block_info_offset(b[2])>> : b \in taken}

Init ==
    /\ mem = [a \in Storage!Addresses |-> IF a = Storage!free_list THEN Null
                                          ELSE Storage!User]
    /\ held = {}
    /\ next_size_ = FirstNextSize
    /\ block_list_ = NoBlock
    /\ info = [a \in Storage!Addresses |-> NoBlock]
    /\ taken = {}
    /\ status = "alive"

-----------------------------------------------------------------------------
(* request_new_block and add_block. *)

\* The sizes that the loop tries, from next_size_ * chunk_size_ by doubling in
\* Width bits, and the number of doublings after which one is large enough.
Size(k) == (next_size_ * chunk_size_ * 2 ^ k) % 2 ^ Width
Enough(min_size) ==
    {k \in 0 .. Width : Size(k) >= min_size + sizeof_block_info * 2}

\* The user allocator gives a block of sz bytes, or Null.
user_malloc(sz) ==
    {Null} \cup {b \in Bases : sz <= ArenaSize /\ \A t \in taken : t[1] # b}

\* The free list after add_block has added the block at b.
Grown(b, sz, ordered) ==
    IF b = Null THEN mem
    ELSE IF ordered
         THEN Storage!add_ordered_block(mem, b, block_info_offset(sz))
         ELSE Storage!add_block(mem, b, block_info_offset(sz))

\* Mutant of Link: the new block does not remember the list.
LinkForgets(b, sz) ==
    IF b = Null THEN UNCHANGED <<block_list_, info, taken>>
    ELSE /\ block_list_' = <<b, sz>>
         /\ info' = [info EXCEPT ![b + block_info_offset(sz)] = NoBlock]
         /\ taken' = taken \cup {<<b, sz>>}

\* add_block puts the new block in front of the list.
Link(b, sz) ==
    IF b = Null THEN UNCHANGED <<block_list_, info, taken>>
    ELSE /\ block_list_' = <<b, sz>>
         /\ info' = [info EXCEPT ![b + block_info_offset(sz)] = block_list_]
         /\ taken' = taken \cup {<<b, sz>>}

\* Mutant of TakeAfter: the caller takes the new block for a failure.
TakeNothing(m, call, n) == [ret |-> Null, mem |-> m]

\* What the caller of request_new_block takes from the free list m afterwards.
TakeAfter(m, call, n) ==
    IF call = "malloc" THEN Storage!malloc(m) ELSE Storage!malloc_n(m, n)

\* A call of request_new_block(min_size, ordered), after which the caller takes n
\* chunks.  The size doubles for ever when no size is enough.
Request(min_size, ordered, n, call) ==
    /\ status = "alive" /\ next_size_ <= MaxNextSize
    /\ IF Enough(min_size) = {}
       THEN status' = "spinning"
            /\ UNCHANGED <<mem, held, next_size_, block_list_, info, taken>>
       ELSE LET sz == Size(Min(Enough(min_size)))
            IN  \E b \in user_malloc(sz) :
                  LET m == Grown(b, sz, ordered)
                      got == TakeAfter(m, call, n)
                  IN  /\ Link(b, sz)
                      /\ next_size_' = (next_size_ * 2) % 2 ^ Width
                      /\ IF b = Null \/ got.ret = Null
                         THEN mem' = m /\ UNCHANGED held
                         ELSE /\ mem' = Storage!Overwritten(got.mem, got.ret, n)
                              /\ held' = held \cup {<<got.ret, n>>}
                      /\ UNCHANGED status

-----------------------------------------------------------------------------
(* The operations. *)

HandOut(r, n) ==
    /\ status = "alive"
    /\ mem' = Storage!Overwritten(r.mem, r.ret, n)
    /\ held' = held \cup {<<r.ret, n>>}
    /\ UNCHANGED <<next_size_, block_list_, info, taken, status>>

Malloc(ordered) ==
    \/ /\ Storage!empty(mem)
       /\ Request(chunk_size_, ordered, 1, "malloc")
    \/ /\ ~Storage!empty(mem)
       /\ HandOut(Storage!malloc(mem), 1)

malloc == Unordered /\ Malloc(FALSE)

ordered_malloc == Malloc(TRUE)

\* ordered_malloc(n): when the request fails, malloc_n is tried again for nothing.
ordered_malloc_n(n) ==
    LET count == chunk_count(n)
        r == Storage!malloc_n(mem, count)
    IN  /\ Arrays
        /\ \/ r.ret # Null /\ HandOut(r, count)
           \/ r.ret = Null /\ Request(count * chunk_size_, TRUE, count, "malloc_n")

GiveBack(h, m) ==
    /\ status = "alive"
    /\ mem' = m
    /\ held' = held \ {h}
    /\ UNCHANGED <<next_size_, block_list_, info, taken, status>>

free(h) == Unordered /\ h[2] = 1 /\ GiveBack(h, Storage!free(mem, h[1]))

ordered_free(h) == h[2] = 1 /\ GiveBack(h, Storage!ordered_free(mem, h[1]))

ordered_free_n(h) == Arrays /\ GiveBack(h, Storage!ordered_free_n(mem, h[1], h[2]))

\* The blocks that a walk along the list meets, as ~pool and is_from make it.
Walk ==
    LET from[k \in 0 .. Cardinality(Bases)] ==
            IF k = 0 THEN block_list_
            ELSE LET b == from[k - 1]
                 IN  IF b = NoBlock THEN b ELSE info[b[1] + block_info_offset(b[2])]
    IN  {from[k] : k \in DOMAIN from} \ {NoBlock}

is_from(p) ==
    \E b \in Walk : /\ b[1] <= p /\ p < b[1] + block_info_offset(b[2])
                    /\ (p - b[1]) % chunk_size_ = 0

\* ~pool frees every block of the list, whatever is still in use.
Destroy ==
    /\ status = "alive"
    /\ status' = "destroyed"
    /\ taken' = taken \ Walk
    /\ held' = {}
    /\ block_list_' = NoBlock
    /\ UNCHANGED <<mem, next_size_, info>>

Next ==
    \/ malloc
    \/ ordered_malloc
    \/ \E n \in 1 .. MaxArray : ordered_malloc_n(n)
    \/ \E h \in held : free(h) \/ ordered_free(h) \/ ordered_free_n(h)
    \/ Destroy

Spec == Init /\ [][Next]_vars

-----------------------------------------------------------------------------
(* Properties. *)

TypeOK ==
    /\ mem \in [Storage!Addresses -> Storage!Addresses \cup {Storage!User}]
    /\ held \subseteq Storage!Addresses \X (1 .. chunk_count(MaxArray))
    /\ taken \subseteq Bases \X (1 .. ArenaSize)
    /\ next_size_ \in 0 .. 2 ^ Width - 1
    /\ block_list_ \in taken \cup {NoBlock}
    /\ status \in {"alive", "spinning", "destroyed"}

\* The pool hands out memory of its blocks only, never the same byte twice, and
\* its free list stays apart from what it has handed out.
ChunksSound ==
    status = "alive" => Storage!FreeListSound /\ Storage!HeldDisjoint

\* The block_info at the end of each block lies inside the block, and neither a
\* free chunk nor a user's chunk reaches into it.
InfoApart ==
    \A b \in taken :
        LET place == Storage!Bytes(b[1] + block_info_offset(b[2]), sizeof_block_info)
        IN  /\ place \subseteq Storage!Bytes(b[1], b[2])
            /\ \A c \in Storage!FreeChunks :
                  Storage!Bytes(c, chunk_size_) \cap place = {}
            /\ \A h \in held : Storage!ArrayBytes(h) \cap place = {}

\* The list threaded through the blocks holds every block the pool owns, so that
\* the destructor returns them all; and is_from accepts every chunk handed out.
BlockListComplete ==
    /\ status = "alive" => Walk = taken
    /\ status = "destroyed" => taken = {}
    /\ \A h \in held : is_from(h[1])

\* Without array operations, every chunk of every block is free or in use.
NothingLost == status = "alive" => Storage!NothingLost

\* A call that gets a new block serves its caller from it: "Requests a block with
\* at least min_size bytes for chunks."
BlockSuffices == [][taken' # taken /\ status' = "alive" => held' # held]_vars

=============================================================================
