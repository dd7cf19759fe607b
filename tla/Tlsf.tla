-------------------------------- MODULE Tlsf --------------------------------
(***************************************************************************)
(* The two-level segregated fit allocator (detail/impl/tlsf.ipp).  The     *)
(* heap is a record: the header fields of blocks, by the address of the    *)
(* block, and the control structure (two levels of bitmaps, and the heads  *)
(* of the free lists by <<fl, sl>>).  Every function of the code is an     *)
(* operator from heaps to heaps; every call of the public interface is one *)
(* step.  The allocator has no locks: its users serialise the calls.       *)
(*                                                                         *)
(* A word has ALIGN_SIZE bytes.  Header fields that the code may not rely  *)
(* on are Wild: the links of a used block and the prev_phys_block behind   *)
(* it, which are user memory, and headers inside other blocks.             *)
(***************************************************************************)
EXTENDS Integers, Sequences, FiniteSets, SequencesExt, FiniteSetsExt

CONSTANTS
    ALIGN_SIZE_LOG2, SL_INDEX_COUNT_LOG2, FL_INDEX_MAX,
    Pools,          \* the memory <<mem, bytes>> that may be added as pools
    Sizes,          \* the sizes of malloc and memalign
    Aligns,         \* the alignments of memalign, powers of two
    ReallocSizes    \* the sizes of realloc

ASSUME TlsfAssumption ==
    /\ ALIGN_SIZE_LOG2 \in Nat \ {0} /\ SL_INDEX_COUNT_LOG2 \in Nat
    /\ FL_INDEX_MAX \in Nat /\ FL_INDEX_MAX > SL_INDEX_COUNT_LOG2 + ALIGN_SIZE_LOG2
    /\ Sizes \subseteq Nat /\ ReallocSizes \subseteq Nat
    /\ \A p \in Pools : p[1] > 2 ^ ALIGN_SIZE_LOG2 /\ p[2] \in Nat

VARIABLES
    heap,   \* the headers and the control structure
    pools,  \* the pools added
    users   \* what users hold: [ptr, size, align]

vars == <<heap, pools, users>>

ALIGN_SIZE == 2 ^ ALIGN_SIZE_LOG2
SL_INDEX_COUNT == 2 ^ SL_INDEX_COUNT_LOG2
FL_INDEX_SHIFT == SL_INDEX_COUNT_LOG2 + ALIGN_SIZE_LOG2
FL_INDEX_COUNT == FL_INDEX_MAX - FL_INDEX_SHIFT + 1
SMALL_BLOCK_SIZE == 2 ^ FL_INDEX_SHIFT
Indices == (0 .. FL_INDEX_COUNT - 1) \X (0 .. SL_INDEX_COUNT - 1)

\* sizeof(block_header_t) is four words; the first is the last of the block before.
block_header_overhead == ALIGN_SIZE
block_start_offset == 2 * ALIGN_SIZE
sizeof_header == 4 * ALIGN_SIZE
block_size_min == sizeof_header - ALIGN_SIZE
block_size_max == 2 ^ FL_INDEX_MAX

block_null == 0     \* &control->block_null; its links are written, never read
Wild == -1
Nil == -2           \* a null pointer
NoList == <<Nil, Nil>>

Addresses == UNION {{p[1] + k * ALIGN_SIZE : k \in (-1) .. (p[2] \div ALIGN_SIZE)}
                        : p \in Pools}

-----------------------------------------------------------------------------
(* Sizes and indices. *)

align_up(x, align) == ((x + align - 1) \div align) * align
align_down(x, align) == x - (x % align)

adjust_request_size(size, align) ==
    IF size = 0 \/ align_up(size, align) >= block_size_max THEN 0
    ELSE Max({align_up(size, align), block_size_min})

\* The position of the highest bit.
fls(n) == CHOOSE k \in 0 .. FL_INDEX_MAX + 1 : 2 ^ k <= n /\ n < 2 ^ (k + 1)

mapping_insert(size) ==
    IF size < SMALL_BLOCK_SIZE
    THEN <<0, size \div (SMALL_BLOCK_SIZE \div SL_INDEX_COUNT)>>
    ELSE <<fls(size) - (FL_INDEX_SHIFT - 1),
           size \div 2 ^ (fls(size) - SL_INDEX_COUNT_LOG2) - SL_INDEX_COUNT>>


mapping_search(size) ==
    mapping_insert(IF size >= SMALL_BLOCK_SIZE
                   THEN size + 2 ^ (fls(size) - SL_INDEX_COUNT_LOG2) - 1
                   ELSE size)

-----------------------------------------------------------------------------
(* Blocks. *)

block_from_ptr(ptr) == ptr - block_start_offset
block_to_ptr(b) == b + block_start_offset
offset_to_block(ptr, size) == ptr + size

block_next(h, b) ==
    offset_to_block(block_to_ptr(b), h.size[b] - block_header_overhead)

block_link_next(h, b) == [h EXCEPT !.prev_phys[block_next(h, b)] = b]

\* Mutant of block_mark_as_free: the neighbour does not learn of it.
MarkAsFreeSilently(h, b) ==
    [block_link_next(h, b) EXCEPT !.status[b] = "free"]

block_mark_as_free(h, b) ==
    [block_link_next(h, b) EXCEPT !.prev_status[block_next(h, b)] = "free",
                                  !.status[b] = "free"]

block_mark_as_used(h, b) ==
    [h EXCEPT !.prev_status[block_next(h, b)] = "used", !.status[b] = "used"]

\* f[a] := v, where a may be block_null.
Put(f, a, v) == IF a = block_null THEN f ELSE [f EXCEPT ![a] = v]

remove_free_block(h, b, i) ==
    LET next == h.next_free[b]
        sl == h.sl_bitmap \ {i}
        g == [h EXCEPT !.prev_free = Put(@, next, h.prev_free[b]),
                       !.next_free = Put(@, h.prev_free[b], next),
                       !.blocks[i] = IF @ = b THEN next ELSE @]
    IN  IF h.blocks[i] = b /\ next = block_null
        THEN [g EXCEPT !.sl_bitmap = sl,
                       !.fl_bitmap = IF \E j \in sl : j[1] = i[1] THEN @
                                     ELSE @ \ {i[1]}]
        ELSE g

\* Mutant of insert_free_block: the old head keeps its prev_free.
InsertForgetsPrev(h, b, i) ==
    [h EXCEPT !.next_free[b] = h.blocks[i], !.prev_free[b] = block_null,
              !.blocks[i] = b,
              !.sl_bitmap = @ \cup {i}, !.fl_bitmap = @ \cup {i[1]}]

insert_free_block(h, b, i) ==
    [h EXCEPT !.next_free[b] = h.blocks[i],
              !.prev_free = Put([@ EXCEPT ![b] = block_null], h.blocks[i], b),
              !.blocks[i] = b,
              !.sl_bitmap = @ \cup {i}, !.fl_bitmap = @ \cup {i[1]}]

block_remove(h, b) == remove_free_block(h, b, mapping_insert(h.size[b]))
block_insert(h, b) == insert_free_block(h, b, mapping_insert(h.size[b]))

block_can_split(h, b, size) == h.size[b] >= sizeof_header + size

\* Where block_split(b, size) puts the second block.
Remaining(b, size) ==
    offset_to_block(block_to_ptr(b), size - block_header_overhead)

\* The second block keeps the flags that happen to be there: its prev_status is
\* whatever the memory held.
block_split(h, b, size) ==
    LET r == Remaining(b, size)
    IN  block_mark_as_free(
            [h EXCEPT !.size[r] = h.size[b] - (size + block_header_overhead),
                      !.size[b] = size, !.prev_status[r] = "wild"], r)

\* prev takes in b, whose header is dead memory from now on.
block_absorb(h, prev, b) ==
    LET g == block_link_next([h EXCEPT !.size[prev] = @ + h.size[b]
                                                       + block_header_overhead], prev)
    IN  [g EXCEPT !.size[b] = Wild, !.status[b] = "wild", !.prev_status[b] = "wild",
                  !.prev_phys[b] = Wild, !.next_free[b] = Wild, !.prev_free[b] = Wild]

\* Mutant of block_merge_prev: leaves the block before in its free list.
MergePrevNoRemove(h, b) ==
    IF h.prev_status[b] = "free"
    THEN [heap |-> block_absorb(h, h.prev_phys[b], b), block |-> h.prev_phys[b]]
    ELSE [heap |-> h, block |-> b]

block_merge_prev(h, b) ==
    LET prev == h.prev_phys[b]
    IN  IF h.prev_status[b] = "free"
        THEN [heap |-> block_absorb(block_remove(h, prev), prev, b), block |-> prev]
        ELSE [heap |-> h, block |-> b]

block_merge_next(h, b) ==
    LET next == block_next(h, b)
    IN  IF h.status[next] = "free"
        THEN block_absorb(block_remove(h, next), b, next)
        ELSE h

block_trim_free(h, b, size) ==
    LET r == Remaining(b, size)
        g == block_link_next(block_split(h, b, size), b)
    IN  IF block_can_split(h, b, size)
        THEN block_insert([g EXCEPT !.prev_status[r] = "free"], r)
        ELSE h

block_trim_used(h, b, size) ==
    LET r == Remaining(b, size)
        g == [block_split(h, b, size) EXCEPT !.prev_status[r] = "used"]
    IN  IF block_can_split(h, b, size)
        THEN block_insert(block_merge_next(g, r), r)
        ELSE h

\* The block of the second part, after the first size bytes have become a free
\* block of their own.
block_trim_free_leading(h, b, size) ==
    LET r == Remaining(b, size - block_header_overhead)
        g == [block_split(h, b, size - block_header_overhead)
                 EXCEPT !.prev_status[r] = "free"]
    IN  IF block_can_split(h, b, size)
        THEN [heap |-> block_insert(block_link_next(g, b), b), block |-> r]
        ELSE [heap |-> h, block |-> b]

\* Mutant of search_suitable_block: looks no further than the first-level list.
SearchOneLevel(h, i) ==
    LET sl == {j \in h.sl_bitmap : j[1] = i[1] /\ j[2] >= i[2]}
    IN  IF sl = {} THEN NoList
        ELSE CHOOSE j \in sl : \A k \in sl : j[2] <= k[2]

\* The list in which a block of at least list i is found, or NoList.
search_suitable_block(h, i) ==
    LET sl == {j \in h.sl_bitmap : j[1] = i[1] /\ j[2] >= i[2]}
        fl == {k \in h.fl_bitmap : k > i[1]}
        above == {j \in h.sl_bitmap : j[1] = Min(fl)}
        Lowest(js) == CHOOSE j \in js : \A k \in js : j[2] <= k[2]
    IN  IF sl # {} THEN Lowest(sl)
        ELSE IF fl = {} THEN NoList
        ELSE Lowest(above)

block_locate_free(h, size) ==
    LET i == mapping_search(size)
        found == search_suitable_block(h, i)
    IN  IF size = 0 \/ i[1] >= FL_INDEX_COUNT \/ found = NoList
        THEN [heap |-> h, block |-> Nil]
        ELSE [heap |-> remove_free_block(h, h.blocks[found], found),
              block |-> h.blocks[found]]

\* The user of block b may write to all of it, the last word included, which is
\* the prev_phys_block of the next block.
Overwritten(h, b) ==
    [h EXCEPT !.next_free[b] = Wild, !.prev_free[b] = Wild,
              !.prev_phys[block_next(h, b)] = Wild]

block_prepare_used(h, b, size) ==
    IF b = Nil THEN [heap |-> h, ptr |-> Nil]
    ELSE [heap |-> Overwritten(block_mark_as_used(block_trim_free(h, b, size), b), b),
          ptr |-> block_to_ptr(b)]

-----------------------------------------------------------------------------
(* The public interface. *)

tlsf_malloc(h, size) ==
    LET adjust == adjust_request_size(size, ALIGN_SIZE)
        found == block_locate_free(h, adjust)
    IN  block_prepare_used(found.heap, found.block, adjust)

\* Mutant of Gap: a gap too small for a block is not enlarged.
GapAsIs(ptr, align) == align_up(ptr, align) - ptr

\* The distance from ptr to the aligned address that memalign chooses.
Gap(ptr, align) ==
    LET aligned == align_up(ptr, align)
        gap == aligned - ptr
    IN  IF gap # 0 /\ gap < sizeof_header
        THEN align_up(aligned + Max({sizeof_header - gap, align}), align) - ptr
        ELSE gap

tlsf_memalign(h, align, size) ==
    LET adjust == adjust_request_size(size, ALIGN_SIZE)
        with_gap == adjust_request_size(adjust + align + sizeof_header, align)
        found == block_locate_free(h, IF adjust # 0 /\ align > ALIGN_SIZE
                                      THEN with_gap ELSE adjust)
        gap == Gap(block_to_ptr(found.block), align)
        trimmed == IF found.block = Nil \/ gap = 0 THEN found
                   ELSE block_trim_free_leading(found.heap, found.block, gap)
    IN  block_prepare_used(trimmed.heap, trimmed.block, adjust)

tlsf_free(h, ptr) ==
    LET b == block_from_ptr(ptr)
        merged == block_merge_prev(block_mark_as_free(h, b), b)
    IN  block_insert(block_merge_next(merged.heap, merged.block), merged.block)

\* realloc of a block and a size other than 0 (which is free).
tlsf_realloc(h, ptr, size) ==
    LET b == block_from_ptr(ptr)
        next == block_next(h, b)
        combined == h.size[b] + h.size[next] + block_header_overhead
        adjust == adjust_request_size(size, ALIGN_SIZE)
        moved == tlsf_malloc(h, size)
        grown == IF adjust > h.size[b]
                 THEN block_mark_as_used(block_merge_next(h, b), b) ELSE h
    IN  IF adjust > h.size[b] /\ (h.status[next] # "free" \/ adjust > combined)
        THEN IF moved.ptr = Nil THEN moved
             ELSE [heap |-> tlsf_free(moved.heap, ptr), ptr |-> moved.ptr]
        ELSE [heap |-> Overwritten(block_trim_used(grown, b, adjust), b), ptr |-> ptr]

PoolBytes(p) == align_down(p[2] - 2 * block_header_overhead, ALIGN_SIZE)

\* The sizes tlsf_add_pool accepts.
Accepted(p) ==
    /\ p[1] % ALIGN_SIZE = 0
    /\ PoolBytes(p) >= block_size_min /\ PoolBytes(p) <= block_size_max

FirstBlock(p) == offset_to_block(p[1], -block_header_overhead)

tlsf_add_pool(h, p) ==
    LET b == FirstBlock(p)
        g == block_insert([h EXCEPT !.size[b] = PoolBytes(p), !.status[b] = "free",
                                    !.prev_status[b] = "used"], b)
        next == block_next(g, b)
    IN  [block_link_next(g, b) EXCEPT !.size[next] = 0, !.status[next] = "used",
                                      !.prev_status[next] = "free"]

tlsf_remove_pool(h, p) ==
    LET g == block_remove(h, FirstBlock(p))
        dead == {a \in Addresses : a >= FirstBlock(p) /\ a <= p[1] + p[2]}
        Kill(f, v) == [a \in Addresses |-> IF a \in dead THEN v ELSE f[a]]
    IN  [g EXCEPT !.size = Kill(@, Wild), !.status = Kill(@, "wild"),
                  !.prev_status = Kill(@, "wild"), !.prev_phys = Kill(@, Wild),
                  !.next_free = Kill(@, Wild), !.prev_free = Kill(@, Wild)]

-----------------------------------------------------------------------------
(* The calls. *)

\* tlsf_create: control_construct points every list at the null block.
Init ==
    /\ heap = [size |-> [a \in Addresses |-> Wild],
               status |-> [a \in Addresses |-> "wild"],
               prev_status |-> [a \in Addresses |-> "wild"],
               prev_phys |-> [a \in Addresses |-> Wild],
               next_free |-> [a \in Addresses |-> Wild],
               prev_free |-> [a \in Addresses |-> Wild],
               blocks |-> [i \in Indices |-> block_null],
               sl_bitmap |-> {}, fl_bitmap |-> {}]
    /\ pools = {}
    /\ users = {}

AddPool(p) ==
    /\ p \notin pools /\ Accepted(p)
    /\ heap' = tlsf_add_pool(heap, p)
    /\ pools' = pools \cup {p}
    /\ UNCHANGED users

In(p, ptr) == p[1] <= ptr /\ ptr < p[1] + p[2]

\* The user removes a pool in which nothing is allocated.
RemovePool(p) ==
    /\ p \in pools
    /\ \A u \in users : ~In(p, u.ptr)
    /\ heap' = tlsf_remove_pool(heap, p)
    /\ pools' = pools \ {p}
    /\ UNCHANGED users

\* A call returned r: a null pointer leaves the user with what is kept.
Returned(r, kept, size, align) ==
    /\ heap' = r.heap
    /\ users' = IF r.ptr = Nil THEN users
                ELSE kept \cup {[ptr |-> r.ptr, size |-> size, align |-> align]}
    /\ UNCHANGED pools

Malloc(size) == Returned(tlsf_malloc(heap, size), users, size, ALIGN_SIZE)

Memalign(align, size) ==
    Returned(tlsf_memalign(heap, align, size), users, size, align)

Free(u) ==
    /\ heap' = tlsf_free(heap, u.ptr)
    /\ users' = users \ {u}
    /\ UNCHANGED pools

Realloc(u, size) ==
    Returned(tlsf_realloc(heap, u.ptr, size), users \ {u}, size, ALIGN_SIZE)

Next ==
    \/ \E p \in Pools : AddPool(p) \/ RemovePool(p)
    \/ \E size \in Sizes : Malloc(size)
    \/ \E size \in Sizes, align \in Aligns : Memalign(align, size)
    \/ \E u \in users : Free(u)
    \/ \E u \in users, size \in ReallocSizes : Realloc(u, size)

Spec == Init /\ [][Next]_vars

-----------------------------------------------------------------------------
(* Properties. *)

TypeOK ==
    /\ heap.size \in [Addresses -> Nat \cup {Wild}]
    /\ heap.status \in [Addresses -> {"free", "used", "wild"}]
    /\ heap.prev_status \in [Addresses -> {"free", "used", "wild"}]
    /\ heap.prev_phys \in [Addresses -> Addresses \cup {Wild}]
    /\ heap.next_free \in [Addresses -> Addresses \cup {block_null, Wild}]
    /\ heap.prev_free \in [Addresses -> Addresses \cup {block_null, Wild}]
    /\ heap.blocks \in [Indices -> Addresses \cup {block_null}]
    /\ heap.sl_bitmap \subseteq Indices
    /\ heap.fl_bitmap \subseteq 0 .. FL_INDEX_COUNT - 1
    /\ pools \subseteq Pools
    /\ \A u \in users : u.ptr \in Addresses

\* A block takes four words, the sentinel of a pool less.
MaxBlocks == Cardinality(Addresses) \div 4 + Cardinality(Pools)

\* The blocks on free list i, as tlsf_check walks it.
List(i) ==
    LET at[k \in 0 .. MaxBlocks] ==
            IF k = 0 THEN heap.blocks[i]
            ELSE LET b == at[k - 1]
                 IN  IF b \in {block_null, Wild} THEN b ELSE heap.next_free[b]
    IN  {at[k] : k \in DOMAIN at} \ {block_null}

\* The blocks of pool p in their order, as tlsf_walk_pool walks them, the sentinel
\* of size 0 included.
Physical(p) ==
    LET at[k \in 0 .. MaxBlocks] ==
            IF k = 0 THEN <<FirstBlock(p)>>
            ELSE LET s == at[k - 1] IN
                 IF heap.size[Head(s)] \in {0, Wild} THEN s
                 ELSE <<block_next(heap, Head(s))>> \o s
    IN  Reverse(at[MaxBlocks])

\* tlsf_check finds nothing to complain of: bitmaps and lists agree, and the lists
\* hold free blocks of their size whose neighbours are in use.
tlsf_check ==
    \A i \in Indices :
        /\ i \in heap.sl_bitmap => i[1] \in heap.fl_bitmap
        /\ i \in heap.sl_bitmap <=> heap.blocks[i] # block_null
        /\ \A b \in List(i) :
              /\ b # Wild
              /\ heap.status[b] = "free"
              /\ heap.prev_status[b] = "used"
              /\ heap.status[block_next(heap, b)] = "used"
              /\ heap.prev_status[block_next(heap, b)] = "free"
              /\ heap.size[b] >= block_size_min
              /\ mapping_insert(heap.size[b]) = i

\* tlsf_check_pool: every block knows the status of the one before.  Beyond it: the
\* blocks fill the pool exactly, the free ones are on their list, and the others
\* are the users' and the sentinel.
PoolTiled ==
    \A p \in pools :
        LET s == Physical(p)
        IN  /\ s[Len(s)] = p[1] + PoolBytes(p)
            /\ heap.size[s[Len(s)]] = 0
            /\ \A k \in 1 .. Len(s) :
                  /\ heap.prev_status[s[k]] = IF k = 1 THEN "used"
                                              ELSE heap.status[s[k - 1]]
                  /\ heap.prev_status[s[k]] = "free" => heap.prev_phys[s[k]] = s[k - 1]
                  /\ IF heap.status[s[k]] = "free"
                     THEN s[k] \in List(mapping_insert(heap.size[s[k]]))
                     ELSE \/ k = Len(s)
                          \/ \E u \in users : u.ptr = block_to_ptr(s[k])

\* The free lists are doubly linked: removing any block of a list, wherever
\* it stands, keeps the rest.
ListsLinked ==
    \A i \in Indices : \A b \in List(i) :
        /\ heap.prev_free[b] = block_null <=> heap.blocks[i] = b
        /\ heap.next_free[b] # block_null => heap.prev_free[heap.next_free[b]] = b

\* What malloc, memalign and realloc return is large enough, aligned as asked, in a
\* block of a pool, and shared with no other user.
UsersServed ==
    /\ \A u \in users :
          LET b == block_from_ptr(u.ptr)
          IN  /\ heap.status[b] = "used"
              /\ heap.size[b] >= u.size
              /\ u.ptr % u.align = 0 /\ u.ptr % ALIGN_SIZE = 0
              /\ \E p \in pools : In(p, u.ptr)
    /\ \A u, v \in users :
          u # v => \/ u.ptr + heap.size[block_from_ptr(u.ptr)] <= v.ptr
                   \/ v.ptr + heap.size[block_from_ptr(v.ptr)] <= u.ptr

\* When a pool holds nothing, it is one free block again, so that tlsf_remove_pool
\* meets what it asserts, whatever the order in which blocks were freed.
CoalescedFully ==
    \A p \in pools :
        (\A u \in users : ~In(p, u.ptr)) =>
            /\ heap.size[FirstBlock(p)] = PoolBytes(p)
            /\ heap.status[FirstBlock(p)] = "free"

\* The good fit of the two-level search: malloc finds a block whenever one exists
\* that is as large as the request rounded up to a list's smallest size.
MallocFinds ==
    \A size \in Sizes :
        LET adjust == adjust_request_size(size, ALIGN_SIZE)
            rounded == IF adjust < SMALL_BLOCK_SIZE THEN adjust
                       ELSE align_up(adjust, 2 ^ (fls(adjust) - SL_INDEX_COUNT_LOG2))
            fits == {a \in Addresses :
                        heap.status[a] = "free" /\ heap.size[a] >= rounded}
        IN  adjust # 0 /\ fits # {} => tlsf_malloc(heap, size).ptr # Nil

\* "a request that cannot be satisfied will leave the original buffer untouched":
\* of realloc, for sizes no block can have.
ReallocUntouched ==
    \A u \in users, size \in ReallocSizes :
        size >= block_size_max => tlsf_realloc(heap, u.ptr, size).heap = heap

=============================================================================
