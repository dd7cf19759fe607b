----------------------------- MODULE Resources -----------------------------
(***************************************************************************)
(* The memory resources of gpcl::pmr: monotonic_buffer_resource,           *)
(* synchronised_pool_resource with the resource_pools it is made of, and   *)
(* tlsf_resource.  Each gets its memory from an upstream resource and must *)
(* give back to it exactly what it got.  A behaviour uses one resource,    *)
(* r.kind.                                                                 *)
(*                                                                         *)
(* Addresses and sizes are numbers; a block_info or pool_base that the     *)
(* code stores inside a block is in r.info, by its address.  The free      *)
(* lists of a resource_pool are those of SegregatedStorage.  Of the TLSF   *)
(* heap only the pools and the bytes left in each are kept: a request that *)
(* fits may still fail, for the heap may be fragmented (module Tlsf is     *)
(* about the heap itself).                                                 *)
(*                                                                         *)
(* synchronised_pool_resource holds its mutex through every operation, and *)
(* the others are not for several threads: a call is one step.             *)
(***************************************************************************)
EXTENDS Integers, Sequences, FiniteSets, FiniteSetsExt

CONSTANTS
  Kinds,          \* the resources exercised
  Word,           \* sizeof(void *) = sizeof(size_t)
  MaxAlign,       \* alignof(max_align_t), a multiple of Word
  Places,         \* where upstream puts blocks, aligned to MaxAlign
  PlaceSize,      \* the largest block it has
  Initial,        \* the first size to ask for: 1024, next_size_ = 32 chunks, 8152
  PoolSizes,      \* the sizes of create_pools() below the largest pool block
  Largest,        \* options_.largest_required_pool_block
  Sizes, Aligns,  \* what users ask for
  MaxUsers,       \* bound on the allocations that users hold
  UserBuffer      \* a buffer <<address, size>> that the user provides

VARIABLES r, call

vars == <<r, call>>

Null == 0
NoBlock == <<Null, 0, 0>>
Overlap(p, m, q, n) == p < q + n /\ q < p + m

-----------------------------------------------------------------------------
\* The upstream resource: it has a place for the block, or it throws.
Room(s, bytes) == {a \in Places : bytes <= PlaceSize /\ \A u \in s.up : u[1] # a}
allocate(s, bytes, al) ==
  LET a == CHOOSE a \in Room(s, bytes) : TRUE
  IN  IF Room(s, bytes) = {} THEN [s |-> [s EXCEPT !.exc = TRUE], ret |-> Null]
      ELSE [s |-> [s EXCEPT !.up = @ \cup {<<a, bytes, al>>}], ret |-> a]
\* Only what was allocated may be deallocated, with its size and alignment.  What
\* was stored in the block is gone.
deallocate(s, p, bytes, al) ==
  IF <<p, bytes, al>> \in s.up
  THEN [s EXCEPT !.up = @ \ {<<p, bytes, al>>},
                 !.info = [a \in DOMAIN @ |-> IF a \in p..(p + bytes) THEN NoBlock ELSE @[a]]]
  ELSE [s EXCEPT !.fault = TRUE]

-----------------------------------------------------------------------------
(* monotonic_buffer_resource *)
mono_info == 3 * Word
\* release(): every block of the list; buffer_ stays what it was.
RECURSIVE mono_release(_)
mono_release(s) ==
  LET b == s.list
      next == s.info[b[1] + b[2]]
  IN  IF b[1] = Null THEN s
      ELSE mono_release([deallocate(s, b[1], b[2] + mono_info, b[3]) EXCEPT !.list = next])

\* Mutant of alloc_from_buffer: the address is not rounded up.
AllocUnaligned(s, bytes, al) ==
  LET p == s.buffer[1]
      n == s.buffer[2]
  IN  IF n < bytes THEN [s |-> s, ret |-> Null]
      ELSE [s |-> [s EXCEPT !.buffer = <<p + bytes, n - bytes>>], ret |-> p]
alloc_from_buffer(s, bytes, al) ==
  LET p == s.buffer[1]
      n == s.buffer[2]
      off == (al - (p % al)) % al
  IN  IF off > n THEN [s |-> s, ret |-> Null]
      ELSE IF n - off < bytes
      THEN [s |-> [s EXCEPT !.buffer = <<p + off, n - off>>], ret |-> Null]
      ELSE [s |-> [s EXCEPT !.buffer = <<p + off + bytes, n - off - bytes>>], ret |-> p + off]

\* request_from_upstream(): the old list goes to the end of the new block.
mono_request(s) ==
  LET a == allocate(s, s.next + mono_info, MaxAlign)
  IN  IF a.s.exc THEN a.s
      ELSE [a.s EXCEPT !.info[a.ret + s.next] = s.list, !.list = <<a.ret, s.next, MaxAlign>>,
                       !.buffer = <<a.ret, s.next>>, !.next = 2 * @]

RoundUp(n, m) == ((n + m - 1) \div m) * m
mono_allocate(s, bytes, al) ==
  LET first == alloc_from_buffer(s, bytes, al)
      larger == [first.s EXCEPT !.next = IF @ < bytes THEN RoundUp(bytes, 2 * MaxAlign) ELSE @]
      more == mono_request(larger)
  IN  IF first.ret # Null THEN first
      ELSE IF more.exc THEN [s |-> more, ret |-> Null]
      ELSE alloc_from_buffer(more, bytes, al)

-----------------------------------------------------------------------------
(* resource_pool and synchronised_pool_resource *)
lcm(a, b) == CHOOSE n \in 1..(a * b) : /\ n % a = 0 /\ n % b = 0
                                       /\ \A k \in 1..(n - 1) : k % a # 0 \/ k % b # 0
chunk_size == [q \in PoolSizes |-> lcm(q, Word)]
pool_info == 2 * Word
Storage(q) == INSTANCE SegregatedStorage
              WITH PartitionSize <- chunk_size[q], Blocks <- {<<a, PlaceSize>> : a \in Places},
                   MaxArray <- 1, Arrays <- TRUE, Unordered <- FALSE,
                   mem <- r.pools[q].mem, added <- {}, held <- {}
block_info_offset(size) == ((size - pool_info) \div Word) * Word
chunk_count(q, n) == (n * q + chunk_size[q] - 1) \div chunk_size[q]
EmptyPool(q) ==
  [mem |-> [a \in Storage(q)!Addresses |-> IF a = 0 THEN Null ELSE Storage(q)!User],
   next |-> Initial, list |-> NoBlock]
create_pools == [q \in PoolSizes |-> EmptyPool(q)]

\* The loop of request_new_block: sz is doubled until the chunks and two infos fit.
RECURSIVE Doubled(_, _)
Doubled(sz, least) == IF sz < least THEN Doubled(2 * sz, least) ELSE sz
\* request_new_block(min_size, true) and add_block
request_new_block(s, q, min_size) ==
  LET sz == Doubled(s.pools[q].next * chunk_size[q], min_size + 2 * pool_info)
      a == allocate([s EXCEPT !.pools[q].next = 2 * @], sz, MaxAlign)
      off == block_info_offset(sz)
  IN  IF a.s.exc THEN a.s
      ELSE [a.s EXCEPT !.pools[q].mem = Storage(q)!add_ordered_block(@, a.ret, off),
                       !.info[a.ret + off] = s.pools[q].list,
                       !.pools[q].list = <<a.ret, sz, MaxAlign>>]

\* ordered_malloc(n): a block that was requested may still be too small.
ordered_malloc(s, q, n) ==
  LET count == chunk_count(q, n)
      Taken(t, got) ==
        IF got.ret = Null THEN [s |-> t, ret |-> Null]
        ELSE [s |-> [t EXCEPT !.pools[q].mem = Storage(q)!Overwritten(got.mem, got.ret, count)],
              ret |-> got.ret]
      now == Storage(q)!malloc_n(s.pools[q].mem, count)
      more == request_new_block(s, q, count * chunk_size[q])
      later == Storage(q)!malloc_n(more.pools[q].mem, count)
  IN  IF now.ret # Null THEN Taken(s, now)
      ELSE IF more.exc THEN [s |-> more, ret |-> Null] ELSE Taken(more, later)
ordered_free(s, q, p, n) ==
  [s EXCEPT !.pools[q].mem = Storage(q)!ordered_free_n(@, p, chunk_count(q, n))]
\* ~resource_pool
RECURSIVE pool_destroy(_, _)
pool_destroy(s, q) ==
  LET b == s.pools[q].list
      next == s.info[b[1] + block_info_offset(b[2])]
  IN  IF b[1] = Null THEN s
      ELSE pool_destroy([deallocate(s, b[1], b[2], MaxAlign) EXCEPT !.pools[q].list = next], q)

\* get_pool(): the largest pool size that divides bytes.
get_pool(bytes) == Max({q \in PoolSizes : bytes % q = 0})
Direct(bytes, al) == bytes >= Largest \/ al > MaxAlign
pool_allocate(s, bytes, al) ==
  IF Direct(bytes, al) THEN allocate(s, bytes, al)
  ELSE ordered_malloc(s, get_pool(bytes), bytes \div get_pool(bytes))
pool_deallocate(s, p, bytes, al) ==
  IF Direct(bytes, al) THEN deallocate(s, p, bytes, al)
  ELSE ordered_free(s, get_pool(bytes), p, bytes \div get_pool(bytes))
\* ~synchronised_pool_resource and release(): blocks_from_upstream_ is always
\* empty, so that blocks which came from upstream directly stay with their users.
pool_release(s) ==
  [FoldSet(LAMBDA q, t : pool_destroy(t, q), s, PoolSizes) EXCEPT !.pools = create_pools]

-----------------------------------------------------------------------------
(* tlsf_resource *)
pool_base == 2 * Word
RECURSIVE tlsf_release(_)
tlsf_release(s) ==
  LET base == s.list
  IN  IF base[1] = Null THEN s
      ELSE tlsf_release([deallocate(s, base[1], base[2], Word) EXCEPT !.list = s.info[base[1]]])
request_new_buffer(s, bytes) ==
  LET a == allocate(s, bytes, Word)
  IN  IF a.s.exc THEN a.s
      ELSE [a.s EXCEPT !.info[a.ret] = s.list, !.list = <<a.ret, bytes, Word>>]
\* request_from_upstream(): the buffer is added to the heap.
tlsf_request(s) ==
  LET t == request_new_buffer(s, s.next)
  IN  IF t.exc THEN t
      ELSE [t EXCEPT !.heap = @ \cup {<<t.list[1] + pool_base, s.next - pool_base>>}, !.next = 2 * @]
\* tlsf_memalign: the first aligned place in the heap, or null, always for 0 bytes.
Vacant(s, bytes, al) ==
  {p \in UNION {b[1]..(b[1] + b[2] - bytes) : b \in s.heap} :
     bytes > 0 /\ p % al = 0 /\ \A u \in s.users : ~Overlap(p, bytes, u[1], u[2])}
tlsf_memalign(s, bytes, al) ==
  {Null} \cup (IF Vacant(s, bytes, al) = {} THEN {} ELSE {Min(Vacant(s, bytes, al))})
\* do_allocate: until there is room, or upstream throws.
RECURSIVE tlsf_allocate(_, _, _)
tlsf_allocate(s, bytes, al) ==
  {[s |-> s, ret |-> p] : p \in tlsf_memalign(s, bytes, al) \ {Null}} \cup
  (LET more == tlsf_request(s)
   IN  IF more.exc THEN {[s |-> more, ret |-> Null]} ELSE tlsf_allocate(more, bytes, al))

-----------------------------------------------------------------------------
Did(name, bytes, al, ret) == [name |-> name, bytes |-> bytes, al |-> al, ret |-> ret]
Fresh == [r EXCEPT !.exc = FALSE]
Blank ==
  [kind |-> "none", up |-> {}, info |-> [a \in UNION {p..(p + PlaceSize) : p \in Places} \cup {0} |-> NoBlock],
   users |-> {}, buffer |-> <<Null, 0>>, next |-> Initial, list |-> NoBlock, heap |-> {},
   pools |-> [q \in PoolSizes |-> [mem |-> <<>>, next |-> 0, list |-> NoBlock]],
   exc |-> FALSE, fault |-> FALSE, stale |-> FALSE]

\* The constructors.  One that throws leaves no resource behind.
Constructed(k, name, s) ==
  /\ call' = Did(name, 0, 1, Null)
  /\ r' = IF s.exc THEN [Blank EXCEPT !.kind = "none", !.up = s.up, !.exc = TRUE] ELSE [s EXCEPT !.kind = k]
Construct ==
  /\ r.kind = "none"
  /\ \/ /\ "monotonic" \in Kinds
        /\ \/ Constructed("monotonic", "construct", mono_request(Blank))
           \/ Constructed("monotonic", "construct with buffer", [Blank EXCEPT !.buffer = UserBuffer])
     \/ "pools" \in Kinds /\ Constructed("pools", "construct", [Blank EXCEPT !.pools = create_pools])
     \/ /\ "tlsf" \in Kinds
        /\ \/ Constructed("tlsf", "construct", request_new_buffer(Blank, Initial + pool_base))
           \/ Constructed("tlsf", "construct with buffer", [Blank EXCEPT !.heap = {UserBuffer}])

\* Bound: no call once a pool would ask for more than upstream can ever have.
InBounds == Cardinality(r.users) < MaxUsers /\ \A q \in PoolSizes : r.pools[q].next <= 2 * Initial

\* What the user of a resource gets from allocate(), nothing if it throws or fails.
Allocated(bytes, al, got) ==
  /\ call' = Did("allocate", bytes, al, got.ret)
  /\ r' = IF got.ret = Null THEN got.s
          ELSE [got.s EXCEPT !.users = @ \cup {<<got.ret, bytes, al>>},
                             !.stale = IF got.s.list # r.list THEN FALSE ELSE @]
Allocate == InBounds /\ \E bytes \in Sizes, al \in Aligns :
  \/ r.kind = "monotonic" /\ Allocated(bytes, al, mono_allocate(Fresh, bytes, al))
  \/ r.kind = "pools" /\ Allocated(bytes, al, pool_allocate(Fresh, bytes, al))
  \/ r.kind = "tlsf" /\ \E got \in tlsf_allocate(Fresh, bytes, al) : Allocated(bytes, al, got)

Deallocate == \E u \in r.users :
  LET s == [Fresh EXCEPT !.users = @ \ {u}]
  IN  /\ r.kind # "none"
      /\ call' = Did("deallocate", u[2], u[3], u[1])
      /\ r' = IF r.kind = "pools" THEN pool_deallocate(s, u[1], u[2], u[3]) ELSE s

\* What stays with its users when a resource lets go of all its memory.
Outlive(s) == {u \in s.users : s.kind = "pools" /\ Direct(u[2], u[3])}
Released(s) ==
  CASE s.kind = "monotonic" -> mono_release(s)
    [] s.kind = "pools" -> pool_release(s)
    [] s.kind = "tlsf" -> tlsf_release(s)
Release ==
  /\ r.kind \in {"monotonic", "pools"}
  /\ call' = Did("release", 0, 1, Null)
  /\ r' = [Released(Fresh) EXCEPT !.users = Outlive(r), !.stale = @ \/ (r.kind = "monotonic" /\ r.list # NoBlock)]
Destroy ==
  /\ r.kind # "none" /\ Outlive(r) = {}
  /\ call' = Did("destroy", 0, 1, Null)
  /\ r' = LET s == Released(Fresh) IN [Blank EXCEPT !.up = s.up, !.fault = s.fault]

Init == r = Blank /\ call = Did("start", 0, 1, Null)
Next ==
  /\ ~r.fault /\ (call.name = "allocate" => ~r.stale)
  /\ Construct \/ Allocate \/ Deallocate \/ Release \/ Destroy
Spec == Init /\ [][Next]_vars

-----------------------------------------------------------------------------
\* A resource may hand out memory that it no longer has only if allocate() follows
\* release() of a monotonic_buffer_resource: buffer_ still points to the block.
MayBreak == r.stale

\* Where in a block from upstream its users' memory may be.
Inside(u, b) ==
  CASE r.kind = "monotonic" -> b[1] <= u[1] /\ u[1] + u[2] <= b[1] + b[2] - mono_info
    [] r.kind = "pools" -> \/ Direct(u[2], u[3]) /\ u = b
                           \/ ~Direct(u[2], u[3]) /\ b[1] <= u[1] /\ u[1] + u[2] <= b[1] + block_info_offset(b[2])
    [] OTHER -> b[1] + pool_base <= u[1] /\ u[1] + u[2] <= b[1] + b[2]
\* Users hold disjoint memory in blocks that are the resource's at the time, apart
\* from the block_infos and pool_bases it keeps there, aligned as they asked; but for
\* the two cases of the code that go wrong: allocate() after release(), and an
\* alignment that does not divide the size, which get_pool() does not look at.
MemorySound ==
  ~MayBreak =>
    /\ \A u, w \in r.users : u = w \/ ~Overlap(u[1], u[2], w[1], w[2])
    /\ \A u \in r.users :
         /\ \/ \E b \in r.up : Inside(u, b)
            \/ UserBuffer[1] <= u[1] /\ u[1] + u[2] <= UserBuffer[1] + UserBuffer[2]
         /\ u[1] % u[3] = 0 \/ (r.kind = "pools" /\ u[2] % u[3] # 0)

\* Upstream gets back what it gave, with the size and alignment that it was asked
\* for, all of it and nothing twice: "p shall have been returned by a prior call to
\* allocate(bytes, alignment)".
AllReturned == ~r.fault /\ (r.kind = "none" => r.up = {})

\* allocate() throws or returns memory, but for two cases: over-aligned memory from
\* a monotonic_buffer_resource, and arrays from a resource_pool, whose blocks may
\* be a chunk short.
Served ==
  call.name = "allocate" /\ call.ret = Null =>
    \/ r.exc
    \/ r.kind = "monotonic" /\ call.al > MaxAlign
    \/ r.kind = "pools" /\ ~Direct(call.bytes, call.al)
=============================================================================
