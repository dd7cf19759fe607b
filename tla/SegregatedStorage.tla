------------------------- MODULE SegregatedStorage -------------------------
(***************************************************************************)
(* simple_segregated_storage (simple_segregated_storage.hpp): a free list  *)
(* threaded through the memory that its user hands to it.  The list is     *)
(* modelled as the pointers that the code keeps: mem[a] is the pointer     *)
(* stored at address a, and address 0 stands for the member free_list_, so *)
(* that a "void_pointer &" of the code is a location of mem.  A null       *)
(* pointer is the value Null, and User is whatever the user of a           *)
(* handed-out chunk has written over it.                                   *)
(*                                                                         *)
(* The class has no synchronisation of its own: its users call it under    *)
(* their own mutex, and every call is one step here.                       *)
(***************************************************************************)
EXTENDS Integers, FiniteSets, FiniteSetsExt, FiniteSetTheorems, TLAPS

CONSTANTS
    PartitionSize,  \* partition_sz, the same in every call
    Blocks,         \* the blocks <<address, size>> its user may add
    MaxArray,       \* the longest array of chunks that is asked for
    Arrays,         \* do users call malloc_n, free_n and ordered_free_n?
    Unordered       \* do users call add_block, free and free_n?

VARIABLES
    mem,    \* the pointers in memory, free_list_ at location free_list
    added,  \* the blocks given to the storage so far
    held    \* the arrays <<address, chunks>> that users hold

vars == <<mem, added, held>>

Null == 0
User == -1
free_list == 0

Bytes(a, sz) == a .. (a + sz - 1)
Addresses == {free_list} \cup UNION {Bytes(b[1], b[2]) : b \in Blocks}

-----------------------------------------------------------------------------
(* The algorithms, on a memory m. *)

empty(m) == m[free_list] = Null

\* Mutant of LastChunk: the bound of the loop is the end of the block.
LastChunkTooFar(sz) == (sz - 1) \div PartitionSize

\* How many steps the loop of segregate() makes, and the chunks it steps through.
LastChunk(sz) ==
    IF sz = PartitionSize THEN 0 ELSE (sz - PartitionSize - 1) \div PartitionSize
Segregated(block, sz) == {block + PartitionSize * i : i \in 0 .. LastChunk(sz)}

\* segregate(): every chunk points to the next one, the last to end.
segregate(m, block, sz, end) ==
    LET chunks == Segregated(block, sz)
    IN  [a \in DOMAIN m |->
            IF a \notin chunks THEN m[a]
            ELSE IF a = block + PartitionSize * LastChunk(sz) THEN end
            ELSE a + PartitionSize]

\* The chunks along the list of m: Null from its end on, User where it leads into
\* memory that belongs to a user.
Positions == 0 .. Cardinality(Addresses) \div PartitionSize
Chain(m) ==
    LET at[k \in Positions] ==
            IF k = 0 THEN m[free_list]
            ELSE LET c == at[k - 1] IN IF c \in {Null, User} THEN c ELSE m[c]
    IN  [k \in Positions |-> at[k]]

\* The location of the pointer to chunk k of a list.
Location(list, k) == IF k = 0 THEN free_list ELSE list[k - 1]

\* Mutant of upper_bound: stops one chunk late.
UpperBoundLate(m, p) ==
    LET list == Chain(m)
        k == Min({j \in Positions : list[j] = Null \/ list[j + 1] > p})
    IN  Location(list, IF list[k] = Null \/ list[k + 1] = Null THEN k ELSE k + 2)

\* upper_bound(): the pointer before which a chunk at p is inserted.  The first
\* pointer compared is that of the first chunk, never free_list_ itself.
upper_bound(m, p) ==
    LET list == Chain(m)
        k == Min({j \in Positions : list[j] = Null \/ list[j + 1] > p})
    IN  Location(list, IF list[k] = Null THEN k ELSE k + 1)

add_block(m, block, sz) ==
    [segregate(m, block, sz, m[free_list]) EXCEPT ![free_list] = block]

add_ordered_block(m, block, sz) ==
    LET pos == upper_bound(m, block)
    IN  [segregate(m, block, sz, m[pos]) EXCEPT ![pos] = block]

\* Mutant of malloc: the head of the list stays where it was.
MallocKeepsHead(m) == [ret |-> m[free_list], mem |-> m]

malloc(m) == [ret |-> m[free_list],
              mem |-> [m EXCEPT ![free_list] = m[m[free_list]]]]

\* malloc_n(): the first n chunks in a row on the list that each have their
\* neighbour next on the list.
malloc_n(m, n) ==
    LET list == Chain(m)
        runs == {i \in Positions : \A j \in i .. i + n - 1 :
                    list[j] # Null /\ list[j + 1] - list[j] = PartitionSize}
        first == Min(runs)
    IN  IF runs = {} THEN [ret |-> Null, mem |-> m]
        ELSE [ret |-> list[first],
              mem |-> [m EXCEPT ![Location(list, first)] = list[first + n]]]

free(m, chunk) == [m EXCEPT ![chunk] = m[free_list], ![free_list] = chunk]

free_n(m, chunk, n) == add_block(m, chunk, PartitionSize * n)

\* Mutant of ordered_free: the chunk does not point to the rest of the list.
OrderedFreeCuts(m, chunk) ==
    LET pos == upper_bound(m, chunk)
    IN  [m EXCEPT ![chunk] = Null, ![pos] = chunk]

ordered_free(m, chunk) ==
    LET pos == upper_bound(m, chunk)
    IN  [m EXCEPT ![chunk] = m[pos], ![pos] = chunk]

ordered_free_n(m, chunk, n) == add_ordered_block(m, chunk, PartitionSize * n)

\* The user of n chunks at address p overwrites them.
Overwritten(m, p, n) ==
    [a \in DOMAIN m |-> IF a \in Bytes(p, PartitionSize * n) THEN User ELSE m[a]]

-----------------------------------------------------------------------------
(* The calls. *)

Init ==
    /\ mem = [a \in Addresses |-> IF a = free_list THEN Null ELSE User]
    /\ added = {}
    /\ held = {}

AddBlock(b) ==
    /\ b \notin added
    /\ added' = added \cup {b}
    /\ \/ Unordered /\ mem' = add_block(mem, b[1], b[2])
       \/ mem' = add_ordered_block(mem, b[1], b[2])
    /\ UNCHANGED held

\* r is what malloc or malloc_n returns.
HandOut(r, n) ==
    /\ r.ret # Null
    /\ mem' = Overwritten(r.mem, r.ret, n)
    /\ held' = held \cup {<<r.ret, n>>}
    /\ UNCHANGED added

Malloc == ~empty(mem) /\ HandOut(malloc(mem), 1)

MallocN(n) == Arrays /\ HandOut(malloc_n(mem, n), n)

GiveBack(h, m) == mem' = m /\ held' = held \ {h} /\ UNCHANGED added

Free(h) ==
    /\ h[2] = 1
    /\ \/ Unordered /\ GiveBack(h, free(mem, h[1]))
       \/ GiveBack(h, ordered_free(mem, h[1]))

FreeN(h) ==
    /\ Arrays
    /\ \/ Unordered /\ GiveBack(h, free_n(mem, h[1], h[2]))
       \/ GiveBack(h, ordered_free_n(mem, h[1], h[2]))

\* reset() forgets the list; its user takes the memory back.
Reset ==
    /\ added # {}
    /\ mem' = [a \in Addresses |-> IF a = free_list THEN Null ELSE User]
    /\ added' = {}
    /\ held' = {}

Next ==
    \/ \E b \in Blocks : AddBlock(b)
    \/ Reset
    \/ Malloc
    \/ \E n \in 1 .. MaxArray : MallocN(n)
    \/ \E h \in held : Free(h) \/ FreeN(h)

Spec == Init /\ [][Next]_vars

-----------------------------------------------------------------------------
(* Properties. *)

TypeOK ==
    /\ mem \in [Addresses -> Addresses \cup {User}]
    /\ added \subseteq Blocks
    /\ held \subseteq Addresses \X (1 .. MaxArray)

FreeList == Chain(mem)

FreeChunks == LET list == FreeList IN {list[k] : k \in Positions} \ {Null}

Owned == UNION {Bytes(b[1], b[2]) : b \in added}

ArrayBytes(h) == Bytes(h[1], PartitionSize * h[2])

\* The free list ends, never runs through a chunk that a user may write to, and
\* its chunks lie in the storage's blocks without overlapping: whatever the
\* order of malloc, malloc_n, free and free_n calls, every next_chunk() that
\* malloc() reads was written by the storage.
FreeListSound ==
    LET list == FreeList
        chunks == FreeChunks
    IN  /\ \E k \in Positions : list[k] = Null
        /\ \A c \in chunks :
              /\ c # User
              /\ Bytes(c, PartitionSize) \subseteq Owned
              /\ \A d \in chunks \ {c} :
                    Bytes(c, PartitionSize) \cap Bytes(d, PartitionSize) = {}
              /\ \A h \in held :
                    Bytes(c, PartitionSize) \cap ArrayBytes(h) = {}

\* What malloc() and malloc_n() hand out is the storage's own contiguous memory,
\* and no byte of it belongs to two users.
HeldDisjoint ==
    \A h \in held :
        /\ ArrayBytes(h) \subseteq Owned
        /\ \A g \in held \ {h} : ArrayBytes(h) \cap ArrayBytes(g) = {}

\* Every chunk that segregate() made is on the free list or in use ("Put an array
\* of n chunks back to the free list").
NothingLost ==
    LET chunks == FreeChunks
    IN  \A b \in added : \A c \in Segregated(b[1], b[2]) :
            c \in chunks \/ \E h \in held : c \in ArrayBytes(h)

\* Under the ordered operations alone, the list is in ascending order after its
\* first chunk: the order that malloc_n() relies on to find arrays.
TailOrdered ==
    LET list == FreeList
    IN  \A k \in Positions : k > 1 /\ list[k] # Null => list[k - 1] < list[k]

\* The free list of the storage stays apart from what users hold, and users get
\* memory of its blocks, no byte of it twice; the ordered operations keep the list in
\* order after its first chunk.
StorageSound == FreeListSound /\ HeldDisjoint /\ (~Unordered => TailOrdered)

-----------------------------------------------------------------------------
(* The proof of StorageSound for any blocks, chunk size and lengths of arrays.  *)
(* The invariant names the order of the chunks on the list, which no variable   *)
(* holds.                                                                       *)

\* What the preconditions of add_block() ask of the user: disjoint blocks, each with
\* room for a chunk.
BlocksAssumption ==
    /\ PartitionSize \in Nat \ {0} /\ MaxArray \in Nat \ {0}
    /\ Blocks \subseteq (Nat \ {0}) \X Nat /\ IsFiniteSet(Addresses)
    /\ \A b \in Blocks : b[2] >= PartitionSize
    /\ \A b, c \in Blocks : b # c => Bytes(b[1], b[2]) \cap Bytes(c[1], c[2]) = {}
    /\ Arrays \in BOOLEAN /\ Unordered \in BOOLEAN

Chunks == {a \in Addresses : a # Null /\ Bytes(a, PartitionSize) \subseteq Addresses}

\* The list of m is s[1], ..., s[n].
Linked(m, n, s) ==
    /\ m[free_list] = IF n = 0 THEN Null ELSE s[1]
    /\ \A i \in 1 .. n : m[s[i]] = IF i = n THEN Null ELSE s[i + 1]

\* No two of its chunks overlap.
Apart(n, s) ==
    \A i, j \in 1 .. n :
        i # j => Bytes(s[i], PartitionSize) \cap Bytes(s[j], PartitionSize) = {}

\* The location of the pointer after k chunks.
At(s, k) == IF k = 0 THEN free_list ELSE s[k]

\* Every set of naturals has a least element.
LEMMA Least ==
  ASSUME NEW T, T \subseteq Nat, T # {}
  PROVE  \E x \in T : \A y \in T : x <= y
<1> DEFINE R == OpToRel(<, Nat)
<1>1. IsWellFoundedOn(R, Nat)
  BY NatLessThanWellFounded, Zenon
<1>2. \A x, y \in Nat : y < x => <<y, x>> \in R
  BY DEF OpToRel
<1> HIDE DEF R
<1>3. PICK x \in T : \A y \in T : ~(<<y, x>> \in R)
  BY <1>1, WFMin, Zenon
<1>4. \A y \in T : x \in Nat /\ y \in Nat /\ ~(y < x)
  BY <1>2, <1>3, Zenon
<1> QED
  BY <1>4

LEMMA MinIs ==
  ASSUME NEW T, T \subseteq Nat, T # {}
  PROVE  Min(T) \in T /\ \A y \in T : Min(T) <= y
  BY Least, Zenon DEF Min

LEMMA AddressesAreNat == BlocksAssumption => Addresses \subseteq Nat
  BY DEF BlocksAssumption, Addresses, Bytes, free_list

LEMMA ChunksAreNat == BlocksAssumption => \A c \in Chunks : c \in Nat /\ c > 0 /\ c # Null /\ c # User
  BY AddressesAreNat DEF Chunks, Null, User

LEMMA FirstByte == BlocksAssumption => \A c \in Chunks : c \in Bytes(c, PartitionSize)
  BY ChunksAreNat DEF BlocksAssumption, Bytes

\* Chunks that do not overlap are different, and there are no more of them than the
\* walk along the list looks at.
LEMMA Different ==
  ASSUME BlocksAssumption, NEW n \in Nat, NEW s \in [1 .. n -> Chunks], Apart(n, s)
  PROVE  \A i, j \in 1 .. n : s[i] = s[j] => i = j
<1>1. \A i \in 1 .. n : s[i] \in Bytes(s[i], PartitionSize)
  BY AddressesAreNat DEF Chunks, Bytes, BlocksAssumption
<1> QED
  BY <1>1 DEF Apart

LEMMA Length ==
  ASSUME BlocksAssumption, NEW n \in Nat, NEW s \in [1 .. n -> Chunks], Apart(n, s)
  PROVE  \E last \in Nat : Positions = 0 .. last /\ n <= last
<1> DEFINE P == (1 .. n) \X (0 .. PartitionSize - 1)
           f == [x \in P |-> s[x[1]] + x[2]]
<1>0. Chunks \subseteq Nat
  BY AddressesAreNat DEF Chunks
<1>1. PartitionSize \in Nat /\ PartitionSize > 0 /\ Chunks \subseteq Nat
  BY <1>0 DEF BlocksAssumption
<1>2. ASSUME NEW x \in P PROVE f[x] \in Bytes(s[x[1]], PartitionSize) /\ x[1] \in 1 .. n
  <2>1. x[1] \in 1 .. n /\ x[2] \in 0 .. PartitionSize - 1 /\ f[x] = s[x[1]] + x[2]
    OBVIOUS
  <2>2. s[x[1]] \in Nat
    BY <1>1, <2>1, Zenon
  <2> HIDE DEF f
  <2> QED
    BY <1>1, <2>1, <2>2 DEF Bytes
<1>3. f \in [P -> Addresses]
  <2>1. ASSUME NEW x \in P PROVE f[x] \in Addresses
    <3> HIDE DEF f, P
    <3> QED
      BY <1>2 DEF Chunks
  <2> QED
    BY <2>1
<1>4. ASSUME NEW x \in P, NEW y \in P, f[x] = f[y] PROVE x = y
  <2>1. x[1] = y[1]
    BY <1>2, <1>4 DEF Apart
  <2>2. x[2] = y[2]
    <3>1. /\ x[1] \in 1 .. n /\ x[2] \in 0 .. PartitionSize - 1 /\ y[2] \in 0 .. PartitionSize - 1
          /\ f[x] = s[x[1]] + x[2] /\ f[y] = s[y[1]] + y[2]
      OBVIOUS
    <3>2. s[x[1]] \in Nat
      BY <1>1, <3>1, Zenon
    <3>3. s[x[1]] + x[2] = s[x[1]] + y[2]
      BY <1>4, <2>1, <3>1
    <3>4. x[2] \in Int /\ y[2] \in Int
      BY <1>1, <3>1
    <3> HIDE DEF f, P
    <3> QED
      BY <3>2, <3>3, <3>4
  <2> QED
    BY <2>1, <2>2
<1>5. f \in Injection(P, Addresses)
  BY <1>3, <1>4 DEF Injection, IsInjective
<1> HIDE DEF f
<1>6. Cardinality(P) <= Cardinality(Addresses) /\ Cardinality(Addresses) \in Nat
  BY <1>5, FS_Injection, FS_CardinalityType DEF BlocksAssumption
<1>7. /\ IsFiniteSet(1 .. n) /\ Cardinality(1 .. n) = n
      /\ IsFiniteSet(0 .. PartitionSize - 1) /\ Cardinality(0 .. PartitionSize - 1) = PartitionSize
  <2>1. PartitionSize - 1 \in Int /\ ~(0 > PartitionSize - 1) /\ (PartitionSize - 1) - 0 + 1 = PartitionSize
    BY <1>1
  <2>2. ~(1 > n) => n - 1 + 1 = n
    OBVIOUS
  <2>3. 1 > n => n = 0
    OBVIOUS
  <2> QED
    BY <2>1, <2>2, <2>3, FS_Interval
<1>8. Cardinality(P) = n * PartitionSize
  <2>1. Cardinality(P) = Cardinality(1 .. n) * Cardinality(0 .. PartitionSize - 1)
    BY <1>7, FS_Product, Zenon
  <2> QED
    BY <1>7, <2>1
<1>9. n * PartitionSize <= Cardinality(Addresses)
  BY <1>6, <1>8
<1>10. n <= Cardinality(Addresses) \div PartitionSize
  <2>1. ASSUME NEW x \in Nat, n * PartitionSize <= x PROVE n <= x \div PartitionSize
    BY <1>1, <2>1
  <2> QED
    BY <1>6, <1>9, <2>1
<1>11. Cardinality(Addresses) \div PartitionSize \in Nat
  BY <1>1, <1>6
<1> QED
  BY <1>10, <1>11 DEF Positions

\* What the walk along a list meets.
LEMMA ChainIs ==
  ASSUME BlocksAssumption, NEW m, NEW n \in Nat, NEW s \in [1 .. n -> Chunks],
         Linked(m, n, s), Apart(n, s)
  PROVE  Chain(m) = [k \in Positions |-> IF k < n THEN s[k + 1] ELSE Null]
<1> DEFINE G == [k \in Positions |-> IF k < n THEN s[k + 1] ELSE Null]
           Step(g) == [k \in Positions |->
                          IF k = 0 THEN m[free_list]
                          ELSE IF g[k - 1] \in {Null, User} THEN g[k - 1] ELSE m[g[k - 1]]]
           at == CHOOSE g : g = Step(g)
<1>0. PICK last \in Nat : Positions = 0 .. last /\ n <= last
  BY Length
<1>1. /\ n \in Positions /\ Positions \subseteq Nat
      /\ \A k \in Positions : k # 0 => k - 1 \in Positions /\ k - 1 < k
  BY <1>0
<1>2. \A i \in 1 .. n : s[i] \notin {Null, User}
  BY ChunksAreNat
<1>3. G = Step(G)
  <2>1. ASSUME NEW k \in Positions PROVE G[k] = Step(G)[k]
    <3>1. CASE k = 0
      BY <1>1, <3>1 DEF Linked
    <3>2. CASE k # 0
      BY <1>1, <1>2, <3>2 DEF Linked
    <3> QED
      BY <3>1, <3>2
  <2> QED
    BY <2>1
<1>4. at = Step(at)
  BY <1>3, Zenon
<1>5. Chain(m) = [k \in Positions |-> at[k]]
  BY DEF Chain
<1> HIDE DEF at
<1>6. ASSUME NEW k \in Positions, \A j \in Positions : j < k => at[j] = G[j]
      PROVE  at[k] = G[k]
  <2>1. at[k] = Step(at)[k] /\ G[k] = Step(G)[k]
    BY <1>3, <1>4, Zenon
  <2>2. k # 0 => at[k - 1] = G[k - 1]
    BY <1>1, <1>6
  <2> HIDE DEF G
  <2> QED
    BY <2>1, <2>2
<1>7. \A k \in Positions : at[k] = G[k]
  <2> DEFINE Bad == {k \in Positions : at[k] # G[k]}
  <2>1. CASE Bad # {}
    <3>1. Bad \subseteq Nat
      BY <1>1, Zenon
    <3>2. PICK k \in Bad : \A j \in Bad : k <= j
      BY <2>1, <3>1, Least, Zenon
    <3>3. \A j \in Positions : j < k => at[j] = G[j]
      BY <1>1, <3>2
    <3> QED
      BY <1>6, <3>3
  <2> QED
    BY <2>1
<1> QED
  BY <1>5, <1>7

\* upper_bound() returns the pointer after the first k chunks: those from the second on
\* lie at or below p, and the next one above.
Fits(n, s, k, p) ==
    /\ \A i \in 2 .. k : s[i] <= p
    /\ k < n => s[k + 1] > p
    /\ k = 0 => n = 0

LEMMA UpperBoundIs ==
  ASSUME BlocksAssumption, NEW m, NEW n \in Nat, NEW s \in [1 .. n -> Chunks],
         Linked(m, n, s), Apart(n, s), NEW p \in Nat
  PROVE  \E k \in 0 .. n : upper_bound(m, p) = At(s, k) /\ Fits(n, s, k, p)
<1>0. SUFFICES \E k \in 0 .. n : /\ upper_bound(m, p) = At(s, k)
                                 /\ \A i \in 2 .. k : s[i] <= p
                                 /\ k < n => s[k + 1] > p
                                 /\ k = 0 => n = 0
  BY DEF Fits
<1> DEFINE list == Chain(m)
           stops == {j \in Positions : list[j] = Null \/ list[j + 1] > p}
           q == Min(stops)
<1>1. PICK last \in Nat : Positions = 0 .. last /\ n <= last
  BY Length
<1>2. /\ \A k \in 0 .. n - 1 : list[k] = s[k + 1] /\ s[k + 1] # Null /\ s[k + 1] \in Nat
      /\ list[n] = Null
  <2>1. list = [k \in Positions |-> IF k < n THEN s[k + 1] ELSE Null]
    BY ChainIs
  <2>2. \A i \in 1 .. n : s[i] # Null /\ s[i] \in Nat
    BY ChunksAreNat
  <2> HIDE DEF list
  <2> QED
    BY <1>1, <2>1, <2>2
<1>3. upper_bound(m, p) = Location(list, IF list[q] = Null THEN q ELSE q + 1)
  BY DEF upper_bound
<1> HIDE DEF list
<1>4. n \in stops /\ stops \subseteq Nat
  BY <1>1, <1>2
<1>5. q \in stops /\ \A y \in stops : q <= y
  BY <1>4, MinIs, Zenon
<1> HIDE DEF q
<1>6. q \in 0 .. n /\ \A j \in 0 .. q - 1 : ~(list[j + 1] > p)
  <2>1. q \in 0 .. n
    BY <1>1, <1>4, <1>5
  <2>2. \A j \in 0 .. q - 1 : j \in Positions /\ ~(q <= j)
    BY <1>1, <2>1
  <2> QED
    BY <1>5, <2>1, <2>2, Zenon
<1>7. ASSUME NEW j \in 0 .. q - 1, j + 1 < n PROVE s[j + 2] <= p
  <2>1. j + 1 \in 0 .. n - 1 /\ (j + 1) + 1 = j + 2
    BY <1>6, <1>7
  <2>2. list[j + 1] = s[j + 2] /\ s[j + 2] \in Nat
    BY <1>2, <2>1
  <2> QED
    BY <1>6, <2>2
<1>8. CASE q = n
  <2>1. upper_bound(m, p) = At(s, n)
    BY <1>2, <1>3, <1>8 DEF Location, At
  <2>2. \A i \in 2 .. n : s[i] <= p
    <3>1. \A i \in 2 .. n : i - 2 \in 0 .. q - 1 /\ (i - 2) + 1 < n /\ (i - 2) + 2 = i
      BY <1>8
    <3> QED
      BY <1>7, <3>1, Zenon
  <2> QED
    BY <2>1, <2>2
<1>9. CASE q # n
  <2>1. q \in 0 .. n - 1 /\ q + 1 \in 1 .. n
    BY <1>6, <1>9
  <2>2. upper_bound(m, p) = At(s, q + 1) /\ list[q + 1] > p
    BY <1>2, <1>3, <1>5, <2>1 DEF Location, At
  <2>3. q + 1 < n /\ s[(q + 1) + 1] > p
    <3>1. q + 1 # n
      BY <1>2, <2>2 DEF Null
    <3>2. q + 1 \in 0 .. n - 1
      BY <2>1, <3>1
    <3> QED
      BY <1>2, <2>2, <3>2
  <2>4. \A i \in 2 .. q + 1 : s[i] <= p
    <3>1. \A i \in 2 .. q + 1 : i - 2 \in 0 .. q - 1 /\ (i - 2) + 1 < n /\ (i - 2) + 2 = i
      BY <2>1, <2>3
    <3> QED
      BY <1>7, <3>1
  <2> QED
    BY <2>1, <2>2, <2>3, <2>4
<1> QED
  BY <1>8, <1>9

\* The list s[1..n] with the chunks r[1..x] put in after the first k.
PutIn(n, s, k, x, r) ==
    [i \in 1 .. n + x |-> IF i <= k THEN s[i] ELSE IF i <= k + x THEN r[i - k] ELSE s[i - x]]

\* ... and with the x chunks after the first k taken out.
TakeOut(n, s, k, x) == [i \in 1 .. n - x |-> IF i <= k THEN s[i] ELSE s[i + x]]

\* Where its chunks come from.
LEMMA PutInIs ==
  ASSUME NEW n \in Nat, NEW s, NEW k \in 0 .. n, NEW x \in Nat \ {0}, NEW r,
         NEW t, t = PutIn(n, s, k, x, r)
  PROVE  \A i \in 1 .. n + x :
            \/ i <= k /\ i \in 1 .. n /\ t[i] = s[i]
            \/ i > k /\ i <= k + x /\ i - k \in 1 .. x /\ t[i] = r[i - k]
            \/ i > k + x /\ i - x \in 1 .. n /\ t[i] = s[i - x]
  BY DEF PutIn

\* The pointers that make the new list.
LEMMA PutInLinked ==
  ASSUME NEW n \in Nat, NEW s, NEW k \in 0 .. n, NEW x \in Nat \ {0}, NEW r,
         NEW m, Linked(m, n, s), NEW m2,
         m2[At(s, k)] = r[1],
         \A i \in 1 .. x : m2[r[i]] = IF i = x THEN m[At(s, k)] ELSE r[i + 1],
         \A j \in 0 .. n : j # k => m2[At(s, j)] = m[At(s, j)],
         NEW t, t = PutIn(n, s, k, x, r)
  PROVE  Linked(m2, n + x, t)
<1>1. \A i \in 1 .. n + x :
         \/ i <= k /\ i \in 1 .. n /\ t[i] = s[i]
         \/ i > k /\ i <= k + x /\ i - k \in 1 .. x /\ t[i] = r[i - k]
         \/ i > k + x /\ i - x \in 1 .. n /\ t[i] = s[i - x]
  BY PutInIs
<1>2. /\ m[free_list] = IF n = 0 THEN Null ELSE s[1]
      /\ \A i \in 1 .. n : m[s[i]] = IF i = n THEN Null ELSE s[i + 1]
  BY DEF Linked
<1>3. m2[free_list] = t[1]
  <2>1. CASE k = 0
    BY <1>1, <2>1 DEF At
  <2>2. CASE k # 0
    BY <1>1, <1>2, <2>2 DEF At
  <2> QED
    BY <2>1, <2>2
<1>4. m[At(s, k)] = IF k = n THEN Null ELSE s[k + 1]
  BY <1>2 DEF At
<1>5. ASSUME NEW i \in 1 .. n + x
      PROVE  m2[t[i]] = IF i = n + x THEN Null ELSE t[i + 1]
  <2>1. CASE i < k
    <3>1. t[i] = s[i] /\ t[i + 1] = s[i + 1] /\ i \in 1 .. n /\ i # n /\ i # n + x
      BY <1>1, <2>1
    <3>2. m2[s[i]] = m[s[i]]
      BY <2>1, <3>1 DEF At
    <3> QED
      BY <1>2, <3>1, <3>2
  <2>2. CASE i = k
    <3>1. t[i] = s[i] /\ t[i + 1] = r[1] /\ i # n + x
      BY <1>1, <2>2
    <3> QED
      BY <2>2, <3>1 DEF At
  <2>3. CASE i > k /\ i < k + x
    <3>1. /\ t[i] = r[i - k] /\ t[i + 1] = r[(i - k) + 1] /\ i # n + x
          /\ i - k \in 1 .. x /\ i - k # x
      BY <1>1, <2>3
    <3> QED
      BY <3>1
  <2>4. CASE i = k + x
    <3>1. t[i] = r[x] /\ x \in 1 .. x /\ (i = n + x <=> k = n) /\ (i # n + x => t[i + 1] = s[k + 1])
      BY <1>1, <2>4
    <3> QED
      BY <1>4, <3>1
  <2>5. CASE i > k + x
    <3>1. /\ i - x \in 1 .. n /\ i - x # k /\ t[i] = s[i - x]
          /\ i = n + x <=> i - x = n
          /\ i # n + x => t[i + 1] = s[(i - x) + 1]
      <4>1. (i + 1) - x = (i - x) + 1
        OBVIOUS
      <4> QED
        BY <1>1, <2>5, <4>1
    <3>2. m2[s[i - x]] = m[s[i - x]]
      BY <3>1 DEF At
    <3> QED
      BY <1>2, <3>1, <3>2
  <2> QED
    BY <2>1, <2>2, <2>3, <2>4, <2>5
<1>6. n + x # 0
  OBVIOUS
<1> QED
  BY <1>3, <1>5, <1>6 DEF Linked

LEMMA TakeOutLinked ==
  ASSUME NEW n \in Nat, NEW s, NEW k \in 0 .. n, NEW x \in Nat \ {0}, k + x <= n,
         NEW m, Linked(m, n, s), NEW m2,
         m2[At(s, k)] = m[s[k + x]],
         \A j \in 0 .. n : (j < k \/ j > k + x) => m2[At(s, j)] = m[At(s, j)],
         NEW t, t = TakeOut(n, s, k, x)
  PROVE  Linked(m2, n - x, t)
<1>1. \A i \in 1 .. n - x :
         \/ i <= k /\ i \in 1 .. n /\ t[i] = s[i]
         \/ i > k /\ i + x \in 1 .. n /\ t[i] = s[i + x]
  BY DEF TakeOut
<1>2. /\ m[free_list] = IF n = 0 THEN Null ELSE s[1]
      /\ \A i \in 1 .. n : m[s[i]] = IF i = n THEN Null ELSE s[i + 1]
  BY DEF Linked
<1>3. m[s[k + x]] = IF k + x = n THEN Null ELSE s[(k + x) + 1]
  BY <1>2
<1>4. m2[free_list] = IF n - x = 0 THEN Null ELSE t[1]
  <2>1. CASE k = 0
    BY <1>1, <1>3, <2>1 DEF At
  <2>2. CASE k # 0
    BY <1>1, <1>2, <2>2 DEF At
  <2> QED
    BY <2>1, <2>2
<1>5. ASSUME NEW i \in 1 .. n - x
      PROVE  m2[t[i]] = IF i = n - x THEN Null ELSE t[i + 1]
  <2>1. CASE i < k
    <3>1. t[i] = s[i] /\ t[i + 1] = s[i + 1] /\ i \in 1 .. n /\ i # n /\ i # n - x
      BY <1>1, <2>1
    <3>2. m2[s[i]] = m[s[i]]
      BY <2>1, <3>1 DEF At
    <3> QED
      BY <1>2, <3>1, <3>2
  <2>2. CASE i = k
    <3>1. /\ t[i] = s[i] /\ (i = n - x <=> k + x = n)
          /\ i # n - x => t[i + 1] = s[(k + x) + 1]
      BY <1>1, <2>2
    <3> QED
      BY <1>3, <2>2, <3>1 DEF At
  <2>3. CASE i > k
    <3>1. /\ i + x \in 1 .. n /\ i + x > k + x /\ t[i] = s[i + x]
          /\ i = n - x <=> i + x = n
          /\ i # n - x => t[i + 1] = s[(i + x) + 1]
      BY <1>1, <2>3
    <3>2. m2[s[i + x]] = m[s[i + x]]
      BY <3>1 DEF At
    <3> QED
      BY <1>2, <3>1, <3>2
  <2> QED
    BY <2>1, <2>2, <2>3
<1> QED
  BY <1>4, <1>5 DEF Linked

\* The chunks of an array of x chunks at c.
Run(c, x) == [i \in 1 .. x |-> c + PartitionSize * (i - 1)]

LEMMA RunIs ==
  ASSUME BlocksAssumption, NEW c \in Nat \ {0}, NEW x \in Nat,
         Bytes(c, PartitionSize * x) \subseteq Addresses
  PROVE  /\ Run(c, x) \in [1 .. x -> Chunks]
         /\ Apart(x, Run(c, x))
         /\ \A i \in 1 .. x : Bytes(Run(c, x)[i], PartitionSize) \subseteq Bytes(c, PartitionSize * x)
<1>1. PartitionSize \in Nat /\ PartitionSize > 0
  BY DEF BlocksAssumption
<1>2. ASSUME NEW i \in 1 .. x
      PROVE  /\ PartitionSize * (i - 1) \in Nat
             /\ PartitionSize * (i - 1) + PartitionSize <= PartitionSize * x
  BY <1>1
<1>3. ASSUME NEW i \in 1 .. x, NEW j \in 1 .. x, i < j
      PROVE  PartitionSize * (i - 1) + PartitionSize <= PartitionSize * (j - 1)
  BY <1>1, <1>3
<1>4. \A i \in 1 .. x : Run(c, x)[i] = c + PartitionSize * (i - 1)
  BY DEF Run
<1>5. ASSUME NEW i \in 1 .. x
      PROVE  /\ Bytes(Run(c, x)[i], PartitionSize) \subseteq Bytes(c, PartitionSize * x)
             /\ Run(c, x)[i] \in Chunks
  <2>1. Run(c, x)[i] = c + PartitionSize * (i - 1) /\ PartitionSize * x \in Nat
    BY <1>1, <1>4
  <2>2. Bytes(Run(c, x)[i], PartitionSize) \subseteq Bytes(c, PartitionSize * x)
    BY <1>1, <1>2, <2>1 DEF Bytes
  <2>3. Run(c, x)[i] \in Bytes(Run(c, x)[i], PartitionSize) /\ Run(c, x)[i] # Null
    BY <1>1, <1>2, <2>1 DEF Bytes, Null
  <2> QED
    BY <2>2, <2>3 DEF Chunks
<1>6. ASSUME NEW i \in 1 .. x, NEW j \in 1 .. x, i < j
      PROVE  Bytes(Run(c, x)[i], PartitionSize) \cap Bytes(Run(c, x)[j], PartitionSize) = {}
  <2>1. Run(c, x)[i] + PartitionSize <= Run(c, x)[j] /\ Run(c, x)[i] \in Nat /\ Run(c, x)[j] \in Nat
    BY <1>1, <1>2, <1>3, <1>4, <1>6
  <2> QED
    BY <1>1, <2>1 DEF Bytes
<1>7. ASSUME NEW i \in 1 .. x, NEW j \in 1 .. x, i # j
      PROVE  Bytes(Run(c, x)[i], PartitionSize) \cap Bytes(Run(c, x)[j], PartitionSize) = {}
  <2>1. i < j \/ j < i
    BY <1>7
  <2> QED
    BY <1>6, <2>1
<1>8. Run(c, x) \in [1 .. x -> Chunks]
  BY <1>4, <1>5 DEF Run
<1> QED
  BY <1>5, <1>7, <1>8 DEF Apart

\* Every byte of an array lies in one of its chunks.
LEMMA RunCovers ==
  ASSUME BlocksAssumption, NEW c \in Nat, NEW x \in Nat, NEW y \in Bytes(c, PartitionSize * x)
  PROVE  \E i \in 1 .. x : y \in Bytes(c + PartitionSize * (i - 1), PartitionSize)
<1>1. PartitionSize \in Nat /\ PartitionSize > 0
  BY DEF BlocksAssumption
<1> DEFINE d == y - c
           q == d \div PartitionSize
<1>2. d \in Nat /\ d < PartitionSize * x /\ y = c + d
  BY <1>1 DEF Bytes
<1> HIDE DEF d
<1>3. q \in Nat /\ PartitionSize * q <= d /\ d < PartitionSize * q + PartitionSize
  BY <1>1, <1>2
<1> HIDE DEF q
<1>4. q < x
  <2>1. PartitionSize * q < PartitionSize * x
    BY <1>1, <1>2, <1>3
  <2> QED
    BY <1>1, <1>3, <2>1
<1>5. q + 1 \in 1 .. x /\ (q + 1) - 1 = q
  BY <1>3, <1>4
<1>6. y \in Bytes(c + PartitionSize * q, PartitionSize)
  BY <1>1, <1>2, <1>3 DEF Bytes
<1> QED
  BY <1>5, <1>6

\* m2 is m with the x chunks at c put before what the pointer at pos points to.
Inserts(m, m2, pos, c, x) ==
    /\ m2 \in [Addresses -> Addresses \cup {User}]
    /\ m2[pos] = c
    /\ \A i \in 1 .. x : m2[Run(c, x)[i]] = IF i = x THEN m[pos] ELSE Run(c, x)[i + 1]
    /\ \A a \in Addresses : a # pos /\ (\A i \in 1 .. x : a # Run(c, x)[i]) => m2[a] = m[a]

\* free() and ordered_free() do this with one chunk ...
LEMMA FreeInserts ==
  ASSUME BlocksAssumption, NEW m \in [Addresses -> Addresses \cup {User}],
         NEW pos \in Addresses, NEW c \in Addresses, c # pos
  PROVE  Inserts(m, [m EXCEPT ![c] = m[pos], ![pos] = c], pos, c, 1)
<1>1. c \in Nat /\ PartitionSize \in Nat
  BY AddressesAreNat DEF BlocksAssumption
<1>2. Run(c, 1) = [i \in 1 .. 1 |-> c]
  BY <1>1 DEF Run
<1> QED
  BY <1>2 DEF Inserts

\* ... and segregate() with as many as its loop steps through.
LEMMA SegregateInserts ==
  ASSUME BlocksAssumption, NEW m \in [Addresses -> Addresses \cup {User}],
         NEW pos \in Addresses, NEW c \in Nat \ {0}, NEW sz \in Nat, sz >= PartitionSize,
         Bytes(c, sz) \subseteq Addresses, pos \notin Bytes(c, sz)
  PROVE  /\ LastChunk(sz) + 1 \in Nat \ {0}
         /\ Bytes(c, PartitionSize * (LastChunk(sz) + 1)) \subseteq Bytes(c, sz)
         /\ Inserts(m, [segregate(m, c, sz, m[pos]) EXCEPT ![pos] = c], pos, c, LastChunk(sz) + 1)
<1> DEFINE l == LastChunk(sz)
           x == l + 1
           g == segregate(m, c, sz, m[pos])
           m2 == [g EXCEPT ![pos] = c]
<1>1. PartitionSize \in Nat /\ PartitionSize > 0
  BY DEF BlocksAssumption
<1>2. l \in Nat /\ PartitionSize * l + PartitionSize <= sz
  <2>1. CASE sz = PartitionSize
    BY <1>1, <2>1 DEF LastChunk
  <2>2. CASE sz # PartitionSize
    <3> DEFINE y == sz - PartitionSize - 1
    <3>1. y \in Nat /\ l = y \div PartitionSize
      BY <1>1, <2>2 DEF LastChunk
    <3> HIDE DEF y, l
    <3>2. y \div PartitionSize \in Nat /\ PartitionSize * (y \div PartitionSize) <= y
      BY <1>1, <3>1
    <3> QED
      BY <1>1, <3>1, <3>2 DEF y
  <2> QED
    BY <2>1, <2>2
<1> HIDE DEF l
<1>3. x \in Nat \ {0} /\ PartitionSize * x = PartitionSize * l + PartitionSize
  BY <1>1, <1>2
<1>4. Bytes(c, PartitionSize * x) \subseteq Bytes(c, sz)
  BY <1>1, <1>2, <1>3 DEF Bytes
<1>5. /\ Run(c, x) \in [1 .. x -> Chunks]
      /\ \A i \in 1 .. x : Run(c, x)[i] \in Bytes(c, sz)
      /\ \A i \in 1 .. x : Run(c, x)[i] = c + PartitionSize * (i - 1)
      /\ \A i, j \in 1 .. x : Run(c, x)[i] = Run(c, x)[j] => i = j
  <2>1. Bytes(c, PartitionSize * x) \subseteq Addresses
    BY <1>4
  <2>2. /\ Run(c, x) \in [1 .. x -> Chunks] /\ Apart(x, Run(c, x))
        /\ \A i \in 1 .. x : Bytes(Run(c, x)[i], PartitionSize) \subseteq Bytes(c, PartitionSize * x)
    BY <1>3, <2>1, RunIs
  <2>3. \A i \in 1 .. x : Run(c, x)[i] \in Bytes(Run(c, x)[i], PartitionSize)
    BY <2>2, FirstByte, Zenon
  <2>4. \A i, j \in 1 .. x : Run(c, x)[i] = Run(c, x)[j] => i = j
    BY <1>3, <2>2, Different
  <2>5. \A i \in 1 .. x : Run(c, x)[i] = c + PartitionSize * (i - 1)
    BY DEF Run
  <2> QED
    BY <1>4, <2>2, <2>3, <2>4, <2>5
<1>6. Segregated(c, sz) = {Run(c, x)[i] : i \in 1 .. x}
  <2>1. \A i \in 0 .. l : i + 1 \in 1 .. x /\ (i + 1) - 1 = i
    BY <1>2
  <2>2. \A i \in 1 .. x : i - 1 \in 0 .. l
    BY <1>2
  <2>3. Segregated(c, sz) = {c + PartitionSize * i : i \in 0 .. l}
    BY DEF Segregated, l
  <2>4. ASSUME NEW i \in 0 .. l PROVE c + PartitionSize * i \in {Run(c, x)[j] : j \in 1 .. x}
    <3>1. Run(c, x)[i + 1] = c + PartitionSize * i
      BY <1>5, <2>1
    <3> QED
      BY <2>1, <3>1
  <2>5. ASSUME NEW j \in 1 .. x PROVE Run(c, x)[j] \in {c + PartitionSize * i : i \in 0 .. l}
    <3>1. j - 1 \in 0 .. l /\ Run(c, x)[j] = c + PartitionSize * (j - 1)
      BY <1>5, <2>2, Zenon
    <3> QED
      BY <3>1, Zenon
  <2>6. {c + PartitionSize * i : i \in 0 .. l} \subseteq {Run(c, x)[j] : j \in 1 .. x}
    BY <2>4, Zenon
  <2>7. {Run(c, x)[j] : j \in 1 .. x} \subseteq {c + PartitionSize * i : i \in 0 .. l}
    BY <2>5, Zenon
  <2> QED
    BY <2>3, <2>6, <2>7, Zenon
<1>7. /\ \A a \in Addresses \ Segregated(c, sz) : g[a] = m[a]
      /\ \A a \in Segregated(c, sz) : a \in Addresses =>
            g[a] = IF a = c + PartitionSize * l THEN m[pos] ELSE a + PartitionSize
      /\ g = [a \in Addresses |-> g[a]]
  BY DEF segregate, l
<1>8. ASSUME NEW i \in 1 .. x
      PROVE  /\ Run(c, x)[i] \in Addresses /\ Run(c, x)[i] # pos
             /\ g[Run(c, x)[i]] = IF i = x THEN m[pos] ELSE Run(c, x)[i + 1]
  <2>1. Run(c, x)[i] \in Addresses /\ Run(c, x)[i] # pos /\ Run(c, x)[i] \in Segregated(c, sz)
    BY <1>5, <1>6
  <2>2. x \in 1 .. x /\ Run(c, x)[x] = c + PartitionSize * l
    <3>1. x \in 1 .. x /\ x - 1 = l
      BY <1>2
    <3> QED
      BY <1>5, <3>1
  <2>3. i # x => Run(c, x)[i] + PartitionSize = Run(c, x)[i + 1]
    <3>1. i # x => i + 1 \in 1 .. x /\ (i + 1) - 1 = i
      BY <1>2
    <3>2. PartitionSize * (i - 1) + PartitionSize = PartitionSize * i /\ PartitionSize * (i - 1) \in Nat
      BY <1>1
    <3> QED
      BY <1>1, <1>5, <3>1, <3>2
  <2>4. Run(c, x)[i] = c + PartitionSize * l <=> i = x
    BY <1>5, <2>2
  <2> HIDE DEF g
  <2> QED
    BY <1>7, <2>1, <2>3, <2>4
<1> HIDE DEF g
<1>9. \A i \in 1 .. x : Run(c, x)[i] \in Addresses \cup {User}
  BY <1>8
<1>10. \A a \in Addresses : g[a] \in Addresses \cup {User}
  <2>1. ASSUME NEW a \in Segregated(c, sz) PROVE g[a] \in Addresses \cup {User}
    <3>1. PICK i \in 1 .. x : a = Run(c, x)[i]
      BY <1>6
    <3>2. i # x => i + 1 \in 1 .. x
      BY <1>2
    <3> QED
      BY <1>8, <1>9, <3>1, <3>2
  <2> QED
    BY <1>7, <2>1
<1>11. c \in Addresses
  BY <1>1 DEF Bytes
<1>12. m2 \in [Addresses -> Addresses \cup {User}] /\ m2[pos] = c
  BY <1>7, <1>10, <1>11
<1>13. \A a \in Addresses : a # pos => m2[a] = g[a]
  BY <1>7
<1> HIDE DEF m2
<1>14. \A i \in 1 .. x : m2[Run(c, x)[i]] = IF i = x THEN m[pos] ELSE Run(c, x)[i + 1]
  BY <1>8, <1>13
<1>15. ASSUME NEW a \in Addresses, a # pos, \A i \in 1 .. x : a # Run(c, x)[i]
       PROVE  m2[a] = m[a]
  BY <1>6, <1>7, <1>13, <1>15
<1>16. Inserts(m, m2, pos, c, x)
  BY <1>12, <1>14, <1>15 DEF Inserts
<1> QED
  BY <1>3, <1>4, <1>16 DEF m2, g, l

\* Every chunk of t[1..nt] is one of s[1..n] or lies in region.
ComesFrom(nt, t, n, s, region) ==
    \A i \in 1 .. nt : (\E j \in 1 .. n : t[i] = s[j]) \/ Bytes(t[i], PartitionSize) \subseteq region

\* Insertion keeps the list sound: its chunks are the old ones and those inserted.
LEMMA InsertKeeps ==
  ASSUME BlocksAssumption, NEW m, NEW n \in Nat, NEW s \in [1 .. n -> Chunks],
         Linked(m, n, s), Apart(n, s), NEW k \in 0 .. n,
         NEW c \in Nat \ {0}, NEW x \in Nat \ {0},
         Bytes(c, PartitionSize * x) \subseteq Addresses,
         \A i \in 1 .. n : Bytes(s[i], PartitionSize) \cap Bytes(c, PartitionSize * x) = {},
         NEW m2, Inserts(m, m2, At(s, k), c, x),
         NEW t, t = PutIn(n, s, k, x, Run(c, x))
  PROVE  /\ n + x \in Nat /\ t \in [1 .. n + x -> Chunks]
         /\ Linked(m2, n + x, t) /\ Apart(n + x, t)
         /\ ComesFrom(n + x, t, n, s, Bytes(c, PartitionSize * x))
<1> DEFINE r == Run(c, x)
<1>1. /\ r \in [1 .. x -> Chunks] /\ Apart(x, r)
      /\ \A i \in 1 .. x : Bytes(r[i], PartitionSize) \subseteq Bytes(c, PartitionSize * x)
  BY RunIs
<1>2. r[1] = c /\ 1 \in 1 .. x
  <2>1. 1 \in 1 .. x /\ PartitionSize * (1 - 1) = 0 /\ c + 0 = c
    BY DEF BlocksAssumption
  <2> QED
    BY <2>1 DEF Run
<1>3. /\ m2[At(s, k)] = c
      /\ \A i \in 1 .. x : m2[r[i]] = IF i = x THEN m[At(s, k)] ELSE r[i + 1]
      /\ \A a \in Addresses : a # At(s, k) /\ (\A i \in 1 .. x : a # r[i]) => m2[a] = m[a]
  BY DEF Inserts
<1>4. t = PutIn(n, s, k, x, r)
  OBVIOUS
<1> HIDE DEF r
<1>5. \A i \in 1 .. n, j \in 1 .. x : s[i] # r[j]
  <2>1. \A i \in 1 .. n : s[i] \in Bytes(s[i], PartitionSize)
    BY FirstByte
  <2>2. \A j \in 1 .. x : r[j] \in Bytes(c, PartitionSize * x)
    BY <1>1, FirstByte
  <2> QED
    BY <2>1, <2>2
<1>6. ASSUME NEW j \in 0 .. n, j # k PROVE m2[At(s, j)] = m[At(s, j)]
  <2>1. \A i \in 1 .. n : s[i] \in Addresses /\ s[i] # free_list
    BY DEF Chunks, Null, free_list
  <2>2. \A i \in 1 .. x : r[i] # free_list
    BY <1>1 DEF Chunks, Null, free_list
  <2>3. free_list \in Addresses
    BY DEF Addresses
  <2>4. \A i \in 0 .. n : i # 0 => i \in 1 .. n
    OBVIOUS
  <2>5. At(s, j) \in Addresses /\ \A i \in 1 .. x : At(s, j) # r[i]
    BY <1>5, <2>1, <2>2, <2>3, <2>4 DEF At
  <2>6. At(s, j) # At(s, k)
    <3>1. \A a, b \in 1 .. n : s[a] = s[b] => a = b
      BY Different
    <3> QED
      BY <1>6, <2>1, <2>4, <3>1 DEF At
  <2> QED
    BY <1>3, <2>5, <2>6
<1>7. Linked(m2, n + x, t)
  <2>1. m2[At(s, k)] = r[1]
    BY <1>2, <1>3
  <2>2. \A i \in 1 .. x : m2[r[i]] = IF i = x THEN m[At(s, k)] ELSE r[i + 1]
    BY <1>3
  <2>3. \A j \in 0 .. n : j # k => m2[At(s, j)] = m[At(s, j)]
    BY <1>6
  <2> QED
    BY <1>4, <2>1, <2>2, <2>3, PutInLinked, Zenon
<1>8. \A i \in 1 .. n + x :
         \/ i <= k /\ i \in 1 .. n /\ t[i] = s[i]
         \/ i > k /\ i <= k + x /\ i - k \in 1 .. x /\ t[i] = r[i - k]
         \/ i > k + x /\ i - x \in 1 .. n /\ t[i] = s[i - x]
  BY <1>4, PutInIs
<1>9. t \in [1 .. n + x -> Chunks]
  <2>1. \A i \in 1 .. n + x : t[i] \in Chunks
    BY <1>1, <1>8
  <2>2. t = [i \in 1 .. n + x |-> t[i]]
    BY <1>4 DEF PutIn
  <2> QED
    BY <2>1, <2>2
<1>10. ASSUME NEW i \in 1 .. n + x, NEW j \in 1 .. n + x, i # j
       PROVE  Bytes(t[i], PartitionSize) \cap Bytes(t[j], PartitionSize) = {}
  <2>1. \A a, b \in 1 .. n : a # b => Bytes(s[a], PartitionSize) \cap Bytes(s[b], PartitionSize) = {}
    BY DEF Apart
  <2>2. \A a, b \in 1 .. x : a # b => Bytes(r[a], PartitionSize) \cap Bytes(r[b], PartitionSize) = {}
    BY <1>1 DEF Apart
  <2>3. \A a \in 1 .. n, b \in 1 .. x : Bytes(s[a], PartitionSize) \cap Bytes(r[b], PartitionSize) = {}
    BY <1>1
  <2>4. i - k # j - k /\ i - x # j - x
    BY <1>10
  <2>5. CASE i <= k /\ i \in 1 .. n /\ t[i] = s[i]
    <3>1. j > k + x => j - x # i
      BY <2>5
    <3> QED
      BY <1>8, <1>10, <2>1, <2>3, <2>5, <3>1
  <2>6. CASE i > k /\ i <= k + x /\ i - k \in 1 .. x /\ t[i] = r[i - k]
    BY <1>8, <2>2, <2>3, <2>4, <2>6, Zenon
  <2>7. CASE i > k + x /\ i - x \in 1 .. n /\ t[i] = s[i - x]
    <3>1. j <= k => i - x # j
      BY <2>7
    <3> QED
      BY <1>8, <2>1, <2>3, <2>4, <2>7, <3>1
  <2> QED
    BY <1>8, <2>5, <2>6, <2>7
<1>11. \A i \in 1 .. n + x : \/ \E j \in 1 .. n : t[i] = s[j]
                             \/ Bytes(t[i], PartitionSize) \subseteq Bytes(c, PartitionSize * x)
  BY <1>1, <1>8
<1>12. Apart(n + x, t)
  BY <1>10 DEF Apart
<1>13. ComesFrom(n + x, t, n, s, Bytes(c, PartitionSize * x))
  BY <1>11 DEF ComesFrom
<1>14. n + x \in Nat
  OBVIOUS
<1> QED
  BY <1>7, <1>9, <1>12, <1>13, <1>14

\* The list is in order after its first chunk.
Ascending(n, s) == \A i \in 2 .. n - 1 : s[i] < s[i + 1]

\* Insertion at the place that upper_bound() finds keeps it so.
LEMMA InsertOrdered ==
  ASSUME BlocksAssumption, NEW n \in Nat, NEW s \in [1 .. n -> Chunks], NEW k \in 0 .. n,
         NEW c \in Nat \ {0}, NEW x \in Nat \ {0},
         \A i \in 1 .. n : Bytes(s[i], PartitionSize) \cap Bytes(c, PartitionSize * x) = {},
         Fits(n, s, k, c), Ascending(n, s),
         NEW t, t = PutIn(n, s, k, x, Run(c, x))
  PROVE  Ascending(n + x, t)
<1> DEFINE r == Run(c, x)
<1>1. PartitionSize \in Nat /\ PartitionSize > 0
  BY DEF BlocksAssumption
<1>2. \A i \in 1 .. x : r[i] = c + PartitionSize * (i - 1)
  BY DEF Run
<1>3. \A i \in 1 .. n + x :
         \/ i <= k /\ i \in 1 .. n /\ t[i] = s[i]
         \/ i > k /\ i <= k + x /\ i - k \in 1 .. x /\ t[i] = r[i - k]
         \/ i > k + x /\ i - x \in 1 .. n /\ t[i] = s[i - x]
  BY PutInIs
<1> HIDE DEF r
<1>4. \A i \in 1 .. n : s[i] \in Nat /\ s[i] \in Bytes(s[i], PartitionSize)
  BY ChunksAreNat, FirstByte
<1>5. \A i \in 2 .. n - 1 : s[i] < s[i + 1]
  BY DEF Ascending
<1>0. (\A i \in 2 .. k : s[i] <= c) /\ (k < n => s[k + 1] > c) /\ (k = 0 => n = 0)
  BY DEF Fits
<1>6. \A i \in 1 .. n : s[i] < c \/ s[i] >= c + PartitionSize * x
  <2>1. \A i \in 1 .. n : s[i] \notin Bytes(c, PartitionSize * x)
    BY <1>4
  <2> DEFINE w == PartitionSize * x
  <2>2. w \in Nat
    BY <1>1
  <2>3. \A i \in 1 .. n : s[i] \notin c .. (c + w - 1)
    BY <2>1 DEF Bytes
  <2> HIDE DEF w
  <2>4. \A i \in 1 .. n : s[i] < c \/ s[i] >= c + w
    BY <1>4, <2>2, <2>3
  <2> QED
    BY <2>4 DEF w
<1>7. \A i \in 1 .. x : r[i] \in Nat /\ r[i] < c + PartitionSize * x /\ r[i] >= c
  <2>1. \A i \in 1 .. x : PartitionSize * (i - 1) \in Nat /\ PartitionSize * (i - 1) < PartitionSize * x
    BY <1>1
  <2>2. PartitionSize * x \in Nat
    BY <1>1
  <2> QED
    BY <1>2, <2>1, <2>2
<1>8. \A i \in 1 .. x : i + 1 \in 1 .. x => r[i] < r[i + 1]
  <2>1. \A i \in 1 .. x : /\ PartitionSize * (i - 1) \in Nat /\ PartitionSize * ((i + 1) - 1) \in Nat
                          /\ PartitionSize * (i - 1) < PartitionSize * ((i + 1) - 1)
    BY <1>1
  <2> QED
    BY <1>2, <2>1
<1>9. c + PartitionSize * x \in Nat /\ c + PartitionSize * x > c
  BY <1>1
<1>10. ASSUME NEW i \in 2 .. (n + x) - 1 PROVE t[i] < t[i + 1]
  <2>0. i \in 1 .. n + x /\ i + 1 \in 1 .. n + x /\ i >= 2 /\ i \in Nat
    OBVIOUS
  <2>1. CASE i + 1 <= k
    <3>1. i \in 2 .. n - 1 /\ t[i] = s[i] /\ t[i + 1] = s[i + 1]
      BY <1>3, <2>0, <2>1
    <3> QED
      BY <1>5, <3>1
  <2>2. CASE i = k
    <3>1. i \in 1 .. n /\ i \in 2 .. k /\ t[i] = s[i] /\ t[i + 1] = r[(i + 1) - k] /\ (i + 1) - k = 1
      BY <1>3, <2>0, <2>2
    <3>2. s[i] < c
      BY <1>0, <1>4, <1>6, <1>9, <3>1
    <3>3. r[1] \in Nat /\ r[1] >= c
      BY <1>7
    <3> QED
      BY <1>4, <3>1, <3>2, <3>3
  <2>3. CASE i > k /\ i < k + x
    <3>1. t[i] = r[i - k] /\ i - k \in 1 .. x
      BY <1>3, <2>0, <2>3
    <3>2. t[i + 1] = r[(i - k) + 1] /\ (i - k) + 1 \in 1 .. x
      <4>1. i + 1 > k /\ i + 1 <= k + x /\ (i + 1) - k = (i - k) + 1
        BY <2>3
      <4> QED
        BY <1>3, <2>0, <4>1
    <3> QED
      BY <1>8, <3>1, <3>2
  <2>4. CASE i = k + x
    <3>1. t[i] = r[i - k] /\ i - k \in 1 .. x
      BY <1>3, <2>0, <2>4
    <3>2. k < n /\ (i + 1) - x = k + 1 /\ i + 1 > k + x
      BY <2>0, <2>4
    <3>3. t[i + 1] = s[k + 1] /\ k + 1 \in 1 .. n
      BY <1>3, <2>0, <3>2
    <3>4. s[k + 1] >= c + PartitionSize * x
      BY <1>0, <1>4, <1>6, <3>2, <3>3
    <3> QED
      BY <1>4, <1>7, <1>9, <3>1, <3>3, <3>4
  <2>5. CASE i > k + x
    <3>1. t[i] = s[i - x] /\ i - x \in 1 .. n
      BY <1>3, <2>0, <2>5
    <3>2. (i + 1) - x = (i - x) + 1 /\ i + 1 > k + x
      BY <2>5
    <3>3. t[i + 1] = s[(i - x) + 1] /\ (i - x) + 1 \in 1 .. n
      BY <1>3, <2>0, <3>2
    <3>4. k # 0
      BY <1>0, <3>1
    <3>5. i - x \in 2 .. n - 1
      BY <2>5, <3>1, <3>3, <3>4
    <3> QED
      BY <1>5, <3>1, <3>3, <3>5
  <2> QED
    BY <2>0, <2>1, <2>2, <2>3, <2>4, <2>5
<1> QED
  BY <1>10 DEF Ascending

\* The x chunks of the list after the first k are neighbours in memory.
Contiguous(n, s, k, x) ==
    /\ k \in 0 .. n /\ x \in Nat \ {0} /\ k + x <= n
    /\ \A i \in 1 .. x : s[k + i] = s[k + 1] + PartitionSize * (i - 1)

\* m2 is m without them, handed out and overwritten.
Removes(m, m2, s, k, x) ==
    m2 = Overwritten([m EXCEPT ![At(s, k)] = m[s[k + x]]], s[k + 1], x)

\* malloc() takes the first chunk ...
LEMMA MallocRemoves ==
  ASSUME BlocksAssumption, NEW m, NEW n \in Nat, NEW s \in [1 .. n -> Chunks],
         Linked(m, n, s), ~empty(m)
  PROVE  /\ malloc(m).ret = s[1] /\ Contiguous(n, s, 0, 1)
         /\ Removes(m, Overwritten(malloc(m).mem, malloc(m).ret, 1), s, 0, 1)
<1>1. n # 0 /\ m[free_list] = s[1]
  BY DEF Linked, empty
<1>2. malloc(m).ret = s[1] /\ malloc(m).mem = [m EXCEPT ![free_list] = m[s[1]]]
  BY <1>1 DEF malloc
<1>3. /\ 0 \in 0 .. n /\ 1 \in Nat \ {0} /\ 0 + 1 <= n /\ 0 + 1 = 1 /\ 1 \in 1 .. n
      /\ \A i \in 1 .. 1 : i = 1 /\ PartitionSize * (i - 1) = 0 /\ i - 1 = 0
  BY <1>1 DEF BlocksAssumption
<1>4. s[1] \in Nat /\ s[1] + 0 = s[1]
  BY <1>3, ChunksAreNat
<1>5. Contiguous(n, s, 0, 1)
  BY <1>3, <1>4 DEF Contiguous
<1> QED
  BY <1>2, <1>3, <1>5 DEF Removes, At

\* ... and malloc_n() the first run of x neighbours that it finds.
LEMMA MallocNRemoves ==
  ASSUME BlocksAssumption, NEW m, NEW n \in Nat, NEW s \in [1 .. n -> Chunks],
         Linked(m, n, s), Apart(n, s), NEW x \in Nat \ {0}, malloc_n(m, x).ret # Null
  PROVE  \E k \in 0 .. n :
            /\ malloc_n(m, x).ret = s[k + 1] /\ Contiguous(n, s, k, x)
            /\ Removes(m, Overwritten(malloc_n(m, x).mem, malloc_n(m, x).ret, x), s, k, x)
<1> DEFINE list == Chain(m)
           runs == {i \in Positions : \A j \in i .. i + x - 1 :
                       list[j] # Null /\ list[j + 1] - list[j] = PartitionSize}
           k == Min(runs)
<1>1. PICK last \in Nat : Positions = 0 .. last /\ n <= last
  BY Length
<1>2. /\ \A j \in 0 .. n - 1 : list[j] = s[j + 1] /\ s[j + 1] \in Nat /\ s[j + 1] > 0
      /\ list[n] = Null
  <2>1. list = [j \in Positions |-> IF j < n THEN s[j + 1] ELSE Null]
    BY ChainIs
  <2>2. \A i \in 1 .. n : s[i] \in Nat /\ s[i] > 0
    BY ChunksAreNat
  <2>3. \A j \in Positions : list[j] = IF j < n THEN s[j + 1] ELSE Null
    BY <2>1
  <2> HIDE DEF list
  <2> QED
    BY <1>1, <2>2, <2>3
<1>3. runs # {} /\ malloc_n(m, x).ret = list[k]
      /\ malloc_n(m, x).mem = [m EXCEPT ![Location(list, k)] = list[k + x]]
  <2>1. malloc_n(m, x) = IF runs = {} THEN [ret |-> Null, mem |-> m]
                         ELSE [ret |-> list[k],
                               mem |-> [m EXCEPT ![Location(list, k)] = list[k + x]]]
    BY DEF malloc_n
  <2> HIDE DEF runs, list, k
  <2>2. runs # {}
    BY <2>1
  <2> QED
    BY <2>1, <2>2
<1>4. \A j \in 0 .. last : list[j] # Null => j # n
  BY <1>2
<1> HIDE DEF list
<1>5. k \in runs
  <2>1. runs \subseteq Nat
    BY <1>1
  <2> QED
    BY <1>3, <2>1, MinIs, Zenon
<1> HIDE DEF k
<1>6. /\ k \in Nat /\ k <= last
      /\ \A j \in k .. k + x - 1 : list[j] # Null /\ list[j + 1] - list[j] = PartitionSize
  BY <1>1, <1>5
<1>7. k < n
  <2>1. k \in k .. k + x - 1
    BY <1>6
  <2>2. list[k] # Null
    BY <1>6, <2>1
  <2>3. \A j \in Positions : list[j] = IF j < n THEN s[j + 1] ELSE Null
    BY ChainIs DEF list
  <2> QED
    BY <1>1, <1>6, <2>2, <2>3
<1>8. \A j \in k .. k + x - 1 : j + 1 < n
  <2> DEFINE T == {j \in k .. k + x - 1 : ~(j + 1 < n)}
  <2>1. SUFFICES ASSUME T # {} PROVE FALSE
    OBVIOUS
  <2>2. T \subseteq Nat
    BY <1>6
  <2>3. PICK j \in T : \A y \in T : j <= y
    BY <2>1, <2>2, Least, Zenon
  <2>4. j \in k .. k + x - 1 /\ j + 1 >= n /\ j \in Nat
    BY <1>6, <2>3
  <2>5. j < n
    <3>1. CASE j = k
      BY <1>7, <3>1
    <3>2. CASE j # k
      <4>1. j - 1 \in k .. k + x - 1 /\ j - 1 \notin T
        <5>1. j - 1 \in k .. k + x - 1 /\ ~(j <= j - 1)
          BY <1>6, <2>4, <3>2
        <5> QED
          BY <2>3, <5>1
      <4>2. (j - 1) + 1 < n
        BY <4>1
      <4> QED
        BY <2>4, <4>2
    <3> QED
      BY <3>1, <3>2
  <2>6. j + 1 = n /\ j \in 0 .. n - 1
    BY <2>4, <2>5
  <2>7. list[j + 1] = 0 /\ list[j] \in Nat /\ list[j] > 0
    BY <1>2, <2>6 DEF Null
  <2>8. list[j + 1] - list[j] = PartitionSize
    BY <1>6, <2>4
  <2> QED
    BY <2>7, <2>8 DEF BlocksAssumption
<1>9. k + x < n /\ k \in 0 .. n - 1 /\ k \in 0 .. n /\ k + x \in 0 .. n - 1
  <2>1. (k + x) - 1 \in k .. k + x - 1 /\ ((k + x) - 1) + 1 = k + x
    BY <1>6
  <2>2. k + x < n
    BY <1>8, <2>1
  <2> QED
    BY <1>6, <1>7, <2>2
<1>10. \A i \in 1 .. x : s[k + i] \in Nat /\ s[(k + i) + 1] \in Nat /\ s[(k + i) + 1] - s[k + i] = PartitionSize
  <2>1. SUFFICES ASSUME NEW i \in 1 .. x
                 PROVE  s[k + i] \in Nat /\ s[(k + i) + 1] \in Nat /\ s[(k + i) + 1] - s[k + i] = PartitionSize
    OBVIOUS
  <2> DEFINE j == (k + i) - 1
  <2>2. j \in k .. k + x - 1 /\ j \in 0 .. n - 1 /\ j + 1 \in 0 .. n - 1 /\ j + 1 = k + i
    BY <1>6, <1>9
  <2> HIDE DEF j
  <2>3. list[j] = s[j + 1] /\ list[j + 1] = s[(j + 1) + 1] /\ s[j + 1] \in Nat /\ s[(j + 1) + 1] \in Nat
    BY <1>2, <2>2
  <2>4. list[j + 1] - list[j] = PartitionSize
    BY <1>6, <2>2
  <2>5. s[(j + 1) + 1] - s[j + 1] = PartitionSize
    BY <2>3, <2>4
  <2> QED
    BY <2>2, <2>3, <2>5
<1>11. \A i \in 1 .. x : s[k + i] = s[k + 1] + PartitionSize * (i - 1)
  <2> DEFINE T == {i \in 1 .. x : ~(s[k + i] = s[k + 1] + PartitionSize * (i - 1))}
  <2>1. SUFFICES ASSUME T # {} PROVE FALSE
    OBVIOUS
  <2>2. PICK i \in T : \A y \in T : i <= y
    <3>1. T \subseteq Nat
      OBVIOUS
    <3> QED
      BY <2>1, <3>1, Least, Zenon
  <2>3. i \in 1 .. x /\ s[k + i] # s[k + 1] + PartitionSize * (i - 1)
    BY <2>2
  <2>4. 1 \in 1 .. x /\ s[k + 1] \in Nat /\ PartitionSize \in Nat
    BY <1>10 DEF BlocksAssumption
  <2>5. i # 1
    <3>1. PartitionSize * (1 - 1) = 0 /\ s[k + 1] + 0 = s[k + 1]
      BY <2>4
    <3> QED
      BY <2>3, <3>1
  <2>6. i - 1 \in 1 .. x /\ i - 1 \notin T
    <3>1. i - 1 \in 1 .. x /\ ~(i <= i - 1)
      BY <2>3, <2>5
    <3> QED
      BY <2>2, <3>1
  <2> DEFINE h == i - 1
  <2>7. s[k + h] = s[k + 1] + PartitionSize * (h - 1)
    BY <2>6
  <2>8. h \in 1 .. x /\ h + 1 = i /\ (k + h) + 1 = k + i
    BY <1>9, <2>3, <2>6
  <2> HIDE DEF h, T
  <2>9. s[k + h] \in Nat /\ s[k + i] \in Nat /\ s[k + i] - s[k + h] = PartitionSize
    BY <1>10, <2>3, <2>8
  <2>10. PartitionSize * (h - 1) + PartitionSize = PartitionSize * (i - 1) /\ PartitionSize * (h - 1) \in Nat
    BY <2>4, <2>8
  <2> QED
    BY <2>3, <2>4, <2>7, <2>9, <2>10
<1>12. Contiguous(n, s, k, x)
  BY <1>9, <1>11 DEF Contiguous
<1>13. list[k] = s[k + 1] /\ Location(list, k) = At(s, k)
  <2>1. k # 0 => k - 1 \in 0 .. n - 1 /\ (k - 1) + 1 = k
    BY <1>9
  <2> QED
    BY <1>2, <1>9, <2>1 DEF Location, At
<1>14. list[k + x] = m[s[k + x]]
  <2>1. k + x \in 1 .. n /\ k + x # n
    BY <1>9
  <2> QED
    BY <1>2, <1>9, <2>1 DEF Linked
<1> QED
  BY <1>3, <1>9, <1>12, <1>13, <1>14, Zenon DEF Removes

\* Removal keeps the list sound: what is handed out are chunks of the list, and
\* the others do not overlap it.
LEMMA RemoveKeeps ==
  ASSUME BlocksAssumption, NEW m \in [Addresses -> Addresses \cup {User}],
         NEW n \in Nat, NEW s \in [1 .. n -> Chunks],
         Linked(m, n, s), Apart(n, s), NEW k, NEW x, Contiguous(n, s, k, x),
         NEW m2, Removes(m, m2, s, k, x),
         NEW t, t = TakeOut(n, s, k, x)
  PROVE  /\ m2 \in [Addresses -> Addresses \cup {User}]
         /\ n - x \in Nat /\ t \in [1 .. n - x -> Chunks]
         /\ Linked(m2, n - x, t) /\ Apart(n - x, t)
         /\ \A i \in 1 .. n - x : \E j \in 1 .. n :
               t[i] = s[j] /\ Bytes(s[j], PartitionSize) \cap Bytes(s[k + 1], PartitionSize * x) = {}
         /\ \A y \in Bytes(s[k + 1], PartitionSize * x) :
               \E j \in 1 .. n : y \in Bytes(s[j], PartitionSize)
<1> DEFINE region == Bytes(s[k + 1], PartitionSize * x)
           m1 == [m EXCEPT ![At(s, k)] = m[s[k + x]]]
<1>1. /\ k \in 0 .. n /\ x \in Nat \ {0} /\ k + x <= n
      /\ \A i \in 1 .. x : s[k + i] = s[k + 1] + PartitionSize * (i - 1)
  BY DEF Contiguous
<1>2. /\ \A i \in 1 .. n : s[i] \in Addresses /\ s[i] # free_list /\ s[i] \in Nat
                           /\ s[i] \in Bytes(s[i], PartitionSize)
      /\ \A i, j \in 1 .. n : i # j => Bytes(s[i], PartitionSize) \cap Bytes(s[j], PartitionSize) = {}
      /\ \A i, j \in 1 .. n : s[i] = s[j] => i = j
  <2>1. \A i \in 1 .. n : s[i] \in Addresses /\ s[i] # free_list
    BY DEF Chunks, Null, free_list
  <2>2. \A i \in 1 .. n : s[i] \in Nat
    BY ChunksAreNat
  <2>3. \A i \in 1 .. n : s[i] \in Bytes(s[i], PartitionSize)
    BY FirstByte
  <2>4. \A i, j \in 1 .. n : s[i] = s[j] => i = j
    BY Different
  <2> QED
    BY <2>1, <2>2, <2>3, <2>4 DEF Apart
<1>3. ASSUME NEW y \in region PROVE \E i \in 1 .. x : k + i \in 1 .. n /\ y \in Bytes(s[k + i], PartitionSize)
  <2>1. k + 1 \in 1 .. n
    BY <1>1
  <2>2. s[k + 1] \in Nat
    BY <1>2, <2>1
  <2>3. PICK i \in 1 .. x : y \in Bytes(s[k + 1] + PartitionSize * (i - 1), PartitionSize)
    BY <1>1, <2>2, RunCovers
  <2>4. k + i \in 1 .. n
    BY <1>1
  <2> QED
    BY <1>1, <2>3, <2>4, Zenon
<1>4. ASSUME NEW j \in 1 .. n, j <= k \/ j > k + x
      PROVE  Bytes(s[j], PartitionSize) \cap region = {}
  <2>1. \A i \in 1 .. x : k + i # j
    BY <1>1, <1>4
  <2> HIDE DEF region
  <2> QED
    BY <1>2, <1>3, <2>1
<1>5. \A y \in region : y # free_list
  <2>1. \A i \in 1 .. n : free_list \notin Bytes(s[i], PartitionSize)
    BY <1>2, ChunksAreNat DEF Bytes, free_list, BlocksAssumption
  <2> HIDE DEF region
  <2> QED
    BY <1>3, <2>1
<1>6. /\ m2 = [a \in Addresses |-> IF a \in region THEN User ELSE m1[a]]
      /\ m1 \in [Addresses -> Addresses \cup {User}]
      /\ At(s, k) \in Addresses
  <2>1. At(s, k) \in Addresses
    BY <1>1, <1>2 DEF At, Addresses
  <2>2. k + x \in 1 .. n
    BY <1>1
  <2>3. m[s[k + x]] \in Addresses \cup {User}
    BY <1>2, <2>2
  <2>4. m1 \in [Addresses -> Addresses \cup {User}] /\ DOMAIN m1 = Addresses
    BY <2>1, <2>3
  <2>5. m2 = Overwritten(m1, s[k + 1], x)
    BY DEF Removes
  <2> HIDE DEF m1
  <2> QED
    BY <2>1, <2>4, <2>5 DEF Overwritten
<1>7. /\ m1[At(s, k)] = m[s[k + x]]
      /\ \A a \in Addresses : a # At(s, k) => m1[a] = m[a]
  BY <1>6
<1> HIDE DEF m1
<1>8. \A j \in 0 .. n : (j <= k \/ j > k + x) => At(s, j) \in Addresses /\ At(s, j) \notin region
  <2>1. ASSUME NEW j \in 0 .. n, j <= k \/ j > k + x
        PROVE  At(s, j) \in Addresses /\ At(s, j) \notin region
    <3>1. CASE j = 0
      BY <1>5, <3>1 DEF At, Addresses
    <3>2. CASE j # 0
      <4>1. j \in 1 .. n
        BY <3>2
      <4> HIDE DEF region
      <4> QED
        BY <1>2, <1>4, <2>1, <3>2, <4>1 DEF At
    <3> QED
      BY <3>1, <3>2
  <2> QED
    BY <2>1
<1> HIDE DEF region
<1>9. m2[At(s, k)] = m[s[k + x]]
  <2>1. k <= k
    BY <1>1
  <2> QED
    BY <1>1, <1>6, <1>7, <1>8, <2>1
<1>10. \A j \in 0 .. n : (j < k \/ j > k + x) => m2[At(s, j)] = m[At(s, j)]
  <2>1. ASSUME NEW j \in 0 .. n, j < k \/ j > k + x PROVE m2[At(s, j)] = m[At(s, j)]
    <3>1. j # k /\ (j <= k \/ j > k + x) /\ (j # 0 => j \in 1 .. n) /\ (k # 0 => k \in 1 .. n)
      BY <1>1, <2>1
    <3>2. At(s, j) # At(s, k)
      BY <1>2, <3>1 DEF At
    <3> QED
      BY <1>6, <1>7, <1>8, <3>1, <3>2
  <2> QED
    BY <2>1
<1>11. Linked(m2, n - x, t)
  BY <1>1, <1>9, <1>10, TakeOutLinked, Zenon
<1>12. \A i \in 1 .. n - x :
          \/ i <= k /\ i \in 1 .. n /\ t[i] = s[i]
          \/ i > k /\ i + x \in 1 .. n /\ t[i] = s[i + x]
  BY <1>1 DEF TakeOut
<1>13. n - x \in Nat /\ t \in [1 .. n - x -> Chunks]
  <2>1. \A i \in 1 .. n - x : t[i] \in Chunks
    BY <1>12
  <2>2. t = [i \in 1 .. n - x |-> t[i]]
    BY DEF TakeOut
  <2> QED
    BY <1>1, <2>1, <2>2
<1>14. Apart(n - x, t)
  <2>1. ASSUME NEW i \in 1 .. n - x, NEW j \in 1 .. n - x, i # j
        PROVE  Bytes(t[i], PartitionSize) \cap Bytes(t[j], PartitionSize) = {}
    <3>1. i + x # j + x /\ (i <= k /\ j > k => i # j + x) /\ (j <= k /\ i > k => j # i + x)
      BY <1>1, <2>1
    <3>2. CASE i <= k
      <4>1. i \in 1 .. n /\ t[i] = s[i]
        BY <1>1, <1>12, <3>2
      <4>2. \E b \in 1 .. n : b # i /\ t[j] = s[b]
        BY <1>12, <2>1, <3>1, <3>2
      <4> QED
        BY <1>2, <4>1, <4>2
    <3>3. CASE i > k
      <4>1. i + x \in 1 .. n /\ t[i] = s[i + x]
        BY <1>1, <1>12, <3>3
      <4>2. \E b \in 1 .. n : b # i + x /\ t[j] = s[b]
        BY <1>12, <3>1, <3>3
      <4> QED
        BY <1>2, <4>1, <4>2
    <3> QED
      BY <1>1, <3>2, <3>3
  <2> QED
    BY <2>1 DEF Apart
<1>15. \A i \in 1 .. n - x : \E j \in 1 .. n : t[i] = s[j] /\ Bytes(s[j], PartitionSize) \cap region = {}
  <2>1. \A i \in 1 .. n - x : i > k => i + x > k + x
    BY <1>1
  <2> QED
    BY <1>4, <1>12, <2>1
<1>16. m2 \in [Addresses -> Addresses \cup {User}]
  BY <1>6
<1>17. \A y \in region : \E j \in 1 .. n : y \in Bytes(s[j], PartitionSize)
  BY <1>3
<1> QED
  BY <1>11, <1>13, <1>14, <1>15, <1>16, <1>17 DEF region

LEMMA RemoveOrdered ==
  ASSUME BlocksAssumption, NEW n \in Nat, NEW s \in [1 .. n -> Chunks],
         NEW k, NEW x, Contiguous(n, s, k, x), Ascending(n, s),
         NEW t, t = TakeOut(n, s, k, x)
  PROVE  Ascending(n - x, t)
<1>1. /\ k \in 0 .. n /\ x \in Nat \ {0} /\ k + x <= n
      /\ \A i \in 1 .. x : s[k + i] = s[k + 1] + PartitionSize * (i - 1)
  BY DEF Contiguous
<1>2. \A i \in 1 .. n - x :
         \/ i <= k /\ i \in 1 .. n /\ t[i] = s[i]
         \/ i > k /\ i + x \in 1 .. n /\ t[i] = s[i + x]
  BY <1>1 DEF TakeOut
<1>3. \A i \in 1 .. n : s[i] \in Nat
  BY ChunksAreNat
<1>4. \A i \in 2 .. n - 1 : s[i] < s[i + 1]
  BY DEF Ascending
<1>5. ASSUME NEW i \in 2 .. (n - x) - 1 PROVE t[i] < t[i + 1]
  <2>0. i \in 1 .. n - x /\ i + 1 \in 1 .. n - x
    BY <1>1
  <2>1. CASE i + 1 <= k
    <3>1. i \in 2 .. n - 1 /\ t[i] = s[i] /\ t[i + 1] = s[i + 1]
      BY <1>1, <1>2, <2>0, <2>1
    <3> QED
      BY <1>4, <3>1
  <2>2. CASE i = k
    <3>1. t[i] = s[k] /\ t[i + 1] = s[(k + x) + 1]
      <4>1. (i + 1) + x = (k + x) + 1 /\ i + 1 > k /\ i <= k
        BY <1>1, <2>2
      <4> QED
        BY <1>2, <2>0, <2>2, <4>1
    <3>2. k \in 2 .. n - 1 /\ k + x \in 2 .. n - 1 /\ k \in 1 .. n /\ k + 1 \in 1 .. n
          /\ k + x \in 1 .. n /\ (k + x) + 1 \in 1 .. n /\ x \in 1 .. x
      BY <1>1, <2>2
    <3>3. s[k] < s[k + 1] /\ s[k + x] < s[(k + x) + 1]
      BY <1>4, <3>2
    <3>4. s[k + x] = s[k + 1] + PartitionSize * (x - 1) /\ PartitionSize * (x - 1) \in Nat
      BY <1>1, <3>2 DEF BlocksAssumption
    <3>5. /\ s[k] \in Nat /\ s[k + 1] \in Nat /\ s[k + x] \in Nat /\ s[(k + x) + 1] \in Nat
      BY <1>3, <3>2, Zenon
    <3>6. s[k + x] >= s[k + 1]
      BY <3>4, <3>5
    <3> QED
      BY <3>1, <3>3, <3>5, <3>6
  <2>3. CASE i > k
    <3>1. (i + 1) + x = (i + x) + 1 /\ i + 1 > k /\ i + x \in 2 .. n - 1
      BY <1>1, <2>3
    <3>2. t[i] = s[i + x] /\ t[i + 1] = s[(i + x) + 1]
      BY <1>1, <1>2, <2>0, <2>3, <3>1
    <3> QED
      BY <1>4, <3>1, <3>2
  <2> QED
    BY <1>1, <2>1, <2>2, <2>3
<1> QED
  BY <1>5 DEF Ascending

\* The list of m is s[1..n]: chunks in the memory own that do not overlap each other
\* or an array of arrays.
Kept(m, own, arrays, n, s) ==
    /\ Linked(m, n, s) /\ Apart(n, s)
    /\ \A i \in 1 .. n : /\ Bytes(s[i], PartitionSize) \subseteq own
                         /\ \A h \in arrays : Bytes(s[i], PartitionSize) \cap ArrayBytes(h) = {}
    /\ ~Unordered => Ascending(n, s)

Memories == [Addresses -> Addresses \cup {User}]

HasList(m, own, arrays) ==
    /\ m \in Memories
    /\ \E n \in Nat : \E s \in [1 .. n -> Chunks] : Kept(m, own, arrays, n, s)

\* The place that a call inserts at keeps the order, or order is not asked for.
InOrder(n, s, k, c) == Unordered \/ Fits(n, s, k, c)

LEMMA InsertList ==
  ASSUME BlocksAssumption, NEW own, NEW own2, own \subseteq own2, own2 \subseteq Addresses,
         NEW arrays, NEW arrays2, arrays2 \subseteq arrays,
         NEW m, NEW n \in Nat, NEW s \in [1 .. n -> Chunks], Kept(m, own, arrays, n, s),
         NEW k \in 0 .. n, NEW c \in Nat \ {0}, NEW x \in Nat \ {0},
         Bytes(c, PartitionSize * x) \subseteq own2,
         \A i \in 1 .. n : Bytes(s[i], PartitionSize) \cap Bytes(c, PartitionSize * x) = {},
         \A h \in arrays2 : Bytes(c, PartitionSize * x) \cap ArrayBytes(h) = {},
         NEW m2, Inserts(m, m2, At(s, k), c, x), InOrder(n, s, k, c)
  PROVE  HasList(m2, own2, arrays2)
<1> DEFINE t == PutIn(n, s, k, x, Run(c, x))
           region == Bytes(c, PartitionSize * x)
<1>1. /\ Linked(m, n, s) /\ Apart(n, s) /\ (~Unordered => Ascending(n, s))
      /\ \A i \in 1 .. n : /\ Bytes(s[i], PartitionSize) \subseteq own
                           /\ \A h \in arrays : Bytes(s[i], PartitionSize) \cap ArrayBytes(h) = {}
  BY DEF Kept
<1>2. region \subseteq Addresses
  OBVIOUS
<1>3. /\ n + x \in Nat /\ t \in [1 .. n + x -> Chunks]
      /\ Linked(m2, n + x, t) /\ Apart(n + x, t)
      /\ ComesFrom(n + x, t, n, s, region)
  <2> HIDE DEF t
  <2>1. t = PutIn(n, s, k, x, Run(c, x))
    BY DEF t
  <2>2. Linked(m, n, s) /\ Apart(n, s)
    BY <1>1
  <2> QED
    BY <1>2, <2>1, <2>2, InsertKeeps, Zenon
<1>4. ~Unordered => Ascending(n + x, t)
  <2>1. SUFFICES ASSUME ~Unordered PROVE Ascending(n + x, t)
    OBVIOUS
  <2>2. Fits(n, s, k, c)
    BY <2>1 DEF InOrder
  <2>3. Ascending(n, s)
    BY <1>1, <2>1
  <2> HIDE DEF t
  <2>4. t = PutIn(n, s, k, x, Run(c, x))
    BY DEF t
  <2> QED
    BY <2>2, <2>3, <2>4, InsertOrdered
<1> HIDE DEF t
<1>5. ASSUME NEW i \in 1 .. n + x
      PROVE  /\ Bytes(t[i], PartitionSize) \subseteq own2
             /\ \A h \in arrays2 : Bytes(t[i], PartitionSize) \cap ArrayBytes(h) = {}
  BY <1>1, <1>3, SMTT(20) DEF ComesFrom
<1>6. Kept(m2, own2, arrays2, n + x, t)
  BY <1>3, <1>4, <1>5, Zenon DEF Kept
<1>7. m2 \in Memories
  BY DEF Inserts, Memories
<1> QED
  BY <1>3, <1>6, <1>7, SMTT(20) DEF HasList

\* Where the calls insert.
Place(m, pos, c) == (Unordered /\ pos = free_list) \/ pos = upper_bound(m, c)

LEMMA Places ==
  ASSUME BlocksAssumption, NEW own, own \subseteq Addresses, NEW arrays,
         NEW m, NEW n \in Nat, NEW s \in [1 .. n -> Chunks], Kept(m, own, arrays, n, s),
         NEW c \in Nat, NEW pos, Place(m, pos, c)
  PROVE  \E k \in 0 .. n : pos = At(s, k) /\ InOrder(n, s, k, c)
<1>1. CASE Unordered /\ pos = free_list
  <2>1. 0 \in 0 .. n
    OBVIOUS
  <2> QED
    BY <1>1, <2>1 DEF At, InOrder
<1>2. CASE pos = upper_bound(m, c)
  <2>1. Linked(m, n, s) /\ Apart(n, s)
    BY DEF Kept
  <2>2. PICK k \in 0 .. n : upper_bound(m, c) = At(s, k) /\ Fits(n, s, k, c)
    BY <2>1, UpperBoundIs
  <2> QED
    BY <1>2, <2>2 DEF InOrder
<1> QED
  BY <1>1, <1>2 DEF Place

LEMMA BlockKeeps ==
  ASSUME BlocksAssumption, NEW own, NEW own2, own \subseteq own2, own2 \subseteq Addresses,
         NEW arrays, NEW arrays2, arrays2 \subseteq arrays,
         NEW m \in Memories, NEW n \in Nat, NEW s \in [1 .. n -> Chunks], Kept(m, own, arrays, n, s),
         NEW c \in Nat \ {0}, NEW sz \in Nat, sz >= PartitionSize,
         Bytes(c, sz) \subseteq own2,
         \A i \in 1 .. n : Bytes(s[i], PartitionSize) \cap Bytes(c, sz) = {},
         \A h \in arrays2 : Bytes(c, sz) \cap ArrayBytes(h) = {},
         NEW m2, (Unordered /\ m2 = add_block(m, c, sz)) \/ m2 = add_ordered_block(m, c, sz)
  PROVE  HasList(m2, own2, arrays2)
<1>1. PICK pos : /\ Place(m, pos, c)
                 /\ m2 = [segregate(m, c, sz, m[pos]) EXCEPT ![pos] = c]
  BY DEF add_block, add_ordered_block, Place
<1>2. own \subseteq Addresses /\ c \in Nat
  OBVIOUS
<1>3. PICK k \in 0 .. n : pos = At(s, k) /\ InOrder(n, s, k, c)
  BY <1>1, <1>2, Places
<1>4. pos \in Addresses /\ pos \notin Bytes(c, sz)
  <2>1. CASE k = 0
    BY <1>3, <2>1 DEF At, Addresses, Bytes, free_list
  <2>2. CASE k # 0
    <3>1. k \in 1 .. n /\ pos = s[k]
      BY <1>3, <2>2 DEF At
    <3>2. s[k] \in Addresses /\ s[k] \in Bytes(s[k], PartitionSize)
      BY <3>1, FirstByte DEF Chunks
    <3> QED
      BY <3>1, <3>2
  <2> QED
    BY <2>1, <2>2
<1>5. /\ LastChunk(sz) + 1 \in Nat \ {0}
      /\ Bytes(c, PartitionSize * (LastChunk(sz) + 1)) \subseteq Bytes(c, sz)
      /\ Inserts(m, m2, pos, c, LastChunk(sz) + 1)
  <2>1. m \in [Addresses -> Addresses \cup {User}] /\ Bytes(c, sz) \subseteq Addresses
    BY DEF Memories
  <2> QED
    BY <1>1, <1>4, <2>1, SegregateInserts, Zenon
<1> DEFINE x == LastChunk(sz) + 1
<1>6. /\ x \in Nat \ {0} /\ Bytes(c, PartitionSize * x) \subseteq own2
      /\ \A i \in 1 .. n : Bytes(s[i], PartitionSize) \cap Bytes(c, PartitionSize * x) = {}
      /\ \A h \in arrays2 : Bytes(c, PartitionSize * x) \cap ArrayBytes(h) = {}
      /\ Inserts(m, m2, At(s, k), c, x)
  BY <1>3, <1>5
<1> HIDE DEF x
<1> QED
  BY <1>3, <1>6, InsertList

LEMMA ChunkKeeps ==
  ASSUME BlocksAssumption, NEW own, own \subseteq Addresses,
         NEW arrays, NEW arrays2, arrays2 \subseteq arrays,
         NEW m \in Memories, NEW n \in Nat, NEW s \in [1 .. n -> Chunks], Kept(m, own, arrays, n, s),
         NEW c \in Nat \ {0}, Bytes(c, PartitionSize) \subseteq own,
         \A i \in 1 .. n : Bytes(s[i], PartitionSize) \cap Bytes(c, PartitionSize) = {},
         \A h \in arrays2 : Bytes(c, PartitionSize) \cap ArrayBytes(h) = {},
         NEW m2, (Unordered /\ m2 = free(m, c)) \/ m2 = ordered_free(m, c)
  PROVE  HasList(m2, own, arrays2)
<1>1. PICK pos : /\ Place(m, pos, c)
                 /\ m2 = [m EXCEPT ![c] = m[pos], ![pos] = c]
  BY DEF free, ordered_free, Place
<1>2. PICK k \in 0 .. n : pos = At(s, k) /\ InOrder(n, s, k, c)
  <2>1. c \in Nat
    OBVIOUS
  <2> QED
    BY <1>1, <2>1, Places
<1>3. c \in Addresses /\ c \in Bytes(c, PartitionSize)
  <2>1. c \in Bytes(c, PartitionSize)
    BY DEF Bytes, BlocksAssumption
  <2> QED
    BY <2>1
<1>4. pos \in Addresses /\ c # pos
  <2>1. CASE k = 0
    BY <1>2, <2>1 DEF At, Addresses, free_list
  <2>2. CASE k # 0
    <3>1. k \in 1 .. n /\ pos = s[k]
      BY <1>2, <2>2 DEF At
    <3>2. s[k] \in Addresses /\ s[k] \in Bytes(s[k], PartitionSize)
      BY <3>1, FirstByte DEF Chunks
    <3> QED
      BY <1>3, <3>1, <3>2
  <2> QED
    BY <2>1, <2>2
<1>5. Inserts(m, m2, At(s, k), c, 1)
  <2>1. m \in [Addresses -> Addresses \cup {User}]
    BY DEF Memories
  <2> QED
    BY <1>1, <1>2, <1>3, <1>4, <2>1, FreeInserts, Zenon
<1>6. PartitionSize * 1 = PartitionSize /\ 1 \in Nat \ {0}
  BY DEF BlocksAssumption
<1>7. /\ Bytes(c, PartitionSize * 1) \subseteq own
      /\ \A i \in 1 .. n : Bytes(s[i], PartitionSize) \cap Bytes(c, PartitionSize * 1) = {}
      /\ \A h \in arrays2 : Bytes(c, PartitionSize * 1) \cap ArrayBytes(h) = {}
  BY <1>6
<1> QED
  BY <1>2, <1>5, <1>6, <1>7, InsertList

\* The invariant: there is such a list for the storage's own memory and the arrays
\* that users hold.
IInv == TypeOK /\ HeldDisjoint /\ HasList(mem, Owned, held)

LEMMA OwnedAddresses == BlocksAssumption /\ TypeOK => Owned \subseteq Addresses /\ free_list \notin Owned
<1> SUFFICES ASSUME BlocksAssumption, TypeOK
             PROVE  Owned \subseteq Addresses /\ free_list \notin Owned
  OBVIOUS
<1>1. \A b \in Blocks : b[1] \in Nat \ {0} /\ b[2] \in Nat
  BY DEF BlocksAssumption
<1>2. added \subseteq Blocks
  BY DEF TypeOK
<1>3. \A b \in Blocks : 0 \notin Bytes(b[1], b[2])
  BY <1>1 DEF Bytes
<1> QED
  BY <1>2, <1>3 DEF Owned, Addresses, free_list

\* A storage that was just made, or reset.
LEMMA EmptyList ==
  ASSUME BlocksAssumption, NEW m, m = [a \in Addresses |-> IF a = free_list THEN Null ELSE User],
         NEW own, NEW arrays
  PROVE  HasList(m, own, arrays)
<1>1. free_list \in Addresses /\ Null \in Addresses
  BY DEF Addresses, free_list, Null
<1>2. m \in Memories
  BY <1>1 DEF Memories
<1> DEFINE s == [i \in 1 .. 0 |-> Null]
<1>3. s \in [1 .. 0 -> Chunks] /\ \A i \in 1 .. 0 : FALSE
  OBVIOUS
<1>4. Kept(m, own, arrays, 0, s)
  <2>1. Linked(m, 0, s)
    BY <1>1, <1>3 DEF Linked
  <2>2. Apart(0, s) /\ Ascending(0, s)
    BY DEF Apart, Ascending
  <2> QED
    BY <1>3, <2>1, <2>2 DEF Kept
<1> QED
  BY <1>2, <1>3, <1>4, Zenon DEF HasList

LEMMA InitInv == BlocksAssumption /\ Init => IInv
<1> SUFFICES ASSUME BlocksAssumption, Init PROVE IInv
  OBVIOUS
<1>1. HasList(mem, Owned, held)
  BY EmptyList DEF Init
<1>2. TypeOK /\ HeldDisjoint
  BY <1>1 DEF Init, TypeOK, HeldDisjoint, HasList, Memories
<1> QED
  BY <1>1, <1>2 DEF IInv

LEMMA ResetKeeps == BlocksAssumption /\ Reset => IInv'
<1> SUFFICES ASSUME BlocksAssumption, Reset PROVE IInv'
  OBVIOUS
<1>1. HasList(mem', Owned', held')
  BY EmptyList DEF Reset
<1>2. TypeOK' /\ HeldDisjoint'
  BY <1>1 DEF Reset, TypeOK, HeldDisjoint, HasList, Memories
<1> QED
  BY <1>1, <1>2 DEF IInv

LEMMA HandOutKeeps ==
  ASSUME BlocksAssumption, IInv, NEW r, NEW x \in 1 .. MaxArray, HandOut(r, x),
         \A n \in Nat : \A s \in [1 .. n -> Chunks] :
            Linked(mem, n, s) /\ Apart(n, s) =>
               \E k \in 0 .. n : /\ r.ret = s[k + 1] /\ Contiguous(n, s, k, x)
                                 /\ Removes(mem, mem', s, k, x)
  PROVE  IInv'
<1>1. PICK n \in Nat : \E s \in [1 .. n -> Chunks] : Kept(mem, Owned, held, n, s)
  BY DEF IInv, HasList
<1>2. PICK s \in [1 .. n -> Chunks] : Kept(mem, Owned, held, n, s)
  BY <1>1
<1>3. /\ Linked(mem, n, s) /\ Apart(n, s) /\ (~Unordered => Ascending(n, s))
      /\ \A i \in 1 .. n : /\ Bytes(s[i], PartitionSize) \subseteq Owned
                           /\ \A h \in held : Bytes(s[i], PartitionSize) \cap ArrayBytes(h) = {}
  BY <1>2 DEF Kept
<1>4. PICK k \in 0 .. n : /\ r.ret = s[k + 1] /\ Contiguous(n, s, k, x)
                          /\ Removes(mem, mem', s, k, x)
  BY <1>3
<1> DEFINE t == TakeOut(n, s, k, x)
           region == Bytes(s[k + 1], PartitionSize * x)
           g == <<s[k + 1], x>>
<1>5. mem \in [Addresses -> Addresses \cup {User}]
  BY DEF IInv, TypeOK
<1>6. /\ mem' \in [Addresses -> Addresses \cup {User}]
      /\ n - x \in Nat /\ t \in [1 .. n - x -> Chunks]
      /\ Linked(mem', n - x, t) /\ Apart(n - x, t)
      /\ \A i \in 1 .. n - x : \E j \in 1 .. n :
            t[i] = s[j] /\ Bytes(s[j], PartitionSize) \cap region = {}
      /\ \A y \in region : \E j \in 1 .. n : y \in Bytes(s[j], PartitionSize)
  BY <1>3, <1>4, <1>5, RemoveKeeps, Zenon
<1>7. ~Unordered => Ascending(n - x, t)
  BY <1>3, <1>4, RemoveOrdered
<1>8. ArrayBytes(g) = region
  BY DEF ArrayBytes
<1>9. /\ held' = held \cup {g} /\ added' = added /\ Owned' = Owned
  BY <1>4 DEF HandOut, Owned
<1> HIDE DEF t, region, g
<1>10. region \subseteq Owned /\ \A h \in held : region \cap ArrayBytes(h) = {}
  BY <1>3, <1>6
<1>11. HeldDisjoint'
  <2>1. \A h \in held : ArrayBytes(h) \subseteq Owned /\ \A f \in held \ {h} : ArrayBytes(h) \cap ArrayBytes(f) = {}
    BY DEF IInv, HeldDisjoint
  <2>2. \A h \in held' : ArrayBytes(h) \subseteq Owned' /\ \A f \in held' \ {h} : ArrayBytes(h) \cap ArrayBytes(f) = {}
    BY <1>8, <1>9, <1>10, <2>1
  <2> QED
    BY <2>2 DEF HeldDisjoint
<1>12. ASSUME NEW i \in 1 .. n - x
       PROVE  /\ Bytes(t[i], PartitionSize) \subseteq Owned'
              /\ \A h \in held' : Bytes(t[i], PartitionSize) \cap ArrayBytes(h) = {}
  BY <1>3, <1>6, <1>8, <1>9
<1>13. Kept(mem', Owned', held', n - x, t)
  BY <1>6, <1>7, <1>12 DEF Kept
<1>14. HasList(mem', Owned', held')
  BY <1>6, <1>13 DEF HasList, Memories
<1>15. TypeOK'
  <2>1. s[k + 1] \in Addresses
    <3>1. k + 1 \in 1 .. n
      BY <1>4 DEF Contiguous
    <3> QED
      BY <3>1 DEF Chunks
  <2>2. g \in Addresses \X (1 .. MaxArray)
    BY <2>1 DEF g
  <2> QED
    BY <1>6, <1>9, <2>2 DEF IInv, TypeOK
<1> QED
  BY <1>11, <1>14, <1>15 DEF IInv

LEMMA MallocKeeps == BlocksAssumption /\ IInv /\ Malloc => IInv'
<1> SUFFICES ASSUME BlocksAssumption, IInv, Malloc PROVE IInv'
  OBVIOUS
<1>1. HandOut(malloc(mem), 1) /\ ~empty(mem)
  BY DEF Malloc
<1>2. 1 \in 1 .. MaxArray
  BY DEF BlocksAssumption
<1>3. mem' = Overwritten(malloc(mem).mem, malloc(mem).ret, 1)
  BY <1>1 DEF HandOut
<1>4. ASSUME NEW n \in Nat, NEW s \in [1 .. n -> Chunks], Linked(mem, n, s), Apart(n, s)
      PROVE  \E k \in 0 .. n : /\ malloc(mem).ret = s[k + 1] /\ Contiguous(n, s, k, 1)
                               /\ Removes(mem, mem', s, k, 1)
  <2>1. 0 \in 0 .. n /\ 0 + 1 = 1
    OBVIOUS
  <2>2. malloc(mem).ret = s[1] /\ Contiguous(n, s, 0, 1) /\ Removes(mem, mem', s, 0, 1)
    BY <1>1, <1>3, <1>4, MallocRemoves
  <2> QED
    BY <2>1, <2>2
<1> DEFINE r == malloc(mem)
<1> HIDE DEF r
<1>5. HandOut(r, 1) /\ \A n \in Nat : \A s \in [1 .. n -> Chunks] :
         Linked(mem, n, s) /\ Apart(n, s) =>
            \E k \in 0 .. n : /\ r.ret = s[k + 1] /\ Contiguous(n, s, k, 1)
                              /\ Removes(mem, mem', s, k, 1)
  BY <1>1, <1>4 DEF r
<1> QED
  BY <1>2, <1>5, HandOutKeeps

LEMMA MallocNKeeps ==
  ASSUME BlocksAssumption, IInv, NEW x \in 1 .. MaxArray, MallocN(x)
  PROVE  IInv'
<1>1. HandOut(malloc_n(mem, x), x)
  BY DEF MallocN
<1>2. x \in Nat \ {0}
  BY DEF BlocksAssumption
<1>3. mem' = Overwritten(malloc_n(mem, x).mem, malloc_n(mem, x).ret, x) /\ malloc_n(mem, x).ret # Null
  BY <1>1 DEF HandOut
<1>4. ASSUME NEW n \in Nat, NEW s \in [1 .. n -> Chunks], Linked(mem, n, s), Apart(n, s)
      PROVE  \E k \in 0 .. n : /\ malloc_n(mem, x).ret = s[k + 1] /\ Contiguous(n, s, k, x)
                               /\ Removes(mem, mem', s, k, x)
  BY <1>2, <1>3, <1>4, MallocNRemoves
<1> DEFINE r == malloc_n(mem, x)
<1> HIDE DEF r
<1>5. HandOut(r, x) /\ \A n \in Nat : \A s \in [1 .. n -> Chunks] :
         Linked(mem, n, s) /\ Apart(n, s) =>
            \E k \in 0 .. n : /\ r.ret = s[k + 1] /\ Contiguous(n, s, k, x)
                              /\ Removes(mem, mem', s, k, x)
  BY <1>1, <1>4 DEF r
<1> QED
  BY <1>5, HandOutKeeps

LEMMA AddBlockKeeps ==
  ASSUME BlocksAssumption, IInv, NEW b \in Blocks, AddBlock(b)
  PROVE  IInv'
<1>1. PICK n \in Nat : \E s \in [1 .. n -> Chunks] : Kept(mem, Owned, held, n, s)
  BY DEF IInv, HasList
<1>2. PICK s \in [1 .. n -> Chunks] : Kept(mem, Owned, held, n, s)
  BY <1>1
<1>3. /\ b \notin added /\ added' = added \cup {b} /\ held' = held
      /\ (Unordered /\ mem' = add_block(mem, b[1], b[2])) \/ mem' = add_ordered_block(mem, b[1], b[2])
  BY DEF AddBlock
<1>4. /\ b[1] \in Nat \ {0} /\ b[2] \in Nat /\ b[2] >= PartitionSize /\ added' \subseteq Blocks
      /\ \A c \in added : Bytes(b[1], b[2]) \cap Bytes(c[1], c[2]) = {}
  BY <1>3, SMTT(20) DEF BlocksAssumption, IInv, TypeOK
<1>5. Owned' = Owned \cup Bytes(b[1], b[2]) /\ Bytes(b[1], b[2]) \cap Owned = {}
  BY <1>3, <1>4 DEF Owned
<1>6. Owned' \subseteq Addresses /\ Owned \subseteq Owned' /\ Bytes(b[1], b[2]) \subseteq Owned'
  <2>1. Owned \subseteq Addresses
    BY OwnedAddresses DEF IInv
  <2> QED
    BY <1>5, <2>1 DEF Addresses
<1>7. \A i \in 1 .. n : Bytes(s[i], PartitionSize) \cap Bytes(b[1], b[2]) = {}
  BY <1>2, <1>5, Zenon DEF Kept
<1>8. \A h \in held : Bytes(b[1], b[2]) \cap ArrayBytes(h) = {}
  BY <1>5 DEF IInv, HeldDisjoint
<1>9. HasList(mem', Owned', held)
  <2>1. mem \in Memories /\ held \subseteq held
    BY DEF IInv, HasList
  <2> QED
    BY <1>2, <1>3, <1>4, <1>6, <1>7, <1>8, <2>1, BlockKeeps, Zenon
<1>10. TypeOK' /\ HeldDisjoint'
  BY <1>3, <1>4, <1>6, <1>9 DEF IInv, TypeOK, HeldDisjoint, HasList, Memories
<1> QED
  BY <1>3, <1>9, <1>10 DEF IInv

LEMMA FreeKeeps ==
  ASSUME BlocksAssumption, IInv, NEW h \in held, Free(h) \/ FreeN(h)
  PROVE  IInv'
<1>1. PICK n \in Nat : \E s \in [1 .. n -> Chunks] : Kept(mem, Owned, held, n, s)
  BY DEF IInv, HasList
<1>2. PICK s \in [1 .. n -> Chunks] : Kept(mem, Owned, held, n, s)
  BY <1>1
<1> DEFINE c == h[1]
           sz == PartitionSize * h[2]
           rest == held \ {h}
<1>3. c \in Addresses /\ h[2] \in Nat \ {0} /\ PartitionSize \in Nat \ {0}
  BY DEF IInv, TypeOK, BlocksAssumption
<1>4. ArrayBytes(h) = Bytes(c, sz) /\ Bytes(c, sz) \subseteq Owned
  BY DEF ArrayBytes, IInv, HeldDisjoint
<1>5. Owned \subseteq Addresses /\ free_list \notin Owned
  BY OwnedAddresses DEF IInv
<1>6. sz \in Nat /\ sz >= PartitionSize /\ (h[2] = 1 => sz = PartitionSize)
  BY <1>3, SMTT(20)
<1>7. /\ \A i \in 1 .. n : Bytes(s[i], PartitionSize) \cap Bytes(c, sz) = {}
      /\ \A g \in rest : Bytes(c, sz) \cap ArrayBytes(g) = {}
      /\ rest \subseteq held
  <2>1. \A i \in 1 .. n : Bytes(s[i], PartitionSize) \cap ArrayBytes(h) = {}
    BY <1>2, Zenon DEF Kept
  <2>2. \A g \in held : g # h => ArrayBytes(h) \cap ArrayBytes(g) = {}
    BY Zenon DEF IInv, HeldDisjoint
  <2>3. \A g \in rest : g \in held /\ g # h
    BY Zenon
  <2> HIDE DEF rest
  <2>4. \A g \in rest : Bytes(c, sz) \cap ArrayBytes(g) = {}
    BY <1>4, <2>2, <2>3, Zenon
  <2> QED
    BY <1>4, <2>1, <2>3, <2>4, Zenon
<1> HIDE DEF sz
<1>8. c \in Nat \ {0}
  <2>1. c \in Nat
    BY <1>3, AddressesAreNat
  <2>2. c \in Bytes(c, sz)
    BY <1>3, <1>6, <2>1 DEF Bytes
  <2> QED
    BY <1>4, <1>5, <2>1, <2>2 DEF free_list
<1>9. mem \in Memories
  BY DEF IInv, HasList
<1>10. HasList(mem', Owned, rest) /\ held' = rest /\ added' = added
  <2>1. CASE Free(h)
    <3>1. /\ h[2] = 1 /\ held' = rest /\ added' = added
          /\ (Unordered /\ mem' = free(mem, c)) \/ mem' = ordered_free(mem, c)
      BY <2>1 DEF Free, GiveBack
    <3>2. /\ Bytes(c, PartitionSize) \subseteq Owned
          /\ \A i \in 1 .. n : Bytes(s[i], PartitionSize) \cap Bytes(c, PartitionSize) = {}
          /\ \A g \in rest : Bytes(c, PartitionSize) \cap ArrayBytes(g) = {}
      BY <1>4, <1>6, <1>7, <3>1
    <3> HIDE DEF c, rest
    <3> QED
      BY <1>2, <1>5, <1>7, <1>8, <1>9, <3>1, <3>2, ChunkKeeps, Zenon
  <2>2. CASE FreeN(h)
    <3>1. /\ held' = rest /\ added' = added
          /\ (Unordered /\ mem' = add_block(mem, c, sz)) \/ mem' = add_ordered_block(mem, c, sz)
      BY <2>2 DEF FreeN, GiveBack, free_n, ordered_free_n, sz
    <3>2. Owned \subseteq Owned
      OBVIOUS
    <3> HIDE DEF c, rest
    <3> QED
      BY <1>2, <1>4, <1>5, <1>6, <1>7, <1>8, <1>9, <3>1, <3>2, BlockKeeps, Zenon
  <2> QED
    BY <2>1, <2>2
<1>11. Owned' = Owned
  BY <1>10 DEF Owned
<1>12. TypeOK' /\ HeldDisjoint'
  <2>1. TypeOK'
    BY <1>10 DEF IInv, TypeOK, HasList, Memories
  <2>2. HeldDisjoint'
    BY <1>7, <1>10, <1>11 DEF IInv, HeldDisjoint
  <2> QED
    BY <2>1, <2>2
<1> QED
  BY <1>10, <1>11, <1>12 DEF IInv

LEMMA NextInv == BlocksAssumption /\ IInv /\ [Next]_vars => IInv'
<1> SUFFICES ASSUME BlocksAssumption, IInv, [Next]_vars PROVE IInv'
  OBVIOUS
<1>1. CASE \E b \in Blocks : AddBlock(b)
  BY <1>1, AddBlockKeeps
<1>2. CASE Reset
  BY <1>2, ResetKeeps
<1>3. CASE Malloc
  BY <1>3, MallocKeeps
<1>4. CASE \E n \in 1 .. MaxArray : MallocN(n)
  BY <1>4, MallocNKeeps
<1>5. CASE \E h \in held : Free(h) \/ FreeN(h)
  BY <1>5, FreeKeeps
<1>6. CASE UNCHANGED vars
  BY <1>6 DEF vars, IInv, TypeOK, HeldDisjoint, HasList, Owned, Kept
<1> QED
  BY <1>1, <1>2, <1>3, <1>4, <1>5, <1>6 DEF Next

LEMMA InvImpliesSound == BlocksAssumption /\ IInv => StorageSound
<1> SUFFICES ASSUME BlocksAssumption, IInv PROVE StorageSound
  OBVIOUS
<1>1. PICK n \in Nat : \E s \in [1 .. n -> Chunks] : Kept(mem, Owned, held, n, s)
  BY DEF IInv, HasList
<1>2. PICK s \in [1 .. n -> Chunks] : Kept(mem, Owned, held, n, s)
  BY <1>1
<1>3. /\ Linked(mem, n, s) /\ Apart(n, s) /\ (~Unordered => Ascending(n, s))
      /\ \A i \in 1 .. n : /\ Bytes(s[i], PartitionSize) \subseteq Owned
                           /\ \A h \in held : Bytes(s[i], PartitionSize) \cap ArrayBytes(h) = {}
  BY <1>2 DEF Kept
<1>4. PICK last \in Nat : Positions = 0 .. last /\ n <= last
  BY <1>3, Length
<1>5. FreeList = [k \in Positions |-> IF k < n THEN s[k + 1] ELSE Null]
  BY <1>3, ChainIs DEF FreeList
<1>6. \A k \in Positions : FreeList[k] = IF k < n THEN s[k + 1] ELSE Null
  BY <1>5
<1>7. \A i \in 1 .. n : s[i] # Null /\ s[i] # User
  BY ChunksAreNat
<1>8. \A c \in FreeChunks : \E i \in 1 .. n : c = s[i]
  <2>1. \A k \in Positions : k < n => k + 1 \in 1 .. n
    BY <1>4
  <2> QED
    BY <1>6, <2>1 DEF FreeChunks
<1>9. FreeListSound
  <2>1. \E k \in Positions : FreeList[k] = Null
    <3>1. n \in Positions /\ ~(n < n)
      BY <1>4
    <3> QED
      BY <1>6, <3>1
  <2>2. ASSUME NEW c \in FreeChunks
        PROVE  /\ c # User
               /\ Bytes(c, PartitionSize) \subseteq Owned
               /\ \A d \in FreeChunks \ {c} :
                     Bytes(c, PartitionSize) \cap Bytes(d, PartitionSize) = {}
               /\ \A h \in held :
                     Bytes(c, PartitionSize) \cap ArrayBytes(h) = {}
    <3>1. PICK i \in 1 .. n : c = s[i]
      BY <1>8
    <3>2. ASSUME NEW d \in FreeChunks \ {c}
          PROVE  Bytes(c, PartitionSize) \cap Bytes(d, PartitionSize) = {}
      <4>1. PICK j \in 1 .. n : d = s[j]
        BY <1>8
      <4> QED
        BY <1>3, <3>1, <3>2, <4>1 DEF Apart
    <3> QED
      BY <1>3, <1>7, <3>1, <3>2
  <2> QED
    BY <2>1, <2>2 DEF FreeListSound
<1>10. ~Unordered => TailOrdered
  <2>1. SUFFICES ASSUME ~Unordered, NEW k \in Positions, k > 1, FreeList[k] # Null
                 PROVE  FreeList[k - 1] < FreeList[k]
    BY DEF TailOrdered
  <2>2. k < n
    BY <1>6, <2>1
  <2>3. k \in 2 .. n - 1 /\ k - 1 \in Positions /\ k - 1 < n /\ (k - 1) + 1 = k
    BY <1>4, <2>1, <2>2
  <2>4. s[k] < s[k + 1]
    BY <1>3, <2>1, <2>3 DEF Ascending
  <2> QED
    BY <1>6, <2>2, <2>3, <2>4
<1> QED
  BY <1>9, <1>10 DEF StorageSound, IInv

\* Whatever blocks are added and however the calls of add_block(), malloc(),
\* malloc_n(), free(), free_n(), their ordered forms and reset() follow each other, the
\* free list ends, stays in the storage's memory and apart from what users hold, no
\* byte belongs to two users, and the ordered calls alone keep the list in order.
THEOREM StorageCorrect ==
  ASSUME BlocksAssumption
  PROVE  Spec => [](TypeOK /\ StorageSound)
<1>1. Init => IInv
  BY InitInv
<1>2. IInv /\ [Next]_vars => IInv'
  BY NextInv
<1>3. IInv => TypeOK /\ StorageSound
  BY InvImpliesSound DEF IInv
<1> QED
  BY <1>1, <1>2, <1>3, PTL DEF Spec

=============================================================================
