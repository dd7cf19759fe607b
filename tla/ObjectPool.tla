----------------------------- MODULE ObjectPool -----------------------------
(***************************************************************************)
(* object_pool (object_pool.hpp): chunks of a pool, each holding an object *)
(* and its place in a doubly linked list of all objects in use, which the  *)
(* destructor of the object_pool walks.  malloc and free hold the mutex    *)
(* for their whole body; construct and destroy run the constructor and the *)
(* destructor of the object outside it, so that the calls of several       *)
(* threads interleave between the two halves.                              *)
(*                                                                         *)
(* The pool that the chunks come from (module Pool) is here a set of free  *)
(* chunks.  It is never exhausted: malloc does not test what it returns.   *)
(***************************************************************************)
EXTENDS Integers, FiniteSets, FiniteSetTheorems, TLAPS

CONSTANTS
    Chunks, Null,
    Throws      \* may the constructor of an object throw?

VARIABLES
    obj_list_, prev, next,
    object,     \* per chunk: "free", "building", "raw", "live" or "ending"
    misused,    \* has a destructor run on something that is not an object?
    destroyed   \* has the object_pool been destroyed?

vars == <<obj_list_, prev, next, object, misused, destroyed>>

Init ==
    /\ obj_list_ = Null
    /\ prev = [c \in Chunks |-> Null]
    /\ next = [c \in Chunks |-> Null]
    /\ object = [c \in Chunks |-> "free"]
    /\ misused = FALSE
    /\ destroyed = FALSE

\* Mutant of malloc: the old head keeps its null prev.
MallocForgetsPrev(c) ==
    /\ ~destroyed
    /\ object[c] = "free"
    /\ prev' = [prev EXCEPT ![c] = Null]
    /\ next' = [next EXCEPT ![c] = obj_list_]
    /\ obj_list_' = c
    /\ object' = [object EXCEPT ![c] = "building"]
    /\ UNCHANGED <<misused, destroyed>>

\* construct, first half: malloc links the chunk in front of the list.
malloc(c) ==
    /\ ~destroyed
    /\ object[c] = "free"
    /\ prev' = [a \in Chunks |-> IF a = c THEN Null
                                 ELSE IF a = obj_list_ THEN c ELSE prev[a]]
    /\ next' = [next EXCEPT ![c] = obj_list_]
    /\ obj_list_' = c
    /\ object' = [object EXCEPT ![c] = "building"]
    /\ UNCHANGED <<misused, destroyed>>

\* construct, second half: the constructor.  When it throws, the chunk stays in
\* the list and its address is lost with the exception.
construct(c) ==
    /\ object[c] = "building"
    /\ \/ object' = [object EXCEPT ![c] = "live"]
       \/ Throws /\ object' = [object EXCEPT ![c] = "raw"]
    /\ UNCHANGED <<obj_list_, prev, next, misused, destroyed>>

\* destroy, first half: the destructor of the object.
destroy(c) ==
    /\ ~destroyed
    /\ object[c] = "live"
    /\ object' = [object EXCEPT ![c] = "ending"]
    /\ UNCHANGED <<obj_list_, prev, next, misused, destroyed>>

\* Mutant of free: forgets the case of the first chunk.
FreeKeepsHead(c) ==
    /\ object[c] = "ending"
    /\ next' = [a \in Chunks |-> IF a = prev[c] THEN next[c] ELSE next[a]]
    /\ prev' = [a \in Chunks |-> IF a = next[c] THEN prev[c] ELSE prev[a]]
    /\ object' = [object EXCEPT ![c] = "free"]
    /\ UNCHANGED <<obj_list_, misused, destroyed>>

\* destroy, second half: free unlinks the chunk.
free(c) ==
    /\ object[c] = "ending"
    /\ next' = [a \in Chunks |-> IF a = prev[c] THEN next[c] ELSE next[a]]
    /\ prev' = [a \in Chunks |-> IF a = next[c] THEN prev[c] ELSE prev[a]]
    /\ object' = [object EXCEPT ![c] = "free"]
    /\ obj_list_' = IF obj_list_ = c THEN next[c] ELSE obj_list_
    /\ UNCHANGED <<misused, destroyed>>

\* Where ~object_pool is after k - 1 steps along the list, and the chunks it visits.
Positions == 1 .. Cardinality(Chunks) + 1
visited[k \in Positions] ==
    IF k = 1 THEN obj_list_
    ELSE IF visited[k - 1] = Null THEN Null ELSE next[visited[k - 1]]
Walk == {visited[k] : k \in Positions} \ {Null}

\* ~object_pool, once every thread has left construct and destroy.
Destructor ==
    /\ ~destroyed
    /\ \A c \in Chunks : object[c] \notin {"building", "ending"}
    /\ destroyed' = TRUE
    /\ misused' = (\E c \in Walk : object[c] # "live")
    /\ object' = [c \in Chunks |-> IF c \in Walk THEN "free" ELSE object[c]]
    /\ obj_list_' = Null
    /\ UNCHANGED <<prev, next>>

Next ==
    \/ \E c \in Chunks : malloc(c) \/ construct(c) \/ destroy(c) \/ free(c)
    \/ Destructor

Spec == Init /\ [][Next]_vars

-----------------------------------------------------------------------------
(* Properties. *)

TypeOK ==
    /\ obj_list_ \in Chunks \cup {Null}
    /\ prev \in [Chunks -> Chunks \cup {Null}]
    /\ next \in [Chunks -> Chunks \cup {Null}]
    /\ object \in [Chunks -> {"free", "building", "raw", "live", "ending"}]
    /\ misused \in BOOLEAN /\ destroyed \in BOOLEAN

\* Whatever the order in which the threads' mallocs and frees get the mutex, the
\* list runs through exactly the chunks in use, and prev is the inverse of next.
ListExact ==
    ~destroyed =>
        /\ Walk = {c \in Chunks : object[c] # "free"}
        /\ \A c \in Walk :
              /\ prev[c] = Null <=> c = obj_list_
              /\ next[c] # Null => prev[next[c]] = c
              /\ prev[c] # Null => next[prev[c]] = c

\* The destructor of the object_pool ends the life of every object, and runs the
\* destructor of nothing but objects, as long as no constructor throws.
EveryObjectEnds ==
    /\ ~misused
    /\ destroyed => \A c \in Chunks : object[c] = "free"

\* The list of an object_pool runs through exactly the chunks in use, and, as long as
\* no constructor throws, ~object_pool ends the life of every object and of nothing else.
ObjectsSound == ListExact /\ (~Throws => EveryObjectEnds)

-----------------------------------------------------------------------------
(* The proof of ObjectsSound for any number of chunks.  The invariant names the *)
(* order of the chunks on the list, which no variable holds.                    *)

ChunksAssumption == IsFiniteSet(Chunks) /\ Null \notin Chunks /\ Throws \in BOOLEAN

\* The list is s[1], ..., s[n].
Linked(n, s) ==
    /\ obj_list_ = IF n = 0 THEN Null ELSE s[1]
    /\ \A i \in 1 .. n : next[s[i]] = IF i = n THEN Null ELSE s[i + 1]
    /\ \A i \in 1 .. n : prev[s[i]] = IF i = 1 THEN Null ELSE s[i - 1]
    /\ \A i, j \in 1 .. n : s[i] = s[j] => i = j

\* ... and holds the chunks in use.
Exactly(n, s) == \A c \in Chunks : object[c] # "free" <=> \E i \in 1 .. n : s[i] = c

IInv ==
    /\ TypeOK
    /\ ~destroyed => \E n \in Nat : \E s \in [1 .. n -> Chunks] : Linked(n, s) /\ Exactly(n, s)
    /\ destroyed => \A c \in Chunks : object[c] = "free"
    /\ ~Throws => ~misused /\ \A c \in Chunks : object[c] # "raw"

\* Every set of naturals has a least element.
LEMMA Least ==
  ASSUME NEW T, T \subseteq Nat, T # {}
  PROVE  \E x \in T : \A y \in T : x <= y
<1> DEFINE R == OpToRel(<, Nat)
<1>1. IsWellFoundedOn(R, Nat)
  BY NatLessThanWellFounded, Zenon
<1>2. \A x, y \in Nat : y < x => <<y, x>> \in R
  BY DEF OpToRel
<1> HIDE DEF R
<1>3. PICK x \in T : \A y \in T : ~(<<y, x>> \in R)
  BY <1>1, WFMin, Zenon
<1>4. \A y \in T : x \in Nat /\ y \in Nat /\ ~(y < x)
  BY <1>2, <1>3
<1> QED
  BY <1>4

\* A list without repetitions is no longer than there are chunks.
LEMMA Length ==
  ASSUME ChunksAssumption, NEW n \in Nat, NEW s \in [1 .. n -> Chunks],
         \A i, j \in 1 .. n : s[i] = s[j] => i = j
  PROVE  n <= Cardinality(Chunks) /\ Cardinality(Chunks) \in Nat
<1>1. s \in Injection(1 .. n, Chunks)
  BY DEF Injection, IsInjective
<1>2. Cardinality(1 .. n) <= Cardinality(Chunks)
  BY <1>1, FS_Injection DEF ChunksAssumption
<1>3. Cardinality(1 .. n) = n
  BY FS_Interval
<1>4. Cardinality(Chunks) \in Nat
  BY FS_CardinalityType DEF ChunksAssumption
<1> QED
  BY <1>2, <1>3, <1>4

\* The recursion of visited along a list.
LEMMA VisitedIs ==
  ASSUME ChunksAssumption, NEW n \in Nat, NEW s \in [1 .. n -> Chunks], Linked(n, s)
  PROVE  visited = [k \in Positions |-> IF k <= n THEN s[k] ELSE Null]
<1> DEFINE G == [k \in Positions |-> IF k <= n THEN s[k] ELSE Null]
           Step(g) == [k \in Positions |->
                          IF k = 1 THEN obj_list_
                          ELSE IF g[k - 1] = Null THEN Null ELSE next[g[k - 1]]]
<1>1. Cardinality(Chunks) \in Nat
  BY Length DEF Linked
<1>2. G = Step(G)
  <2>1. ASSUME NEW k \in Positions PROVE G[k] = Step(G)[k]
    <3>1. k \in Nat /\ k >= 1 /\ (k # 1 => k - 1 \in Positions)
      BY <1>1 DEF Positions
    <3>2. CASE k = 1
      BY <3>1, <3>2 DEF Linked
    <3>3. CASE k # 1
      BY <3>1, <3>3 DEF Linked, ChunksAssumption
    <3> QED
      BY <3>2, <3>3
  <2> QED
    BY <2>1
<1>3. visited = Step(visited)
  BY <1>2 DEF visited
<1>4. ASSUME NEW k \in Positions, \A j \in Positions : j < k => visited[j] = G[j]
      PROVE  visited[k] = G[k]
  <2>1. k \in Nat /\ k >= 1 /\ (k # 1 => k - 1 \in Positions /\ k - 1 < k)
    BY <1>1 DEF Positions
  <2>2. CASE k = 1
    BY <1>2, <1>3, <2>2
  <2>3. CASE k # 1
    <3>1. visited[k - 1] = G[k - 1]
      BY <1>4, <2>1, <2>3
    <3>2. visited[k] = Step(visited)[k] /\ G[k] = Step(G)[k]
      BY <1>2, <1>3
    <3> HIDE DEF G
    <3> QED
      BY <2>3, <3>1, <3>2
  <2> QED
    BY <2>2, <2>3
<1>5. \A k \in Positions : visited[k] = G[k]
  <2> DEFINE Bad == {k \in Positions : visited[k] # G[k]}
  <2>1. CASE Bad # {}
    <3>1. Bad \subseteq Nat
      BY <1>1 DEF Positions
    <3>2. PICK k \in Bad : \A j \in Bad : k <= j
      BY <2>1, <3>1, Least
    <3>3. \A j \in Positions : j < k => visited[j] = G[j]
      BY <1>1, <3>2 DEF Positions
    <3> QED
      BY <1>4, <3>3
  <2> QED
    BY <2>1
<1> QED
  BY <1>3, <1>5

\* So ~object_pool visits exactly the chunks of the list.
LEMMA WalkIs ==
  ASSUME ChunksAssumption, NEW n \in Nat, NEW s \in [1 .. n -> Chunks], Linked(n, s)
  PROVE  Walk = {s[i] : i \in 1 .. n}
<1>1. n <= Cardinality(Chunks) /\ Cardinality(Chunks) \in Nat
  BY Length DEF Linked
<1>2. visited = [k \in Positions |-> IF k <= n THEN s[k] ELSE Null]
  BY VisitedIs
<1>3. \A k \in 1 .. n : k \in Positions /\ visited[k] = s[k] /\ s[k] # Null
  BY <1>1, <1>2 DEF Positions, ChunksAssumption
<1>4. \A k \in Positions : k \in 1 .. n \/ visited[k] = Null
  BY <1>1, <1>2 DEF Positions
<1> QED
  BY <1>3, <1>4 DEF Walk

LEMMA MallocKeeps ==
  ASSUME ChunksAssumption, IInv, NEW c \in Chunks, malloc(c)
  PROVE  IInv'
<1>1. TypeOK'
  BY DEF IInv, TypeOK, malloc
<1>2. PICK n \in Nat : \E s \in [1 .. n -> Chunks] : Linked(n, s) /\ Exactly(n, s)
  BY DEF IInv, malloc
<1>3. PICK s \in [1 .. n -> Chunks] : Linked(n, s) /\ Exactly(n, s)
  BY <1>2
<1> DEFINE t == [i \in 1 .. n + 1 |-> IF i = 1 THEN c ELSE s[i - 1]]
<1>4. /\ t \in [1 .. n + 1 -> Chunks] /\ t[1] = c
      /\ \A i \in 1 .. n : i + 1 \in 1 .. n + 1 /\ t[i + 1] = s[i] /\ s[i] # c
      /\ \A i \in 1 .. n + 1 : i = 1 \/ (i - 1 \in 1 .. n /\ i = (i - 1) + 1)
  BY <1>3 DEF malloc, Exactly
<1> HIDE DEF t
<1>5. Linked(n + 1, t)'
  <2>1. obj_list_' = t[1]
    BY <1>4 DEF malloc
  <2>2. ASSUME NEW i \in 1 .. n + 1
        PROVE  next'[t[i]] = IF i = n + 1 THEN Null ELSE t[i + 1]
    BY <1>3, <1>4 DEF malloc, Linked, IInv, TypeOK
  <2>3. ASSUME NEW i \in 1 .. n + 1
        PROVE  prev'[t[i]] = IF i = 1 THEN Null ELSE t[i - 1]
    <3>1. CASE i = 1
      BY <1>4, <3>1 DEF malloc
    <3>2. CASE i = 2
      BY <1>3, <1>4, <3>2 DEF malloc, Linked
    <3>3. CASE i > 2
      <4>1. i - 1 \in 1 .. n /\ t[i] = s[i - 1] /\ t[i - 1] = s[i - 2] /\ n # 0
        BY <1>4, <3>3
      <4>2. s[i - 1] # obj_list_ /\ s[i - 1] # c /\ prev[s[i - 1]] = s[i - 2]
        BY <1>3, <1>4, <3>3, <4>1 DEF Linked
      <4> QED
        BY <3>3, <4>1, <4>2 DEF malloc
    <3> QED
      BY <3>1, <3>2, <3>3
  <2>4. ASSUME NEW i \in 1 .. n + 1, NEW j \in 1 .. n + 1, t[i] = t[j]
        PROVE  i = j
    BY <1>3, <1>4, <2>4 DEF Linked
  <2> QED
    BY <2>1, <2>2, <2>3, <2>4 DEF Linked
<1>6. Exactly(n + 1, t)'
  <2> SUFFICES ASSUME NEW a \in Chunks
               PROVE  object'[a] # "free" <=> \E i \in 1 .. n + 1 : t[i] = a
    BY DEF Exactly
  <2>1. object'[a] # "free" <=> a = c \/ object[a] # "free"
    BY DEF malloc, IInv, TypeOK
  <2>2. (\E i \in 1 .. n + 1 : t[i] = a) <=> a = c \/ \E i \in 1 .. n : s[i] = a
    <3>1. ASSUME NEW i \in 1 .. n, s[i] = a PROVE \E k \in 1 .. n + 1 : t[k] = a
      BY <1>4, <3>1
    <3>2. a = c => \E k \in 1 .. n + 1 : t[k] = a
      BY <1>4
    <3>3. ASSUME NEW k \in 1 .. n + 1, t[k] = a, a # c PROVE \E i \in 1 .. n : s[i] = a
      <4>1. k - 1 \in 1 .. n /\ t[(k - 1) + 1] = s[k - 1] /\ k = (k - 1) + 1
        BY <1>4, <3>3
      <4> QED
        BY <3>3, <4>1
    <3> QED
      BY <3>1, <3>2, <3>3
  <2> QED
    BY <1>3, <2>1, <2>2 DEF Exactly
<1>7. ~Throws => ~misused' /\ \A a \in Chunks : object'[a] # "raw"
  BY DEF IInv, TypeOK, malloc
<1>8. ~destroyed'
  BY DEF malloc
<1> QED
  BY <1>1, <1>4, <1>5, <1>6, <1>7, <1>8 DEF IInv

LEMMA FreeKeeps ==
  ASSUME ChunksAssumption, IInv, NEW c \in Chunks, free(c)
  PROVE  IInv'
<1>1. TypeOK'
  BY DEF IInv, TypeOK, free
<1>2. ~destroyed
  BY DEF IInv, free
<1>3. PICK n \in Nat : \E s \in [1 .. n -> Chunks] : Linked(n, s) /\ Exactly(n, s)
  BY <1>2 DEF IInv
<1>4. PICK s \in [1 .. n -> Chunks] : Linked(n, s) /\ Exactly(n, s)
  BY <1>3
<1>5. PICK m \in 1 .. n : s[m] = c
  BY <1>4 DEF free, Exactly
<1> DEFINE t == [i \in 1 .. n - 1 |-> IF i < m THEN s[i] ELSE s[i + 1]]
<1>6. /\ n - 1 \in Nat /\ t \in [1 .. n - 1 -> Chunks]
      /\ \A i \in 1 .. n - 1 : /\ i < m => i \in 1 .. n /\ t[i] = s[i]
                               /\ i >= m => i + 1 \in 1 .. n /\ t[i] = s[i + 1]
  OBVIOUS
<1> HIDE DEF t
<1>7. /\ \A i, j \in 1 .. n : s[i] = s[j] => i = j
      /\ \A i \in 1 .. n : s[i] # Null
      /\ prev[c] = IF m = 1 THEN Null ELSE s[m - 1]
      /\ next[c] = IF m = n THEN Null ELSE s[m + 1]
  BY <1>4, <1>5 DEF Linked, ChunksAssumption
<1>8. Linked(n - 1, t)'
  <2>1. obj_list_' = IF n - 1 = 0 THEN Null ELSE t[1]
    <3>1. CASE m = 1
      BY <1>4, <1>5, <1>6, <1>7, <3>1 DEF free, Linked
    <3>2. CASE m # 1
      BY <1>4, <1>5, <1>6, <1>7, <3>2 DEF free, Linked
    <3> QED
      BY <3>1, <3>2
  <2>2. ASSUME NEW i \in 1 .. n - 1
        PROVE  next'[t[i]] = IF i = n - 1 THEN Null ELSE t[i + 1]
    <3>1. CASE i < m - 1
      <4>1. /\ i \in 1 .. n /\ m - 1 \in 1 .. n /\ i # m - 1 /\ i # n - 1
            /\ t[i] = s[i] /\ t[i + 1] = s[i + 1]
        BY <1>6, <3>1
      <4>2. s[i] # prev[c] /\ next[s[i]] = s[i + 1]
        BY <1>4, <1>7, <3>1, <4>1 DEF Linked
      <4> QED
        BY <4>1, <4>2 DEF free
    <3>2. CASE i = m - 1
      <4>1. t[i] = s[i] /\ s[i] = prev[c] /\ s[i] \in Chunks /\ m # 1
        BY <1>6, <1>7, <3>2
      <4>2. next[c] = IF i = n - 1 THEN Null ELSE t[i + 1]
        BY <1>6, <1>7, <3>2
      <4> QED
        BY <4>1, <4>2 DEF free
    <3>3. CASE i >= m
      <4>1. /\ i + 1 \in 1 .. n /\ t[i] = s[i + 1] /\ s[i + 1] \in Chunks
            /\ i # n - 1 => t[i + 1] = s[(i + 1) + 1]
        BY <1>6, <3>3
      <4>2. s[i + 1] # prev[c]
        BY <1>7, <3>3, <4>1
      <4>3. next[s[i + 1]] = IF i + 1 = n THEN Null ELSE s[(i + 1) + 1]
        BY <1>4, <4>1 DEF Linked
      <4> QED
        BY <4>1, <4>2, <4>3 DEF free
    <3> QED
      BY <3>1, <3>2, <3>3
  <2>3. ASSUME NEW i \in 1 .. n - 1
        PROVE  prev'[t[i]] = IF i = 1 THEN Null ELSE t[i - 1]
    <3>1. CASE i < m
      <4>1. /\ i \in 1 .. n /\ t[i] = s[i] /\ s[i] \in Chunks
            /\ i # 1 => t[i - 1] = s[i - 1]
        BY <1>6, <3>1
      <4>2. s[i] # next[c]
        BY <1>7, <3>1, <4>1
      <4>3. prev[s[i]] = IF i = 1 THEN Null ELSE s[i - 1]
        BY <1>4, <4>1 DEF Linked
      <4> QED
        BY <4>1, <4>2, <4>3 DEF free
    <3>2. CASE i = m
      <4>1. t[i] = s[i + 1] /\ s[i + 1] = next[c] /\ s[i + 1] \in Chunks
        BY <1>6, <1>7, <3>2
      <4>2. prev[c] = IF i = 1 THEN Null ELSE t[i - 1]
        BY <1>6, <1>7, <3>2
      <4> QED
        BY <4>1, <4>2 DEF free
    <3>3. CASE i > m
      <4>1. /\ i + 1 \in 1 .. n /\ t[i] = s[i + 1] /\ s[i + 1] \in Chunks
            /\ i # 1 /\ t[i - 1] = s[i]
        BY <1>6, <3>3
      <4>2. s[i + 1] # next[c]
        BY <1>7, <3>3, <4>1
      <4>3. prev[s[i + 1]] = s[i]
        BY <1>4, <4>1 DEF Linked
      <4> QED
        BY <4>1, <4>2, <4>3 DEF free
    <3> QED
      BY <3>1, <3>2, <3>3
  <2>4. ASSUME NEW i \in 1 .. n - 1, NEW j \in 1 .. n - 1, t[i] = t[j]
        PROVE  i = j
    BY <1>6, <1>7, <2>4
  <2> QED
    BY <2>1, <2>2, <2>3, <2>4 DEF Linked
<1>9. Exactly(n - 1, t)'
  <2> SUFFICES ASSUME NEW a \in Chunks
               PROVE  object'[a] # "free" <=> \E i \in 1 .. n - 1 : t[i] = a
    BY DEF Exactly
  <2>1. object'[a] # "free" <=> a # c /\ object[a] # "free"
    BY DEF free, IInv, TypeOK
  <2>2. ASSUME NEW i \in 1 .. n, s[i] = a, a # c PROVE \E k \in 1 .. n - 1 : t[k] = a
    <3>1. CASE i < m
      BY <1>6, <2>2, <3>1
    <3>2. CASE i > m
      <4>1. i - 1 \in 1 .. n - 1 /\ t[i - 1] = s[i]
        BY <1>6, <3>2
      <4> QED
        BY <2>2, <4>1
    <3> QED
      BY <1>5, <2>2, <3>1, <3>2
  <2>3. ASSUME NEW k \in 1 .. n - 1, t[k] = a PROVE a # c /\ \E i \in 1 .. n : s[i] = a
    BY <1>5, <1>6, <1>7, <2>3
  <2> QED
    BY <1>4, <2>1, <2>2, <2>3 DEF Exactly
<1>10. ~Throws => ~misused' /\ \A a \in Chunks : object'[a] # "raw"
  BY DEF IInv, TypeOK, free
<1> QED
  BY <1>1, <1>2, <1>6, <1>8, <1>9, <1>10 DEF IInv, free

\* Constructors and destructors of objects leave the list alone.
LEMMA ObjectKeeps ==
  ASSUME ChunksAssumption, IInv, NEW c \in Chunks, construct(c) \/ destroy(c)
  PROVE  IInv'
<1>1. TypeOK'
  BY DEF IInv, TypeOK, construct, destroy
<1>2. /\ UNCHANGED <<obj_list_, prev, next, misused, destroyed>>
      /\ \A a \in Chunks : object[a] # "free" <=> object'[a] # "free"
      /\ ~Throws => \A a \in Chunks : object[a] # "raw" => object'[a] # "raw"
  BY DEF construct, destroy, IInv, TypeOK
<1>3. ASSUME NEW n \in Nat, NEW s \in [1 .. n -> Chunks], Linked(n, s), Exactly(n, s)
      PROVE  Linked(n, s)' /\ Exactly(n, s)'
  BY <1>2, <1>3 DEF Linked, Exactly
<1>4. ~destroyed
  BY DEF IInv, construct, destroy
<1> QED
  BY <1>1, <1>2, <1>3, <1>4 DEF IInv

LEMMA DestructorKeeps ==
  ASSUME ChunksAssumption, IInv, Destructor
  PROVE  IInv'
<1>1. PICK n \in Nat : \E s \in [1 .. n -> Chunks] : Linked(n, s) /\ Exactly(n, s)
  BY DEF IInv, Destructor
<1>2. PICK s \in [1 .. n -> Chunks] : Linked(n, s) /\ Exactly(n, s)
  BY <1>1
<1>3. Walk = {c \in Chunks : object[c] # "free"}
  BY <1>2, WalkIs DEF Exactly
<1>4. /\ object' = [c \in Chunks |-> IF c \in Walk THEN "free" ELSE object[c]]
      /\ misused' = (\E c \in Walk : object[c] # "live")
      /\ obj_list_' = Null /\ destroyed' = TRUE /\ UNCHANGED <<prev, next>>
      /\ \A c \in Chunks : object[c] \notin {"building", "ending"}
  BY DEF Destructor
<1>5. \A c \in Chunks : object'[c] = "free"
  BY <1>3, <1>4
<1>6. misused' \in BOOLEAN /\ (~Throws => ~misused')
  BY <1>3, <1>4 DEF IInv, TypeOK
<1>7. TypeOK'
  BY <1>4, <1>5, <1>6 DEF IInv, TypeOK
<1> QED
  BY <1>4, <1>5, <1>6, <1>7 DEF IInv

LEMMA InitInv == ChunksAssumption /\ Init => IInv
<1> SUFFICES ASSUME ChunksAssumption, Init PROVE IInv
  OBVIOUS
<1> DEFINE s == [i \in 1 .. 0 |-> Null]
<1>1. TypeOK /\ ~destroyed /\ ~misused /\ \A c \in Chunks : object[c] = "free"
  BY DEF Init, TypeOK
<1>2. s \in [1 .. 0 -> Chunks] /\ Linked(0, s) /\ Exactly(0, s)
  BY DEF Init, Linked, Exactly
<1> QED
  BY <1>1, <1>2 DEF IInv

LEMMA NextInv ==
  ASSUME ChunksAssumption, IInv, [Next]_vars
  PROVE  IInv'
<1>1. CASE UNCHANGED vars
  <2>1. ASSUME NEW n \in Nat, NEW s \in [1 .. n -> Chunks], Linked(n, s), Exactly(n, s)
        PROVE  Linked(n, s)' /\ Exactly(n, s)'
    BY <1>1, <2>1 DEF vars, Linked, Exactly
  <2> QED
    BY <1>1, <2>1 DEF vars, IInv, TypeOK
<1>2. CASE Next
  BY <1>2, MallocKeeps, ObjectKeeps, FreeKeeps, DestructorKeeps DEF Next
<1> QED
  BY <1>1, <1>2

LEMMA InvImpliesSound == ChunksAssumption /\ IInv => ObjectsSound
<1> SUFFICES ASSUME ChunksAssumption, IInv PROVE ObjectsSound
  OBVIOUS
<1>1. ASSUME ~destroyed PROVE ListExact
  <2>1. PICK n \in Nat : \E s \in [1 .. n -> Chunks] : Linked(n, s) /\ Exactly(n, s)
    BY <1>1 DEF IInv
  <2>2. PICK s \in [1 .. n -> Chunks] : Linked(n, s) /\ Exactly(n, s)
    BY <2>1
  <2>3. Walk = {s[i] : i \in 1 .. n}
    BY <2>2, WalkIs
  <2>4. Walk = {c \in Chunks : object[c] # "free"}
    BY <2>2, <2>3 DEF Exactly
  <2>5. ASSUME NEW c \in Walk
        PROVE  /\ prev[c] = Null <=> c = obj_list_
               /\ next[c] # Null => prev[next[c]] = c
               /\ prev[c] # Null => next[prev[c]] = c
    <3>1. PICK i \in 1 .. n : c = s[i]
      BY <2>3
    <3>2. /\ prev[c] = IF i = 1 THEN Null ELSE s[i - 1]
          /\ next[c] = IF i = n THEN Null ELSE s[i + 1]
          /\ obj_list_ = s[1]
      BY <2>2, <3>1 DEF Linked
    <3>3. /\ i # n => i + 1 \in 1 .. n /\ prev[s[i + 1]] = s[i]
          /\ i # 1 => i - 1 \in 1 .. n /\ next[s[i - 1]] = s[i] /\ s[i] # s[1]
      BY <2>2 DEF Linked
    <3>4. \A k \in 1 .. n : s[k] # Null
      BY DEF ChunksAssumption
    <3> QED
      BY <3>1, <3>2, <3>3, <3>4
  <2> QED
    BY <2>4, <2>5 DEF ListExact
<1> QED
  BY <1>1 DEF ObjectsSound, ListExact, EveryObjectEnds, IInv

\* For any number of chunks and threads: the list holds exactly the chunks in use, and
\* prev is the inverse of next, whatever the order in which construct and destroy get
\* the mutex; so ~object_pool destroys every object and nothing else
\* (object_pool.hpp).
THEOREM ObjectsCorrect ==
  ASSUME ChunksAssumption
  PROVE  Spec => []ObjectsSound
<1>1. Init => IInv
  BY InitInv
<1>2. IInv /\ [Next]_vars => IInv'
  BY NextInv
<1>3. IInv => ObjectsSound
  BY InvImpliesSound
<1> QED
  BY <1>1, <1>2, <1>3, PTL DEF Spec

=============================================================================
