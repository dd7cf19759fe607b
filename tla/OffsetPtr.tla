------------------------------ MODULE OffsetPtr ------------------------------
(***************************************************************************)
(* offset_ptr: a pointer kept as the distance from its own address, so     *)
(* that a block of memory whose pointers lead only into the block can be   *)
(* mapped at another address and still be used.                            *)
(*                                                                         *)
(* The block is an array of Count nodes of Size bytes; the first member of *)
(* node i may be an offset_ptr to a node (i \in Inner).  Outer pointers     *)
(* live outside the block, beside an array of Count nodes at address 0.    *)
(* Remap maps the block at another address: the bytes are the same, the    *)
(* addresses are not.                                                      *)
(***************************************************************************)
EXTENDS Integers

CONSTANTS Count, Size, Inner, Outer, Bases, OuterAt, Invalid

\* What the proofs assume: the nodes have a size, the pointers are apart, and every
\* address is below invalid_offset, the largest offset_type.
OffsetsAssumption ==
  /\ Size \in Nat \ {0} /\ Count \in Nat
  /\ Inner \subseteq Nat /\ Inner \cap Outer = {}
  /\ Bases \subseteq Nat /\ OuterAt \in [Outer -> Nat]
  /\ Invalid \in Nat /\ \A b \in Bases \cup {0} : b + Size * Count < Invalid

VARIABLES checked,  \* get() rejects offset 0: true unless T is void or a char
          base,     \* where the block is mapped
          offset_,  \* per pointer, its member; Invalid is invalid_offset
          want,     \* history: what the program made the pointer point to
          aborted   \* an assertion of the class failed

offsetVars == <<checked, base, offset_, want, aborted>>

Ptrs == Inner \cup Outer
Nil == [in |-> "nil", at |-> 0]
Stale == [in |-> "stale", at |-> 0]
Targets == {Nil} \cup [in : {"block", "array"}, at : 0..Count]

\* The address a pointer itself lives at, and the one a target stands for.
This(p) == IF p \in Inner THEN base + Size * p ELSE OuterAt[p]
Address(x) == IF x.in = "block" THEN base + Size * x.at ELSE Size * x.at

\* Raw addresses; NULL is below all of them.
NULL == -1
Raw(x) == IF x = Nil THEN NULL ELSE Address(x)

\* The assertion of get(): an offset of 0 is taken for an uninitialised one.
Rejects(p) == checked /\ offset_[p] = 0

get(p) == IF offset_[p] # Invalid THEN This(p) + offset_[p] ELSE NULL

Offset(p, raw) == IF raw = NULL THEN Invalid ELSE raw - This(p)

\* A dangling pointer, or one never made, is not read by a correct program.
Usable(p) == ~aborted /\ want[p] # Stale

Abort == aborted' = TRUE /\ UNCHANGED <<checked, base, offset_, want>>

Set(p, off, x) ==
  /\ offset_' = [offset_ EXCEPT ![p] = off]
  /\ want' = [want EXCEPT ![p] = x]
  /\ UNCHANGED <<checked, base, aborted>>

Init ==
  /\ checked \in BOOLEAN
  /\ base \in Bases
  /\ offset_ = [p \in Ptrs |-> Invalid]
  /\ want = [p \in Ptrs |-> Nil]
  /\ aborted = FALSE

\* offset_ptr(T*), offset_ptr(nullptr), pointer_to: p is made anew.
Construct(p) ==
  /\ ~aborted
  /\ \E x \in Targets : Set(p, Offset(p, Raw(x)), x)

\* Mutant: the member is copied as it is, as a defaulted copy would do.
CopyBytes(p, q) == Usable(q) /\ Set(p, offset_[q], want[q])

\* The copy constructor and the converting ones.
Copy(p, q) ==
  /\ Usable(q)
  /\ IF Rejects(q) THEN Abort ELSE Set(p, Offset(p, get(q)), want[q])

Assign(p, q) == Copy(p, q)

\* static_, dynamic_, const_ and reinterpret_pointer_cast.
Cast(p, q) == Copy(p, q)

diff_to_offset(n) == n * Size

\* The node n places on; the program stays within the array it points into.
Moved(x, n) == [x EXCEPT !.at = @ + n]
Within(x, n) == x # Nil => x.at + n \in 0..Count

\* ++, --, += and -=: the offset moves by whole elements; null asserts.
Advance(p, n) ==
  /\ Usable(p) /\ Within(want[p], n)
  /\ IF Rejects(p) \/ get(p) = NULL
     THEN Abort
     ELSE Set(p, offset_[p] + diff_to_offset(n), Moved(want[p], n))

\* p = q + n and p = q - n: the sum is built in a temporary, then assigned.
Plus(p, q, n) ==
  /\ Usable(q) /\ Within(want[q], n)
  /\ IF Rejects(q) \/ get(q) = NULL
     THEN Abort
     ELSE Set(p, Offset(p, get(q) + diff_to_offset(n)), Moved(want[q], n))

\* The block is unmapped and mapped at b.  A pointer from the block to the
\* array, or from outside into the block, now dangles.
Remap(b) ==
  /\ ~aborted /\ b # base
  /\ base' = b
  /\ want' = [p \in Ptrs |->
                IF \/ p \in Inner /\ want[p].in = "array"
                   \/ p \in Outer /\ want[p].in = "block"
                THEN Stale ELSE want[p]]
  /\ UNCHANGED <<checked, offset_, aborted>>

Next ==
  \/ \E p \in Ptrs :
       \/ Construct(p)
       \/ \E n \in {-1, 1} : Advance(p, n)
       \/ \E q \in Ptrs : Copy(p, q) \/ Assign(p, q) \/ Cast(p, q)
                           \/ \E n \in {-1, 1} : Plus(p, q, n)
  \/ \E b \in Bases : Remap(b)

Spec == Init /\ [][Next]_offsetVars

-----------------------------------------------------------------------------

\* The comparisons of two offset_ptr, each as it is defined.
Equal(p, q) == get(p) = get(q)
NotEqual(p, q) == ~Equal(p, q)
Less(p, q) == get(p) < get(q)
Greater(p, q) == Less(q, p)
LessEqual(p, q) == ~Greater(p, q)
GreaterEqual(p, q) == ~Less(p, q)
Minus(p, q) == (get(p) - get(q)) \div Size

\* ... and with a raw pointer on the left, where != and < test for equality.
RawEqual(raw, q) == raw = get(q)
RawNotEqual(raw, q) == raw = get(q)
RawLess(raw, q) == raw = get(q)
RawGreater(raw, q) == raw > get(q)
RawLessEqual(raw, q) == raw <= get(q)
RawGreaterEqual(raw, q) == raw >= get(q)

\* The pointers a program may still compare: not dangling and not rejected.
Live == {p \in Ptrs : want[p] # Stale /\ ~Rejects(p)}

\* PointersFollow: after any sequence of copies, arithmetic and remappings,
\* every pointer that does not dangle leads to the node it was made to point
\* to, wherever that node now is; null stays null; and get() fails its
\* assertion for a node that points to itself and for no other
\* (impl/offset_ptr.hpp:20-69).
PointersFollow ==
  /\ \A p \in Live : get(p) = Raw(want[p])
  /\ \A p \in Ptrs : Rejects(p) /\ want[p] # Stale =>
                        Raw(want[p]) = This(p)

\* ComparisonsAgree: comparing and subtracting two live pointers answers as
\* comparing their targets' addresses would, and so do the comparisons with a
\* raw pointer on the left but != and < (offset_ptr.hpp:239-417; those two,
\* lines 287-291 and 317-321, answer equality).
ComparisonsAgree ==
  \A p, q \in Live :
    LET x == Raw(want[p])
        y == Raw(want[q])
    IN  /\ Equal(p, q) <=> x = y
        /\ NotEqual(p, q) <=> x # y
        /\ Less(p, q) <=> x < y
        /\ LessEqual(p, q) <=> x <= y
        /\ Greater(p, q) <=> x > y
        /\ GreaterEqual(p, q) <=> x >= y
        /\ RawEqual(x, q) <=> x = y
        /\ RawGreater(x, q) <=> x > y
        /\ RawLessEqual(x, q) <=> x <= y
        /\ RawGreaterEqual(x, q) <=> x >= y
        /\ want[p].in = want[q].in /\ x # NULL =>
             Minus(p, q) = want[p].at - want[q].at

\* An offset_ptr points where it was made to, wherever the block is mapped, and
\* comparisons agree with the addresses.
OffsetPtrsSound == PointersFollow /\ ComparisonsAgree

-----------------------------------------------------------------------------
(* The inductive invariant, for blocks of any size, mapped anywhere (the proof *)
(* is in module UtilityProofs).                                                *)

TypeOK ==
  /\ checked \in BOOLEAN /\ base \in Bases /\ aborted \in BOOLEAN
  /\ offset_ \in [Ptrs -> Int]
  /\ want \in [Ptrs -> Targets \cup {Stale}]

\* The member of every pointer that does not dangle is the distance to its target,
\* whether get() would reject it or not.
Distances ==
  \A p \in Ptrs : want[p] # Stale =>
    offset_[p] = IF want[p] = Nil THEN Invalid ELSE Address(want[p]) - This(p)

IInv == TypeOK /\ Distances
=============================================================================
