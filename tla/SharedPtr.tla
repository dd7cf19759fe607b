----------------------------- MODULE SharedPtr -----------------------------
(***************************************************************************)
(* gpcl::shared_ptr and gpcl::weak_ptr (include/gpcl/shared_ptr.hpp,       *)
(* weak_ptr.hpp) over the control block of include/gpcl/detail/            *)
(* ref_count_base.hpp.  Each handle (a shared_ptr or weak_ptr object) is   *)
(* used by one thread at a time; the handles run concurrently.  Every      *)
(* atomic operation on a count is one action.  Assignments and resets are  *)
(* written in the code as "make a temporary, swap, destroy the temporary": *)
(* temp[h] is the control block that the temporary still has to release.   *)
(* Counts are sequentially consistent.                                     *)
(***************************************************************************)
EXTENDS Integers, FiniteSets, FiniteSetTheorems, TLAPS

CONSTANTS
  Shareds, Weaks,   \* the shared_ptr and the weak_ptr objects
  Blocks,           \* the control blocks, each with the object it manages
  Null,             \* no control block
  FromThis,         \* the blocks of objects derived from enable_shared_from_this
  Failures          \* whether the construction of a control block may throw

ASSUME HandlesAssumption == Shareds \cap Weaks = {}
ASSUME FiniteAssumption == IsFiniteSet(Shareds) /\ IsFiniteSet(Weaks)
ASSUME NullAssumption == Null \notin Blocks
ASSUME FlagsAssumption == FromThis \subseteq Blocks /\ Failures \in BOOLEAN

Handles == Shareds \cup Weaks

VARIABLES
  use, weak,   \* use_count_ and weak_count_ of each block
  object,      \* what became of the managed object
  block,       \* what became of the control block
  ptr,         \* s_ of each handle
  temp,        \* the block that a temporary of the handle releases
  pc,          \* what the handle's thread is doing
  old,         \* old_val of ref_count_base::lock
  from         \* the weak_ptr that is being locked

vars == <<use, weak, object, block, ptr, temp, pc, old, from>>

Init ==
  /\ use = [b \in Blocks |-> 0]
  /\ weak = [b \in Blocks |-> 0]
  /\ object = [b \in Blocks |-> "none"]
  /\ block = [b \in Blocks |-> "none"]
  /\ ptr = [h \in Handles |-> Null]
  /\ temp = [h \in Handles |-> Null]
  /\ pc = [h \in Handles |-> "ready"]
  /\ old = [s \in Shareds |-> 0]
  /\ from = [s \in Shareds |-> Null]

\* h may be used: no call on it is under way, and nobody is locking it.
Ready(h) ==
  /\ pc[h] = "ready"
  /\ \A s \in Shareds : pc[s] = "lock" => from[s] # h

\* The handle's new block is in place; its temporary has the old one to release.
Drop(h) ==
  /\ temp' = [temp EXCEPT ![h] = ptr[h]]
  /\ pc' = [pc EXCEPT ![h] = IF ptr[h] = Null THEN "ready"
                             ELSE IF h \in Shareds THEN "put" ELSE "wput"]

Take(h, b) ==
  /\ ptr' = [ptr EXCEPT ![h] = b]
  /\ Drop(h)

SameKind(h, r) == h \in Shareds <=> r \in Shareds

Done(h) ==
  /\ pc' = [pc EXCEPT ![h] = "ready"]
  /\ temp' = [temp EXCEPT ![h] = Null]

----------------------------------------------------------------------------
\* The weak_ptr that an object derived from enable_shared_from_this holds to its
\* own block, set by the constructor of the first shared_ptr.
weak_this(b) == IF b \in FromThis THEN 1 ELSE 0

\* ref_count::create and the constructors and resets that call it.
construct(s) ==
  /\ Ready(s)
  /\ \E b \in Blocks :
       /\ object[b] = "none"
       /\ object' = [object EXCEPT ![b] = "alive"]
       /\ block' = [block EXCEPT ![b] = "allocated"]
       /\ use' = [use EXCEPT ![b] = 1]
       /\ weak' = [weak EXCEPT ![b] = 1 + weak_this(b)]
       /\ Take(s, b)
  /\ UNCHANGED <<old, from>>

\* The constructor throws.  When the allocation fails the pointer given to the
\* constructor is left as it was; when the construction of the block fails,
\* its function-try-block calls the deleter.
ConstructThrows(s) ==
  /\ Failures
  /\ Ready(s)
  /\ \E b \in Blocks :
       /\ object[b] = "none"
       /\ \E end \in {"orphan", "destroyed"} : object' = [object EXCEPT ![b] = end]
  /\ UNCHANGED <<use, weak, block, ptr, temp, pc, old, from>>

\* Mutant of copy: the count is not incremented.
CopyUncounted(s, r) ==
  /\ Ready(s) /\ pc[r] = "ready"
  /\ ptr[r] # Null
  /\ Take(s, ptr[r])
  /\ UNCHANGED <<use, weak, object, block, old, from>>

\* Copy construction and copy assignment; get() increments.
copy(s, r) ==
  /\ Ready(s) /\ pc[r] = "ready"
  /\ ptr[r] # Null
  /\ use' = [use EXCEPT ![ptr[r]] = @ + 1]
  /\ Take(s, ptr[r])
  /\ UNCHANGED <<weak, object, block, old, from>>

\* static_, dynamic_, const_ and reinterpret_pointer_cast: the aliasing constructor
\* shares the block of r whatever pointer the cast gives, null included.
pointer_cast(s, r) == copy(s, r)

\* Converting move assignment; to an empty handle this is move construction.
move(h, r) ==
  /\ Ready(h) /\ Ready(r)
  /\ h # r /\ SameKind(h, r)
  /\ ptr' = [ptr EXCEPT ![h] = ptr[r], ![r] = Null]
  /\ Drop(h)
  /\ UNCHANGED <<use, weak, object, block, old, from>>

\* swap, and move assignment, which is a swap in the code (for weak_ptr too).
swap(h, r) ==
  /\ Ready(h) /\ Ready(r)
  /\ SameKind(h, r)
  /\ ptr' = [ptr EXCEPT ![h] = ptr[r], ![r] = ptr[h]]
  /\ UNCHANGED <<use, weak, object, block, temp, pc, old, from>>

\* reset and the destructor.
reset(s) ==
  /\ Ready(s)
  /\ ptr[s] # Null
  /\ Take(s, Null)
  /\ UNCHANGED <<use, weak, object, block, old, from>>

\* put(): the decrement of use_count_.
put(s) ==
  /\ pc[s] = "put"
  /\ use' = [use EXCEPT ![temp[s]] = @ - 1]
  /\ IF use[temp[s]] = 1
     THEN pc' = [pc EXCEPT ![s] = "destroy"] /\ UNCHANGED temp
     ELSE Done(s)
  /\ UNCHANGED <<weak, object, block, ptr, old, from>>

\* put(): destroy_managed_object.  The object's own weak_ptr goes with it.
destroy_managed_object(s) ==
  /\ pc[s] = "destroy"
  /\ object' = [object EXCEPT ![temp[s]] = "destroyed"]
  /\ weak' = [weak EXCEPT ![temp[s]] = @ - weak_this(temp[s])]
  /\ pc' = [pc EXCEPT ![s] = "wput"]
  /\ UNCHANGED <<use, block, ptr, temp, old, from>>

\* Mutant of weak_put: the block is never deleted.
WeakPutLeaks(h) ==
  /\ pc[h] = "wput"
  /\ weak' = [weak EXCEPT ![temp[h]] = @ - 1]
  /\ Done(h)
  /\ UNCHANGED <<use, object, block, ptr, old, from>>

\* weak_put(), and the decrement of weak_count_ at the end of put().
weak_put(h) ==
  /\ pc[h] = "wput"
  /\ weak' = [weak EXCEPT ![temp[h]] = @ - 1]
  /\ IF weak[temp[h]] = 1
     THEN pc' = [pc EXCEPT ![h] = "delete"] /\ UNCHANGED temp
     ELSE Done(h)
  /\ UNCHANGED <<use, object, block, ptr, old, from>>

\* ref_count::delete_this.
delete_control_block(h) ==
  /\ pc[h] = "delete"
  /\ block' = [block EXCEPT ![temp[h]] = "deleted"]
  /\ Done(h)
  /\ UNCHANGED <<use, weak, object, ptr, old, from>>

----------------------------------------------------------------------------
\* weak_ptr: construction and assignment from a shared_ptr or a weak_ptr;
\* weak_get() increments.
weak_copy(w, r) ==
  /\ Ready(w) /\ pc[r] = "ready"
  /\ ptr[r] # Null
  /\ weak' = [weak EXCEPT ![ptr[r]] = @ + 1]
  /\ Take(w, ptr[r])
  /\ UNCHANGED <<use, object, block, old, from>>

\* The casts of a weak_ptr, through generic_pointer_cast_helper.
weak_pointer_cast(w, r) == r \in Weaks /\ weak_copy(w, r)

\* weak_ptr: reset and the destructor.
weak_reset(w) ==
  /\ Ready(w)
  /\ ptr[w] # Null
  /\ Take(w, Null)
  /\ UNCHANGED <<use, weak, object, block, old, from>>

\* s = w.lock(): the load of use_count_.
lock(s, w) ==
  /\ Ready(s) /\ Ready(w)
  /\ ptr[w] # Null
  /\ old' = [old EXCEPT ![s] = use[ptr[w]]]
  /\ from' = [from EXCEPT ![s] = w]
  /\ pc' = [pc EXCEPT ![s] = "lock"]
  /\ UNCHANGED <<use, weak, object, block, ptr, temp>>

LockEnds(s) ==
  /\ old' = [old EXCEPT ![s] = 0]
  /\ from' = [from EXCEPT ![s] = Null]

\* Mutant of LockCas: an increment where the code compares and swaps.
LockIncrements(s) ==
  LET b == ptr[from[s]] IN
  /\ pc[s] = "lock"
  /\ IF old[s] = 0
     THEN Take(s, Null) /\ UNCHANGED use
     ELSE use' = [use EXCEPT ![b] = @ + 1] /\ Take(s, b)
  /\ LockEnds(s)
  /\ UNCHANGED <<weak, object, block>>

\* ref_count_base::lock: the loop.  compare_exchange_weak may fail although the
\* count is old_val, and then leaves old_val as it is.
LockCas(s) ==
  LET b == ptr[from[s]] IN
  /\ pc[s] = "lock"
  /\ \/ /\ old[s] = 0
        /\ Take(s, Null)
        /\ LockEnds(s)
        /\ UNCHANGED use
     \/ /\ old[s] > 0
        /\ use[b] = old[s]
        /\ use' = [use EXCEPT ![b] = @ + 1]
        /\ Take(s, b)
        /\ LockEnds(s)
     \/ /\ old[s] > 0
        /\ old' = [old EXCEPT ![s] = use[b]]
        /\ UNCHANGED <<use, ptr, temp, pc, from>>
  /\ UNCHANGED <<weak, object, block>>

\* The observers: the number of shared_ptrs, and whether there is none.
use_count(h) == IF ptr[h] = Null THEN 0 ELSE use[ptr[h]]
expired(w) == ptr[w] = Null \/ use[ptr[w]] = 0

Release(h) == weak_put(h) \/ delete_control_block(h)

Next ==
  \/ \E s \in Shareds :
       \/ construct(s) \/ ConstructThrows(s) \/ reset(s)
       \/ put(s) \/ destroy_managed_object(s) \/ LockCas(s)
       \/ \E r \in Shareds : copy(s, r) \/ pointer_cast(s, r)
       \/ \E w \in Weaks : lock(s, w)
  \/ \E w \in Weaks : weak_reset(w) \/ (\E r \in Handles : weak_copy(w, r) \/ weak_pointer_cast(w, r))
  \/ \E h \in Handles : Release(h) \/ (\E r \in Handles : move(h, r) \/ swap(h, r))

Spec == Init /\ [][Next]_vars

----------------------------------------------------------------------------
PCs == {"ready", "put", "destroy", "wput", "delete", "lock"}

TypeOK ==
  /\ use \in [Blocks -> Nat]
  /\ weak \in [Blocks -> Nat]
  /\ object \in [Blocks -> {"none", "alive", "destroyed", "orphan"}]
  /\ block \in [Blocks -> {"none", "allocated", "deleted"}]
  /\ ptr \in [Handles -> Blocks \cup {Null}]
  /\ temp \in [Handles -> Blocks \cup {Null}]
  /\ pc \in [Handles -> PCs]
  /\ old \in [Shareds -> Nat]
  /\ from \in [Shareds -> Weaks \cup {Null}]

\* The references to b: handles that point to it and temporaries that have
\* still to release it.
Uses(b) == Cardinality({s \in Shareds : ptr[s] = b})
           + Cardinality({s \in Shareds : pc[s] = "put" /\ temp[s] = b})
WeakUses(b) == Cardinality({w \in Weaks : ptr[w] = b})
               + Cardinality({h \in Handles : pc[h] = "wput" /\ temp[h] = b})

\* The thread of s is about to destroy the object of b, and the thread of h to
\* delete b.
Destroying(s, b) == pc[s] = "destroy" /\ temp[s] = b
Deleting(h, b) == pc[h] = "delete" /\ temp[h] = b

\* use_count_ counts the shared_ptrs: the shared_ptr objects that point to the
\* block and the temporaries about to release it.
UseCountExact == \A b \in Blocks : use[b] = Uses(b)

\* weak_count_ counts the weak_ptrs, one reference of all the shared_ptrs
\* together until the object is destroyed, and the object's own weak_this.
SharedRef(b) == IF use[b] > 0 \/ \E s \in Shareds : Destroying(s, b) THEN 1 ELSE 0
ThisRef(b) == IF object[b] = "alive" THEN weak_this(b) ELSE 0
WeakCountExact == \A b \in Blocks : weak[b] = WeakUses(b) + SharedRef(b) + ThisRef(b)

\* Both counts of a control block are exact between any two steps of any threads.
CountsExact == UseCountExact /\ WeakCountExact

\* What a shared_ptr points to is alive, and so is its control block.
NoDanglingShared ==
  \A s \in Shareds : ptr[s] # Null => /\ object[ptr[s]] = "alive"
                                      /\ block[ptr[s]] = "allocated"

\* Nobody touches a control block after its deletion: not a weak_ptr, not a
\* lock() in progress, not a put() that has still to drop the weak count.
NoDanglingBlock ==
  \A h \in Handles :
    /\ (h \in Weaks /\ ptr[h] # Null) => block[ptr[h]] = "allocated"
    /\ temp[h] # Null => block[temp[h]] = "allocated"

\* No handle outlives what it refers to: an object for a shared_ptr, a control
\* block for any handle or call in progress.
NoDangling == NoDanglingShared /\ NoDanglingBlock

\* The object and the block go when the last reference goes, and not later.
NoLeak ==
  \A b \in Blocks :
    (\A h \in Handles : ptr[h] # b /\ temp[h] # b) => /\ object[b] # "alive"
                                                      /\ block[b] # "allocated"

\* The counts of a control block are exact between any two steps of any threads, no
\* handle outlives what it refers to, and object and block go with the last reference.
SharedPtrsSound == CountsExact /\ NoDangling /\ NoLeak

\* A weak_ptr does not bring an object back: once the use count has dropped to
\* zero it stays zero, and the object is destroyed once.  So a weak_ptr that has
\* expired stays so until it is given another block, and one whose object a
\* shared_ptr points to has not expired.
NoResurrectionStep ==
  /\ \A b \in Blocks :
       /\ (block[b] # "none" /\ use[b] = 0) => use'[b] = 0
       /\ object[b] = "destroyed" => object'[b] = "destroyed"
  /\ \A w \in Weaks : expired(w) /\ ptr'[w] = ptr[w] => expired(w)'
  /\ \A w \in Weaks, s \in Shareds : ptr[s] = ptr[w] => (expired(w) <=> use_count(s) = 0)

\* No step of any thread brings an object back.
NoResurrection == [][NoResurrectionStep]_vars

\* "If an exception occurrs, this calls `delete ptr`.": a constructor that
\* throws destroys the object it was given.
ThrowingConstructorDeletes == \A b \in Blocks : object[b] # "orphan"

-----------------------------------------------------------------------------
(***************************************************************************)
(* The inductive invariant of the proofs, and how a step changes the       *)
(* number of references to a block, for any finite sets of handles and any *)
(* blocks.  The counts are exact because a step changes the references of  *)
(* one handle, or of two in a move or a swap (OneHandle, TwoHandles).      *)
(* That alone is not inductive: Phases says what a temporary stands for at *)
(* each program counter, and Lifetimes ties the counts to the object and   *)
(* the block, with the one thread that is about to destroy either when its *)
(* count has reached zero.  SharedPtrProofs goes on from here.             *)
(***************************************************************************)
Phases ==
  /\ \A h \in Handles : temp[h] = Null <=> pc[h] \in {"ready", "lock"}
  /\ \A w \in Weaks : pc[w] \in {"ready", "wput", "delete"}
  /\ \A s \in Shareds : pc[s] = "lock" => from[s] \in Weaks /\ ptr[from[s]] # Null

Life(b) ==
  /\ object[b] = "none" => block[b] = "none"
  /\ block[b] = "none" => object[b] # "alive"
  /\ use[b] > 0 => object[b] = "alive"
  /\ object[b] = "alive" => use[b] > 0 \/ \E s \in Shareds : Destroying(s, b)
  /\ \A s \in Shareds : Destroying(s, b) => use[b] = 0 /\ object[b] = "alive"
  /\ \A s, r \in Shareds : Destroying(s, b) /\ Destroying(r, b) => s = r
  /\ weak[b] > 0 => block[b] = "allocated"
  /\ block[b] = "allocated" => weak[b] > 0 \/ \E h \in Handles : Deleting(h, b)
  /\ \A h \in Handles : Deleting(h, b) => weak[b] = 0 /\ block[b] = "allocated"
  /\ \A h, r \in Handles : Deleting(h, b) /\ Deleting(r, b) => h = r

Lifetimes == \A b \in Blocks : Life(b)

\* The inductive invariant.
IInv == TypeOK /\ Phases /\ CountsExact /\ Lifetimes

-----------------------------------------------------------------------------
Ind(P) == IF P THEN 1 ELSE 0

LEMMA Removed ==
  ASSUME NEW F, IsFiniteSet(F), NEW x
  PROVE  /\ IsFiniteSet(F \ {x})
         /\ Cardinality(F) \in Nat /\ Cardinality(F \ {x}) \in Nat
         /\ Cardinality(F) = Cardinality(F \ {x}) + Ind(x \in F)
<1>1. IsFiniteSet(F \ {x}) /\ Cardinality(F) \in Nat
  BY FS_RemoveElement, FS_CardinalityType, Zenon
<1>2. Cardinality(F \ {x}) \in Nat
  BY <1>1, FS_CardinalityType, Zenon
<1>3. Cardinality(F \ {x}) = IF x \in F THEN Cardinality(F) - 1 ELSE Cardinality(F)
  BY FS_RemoveElement, Zenon
<1> QED
  BY <1>1, <1>2, <1>3 DEF Ind

\* The size of a set of which at most one element has come or gone.
LEMMA OneChanged ==
  ASSUME NEW F, NEW G, IsFiniteSet(F), IsFiniteSet(G), NEW x, F \ {x} = G \ {x}
  PROVE  /\ Cardinality(F) \in Nat /\ Cardinality(G) \in Nat
         /\ Cardinality(G) = Cardinality(F) - Ind(x \in F) + Ind(x \in G)
<1>1. /\ Cardinality(F) \in Nat /\ Cardinality(F \ {x}) \in Nat
      /\ Cardinality(F) = Cardinality(F \ {x}) + Ind(x \in F)
  BY Removed, Zenon
<1>2. /\ Cardinality(G) \in Nat /\ Cardinality(G \ {x}) \in Nat
      /\ Cardinality(G) = Cardinality(G \ {x}) + Ind(x \in G)
  BY Removed, Zenon
<1> QED
  BY <1>1, <1>2 DEF Ind

\* What handle h contributes to the counts of block b.
UseOf(h, b) == Ind(h \in Shareds /\ ptr[h] = b)
               + Ind(h \in Shareds /\ pc[h] = "put" /\ temp[h] = b)
WeakOf(h, b) == Ind(h \in Weaks /\ ptr[h] = b) + Ind(pc[h] = "wput" /\ temp[h] = b)

Kept(h) == ptr'[h] = ptr[h] /\ pc'[h] = pc[h] /\ temp'[h] = temp[h]

Pointing(b) == {s \in Shareds : ptr[s] = b}
Putting(b) == {s \in Shareds : pc[s] = "put" /\ temp[s] = b}
WeakPointing(b) == {w \in Weaks : ptr[w] = b}
WeakPutting(b) == {h \in Handles : pc[h] = "wput" /\ temp[h] = b}

LEMMA Sums ==
  ASSUME NEW b
  PROVE  /\ Uses(b) = Cardinality(Pointing(b)) + Cardinality(Putting(b))
         /\ Uses(b)' = Cardinality(Pointing(b)') + Cardinality(Putting(b)')
         /\ WeakUses(b) = Cardinality(WeakPointing(b)) + Cardinality(WeakPutting(b))
         /\ WeakUses(b)' = Cardinality(WeakPointing(b)') + Cardinality(WeakPutting(b)')
BY DEF Uses, WeakUses, Pointing, Putting, WeakPointing, WeakPutting

LEMMA FiniteReferences ==
  ASSUME NEW b
  PROVE  /\ IsFiniteSet(Pointing(b)) /\ IsFiniteSet(Putting(b))
         /\ IsFiniteSet(WeakPointing(b)) /\ IsFiniteSet(WeakPutting(b))
         /\ IsFiniteSet(Pointing(b)') /\ IsFiniteSet(Putting(b)')
         /\ IsFiniteSet(WeakPointing(b)') /\ IsFiniteSet(WeakPutting(b)')
<1>1. IsFiniteSet(Shareds) /\ IsFiniteSet(Weaks) /\ IsFiniteSet(Handles)
  BY FiniteAssumption, FS_Union DEF Handles
<1>2. /\ Pointing(b) \subseteq Shareds /\ Putting(b) \subseteq Shareds
      /\ WeakPointing(b) \subseteq Weaks /\ WeakPutting(b) \subseteq Handles
      /\ Pointing(b)' \subseteq Shareds /\ Putting(b)' \subseteq Shareds
      /\ WeakPointing(b)' \subseteq Weaks /\ WeakPutting(b)' \subseteq Handles
  BY DEF Pointing, Putting, WeakPointing, WeakPutting
<1> QED
  BY <1>1, <1>2, FS_Subset

LEMMA OneHandle ==
  ASSUME NEW h \in Handles, \A x \in Handles \ {h} : Kept(x), NEW b
  PROVE  /\ Uses(b) \in Nat /\ Uses(b)' = Uses(b) - UseOf(h, b) + UseOf(h, b)'
         /\ WeakUses(b) \in Nat /\ WeakUses(b)' = WeakUses(b) - WeakOf(h, b) + WeakOf(h, b)'
<1> USE FiniteReferences
<1>1. /\ Pointing(b) \ {h} = Pointing(b)' \ {h}
      /\ Putting(b) \ {h} = Putting(b)' \ {h}
      /\ WeakPointing(b) \ {h} = WeakPointing(b)' \ {h}
      /\ WeakPutting(b) \ {h} = WeakPutting(b)' \ {h}
  BY DEF Kept, Handles, Pointing, Putting, WeakPointing, WeakPutting
<1>2. /\ Cardinality(Pointing(b)) \in Nat /\ Cardinality(Putting(b)) \in Nat
      /\ Cardinality(Pointing(b)') = Cardinality(Pointing(b)) - Ind(h \in Pointing(b))
                                      + Ind(h \in Pointing(b)')
      /\ Cardinality(Putting(b)') = Cardinality(Putting(b)) - Ind(h \in Putting(b))
                                     + Ind(h \in Putting(b)')
  BY <1>1, OneChanged, Zenon
<1>3. /\ Cardinality(WeakPointing(b)) \in Nat /\ Cardinality(WeakPutting(b)) \in Nat
      /\ Cardinality(WeakPointing(b)') = Cardinality(WeakPointing(b))
             - Ind(h \in WeakPointing(b)) + Ind(h \in WeakPointing(b)')
      /\ Cardinality(WeakPutting(b)') = Cardinality(WeakPutting(b))
             - Ind(h \in WeakPutting(b)) + Ind(h \in WeakPutting(b)')
  BY <1>1, OneChanged, Zenon
<1> QED
  BY <1>2, <1>3
  DEF Uses, WeakUses, UseOf, WeakOf, Ind, Pointing, Putting, WeakPointing, WeakPutting

LEMMA TwoHandles ==
  ASSUME NEW h \in Handles, NEW r \in Handles, h # r,
         \A x \in Handles \ {h, r} : Kept(x), NEW b
  PROVE  /\ Uses(b) \in Nat
         /\ Uses(b)' = Uses(b) - UseOf(h, b) - UseOf(r, b) + UseOf(h, b)' + UseOf(r, b)'
         /\ WeakUses(b) \in Nat
         /\ WeakUses(b)' = WeakUses(b) - WeakOf(h, b) - WeakOf(r, b)
                           + WeakOf(h, b)' + WeakOf(r, b)'
<1>1. ASSUME NEW F, NEW G, IsFiniteSet(F), IsFiniteSet(G),
             \A z : z # h /\ z # r => (z \in F <=> z \in G)
      PROVE  /\ Cardinality(F) \in Nat
             /\ Cardinality(G) = Cardinality(F) - Ind(h \in F) - Ind(r \in F)
                                 + Ind(h \in G) + Ind(r \in G)
  <2> DEFINE H == (F \ {h}) \cup (G \cap {h})
  <2>1. IsFiniteSet(H)
    BY <1>1, FS_Union, FS_Intersection, FS_RemoveElement, Zenon
  <2>2. F \ {h} = H \ {h} /\ H \ {r} = G \ {r}
    BY <1>1
  <2>3. /\ Cardinality(F) \in Nat /\ Cardinality(H) \in Nat
        /\ Cardinality(H) = Cardinality(F) - Ind(h \in F) + Ind(h \in H)
    BY <1>1, <2>1, <2>2, OneChanged, Zenon
  <2>4. /\ Cardinality(G) \in Nat
        /\ Cardinality(G) = Cardinality(H) - Ind(r \in H) + Ind(r \in G)
    BY <1>1, <2>1, <2>2, OneChanged, Zenon
  <2>5. (h \in H <=> h \in G) /\ (r \in H <=> r \in F)
    BY <1>1
  <2> HIDE DEF H
  <2> QED
    BY <2>3, <2>4, <2>5 DEF Ind
<1>2. /\ Cardinality(Pointing(b)) \in Nat
      /\ Cardinality(Pointing(b)') =
           Cardinality(Pointing(b)) - Ind(h \in Pointing(b)) - Ind(r \in Pointing(b))
             + Ind(h \in Pointing(b)') + Ind(r \in Pointing(b)')
  <2>1. \A z : z # h /\ z # r => (z \in Pointing(b) <=> z \in Pointing(b)')
    BY DEF Kept, Handles, Pointing
  <2>2. IsFiniteSet(Pointing(b)) /\ IsFiniteSet(Pointing(b)')
    BY FiniteReferences
  <2> QED
    BY <2>1, <2>2, <1>1, Zenon
<1>3. /\ Cardinality(Putting(b)) \in Nat
      /\ Cardinality(Putting(b)') =
           Cardinality(Putting(b)) - Ind(h \in Putting(b)) - Ind(r \in Putting(b))
             + Ind(h \in Putting(b)') + Ind(r \in Putting(b)')
  <2>1. \A z : z # h /\ z # r => (z \in Putting(b) <=> z \in Putting(b)')
    BY DEF Kept, Handles, Putting
  <2>2. IsFiniteSet(Putting(b)) /\ IsFiniteSet(Putting(b)')
    BY FiniteReferences
  <2> QED
    BY <2>1, <2>2, <1>1, Zenon
<1>4. /\ Cardinality(WeakPointing(b)) \in Nat
      /\ Cardinality(WeakPointing(b)') =
           Cardinality(WeakPointing(b)) - Ind(h \in WeakPointing(b)) - Ind(r \in WeakPointing(b))
             + Ind(h \in WeakPointing(b)') + Ind(r \in WeakPointing(b)')
  <2>1. \A z : z # h /\ z # r => (z \in WeakPointing(b) <=> z \in WeakPointing(b)')
    BY DEF Kept, Handles, WeakPointing
  <2>2. IsFiniteSet(WeakPointing(b)) /\ IsFiniteSet(WeakPointing(b)')
    BY FiniteReferences
  <2> QED
    BY <2>1, <2>2, <1>1, Zenon
<1>5. /\ Cardinality(WeakPutting(b)) \in Nat
      /\ Cardinality(WeakPutting(b)') =
           Cardinality(WeakPutting(b)) - Ind(h \in WeakPutting(b)) - Ind(r \in WeakPutting(b))
             + Ind(h \in WeakPutting(b)') + Ind(r \in WeakPutting(b)')
  <2>1. \A z : z # h /\ z # r => (z \in WeakPutting(b) <=> z \in WeakPutting(b)')
    BY DEF Kept, Handles, WeakPutting
  <2>2. IsFiniteSet(WeakPutting(b)) /\ IsFiniteSet(WeakPutting(b)')
    BY FiniteReferences
  <2> QED
    BY <2>1, <2>2, <1>1, Zenon
<1>6. /\ Uses(b) \in Nat
      /\ Uses(b)' = Uses(b) - UseOf(h, b) - UseOf(r, b) + UseOf(h, b)' + UseOf(r, b)'
  BY <1>2, <1>3 DEF Uses, UseOf, Ind, Pointing, Putting
<1>7. /\ WeakUses(b) \in Nat
      /\ WeakUses(b)' = WeakUses(b) - WeakOf(h, b) - WeakOf(r, b)
                        + WeakOf(h, b)' + WeakOf(r, b)'
  BY <1>4, <1>5 DEF WeakUses, WeakOf, Ind, WeakPointing, WeakPutting
<1> QED
  BY <1>6, <1>7

LEMMA Counted ==
  ASSUME NEW F, IsFiniteSet(F), NEW x
  PROVE  Cardinality(F) \in Nat /\ Cardinality(F) >= Ind(x \in F)
<1>1. /\ Cardinality(F) \in Nat /\ Cardinality(F \ {x}) \in Nat
      /\ Cardinality(F) = Cardinality(F \ {x}) + Ind(x \in F)
  BY Removed, Zenon
<1> QED
  BY <1>1 DEF Ind

LEMMA Contributes ==
  ASSUME NEW h, NEW b
  PROVE  /\ Uses(b) \in Nat /\ Uses(b) >= UseOf(h, b)
         /\ WeakUses(b) \in Nat /\ (h \in Handles => WeakUses(b) >= WeakOf(h, b))
<1>1. Cardinality(Pointing(b)) \in Nat /\ Cardinality(Pointing(b)) >= Ind(h \in Pointing(b))
  BY FiniteReferences, Counted, Zenon
<1>2. Cardinality(Putting(b)) \in Nat /\ Cardinality(Putting(b)) >= Ind(h \in Putting(b))
  BY FiniteReferences, Counted, Zenon
<1>3. /\ Cardinality(WeakPointing(b)) \in Nat
      /\ Cardinality(WeakPointing(b)) >= Ind(h \in WeakPointing(b))
  BY FiniteReferences, Counted, Zenon
<1>4. /\ Cardinality(WeakPutting(b)) \in Nat
      /\ Cardinality(WeakPutting(b)) >= Ind(h \in WeakPutting(b))
  BY FiniteReferences, Counted, Zenon
<1> QED
  BY <1>1, <1>2, <1>3, <1>4
  DEF Uses, WeakUses, UseOf, WeakOf, Ind, Pointing, Putting, WeakPointing, WeakPutting

\* A reference keeps its count above zero.
Held ==
  /\ \A s \in Shareds : ptr[s] # Null => use[ptr[s]] > 0
  /\ \A s \in Shareds : pc[s] = "put" => use[temp[s]] > 0
  /\ \A w \in Weaks : ptr[w] # Null => weak[ptr[w]] > 0
  /\ \A h \in Handles : pc[h] = "wput" => weak[temp[h]] > 0
  /\ \A s \in Shareds : pc[s] = "destroy" => weak[temp[s]] > weak_this(temp[s])
  /\ \A b \in Blocks : use[b] > 0 => weak[b] > 0

LEMMA AllHeld == TypeOK /\ Phases /\ CountsExact /\ Lifetimes => Held
<1> SUFFICES ASSUME TypeOK, Phases, CountsExact, Lifetimes PROVE Held
  OBVIOUS
<1> USE NullAssumption DEF TypeOK, Phases, Handles
<1>1. ASSUME NEW b \in Blocks
      PROVE  /\ use[b] \in Nat /\ use[b] = Uses(b)
             /\ weak[b] = WeakUses(b) + SharedRef(b) + ThisRef(b)
             /\ SharedRef(b) \in {0, 1} /\ ThisRef(b) \in {0, 1}
  BY DEF CountsExact, UseCountExact, WeakCountExact, SharedRef, ThisRef, weak_this
<1>2. ASSUME NEW s \in Shareds, ptr[s] # Null PROVE use[ptr[s]] > 0
  <2>1. Uses(ptr[s]) \in Nat /\ Uses(ptr[s]) >= UseOf(s, ptr[s])
    BY Contributes, Zenon
  <2> QED
    BY <1>1, <1>2, <2>1 DEF UseOf, Ind
<1>3. ASSUME NEW s \in Shareds, pc[s] = "put" PROVE use[temp[s]] > 0
  <2>1. Uses(temp[s]) \in Nat /\ Uses(temp[s]) >= UseOf(s, temp[s])
    BY Contributes, Zenon
  <2> QED
    BY <1>1, <1>3, <2>1 DEF UseOf, Ind
<1>4. ASSUME NEW w \in Weaks, ptr[w] # Null PROVE weak[ptr[w]] > 0
  <2>1. WeakUses(ptr[w]) \in Nat /\ WeakUses(ptr[w]) >= WeakOf(w, ptr[w])
    BY Contributes, Zenon
  <2> QED
    BY <1>1, <1>4, <2>1 DEF WeakOf, Ind
<1>5. ASSUME NEW h \in Handles, pc[h] = "wput" PROVE weak[temp[h]] > 0
  <2>1. WeakUses(temp[h]) \in Nat /\ WeakUses(temp[h]) >= WeakOf(h, temp[h])
    BY Contributes, Zenon
  <2> QED
    BY <1>1, <1>5, <2>1 DEF WeakOf, Ind
<1>6. ASSUME NEW s \in Shareds, pc[s] = "destroy" PROVE weak[temp[s]] > weak_this(temp[s])
  <2>1. temp[s] \in Blocks /\ object[temp[s]] = "alive"
    BY <1>6 DEF Lifetimes, Life, Destroying
  <2>2. WeakUses(temp[s]) \in Nat /\ SharedRef(temp[s]) = 1
    BY <1>6, Contributes DEF SharedRef, Destroying
  <2> QED
    BY <1>1, <2>1, <2>2 DEF ThisRef, weak_this
<1>7. ASSUME NEW b \in Blocks, use[b] > 0 PROVE weak[b] > 0
  <2>1. object[b] = "alive" /\ SharedRef(b) = 1
    BY <1>7 DEF Lifetimes, Life, SharedRef
  <2>2. WeakUses(b) \in Nat
    BY Contributes
  <2> QED
    BY <1>1, <2>1, <2>2
<1> QED
  BY <1>2, <1>3, <1>4, <1>5, <1>6, <1>7 DEF Held

\* What CountsExact says of one block.
Exact(b) == use[b] = Uses(b) /\ weak[b] = WeakUses(b) + SharedRef(b) + ThisRef(b)

LEMMA BlockWise ==
  /\ CountsExact <=> \A b \in Blocks : Exact(b)
  /\ CountsExact' <=> \A b \in Blocks : Exact(b)'
BY DEF CountsExact, UseCountExact, WeakCountExact, Exact

\* Of the counts, Life only asks whether they are zero.
LEMMA LifeKept ==
  ASSUME NEW b \in Blocks, Life(b),
         use'[b] > 0 <=> use[b] > 0, use'[b] = 0 <=> use[b] = 0,
         weak'[b] > 0 <=> weak[b] > 0, weak'[b] = 0 <=> weak[b] = 0,
         object'[b] = object[b], block'[b] = block[b],
         \A x \in Shareds : Destroying(x, b)' <=> Destroying(x, b),
         \A x \in Handles : Deleting(x, b)' <=> Deleting(x, b)
  PROVE  Life(b)'
BY DEF Life

\* A block whose counts, object, block and references a step leaves alone.
LEMMA Untouched ==
  ASSUME NEW b \in Blocks, Exact(b), Life(b),
         use'[b] = use[b], weak'[b] = weak[b], object'[b] = object[b], block'[b] = block[b],
         Uses(b)' = Uses(b), WeakUses(b)' = WeakUses(b),
         \A x \in Shareds : Destroying(x, b)' <=> Destroying(x, b),
         \A x \in Handles : Deleting(x, b)' <=> Deleting(x, b)
  PROVE  Exact(b)' /\ Life(b)'
<1>1. SharedRef(b)' = SharedRef(b) /\ ThisRef(b)' = ThisRef(b)
  BY DEF SharedRef, ThisRef
<1>2. Life(b)'
  BY LifeKept, Zenon
<1> QED
  BY <1>1, <1>2 DEF Exact

-----------------------------------------------------------------------------
\* A handle that no call is releasing takes c and leaves its own block to its
\* temporary: no reference but the new one appears and none is lost.
LEMMA TakeEffect ==
  ASSUME TypeOK, Phases, NEW h \in Handles, pc[h] \in {"ready", "lock"},
         NEW c \in Blocks \cup {Null}, Take(h, c), NEW b \in Blocks
  PROVE  /\ Uses(b) \in Nat /\ Uses(b)' = Uses(b) + Ind(h \in Shareds /\ b = c)
         /\ WeakUses(b) \in Nat /\ WeakUses(b)' = WeakUses(b) + Ind(h \in Weaks /\ b = c)
         /\ \A s \in Shareds : Destroying(s, b)' <=> Destroying(s, b)
         /\ \A x \in Handles : Deleting(x, b)' <=> Deleting(x, b)
<1> USE NullAssumption, HandlesAssumption DEF TypeOK, Phases, Take, Drop
<1>1. \A x \in Handles \ {h} : Kept(x)
  BY DEF Kept
<1>2. /\ ptr'[h] = c /\ temp'[h] = ptr[h] /\ temp[h] = Null
      /\ pc'[h] = IF ptr[h] = Null THEN "ready" ELSE IF h \in Shareds THEN "put" ELSE "wput"
  OBVIOUS
<1>3. /\ UseOf(h, b)' = UseOf(h, b) + Ind(h \in Shareds /\ b = c)
      /\ WeakOf(h, b)' = WeakOf(h, b) + Ind(h \in Weaks /\ b = c)
      /\ UseOf(h, b) \in Nat /\ WeakOf(h, b) \in Nat
  BY <1>2 DEF UseOf, WeakOf, Ind, Handles
<1>4. /\ Uses(b) \in Nat /\ Uses(b)' = Uses(b) - UseOf(h, b) + UseOf(h, b)'
      /\ WeakUses(b) \in Nat /\ WeakUses(b)' = WeakUses(b) - WeakOf(h, b) + WeakOf(h, b)'
  BY <1>1, OneHandle, Zenon
<1>5. /\ \A s \in Shareds : Destroying(s, b)' <=> Destroying(s, b)
      /\ \A x \in Handles : Deleting(x, b)' <=> Deleting(x, b)
  BY <1>1, <1>2 DEF Destroying, Deleting, Kept, Handles
<1> QED
  BY <1>3, <1>4, <1>5 DEF Ind

\* What the temporary stands for after the handle has taken c.
LEMMA TakePhases ==
  ASSUME TypeOK, Phases, NEW h \in Handles, pc[h] \in {"ready", "lock"},
         NEW c \in Blocks \cup {Null}, Take(h, c),
         h \in Weaks => Ready(h),
         \A s \in Shareds \ {h} : from'[s] = from[s]
  PROVE  Phases'
<1> USE NullAssumption, HandlesAssumption DEF TypeOK, Phases, Take, Drop, Handles
<1>1. \A x \in Handles : temp'[x] = Null <=> pc'[x] \in {"ready", "lock"}
  OBVIOUS
<1>2. \A w \in Weaks : pc'[w] \in {"ready", "wput", "delete"}
  OBVIOUS
<1>3. \A s \in Shareds : pc'[s] = "lock" => from'[s] \in Weaks /\ ptr'[from'[s]] # Null
  BY DEF Ready
<1> QED
  BY <1>1, <1>2, <1>3

\* A new shared_ptr to a block that has one.
LEMMA GainUse ==
  ASSUME IInv, NEW s \in Shareds, pc[s] \in {"ready", "lock"},
         NEW c \in Blocks, use[c] > 0,
         use' = [use EXCEPT ![c] = @ + 1], Take(s, c), UNCHANGED <<weak, object, block>>
  PROVE  CountsExact' /\ Lifetimes'
<1> SUFFICES ASSUME NEW b \in Blocks PROVE Exact(b)' /\ Life(b)'
  BY BlockWise DEF Lifetimes
<1>1. s \in Handles /\ s \notin Weaks
  BY HandlesAssumption DEF Handles
<1>2. /\ Uses(b) \in Nat /\ Uses(b)' = Uses(b) + Ind(b = c)
      /\ WeakUses(b) \in Nat /\ WeakUses(b)' = WeakUses(b)
      /\ \A x \in Shareds : Destroying(x, b)' <=> Destroying(x, b)
      /\ \A x \in Handles : Deleting(x, b)' <=> Deleting(x, b)
  BY <1>1, TakeEffect DEF Ind, IInv
<1>3. Exact(b) /\ Life(b)
  BY BlockWise DEF IInv, Lifetimes
<1>4. /\ use'[b] = use[b] + Ind(b = c) /\ use[b] \in Nat
      /\ weak'[b] = weak[b] /\ object'[b] = object[b] /\ block'[b] = block[b]
  BY DEF Ind, IInv, TypeOK
<1>5. CASE b # c
  <2>1. use'[b] = use[b] /\ Uses(b)' = Uses(b)
    BY <1>2, <1>4, <1>5 DEF Ind
  <2> QED
    BY <1>2, <1>3, <1>4, <2>1, Untouched, Zenon
<1>6. CASE b = c
  <2>1. use[b] > 0 /\ use'[b] = use[b] + 1 /\ Uses(b)' = Uses(b) + 1
    BY <1>2, <1>4, <1>6 DEF Ind
  <2>2. SharedRef(b)' = SharedRef(b) /\ ThisRef(b)' = ThisRef(b)
    BY <1>4, <2>1 DEF SharedRef, ThisRef
  <2>3. Exact(b)'
    BY <1>2, <1>3, <1>4, <2>1, <2>2 DEF Exact
  <2>4. use'[b] > 0 /\ use'[b] # 0 /\ use[b] # 0
    BY <1>4, <2>1
  <2>5. Life(b)'
    BY <1>2, <1>3, <1>4, <2>1, <2>4, LifeKept, Zenon
  <2> QED
    BY <2>3, <2>5
<1> QED
  BY <1>5, <1>6

\* A handle is emptied.
LEMMA GainNothing ==
  ASSUME IInv, NEW h \in Handles, pc[h] \in {"ready", "lock"},
         Take(h, Null), UNCHANGED <<use, weak, object, block>>
  PROVE  CountsExact' /\ Lifetimes'
<1> SUFFICES ASSUME NEW b \in Blocks PROVE Exact(b)' /\ Life(b)'
  BY BlockWise DEF Lifetimes
<1>1. /\ Uses(b)' = Uses(b) /\ WeakUses(b)' = WeakUses(b)
      /\ \A x \in Shareds : Destroying(x, b)' <=> Destroying(x, b)
      /\ \A x \in Handles : Deleting(x, b)' <=> Deleting(x, b)
  BY TakeEffect, NullAssumption DEF Ind, IInv
<1>2. Exact(b) /\ Life(b)
  BY BlockWise DEF IInv, Lifetimes
<1>3. use'[b] = use[b] /\ weak'[b] = weak[b] /\ object'[b] = object[b] /\ block'[b] = block[b]
  OBVIOUS
<1> QED
  BY <1>1, <1>2, <1>3, Untouched, Zenon

\* A new weak_ptr to a block that some handle refers to.
LEMMA GainWeak ==
  ASSUME IInv, NEW w \in Weaks, pc[w] = "ready", NEW c \in Blocks, weak[c] > 0,
         weak' = [weak EXCEPT ![c] = @ + 1], Take(w, c), UNCHANGED <<use, object, block>>
  PROVE  CountsExact' /\ Lifetimes'
<1> SUFFICES ASSUME NEW b \in Blocks PROVE Exact(b)' /\ Life(b)'
  BY BlockWise DEF Lifetimes
<1>1. w \in Handles /\ w \notin Shareds
  BY HandlesAssumption DEF Handles
<1>2. /\ Uses(b) \in Nat /\ Uses(b)' = Uses(b)
      /\ WeakUses(b) \in Nat /\ WeakUses(b)' = WeakUses(b) + Ind(b = c)
      /\ \A x \in Shareds : Destroying(x, b)' <=> Destroying(x, b)
      /\ \A x \in Handles : Deleting(x, b)' <=> Deleting(x, b)
  BY <1>1, TakeEffect DEF Ind, IInv
<1>3. Exact(b) /\ Life(b)
  BY BlockWise DEF IInv, Lifetimes
<1>4. /\ weak'[b] = weak[b] + Ind(b = c) /\ weak[b] \in Nat
      /\ use'[b] = use[b] /\ object'[b] = object[b] /\ block'[b] = block[b]
  BY DEF Ind, IInv, TypeOK
<1>5. CASE b # c
  <2>1. weak'[b] = weak[b] /\ WeakUses(b)' = WeakUses(b)
    BY <1>2, <1>4, <1>5 DEF Ind
  <2> QED
    BY <1>2, <1>3, <1>4, <2>1, Untouched, Zenon
<1>6. CASE b = c
  <2>1. weak[b] > 0 /\ weak'[b] = weak[b] + 1 /\ WeakUses(b)' = WeakUses(b) + 1
    BY <1>2, <1>4, <1>6 DEF Ind
  <2>2. /\ SharedRef(b)' = SharedRef(b) /\ ThisRef(b)' = ThisRef(b)
        /\ SharedRef(b) \in Nat /\ ThisRef(b) \in Nat
    BY <1>2, <1>4 DEF SharedRef, ThisRef, weak_this
  <2>3. Exact(b)'
    BY <1>2, <1>3, <1>4, <2>1, <2>2 DEF Exact
  <2>4. weak'[b] > 0 /\ weak'[b] # 0 /\ weak[b] # 0
    BY <1>4, <2>1
  <2>5. Life(b)'
    BY <1>2, <1>3, <1>4, <2>1, <2>4, LifeKept, Zenon
  <2> QED
    BY <2>3, <2>5
<1> QED
  BY <1>5, <1>6
-----------------------------------------------------------------------------
(* The steps that give up a reference keep the inductive invariant IInv. *)

\* A shared_ptr is released; the last one has the object to destroy.
LEMMA Puts ==
  ASSUME IInv, NEW s \in Shareds, put(s)
  PROVE  IInv'
<1> DEFINE c == temp[s]
<1> USE HandlesAssumption, NullAssumption DEF IInv
<1>1. /\ s \in Handles /\ s \notin Weaks /\ pc[s] = "put"
      /\ c \in Blocks /\ use[c] \in Nat /\ use[c] > 0
      /\ use' = [use EXCEPT ![c] = @ - 1]
      /\ UNCHANGED <<weak, object, block, ptr, old, from>>
  BY AllHeld DEF put, Phases, TypeOK, Held, Handles
<1>2. /\ \A x \in Handles \ {s} : Kept(x)
      /\ \/ use[c] = 1 /\ pc'[s] = "destroy" /\ temp'[s] = c
         \/ use[c] > 1 /\ pc'[s] = "ready" /\ temp'[s] = Null
  BY <1>1 DEF put, Done, TypeOK, Kept
<1>3. TypeOK'
  BY <1>1 DEF TypeOK, put, Done, PCs
<1>4. Phases'
  BY <1>1, <1>2 DEF Phases, TypeOK, Kept, Handles
<1>5. ASSUME NEW b \in Blocks PROVE Exact(b)' /\ Life(b)'
  <2>1. Exact(b) /\ Life(b) /\ use[b] \in Nat /\ weak[b] \in Nat
    BY BlockWise DEF Lifetimes, TypeOK
  <2>2. /\ UseOf(s, b)' = UseOf(s, b) - Ind(b = c) /\ UseOf(s, b) \in Nat
        /\ WeakOf(s, b)' = WeakOf(s, b) /\ WeakOf(s, b) \in Nat
    BY <1>1, <1>2 DEF UseOf, WeakOf, Ind
  <2>3. /\ Uses(b) \in Nat /\ Uses(b)' = Uses(b) - UseOf(s, b) + UseOf(s, b)'
        /\ WeakUses(b) \in Nat /\ WeakUses(b)' = WeakUses(b) - WeakOf(s, b) + WeakOf(s, b)'
    BY <1>1, <1>2, OneHandle, Zenon
  <2>4. Uses(b)' = Uses(b) - Ind(b = c) /\ WeakUses(b)' = WeakUses(b)
    BY <2>2, <2>3 DEF Ind
  <2>5. /\ use'[b] = use[b] - Ind(b = c)
        /\ weak'[b] = weak[b] /\ object'[b] = object[b] /\ block'[b] = block[b]
    BY <1>1 DEF Ind, TypeOK
  <2>6. /\ \A x \in Shareds : Destroying(x, b)' <=>
              Destroying(x, b) \/ (x = s /\ b = c /\ use[b] = 1)
        /\ \A x \in Handles : Deleting(x, b)' <=> Deleting(x, b)
    BY <1>1, <1>2 DEF Destroying, Deleting, Kept, Handles
  <2>7. CASE b # c
    <3>1. use'[b] = use[b] /\ Uses(b)' = Uses(b)
      BY <2>1, <2>3, <2>4, <2>5, <2>7 DEF Ind
    <3>2. \A x \in Shareds : Destroying(x, b)' <=> Destroying(x, b)
      BY <2>6, <2>7, Zenon
    <3> QED
      BY <2>1, <2>4, <2>5, <2>6, <3>1, <3>2, Untouched, Zenon
  <2>8. CASE b = c
    <3>1. use[b] > 0 /\ use'[b] = use[b] - 1 /\ Uses(b)' = Uses(b) - 1
      BY <1>1, <2>4, <2>5, <2>8 DEF Ind
    <3>2. /\ \A x \in Shareds : ~Destroying(x, b)
          /\ \A x \in Shareds : Destroying(x, b)' <=> x = s /\ use'[b] = 0
      BY <2>1, <2>6, <2>8, <3>1 DEF Life
    <3>3. SharedRef(b)' = SharedRef(b) /\ ThisRef(b)' = ThisRef(b)
      BY <2>1, <2>5, <3>1, <3>2 DEF SharedRef, ThisRef
    <3>4. Exact(b)'
      BY <2>1, <2>3, <2>4, <2>5, <3>1, <3>3 DEF Exact
    <3>5. Life(b)'
      BY <2>1, <2>5, <2>6, <3>1, <3>2 DEF Life
    <3> QED
      BY <3>4, <3>5
  <2> QED
    BY <2>7, <2>8
<1> QED
  BY <1>3, <1>4, <1>5, BlockWise DEF Lifetimes

\* The last shared_ptr destroys the object, and with it the object's weak_this;
\* the weak reference of the shared_ptrs is now the thread's own to release.
LEMMA Destroys ==
  ASSUME IInv, NEW s \in Shareds, destroy_managed_object(s)
  PROVE  IInv'
<1> DEFINE c == temp[s]
<1> USE HandlesAssumption, NullAssumption DEF IInv
<1>1. /\ s \in Handles /\ s \notin Weaks /\ pc[s] = "destroy" /\ c \in Blocks
      /\ weak[c] \in Nat /\ weak_this(c) \in {0, 1} /\ weak[c] > weak_this(c)
      /\ object' = [object EXCEPT ![c] = "destroyed"]
      /\ weak' = [weak EXCEPT ![c] = @ - weak_this(c)]
      /\ UNCHANGED <<use, block, ptr, temp, old, from>>
  BY AllHeld DEF destroy_managed_object, Phases, TypeOK, Held, Handles, weak_this
<1>2. (\A x \in Handles \ {s} : Kept(x)) /\ pc'[s] = "wput" /\ temp'[s] = c
  BY <1>1 DEF destroy_managed_object, TypeOK, Kept
<1>3. TypeOK'
  BY <1>1 DEF TypeOK, destroy_managed_object, PCs
<1>4. Phases'
  BY <1>1, <1>2 DEF Phases, TypeOK, Kept, Handles
<1>5. ASSUME NEW b \in Blocks PROVE Exact(b)' /\ Life(b)'
  <2>1. Exact(b) /\ Life(b) /\ use[b] \in Nat /\ weak[b] \in Nat
    BY BlockWise DEF Lifetimes, TypeOK
  <2>2. /\ UseOf(s, b)' = UseOf(s, b) /\ UseOf(s, b) \in Nat
        /\ WeakOf(s, b)' = WeakOf(s, b) + Ind(b = c) /\ WeakOf(s, b) \in Nat
    BY <1>1, <1>2 DEF UseOf, WeakOf, Ind
  <2>3. /\ Uses(b) \in Nat /\ Uses(b)' = Uses(b) - UseOf(s, b) + UseOf(s, b)'
        /\ WeakUses(b) \in Nat /\ WeakUses(b)' = WeakUses(b) - WeakOf(s, b) + WeakOf(s, b)'
    BY <1>1, <1>2, OneHandle, Zenon
  <2>4. Uses(b)' = Uses(b) /\ WeakUses(b)' = WeakUses(b) + Ind(b = c)
    BY <2>2, <2>3 DEF Ind
  <2>5. /\ \A x \in Shareds : Destroying(x, b)' <=> Destroying(x, b) /\ x # s
        /\ \A x \in Handles : Deleting(x, b)' <=> Deleting(x, b)
        /\ Destroying(s, b) <=> b = c
    BY <1>1, <1>2 DEF Destroying, Deleting, Kept, Handles
  <2>6. use'[b] = use[b] /\ block'[b] = block[b]
    BY <1>1
  <2>7. CASE b # c
    <3>1. weak'[b] = weak[b] /\ object'[b] = object[b] /\ WeakUses(b)' = WeakUses(b)
      BY <1>1, <2>3, <2>4, <2>7 DEF TypeOK, Ind
    <3>2. \A x \in Shareds : Destroying(x, b)' <=> Destroying(x, b)
      BY <2>5, <2>7, Zenon
    <3> QED
      BY <2>1, <2>4, <2>5, <2>6, <3>1, <3>2, Untouched, Zenon
  <2>8. CASE b = c
    <3>1. /\ use[b] = 0 /\ object[b] = "alive" /\ \E x \in Shareds : Destroying(x, b)
          /\ \A x \in Shareds : ~Destroying(x, b)'
      BY <2>1, <2>5, <2>8 DEF Life
    <3>2. /\ weak'[b] = weak[b] - weak_this(b) /\ object'[b] = "destroyed"
          /\ WeakUses(b)' = WeakUses(b) + 1 /\ weak_this(b) \in {0, 1} /\ weak'[b] > 0
      BY <1>1, <2>4, <2>8 DEF TypeOK, Ind
    <3>3. /\ SharedRef(b) = 1 /\ ThisRef(b) = weak_this(b)
          /\ SharedRef(b)' = 0 /\ ThisRef(b)' = 0
      BY <2>6, <3>1, <3>2 DEF SharedRef, ThisRef
    <3>4. Exact(b)'
      BY <2>1, <2>3, <2>4, <2>6, <3>2, <3>3 DEF Exact
    <3>5. Life(b)'
      BY <2>1, <2>5, <2>6, <3>1, <3>2 DEF Life
    <3> QED
      BY <3>4, <3>5
  <2> QED
    BY <2>7, <2>8
<1> QED
  BY <1>3, <1>4, <1>5, BlockWise DEF Lifetimes

\* A weak reference is released; the last one has the block to delete.
LEMMA WeakPuts ==
  ASSUME IInv, NEW h \in Handles, weak_put(h)
  PROVE  IInv'
<1> DEFINE c == temp[h]
<1> USE HandlesAssumption, NullAssumption DEF IInv
<1>1. /\ pc[h] = "wput" /\ c \in Blocks /\ weak[c] \in Nat /\ weak[c] > 0
      /\ weak' = [weak EXCEPT ![c] = @ - 1]
      /\ UNCHANGED <<use, object, block, ptr, old, from>>
  BY AllHeld DEF weak_put, Phases, TypeOK, Held, Handles
<1>2. /\ \A x \in Handles \ {h} : Kept(x)
      /\ \/ weak[c] = 1 /\ pc'[h] = "delete" /\ temp'[h] = c
         \/ weak[c] > 1 /\ pc'[h] = "ready" /\ temp'[h] = Null
  BY <1>1 DEF weak_put, Done, TypeOK, Kept
<1>3. TypeOK'
  BY <1>1 DEF TypeOK, weak_put, Done, PCs
<1>4. Phases'
  BY <1>1, <1>2 DEF Phases, TypeOK, Kept, Handles
<1>5. ASSUME NEW b \in Blocks PROVE Exact(b)' /\ Life(b)'
  <2>1. Exact(b) /\ Life(b) /\ use[b] \in Nat /\ weak[b] \in Nat
    BY BlockWise DEF Lifetimes, TypeOK
  <2>2. /\ UseOf(h, b)' = UseOf(h, b) /\ UseOf(h, b) \in Nat
        /\ WeakOf(h, b)' = WeakOf(h, b) - Ind(b = c) /\ WeakOf(h, b) \in Nat
    BY <1>1, <1>2 DEF UseOf, WeakOf, Ind
  <2>3. /\ Uses(b) \in Nat /\ Uses(b)' = Uses(b) - UseOf(h, b) + UseOf(h, b)'
        /\ WeakUses(b) \in Nat /\ WeakUses(b)' = WeakUses(b) - WeakOf(h, b) + WeakOf(h, b)'
    BY <1>1, <1>2, OneHandle, Zenon
  <2>4. Uses(b)' = Uses(b) /\ WeakUses(b)' = WeakUses(b) - Ind(b = c)
    BY <2>2, <2>3 DEF Ind
  <2>5. use'[b] = use[b] /\ object'[b] = object[b] /\ block'[b] = block[b]
    BY <1>1
  <2>6. /\ \A x \in Handles : Deleting(x, b)' <=>
              Deleting(x, b) \/ (x = h /\ b = c /\ weak[b] = 1)
        /\ \A x \in Shareds : Destroying(x, b)' <=> Destroying(x, b)
    BY <1>1, <1>2 DEF Destroying, Deleting, Kept, Handles
  <2>7. CASE b # c
    <3>1. weak'[b] = weak[b] /\ WeakUses(b)' = WeakUses(b)
      BY <1>1, <2>3, <2>4, <2>7 DEF TypeOK, Ind
    <3>2. \A x \in Handles : Deleting(x, b)' <=> Deleting(x, b)
      BY <2>6, <2>7, Zenon
    <3> QED
      BY <2>1, <2>4, <2>5, <2>6, <3>1, <3>2, Untouched, Zenon
  <2>8. CASE b = c
    <3>1. weak[b] > 0 /\ weak'[b] = weak[b] - 1 /\ WeakUses(b)' = WeakUses(b) - 1
      BY <1>1, <2>4, <2>8 DEF TypeOK, Ind
    <3>2. \A x \in Handles : Deleting(x, b)' <=> x = h /\ weak'[b] = 0
      BY <2>1, <2>6, <2>8, <3>1 DEF Life
    <3>3. /\ SharedRef(b)' = SharedRef(b) /\ ThisRef(b)' = ThisRef(b)
          /\ SharedRef(b) \in Nat /\ ThisRef(b) \in Nat
      BY <2>5, <2>6 DEF SharedRef, ThisRef, weak_this
    <3>4. Exact(b)'
      BY <2>1, <2>3, <2>4, <2>5, <3>1, <3>3 DEF Exact
    <3>5. Life(b)'
      BY <2>1, <2>5, <2>6, <3>1, <3>2 DEF Life
    <3> QED
      BY <3>4, <3>5
  <2> QED
    BY <2>7, <2>8
<1> QED
  BY <1>3, <1>4, <1>5, BlockWise DEF Lifetimes

LEMMA Deletes ==
  ASSUME IInv, NEW h \in Handles, delete_control_block(h)
  PROVE  IInv'
<1> DEFINE c == temp[h]
<1> USE HandlesAssumption, NullAssumption DEF IInv
<1>1. /\ pc[h] = "delete" /\ c \in Blocks
      /\ block' = [block EXCEPT ![c] = "deleted"]
      /\ UNCHANGED <<use, weak, object, ptr, old, from>>
  BY DEF delete_control_block, Phases, TypeOK, Handles
<1>2. (\A x \in Handles \ {h} : Kept(x)) /\ pc'[h] = "ready" /\ temp'[h] = Null
  BY <1>1 DEF delete_control_block, Done, TypeOK, Kept
<1>3. TypeOK'
  BY <1>1 DEF TypeOK, delete_control_block, Done, PCs
<1>4. Phases'
  BY <1>1, <1>2 DEF Phases, TypeOK, Kept, Handles
<1>5. ASSUME NEW b \in Blocks PROVE Exact(b)' /\ Life(b)'
  <2>1. Exact(b) /\ Life(b)
    BY BlockWise DEF Lifetimes
  <2>2. /\ UseOf(h, b)' = UseOf(h, b) /\ UseOf(h, b) \in Nat
        /\ WeakOf(h, b)' = WeakOf(h, b) /\ WeakOf(h, b) \in Nat
    BY <1>1, <1>2 DEF UseOf, WeakOf, Ind
  <2>3. /\ Uses(b) \in Nat /\ Uses(b)' = Uses(b) - UseOf(h, b) + UseOf(h, b)'
        /\ WeakUses(b) \in Nat /\ WeakUses(b)' = WeakUses(b) - WeakOf(h, b) + WeakOf(h, b)'
    BY <1>1, <1>2, OneHandle, Zenon
  <2>4. Uses(b)' = Uses(b) /\ WeakUses(b)' = WeakUses(b)
    BY <2>2, <2>3
  <2>5. /\ \A x \in Handles : Deleting(x, b)' <=> Deleting(x, b) /\ x # h
        /\ \A x \in Shareds : Destroying(x, b)' <=> Destroying(x, b)
        /\ Deleting(h, b) <=> b = c
    BY <1>1, <1>2 DEF Destroying, Deleting, Kept, Handles
  <2>6. use'[b] = use[b] /\ weak'[b] = weak[b] /\ object'[b] = object[b]
    BY <1>1
  <2>7. CASE b # c
    <3>1. block'[b] = block[b]
      BY <1>1, <2>7 DEF TypeOK
    <3>2. \A x \in Handles : Deleting(x, b)' <=> Deleting(x, b)
      BY <2>5, <2>7, Zenon
    <3> QED
      BY <2>1, <2>4, <2>5, <2>6, <3>1, <3>2, Untouched, Zenon
  <2>8. CASE b = c
    <3>1. block'[b] = "deleted"
      BY <1>1, <2>8 DEF TypeOK
    <3>2. SharedRef(b)' = SharedRef(b) /\ ThisRef(b)' = ThisRef(b)
      BY <2>5, <2>6 DEF SharedRef, ThisRef
    <3>3. Exact(b)'
      BY <2>1, <2>4, <2>6, <3>2 DEF Exact
    <3>4. Life(b)'
      BY <2>1, <2>5, <2>6, <2>8, <3>1 DEF Life
    <3> QED
      BY <3>3, <3>4
  <2> QED
    BY <2>7, <2>8
<1> QED
  BY <1>3, <1>4, <1>5, BlockWise DEF Lifetimes

=============================================================================
