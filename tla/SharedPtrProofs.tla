-------------------------- MODULE SharedPtrProofs --------------------------
(***************************************************************************)
(* Proofs about shared_ptr and weak_ptr, the end: the steps that take a    *)
(* reference keep the inductive invariant too, it holds throughout, and    *)
(* what it says.                                                           *)
(***************************************************************************)
EXTENDS SharedPtr

\* Two handles of a kind exchange references, and no count changes.
LEMMA Exchanges ==
  ASSUME IInv, NEW h \in Handles, NEW r \in Handles, move(h, r) \/ swap(h, r), h # r
  PROVE  IInv'
<1> USE HandlesAssumption, NullAssumption DEF IInv
<1>1. /\ Ready(h) /\ Ready(r) /\ pc[h] = "ready" /\ pc[r] = "ready"
      /\ temp[h] = Null /\ temp[r] = Null /\ SameKind(h, r)
      /\ UNCHANGED <<use, weak, object, block, old, from>>
  BY DEF move, swap, Ready, Phases
<1>2. /\ \A x \in Handles \ {h, r} : Kept(x)
      /\ ptr'[h] = ptr[r] /\ pc'[r] = "ready" /\ temp'[r] = Null
      /\ \/ /\ ptr'[r] = Null /\ temp'[h] = ptr[h]
            /\ pc'[h] = IF ptr[h] = Null THEN "ready"
                        ELSE IF h \in Shareds THEN "put" ELSE "wput"
         \/ ptr'[r] = ptr[h] /\ temp'[h] = Null /\ pc'[h] = "ready"
  BY <1>1 DEF move, swap, Drop, Kept, TypeOK
<1>3. TypeOK'
  BY <1>1 DEF TypeOK, move, swap, Drop, PCs
<1>4. Phases'
  <2>1. /\ \A x \in Handles : temp'[x] = Null <=> pc'[x] \in {"ready", "lock"}
        /\ \A w \in Weaks : pc'[w] \in {"ready", "wput", "delete"}
    BY <1>1, <1>2 DEF Phases, TypeOK, Kept, Handles
  <2>2. ASSUME NEW s \in Shareds, pc'[s] = "lock"
        PROVE  from'[s] \in Weaks /\ ptr'[from'[s]] # Null
    <3>1. pc[s] = "lock" /\ from'[s] = from[s] /\ from[s] \in Weaks /\ ptr[from[s]] # Null
      BY <1>1, <1>2, <2>2 DEF Phases, Kept, Handles
    <3>2. from[s] # h /\ from[s] # r
      BY <1>1, <3>1 DEF Ready
    <3> QED
      BY <1>2, <3>1, <3>2 DEF Kept, Handles
  <2> QED
    BY <2>1, <2>2 DEF Phases
<1>5. ASSUME NEW b \in Blocks PROVE Exact(b)' /\ Life(b)'
  <2>1. Exact(b) /\ Life(b)
    BY BlockWise DEF Lifetimes
  <2>2. /\ UseOf(h, b)' + UseOf(r, b)' = UseOf(h, b) + UseOf(r, b)
        /\ UseOf(h, b) \in Nat /\ UseOf(r, b) \in Nat
        /\ UseOf(h, b)' \in Nat /\ UseOf(r, b)' \in Nat
    BY <1>1, <1>2 DEF UseOf, Ind, SameKind
  <2>3. /\ WeakOf(h, b)' + WeakOf(r, b)' = WeakOf(h, b) + WeakOf(r, b)
        /\ WeakOf(h, b) \in Nat /\ WeakOf(r, b) \in Nat
        /\ WeakOf(h, b)' \in Nat /\ WeakOf(r, b)' \in Nat
    BY <1>1, <1>2 DEF WeakOf, Ind, SameKind, Handles
  <2>4. /\ Uses(b) \in Nat
        /\ Uses(b)' = Uses(b) - UseOf(h, b) - UseOf(r, b) + UseOf(h, b)' + UseOf(r, b)'
        /\ WeakUses(b) \in Nat
        /\ WeakUses(b)' = WeakUses(b) - WeakOf(h, b) - WeakOf(r, b)
                          + WeakOf(h, b)' + WeakOf(r, b)'
    BY <1>1, <1>2, TwoHandles, Zenon
  <2>5. /\ \A x \in Handles : Deleting(x, b)' <=> Deleting(x, b)
        /\ \A x \in Shareds : Destroying(x, b)' <=> Destroying(x, b)
    BY <1>1, <1>2 DEF Destroying, Deleting, Kept, Handles
  <2>6. Uses(b)' = Uses(b) /\ WeakUses(b)' = WeakUses(b)
    BY <2>2, <2>3, <2>4
  <2>7. use'[b] = use[b] /\ weak'[b] = weak[b] /\ object'[b] = object[b] /\ block'[b] = block[b]
    BY <1>1
  <2> QED
    BY <2>1, <2>5, <2>6, <2>7, Untouched, Zenon
<1> QED
  BY <1>3, <1>4, <1>5, BlockWise DEF Lifetimes

\* Only the constructor of a new block, a copy and a lock() that found the count above
\* zero raise a use_count_.
LEMMA NeverRaised ==
  ASSUME TypeOK, Held, Next, NEW b \in Blocks, use[b] = 0, object[b] # "none"
  PROVE  use'[b] = 0
<1>1. use \in [Blocks -> Nat]
  BY DEF TypeOK
<1>2. ASSUME NEW c, use[c] > 0, use' = [use EXCEPT ![c] = @ + 1] \/ use' = [use EXCEPT ![c] = @ - 1]
      PROVE  use'[b] = 0
  BY <1>1, <1>2
<1>3. ASSUME NEW s \in Shareds, construct(s) PROVE use'[b] = 0
  BY <1>1, <1>3 DEF construct
<1>4. ASSUME NEW s \in Shareds, put(s) PROVE use'[b] = 0
  BY <1>2, <1>4 DEF put, Held
<1>5. ASSUME NEW s \in Shareds, LockCas(s) PROVE use'[b] = 0
  BY <1>2, <1>5 DEF LockCas
<1>6. ASSUME NEW s \in Shareds, NEW r \in Shareds, copy(s, r) PROVE use'[b] = 0
  BY <1>2, <1>6 DEF copy, Held
<1>7. CASE UNCHANGED use
  BY <1>7
<1> QED
  BY <1>3, <1>4, <1>5, <1>6, <1>7
  DEF Next, ConstructThrows, reset, destroy_managed_object, pointer_cast, lock, weak_reset,
      weak_copy, weak_pointer_cast, Release, weak_put, delete_control_block, move, swap

LEMMA StaysDestroyed ==
  ASSUME TypeOK, Next, NEW b \in Blocks, object[b] = "destroyed"
  PROVE  object'[b] = "destroyed"
<1>1. object \in [Blocks -> {"none", "alive", "destroyed", "orphan"}]
  BY DEF TypeOK
<1>2. ASSUME NEW s \in Shareds, construct(s) \/ ConstructThrows(s) \/ destroy_managed_object(s)
      PROVE  object'[b] = "destroyed"
  BY <1>1, <1>2 DEF construct, ConstructThrows, destroy_managed_object
<1>3. CASE UNCHANGED object
  BY <1>3
<1> QED
  BY <1>2, <1>3
  DEF Next, reset, put, LockCas, copy, pointer_cast, lock, weak_reset, weak_copy,
      weak_pointer_cast, Release, weak_put, delete_control_block, move, swap

LEMMA StepNoResurrection == IInv /\ [Next]_vars => [NoResurrectionStep]_vars
<1> SUFFICES ASSUME TypeOK, CountsExact, Phases, Lifetimes, Next PROVE NoResurrectionStep
  BY DEF IInv
<1>1. Held
  BY AllHeld
<1>2. ASSUME NEW b \in Blocks, block[b] # "none", use[b] = 0 PROVE use'[b] = 0
  <2>1. object[b] # "none"
    BY <1>2 DEF Lifetimes, Life
  <2> QED
    BY <1>1, <1>2, <2>1, NeverRaised
<1>3. ASSUME NEW b \in Blocks, object[b] = "destroyed" PROVE object'[b] = "destroyed"
  BY <1>3, StaysDestroyed
<1>4. ASSUME NEW w \in Weaks, expired(w), ptr'[w] = ptr[w] PROVE expired(w)'
  <2>1. ptr[w] # Null => ptr[w] \in Blocks /\ weak[ptr[w]] > 0
    BY <1>1 DEF Held, TypeOK, Handles
  <2>2. ptr[w] # Null => block[ptr[w]] # "none"
    BY <2>1 DEF Lifetimes, Life
  <2> QED
    BY <1>2, <1>4, <2>1, <2>2 DEF expired
<1>5. \A w \in Weaks, s \in Shareds : ptr[s] = ptr[w] => (expired(w) <=> use_count(s) = 0)
  BY DEF expired, use_count
<1> QED
  BY <1>2, <1>3, <1>4, <1>5 DEF NoResurrectionStep

\* The first shared_ptr to a new block.
LEMMA Constructs ==
  ASSUME IInv, NEW s \in Shareds, construct(s)
  PROVE  IInv'
<1> USE DEF IInv
<1>1. PICK c \in Blocks :
        /\ object[c] = "none"
        /\ object' = [object EXCEPT ![c] = "alive"]
        /\ block' = [block EXCEPT ![c] = "allocated"]
        /\ use' = [use EXCEPT ![c] = 1]
        /\ weak' = [weak EXCEPT ![c] = 1 + weak_this(c)]
        /\ Take(s, c)
  BY DEF construct
<1>2. s \in Handles /\ s \notin Weaks /\ pc[s] = "ready" /\ UNCHANGED <<old, from>>
  BY HandlesAssumption DEF Handles, construct, Ready
<1>3. TypeOK'
  BY <1>1, <1>2 DEF TypeOK, Take, Drop, PCs, weak_this
<1>4. Phases'
  BY <1>1, <1>2, TakePhases
<1>5. ASSUME NEW b \in Blocks PROVE Exact(b)' /\ Life(b)'
  <2>1. /\ Uses(b) \in Nat /\ Uses(b)' = Uses(b) + Ind(b = c)
        /\ WeakUses(b) \in Nat /\ WeakUses(b)' = WeakUses(b)
        /\ \A x \in Shareds : Destroying(x, b)' <=> Destroying(x, b)
        /\ \A x \in Handles : Deleting(x, b)' <=> Deleting(x, b)
    BY <1>1, <1>2, TakeEffect DEF Ind
  <2>2. Exact(b) /\ Life(b)
    BY BlockWise DEF Lifetimes
  <2>3. use[b] \in Nat /\ weak[b] \in Nat
    BY DEF TypeOK
  <2>4. CASE b # c
    <3>1. use'[b] = use[b] /\ weak'[b] = weak[b] /\ object'[b] = object[b] /\ block'[b] = block[b]
      BY <1>1, <2>4 DEF TypeOK
    <3>2. Uses(b)' = Uses(b)
      BY <2>1, <2>4 DEF Ind
    <3> QED
      BY <2>1, <2>2, <3>1, <3>2, Untouched
  <2>5. CASE b = c
    <3>1. /\ use[b] = 0 /\ weak[b] = 0 /\ Uses(b) = 0 /\ WeakUses(b) = 0
          /\ \A x \in Shareds : ~Destroying(x, b)
          /\ \A x \in Handles : ~Deleting(x, b)
      BY <1>1, <2>1, <2>2, <2>3, <2>5 DEF Life, Exact, SharedRef, ThisRef
    <3>2. /\ use'[b] = 1 /\ weak'[b] = 1 + weak_this(b)
          /\ object'[b] = "alive" /\ block'[b] = "allocated"
      BY <1>1, <2>5 DEF TypeOK
    <3>3. SharedRef(b)' = 1 /\ ThisRef(b)' = weak_this(b)
      BY <3>2 DEF SharedRef, ThisRef, weak_this
    <3>4. Exact(b)'
      BY <2>1, <2>5, <3>1, <3>2, <3>3 DEF Exact, Ind, weak_this
    <3>5. Life(b)'
      BY <2>1, <3>1, <3>2 DEF Life, weak_this
    <3> QED
      BY <3>4, <3>5
  <2> QED
    BY <2>4, <2>5
<1> QED
  BY <1>3, <1>4, <1>5, BlockWise DEF Lifetimes

LEMMA Throws ==
  ASSUME IInv, NEW s \in Shareds, ConstructThrows(s)
  PROVE  IInv'
<1> USE DEF IInv
<1>1. UNCHANGED <<use, weak, block, ptr, temp, pc, old, from>>
  BY DEF ConstructThrows
<1>2. TypeOK' /\ Phases'
  BY <1>1 DEF ConstructThrows, TypeOK, Phases
<1>3. ASSUME NEW b \in Blocks PROVE Exact(b)' /\ Life(b)'
  <2>1. Exact(b) /\ Life(b)
    BY BlockWise DEF Lifetimes
  <2>2. \/ object'[b] = object[b]
        \/ object[b] = "none" /\ object'[b] \in {"orphan", "destroyed"}
    BY DEF ConstructThrows, TypeOK
  <2>3. Exact(b)'
    BY <1>1, <2>1, <2>2 DEF Exact, Uses, WeakUses, SharedRef, ThisRef, Destroying
  <2>4. Life(b)'
    BY <1>1, <2>1, <2>2 DEF Life, Destroying, Deleting
  <2> QED
    BY <2>3, <2>4
<1> QED
  BY <1>2, <1>3, BlockWise DEF Lifetimes

LEMMA Copies ==
  ASSUME IInv, NEW s \in Shareds, NEW r \in Shareds, copy(s, r)
  PROVE  IInv'
<1> USE DEF IInv
<1>1. /\ s \in Handles /\ s \notin Weaks /\ pc[s] = "ready"
      /\ ptr[r] \in Blocks /\ use[ptr[r]] > 0
  BY AllHeld, HandlesAssumption DEF Handles, copy, Ready, Held, TypeOK
<1>2. TypeOK'
  BY <1>1 DEF TypeOK, copy, Take, Drop, PCs
<1>3. Phases'
  BY <1>1, TakePhases DEF copy
<1>4. CountsExact' /\ Lifetimes'
  BY <1>1, GainUse DEF copy
<1> QED
  BY <1>2, <1>3, <1>4

LEMMA Resets ==
  ASSUME IInv, NEW h \in Handles, Ready(h), Take(h, Null),
         UNCHANGED <<use, weak, object, block, old, from>>
  PROVE  IInv'
<1> USE DEF IInv
<1>1. pc[h] = "ready"
  BY DEF Ready
<1>2. TypeOK'
  BY <1>1 DEF TypeOK, Take, Drop, PCs
<1>3. Phases'
  BY <1>1, TakePhases
<1>4. CountsExact' /\ Lifetimes'
  BY <1>1, GainNothing
<1> QED
  BY <1>2, <1>3, <1>4

LEMMA WeakCopies ==
  ASSUME IInv, NEW w \in Weaks, NEW r \in Handles, weak_copy(w, r)
  PROVE  IInv'
<1> USE DEF IInv
<1>1. /\ w \in Handles /\ w \notin Shareds /\ pc[w] = "ready"
      /\ ptr[r] \in Blocks /\ weak[ptr[r]] > 0
  BY AllHeld, HandlesAssumption DEF Handles, weak_copy, Ready, Held, TypeOK
<1>2. TypeOK'
  BY <1>1 DEF TypeOK, weak_copy, Take, Drop, PCs
<1>3. Phases'
  BY <1>1, TakePhases DEF weak_copy
<1>4. CountsExact' /\ Lifetimes'
  BY <1>1, GainWeak, Zenon DEF weak_copy
<1> QED
  BY <1>2, <1>3, <1>4

LEMMA LockLoads ==
  ASSUME IInv, NEW s \in Shareds, NEW w \in Weaks, lock(s, w)
  PROVE  IInv'
<1> USE HandlesAssumption DEF IInv
<1>1. /\ s \in Handles /\ pc[s] = "ready" /\ ptr[w] \in Blocks
      /\ UNCHANGED <<use, weak, object, block, ptr, temp>>
  BY DEF Handles, lock, Ready, TypeOK
<1>2. TypeOK'
  BY <1>1 DEF TypeOK, lock, PCs
<1>3. Phases'
  BY <1>1, NullAssumption DEF TypeOK, Phases, lock, Handles
<1>4. ASSUME NEW b \in Blocks PROVE Exact(b)' /\ Life(b)'
  <2>1. Exact(b) /\ Life(b)
    BY BlockWise DEF Lifetimes
  <2>2. /\ Uses(b)' = Uses(b) /\ WeakUses(b)' = WeakUses(b)
        /\ \A x \in Handles : Destroying(x, b)' <=> Destroying(x, b)
        /\ \A x \in Handles : Deleting(x, b)' <=> Deleting(x, b)
    <3>1. \A x \in Handles : pc'[x] = pc[x] \/ (pc'[x] = "lock" /\ pc[x] = "ready")
      BY <1>1 DEF lock, TypeOK
    <3>2. /\ Pointing(b)' = Pointing(b) /\ Putting(b)' = Putting(b)
          /\ WeakPointing(b)' = WeakPointing(b) /\ WeakPutting(b)' = WeakPutting(b)
      BY <1>1, <3>1 DEF Pointing, Putting, WeakPointing, WeakPutting, Handles
    <3>3. Uses(b)' = Uses(b) /\ WeakUses(b)' = WeakUses(b)
      BY <3>2, Sums, Zenon
    <3> QED
      BY <1>1, <3>1, <3>3 DEF Destroying, Deleting
  <2> QED
    BY <1>1, <2>1, <2>2, Untouched DEF Handles
<1> QED
  BY <1>2, <1>3, <1>4, BlockWise DEF Lifetimes

LEMMA LockSwaps ==
  ASSUME IInv, NEW s \in Shareds, LockCas(s)
  PROVE  IInv'
<1> DEFINE b == ptr[from[s]]
<1> USE HandlesAssumption DEF IInv
<1>1. /\ s \in Handles /\ s \notin Weaks /\ pc[s] = "lock" /\ from[s] \in Weaks
      /\ b \in Blocks /\ use[b] \in Nat /\ old[s] \in Nat
      /\ UNCHANGED <<weak, object, block>>
  BY DEF LockCas, Phases, TypeOK, Handles
<1>2. CASE old[s] = 0 /\ Take(s, Null) /\ LockEnds(s) /\ UNCHANGED use
  <2>1. TypeOK'
    BY <1>1, <1>2 DEF TypeOK, Take, Drop, LockEnds, PCs
  <2>2. Phases'
    BY <1>1, <1>2, TakePhases DEF LockEnds, TypeOK
  <2>3. CountsExact' /\ Lifetimes'
    BY <1>1, <1>2, GainNothing
  <2> QED
    BY <2>1, <2>2, <2>3
<1>3. CASE /\ old[s] > 0 /\ use[b] = old[s]
           /\ use' = [use EXCEPT ![b] = @ + 1] /\ Take(s, b) /\ LockEnds(s)
  <2>1. TypeOK'
    BY <1>1, <1>3 DEF TypeOK, Take, Drop, LockEnds, PCs
  <2>2. Phases'
    BY <1>1, <1>3, TakePhases DEF LockEnds, TypeOK
  <2>3. CountsExact' /\ Lifetimes'
    BY <1>1, <1>3, GainUse, Zenon
  <2> QED
    BY <2>1, <2>2, <2>3
<1>4. CASE old' = [old EXCEPT ![s] = use[b]] /\ UNCHANGED <<use, ptr, temp, pc, from>>
  <2>1. TypeOK' /\ Phases'
    BY <1>1, <1>4 DEF TypeOK, Phases
  <2>2. ASSUME NEW c \in Blocks PROVE Exact(c)' /\ Life(c)'
    <3>1. Exact(c) /\ Life(c)
      BY BlockWise DEF Lifetimes
    <3>2. Uses(c)' = Uses(c) /\ WeakUses(c)' = WeakUses(c)
      BY <1>4 DEF Uses, WeakUses
    <3> QED
      BY <1>1, <1>4, <3>1, <3>2, Untouched DEF Destroying, Deleting
  <2> QED
    BY <2>1, <2>2, BlockWise DEF Lifetimes
<1> QED
  BY <1>2, <1>3, <1>4 DEF LockCas

LEMMA NoReferences ==
  ASSUME NEW b, Pointing(b) = {}, Putting(b) = {}, WeakPointing(b) = {}, WeakPutting(b) = {}
  PROVE  Uses(b) = 0 /\ WeakUses(b) = 0
BY Sums, FS_EmptySet

\* What the invariant says to a user of the pointers.
LEMMA InvImpliesSound == IInv => SharedPtrsSound
<1> SUFFICES ASSUME IInv PROVE SharedPtrsSound
  OBVIOUS
<1> USE NullAssumption DEF IInv
<1>1. Held
  BY AllHeld
<1>2. NoDanglingShared
  BY <1>1 DEF NoDanglingShared, Held, Lifetimes, Life, TypeOK, Handles
<1>3. ASSUME NEW h \in Weaks, ptr[h] # Null PROVE block[ptr[h]] = "allocated"
  BY <1>1, <1>3 DEF Held, Lifetimes, Life, TypeOK, Handles
<1>4. ASSUME NEW h \in Handles, temp[h] # Null PROVE block[temp[h]] = "allocated"
  <2>1. temp[h] \in Blocks /\ pc[h] \in {"put", "destroy", "wput", "delete"}
    BY <1>4 DEF Phases, TypeOK, PCs
  <2>2. h \in Shareds \/ pc[h] \in {"wput", "delete"}
    BY <2>1 DEF Phases, Handles
  <2>3. weak[temp[h]] > 0 \/ Deleting(h, temp[h])
    BY <1>1, <2>1, <2>2 DEF Held, Deleting, weak_this, TypeOK
  <2> QED
    BY <2>1, <2>3 DEF Lifetimes, Life
<1>5. NoLeak
  <2> SUFFICES ASSUME NEW b \in Blocks, \A h \in Handles : ptr[h] # b /\ temp[h] # b
               PROVE  object[b] # "alive" /\ block[b] # "allocated"
    BY DEF NoLeak
  <2>1. /\ Pointing(b) = {} /\ Putting(b) = {} /\ WeakPointing(b) = {} /\ WeakPutting(b) = {}
    BY DEF Pointing, Putting, WeakPointing, WeakPutting, Handles
  <2>2. Uses(b) = 0 /\ WeakUses(b) = 0
    BY <2>1, NoReferences
  <2>3. /\ \A x \in Handles : ~Deleting(x, b)
        /\ \A x \in Shareds : ~Destroying(x, b)
    BY DEF Destroying, Deleting, Handles
  <2>4. Exact(b) /\ Life(b)
    BY BlockWise DEF Lifetimes
  <2>5. use[b] = 0 /\ object[b] # "alive"
    BY <2>2, <2>3, <2>4 DEF Exact, Life
  <2>6. weak[b] = 0
    BY <2>2, <2>3, <2>4, <2>5 DEF Exact, SharedRef, ThisRef
  <2> QED
    BY <2>3, <2>4, <2>5, <2>6 DEF Life
<1> QED
  BY <1>2, <1>3, <1>4, <1>5 DEF SharedPtrsSound, NoDangling, NoDanglingBlock

LEMMA Stutters == IInv /\ UNCHANGED vars => IInv'
<1> SUFFICES ASSUME IInv, UNCHANGED vars PROVE IInv'
  OBVIOUS
<1>1. \A b : Uses(b)' = Uses(b) /\ WeakUses(b)' = WeakUses(b)
  BY DEF vars, Uses, WeakUses
<1> QED
  BY <1>1
  DEF vars, IInv, TypeOK, Phases, CountsExact, UseCountExact, WeakCountExact, SharedRef,
      ThisRef, Lifetimes, Life, Destroying, Deleting

LEMMA InitInv == Init => IInv
<1> SUFFICES ASSUME Init PROVE IInv
  OBVIOUS
<1> USE NullAssumption DEF Init
<1>1. TypeOK /\ Phases
  BY DEF TypeOK, Phases, PCs, Handles
<1>2. ASSUME NEW b \in Blocks PROVE Exact(b) /\ Life(b)
  <2>1. /\ Pointing(b) = {} /\ Putting(b) = {} /\ WeakPointing(b) = {} /\ WeakPutting(b) = {}
    BY DEF Pointing, Putting, WeakPointing, WeakPutting, Handles
  <2>2. Uses(b) = 0 /\ WeakUses(b) = 0
    BY <2>1, NoReferences
  <2>3. /\ \A x \in Handles : ~Deleting(x, b)
        /\ \A x \in Shareds : ~Destroying(x, b)
    BY DEF Destroying, Deleting, Handles
  <2> QED
    BY <2>2, <2>3 DEF Exact, Life, SharedRef, ThisRef
<1> QED
  BY <1>1, <1>2, BlockWise DEF IInv, Lifetimes

LEMMA NextInv == IInv /\ [Next]_vars => IInv'
<1> SUFFICES ASSUME IInv, [Next]_vars PROVE IInv'
  OBVIOUS
<1>1. ASSUME NEW s \in Shareds, construct(s) PROVE IInv'
  BY <1>1, Constructs
<1>2. ASSUME NEW s \in Shareds, ConstructThrows(s) PROVE IInv'
  BY <1>2, Throws
<1>3. ASSUME NEW s \in Shareds, reset(s) PROVE IInv'
  BY <1>3, Resets DEF reset, Handles
<1>4. ASSUME NEW s \in Shareds, put(s) PROVE IInv'
  BY <1>4, Puts
<1>5. ASSUME NEW s \in Shareds, destroy_managed_object(s) PROVE IInv'
  BY <1>5, Destroys
<1>6. ASSUME NEW s \in Shareds, LockCas(s) PROVE IInv'
  BY <1>6, LockSwaps
<1>7. ASSUME NEW s \in Shareds, NEW r \in Shareds, copy(s, r) \/ pointer_cast(s, r) PROVE IInv'
  BY <1>7, Copies DEF pointer_cast
<1>8. ASSUME NEW s \in Shareds, NEW w \in Weaks, lock(s, w) PROVE IInv'
  BY <1>8, LockLoads
<1>9. ASSUME NEW w \in Weaks, weak_reset(w) PROVE IInv'
  BY <1>9, Resets DEF weak_reset, Handles
<1>10. ASSUME NEW w \in Weaks, NEW r \in Handles, weak_copy(w, r) \/ weak_pointer_cast(w, r)
       PROVE  IInv'
  BY <1>10, WeakCopies DEF weak_pointer_cast
<1>11. ASSUME NEW h \in Handles, Release(h) PROVE IInv'
  BY <1>11, WeakPuts, Deletes DEF Release
<1>12. ASSUME NEW h \in Handles, NEW r \in Handles, move(h, r) \/ swap(h, r) PROVE IInv'
  <2>1. CASE h # r
    BY <1>12, <2>1, Exchanges
  <2>2. CASE h = r
    <3>1. UNCHANGED vars
      BY <1>12, <2>2 DEF IInv, TypeOK, move, swap, vars
    <3> QED
      BY <3>1, Stutters
  <2> QED
    BY <2>1, <2>2
<1> QED
  BY <1>1, <1>2, <1>3, <1>4, <1>5, <1>6, <1>7, <1>8, <1>9, <1>10, <1>11, <1>12, Stutters
  DEF Next

LEMMA Invariance == Spec => []IInv
BY InitInv, NextInv, PTL DEF Spec

\* Whatever the handles and blocks, and however the threads interleave: the counts of
\* ref_count_base are exact, no shared_ptr, weak_ptr or call in progress refers to an
\* object or a block that is gone, and both go with their last reference.
THEOREM SharedPtrsCorrect == Spec => []SharedPtrsSound
BY Invariance, InvImpliesSound, PTL

\* No weak_ptr brings an object back: lock() never raises a use_count_ that has reached
\* zero, and a destroyed object stays destroyed.
THEOREM NothingResurrected == Spec => NoResurrection
BY Invariance, StepNoResurrection, PTL DEF Spec, NoResurrection
=============================================================================
