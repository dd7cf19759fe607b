------------------------------ MODULE MCValues ------------------------------
(***************************************************************************)
(* The types that hold or own a value, for TLC: expected, optional,        *)
(* variant, basic_any and function, each held to the one specification     *)
(* Holder; the owning pointers; and shared_ptr with weak_ptr (three and    *)
(* two of them, on two objects, one of which derives from                  *)
(* enable_shared_from_this).  A behaviour exercises the type that the      *)
(* variable part names; the variables of the others stay as they are.      *)
(***************************************************************************)
EXTENDS SharedPtr, TLC

CONSTANTS Objs, Values, Ptrs, Objects, Deleters,
          s1, s2, s3, w1, w2, b1, b2

VARIABLES
  part,          \* the type
  m, tr, call,   \* of the holders (and call of the owners)
  inv,           \* of Any
  kind, h        \* of Owners

X == INSTANCE Expected
O == INSTANCE Optional
V == INSTANCE Variant
A == INSTANCE Any
P == INSTANCE Owners

holderVars == <<m, tr, inv>>
ownerVars == <<kind, h>>
allVars == <<part, call, holderVars, ownerVars, vars>>
Symmetry == Permutations({s1, s2, s3}) \cup Permutations({w1, w2})
Idle == CHOOSE i \in {"idle"} : TRUE

OwnersIdle == kind = Idle /\ h = Idle
HoldersIdle == m = Idle /\ tr = Idle /\ inv = Idle

ValuesInit ==
  /\ Init
  /\ \/ /\ part \in {"expected", "optional", "variant"}
        /\ CASE part = "expected" -> X!Init
             [] part = "optional" -> O!Init
             [] part = "variant" -> V!Init
        /\ inv = Idle /\ OwnersIdle
     \/ part = "any" /\ A!Init /\ OwnersIdle
     \/ part = "owners" /\ P!Init /\ HoldersIdle
     \/ part = "shared_ptr" /\ HoldersIdle /\ OwnersIdle /\ call = Idle

ValuesNext ==
  \/ part = "expected" /\ X!Next /\ UNCHANGED <<part, inv, ownerVars, vars>>
  \/ part = "optional" /\ O!Next /\ UNCHANGED <<part, inv, ownerVars, vars>>
  \/ part = "variant" /\ V!Next /\ UNCHANGED <<part, inv, ownerVars, vars>>
  \/ part = "any" /\ A!Next /\ UNCHANGED <<part, ownerVars, vars>>
  \/ part = "owners" /\ P!Next /\ UNCHANGED <<part, holderVars, vars>>
  \/ part = "shared_ptr" /\ Next /\ UNCHANGED <<part, call, holderVars, ownerVars>>

ValuesSpec == ValuesInit /\ [][ValuesNext]_allVars

\* What later behaviour depends on: neither the last call nor its result.
View == <<part, tr, inv, kind, h, vars,
          IF part \in {"expected", "optional", "variant", "any"}
          THEN <<[x \in Objs |-> <<m.mem[x], m.tag[x]>>], m.fault>> ELSE Idle>>

-----------------------------------------------------------------------------
Holding == part \in {"expected", "optional", "variant", "any"}
SoundNow ==
  CASE part = "expected" -> X!Sound(m) [] part = "optional" -> O!Sound(m)
    [] part = "variant" -> V!Sound(m) [] part = "any" -> A!Sound(m)

content == [x \in Objs |-> [tag |-> m.tag[x], v |-> m.mem[x].v]]
threw == m.exc
Gone == [tag |-> "gone", v |-> 0]
HX == INSTANCE Holder WITH MovedFrom <- X!MovedFrom, Weak <- X!Weak
HO == INSTANCE Holder WITH MovedFrom <- O!MovedFrom, Weak <- O!Weak
HV == INSTANCE Holder WITH MovedFrom <- V!MovedFrom, Weak <- V!Weak
HA == INSTANCE Holder WITH MovedFrom <- A!MovedFrom, Weak <- A!Weak

\* Whatever throws, the storage of a holder has a live object of the type that its
\* discriminator names and of no other, nothing is leaked, and no dead object is read,
\* assigned or destroyed, except after the calls of MayBreak.
HoldersSound ==
  [][CASE part = "expected" -> X!StepSound [] part = "optional" -> O!StepSound
       [] part = "variant" -> V!StepSound [] part = "any" -> A!StepSound
       [] OTHER -> TRUE]_allVars


\* An owning pointer that loses its object has deleted it, released it, or handed it
\* over, with its deleter if the pointer is moved: no object has two owners and none
\* is deleted twice, also when its destructor uses the pointer that lets go of it.
OwnersSound ==
  /\ [][part = "owners" => P!StepSound]_allVars
  /\ [][part = "owners" /\ P!Sound(h') => P!MovesOwnership]_allVars
=============================================================================
