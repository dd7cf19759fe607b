-------------------------------- MODULE Any --------------------------------
(***************************************************************************)
(* gpcl::basic_any, and gpcl::function, which keeps its target in one.  An *)
(* object holds nothing (manage_ is null), an L, which fits into the local *)
(* buffer and has a noexcept move, or an R, which lives on the heap.  The  *)
(* discriminator is what manage_ points to: "none", "L" or "R".  A         *)
(* function also has invoke_, the entry point of its target.  The swap of  *)
(* two functions is left out: it does not compile, because its call        *)
(* swap(data_, other.data_) is ambiguous.                                  *)
(***************************************************************************)
EXTENDS Lifetime

CONSTANTS Objs, Values

VARIABLES
  m,       \* the storage of every object (see Lifetime)
  inv,     \* invoke_ of every function: a type of target or "null"
  tr,      \* whether the program uses function, and what may throw
  call

vars == <<m, inv, tr, call>>

Types == {"L", "R"}
Has(n, x) == n.tag[x] \in Types

\* The operations of any_manager<T>: clone, move and destroy.  move of an L
\* leaves an object behind; move of an R hands over the pointer and returns
\* true, upon which the caller clears manage_ of the source.
clone(n, x, y) == <<New(x, n.tag[y], y, "copy", tr.copy)>>
move(n, x, y) ==
  IF n.tag[y] = "L" THEN <<New(x, "L", y, "move", TRUE)>>
  ELSE <<Steal(x, y), Tag(y, "none")>>
destroy(n, x) == IF Has(n, x) THEN <<Delete(x, n.tag[x])>> ELSE <<>>

\* Constructors; an any whose constructor throws is not destroyed.
from_value(x, t) == <<New(x, t, "arg", "copy", tr.ctor), Tag(x, t)>>
copy_construct(n, x, y) ==
  (IF Has(n, y) THEN clone(n, x, y) ELSE <<>>) \o <<Tag(x, n.tag[y])>>
move_construct(n, x, y) ==
  <<Tag(x, n.tag[y])>> \o IF Has(n, y) THEN move(n, x, y) ELSE <<>>
destructor(n, x) == destroy(n, x) \o <<Tag(x, "gone")>>
reset(n, x) == destroy(n, x) \o <<Tag(x, "none")>>

\* Mutant of move_assign: the old value is not destroyed.
MoveAssignLeaks(n, x, y) ==
  <<Tag(x, n.tag[y])>> \o IF Has(n, y) THEN move(n, x, y) ELSE <<>>

move_assign(n, x, y) ==
  destroy(n, x) \o <<Tag(x, n.tag[y])>> \o
  IF Has(n, y) THEN move(n, x, y) ELSE <<>>

\* swap(other), through the local temp.
swap(n, x, y) ==
  LET temp == Run(n, move_construct(n, "temp", y))
      other == Then(temp, LAMBDA k : move_assign(k, y, x))
      this == Then(other, LAMBDA k : move_assign(k, x, "temp"))
  IN  Then(this, LAMBDA k : destructor(k, "temp"))

\* basic_any(...).swap(*this): assignment and emplace through the temporary new.
swapped_in(S, x) ==
  LET swapped == UNION {IF n.exc THEN {n} ELSE swap(n, "new", x) : n \in S}
  IN  Then(swapped, LAMBDA k : destructor(k, "new"))
copy_assign(n, x, y) == swapped_in(Run(n, copy_construct(n, "new", y)), x)
assign_value(n, x, t) == swapped_in(Run(n, from_value("new", t)), x)
emplace(n, x, t) == swapped_in(Run(n, from_value("new", t)), x)

\* raw_value() calls manage_ without a look at it; type() looks.
raw_value(n, x) == <<Require(Has(n, x), "null")>>
type(n, x) == IF Has(n, x) THEN n.tag[x] ELSE "void"

\* any_cast<t>(x), and any_cast<t>(&x), which returns a null pointer instead.
any_cast(n, x, t, how) ==
  IF type(n, x) # t THEN <<Throw>>
  ELSE raw_value(n, x) \o
       <<New("r", t, x, how, IF how = "move" THEN TRUE ELSE tr.copy), Tag("r", t)>>
any_cast_pointer(n, x, t) ==
  IF type(n, x) # t THEN <<Tag("r", "none")>>
  ELSE raw_value(n, x) \o <<Tag("r", t)>>

\* function::operator(): the call goes through invoke_ and may throw.
invoke(n, f, x) ==
  raw_value(n, x) \o <<Require(f # "null", "null")>> \o
  (IF Has(n, x) THEN <<New("r", n.tag[x], x, "copy", FALSE), Tag("r", n.tag[x])>>
   ELSE <<>>)

-----------------------------------------------------------------------------
(* The calls of a program. *)
Did(do, name, x, y, tag, v) ==
  [do |-> do, name |-> name, x |-> x, y |-> y, tag |-> tag, v |-> v]

Sound(n) ==
  /\ n.fault = {}
  /\ \A x \in Objs : n.mem[x].ty = IF Has(n, x) THEN n.tag[x] ELSE "raw"

Temporaries == {"r", "temp", "new"}
Start(argument) ==
  Calling([m EXCEPT !.mem["r"] = Raw, !.tag["r"] = "gone",
                    !.mem["temp"] = Raw, !.tag["temp"] = "gone",
                    !.mem["new"] = Raw, !.tag["new"] = "gone"], argument)

\* A call with what it makes of invoke_ when it returns.
Do(c, outcomes, f) ==
  /\ Sound(m)
  /\ call' = c
  /\ m' \in {Returned(n) : n \in outcomes}
  /\ inv' = IF m'.exc \/ ~tr.function THEN inv ELSE f
  /\ UNCHANGED tr

Alive == {x \in Objs : m.tag[x] # "gone"}
Unborn == Objs \ Alive
IsAny == ~tr.function

Default == \E x \in Unborn :
  Do(Did("put", "default", x, x, "none", 0), Run(Start(Raw), <<Tag(x, "none")>>),
     [inv EXCEPT ![x] = "null"])
FromValue == \E x \in Unborn, t \in Types, v \in Values :
  Do(Did("put", "construct", x, x, t, v), Run(Start(Object(t, v)), from_value(x, t)),
     [inv EXCEPT ![x] = t])
CopyConstruct == \E x \in Unborn, y \in Alive :
  Do(Did("copy", "copy construct", x, y, "", 0), Run(Start(Raw), copy_construct(m, x, y)),
     [inv EXCEPT ![x] = inv[y]])
MoveConstruct == \E x \in Unborn, y \in Alive :
  Do(Did("move", "move construct", x, y, "", 0), Run(Start(Raw), move_construct(m, x, y)),
     [inv EXCEPT ![x] = inv[y], ![y] = "null"])
CopyAssign == \E x, y \in Alive :
  Do(Did("copy", "copy assign", x, y, "", 0), copy_assign(Start(Raw), x, y),
     [inv EXCEPT ![x] = inv[y]])
MoveAssign == \E x, y \in Alive :
  Do(Did("move", "move assign", x, y, "", 0), Run(Start(Raw), move_assign(m, x, y)),
     [[inv EXCEPT ![y] = "null"] EXCEPT ![x] = inv[y]])
Swap == \E x, y \in Alive :
  IsAny /\ Do(Did("swap", "swap", x, y, "", 0), swap(Start(Raw), x, y), inv)
AssignValue == \E x \in Alive, t \in Types, v \in Values :
  /\ IsAny
  /\ \/ Do(Did("put", "assign value", x, x, t, v), assign_value(Start(Object(t, v)), x, t), inv)
     \/ Do(Did("put", "emplace", x, x, t, v), emplace(Start(Object(t, v)), x, t), inv)
Reset == \E x \in Alive :
  IsAny /\ Do(Did("put", "reset", x, x, "none", 0), Run(Start(Raw), reset(m, x)), inv)
Cast == \E x \in Alive, t \in Types :
  /\ IsAny
  /\ \/ Do(Did("look", "any_cast", x, x, t, 0), Run(Start(Raw), any_cast(m, x, t, "copy")), inv)
     \/ Do(Did("take", "any_cast", x, x, t, 0), Run(Start(Raw), any_cast(m, x, t, "move")), inv)
     \/ Do(Did("look", "any_cast pointer", x, x, t, 0),
           Run(Start(Raw), any_cast_pointer(m, x, t)), inv)
Invoke == \E x \in Alive :
  ~IsAny /\ Do(Did("look", "invoke", x, x, "", 0), Run(Start(Raw), invoke(m, inv[x], x)), inv)
Destroy == \E x \in Alive :
  Do(Did("drop", "destroy", x, x, "", 0), Run(Start(Raw), destructor(m, x)),
     [inv EXCEPT ![x] = "null"])

Traits == [function : BOOLEAN, copy : BOOLEAN, ctor : BOOLEAN]

Init ==
  /\ m = Nothing(Objs \cup Temporaries)
  /\ inv = [x \in Objs |-> "null"]
  /\ tr \in Traits
  /\ call = Did("drop", "start", "", "", "", 0)
Next == Default \/ FromValue \/ CopyConstruct \/ MoveConstruct \/ CopyAssign
        \/ MoveAssign \/ Swap \/ AssignValue \/ Reset \/ Cast \/ Invoke \/ Destroy
Spec == Init /\ [][Next]_vars

-----------------------------------------------------------------------------
\* The calls that break a rule: moving an L into its own place, which destroys
\* it first, alone or within a swap with itself; calling a function without a
\* target; calling a function whose target L was moved out of it.
MayBreak(c) ==
  \/ c.name \in {"move assign", "swap"} /\ c.x = c.y /\ m.tag[c.x] = "L"
  \/ c.name = "invoke" /\ (inv[c.x] = "null" \/ ~Has(m, c.x))
StepSound == Sound(m') \/ MayBreak(call')

MovedFrom(c) == {c, [c EXCEPT !.v = 0]} \cup {[tag |-> "none", v |-> 0]}
Weak(c) == FALSE

\* any_cast and a call of a function reach the object that is held, and a
\* function with a target and an entry point has the one of its target.
ResultRight ==
  LET held == [tag |-> m.tag[call'.x], v |-> m.mem[call'.x].v]
      found == [tag |-> m'.tag["r"], v |-> m'.mem["r"].v]
  IN  /\ ~m'.exc /\ call'.name \in {"any_cast", "invoke"} => found = held
      /\ call'.name = "any_cast pointer" =>
           found.tag = IF held.tag = call'.tag THEN held.tag ELSE "none"
      /\ \A x \in Objs : Has(m', x) /\ inv'[x] # "null" => m'.tag[x] = inv'[x]
=============================================================================
