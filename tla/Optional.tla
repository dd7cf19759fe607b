------------------------------ MODULE Optional ------------------------------
(***************************************************************************)
(* gpcl::optional<T>: a union of a char and a T with the flag has_val_,    *)
(* the discriminator "has" or "none".  tr holds which constructors of T    *)
(* are noexcept, and whether T is trivial.  The optional<U> of the         *)
(* converting operations has T itself for its U.  swap(optional &) is left *)
(* out: its call swap(val_, other.val_) finds only the member function of  *)
(* one argument, so it does not compile.                                   *)
(***************************************************************************)
EXTENDS Lifetime

CONSTANTS Objs, Values

VARIABLES m, tr, call

vars == <<m, tr, call>>

Noexcept(how) == IF how = "move" THEN tr.moveT ELSE tr.copyT
Place(c, src, how) == New(c, "T", src, how, Noexcept(how))
Put(c, src, how) == Assign(c, "T", src, how, Noexcept(how))
Has(n, x) == n.tag[x] = "has"

-----------------------------------------------------------------------------
\* optional(), optional(nullopt_t) and the constructors with a value.
default_base(x) == <<Tag(x, "none")>>
in_place_base(x) == <<New(x, "T", "arg", "copy", tr.ctorT), Tag(x, "has")>>

\* ~optional_destruct_base()
destructor(n, x) ==
  (IF Has(n, x) THEN <<Delete(x, "T")>> ELSE <<>>) \o <<Tag(x, "gone")>>
trivial_destructor(n, x) == <<Forget(x), Tag(x, "gone")>>

\* A constructor whose body throws destroys the base it has constructed.
Unwound(n, x, y, body) ==
  IF Has(n, y)
  THEN <<Try(body, <<Delete(x, "T"), Tag(x, "gone")>>, TRUE)>> ELSE <<>>

\* optional_copy_base(const &) constructs val_ from this->val_.
copy_base(n, x, y) ==
  <<Tag(x, n.tag[y])>> \o Unwound(n, x, y, <<Place(x, x, "copy")>>)
move_base(n, x, y) ==
  <<Tag(x, n.tag[y]), Tag(y, "none")>> \o
  Unwound(n, x, y, <<Place(x, y, "move"), Delete(y, "T")>>)
trivial_copy(n, x, y) == <<Bytes(x, y), Tag(x, n.tag[y])>>

\* optional(const optional<U> &), and optional(optional<U> &&), which copies the
\* value and leaves it behind without its flag.
convert_base(n, x, y) ==
  <<Tag(x, n.tag[y])>> \o Unwound(n, x, y, <<Place(x, y, "copy")>>)
convert_move_base(n, x, y) ==
  <<Tag(x, n.tag[y]), Tag(y, "none")>> \o Unwound(n, x, y, <<Place(x, y, "copy")>>)

-----------------------------------------------------------------------------
\* Mutant of copy_assign: the value of an object that becomes empty stays alive.
CopyAssignKeepsValue(n, x, y) ==
  CASE Has(n, x) /\ Has(n, y) -> <<Put(x, y, "copy")>>
    [] Has(n, x) /\ ~Has(n, y) -> <<Tag(x, "none")>>
    [] ~Has(n, x) /\ Has(n, y) -> <<Tag(x, "has"), Place(x, y, "copy")>>
    [] OTHER -> <<>>


copy_assign(n, x, y) ==
  CASE Has(n, x) /\ Has(n, y) -> <<Put(x, y, "copy")>>
    [] Has(n, x) /\ ~Has(n, y) -> <<Delete(x, "T"), Tag(x, "none")>>
    [] ~Has(n, x) /\ Has(n, y) -> <<Tag(x, "has"), Place(x, y, "copy")>>
    [] OTHER -> <<>>
move_assign(n, x, y) ==
  CASE Has(n, x) /\ Has(n, y) ->
         <<Put(x, y, "move"), Delete(y, "T"), Tag(y, "none")>>
    [] Has(n, x) /\ ~Has(n, y) -> <<Delete(x, "T"), Tag(x, "none")>>
    [] ~Has(n, x) /\ Has(n, y) ->
         <<Tag(x, "has"), Place(x, y, "move"), Delete(y, "T"), Tag(y, "none")>>
    [] OTHER -> <<>>

\* operator=(nullopt_t), operator=(U &&) and the assignments from optional<U>.
assign_nullopt(n, x) ==
  IF Has(n, x) THEN <<Tag(x, "none"), Delete(x, "T")>> ELSE <<>>
assign_value(n, x) ==
  IF Has(n, x) THEN <<Assign(x, "T", "arg", "copy", tr.ctorT)>>
  ELSE <<New(x, "T", "arg", "copy", tr.ctorT), Tag(x, "has")>>
convert_copy_assign(n, x, y) ==
  CASE Has(n, x) /\ Has(n, y) -> <<Put(x, y, "copy")>>
    [] Has(n, x) /\ ~Has(n, y) -> <<Delete(x, "T"), Tag(x, "none")>>
    [] ~Has(n, x) /\ Has(n, y) -> <<Tag(x, "has"), Place(x, y, "copy")>>
    [] OTHER -> <<>>
convert_move_assign(n, x, y) ==
  CASE Has(n, x) /\ Has(n, y) -> <<Put(x, y, "move"), Tag(y, "none")>>
    [] Has(n, x) /\ ~Has(n, y) -> <<Delete(x, "T"), Tag(x, "none")>>
    [] ~Has(n, x) /\ Has(n, y) ->
         <<Tag(x, "has"), Place(x, y, "move"), Tag(y, "none")>>
    [] OTHER -> <<>>

\* emplace(args...) destroys the old value before it constructs the new one.
emplace(n, x) ==
  (CASE Has(n, x) /\ ~tr.trivial -> <<Delete(x, "T"), Tag(x, "none")>>
     [] Has(n, x) /\ tr.trivial -> <<Forget(x)>>
     [] OTHER -> <<>>)
  \o <<New(x, "T", "arg", "copy", tr.ctorT), Tag(x, "has")>>

\* value() and value_or(): the result is a T in "r".
value(n, x, how) ==
  IF Has(n, x) THEN <<Place("r", x, how), Tag("r", "has")>> ELSE <<Throw>>
value_or(n, x, how) ==
  <<IF Has(n, x) THEN Place("r", x, how)
    ELSE New("r", "T", "arg", "copy", tr.ctorT), Tag("r", "has")>>

\* The relational operators: of two optionals, of an optional and a value, and of
\* a value and an optional, whose operator>= is written with >.
Relations == {"<", ">", "<=", ">="}
Rel(op, a, b) ==
  CASE op = "<" -> a < b [] op = ">" -> a > b [] op = "<=" -> a <= b [] op = ">=" -> a >= b
equal(n, x, y) ==
  IF Has(n, x) /\ Has(n, y) THEN n.mem[x].v = n.mem[y].v ELSE Has(n, x) = Has(n, y)
relational(n, op, x, y) == Has(n, x) /\ Has(n, y) /\ Rel(op, n.mem[x].v, n.mem[y].v)
equal_value(n, x, v) == Has(n, x) /\ n.mem[x].v = v
value_right(n, op, x, v) == Has(n, x) /\ Rel(op, n.mem[x].v, v)
value_left(n, op, v, x) == Has(n, x) /\ Rel(IF op = ">=" THEN ">" ELSE op, v, n.mem[x].v)

-----------------------------------------------------------------------------
(* The calls of a program. *)
Did(do, name, x, y, tag, v) ==
  [do |-> do, name |-> name, x |-> x, y |-> y, tag |-> tag, v |-> v]

Sound(n) ==
  /\ n.fault = {}
  /\ \A x \in Objs : n.mem[x].ty = IF Has(n, x) THEN "T" ELSE "raw"

Entry(argument) ==
  Calling([m EXCEPT !.mem["r"] = Raw, !.tag["r"] = "gone"], argument)
Do(c, argument, prog) ==
  /\ Sound(m)
  /\ call' = c
  /\ m' \in {Returned(n) : n \in Run(Entry(argument), prog)}
  /\ UNCHANGED tr

Alive == {x \in Objs : m.tag[x] # "gone"}
Unborn == Objs \ Alive

Default == \E x \in Unborn :
  Do(Did("put", "default", x, x, "none", 0), Raw, default_base(x))
InPlace == \E x \in Unborn, v \in Values :
  Do(Did("put", "in_place", x, x, "has", v), Object("T", v), in_place_base(x))
CopyConstruct == \E x \in Unborn, y \in Alive :
  Do(Did("copy", "copy construct", x, y, "", 0), Raw,
     IF tr.trivial THEN trivial_copy(m, x, y) ELSE copy_base(m, x, y))
MoveConstruct == \E x \in Unborn, y \in Alive :
  Do(Did("move", "move construct", x, y, "", 0), Raw,
     IF tr.trivial THEN trivial_copy(m, x, y) ELSE move_base(m, x, y))
Convert == \E x \in Unborn, y \in Alive :
  \/ Do(Did("copy", "convert", x, y, "", 0), Raw, convert_base(m, x, y))
  \/ Do(Did("move", "convert move", x, y, "", 0), Raw, convert_move_base(m, x, y))
CopyAssign == \E x, y \in Alive :
  Do(Did("copy", "copy assign", x, y, "", 0), Raw,
     IF tr.trivial THEN trivial_copy(m, x, y) ELSE copy_assign(m, x, y))
MoveAssign == \E x, y \in Alive :
  Do(Did("move", "move assign", x, y, "", 0), Raw,
     IF tr.trivial THEN trivial_copy(m, x, y) ELSE move_assign(m, x, y))
ConvertAssign == \E x, y \in Alive :
  /\ x # y
  /\ \/ Do(Did("copy", "convert assign", x, y, "", 0), Raw, convert_copy_assign(m, x, y))
     \/ Do(Did("move", "convert move", x, y, "", 0), Raw, convert_move_assign(m, x, y))
Reset == \E x \in Alive :
  Do(Did("put", "reset", x, x, "none", 0), Raw, assign_nullopt(m, x))
AssignValue == \E x \in Alive, v \in Values :
  Do(Did("put", "assign value", x, x, "has", v), Object("T", v), assign_value(m, x))
Emplace == \E x \in Alive, v \in Values :
  Do(Did("put", "emplace", x, x, "has", v), Object("T", v), emplace(m, x))
Observe == \E x \in Alive, how \in {"copy", "move"} :
  LET do == IF how = "copy" THEN "look" ELSE "take"
  IN  \/ Do(Did(do, "value", x, x, "", 0), Raw, value(m, x, how))
      \/ Do(Did(do, "value_or", x, x, "", 0), Object("T", 1), value_or(m, x, how))
Destroy == \E x \in Alive :
  Do(Did("drop", "destroy", x, x, "", 0), Raw,
     IF tr.trivial THEN trivial_destructor(m, x) ELSE destructor(m, x))

Traits ==
  {t \in [copyT : BOOLEAN, moveT : BOOLEAN, ctorT : BOOLEAN, trivial : BOOLEAN] :
     /\ t.copyT => t.moveT
     /\ t.trivial => t.copyT /\ t.ctorT}

Init ==
  /\ m = Nothing(Objs \cup {"r"})
  /\ tr \in Traits
  /\ call = Did("drop", "start", "", "", "", 0)
Next == Default \/ InPlace \/ CopyConstruct \/ MoveConstruct \/ Convert
        \/ CopyAssign \/ MoveAssign \/ ConvertAssign \/ Reset \/ AssignValue
        \/ Emplace \/ Observe \/ Destroy
Spec == Init /\ [][Next]_vars

-----------------------------------------------------------------------------
\* The calls after which an object may no longer hold what its flag says:
\*  - a copy of an optional with a value, which is made of its own raw storage;
\*  - a conversion that moves, which leaves the value of its source alive;
\*  - what sets has_val_ before it constructs, when the constructor throws.
MayBreak(c, threw) ==
  \/ c.name = "copy construct" /\ ~tr.trivial
  \/ c.name = "convert move"
  \/ c.name \in {"move construct", "convert", "copy assign", "move assign",
                 "convert assign"} /\ threw
StepSound == Sound(m') \/ MayBreak(call', m'.exc)

\* The source of a move is left empty, or as it was when T is trivial.
MovedFrom(c) ==
  {c, [c EXCEPT !.v = 0]} \cup {[tag |-> "none", v |-> 0]}
Weak(c) == c.name = "emplace" \/ c.do = "take"

\* The relations between two optionals, and between one and a value, agree with
\* each other, but for two cases: two empty optionals are equal and neither <= nor
\* >=, and a value is not >= an optional that holds it.
Flip == [op \in Relations |->
           CASE op = "<" -> ">" [] op = ">" -> "<" [] op = "<=" -> ">=" [] op = ">=" -> "<="]
RelationsAgree(n) ==
  \A x, y \in Alive :
    /\ relational(n, "<=", x, y) <=>
         relational(n, "<", x, y) \/ (equal(n, x, y) /\ Has(n, x))
    /\ \A op \in Relations : relational(n, op, x, y) <=> relational(n, Flip[op], y, x)
    /\ \A op \in Relations, v \in Values :
         value_left(n, op, v, x) <=>
           value_right(n, Flip[op], x, v) /\ ~(op = ">=" /\ equal_value(n, x, v))

\* value() and value_or() return what is held.
ResultRight ==
  LET held == [tag |-> m.tag[call'.x], v |-> m.mem[call'.x].v]
  IN  /\ ~m'.exc /\ call'.name \in {"value", "value_or"} =>
           m'.mem["r"].v = IF held.tag = "has" THEN held.v ELSE 1
      /\ RelationsAgree(m)
=============================================================================
