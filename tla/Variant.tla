------------------------------ MODULE Variant ------------------------------
(***************************************************************************)
(* gpcl::variant<A, B>: storage for either alternative and index_, the     *)
(* discriminator "A", "B" or "npos" (index_ = -1).  tr holds which moves,  *)
(* copies and other constructors are noexcept, whether both alternatives   *)
(* are trivial and whether one of their destructors may throw; the last    *)
(* one chooses the storage class when they are not trivial.  A variant of  *)
(* alternatives that are not trivial has no copy constructor: the template *)
(* that stands for it loses to the implicit one, which is deleted.         *)
(***************************************************************************)
EXTENDS Lifetime

CONSTANTS Objs, Values

VARIABLES m, tr, call

vars == <<m, tr, call>>

Alternatives == {"A", "B"}
Position == [A |-> 0, B |-> 1]
Valueless(n, x) == n.tag[x] \notin Alternatives

Noexcept(how) == IF how = "move" THEN tr.move ELSE tr.copy
Place(c, t, src, how) == New(c, t, src, how, Noexcept(how))
Put(c, t, src, how) == Assign(c, t, src, how, Noexcept(how))

-----------------------------------------------------------------------------
\* reset() of variant_storage<false>, which destroys the alternative, and of
\* variant_storage<true>, which only forgets it.  The storage of alternatives
\* that are not trivially movable is chosen by is_nothrow_destructible.
reset_destroy(n, x) ==
  (IF Valueless(n, x) THEN <<>> ELSE <<Delete(x, n.tag[x])>>) \o <<Tag(x, "npos")>>
reset_forget(n, x) ==
  (IF tr.trivial THEN <<Forget(x)>> ELSE <<>>) \o <<Tag(x, "npos")>>
reset(n, x) ==
  IF ~tr.trivial /\ tr.throwingDtor THEN reset_destroy(n, x) ELSE reset_forget(n, x)
destructor(n, x) == reset(n, x) \o <<Tag(x, "gone")>>

\* The constructors: the first alternative by default, the alternative that
\* overload resolution or in_place_type names otherwise, then set_index.
default_construct(x) == <<New(x, "A", 0, "value", tr.ctor), Tag(x, "A")>>
construct(x, t) == <<New(x, t, "arg", "copy", tr.ctor), Tag(x, t)>>

\* move_helper and copy_helper construct the alternative of the other variant
\* and take over its index; there is nothing to do when it is valueless.
helper(n, x, y, how) ==
  IF Valueless(n, y) THEN <<Tag(x, "npos")>>
  ELSE <<Place(x, n.tag[y], y, how), Tag(x, n.tag[y])>>
move_construct(n, x, y) == helper(n, x, y, "move")
trivial_copy(n, x, y) == <<Bytes(x, y), Tag(x, n.tag[y])>>

\* operator=(const variant &) is defaulted down to the storage.
copy_assign(n, x, y) == <<Alias(x, y), Tag(x, n.tag[y])>>

\* Mutant of move_assign: the alternatives are assigned whatever they are.
MoveAssignBlind(n, x, y) ==
  IF x = y \/ Valueless(n, y) THEN <<>> ELSE <<Put(x, n.tag[y], y, "copy")>>

\* operator=(variant &&), which copies.
move_assign(n, x, y) ==
  CASE x = y -> <<>>
    [] x # y /\ n.tag[x] = n.tag[y] /\ ~Valueless(n, x) ->
         <<Put(x, n.tag[x], y, "copy")>>
    [] OTHER -> reset(n, x) \o helper(n, x, y, "copy")

-----------------------------------------------------------------------------
\* index() asserts that there is a value, and so does all that calls it.
index(n, x) == <<Require(~Valueless(n, x), "assert")>>

\* Assignment of a value of alternative t, out of cell src.
assign_from(n, x, t, src, how, safe) ==
  index(n, x) \o
  IF n.tag[x] = t THEN <<Assign(x, t, src, how, safe)>>
  ELSE reset(n, x) \o <<New(x, t, src, how, safe), Tag(x, t)>>
assign_value(n, x, t) == assign_from(n, x, t, "arg", "copy", tr.ctor)

emplace(n, x, t) == reset(n, x) \o <<New(x, t, "arg", "copy", tr.ctor), Tag(x, t)>>

\* swap(other): of the alternatives, or through a local of one of them.
swap(n, x, y) ==
  CASE n.tag[x] = n.tag[y] ->
         index(n, x) \o
         <<Place("tmp", n.tag[x], x, "move"), Put(x, n.tag[x], y, "move"),
           Put(y, n.tag[x], "tmp", "move")>>
    [] OTHER ->
         index(n, x) \o index(n, y) \o
         <<Place("tmp", n.tag[y], y, "move")>> \o
         assign_from(n, y, n.tag[x], x, "move", tr.move) \o
         assign_from(n, x, n.tag[y], "tmp", "move", tr.move)

\* get<t>(v), get_if<t>(&v), and visit with a visitor that returns what it is
\* given: the alternative that was found, in "r".
get(n, x, t) ==
  index(n, x) \o
  IF n.tag[x] = t THEN <<Place("r", t, x, "copy"), Tag("r", t)>> ELSE <<Throw>>
get_if(n, x, t) ==
  index(n, x) \o
  IF n.tag[x] = t THEN <<Place("r", t, x, "copy"), Tag("r", t)>>
  ELSE <<Tag("r", "npos")>>
visit(n, x) ==
  index(n, x) \o
  IF Valueless(n, x) THEN <<Throw>>
  ELSE <<Place("r", n.tag[x], x, "copy"), Tag("r", n.tag[x])>>

\* visit of two variants: the visitor is given the value of each.
visit_two(n, x, y) == <<n.mem[x].v, n.mem[y].v>>

\* compare(x, y): a valueless variant first, then the index, then the value.
compare(n, x, y) ==
  LET order(a, b) == IF a = b THEN "equal" ELSE IF a < b THEN "less" ELSE "greater"
  IN  CASE Valueless(n, x) /\ Valueless(n, y) -> "equal"
        [] Valueless(n, x) /\ ~Valueless(n, y) -> "less"
        [] ~Valueless(n, x) /\ Valueless(n, y) -> "greater"
        [] OTHER -> IF n.tag[x] # n.tag[y]
                    THEN order(Position[n.tag[x]], Position[n.tag[y]])
                    ELSE order(visit_two(n, x, y)[1], visit_two(n, x, y)[2])
Relations == {"==", "!=", "<", ">", "<=", ">="}
relational(n, x, op, y) ==
  CASE op = "==" -> compare(n, x, y) = "equal" [] op = "!=" -> compare(n, x, y) # "equal"
    [] op = "<" -> compare(n, x, y) = "less" [] op = ">" -> compare(n, x, y) = "greater"
    [] op = "<=" -> compare(n, x, y) # "greater" [] op = ">=" -> compare(n, x, y) # "less"

-----------------------------------------------------------------------------
(* The calls of a program. *)
Did(do, name, x, y, tag, v) ==
  [do |-> do, name |-> name, x |-> x, y |-> y, tag |-> tag, v |-> v]

Sound(n) ==
  /\ n.fault = {}
  /\ \A x \in Objs : n.mem[x].ty = IF Valueless(n, x) THEN "raw" ELSE n.tag[x]

Do(c, argument, prog) ==
  /\ Sound(m)
  /\ call' = c
  /\ m' \in {Returned(n) :
               n \in Run(Calling([m EXCEPT !.mem["r"] = Raw, !.tag["r"] = "gone"],
                                 argument), prog)}
  /\ UNCHANGED tr

Alive == {x \in Objs : m.tag[x] # "gone"}
Unborn == Objs \ Alive

Default == \E x \in Unborn :
  Do(Did("put", "default", x, x, "A", 0), Raw, default_construct(x))
FromValue == \E x \in Unborn, t \in Alternatives, v \in Values :
  Do(Did("put", "construct", x, x, t, v), Object(t, v), construct(x, t))
CopyConstruct == \E x \in Unborn, y \in Alive :
  tr.trivial /\ Do(Did("copy", "copy construct", x, y, "", 0), Raw, trivial_copy(m, x, y))
MoveConstruct == \E x \in Unborn, y \in Alive :
  Do(Did("move", "move construct", x, y, "", 0), Raw,
     IF tr.trivial THEN trivial_copy(m, x, y) ELSE move_construct(m, x, y))
CopyAssign == \E x, y \in Alive :
  Do(Did("copy", "copy assign", x, y, "", 0), Raw,
     IF tr.trivial THEN trivial_copy(m, x, y) ELSE copy_assign(m, x, y))
MoveAssign == \E x, y \in Alive :
  Do(Did("move", "move assign", x, y, "", 0), Raw,
     IF tr.trivial THEN trivial_copy(m, x, y) ELSE move_assign(m, x, y))
AssignValue == \E x \in Alive, t \in Alternatives, v \in Values :
  Do(Did("put", "assign value", x, x, t, v), Object(t, v), assign_value(m, x, t))
Emplace == \E x \in Alive, t \in Alternatives, v \in Values :
  Do(Did("put", "emplace", x, x, t, v), Object(t, v), emplace(m, x, t))
Swap == \E x, y \in Alive :
  x # y /\ Do(Did("swap", "swap", x, y, "", 0), Raw, swap(m, x, y))
Observe == \E x \in Alive, t \in Alternatives :
  \/ Do(Did("look", "get", x, x, t, 0), Raw, get(m, x, t))
  \/ Do(Did("look", "get_if", x, x, t, 0), Raw, get_if(m, x, t))
  \/ Do(Did("look", "visit", x, x, "", 0), Raw, visit(m, x))
Destroy == \E x \in Alive :
  Do(Did("drop", "destroy", x, x, "", 0), Raw, destructor(m, x))

Traits ==
  {t \in [copy : BOOLEAN, move : BOOLEAN, ctor : BOOLEAN, trivial : BOOLEAN,
          throwingDtor : BOOLEAN] :
     /\ t.copy => t.move
     /\ t.trivial => t.copy /\ t.ctor /\ ~t.throwingDtor}

Init ==
  /\ m = Nothing(Objs \cup {"r"})
  /\ tr \in Traits
  /\ call = Did("drop", "start", "", "", "", 0)
Next == Default \/ FromValue \/ CopyConstruct \/ MoveConstruct \/ CopyAssign
        \/ MoveAssign \/ AssignValue \/ Emplace \/ Swap \/ Observe \/ Destroy
Spec == Init /\ [][Next]_vars

-----------------------------------------------------------------------------
\* The calls after which an object is not what its index says:
\*  - what resets or destroys a variant whose storage never destroys;
\*  - a copy assignment, which leaves one object in two variants;
\*  - what asks a valueless variant for its index.
MayBreak(c) ==
  \/ /\ c.name \in {"destroy", "emplace", "assign value", "move assign", "swap"}
     /\ ~tr.trivial /\ ~tr.throwingDtor
  \/ c.name = "copy assign" /\ ~tr.trivial
  \/ /\ c.name \in {"assign value", "swap", "get", "get_if", "visit"}
     /\ Valueless(m, c.x) \/ Valueless(m, c.y)
StepSound == Sound(m') \/ MayBreak(call')

MovedFrom(c) == {c, [c EXCEPT !.v = 0]}
Weak(c) == c.name \in {"emplace", "assign value", "move assign", "swap"}

\* get, get_if and visit find the alternative that is held, and its value; a
\* variant equals another one exactly when it holds the same, and the relations
\* are those of one order.
ResultRight ==
  LET held == [tag |-> m.tag[call'.x], v |-> m.mem[call'.x].v]
      found == [tag |-> m'.tag["r"], v |-> m'.mem["r"].v]
  IN  /\ ~m'.exc /\ call'.name \in {"get", "visit"} => found = held
      /\ ~m'.exc /\ call'.name = "get_if" =>
           found = IF held.tag = call'.tag THEN held ELSE [tag |-> "npos", v |-> 0]
      /\ \A x, y \in Alive :
           LET same == m.tag[x] = m.tag[y] /\ m.mem[x].v = m.mem[y].v
           IN  /\ relational(m, x, "==", y) <=> same
               /\ relational(m, x, "<", y) <=> relational(m, y, ">", x)
               /\ \A op \in Relations : relational(m, x, op, y) <=> op \in
                    IF same THEN {"==", "<=", ">="}
                    ELSE IF relational(m, x, "<", y) THEN {"!=", "<", "<="}
                    ELSE {"!=", ">", ">="}
=============================================================================
