------------------------------ MODULE Expected ------------------------------
(***************************************************************************)
(* gpcl::expected<T, E>: a union of a T and an unexpected<E> with the flag *)
(* ok_ beside it, built from seven layers of base classes.  Each member    *)
(* function is a program of Lifetime; the discriminator of an object is    *)
(* "ok" or "err".  tr holds the traits of T and E that the code tests with *)
(* if constexpr and enable_if: which of their constructors are noexcept,   *)
(* what T() owns (dflt), and whether T is void or both types are trivial.  *)
(* An operation that throws leaves its exception in m.exc.                 *)
(***************************************************************************)
EXTENDS Lifetime, FiniteSets

CONSTANTS Objs,       \* the expected objects of the program
          Values      \* the values that a T or an E can have

VARIABLES
  m,       \* the storage and the flags of every object (see Lifetime)
  tr,      \* the traits of T and E
  call     \* the last call

vars == <<m, tr, call>>

Cells == Objs \cup {"r", "t"}       \* "r" the result of a call, "t" a local
Ty(tag) == IF tag = "ok" THEN "T" ELSE "E"

\* noexcept of the constructors and assignments of T and E; a type with a
\* noexcept copy has a noexcept move.
Noexcept(t, how) ==
  IF t = "T" THEN IF how = "move" THEN tr.moveT ELSE tr.copyT
  ELSE IF how = "move" THEN tr.moveE ELSE tr.copyE

\* `::new (&val_) T(...)` or `::new (&err_) unexpected<E>(...)`: the contained E
\* is constructed by the constructor of unexpected with the same arguments.
Place(c, t, src, how) == New(c, t, src, how, Noexcept(t, how))
unexpected(c, src, how) == Place(c, "E", src, how)
Put(c, t, src, how) == Assign(c, t, src, how, Noexcept(t, how))
unexpected_assign(c, src, how) == Put(c, "E", src, how)

-----------------------------------------------------------------------------
\* The constructors of the union.
in_place_base(x) == <<New(x, "T", "arg", "copy", tr.ctorT), Tag(x, "ok")>>
unexpect_base(x) == <<unexpected(x, "arg", "copy"), Tag(x, "err")>>
default_base(x) == <<New(x, "T", tr.dflt, "value", tr.ctorT), Tag(x, "ok")>>
void_base(x) == <<Tag(x, "ok")>>

expected_default(x) == IF tr.void THEN void_base(x) ELSE default_base(x)

\* ~expected_destruct_base()
destruct(n, x) ==
  <<Delete(x, Ty(n.tag[x])), Tag(x, "gone")>>
void_destruct(n, x) ==
  (IF n.tag[x] = "err" THEN <<Delete(x, "E")>> ELSE <<>>) \o <<Tag(x, "gone")>>
trivial_destruct(n, x) == <<Forget(x), Tag(x, "gone")>>

destructor(n, x) ==
  CASE tr.trivial -> trivial_destruct(n, x)
    [] tr.void -> void_destruct(n, x)
    [] OTHER -> destruct(n, x)

\* The copy and move constructors name no base in their initializer lists: the
\* base is default constructed, with a T in it, before their bodies run.  When
\* a body throws, the destructor of that base runs with the ok_ set so far.
Unwound(x, tag, body) ==
  <<Try(<<Tag(x, tag)>> \o body,
        (IF tr.void /\ tag = "ok" THEN <<>> ELSE <<Delete(x, Ty(tag))>>)
          \o <<Tag(x, "gone")>>, TRUE)>>

copy_base(n, x, y) ==
  default_base(x) \o
  Unwound(x, n.tag[y], <<Place(x, Ty(n.tag[y]), y, "copy")>>)

move_base(n, x, y) ==
  default_base(x) \o
  Unwound(x, n.tag[y], <<Place(x, Ty(n.tag[y]), y, "move")>>)

void_copy_base(n, x, y) ==
  void_base(x) \o
  Unwound(x, n.tag[y],
          IF n.tag[y] = "err" THEN <<unexpected_assign(x, y, "copy")>> ELSE <<>>)
void_move_base(n, x, y) ==
  void_base(x) \o
  Unwound(x, n.tag[y],
          IF n.tag[y] = "err" THEN <<unexpected(x, y, "move")>> ELSE <<>>)

\* Trivial T and E: the object is copied byte by byte, and nothing throws.
trivial_copy(n, x, y) == <<Bytes(x, y), Tag(x, n.tag[y])>>

copy_construct(n, x, y) ==
  CASE tr.trivial -> trivial_copy(n, x, y)
    [] tr.void -> void_copy_base(n, x, y)
    [] OTHER -> copy_base(n, x, y)
move_construct(n, x, y) ==
  CASE tr.trivial -> trivial_copy(n, x, y)
    [] tr.void -> void_move_base(n, x, y)
    [] OTHER -> move_base(n, x, y)

-----------------------------------------------------------------------------
\* Assignment from another expected.  ok_ changes last; the fallback keeps the
\* old content in a local to put back.
copy_assign(n, x, y) ==
  CASE n.tag[x] = n.tag[y] ->
         <<Put(x, Ty(n.tag[x]), y, "copy")>>
    [] n.tag[x] = "ok" /\ n.tag[y] = "err" ->
         (CASE tr.copyE -> <<Delete(x, "T"), unexpected(x, y, "copy")>>
            [] ~tr.copyE /\ tr.moveE ->
                 <<unexpected("tmp", y, "copy"), Delete(x, "T"),
                   unexpected(x, "tmp", "move")>>
            [] OTHER ->
                 <<Place("tmp", "T", x, "copy"), Delete(x, "T"),
                   Try(<<unexpected(x, y, "copy")>>,
                       <<Place(x, "T", "tmp", "copy")>>, TRUE)>>)
         \o <<Tag(x, "err")>>
    [] n.tag[x] = "err" /\ n.tag[y] = "ok" ->
         (CASE tr.copyT -> <<Delete(x, "E"), Place(x, "T", y, "copy")>>
            [] ~tr.copyT /\ tr.moveT ->
                 <<Place("tmp", "T", y, "copy"), Delete(x, "E"),
                   Place(x, "T", "tmp", "move")>>
            [] OTHER ->
                 <<unexpected("tmp", x, "copy"), Delete(x, "E"),
                   Try(<<Place(x, "T", y, "copy")>>,
                       <<unexpected(x, "tmp", "move")>>, TRUE)>>)
         \o <<Tag(x, "ok")>>

\* Mutant of move_assign: the error is not put back when the value cannot be
\* moved in.
MoveAssignNotRestored(n, x, y) ==
  IF n.tag[x] = "err" /\ n.tag[y] = "ok"
  THEN <<Delete(x, "E"), Place(x, "T", y, "move"), Tag(x, "ok")>>
  ELSE <<Put(x, Ty(n.tag[y]), y, "move")>>

move_assign(n, x, y) ==
  CASE n.tag[x] = n.tag[y] ->
         <<Put(x, Ty(n.tag[x]), y, "move")>>
    [] n.tag[x] = "ok" /\ n.tag[y] = "err" ->
         <<Delete(x, "T"), unexpected(x, y, "move"), Tag(x, "err")>>
    [] n.tag[x] = "err" /\ n.tag[y] = "ok" ->
         (IF tr.moveT THEN <<Delete(x, "E"), Place(x, "T", y, "move")>>
          ELSE <<unexpected("tmp", x, "move"), Delete(x, "E"),
                 Try(<<Place(x, "T", y, "move")>>,
                     <<unexpected(x, "tmp", "move")>>, TRUE)>>)
         \o <<Tag(x, "ok")>>

\* expected<void, E>: there is no value to construct or destroy.
void_assign(n, x, y, how) ==
  CASE n.tag[x] = "ok" /\ n.tag[y] = "ok" -> <<>>
    [] n.tag[x] = "ok" /\ n.tag[y] = "err" -> <<unexpected(x, y, how), Tag(x, "err")>>
    [] n.tag[x] = "err" /\ n.tag[y] = "ok" -> <<Delete(x, "E"), Tag(x, "ok")>>
    [] n.tag[x] = "err" /\ n.tag[y] = "err" -> <<unexpected_assign(x, y, how)>>
void_copy_assign(n, x, y) == void_assign(n, x, y, "copy")
void_move_assign(n, x, y) == void_assign(n, x, y, "move")

\* Which assignments exist: the general ones ask for a type that can be put
\* back, the primary templates delete them.
CanCopyAssign == tr.trivial \/ tr.void \/ tr.moveE \/ tr.moveT
CanMoveAssign == tr.trivial \/ tr.moveE
assign(n, x, y, how) ==
  CASE tr.trivial -> trivial_copy(n, x, y)
    [] tr.void /\ how = "copy" -> void_copy_assign(n, x, y)
    [] tr.void /\ how = "move" -> void_move_assign(n, x, y)
    [] ~tr.void /\ ~tr.trivial /\ how = "copy" -> copy_assign(n, x, y)
    [] ~tr.void /\ ~tr.trivial /\ how = "move" -> move_assign(n, x, y)

-----------------------------------------------------------------------------
\* emplace(args...)
emplace(n, x) ==
  IF n.tag[x] = "ok"
  THEN <<New("tmp", "T", "arg", "copy", tr.ctorT), Put(x, "T", "tmp", "move")>>
  ELSE (CASE tr.ctorT -> <<Delete(x, "E"), New(x, "T", "arg", "copy", TRUE)>>
          [] ~tr.ctorT /\ tr.moveT ->
               <<New("tmp", "T", "arg", "copy", FALSE), Delete(x, "E"),
                 Place(x, "T", "tmp", "move")>>
          [] OTHER ->
               <<unexpected("tmp", x, "move"), Delete(x, "E"),
                 Try(<<New(x, "T", "arg", "copy", FALSE)>>,
                     <<unexpected(x, "tmp", "move")>>, TRUE)>>)
       \o <<Tag(x, "ok")>>
void_emplace(n, x) ==
  IF n.tag[x] = "err" THEN <<Delete(x, "E"), Tag(x, "ok")>> ELSE <<>>

\* operator=(U &&): the handler puts the error back and returns.
assign_value(n, x) ==
  CASE n.tag[x] = "ok" -> <<Assign(x, "T", "arg", "copy", tr.ctorT)>>
    [] n.tag[x] = "err" /\ tr.ctorT ->
         <<Delete(x, "E"), New(x, "T", "arg", "copy", TRUE), Tag(x, "ok")>>
    [] n.tag[x] = "err" /\ ~tr.ctorT ->
         <<unexpected("tmp", x, "move"), Delete(x, "E"),
           Try(<<New(x, "T", "arg", "copy", FALSE)>>,
               <<unexpected(x, "tmp", "move")>>, FALSE),
           Tag(x, "ok")>>

\* operator=(const unexpected<G> &) and operator=(unexpected<G> &&) take only
\* an error whose construction cannot throw.
assign_const_unexpected(n, x) ==
  IF n.tag[x] = "ok"
  THEN <<Delete(x, "T"), unexpected(x, "arg", "copy"), Tag(x, "err")>>
  ELSE <<unexpected_assign(x, "arg", "copy")>>
void_assign_const_unexpected(n, x) ==
  IF n.tag[x] = "ok" THEN <<unexpected(x, "arg", "copy"), Tag(x, "err")>>
  ELSE <<unexpected_assign(x, "arg", "copy")>>
assign_unexpected(n, x) ==
  IF n.tag[x] = "ok"
  THEN <<Delete(x, "T"), unexpected(x, "arg", "move"), Tag(x, "err")>>
  ELSE <<unexpected_assign(x, "arg", "move")>>
void_assign_unexpected(n, x) ==
  IF n.tag[x] = "ok" THEN <<unexpected(x, "arg", "move"), Tag(x, "err")>>
  ELSE <<unexpected_assign(x, "arg", "move")>>

\* swap(other): three moves through a local expected, destroyed at the end.
swap(n, x, y) ==
  LET tmp == Run(n, move_construct(n, "t", y))
      other == Then(tmp, LAMBDA k : assign(k, y, x, "move"))
      this == Then(other, LAMBDA k : assign(k, x, "t", "move"))
  IN  Finally(this, LAMBDA k : IF k.tag["t"] = "gone" THEN <<>> ELSE destructor(k, "t"))

-----------------------------------------------------------------------------
\* The combinators build their result in "r".  how is "copy" for an overload
\* that is const & and "move" for one that is &&.

\* `return unexpected<E>(error())`: expected(unexpected<G> &&e) copies e.
unexpected_error(x, how) ==
  <<unexpected("tmp", x, how), unexpected("r", "tmp", "copy"), Tag("r", "err")>>

\* A user's function called with the contents of cell x; it may throw.  It
\* takes its argument by value and turns the value v into F(v).
F(v) == IF v = 0 THEN 0 ELSE (v % Cardinality(Values)) + 1
Invoke(n, c, t, x, how) ==
  <<Place("tmp2", t, x, how), New(c, t, F(n.mem[x].v), "value", FALSE)>>

expected_from(n, x, how) ==
  IF how = "copy" THEN copy_construct(n, "r", x) ELSE move_construct(n, "r", x)

\* hy is the same for their second argument y.
and_(n, x, y, how, hy) ==
  IF n.tag[x] = "ok" THEN expected_from(n, y, hy) ELSE unexpected_error(x, how)
or_(n, x, y, how, hy) ==
  IF n.tag[x] = "ok" THEN expected_from(n, x, how) ELSE expected_from(n, y, hy)
map(n, x, how) ==
  IF n.tag[x] = "ok"
  THEN Invoke(n, "tmp", "T", x, how) \o <<Place("r", "T", "tmp", "move"), Tag("r", "ok")>>
  ELSE unexpected_error(x, how)
map_error(n, x, how) ==
  IF n.tag[x] = "ok" THEN expected_from(n, x, how)
  ELSE Invoke(n, "tmp", "E", x, how) \o
       <<unexpected("r", "tmp", "copy"), Tag("r", "err")>>

\* The user's function returns an expected of its own, with a value or an error.
and_then(n, x, how) ==
  IF n.tag[x] = "ok" THEN Invoke(n, "r", "T", x, how) \o <<Tag("r", "ok")>>
  ELSE unexpected_error(x, how)
or_else(n, x, how) ==
  IF n.tag[x] = "ok" THEN <<Place("r", "T", x, how), Tag("r", "ok")>>
  ELSE Invoke(n, "r", "E", x, how) \o <<Tag("r", "err")>>
map_or_else(n, x, how) ==
  Invoke(n, "r", Ty(n.tag[x]), x, how) \o <<Tag("r", n.tag[x])>>

\* value() throws bad_expected_access<E>(error()), which takes its E by value.
value(n, x, how) ==
  IF n.tag[x] = "ok" THEN <<Place("r", "T", x, how), Tag("r", "ok")>>
  ELSE <<unexpected("tmp", x, "copy"), unexpected("tmp2", "tmp", "move"), Throw>>
value_or(n, x, how) ==
  <<IF n.tag[x] = "ok" THEN Place("r", "T", x, how)
    ELSE New("r", "T", "arg", "copy", tr.ctorT), Tag("r", "ok")>>
take_value(n, x) == value(n, x, "move")
take_error(n, x) == <<unexpected("r", x, "move"), Tag("r", "err")>>
as_optional(n, x, how) ==
  IF n.tag[x] = "ok" THEN <<Place("r", "T", x, how), Tag("r", "ok")>>
  ELSE <<Tag("r", "none")>>

\* operator== of two expected objects.
equal(n, x, y) ==
  \/ n.tag[x] = "ok" /\ n.tag[y] = "ok" /\ n.mem[x].v = n.mem[y].v
  \/ n.tag[x] = "err" /\ n.tag[y] = "err" /\ n.mem[x].v = n.mem[y].v
\* operator== with a value, and with an unexpected.
equal_value(n, x, v) == n.tag[x] = "ok" /\ n.mem[x].v = v
equal_error(n, x, v) == n.tag[x] = "err" /\ n.mem[x].v = v

-----------------------------------------------------------------------------
(* The calls of a program.  call says what Holder has to know of a call.   *)

Did(do, name, x, y, tag, v) ==
  [do |-> do, name |-> name, x |-> x, y |-> y, tag |-> tag, v |-> v]

\* Objects hold what their flags say, and nothing was done to a dead object.
Holds(n, x) ==
  LET t == n.mem[x].ty
  IN  CASE n.tag[x] = "ok" -> t = IF tr.void THEN "raw" ELSE "T"
        [] n.tag[x] = "err" -> t = "E"
        [] OTHER -> t = "raw"
Sound(n) == n.fault = {} /\ \A x \in Objs : Holds(n, x)

Entry(argument) ==
  Calling([m EXCEPT !.mem["r"] = Raw, !.tag["r"] = "gone"], argument)
NoArg == Raw
Do(c, outcomes) ==
  /\ Sound(m)
  /\ call' = c
  /\ m' \in {Returned(n) : n \in outcomes}
  /\ UNCHANGED tr

Alive == {x \in Objs : m.tag[x] # "gone"}
Unborn == Objs \ Alive
\* An operation that only expected<T, E> has, not expected<void, E>.
HasValueType == ~tr.void

Default == \E x \in Unborn :
  Do(Did("put", "default", x, x, "ok", IF tr.void THEN 0 ELSE tr.dflt),
     Run(Entry(NoArg), expected_default(x)))
InPlace == \E x \in Unborn, v \in Values :
  /\ HasValueType
  /\ Do(Did("put", "in_place", x, x, "ok", v), Run(Entry(Object("T", v)), in_place_base(x)))
Unexpect == \E x \in Unborn, v \in Values :
  Do(Did("put", "unexpect", x, x, "err", v), Run(Entry(Object("E", v)), unexpect_base(x)))
CopyConstruct == \E x \in Unborn, y \in Alive :
  Do(Did("copy", "copy construct", x, y, "", 0),
     Run(Entry(NoArg), copy_construct(Entry(NoArg), x, y)))
MoveConstruct == \E x \in Unborn, y \in Alive :
  Do(Did("move", "move construct", x, y, "", 0),
     Run(Entry(NoArg), move_construct(Entry(NoArg), x, y)))

CopyAssign == \E x, y \in Alive :
  /\ CanCopyAssign
  /\ Do(Did("copy", "copy assign", x, y, "", 0),
        Run(Entry(NoArg), assign(Entry(NoArg), x, y, "copy")))
MoveAssign == \E x, y \in Alive :
  /\ CanMoveAssign
  /\ Do(Did("move", "move assign", x, y, "", 0),
        Run(Entry(NoArg), assign(Entry(NoArg), x, y, "move")))
Emplace == \E x \in Alive, v \in Values :
  /\ HasValueType
  /\ Do(Did("put", "emplace", x, x, "ok", v),
        Run(Entry(Object("T", v)), emplace(m, x)))
VoidEmplace == \E x \in Alive :
  /\ tr.void
  /\ Do(Did("put", "emplace", x, x, "ok", 0), Run(Entry(NoArg), void_emplace(m, x)))
AssignValue == \E x \in Alive, v \in Values :
  /\ HasValueType /\ (tr.ctorT \/ tr.moveE)
  /\ Do(Did("put", "assign value", x, x, "ok", v),
        Run(Entry(Object("T", v)), assign_value(m, x)))
AssignUnexpected == \E x \in Alive, v \in Values :
  \/ /\ tr.copyE
     /\ Do(Did("put", "assign error", x, x, "err", v),
           Run(Entry(Object("E", v)),
               IF tr.void THEN void_assign_const_unexpected(m, x)
               ELSE assign_const_unexpected(m, x)))
  \/ /\ tr.moveE
     /\ Do(Did("put", "assign error", x, x, "err", v),
           Run(Entry(Object("E", v)),
               IF tr.void THEN void_assign_unexpected(m, x)
               ELSE assign_unexpected(m, x)))
Swap == \E x, y \in Alive :
  /\ CanMoveAssign
  /\ Do(Did("swap", "swap", x, y, "", 0), swap(Entry(NoArg), x, y))
Destroy == \E x \in Alive :
  Do(Did("drop", "destroy", x, x, "", 0), Run(Entry(NoArg), destructor(m, x)))

Hows == {"copy", "move"}
\* A combinator that reads or consumes x, or its argument y.
Reading(name, x, how, prog) ==
  Do(Did(IF how = "copy" THEN "look" ELSE "take", name, x, x, "", 0), prog)
Combine == \E x \in Alive, how \in Hows :
  LET n == Entry(NoArg)
  IN  /\ HasValueType
      /\ \/ Reading("map", x, how, Run(n, map(n, x, how)))
         \/ Reading("map_error", x, how, Run(n, map_error(n, x, how)))
         \/ Reading("and_then", x, how, Run(n, and_then(n, x, how)))
         \/ Reading("or_else", x, how, Run(n, or_else(n, x, how)))
         \/ Reading("map_or_else", x, how, Run(n, map_or_else(n, x, how)))
         \/ Reading("value", x, how, Run(n, value(n, x, how)))
         \/ Reading("value_or", x, how,
                    Run(Entry(Object("T", 1)), value_or(n, x, how)))
         \/ Reading("as_optional", x, how, Run(n, as_optional(n, x, how)))
         \/ Reading("take_value", x, "move", Run(n, take_value(n, x)))
         \/ /\ m.tag[x] = "err"
            /\ Reading("take_error", x, "move", Run(n, take_error(n, x)))
Either == \E x, y \in Alive, how \in Hows, hy \in Hows :
  LET n == Entry(NoArg)
      \* the operand that the result is made from
      from(name) == IF (name = "and_") = (m.tag[x] = "ok") THEN y ELSE x
      used(name) == IF from(name) = y THEN hy ELSE how
  IN  /\ x # y
      /\ HasValueType
      /\ \/ Reading("and_", from("and_"), used("and_"), Run(n, and_(n, x, y, how, hy)))
         \/ Reading("or_", from("or_"), used("or_"), Run(n, or_(n, x, y, how, hy)))

Traits ==
  {t \in [copyT : BOOLEAN, moveT : BOOLEAN, copyE : BOOLEAN, moveE : BOOLEAN,
          ctorT : BOOLEAN, dflt : {0, 1}, void : BOOLEAN, trivial : BOOLEAN] :
     /\ t.copyT => t.moveT
     /\ t.copyE => t.moveE
     /\ t.trivial => t.copyT /\ t.copyE /\ t.ctorT /\ ~t.void /\ t.dflt = 0
     /\ t.void => t.copyT /\ t.ctorT /\ t.dflt = 0}

Init ==
  /\ m = Nothing(Cells)
  /\ tr \in Traits
  /\ call = Did("drop", "start", "", "", "", 0)
Next == Default \/ InPlace \/ Unexpect \/ CopyConstruct \/ MoveConstruct
        \/ CopyAssign \/ MoveAssign \/ Emplace \/ VoidEmplace \/ AssignValue
        \/ AssignUnexpected \/ Swap \/ Destroy \/ Combine \/ Either
Spec == Init /\ [][Next]_vars
-----------------------------------------------------------------------------
\* The calls after which an object may no longer hold what its flag says:
\*  - copy and move construction, and what returns an expected through them,
\*    over the T of the base: a T() that owns something is leaked, and when the
\*    body throws, or E is assigned into no E, the base destroys what is not there;
\*  - an assignment whose restoring constructor throws in its turn;
\*  - operator=(U &&), which says "ok" after it has put the error back.
MayBreak(c, threw) ==
  \/ /\ c.name \in {"copy construct", "move construct", "swap", "and_", "or_", "map_error"}
     /\ threw \/ tr.dflt # 0 \/ (tr.void /\ c.name = "copy construct")
  \/ c.name = "copy assign" /\ threw /\ ~tr.moveE /\ ~tr.copyT
  \/ c.name = "emplace" /\ threw /\ ~tr.ctorT /\ ~tr.moveT /\ ~tr.moveE
  \/ c.name = "assign value" /\ ~tr.ctorT
StepSound == Sound(m') \/ MayBreak(call', m'.exc)

\* The source of a move keeps its alternative, with or without its value.
MovedFrom(c) == {c, [c EXCEPT !.v = 0]}
Weak(c) == c.do \in {"swap", "take"}

\* A combinator hands on what the object held, or what the user's function made
\* of it, and a copy compares equal to its source.
ResultRight ==
  LET held == [tag |-> m.tag[call'.x], v |-> m.mem[call'.x].v]
      mapped == [held EXCEPT !.v = F(@)]
      got == [tag |-> m'.tag["r"], v |-> m'.mem["r"].v]
      is(tag) == held.tag = tag
  IN  ~m'.exc =>
        CASE call'.name \in {"and_", "or_", "value", "take_value", "take_error"} -> got = held
          [] call'.name \in {"map", "and_then"} -> got = IF is("ok") THEN mapped ELSE held
          [] call'.name \in {"map_error", "or_else"} -> got = IF is("err") THEN mapped ELSE held
          [] call'.name = "map_or_else" -> got = mapped
          [] call'.name = "value_or" ->
               got = IF is("ok") THEN held ELSE [tag |-> "ok", v |-> 1]
          [] call'.name = "as_optional" ->
               got = IF is("ok") THEN held ELSE [tag |-> "none", v |-> 0]
          [] call'.name \in {"copy construct", "copy assign"} ->
               Sound(m') =>
                 /\ equal(m', call'.x, call'.y)
                 /\ equal_value(m', call'.x, held.v) \/ equal_error(m', call'.x, held.v)
                      => equal_value(m', call'.y, held.v) \/ equal_error(m', call'.y, held.v)
          [] OTHER -> TRUE
=============================================================================
