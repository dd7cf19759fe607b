------------------------------ MODULE Lifetime ------------------------------
(***************************************************************************)
(* Objects in raw storage, as the C++ language treats them: the rules that *)
(* optional, expected, variant, basic_any and function rely on when they   *)
(* place an object into a union with ::new, destroy it with ~T() and keep  *)
(* a discriminator beside it.                                              *)
(*                                                                         *)
(* A machine state m has the content of every cell (m.mem), the            *)
(* discriminator of every object (m.tag, "gone" while the object does not  *)
(* exist), the rules broken so far (m.fault) and whether an exception is   *)
(* on its way (m.exc).  A member function is a program: a sequence of      *)
(* steps.  A step that may throw has two outcomes, so running a program    *)
(* gives a set of states.                                                  *)
(***************************************************************************)
EXTENDS Naturals, Sequences, SequencesExt

\* A cell without an object, and an object of type t with value v.  Value 0 is
\* an object that owns nothing: moved from, or constructed by default.
Raw == [ty |-> "raw", v |-> 0]
Object(t, v) == [ty |-> t, v |-> v]

\* The steps: `::new (c) t(src)`, `c = src`, `c.~t()` and `tag = to`.  how is
\* "copy", "move" or "value" (then src is the value); safe is noexcept.
New(c, t, src, how, safe) ==
  [op |-> "new", c |-> c, ty |-> t, src |-> src, how |-> how, safe |-> safe]
Assign(c, t, src, how, safe) ==
  [op |-> "assign", c |-> c, ty |-> t, src |-> src, how |-> how, safe |-> safe]
Delete(c, t) == [op |-> "delete", c |-> c, ty |-> t]
Tag(o, to) == [op |-> "tag", c |-> o, to |-> to]

\* The bytes of a trivial object copied, and its storage released; an object
\* that is not trivial is in two places once its bytes are copied.
Bytes(c, src) == [op |-> "bytes", c |-> c, src |-> src]
Alias(c, src) == [op |-> "alias", c |-> c, src |-> src]
Forget(c) == [op |-> "forget", c |-> c]

\* A pointer to an object on the heap that changes hands.
Steal(c, src) == [op |-> "steal", c |-> c, src |-> src]

\* A precondition of what follows, with the name of its violation.
Require(cond, what) == [op |-> "require", cond |-> cond, what |-> what]
Throw == [op |-> "throw"]

\* try { body } catch (...) { handler; throw; }, or without the throw.
Try(body, handler, rethrow) ==
  [op |-> "try", body |-> body, handler |-> handler, rethrow |-> rethrow]

-----------------------------------------------------------------------------
Faulty(m, what) == [m EXCEPT !.fault = @ \cup what]

\* Reading an object of type t out of cell src.
ReadFault(m, s) ==
  IF s.how # "value" /\ m.mem[s.src].ty # s.ty THEN {"dead"} ELSE {}

\* What the step leaves in its cell, and in the cell it moves from.
Stored(m, s) ==
  LET v == IF s.how = "value" THEN s.src ELSE m.mem[s.src].v
      emptied == IF s.how = "move" THEN [m.mem EXCEPT ![s.src].v = 0] ELSE m.mem
  IN  [m EXCEPT !.mem = [emptied EXCEPT ![s.c] = Object(s.ty, v)]]

\* Placement new ends the lifetime of what was in the cell; an object that
\* owned something is leaked.  A constructor that throws leaves raw storage.
Construct(m, s) ==
  LET lost == IF m.mem[s.c].ty # "raw" /\ m.mem[s.c].v # 0 THEN {"leak"} ELSE {}
      ready == Faulty(m, lost \cup ReadFault(m, s))
  IN  {Stored(ready, s)} \cup
      IF s.safe THEN {}
      ELSE {[ready EXCEPT !.mem[s.c] = Raw, !.exc = TRUE]}

\* Assignment needs a live object on both sides; when it throws the target
\* keeps its value.
Reassign(m, s) ==
  LET ready == Faulty(m, ReadFault(m, s) \cup
                         IF m.mem[s.c].ty # s.ty THEN {"dead"} ELSE {})
  IN  {Stored(ready, s)} \cup IF s.safe THEN {} ELSE {[ready EXCEPT !.exc = TRUE]}

\* A destructor runs on a live object of its type, once.
Destroyed(m, c, t) ==
  Faulty([m EXCEPT !.mem[c] = Raw], IF m.mem[c].ty # t THEN {"dead"} ELSE {})

Outcomes(m, s) ==
  CASE m.exc -> {m}
    [] s.op = "new" -> Construct(m, s)
    [] s.op = "assign" -> Reassign(m, s)
    [] s.op = "delete" -> {Destroyed(m, s.c, s.ty)}
    [] s.op = "tag" -> {[m EXCEPT !.tag[s.c] = s.to]}
    [] s.op = "bytes" -> {[m EXCEPT !.mem[s.c] = m.mem[s.src]]}
    [] s.op = "alias" ->
         {Faulty([m EXCEPT !.mem[s.c] = m.mem[s.src]],
                 IF s.c # s.src THEN {"alias"} ELSE {})}
    [] s.op = "steal" ->
         {[m EXCEPT !.mem[s.c] = m.mem[s.src], !.mem[s.src] = Raw]}
    [] s.op = "require" -> {IF s.cond THEN m ELSE Faulty(m, {s.what})}
    [] s.op = "throw" -> {[m EXCEPT !.exc = TRUE]}
    [] s.op = "forget" -> {[m EXCEPT !.mem[s.c] = Raw]}

Straight(m, prog) ==
  FoldLeft(LAMBDA S, s : UNION {Outcomes(n, s) : n \in S}, {m}, prog)

Handled(m, s) ==
  IF m.exc THEN {m}
  ELSE UNION {IF ~n.exc THEN {n}
              ELSE {[h EXCEPT !.exc = @ \/ s.rethrow] :
                      h \in Straight([n EXCEPT !.exc = FALSE], s.handler)} :
              n \in Straight(m, s.body)}

\* Every way a program can run from m.
Run(m, prog) ==
  FoldLeft(LAMBDA S, s : UNION {IF s.op = "try" THEN Handled(n, s)
                                ELSE Outcomes(n, s) : n \in S}, {m}, prog)

\* A program that depends on the state in which the one before it returned.
Then(S, P(_)) == UNION {IF n.exc THEN {n} ELSE Run(n, P(n)) : n \in S}

\* What runs however the block ends.
Finally(S, P(_)) ==
  UNION {{[k EXCEPT !.exc = @ \/ n.exc] : k \in Run([n EXCEPT !.exc = FALSE], P(n))} :
         n \in S}

\* A call starts without an exception, with its argument in cell "arg"; its
\* locals and arguments are destroyed when it ends, however it ends.
Locals == {"arg", "tmp", "tmp2"}
Calling(m, argument) == [m EXCEPT !.exc = FALSE, !.mem["arg"] = argument]
Returned(m) ==
  [m EXCEPT !.mem = [c \in DOMAIN @ |-> IF c \in Locals THEN Raw ELSE @[c]]]

\* No object exists yet.
Nothing(objs) ==
  [mem |-> [c \in objs \cup Locals |-> Raw], tag |-> [o \in objs |-> "gone"],
   fault |-> {}, exc |-> FALSE]
=============================================================================
