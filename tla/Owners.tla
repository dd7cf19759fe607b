------------------------------- MODULE Owners -------------------------------
(***************************************************************************)
(* The smart pointers and handles that own what they point to: unique_ptr, *)
(* propagate_const of one, clone_ptr, scoped_array, unique_handle and      *)
(* intrusive_ptr.  A run uses pointers of one kind.                        *)
(*                                                                         *)
(* The destructor of an object may reset a pointer of the program: the one *)
(* named by its field back.  So Kill, which destroys an object, and reset  *)
(* are mutually recursive, as they are in a program whose objects own each *)
(* other.  Closing a handle calls nobody back.                             *)
(***************************************************************************)
EXTENDS Integers, FiniteSets

CONSTANTS
  Ptrs,         \* the pointers of the program
  Objects,      \* the objects on its heap, by address: positive numbers
  Deleters      \* their deleters; "default" is what Deleter() makes

VARIABLES
  kind,    \* the kind of pointer
  h,       \* p: the pointers, heap: the objects, raw: the objects that the
           \* program holds by a plain pointer, fault: the rules broken
  call     \* the last call

vars == <<kind, h, call>>

Nil == 0        \* the null pointer
Gone == -1      \* a pointer that has not been made, or is destroyed
NoPtr == ""
Kinds == {"unique", "propagate", "clone", "array", "handle", "intrusive"}
HasDeleter == kind \in {"unique", "propagate", "clone"}

Free == [live |-> FALSE, by |-> "default", back |-> NoPtr, count |-> 0]
Exists(n, x) == n.p[x].at # Gone
Target(n, x) == n.p[x].at
Point(n, x, o) == [n EXCEPT !.p[x].at = o]
Delete_(n, x, d) == [n EXCEPT !.p[x].d = d]

-----------------------------------------------------------------------------
RECURSIVE Kill(_, _, _), unique_reset(_, _, _), eager_reset(_, _, _),
          intrusive_reset(_, _), intrusive_dec(_, _)

\* What the destructor of an object calls on the pointer it knows.
Reset_(n, x) ==
  CASE kind \in {"unique", "propagate"} -> unique_reset(n, x, Nil)
    [] kind = "array" -> eager_reset(n, x, Nil)
    [] kind = "intrusive" -> intrusive_reset(n, x)
    [] OTHER -> n

\* A deleter d runs on object o: default_delete, delete[] or close.
Kill(n, o, d) ==
  LET obj == n.heap[o]
      dead == [n EXCEPT !.heap[o] = Free,
                        !.fault = @ \cup (IF ~obj.live THEN {"twice"} ELSE {})
                                    \cup (IF obj.live /\ HasDeleter /\ d # obj.by
                                          THEN {"deleter"} ELSE {})]
  IN  IF dead.fault = {} /\ obj.back # NoPtr /\ Exists(n, obj.back)
      THEN Reset_(dead, obj.back) ELSE dead

\* unique_ptr::reset stores the new pointer before it deletes the old object.
unique_reset(n, x, o) ==
  LET stored == Point(n, x, o)
  IN  IF Target(n, x) = Nil THEN stored ELSE Kill(stored, Target(n, x), n.p[x].d)

\* unique_handle::reset and scoped_array::reset store it afterwards.
eager_reset(n, x, o) ==
  Point(IF Target(n, x) = Nil THEN n ELSE Kill(n, Target(n, x), "default"), x, o)

\* intrusive_ref_count_inc and _dec of an object that counts its references.
intrusive_inc(n, o) == [n EXCEPT !.heap[o].count = @ + 1]
intrusive_dec(n, o) ==
  CASE ~n.heap[o].live -> [n EXCEPT !.fault = @ \cup {"twice"}]
    [] n.heap[o].count > 1 -> [n EXCEPT !.heap[o].count = @ - 1]
    [] OTHER -> Kill(n, o, "default")
intrusive_reset(n, x) ==
  IF Target(n, x) = Nil THEN n ELSE Point(intrusive_dec(n, Target(n, x)), x, Nil)

-----------------------------------------------------------------------------
\* Destructors.
unique_destroy(n, x) ==
  IF Target(n, x) = Nil THEN n ELSE Kill(n, Target(n, x), n.p[x].d)
intrusive_destroy(n, x) ==
  IF Target(n, x) = Nil THEN n ELSE intrusive_dec(n, Target(n, x))
destroy(n, x) ==
  Point(CASE HasDeleter -> unique_destroy(n, x)
          [] kind = "intrusive" -> intrusive_destroy(n, x)
          [] OTHER -> eager_reset(n, x, Nil), x, Gone)

release(n, x) == Point(n, x, Nil)

\* unique_ptr(unique_ptr &&u) : _p(u.release()), with a deleter of its own, and
\* the converting constructor, which takes the deleter along.
unique_move(n, x, y) == Delete_(Point(release(n, y), x, Target(n, y)), x, "default")
unique_convert(n, x, y) == Delete_(Point(release(n, y), x, Target(n, y)), x, n.p[y].d)
handle_move(n, x, y) == Point(release(n, y), x, Target(n, y))
intrusive_move(n, x, y) == Point(release(n, y), x, Target(n, y))

\* Mutant of unique_move_assign: the pointer of the other one is not cleared.
MoveAssignCopies(n, x, y) ==
  LET reset == unique_reset(n, x, Target(n, y))
  IN  Delete_(reset, x, n.p[y].d)

unique_move_assign(n, x, y) ==
  LET reset == unique_reset(release(n, y), x, Target(n, y))
  IN  Delete_(reset, x, reset.p[y].d)
handle_move_assign(n, x, y) == eager_reset(release(n, y), x, Target(n, y))

swap(n, x, y) ==
  [n EXCEPT !.p[x] = n.p[y], !.p[y] = n.p[x]]

\* The local of the copy-and-swap idiom: it takes what x pointed to, and is
\* destroyed after x points to o with deleter d.
SwappedIn(n, x, o, d) ==
  LET t == n.p[x]
      new == Delete_(Point(n, x, o), x, d)
  IN  CASE t.at = Nil -> new
        [] kind = "intrusive" -> intrusive_dec(new, t.at)
        [] OTHER -> Kill(new, t.at, t.d)

\* clone_ptr: every unique_ptr it is built from is moved into its pair, and so
\* loses its deleter.
clone_construct(n, x, o) == Delete_(Point(n, x, o), x, "default")
clone_assign(n, x, o) == SwappedIn(n, x, o, "default")
clone_move(n, x, y) == unique_move(n, x, y)
clone_move_assign(n, x, y) == swap(n, x, y)

intrusive_copy(n, x, y) ==
  LET o == Target(n, y)
  IN  Point(IF o = Nil THEN n ELSE intrusive_inc(n, o), x, o)
intrusive_assign(n, x, y) ==
  LET o == Target(n, y)
  IN  SwappedIn(IF o = Nil THEN n ELSE intrusive_inc(n, o), x, o, "default")
intrusive_move_assign(n, x, y) ==
  SwappedIn(release(n, y), x, Target(n, y), "default")

\* The pointer casts.  A dynamic cast to a type that the object has not gives an
\* empty pointer, and a unique_ptr then keeps its object.
unique_cast(n, x, y, fits) ==
  Delete_(IF fits THEN Point(release(n, y), x, Target(n, y)) ELSE Point(n, x, Nil),
          x, "default")
intrusive_cast(n, x, y, fits) ==
  IF fits THEN intrusive_copy(n, x, y) ELSE Point(n, x, Nil)

move_construct(n, x, y) ==
  CASE kind \in {"unique", "propagate"} -> unique_move(n, x, y)
    [] kind = "clone" -> clone_move(n, x, y)
    [] kind = "handle" -> handle_move(n, x, y)
    [] kind = "intrusive" -> intrusive_move(n, x, y)
move_assign(n, x, y) ==
  CASE kind \in {"unique", "propagate"} -> unique_move_assign(n, x, y)
    [] kind = "clone" -> clone_move_assign(n, x, y)
    [] kind = "handle" -> handle_move_assign(n, x, y)
    [] kind = "intrusive" -> intrusive_move_assign(n, x, y)
reset(n, x, o) ==
  CASE kind \in {"unique", "propagate"} -> unique_reset(n, x, o)
    [] kind \in {"array", "handle"} -> eager_reset(n, x, o)
    [] kind = "intrusive" ->
         IF o = Nil THEN intrusive_reset(n, x) ELSE SwappedIn(n, x, o, "default")

\* ~out_ptr_t() gives the pointer that the C function stored to the smart
\* pointer, or the null pointer that emplace made when it stored none.
out_ptr(n, x, o) == reset(n, x, o)

-----------------------------------------------------------------------------
(* Comparisons of the addresses that two pointers have; nullptr is Nil.      *)
Relations == {"==", "!=", "<", "<=", ">", ">="}

\* std::less, and the other operators made of it.  (A unique_ptr or an
\* intrusive_ptr != nullptr does not compile.)
ByLess(a, op, b) ==
  CASE op = "==" -> a = b [] op = "!=" -> a # b
    [] op = "<" -> a < b [] op = "<=" -> ~(b < a)
    [] op = ">" -> b < a [] op = ">=" -> ~(a < b)
unique_compare(a, op, b) == ByLess(a, op, b)
intrusive_compare(a, op, b) == ByLess(a, op, b)

\* propagate_const compares what get() returns, also with other pointers.
propagate_compare(a, op, b) ==
  CASE op = "==" -> a = b [] op = "!=" -> a # b
    [] op = "<" -> a < b [] op = "<=" -> a <= b
    [] op = ">" -> a > b [] op = ">=" -> a >= b

compare(n, x, op, y) ==
  CASE kind = "unique" -> unique_compare(Target(n, x), op, Target(n, y))
    [] kind = "intrusive" -> intrusive_compare(Target(n, x), op, Target(n, y))
    [] kind = "propagate" -> propagate_compare(Target(n, x), op, Target(n, y))

-----------------------------------------------------------------------------
(* The calls of a program. *)
Held(n) == {n.p[x].at : x \in Ptrs} \ {Nil, Gone}
Owners_(n, o) == {x \in Ptrs : n.p[x].at = o}

\* No object is destroyed twice or with the wrong deleter; what is held lives,
\* what lives is held, once or as often as it counts, with its own deleter.
Sound(n) ==
  /\ n.fault = {}
  /\ Held(n) \cup n.raw = {o \in Objects : n.heap[o].live}
  /\ Held(n) \cap n.raw = {}
  /\ \A o \in Held(n) :
       /\ Cardinality(Owners_(n, o)) =
            IF kind = "intrusive" THEN n.heap[o].count ELSE 1
       /\ HasDeleter => \A x \in Owners_(n, o) : n.p[x].d = n.heap[o].by

Alive == {x \in Ptrs : Exists(h, x)}
Unborn == Ptrs \ Alive
Do(name, x, y, n) ==
  /\ Sound(h)
  /\ h' = n
  /\ call' = [name |-> name, x |-> x, y |-> y]
  /\ UNCHANGED kind

\* Objects the program makes, or has made for it.
Fresh == {o \in Objects : ~h.heap[o].live}
Made(o, d, back) ==
  [h EXCEPT !.heap[o] = [live |-> TRUE, by |-> d, back |-> back, count |-> 1]]
Backs == IF kind \in {"handle", "clone"} THEN {NoPtr} ELSE Ptrs \cup {NoPtr}
Makers == IF HasDeleter THEN Deleters ELSE {"default"}

Default == \E x \in Unborn :
  kind # "clone" /\ Do("default", x, x, Delete_(Point(h, x, Nil), x, "default"))
Construct == \E x \in Unborn, o \in Fresh, d \in Makers, b \in Backs :
  Do("construct", x, x,
     IF kind = "clone" THEN clone_construct(Made(o, d, b), x, o)
     ELSE Delete_(Point(Made(o, d, b), x, o), x, d))
Adopt == \E x \in Alive, o \in h.raw :
  /\ kind # "clone"
  /\ HasDeleter => h.heap[o].by = h.p[x].d
  /\ Do("reset", x, x, reset([h EXCEPT !.raw = @ \ {o}], x, o))
Reset == \E x \in Alive :
  kind # "clone" /\ Do("reset", x, x, reset(h, x, Nil))
Release == \E x \in Alive :
  /\ kind \in {"unique", "handle", "intrusive"}
  /\ Target(h, x) \notin {o \in Objects : h.heap[o].count > 1}
  /\ Do("release", x, x,
        [release(h, x) EXCEPT !.raw = @ \cup ({Target(h, x)} \ {Nil})])
MoveConstruct == \E x \in Unborn, y \in Alive :
  kind # "array" /\ Do("move construct", x, y, move_construct(h, x, y))
Convert == \E x \in Unborn, y \in Alive :
  kind = "unique" /\ Do("convert", x, y, unique_convert(h, x, y))
MoveAssign == \E x, y \in Alive :
  kind # "array" /\ Do("move assign", x, y, move_assign(h, x, y))
Swap == \E x, y \in Alive : Do("swap", x, y, swap(h, x, y))
CopyConstruct == \E x \in Unborn, y \in Alive :
  \/ kind = "intrusive" /\ Do("copy construct", x, y, intrusive_copy(h, x, y))
  \/ /\ kind = "clone" /\ Target(h, y) = Nil
     /\ Do("copy construct", x, y, clone_construct(h, x, Nil))
  \/ \E o \in Fresh :
       /\ kind = "clone" /\ Target(h, y) # Nil
       /\ Do("copy construct", x, y, clone_construct(Made(o, h.p[y].d, NoPtr), x, o))
CopyAssign == \E x, y \in Alive :
  \/ kind = "intrusive" /\ Do("copy assign", x, y, intrusive_assign(h, x, y))
  \/ /\ kind = "clone" /\ Target(h, y) = Nil
     /\ Do("copy assign", x, y, clone_assign(h, x, Nil))
  \/ \E o \in Fresh :
       /\ kind = "clone" /\ Target(h, y) # Nil
       /\ Do("copy assign", x, y, clone_assign(Made(o, h.p[y].d, NoPtr), x, o))
Cast == \E x \in Unborn, y \in Alive, fits \in BOOLEAN :
  \/ /\ kind = "unique" /\ h.p[y].d = "default"
     /\ Do("cast", x, y, unique_cast(h, x, y, fits))
  \/ kind = "intrusive" /\ Do("cast", x, y, intrusive_cast(h, x, y, fits))
OutPtr == \E x \in Alive :
  /\ kind \in {"unique", "array"}
  /\ \/ Do("reset", x, x, out_ptr(h, x, Nil))
     \/ \E o \in Fresh : Do("reset", x, x, out_ptr(Made(o, h.p[x].d, NoPtr), x, o))
Destroy == \E x \in Alive : Do("destroy", x, x, destroy(h, x))

Init ==
  /\ kind \in Kinds
  /\ h = [p |-> [x \in Ptrs |-> [at |-> Gone, d |-> "default"]],
          heap |-> [o \in Objects |-> Free], raw |-> {}, fault |-> {}]
  /\ call = [name |-> "start", x |-> "", y |-> ""]
Next == Default \/ Construct \/ Adopt \/ Reset \/ Release \/ MoveConstruct \/ Convert
        \/ MoveAssign \/ Swap \/ CopyConstruct \/ CopyAssign \/ Cast \/ OutPtr \/ Destroy
Spec == Init /\ [][Next]_vars

-----------------------------------------------------------------------------
\* The calls that break ownership:
\*  - what builds a unique_ptr out of another one loses a deleter with a state;
\*  - a pointer that is still set while its object is destroyed is destroyed
\*    again by an object that resets it, alone or through other objects; and
\*    move assignment has not yet taken over the deleter by then.
RECURSIVE Resets(_, _, _)
Resets(n, o, seen) ==
  LET b == n.heap[o].back
  IN  IF b = NoPtr \/ b \in seen THEN seen
      ELSE IF Target(n, b) \in Objects THEN Resets(n, Target(n, b), seen \cup {b})
      ELSE seen \cup {b}
Entered(n, x) == Target(n, x) \in Objects /\ x \in Resets(n, Target(n, x), {})
MayBreak(c) ==
  \/ /\ kind = "clone" /\ c.name = "construct"
     /\ h'.heap[h'.p[c.x].at].by # "default"
  \/ /\ c.name = "move construct" /\ HasDeleter
     /\ h.p[c.y].d # "default"
  \/ /\ c.name = "move assign" /\ HasDeleter /\ Entered(h, c.x)
     /\ h.p[c.x].d # h.p[c.y].d
  \/ c.name = "destroy" /\ Entered(h, c.x)
  \/ kind \in {"array", "intrusive"} /\ \E z \in Ptrs : Entered(h, z)

\* Two pointers compare equal when both are empty or share an object, which only
\* intrusive_ptrs do, and the relations are those of one order.
ComparesRight(n) ==
  kind \in {"unique", "propagate", "intrusive"} =>
    \A x, y \in {z \in Ptrs : Exists(n, z)} :
      LET holds(op) == compare(n, x, op, y)
          empty(z) == Target(n, z) = Nil
      IN  /\ holds("==") <=> \/ x = y
                             \/ empty(x) /\ empty(y)
                             \/ /\ kind = "intrusive" /\ ~empty(x)
                                /\ {x, y} \subseteq Owners_(n, Target(n, x))
          /\ empty(x) /\ ~empty(y) => holds("<")
          /\ \A op \in Relations : holds(op) <=> op \in
               IF holds("==") THEN {"==", "<=", ">="}
               ELSE IF holds("<") THEN {"<", "<=", "!="}
               ELSE {">", ">=", "!="}
StepSound == (Sound(h') /\ ComparesRight(h')) \/ MayBreak(call')

\* An object that is moved survives, in the hands of the pointer it moved to,
\* unless the object it replaced resets that pointer.
MovesOwnership ==
  LET o == Target(h, call'.y)
      replaced == Target(h, call'.x)
  IN  /\ call'.name \in {"move construct", "move assign", "convert"}
      /\ o # Nil
      /\ replaced \in Objects => h.heap[replaced].back = NoPtr
      => /\ h'.heap[o].live /\ Target(h', call'.x) = o
         /\ \/ call'.x = call'.y
            \/ Target(h', call'.y) = IF kind = "clone" /\ replaced # Gone
                                     THEN replaced ELSE Nil
=============================================================================
