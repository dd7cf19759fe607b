------------------------------- MODULE Lists -------------------------------
(***************************************************************************)
(* gpcl::list: a ring of nodes through a sentinel that is a member of the  *)
(* list object, with size_ beside it.  The state n has the links of every  *)
(* node and sentinel (prev, next), the value in every node (Dead when the  *)
(* node does not exist), and size and allocator of every list.  Iterators  *)
(* are nodes; a sentinel is named as its list.                             *)
(*                                                                         *)
(* The elements' copy constructor and assignment may throw: n.budget is    *)
(* how many copies succeed before one throws.  insert(pos, count, value)   *)
(* does not compile, so it, resize(count, value) and the constructor that  *)
(* calls it are left out.                                                  *)
(***************************************************************************)
EXTENDS Integers, Sequences, SequencesExt, FiniteSets

CONSTANTS
  Lists,       \* the lists of the program
  Nodes,       \* the nodes of the heap
  Values,      \* the values of elements: naturals; 0 is Moved
  Allocators   \* the values of allocators, naturals

VARIABLES
  n,           \* links, values, sizes, allocators, budget, exception, fault
  tr,          \* pocca, pocma: does assignment propagate the allocator
  call         \* the last call

vars == <<n, tr, call>>

Dead == -1        \* a node without an element
Moved == 0        \* an element whose value was moved out
NoList == 0       \* the allocator of a list that does not exist

\* Iteration with ++, which ends at last, or at the first node seen twice.
RECURSIVE Range_(_, _, _, _)
Range_(s, p, last, seen) ==
  IF p = last \/ p \in seen THEN <<>>
  ELSE <<p>> \o Range_(s, s.next[p], last, seen \cup {p})
Between(s, first, last) == Range_(s, first, last, {})
Walk(s, l) == Between(s, s.next[l], l)
Elements(s, nodes) == [k \in DOMAIN nodes |-> s.val[nodes[k]]]
Content(s, l) == Elements(s, Walk(s, l))

begin(s, l) == s.next[l]
end(l) == l
Failed(s) == s.exc \/ s.fault # ""

-----------------------------------------------------------------------------
\* emplace: create_node gives the memory back when the element throws, before
\* any link has changed.
Fresh(s) == CHOOSE p \in Nodes : s.val[p] = Dead
emplace(s, l, pos, v) ==
  LET p == Fresh(s)
      prev == s.prev[pos]
  IN  IF Failed(s) THEN s
      ELSE IF s.budget = 0 THEN [s EXCEPT !.exc = TRUE]
      ELSE [s EXCEPT !.val[p] = v, !.prev[p] = prev, !.next[p] = pos,
                     !.next[prev] = p, !.prev[pos] = p,
                     !.size[l] = @ + 1, !.budget = @ - 1]

\* destroy_node
destroy_node(s, p) == [s EXCEPT !.val[p] = Dead, !.prev[p] = p, !.next[p] = p]
Join(s, a, b) == [s EXCEPT !.next[a] = b, !.prev[b] = a]

erase(s, l, p) ==
  [Join(destroy_node(s, p), s.prev[p], s.next[p]) EXCEPT !.size[l] = @ - 1]

\* Mutant of erase_range: the link back from last is forgotten.
EraseForwardOnly(s, l, first, last) ==
  LET gone == Between(s, first, last)
  IN  [FoldLeft(destroy_node, s, gone) EXCEPT
         !.next[s.prev[first]] = last, !.size[l] = @ - Len(gone)]

erase_range(s, l, first, last) ==
  LET gone == Between(s, first, last)
  IN  [Join(FoldLeft(destroy_node, s, gone), s.prev[first], last)
         EXCEPT !.size[l] = @ - Len(gone)]
clear(s, l) == IF Failed(s) THEN s ELSE erase_range(s, l, begin(s, l), end(l))

\* Mutant of insert_range: what was inserted before the throw stays.
InsertNotUndone(s, l, pos, vs) ==
  LET Add(r, v) == LET t == emplace(r.s, l, r.pos, v)
                   IN  [s |-> t, pos |-> IF t.exc THEN r.pos ELSE t.prev[r.pos]]
  IN  FoldLeft(Add, [s |-> s, pos |-> pos], Reverse(vs)).s

\* insert(pos, first, last) inserts backwards, each element before the last one;
\* when one throws it erases those it has inserted.
insert_range(s, l, pos, vs) ==
  LET Add(r, v) == LET t == emplace(r.s, l, r.pos, v)
                   IN  [s |-> t, pos |-> IF t.exc THEN r.pos ELSE t.prev[r.pos]]
      r == FoldLeft(Add, [s |-> s, pos |-> pos], Reverse(vs))
  IN  IF ~s.exc /\ r.s.exc THEN erase_range(r.s, l, r.pos, pos) ELSE r.s

\* resize(count) keeps what it has appended when one throws.
RECURSIVE resize(_, _, _)
resize(s, l, count) ==
  IF Failed(s) \/ s.size[l] = count THEN s
  ELSE IF s.size[l] < count THEN resize(emplace(s, l, end(l), 1), l, count)
  ELSE resize(erase(s, l, s.prev[l]), l, count)

\* splice(pos, other, first, last): the range is unlinked, then linked in.
splice(s, l, pos, o, first, last) ==
  LET count == IF l = o THEN 0 ELSE Len(Between(s, first, last))
      node_last == s.prev[last]
      out == Join([s EXCEPT !.size[o] = @ - count], s.prev[first], last)
      pos_prev_node == out.prev[pos]
      in == [out EXCEPT !.size[l] = @ + count,
                        !.prev[first] = pos_prev_node, !.next[node_last] = pos]
  IN  IF Failed(s) THEN s
      ELSE IF s.alloc[l] # s.alloc[o] THEN [s EXCEPT !.fault = "assert"]
      ELSE [in EXCEPT !.next[pos_prev_node] = first, !.prev[pos] = node_last]
splice_all(s, l, pos, o) == splice(s, l, pos, o, begin(s, o), end(o))
splice_one(s, l, pos, o, it) == splice(s, l, pos, o, it, s.next[it])

\* list_node::swap on the sentinels, one assignment after the other.
swap(s, x, y) ==
  LET out == [[s EXCEPT !.prev[x] = s.prev[y], !.next[x] = s.next[y]]
                EXCEPT !.next[s.prev[x]] = y, !.prev[s.next[x]] = y]
      in == [out EXCEPT !.next[s.prev[y]] = x, !.prev[s.next[y]] = x]
  IN  IF x = y THEN s
      ELSE [in EXCEPT !.prev[y] = s.prev[x], !.next[y] = s.next[x],
                      !.size[x] = s.size[y], !.size[y] = s.size[x]]

\* sort(): whatever is less than *i goes before it and takes its place.
RECURSIVE SortFrom(_, _, _, _)
SortFrom(s, l, i, j) ==
  IF i = end(l) THEN s
  ELSE IF j = end(l) THEN SortFrom(s, l, s.next[i], s.next[s.next[i]])
  ELSE IF s.val[j] < s.val[i] THEN SortFrom(splice_one(s, l, i, l, j), l, j, s.next[j])
  ELSE SortFrom(s, l, i, s.next[j])
sort(s, l) == SortFrom(s, l, begin(s, l), s.next[begin(s, l)])

-----------------------------------------------------------------------------
\* Constructors.  list(a) is complete when the body of one runs, so that a body
\* that throws ends in the destructor.
empty_list(s, x, a) ==
  [s EXCEPT !.alloc[x] = a, !.size[x] = 0, !.prev[x] = x, !.next[x] = x]
destructor(s, x) == [clear([s EXCEPT !.exc = FALSE], x) EXCEPT !.alloc[x] = NoList, !.exc = s.exc]
Constructed(s, x) == IF s.exc THEN destructor(s, x) ELSE s
range_construct(s, x, vs, a) ==
  Constructed(insert_range(empty_list(s, x, a), x, end(x), vs), x)
fill_construct(s, x, count, a) == Constructed(resize(empty_list(s, x, a), x, count), x)
copy_construct(s, x, y, a) == range_construct(s, x, Content(s, y), a)
move_construct(s, x, y) == splice_all(empty_list(s, x, s.alloc[y]), x, end(x), y)

\* push_back(T &&) copies its argument.
push_back_all(s, x, vs) == FoldLeft(LAMBDA t, v : emplace(t, x, end(x), v), s, vs)
move_construct_alloc(s, x, y, a) ==
  IF a # s.alloc[y] THEN Constructed(push_back_all(empty_list(s, x, a), x, Content(s, y)), x)
  ELSE splice_all(empty_list(s, x, a), x, end(x), y)

\* The elements assigned one by one until either list ends: the state, and how
\* far it got.
Overwrite(s, x, y, how) ==
  LET xs == Walk(s, x)
      ys == Walk(s, y)
      k == IF Len(xs) < Len(ys) THEN Len(xs) ELSE Len(ys)
      Put(t, i) ==
        CASE Failed(t) -> t
          [] ~Failed(t) /\ t.budget = 0 -> [t EXCEPT !.exc = TRUE]
          [] OTHER ->
               LET moved == IF how = "move" THEN [t EXCEPT !.val[ys[i]] = Moved] ELSE t
               IN  [moved EXCEPT !.val[xs[i]] = t.val[ys[i]], !.budget = @ - 1]
  IN  FoldLeft(Put, s, [i \in 1..k |-> i])

\* What remains of x after its first k elements is erased.
EraseAfter(s, x, k) ==
  IF Failed(s) \/ Len(Walk(s, x)) <= k THEN s
  ELSE erase_range(s, x, Walk(s, x)[k + 1], end(x))

\* With an allocator that propagates, splicing the copy, which has the other
\* allocator already, fails the assertion of splice.
copy_assign(s, x, y) ==
  IF tr.pocca /\ s.alloc[x] # s.alloc[y]
  THEN IF s.budget < s.size[y] THEN [s EXCEPT !.exc = TRUE]
       ELSE [s EXCEPT !.fault = "assert"]
  ELSE LET t == Overwrite(s, x, y, "copy")
       IN  IF s.size[x] < s.size[y]
           THEN insert_range(t, x, end(x), SubSeq(Content(s, y), s.size[x] + 1, s.size[y]))
           ELSE EraseAfter(t, x, s.size[y])

move_assign(s, x, y) ==
  LET p == IF tr.pocma THEN [clear(s, x) EXCEPT !.alloc[x] = s.alloc[y]] ELSE s
      t == Overwrite(p, x, y, "move")
  IN  IF p.alloc[x] = p.alloc[y] THEN splice_all(clear(p, x), x, end(x), y)
      ELSE IF p.size[x] < p.size[y]
      THEN push_back_all(t, x, SubSeq(Content(p, y), p.size[x] + 1, p.size[y]))
      ELSE EraseAfter(t, x, p.size[y])

\* operator== compares the sizes first, operator< is lexicographic.
equal(s, x, y) ==
  s.size[x] = s.size[y] /\ \A k \in 1..s.size[x] : Content(s, x)[k] = Content(s, y)[k]
less(s, x, y) ==
  LET a == Content(s, x)
      b == Content(s, y)
      Same(k) == \A i \in 1..k : i \in DOMAIN a /\ i \in DOMAIN b /\ a[i] = b[i]
  IN  \E k \in 0..Len(a) :
        Same(k) /\ IF k = Len(a) THEN k < Len(b)
                   ELSE k < Len(b) /\ a[k + 1] < b[k + 1]

-----------------------------------------------------------------------------
(* The calls of a program.  call says what Holder has to know of a call; v *)
(* and w are what it should leave in x and y.                              *)

\* Every list is a ring in both directions of as many live nodes as size_ says,
\* no node is in two of them, and every live node is in one.
Exist(s) == {l \in Lists : s.alloc[l] # NoList}
Sound(s) ==
  /\ s.fault = ""
  /\ \A l \in Exist(s) :
       LET w == Walk(s, l)
           at(k) == IF k \in DOMAIN w THEN w[k] ELSE l
       IN  /\ Len(w) = s.size[l]
           /\ \A k \in 0..Len(w) : s.prev[at(k + 1)] = at(k) /\ s.next[at(k)] = at(k + 1)
           /\ ToSet(w) \subseteq {p \in Nodes : s.val[p] # Dead}
  /\ \A p \in Nodes : s.val[p] # Dead =>
       Cardinality({l \in Exist(s) : p \in ToSet(Walk(s, l))}) = 1

Did(do, name, x, y, v, w) ==
  [do |-> do, name |-> name, x |-> x, y |-> y, tag |-> "list", v |-> v, w |-> w]
Do(c, s) == call' = c /\ n' = s /\ UNCHANGED tr

Alive == Exist(n)
Unborn == Lists \ Alive
Free == Cardinality({p \in Nodes : n.val[p] = Dead})
\* A call that makes up to k copies, any of which may throw.
Start(b) == [n EXCEPT !.exc = FALSE, !.budget = b]
Copying(k) == IF k <= Free THEN {Start(b) : b \in 0..k} ELSE {}
Quiet == Start(0)

Places(l) == ToSet(Walk(n, l)) \cup {l}
Index(l, p) == IF p = l THEN n.size[l] + 1 ELSE CHOOSE k \in 1..n.size[l] : Walk(n, l)[k] = p
Inserted(c, i, vs) == SubSeq(c, 1, i - 1) \o vs \o SubSeq(c, i, Len(c))
Cut(c, i, j) == SubSeq(c, 1, i - 1) \o SubSeq(c, j, Len(c))
Short == BoundedSeq(Values, 2)

Empty == \E x \in Unborn, a \in Allocators :
  Do(Did("put", "empty", x, x, <<>>, <<>>), empty_list(Quiet, x, a))
FromRange == \E x \in Unborn, a \in Allocators, vs \in Short : \E s \in Copying(Len(vs)) :
  Do(Did("put", "range", x, x, vs, <<>>), range_construct(s, x, vs, a))
Fill == \E x \in Unborn, a \in Allocators, k \in 0..2 : \E s \in Copying(k) :
  Do(Did("put", "fill", x, x, [i \in 1..k |-> 1], <<>>), fill_construct(s, x, k, a))
CopyConstruct == \E x \in Unborn, y \in Alive, a \in Allocators : \E s \in Copying(n.size[y]) :
  Do(Did("copy", "copy construct", x, y, <<>>, <<>>), copy_construct(s, x, y, a))
MoveConstruct == \E x \in Unborn, y \in Alive :
  Do(Did("move", "move construct", x, y, <<>>, <<>>), move_construct(Quiet, x, y))
MoveWith == \E x \in Unborn, y \in Alive, a \in Allocators : \E s \in Copying(n.size[y]) :
  Do(Did("move", "move construct", x, y, <<>>, <<>>), move_construct_alloc(s, x, y, a))
CopyAssign == \E x, y \in Alive : \E s \in Copying(n.size[y]) :
  Do(Did("copy", "copy assign", x, y, <<>>, <<>>), copy_assign(s, x, y))
MoveAssign == \E x, y \in Alive : \E s \in Copying(n.size[y]) :
  Do(Did("move", "move assign", x, y, <<>>, <<>>), move_assign(s, x, y))
Insert == \E x \in Alive, v \in Values : \E p \in Places(x), s \in Copying(1) :
  Do(Did("put", "insert", x, x, Inserted(Content(n, x), Index(x, p), <<v>>), <<>>),
     emplace(s, x, p, v))
InsertRange == \E x \in Alive, vs \in Short : \E p \in Places(x), s \in Copying(Len(vs)) :
  Do(Did("put", "insert range", x, x, Inserted(Content(n, x), Index(x, p), vs), <<>>),
     insert_range(s, x, p, vs))
Resize == \E x \in Alive, k \in 0..2 : \E s \in Copying(k) :
  Do(Did("put", "resize", x, x,
         [i \in 1..k |-> IF i <= n.size[x] THEN Content(n, x)[i] ELSE 1], <<>>),
     resize(s, x, k))
Erase == \E x \in Alive : \E p \in Places(x) \ {x} :
  Do(Did("put", "erase", x, x, Cut(Content(n, x), Index(x, p), Index(x, p) + 1), <<>>),
     erase(Quiet, x, p))
EraseRange == \E x \in Alive : \E p, q \in Places(x) :
  /\ Index(x, p) <= Index(x, q)
  /\ Do(Did("put", "erase range", x, x, Cut(Content(n, x), Index(x, p), Index(x, q)), <<>>),
        erase_range(Quiet, x, p, q))
Swap == \E x, y \in Alive :
  /\ n.alloc[x] = n.alloc[y]
  /\ Do(Did("swap", "swap", x, y, <<>>, <<>>), swap(Quiet, x, y))

Splicing(i, j) == IF i = j THEN "splice nothing" ELSE "splice"

\* splice of all, of one element or of a range, out of y into another list x.
Splice == \E x, y \in Alive : \E pos \in Places(x), p, q \in Places(y) :
  LET i == Index(y, p)
      j == Index(y, q)
      range == SubSeq(Content(n, y), i, j - 1)
  IN  /\ x # y /\ n.alloc[x] = n.alloc[y] /\ i <= j
      /\ Do(Did("both", Splicing(i, j), x, y, Inserted(Content(n, x), Index(x, pos), range),
                Cut(Content(n, y), i, j)),
            splice(Quiet, x, pos, y, p, q))
\* The same within one list; pos is outside of the range.
SpliceWithin == \E x \in Alive : \E pos, p, q \in Places(x) :
  LET i == Index(x, p)
      j == Index(x, q)
      k == Index(x, pos)
      range == SubSeq(Content(n, x), i, j - 1)
      rest == Cut(Content(n, x), i, j)
  IN  /\ i <= j /\ k \notin i..(j - 1)
      /\ Do(Did("put", Splicing(i, j), x, x,
                Inserted(rest, IF k < i THEN k ELSE k - (j - i), range), <<>>),
            splice(Quiet, x, pos, x, p, q))
Sort == \E x \in Alive :
  Do(Did("put", "sort", x, x, SortSeq(Content(n, x), <), <<>>), sort(Quiet, x))
Destroy == \E x \in Alive :
  Do(Did("drop", "destroy", x, x, <<>>, <<>>), destructor(Quiet, x))

Init ==
  /\ n = [prev |-> [p \in Lists \cup Nodes |-> p], next |-> [p \in Lists \cup Nodes |-> p],
          val |-> [p \in Nodes |-> Dead], size |-> [l \in Lists |-> 0],
          alloc |-> [l \in Lists |-> NoList], budget |-> 0, exc |-> FALSE, fault |-> ""]
  /\ tr \in [pocca : BOOLEAN, pocma : BOOLEAN]
  /\ call = Did("drop", "start", "", "", <<>>, <<>>)
Next ==
  /\ Sound(n)
  /\ \/ Empty \/ FromRange \/ Fill \/ CopyConstruct \/ MoveConstruct \/ MoveWith
     \/ CopyAssign \/ MoveAssign \/ Insert \/ InsertRange \/ Resize \/ Erase
     \/ EraseRange \/ Swap \/ Splice \/ SpliceWithin \/ Sort \/ Destroy
Spec == Init /\ [][Next]_vars

-----------------------------------------------------------------------------
\* The calls that break the rings: splicing an empty range, which links the
\* other list's sentinel or a node already linked, moving an empty list by way
\* of it, swapping with an empty list, and copy assignment between allocators
\* that propagate.
Vacant(l) == n.size[l] = 0
MayBreak(c) ==
  \/ c.name = "splice nothing"
  \/ c.name \in {"move construct", "move assign"} /\ Vacant(c.y) /\ c.x # c.y
  \/ c.name = "swap" /\ (Vacant(c.x) \/ Vacant(c.y)) /\ c.x # c.y
  \/ c.name = "copy assign" /\ tr.pocca /\ n.alloc[c.x] # n.alloc[c.y]
StepSound == Sound(n') \/ MayBreak(call')

\* The source of a move is empty, or it has its elements or what is left of them.
MovedFrom(c) ==
  {c, [c EXCEPT !.v = <<>>]} \cup
  {[c EXCEPT !.v = [k \in DOMAIN @ |-> IF k <= i THEN Moved ELSE @[k]]] : i \in 1..Len(c.v)}
Weak(c) == c.name \in {"copy assign", "move assign", "resize"}

\* operator== holds between lists with the same elements, and operator< orders
\* any two others.
ComparesRight ==
  \A x, y \in Alive :
    LET same == Content(n, x) = Content(n, y)
    IN  /\ equal(n, x, y) <=> same
        /\ same => ~less(n, x, y)
        /\ ~same => (less(n, x, y) <=> ~less(n, y, x))
============================================================================
