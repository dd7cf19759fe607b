--------------------------- MODULE IntrusiveList ---------------------------
(***************************************************************************)
(* gpcl::intrusive_list: rings through nodes that the program owns.  A     *)
(* node in no list is a ring of its own.  s has the links of every node    *)
(* and of every list's head_, which is named as its list, and which nodes  *)
(* and lists exist.  "stack" is the local list of reverse().  The const    *)
(* rend(), which returns end(), and replace(iterator, reference), which    *)
(* does not compile, are left out.                                         *)
(***************************************************************************)
EXTENDS Naturals, Sequences, SequencesExt, FiniteSets

CONSTANTS Heads,    \* the lists of the program
          Items     \* its nodes

VARIABLES links, call

vars == <<links, call>>

Ends == Heads \cup {"stack"}

\* Iteration with ++, which ends at the head, or at the first node seen twice.
RECURSIVE Follow(_, _, _, _)
Follow(s, p, l, seen) ==
  IF p = l \/ p \in seen THEN <<>> ELSE <<p>> \o Follow(s, s.next[p], l, seen \cup {p})
Walk(s, l) == Follow(s, s.next[l], l, {})

-----------------------------------------------------------------------------
init(s, p) == [s EXCEPT !.prev[p] = p, !.next[p] = p]
in_list(s, p) == ~(s.prev[p] = p /\ s.next[p] = p)
empty(s, l) == s.next[l] = l
is_singular(s, l) == ~empty(s, l) /\ s.next[l] = s.prev[l]

insert_between(s, p, prev, next) ==
  [s EXCEPT !.prev[next] = p, !.next[p] = next, !.prev[p] = prev, !.next[prev] = p]
delete_between(s, prev, next) == [s EXCEPT !.prev[next] = prev, !.next[prev] = next]
delete_entry(s, p) == delete_between(s, s.prev[p], s.next[p])


replace_entry(s, old, p) ==
  LET a == [s EXCEPT !.next[p] = s.next[old]]
      b == [a EXCEPT !.prev[a.next[p]] = p]
      c == [b EXCEPT !.prev[p] = b.prev[old]]
      d == [c EXCEPT !.next[c.prev[p]] = p]
  IN  init(d, old)

\* The node leaves whatever list it is in.
push_front(s, l, p) ==
  LET t == delete_entry(s, p) IN insert_between(t, p, l, t.next[l])
push_back(s, l, p) ==
  LET t == delete_entry(s, p) IN insert_between(t, p, t.prev[l], l)
erase(s, p) == init(delete_entry(s, p), p)
pop_front(s, l) == erase(s, s.next[l])
pop_back(s, l) == erase(s, s.prev[l])

RECURSIVE clear(_, _)
clear(s, l) == IF empty(s, l) THEN s ELSE clear(pop_back(s, l), l)

RECURSIVE Unstack(_, _), Stacked(_, _)
Stacked(s, l) ==
  IF empty(s, l) THEN s
  ELSE Stacked(push_back(erase(s, s.next[l]), "stack", s.next[l]), l)
Unstack(s, l) ==
  IF empty(s, "stack") THEN s
  ELSE LET p == s.prev["stack"] IN Unstack(push_back(erase(s, p), l, p), l)
reverse(s, l) == Unstack(Stacked(init(s, "stack"), l), l)

\* exchange(x, y) swaps the links of two nodes, and not those of their neighbours.
exchange(s, p, q) ==
  [s EXCEPT !.prev[p] = s.prev[q], !.prev[q] = s.prev[p],
            !.next[p] = s.next[q], !.next[q] = s.next[p]]

construct(s, l) == [init(s, l) EXCEPT !.live = @ \cup {l}]
move_construct(s, l, o) ==
  IF empty(s, o) THEN construct(s, l) ELSE replace_entry(construct(s, l), o, l)
move_assign(s, l, o) ==
  LET t == clear(s, l)
  IN  IF l = o THEN s ELSE IF empty(t, o) THEN t ELSE replace_entry(t, o, l)
destructor(s, l) == [clear(s, l) EXCEPT !.live = @ \ {l}]

\* The destructor of a node asserts that it is in no list.
node_construct(s, p) == [init(s, p) EXCEPT !.live = @ \cup {p}]
node_destructor(s, p) == [s EXCEPT !.live = @ \ {p}]

-----------------------------------------------------------------------------
Lists(s) == Heads \cap s.live
\* Every list is a ring in both directions of live nodes, in no other list, and
\* a node outside of the lists is a ring of its own.
Sound(s) ==
  /\ \A p \in s.live : s.prev[s.next[p]] = p /\ s.next[s.prev[p]] = p
  /\ \A l \in Lists(s) :
       /\ ToSet(Walk(s, l)) \subseteq Items \cap s.live
       /\ empty(s, l) <=> Walk(s, l) = <<>>
       /\ is_singular(s, l) <=> Len(Walk(s, l)) = 1
  /\ \A p \in Items \cap s.live :
       LET homes == {l \in Lists(s) : p \in ToSet(Walk(s, l))}
       IN  Cardinality(homes) = IF in_list(s, p) THEN 1 ELSE 0

Did(do, name, x, y, v, w) ==
  [do |-> do, name |-> name, x |-> x, y |-> y, tag |-> "list", v |-> v, w |-> w]
Do(c, s) == call' = c /\ links' = s
Held(l) == Walk(links, l)
Alive == Lists(links)
Here == Items \cap links.live
Home(p) == {l \in Alive : p \in ToSet(Held(l))}
Without(c, p) == SelectSeq(c, LAMBDA q : q # p)

\* A node p that is put into list l leaves the list y that it was in.
Push(name, l, p, v, s) ==
  IF Home(p) \subseteq {l} THEN Do(Did("put", name, l, l, v, <<>>), s)
  ELSE \E y \in Home(p) : Do(Did("both", name, l, y, v, Without(Held(y), p)), s)

Construct == \E l \in Heads \ Alive :
  Do(Did("put", "construct", l, l, <<>>, <<>>), construct(links, l))
MoveConstruct == \E l \in Heads \ Alive, o \in Alive :
  Do(Did("move", "move construct", l, o, <<>>, <<>>), move_construct(links, l, o))
MoveAssign == \E l, o \in Alive :
  Do(Did(IF l = o THEN "look" ELSE "move", "move assign", l, o, <<>>, <<>>),
     move_assign(links, l, o))
PushFront == \E l \in Alive, p \in Here :
  Push("push", l, p, <<p>> \o Without(Held(l), p), push_front(links, l, p))
PushBack == \E l \in Alive, p \in Here :
  Push("push", l, p, Without(Held(l), p) \o <<p>>, push_back(links, l, p))
Pop == \E l \in Alive :
  /\ ~empty(links, l)
  /\ \/ Do(Did("put", "pop", l, l, Tail(Held(l)), <<>>), pop_front(links, l))
     \/ Do(Did("put", "pop", l, l, Front(Held(l)), <<>>), pop_back(links, l))
Erase == \E l \in Alive : \E p \in ToSet(Held(l)) :
  Do(Did("put", "erase", l, l, Without(Held(l), p), <<>>), erase(links, p))
Replace == \E l \in Alive : \E old \in ToSet(Held(l)), p \in Here :
  /\ Home(p) = {}
  /\ Do(Did("put", "replace", l, l,
            [k \in DOMAIN Held(l) |-> IF Held(l)[k] = old THEN p ELSE Held(l)[k]], <<>>),
        replace_entry(links, old, p))
Clear == \E l \in Alive :
  Do(Did("put", "clear", l, l, <<>>, <<>>), clear(links, l))
Reversed == \E l \in Alive :
  Do(Did("put", "reverse", l, l, Reverse(Held(l)), <<>>), reverse(links, l))
Exchange == \E l \in Alive : \E p, q \in ToSet(Held(l)) :
  LET other == [k \in DOMAIN Held(l) |->
                  CASE Held(l)[k] = p -> q [] Held(l)[k] = q -> p [] OTHER -> Held(l)[k]]
  IN  Do(Did("put", "exchange", l, l, other, <<>>), exchange(links, p, q))
Destroy == \E l \in Alive :
  Do(Did("drop", "destroy", l, l, <<>>, <<>>), destructor(links, l))
NodeLife == \E p \in Items, l \in Alive :
  \/ p \notin Here /\ Do(Did("look", "node", l, l, <<>>, <<>>), node_construct(links, p))
  \/ /\ p \in Here /\ ~in_list(links, p)
     /\ Do(Did("look", "node", l, l, <<>>, <<>>), node_destructor(links, p))

Init ==
  /\ links = [prev |-> [p \in Ends \cup Items |-> p], next |-> [p \in Ends \cup Items |-> p],
              live |-> {}]
  /\ call = Did("drop", "start", "", "", <<>>, <<>>)
Next ==
  /\ Sound(links)
  /\ \/ Construct \/ MoveConstruct \/ MoveAssign \/ PushFront \/ PushBack \/ Pop \/ Erase
     \/ Replace \/ Clear \/ Reversed \/ Exchange \/ Destroy \/ NodeLife
Spec == Init /\ [][Next]_vars

-----------------------------------------------------------------------------
\* Only exchange() breaks the rings: of any two different nodes.
StepSound == Sound(links') \/ (call'.name = "exchange" /\ links' # links)
MovedFrom(c) == {[c EXCEPT !.v = <<>>]}
Weak(c) == FALSE
=============================================================================
