----------------------------- MODULE JsonValue -----------------------------
(***************************************************************************)
(* json::value: a variant of null, integer, string, array and object, in   *)
(* which a string, array or object is held in place or through a           *)
(* shared_ptr<const T> that copies share.  Copies are made lazily: a copy  *)
(* of a container in place is put into shared memory, and whoever wants to *)
(* change a shared container copies it back in place first.                *)
(*                                                                         *)
(* A value is <<type, rep, payload>>, rep being "own" or "ptr".  A         *)
(* container in place is a sequence of entries <<key, value>>; the entries *)
(* of an array have key 0, those of a string have null values.  The        *)
(* payload of a "ptr" is the address of a block of the heap, 0 when the    *)
(* pointer was moved from.  A failed call has thrown: failed.              *)
(*                                                                         *)
(* The const get_if, get, front, back, begin and end, pop_back and the     *)
(* erase functions that take an iterator do not compile and are left out.  *)
(***************************************************************************)
EXTENDS Naturals, Sequences, SequencesExt, FiniteSets

CONSTANTS Vars,       \* the values of the program
          Blocks,     \* the addresses of shared memory: 1..n
          Keys,       \* the keys of objects: naturals
          MaxWeight   \* bound on the entries of all containers, at every level

VARIABLES j, call     \* j: data_ of every value, heap and failed

vars == <<j, call>>

Null == <<"null", "own", <<>>>>
IntVal(k) == <<"int", "own", << <<k, Null>> >> >>
Own(ty, entries) == <<ty, "own", entries>>
Ptr(ty, b) == <<ty, "ptr", b>>
Containers == {"str", "arr", "obj"}
IsContainer(v) == v[1] \in Containers
Owned(v) == IsContainer(v) /\ v[2] = "own"
MovedOff(v) == v[2] = "ptr" /\ v[3] = 0
Shared(v) == v[2] = "ptr" /\ v[3] # 0
Entries(heap, v) == IF Shared(v) THEN heap[v[3]] ELSE v[3]

\* dereference_ptr, at every level: what a value is, whoever holds it.
RECURSIVE Meaning(_, _)
Meaning(heap, v) ==
  IF ~IsContainer(v) THEN v ELSE IF MovedOff(v) THEN Own(v[1], <<>>)
  ELSE Own(v[1], FoldLeft(LAMBDA es, e : Append(es, <<e[1], Meaning(heap, e[2])>>),
                          <<>>, Entries(heap, v)))

\* operator==: of what the two values point to or have in place.
RECURSIVE equal(_, _, _)
equal(heap, v, w) ==
  LET a == Entries(heap, v)
      b == Entries(heap, w)
  IN  /\ v[1] = w[1]
      /\ ~IsContainer(v) => v = w
      /\ IsContainer(v) =>
           /\ Len(a) = Len(b)
           /\ \A i \in DOMAIN a : a[i][1] = b[i][1] /\ equal(heap, a[i][2], b[i][2])

-----------------------------------------------------------------------------
\* Memory: a block can be allocated again when nothing refers to it.
RECURSIVE Reach(_, _)
Reach(heap, v) ==
  IF ~IsContainer(v) \/ MovedOff(v) THEN {}
  ELSE LET es == Entries(heap, v)
       IN  UNION ({IF Shared(v) THEN {v[3]} ELSE {}} \cup {Reach(heap, es[i][2]) : i \in DOMAIN es})
InUse(s) == UNION {Reach(s.heap, s.data[x]) : x \in Vars} \cup s.temp
Room(s) == Blocks \ InUse(s)

\* The copy constructor of value: clone_visitor.  The copy constructor of a
\* container copies its entries.  The result is the state and the copy.
Allocate(s, ty, entries, room) ==
  IF room = {} THEN [s |-> [s EXCEPT !.full = TRUE], v |-> Null]
  ELSE LET b == CHOOSE b \in room : TRUE
       IN  [s |-> [s EXCEPT !.heap[b] = entries, !.temp = @ \cup {b}], v |-> Ptr(ty, b)]
Share(r, ty) == Allocate(r.s, ty, r.v, Room(r.s))
With(r, key, c) == [s |-> c.s, v |-> Append(r.v, <<key, c.v>>)]
RECURSIVE clone(_, _), CopyEntries(_, _)
clone(s, v) ==
  IF ~Owned(v) THEN [s |-> s, v |-> v] ELSE Share(CopyEntries(s, v[3]), v[1])
CopyEntries(s, entries) ==
  FoldLeft(LAMBDA r, e : With(r, e[1], clone(r.s, e[2])), [s |-> s, v |-> <<>>], entries)

\* cow_visitor: a shared container is copied in place, whatever is asked of it.
InPlace(r, ty) == [s |-> r.s, v |-> Own(ty, r.v)]
cow(s, v) ==
  IF ~Shared(v) THEN [s |-> s, v |-> v] ELSE InPlace(CopyEntries(s, s.heap[v[3]]), v[1])
Set(s, x, v) == [s EXCEPT !.data[x] = v]
Store(r, x) == Set(r.s, x, r.v)
Unshared(s, x) == Store(cow(s, s.data[x]), x)
Fail(s) == [s EXCEPT !.failed = TRUE]

\* get<T>(): get_if<T>() goes through cow_visitor, then the type is looked at.
Typed(s, x, types) == IF s.data[x][1] \in types THEN s ELSE Fail(s)
get(s, x, ty) == Typed(Unshared(s, x), x, {ty})

\* Entries written to a container: in place, or where its pointer points to.
Write(s, x, entries) ==
  IF Shared(s.data[x]) THEN [s EXCEPT !.heap[s.data[x][3]] = entries]
  ELSE Set(s, x, Own(s.data[x][1], entries))
Held(s, x) == Entries(s.heap, s.data[x])

\* The position of a key in an object, or 0.
Find(entries, key) ==
  IF \E i \in DOMAIN entries : entries[i][1] = key
  THEN CHOOSE i \in DOMAIN entries : entries[i][1] = key ELSE 0
\* std::map::insert keeps the entry that is there.
Insert(entries, key, v) ==
  IF Find(entries, key) # 0 THEN entries
  ELSE SelectSeq(entries, LAMBDA e : e[1] < key) \o << <<key, v>> >> \o
       SelectSeq(entries, LAMBDA e : e[1] > key)

-----------------------------------------------------------------------------
\* value(const value &), operator=(const value &)
copy(s, x, y) == IF x = y THEN s ELSE Store(clone(s, s.data[y]), x)
\* value(value &&): the variant constructs its alternative from the other's with
\* braces, and vector<value>{std::move(a)} is the vector whose only element is a.
\* The result is the state, the new value and what the old one is left with.
Wrap(c) ==
  [s |-> [c.s EXCEPT !.wrapped = TRUE], v |-> Own("arr", << <<0, c.v>> >>), left |-> Own("arr", <<>>)]
move(s, v) ==
  CASE ~IsContainer(v) -> [s |-> s, v |-> v, left |-> v]
    [] v[2] = "ptr" -> [s |-> s, v |-> v, left |-> Ptr(v[1], 0)]
    [] Owned(v) /\ v[1] = "arr" -> Wrap(clone(s, v))
    [] OTHER -> [s |-> s, v |-> v, left |-> Own(v[1], <<>>)]
MovedOut(m, y) == [s |-> Set(m.s, y, m.left), v |-> m.v]
move_construct(s, x, y) == Store(MovedOut(move(s, s.data[y]), y), x)
\* A vector that grows beyond its capacity moves its elements.
Reallocate(s, entries) ==
  FoldLeft(LAMBDA r, e : With(r, e[1], move(r.s, e[2])), [s |-> s, v |-> <<>>], entries)
\* operator=(value &&), by way of variant, copies.
CopyAlternative(s, v) ==
  IF ~Owned(v) THEN [s |-> s, v |-> v] ELSE InPlace(CopyEntries(s, v[3]), v[1])
move_assign(s, x, y) == IF x = y THEN s ELSE Store(CopyAlternative(s, s.data[y]), x)

\* push_back(const value &) and push_back(value &&) of y; the vector is full or not.
\* c is the state and the new element, r the state and the vector's elements.
Grown(s, x, full) ==
  IF full THEN Reallocate(s, Held(s, x)) ELSE [s |-> s, v |-> Held(s, x)]
WithLast(r, x, v) == Write(r.s, x, Append(r.v, <<0, v>>))
Pushed(c, x, full) == WithLast(Grown(c.s, x, full), x, c.v)
PushCopy(g, x, y, full) == IF g.failed THEN g ELSE Pushed(clone(g, g.data[y]), x, full)
push_back(s, x, y, full) == PushCopy(get(s, x, "arr"), x, y, full)
PushMove(g, x, y, full) ==
  IF g.failed THEN g ELSE Pushed(MovedOut(move(g, g.data[y]), y), x, full)
push_back_moved(s, x, y, full) == PushMove(get(s, x, "arr"), x, y, full)
\* push_back(ch) of a character.
PushCharacter(g, x, ch) == IF g.failed THEN g ELSE Write(g, x, Append(Held(g, x), <<ch, Null>>))
push_back_char(s, x, ch) == PushCharacter(get(s, x, "str"), x, ch)

\* insert(key, value): the pair is made before the object is looked up.
InsertPair(g, x, key, v) == IF g.failed THEN g ELSE Write(g, x, Insert(Held(g, x), key, v))
InsertCopy(c, x, key) == InsertPair(get(c.s, x, "obj"), x, key, c.v)
insert(s, x, key, y) == InsertCopy(clone(s, s.data[y]), x, key)

\* at(i) = k and operator[](key) = k, through a reference to the entry; at()
\* throws beyond the end, operator[] makes an entry.
HasEntry(g, x, i) == g.data[x][1] = "arr" /\ i \in DOMAIN Held(g, x)
AtIs(g, x, i, k) ==
  IF HasEntry(g, x, i) THEN Write(g, x, [Held(g, x) EXCEPT ![i] = <<0, IntVal(k)>>]) ELSE Fail(g)
at(s, x, i, k) == AtIs(Unshared(s, x), x, i, k)
\* at(i).push_back(k): the element is copied in place, too.
EntryPushed(g, x, i, k) ==
  IF g.data[x][3][i][2][1] # "arr" THEN Fail(g)
  ELSE [g EXCEPT !.data[x][3][i][2][3] = Append(@, <<0, IntVal(k)>>)]
EntryStored(e, x, i) == [e.s EXCEPT !.data[x][3][i] = <<0, e.v>>]
AtPushed(g, x, i, k) ==
  IF HasEntry(g, x, i)
  THEN EntryPushed(EntryStored(cow(g, Held(g, x)[i][2]), x, i), x, i, k)
  ELSE Fail(g)
at_push_back(s, x, i, k) == AtPushed(Unshared(s, x), x, i, k)
IndexIn(entries, key, k) == [entries EXCEPT ![Find(entries, key)] = <<key, IntVal(k)>>]
IndexIs(g, x, key, k) ==
  IF g.failed THEN g ELSE Write(g, x, IndexIn(Insert(Held(g, x), key, Null), key, k))
index(s, x, key, k) == IndexIs(get(s, x, "obj"), x, key, k)

Without(entries, pos, count) ==
  IF pos + count > Len(entries) + 1 THEN entries
  ELSE SubSeq(entries, 1, pos - 1) \o SubSeq(entries, pos + count, Len(entries))
\* Mutant of erase: the container is changed where it is, shared or not.
EraseShared(s, x, pos, count) ==
  IF s.data[x][1] \notin {"arr", "str"} THEN Fail(s)
  ELSE Write(s, x, Without(Held(s, x), pos, count))

\* erase(pos, count) of an array or a string, within it, and erase(key).
Erased(g, x, pos, count) ==
  IF g.failed THEN g ELSE Write(g, x, Without(Held(g, x), pos, count))
erase(s, x, pos, count) == Erased(Typed(Unshared(s, x), x, {"arr", "str"}), x, pos, count)
ErasedKey(g, x, key) ==
  IF g.failed THEN g ELSE Write(g, x, SelectSeq(Held(g, x), LAMBDA e : e[1] # key))
erase_key(s, x, key) == ErasedKey(get(s, x, "obj"), x, key)

\* clear() makes an empty alternative of the type behind the pointer.
clear(s, x) ==
  LET v == s.data[x]
  IN  Set(s, x, CASE IsContainer(v) -> Own(v[1], <<>>) [] v[1] = "int" -> IntVal(0) [] OTHER -> Null)

-----------------------------------------------------------------------------
Did(do, name, x, y, tag, v) ==
  [do |-> do, name |-> name, x |-> x, y |-> y, tag |-> tag, v |-> v]
Empty == [i \in Blocks |-> <<>>]
\* Blocks that nothing refers to any more hold nothing of interest.
Settled(s) ==
  LET t == [s EXCEPT !.temp = {}]
      used == InUse(t)
  IN  [t EXCEPT !.heap = [b \in Blocks |-> IF b \in used THEN s.heap[b] ELSE <<>>]]
\* The entries a value has, at every level.
RECURSIVE Weight(_)
Weight(v) == IF ~IsContainer(v) THEN 0
             ELSE FoldLeft(LAMBDA n, e : n + 1 + Weight(e[2]), 0, v[3])
InBounds(s) ==
  /\ ~s.full
  /\ FoldSet(LAMBDA x, n : n + Weight(Meaning(s.heap, s.data[x])), 0, Vars) <= MaxWeight
Do(c, s) == InBounds(s) /\ call' = c /\ j' = Settled(s)
Start == [j EXCEPT !.failed = FALSE]
Exists(x) == j.data[x] # <<"gone", "own", <<>>>>
Alive == {x \in Vars : Exists(x)}
\* A value that may be read: not one that was moved from.
Whole == {x \in Alive : ~MovedOff(j.data[x])}
Of(x) == Meaning(j.heap, j.data[x])
Flat(v) == \A i \in DOMAIN v[3] : ~IsContainer(v[3][i][2])
\* A value that may go into a container, so that the nesting stays bounded.
Fits(x) == j.data[x][1] = "int" \/ (IsContainer(j.data[x]) /\ Flat(Of(x)))

\* A call that leaves in x the entries E of its container, if it has type ty.
Changes(name, x, types, E, s) ==
  Do(Did(IF j.data[x][1] \in types THEN "put" ELSE "look", name, x, x, j.data[x][1], E), s)
Replaced(entries, i, e) == IF i \in DOMAIN entries THEN [entries EXCEPT ![i] = e] ELSE entries
OldEntries(x) == IF IsContainer(j.data[x]) THEN Of(x)[3] ELSE <<>>

Fresh == {Null, IntVal(0), Own("str", <<>>), Own("arr", <<>>), Own("obj", <<>>)}
\* operator=(integer_type), operator=(array_type) and the like: also of a value that
\* was moved from.
Assign == \E x \in Alive, v \in Fresh :
  Do(Did("put", "assign", x, x, v[1], v[3]), Set(Start, x, v))
Construct == \E x \in Vars \ Alive, v \in Fresh :
  Do(Did("put", "construct", x, x, v[1], v[3]), Set(Start, x, v))
CopyConstruct == \E x \in Vars \ Alive, y \in Whole :
  Do(Did("copy", "copy construct", x, y, "", <<>>), copy(Start, x, y))
CopyAssign == \E x \in Alive, y \in Whole :
  Do(Did("copy", "copy assign", x, y, "", <<>>), copy(Start, x, y))
MoveConstruct == \E x \in Vars \ Alive, y \in Whole :
  Do(Did("move", "move construct", x, y, "", <<>>), move_construct(Start, x, y))
MoveAssign == \E x \in Alive, y \in Whole :
  Do(Did("copy", "move assign", x, y, "", <<>>), move_assign(Start, x, y))
PushBack == \E x, y \in Whole, full \in BOOLEAN :
  /\ Fits(y) /\ (full => j.data[x][1] = "arr")
  /\ Changes("push_back", x, {"arr"}, Append(OldEntries(x), <<0, Of(y)>>),
             push_back(Start, x, y, full))
PushMoved == \E x, y \in Whole, full \in BOOLEAN :
  /\ x # y /\ Fits(y) /\ (full => j.data[x][1] = "arr")
  /\ Do([Did(IF j.data[x][1] = "arr" THEN "give" ELSE "look", "push_back moved", x, y, "arr",
             Append(OldEntries(x), <<0, Of(y)>>)) EXCEPT !.x = x],
        push_back_moved(Start, x, y, full))
PushChar == \E x \in Whole :
  Changes("push_back char", x, {"str"}, Append(OldEntries(x), <<1, Null>>),
          push_back_char(Start, x, 1))
InsertKey == \E x, y \in Whole, key \in Keys :
  /\ Fits(y)
  /\ Changes("insert", x, {"obj"}, Insert(OldEntries(x), key, Of(y)), insert(Start, x, key, y))
At == \E x \in Whole : \E i \in 1..2 :
  Changes("at", x, IF i <= Len(OldEntries(x)) THEN {"arr"} ELSE {},
          Replaced(OldEntries(x), i, <<0, IntVal(1)>>),
          at(Start, x, i, 1))
AtPushBack == \E x \in Whole : \E i \in 1..2 :
  LET e == OldEntries(x)[i][2]
      grown == Own("arr", Append(e[3], <<0, IntVal(1)>>))
      fits == j.data[x][1] = "arr" /\ i <= Len(OldEntries(x)) /\ e[1] = "arr"
  IN  Changes("at push_back", x, IF fits THEN {"arr"} ELSE {},
              Replaced(OldEntries(x), i, <<0, grown>>), at_push_back(Start, x, i, 1))
Index == \E x \in Whole, key \in Keys :
  Changes("index", x, {"obj"}, IndexIn(Insert(OldEntries(x), key, Null), key, 1),
          index(Start, x, key, 1))
Erase == \E x \in Whole, pos, count \in 1..2 :
  /\ j.data[x][1] \in {"arr", "str"} => pos + count <= Len(OldEntries(x)) + 1
  /\ Changes("erase", x, {"arr", "str"}, Without(OldEntries(x), pos, count),
             erase(Start, x, pos, count))
EraseKey == \E x \in Whole, key \in Keys :
  /\ j.data[x][1] = "obj"
  /\ Changes("erase key", x, {"obj"}, SelectSeq(OldEntries(x), LAMBDA e : e[1] # key),
             erase_key(Start, x, key))
Clear == \E x \in Whole :
  Do(Did("put", "clear", x, x, j.data[x][1], IF j.data[x][1] = "int" THEN IntVal(0)[3] ELSE <<>>),
     clear(Start, x))
Destroy == \E x \in Alive :
  Do(Did("drop", "destroy", x, x, "", <<>>), Set(Start, x, <<"gone", "own", <<>>>>))

Init ==
  /\ j = [data |-> [x \in Vars |-> <<"gone", "own", <<>>>>], heap |-> Empty, temp |-> {},
          full |-> FALSE, wrapped |-> FALSE, failed |-> FALSE]
  /\ call = Did("drop", "start", "", "", "", <<>>)
Next ==
  /\ ~j.wrapped
  /\ \/ Construct \/ Assign \/ CopyConstruct \/ CopyAssign \/ MoveConstruct \/ MoveAssign \/ PushBack
     \/ PushMoved \/ PushChar \/ InsertKey \/ At \/ AtPushBack \/ Index \/ Erase \/ EraseKey
     \/ Clear \/ Destroy
Spec == Init /\ [][Next]_vars

\* A string or object that was moved from is empty, a shared one is no value.
MovedFrom(c) == {c, [c EXCEPT !.v = <<>>]}
Weak(c) == FALSE

\* Two values are equal when they are the same value, shared or in place, and so a
\* copy is equal to its original for as long as neither is changed.
EqualMeansSame ==
  \A x, y \in Whole : equal(j.heap, j.data[x], j.data[y]) <=> Of(x) = Of(y)
=============================================================================
