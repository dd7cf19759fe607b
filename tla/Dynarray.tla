------------------------------ MODULE Dynarray ------------------------------
(***************************************************************************)
(* gpcl::dynarray with the default allocator, whose instances are always   *)
(* equal.  Array x has the memory it points to (cells, <<>> for the null   *)
(* pointer), size_ and capacity_; a cell without an element is Raw.  The   *)
(* elements' copy constructor may throw: budget is how many copies succeed *)
(* before one does.  memory says whether allocate() succeeds.  tr says     *)
(* whether the move constructor and the copy assignment of T are noexcept. *)
(***************************************************************************)
EXTENDS Integers, Sequences, SequencesExt

CONSTANTS Arrays, Elems,   \* the arrays, and the values of elements (positive)
          MaxSize          \* bound on what the program asks for

VARIABLES s, tr, call

vars == <<s, tr, call>>

Raw == -1
Null == [cells |-> <<>>, size |-> 0, cap |-> 0]
Gone == [cells |-> <<>>, size |-> -1, cap |-> 0]
Failed(n) == n.exc \/ n.fault # {}
Fault(n, what) == [n EXCEPT !.fault = @ \cup {what}]

\* allocate(k), and deallocate, which gets its size from capacity_.
Throwing(n) == [n EXCEPT !.exc = TRUE]
Memory(k) == [i \in 1..k |-> Raw]
deallocate(n, cells, cap) ==
  IF \E i \in DOMAIN cells : cells[i] # Raw THEN Fault(n, "leak")
  ELSE IF Len(cells) # cap THEN Fault(n, "capacity") ELSE n

\* construct one more element at the end of x.
construct(n, x, v) ==
  LET a == n.a[x]
  IN  CASE Failed(n) -> n
        [] ~Failed(n) /\ n.budget = 0 -> Throwing(n)
        [] ~Failed(n) /\ n.budget # 0 /\ a.size >= Len(a.cells) -> Fault(n, "bounds")
        [] OTHER -> [n EXCEPT !.a[x].cells[a.size + 1] = v, !.a[x].size = @ + 1,
                              !.budget = @ - 1]
construct_all(n, x, vs) == FoldLeft(LAMBDA k, v : construct(k, x, v), n, vs)

-----------------------------------------------------------------------------
keep_first_n(n, x, k) ==
  [n EXCEPT !.a[x].size = k,
            !.a[x].cells = [i \in DOMAIN @ |->
                              IF i \in (k + 1)..n.a[x].size THEN Raw ELSE @[i]]]
release(n, x) ==
  LET k == keep_first_n(n, x, 0)
  IN  [deallocate(k, k.a[x].cells, k.a[x].cap) EXCEPT !.a[x] = Null]

\* The constructors that allocate: dynarray(n), a range, and a copy.
range_construct(n, x, vs) ==
  LET k == [n EXCEPT !.a[x] = [cells |-> Memory(Len(vs)), size |-> 0, cap |-> Len(vs)]]
      r == construct_all(k, x, vs)
  IN  IF ~n.memory THEN Throwing(n)
      ELSE IF r.exc THEN [release(r, x) EXCEPT !.a[x] = Gone] ELSE r
Values(n, x) == SubSeq(n.a[x].cells, 1, n.a[x].size)
copy_construct(n, x, y) == range_construct(n, x, Values(n, y))
move_construct(n, x, y) == [n EXCEPT !.a[x] = n.a[y], !.a[y] = Null]
destructor(n, x) == [release(n, x) EXCEPT !.a[x] = Gone]
swap(n, x, y) == [n EXCEPT !.a[x] = n.a[y], !.a[y] = n.a[x]]

\* `dynarray(...).swap(*this)`: the temporary takes the old memory away.
Swapped(n, x, vs) ==
  LET t == range_construct(n, "tmp", vs)
  IN  IF Failed(t) THEN t ELSE destructor(swap(t, "tmp", x), "tmp")
shrink_to_fit(n, x) == Swapped(n, x, Values(n, x))

\* assign(first, last): element-wise only if that cannot throw.
assign(n, x, vs) ==
  LET k == keep_first_n(n, x, Len(vs))
  IN  IF Len(vs) > n.a[x].size \/ ~tr.assign THEN Swapped(n, x, vs)
      ELSE [k EXCEPT !.a[x].cells = [i \in DOMAIN @ |-> IF i <= Len(vs) THEN vs[i] ELSE @[i]]]
copy_assign(n, x, y) == assign(n, x, Values(n, y))
move_assign(n, x, y) == swap(n, x, y)

\* Mutant of reserve: the handler forgets to restore the size.
ReserveForgetsSize(n, x, k) ==
  LET old == n.a[x]
      new == [n EXCEPT !.a[x] = [cells |-> Memory(k), size |-> 0, cap |-> k]]
      r == construct_all(new, x, Values(n, x))
  IN  CASE k <= old.cap -> n
        [] k > old.cap /\ r.exc -> [release(r, x) EXCEPT !.a[x] = [old EXCEPT !.size = 0]]
        [] OTHER -> deallocate(r, Memory(Len(old.cells)), old.cap)

\* reserve(k): size_ and capacity_ change before allocate(), which is outside of
\* the try block.  The elements are moved if that cannot throw, else copied.
reserve(n, x, k) ==
  LET old == n.a[x]
      new == [n EXCEPT !.a[x] = [cells |-> Memory(k), size |-> 0, cap |-> k]]
      moving == [new EXCEPT !.budget = @ + old.size]
      r == IF tr.move THEN construct_all(moving, x, Values(n, x))
           ELSE construct_all(new, x, Values(n, x))
  IN  CASE k <= old.cap -> n
        [] k > old.cap /\ ~n.memory ->
             Throwing([n EXCEPT !.a[x].size = 0, !.a[x].cap = k])
        [] k > old.cap /\ n.memory /\ r.exc -> [release(r, x) EXCEPT !.a[x] = old]
        [] OTHER -> deallocate(r, Memory(Len(old.cells)), old.cap)

grow(n, x, k) ==
  LET cap == n.a[x].cap
  IN  CASE cap = 0 /\ k # 0 -> reserve(n, x, k)
        [] cap # 0 /\ cap < k -> reserve(n, x, ((k + cap - 1) \div cap) * cap)
        [] OTHER -> n

\* resize(k) and resize(k, v); an element that throws undoes the others.
resize(n, x, k, v) ==
  LET r == reserve(n, x, k)
      orig_size == r.a[x].size
      t == construct_all(r, x, [i \in 1..(k - orig_size) |-> v])
  IN  IF Failed(r) THEN r
      ELSE IF k <= orig_size THEN keep_first_n(r, x, k)
      ELSE IF t.exc THEN keep_first_n(t, x, orig_size) ELSE t

\* emplace_back of a value, and of a reference to the array's own element i,
\* which dangles once grow() has moved the elements to other memory.
emplace_back(n, x, v) ==
  LET g == grow(n, x, n.a[x].size + 1) IN IF Failed(g) THEN g ELSE construct(g, x, v)
emplace_back_own(n, x, i) ==
  LET g == grow(n, x, n.a[x].size + 1)
  IN  IF Failed(g) THEN g
      ELSE IF g.a[x].cap # n.a[x].cap THEN Fault(g, "dangling")
      ELSE construct(g, x, g.a[x].cells[i])

\* pop_back() constructs an element behind the last one, and destroys none.
pop_back(n, x) ==
  LET a == n.a[x]
  IN  IF a.size = Len(a.cells) THEN Fault(n, "bounds")
      ELSE [n EXCEPT !.a[x].cells[a.size + 1] = 1, !.a[x].size = @ - 1]


-----------------------------------------------------------------------------
Exist(n) == {x \in Arrays : n.a[x] # Gone}
\* The first size_ cells of the memory hold elements, the others none, and
\* capacity_ is the size of the memory.
Sound(n) ==
  /\ n.fault = {}
  /\ \A x \in Exist(n) :
       LET a == n.a[x]
       IN  /\ a.cap = Len(a.cells) /\ a.size <= a.cap
           /\ \A i \in DOMAIN a.cells : (i <= a.size) = (a.cells[i] # Raw)

Did(do, name, x, y, v) ==
  [do |-> do, name |-> name, x |-> x, y |-> y, tag |-> "array", v |-> v]
Do(c, n) == call' = c /\ s' = n /\ UNCHANGED tr
Alive == Exist(s)
Unborn == Arrays \ Alive
Calls == {[s EXCEPT !.exc = FALSE, !.budget = b, !.memory = ok] :
            <<b, ok>> \in ((0..(MaxSize + 1)) \X {TRUE}) \cup {<<0, FALSE>>}}
Quiet == [s EXCEPT !.exc = FALSE]
Room(x, k) == s.a[x].size + k <= MaxSize
Contents == BoundedSeq(Elems, 2)

Default == \E x \in Unborn : Do(Did("put", "default", x, x, <<>>), [Quiet EXCEPT !.a[x] = Null])
FromRange == \E x \in Unborn, vs \in Contents, n \in Calls :
  Do(Did("put", "range", x, x, vs), range_construct(n, x, vs))
CopyConstruct == \E x \in Unborn, y \in Alive, n \in Calls :
  Do(Did("copy", "copy construct", x, y, <<>>), copy_construct(n, x, y))
MoveConstruct == \E x \in Unborn, y \in Alive :
  Do(Did("move", "move construct", x, y, <<>>), move_construct(Quiet, x, y))
CopyAssign == \E x, y \in Alive, n \in Calls :
  Do(Did("copy", "copy assign", x, y, <<>>), copy_assign(n, x, y))
MoveAssign == \E x, y \in Alive :
  Do(Did("swap", "move assign", x, y, <<>>), move_assign(Quiet, x, y))
AssignRange == \E x \in Alive, vs \in Contents, n \in Calls :
  Do(Did("put", "assign", x, x, vs), assign(n, x, vs))
Swap == \E x, y \in Alive : Do(Did("swap", "swap", x, y, <<>>), swap(Quiet, x, y))
Reserve == \E x \in Alive, k \in 0..MaxSize, n \in Calls :
  Do(Did("look", "reserve", x, x, <<>>), reserve(n, x, k))
ShrinkToFit == \E x \in Alive, n \in Calls :
  Do(Did("look", "shrink", x, x, <<>>), shrink_to_fit(n, x))
Resize == \E x \in Alive, k \in 0..MaxSize, v \in Elems, n \in Calls :
  Do(Did("put", "resize", x, x,
         [i \in 1..k |-> IF i <= s.a[x].size THEN s.a[x].cells[i] ELSE v]),
     resize(n, x, k, v))
EmplaceBack == \E x \in Alive, v \in Elems, n \in Calls :
  /\ Room(x, 1)
  /\ Do(Did("put", "emplace_back", x, x, Append(Values(s, x), v)), emplace_back(n, x, v))
PushOwn == \E x \in Alive, n \in Calls : \E i \in 1..s.a[x].size :
  /\ Room(x, 1)
  /\ Do(Did("put", "push own", x, x, Append(Values(s, x), s.a[x].cells[i])),
        emplace_back_own(n, x, i))
PopBack == \E x \in Alive :
  /\ s.a[x].size > 0
  /\ Do(Did("put", "pop_back", x, x, Front(Values(s, x))), pop_back(Quiet, x))
Clear == \E x \in Alive : Do(Did("put", "clear", x, x, <<>>), keep_first_n(Quiet, x, 0))
Destroy == \E x \in Alive : Do(Did("drop", "destroy", x, x, <<>>), destructor(Quiet, x))

Init ==
  /\ s = [a |-> [x \in Arrays \cup {"tmp"} |-> Gone], budget |-> 0, memory |-> TRUE,
          exc |-> FALSE, fault |-> {}]
  /\ tr \in [move : BOOLEAN, assign : BOOLEAN]
  /\ call = Did("drop", "start", "", "", <<>>)
Next ==
  /\ Sound(s)
  /\ \/ Default \/ FromRange \/ CopyConstruct \/ MoveConstruct \/ CopyAssign \/ MoveAssign
     \/ AssignRange \/ Swap \/ Reserve \/ ShrinkToFit \/ Resize \/ EmplaceBack \/ PushOwn
     \/ PopBack \/ Clear \/ Destroy
Spec == Init /\ [][Next]_vars

-----------------------------------------------------------------------------
\* The calls that break an array: pop_back, one that runs out of memory while it
\* grows the array, and push_back of the array's own element when it grows.
MayBreak(c) ==
  \/ c.name = "pop_back"
  \/ c.name \in {"reserve", "resize", "emplace_back", "push own"} /\ ~s'.memory
  \/ c.name = "push own" /\ s.a[c.x].size = s.a[c.x].cap
StepSound == Sound(s') \/ MayBreak(call')
MovedFrom(c) == {[c EXCEPT !.v = <<>>]}
Weak(c) == FALSE
=============================================================================
