------------------------------ MODULE MCMemory ------------------------------
(***************************************************************************)
(* What hands out memory and what lives in it, for TLC: the TLSF heap, the *)
(* memory resources, the buffers, list, intrusive_list and dynarray.  The  *)
(* components do not interact: a behaviour exercises the one that the      *)
(* variable part names, and the variables of the others stay as they are.  *)
(*                                                                         *)
(* TLSF has words of 4 bytes and blocks below 128 bytes.  A behaviour uses *)
(* either two small pools, with all calls, or a wide one, with room for    *)
(* aligned blocks beside others, and the sizes that fill it.               *)
(***************************************************************************)
EXTENDS Tlsf

VARIABLES
  part,                       \* the component; for TLSF "small" or "wide"
  r, r_call,                  \* of Resources
  f, queue, cursor, span, w,  \* of Ranges
  n, l_tr, l_call,            \* of Lists
  links, i_call,              \* of IntrusiveList
  s, d_tr, d_call             \* of Dynarray

resourceVars == <<r, r_call>>
rangesVars == <<f, queue, cursor, span, w>>
listVars == <<n, l_tr, l_call>>
intrusiveVars == <<links, i_call>>
dynarrayVars == <<s, d_tr, d_call>>
allVars == <<part, vars, resourceVars, rangesVars, listVars, intrusiveVars, dynarrayVars>>

\* Pools of 60 and of 28 bytes, and one of 92.
SmallPools == {<<8, 68>>, <<96, 36>>}
WidePools == {<<136, 100>>}
ThreePools == SmallPools \cup WidePools

TlsfPart ==
  /\ part \in {"small", "wide"}
  /\ Next
  /\ UNCHANGED <<part, resourceVars, rangesVars, listVars, intrusiveVars, dynarrayVars>>
  /\ IF part = "small"
     THEN /\ pools' \subseteq SmallPools
          /\ \A u \in users' : u.size # 16
     ELSE /\ pools' \subseteq WidePools
          /\ \A u \in users' : u.size \in {1, 16}
          /\ Cardinality(users') <= 3

-----------------------------------------------------------------------------
\* Blocks of at most 36 bytes at three places, words of 2 bytes.
E == INSTANCE Resources
  WITH Kinds <- {"monotonic", "pools", "tlsf"}, Word <- 2, MaxAlign <- 4, Places <- {16, 64, 112},
       PlaceSize <- 36, MaxUsers <- 2, Initial <- 8, PoolSizes <- {2, 4}, Largest <- 8,
       Sizes <- {2, 6, 8}, Aligns <- {2, 4, 8}, UserBuffer <- <<2, 6>>, call <- r_call
R == INSTANCE Ranges
  WITH Bytes <- {1, 2}, MaxSize <- 4, SizeMod <- 8, Requests <- {0, 1, 2, 3, 5, 7}, MaxBuffers <- 3,
       MaxBuffer <- 2, Bufs <- {"x", "y"}, Spans <- {[at |-> -1, len |-> 0], [at |-> 0, len |-> 2]},
       MaxPuts <- 2, MaxText <- 4, Delims <- {<<2>>, <<2, 2>>, <<1, 2>>}, Space <- 3,
       q <- cursor, s <- span
L == INSTANCE Lists
  WITH Lists <- {"a", "b"}, Nodes <- {"n1", "n2", "n3"}, Values <- {1, 2}, Allocators <- {1, 2},
       tr <- l_tr, call <- l_call
I == INSTANCE IntrusiveList
  WITH Heads <- {"a", "b"}, Items <- {"n1", "n2", "n3", "n4"}, call <- i_call
D == INSTANCE Dynarray
  WITH Arrays <- {"a", "b"}, Elems <- {1, 2}, MaxSize <- 3, tr <- d_tr, call <- d_call

-----------------------------------------------------------------------------
Idle == CHOOSE i \in {"idle"} : TRUE

\* No operation of dynarray asks for both traits of T, so one of them stands for both.
MemoryInit ==
  /\ part \in {"small", "wide", "resources", "ranges", "list", "intrusive_list", "dynarray"}
  /\ Init
  /\ IF part = "resources" THEN E!Init
     ELSE r = Idle /\ r_call = Idle
  /\ IF part = "ranges" THEN R!Init
     ELSE f = Idle /\ queue = Idle /\ cursor = Idle /\ span = Idle /\ w = Idle
  /\ IF part = "list" THEN L!Init
     ELSE n = Idle /\ l_tr = Idle /\ l_call = Idle
  /\ IF part = "intrusive_list" THEN I!Init
     ELSE links = Idle /\ i_call = Idle
  /\ IF part = "dynarray" THEN D!Init /\ d_tr.move = d_tr.assign
     ELSE s = Idle /\ d_tr = Idle /\ d_call = Idle

\* To bound the runs: one spanbuf at a time has an open mode beside one that has none,
\* the second dynarray has two cells, and a wide pool three users.
MemoryNext ==
  \/ TlsfPart
  \/ /\ part = "resources" /\ E!Next
     /\ UNCHANGED <<part, vars, rangesVars, listVars, intrusiveVars, dynarrayVars>>
  \/ /\ part = "ranges" /\ R!Next
     /\ span' # R!Idle => span'["x"].mode = {} \/ span'["y"].mode = {}
     /\ UNCHANGED <<part, vars, resourceVars, listVars, intrusiveVars, dynarrayVars>>
  \/ /\ part = "list" /\ L!Next
     /\ UNCHANGED <<part, vars, resourceVars, rangesVars, intrusiveVars, dynarrayVars>>
  \/ /\ part = "intrusive_list" /\ I!Next
     /\ UNCHANGED <<part, vars, resourceVars, rangesVars, listVars, dynarrayVars>>
  \/ /\ part = "dynarray" /\ D!Next
     /\ Len(s'.a["b"].cells) <= 2
     /\ UNCHANGED <<part, vars, resourceVars, rangesVars, listVars, intrusiveVars>>

MemorySpec == MemoryInit /\ [][MemoryNext]_allVars

Absent == [tag |-> "gone", v |-> <<>>]
listContent == [l \in {"a", "b"} |-> IF l \in L!Alive THEN [tag |-> "list", v |-> L!Content(n, l)] ELSE Absent]
HL == INSTANCE Holder
  WITH MovedFrom <- L!MovedFrom, Weak <- L!Weak, Gone <- Absent, content <- listContent, call <- l_call, threw <- n.exc
intrusiveContent ==
  [l \in {"a", "b"} |-> IF l \in I!Lists(links) THEN [tag |-> "list", v |-> I!Walk(links, l)] ELSE Absent]
HI == INSTANCE Holder
  WITH MovedFrom <- I!MovedFrom, Weak <- I!Weak, Gone <- Absent, content <- intrusiveContent, call <- i_call, threw <- FALSE
arrayContent ==
  [x \in {"a", "b"} |-> IF s.a[x] = D!Gone THEN Absent ELSE [tag |-> "array", v |-> D!Values(s, x)]]
HD == INSTANCE Holder
  WITH MovedFrom <- D!MovedFrom, Weak <- D!Weak, Gone <- Absent, content <- arrayContent, call <- d_call, threw <- s.exc

\* What later behaviour depends on: not the last call, and of a list what it holds
\* rather than which nodes hold it.
View ==
  <<part, vars, rangesVars,
    CASE part = "list" -> <<IF L!Sound(n) THEN listContent ELSE l_call.name, n.alloc, l_tr>>
      [] part = "intrusive_list" -> links
      [] part = "dynarray" -> <<s.a, s.fault, d_tr>>
      [] part = "resources" -> <<r, IF r_call.ret = 0 THEN r_call ELSE r_call.name>>
      [] OTHER -> Idle>>

-----------------------------------------------------------------------------
OfTlsf == part \in {"small", "wide"}


\* Freed memory can be used again: a pool that holds nothing is one free block, and
\* malloc finds a block whenever one exists that is as large as the request rounded up.
HeapReused == OfTlsf => CoalescedFully /\ MallocFinds


\* flat_buffer is a queue of bytes, a buffer sequence is iterated byte by byte, a
\* spanbuf reads and writes its span, and split yields the pieces of the text.
RangesSound ==
  part = "ranges" => R!QueueKept /\ R!IterationExact /\ R!SpanKept /\ R!SplitExact

\* list: whatever throws, the rings are closed, own their nodes and count them, but
\* for the calls of MayBreak; a list has what the last call put there, in order, and a
\* call that throws has not happened; == and < agree with the elements.
ListsSound ==
  /\ [][part = "list" => L!StepSound]_allVars
  /\ part = "list" => HL!Init
  /\ [][part = "list" /\ L!Sound(n') => HL!Next]_allVars
  /\ [](part = "list" /\ L!Sound(n) => L!ComparesRight)


\* dynarray: whatever throws, the first size() places hold live elements and no other
\* place does, but for the calls of MayBreak; and a call that throws has not happened,
\* the "strong exception guarantee" of dynarray.hpp.
DynarraysSound ==
  /\ [][part = "dynarray" => D!StepSound]_allVars
  /\ part = "dynarray" => HD!Init
  /\ [][part = "dynarray" /\ D!Sound(s') => HD!Next]_allVars
=============================================================================
