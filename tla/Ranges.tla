------------------------------- MODULE Ranges -------------------------------
(***************************************************************************)
(* The parts of gpcl that are positions in a range of characters:          *)
(*   "flat"      basic_flat_buffer, a queue of bytes in one allocation;    *)
(*   "sequence"  sequences of buffers: operator+= of a buffer,             *)
(*               buffer_size, and the iterator over all of their bytes;    *)
(*   "span"      basic_spanbuf, a stream buffer over memory it is given;   *)
(*   "split"     split and split_old, that cut a text at a delimiter.      *)
(* Characters are small numbers, 0 one that was never written.             *)
(***************************************************************************)
EXTENDS Integers, Sequences, SequencesExt, FiniteSetsExt

CONSTANTS
  Bytes,       \* the bytes that users write, not 0
  MaxSize,     \* basic_flat_buffer::max_size (INT_MAX in the code)
  SizeMod,     \* the size_t arithmetic wraps here
  Requests,    \* what prepare is asked for
  MaxBuffers,  \* bound: buffers in a sequence
  MaxBuffer,   \* bound: bytes in one of them
  Bufs,        \* the basic_spanbuf objects
  Spans,       \* the ranges they are given, [at, len]
  MaxPuts,     \* bound: characters put since the last span()
  MaxText,     \* bound: characters of a text to split
  Delims,      \* the delimiters, not empty
  Space        \* the character isspace accepts

VARIABLES
  f,      \* basic_flat_buffer: mem, input_ and output_; room: the bytes prepared
  queue,  \* the bytes committed and not yet consumed
  q,      \* a sequence of buffers, and the iterator with what it visited
  s,      \* the basic_spanbuf objects
  w       \* a call of split

vars == <<f, queue, q, s, w>>

Nil == -1
Idle == CHOOSE i \in {<<>>} : TRUE
Least(a, b) == IF a < b THEN a ELSE b
Most(a, b) == IF a > b THEN a ELSE b
-----------------------------------------------------------------------------
(* basic_flat_buffer.  The allocation is mem; start_ is offset 0 of it and  *)
(* end_ its length.                                                         *)

size == f.output - f.input
data == SubSeq(f.mem, f.input + 1, f.output)

\* A mutant: the bytes move to the front, and output_ stays where it was.
CompactedInPlace(n) ==
  [f EXCEPT !.mem = [i \in DOMAIN f.mem |-> IF i <= size THEN data[i] ELSE @[i]],
            !.input = 0, !.room = n]

\* The two ways prepare makes room: it moves the bytes to the front (memmove), or
\* into an allocation of size() + n.
Compacted(n) ==
  [f EXCEPT !.mem = [i \in DOMAIN f.mem |-> IF i <= size THEN data[i] ELSE @[i]],
            !.input = 0, !.output = size, !.room = n]
Grown(n) ==
  [f EXCEPT !.mem = data \o [i \in 1 .. n |-> 0],
            !.input = 0, !.output = size, !.room = n]

\* prepare(n), where allocated says whether the allocation succeeds: it throws,
\* has the room, moves the bytes to the front, or moves to a larger allocation.
\* When size() + n wraps, the larger allocation is smaller than the bytes.
prepare(n, allocated) ==
  IF (size + n) % SizeMod > MaxSize THEN f
  ELSE IF Len(f.mem) - f.output >= n THEN [f EXCEPT !.room = n]
  ELSE IF Len(f.mem) - f.output + f.input >= n THEN Compacted(n)
  ELSE IF ~allocated THEN f
  ELSE IF size + n >= SizeMod THEN [f EXCEPT !.overrun = TRUE]
  ELSE Grown(n)

Prepare ==
  \E n \in Requests, allocated \in BOOLEAN :
    /\ ~f.overrun
    /\ f' = prepare(n, allocated)
    /\ UNCHANGED queue

\* The user fills the prepared room with text and commits n bytes of it.
commit(text, n) ==
  [f EXCEPT !.mem = [i \in DOMAIN @ |->
                       IF i - f.output \in DOMAIN text THEN text[i - f.output] ELSE @[i]],
            !.output = Least(@ + n, Len(f.mem)), !.room = 0]

Commit ==
  \E text \in [1 .. f.room -> Bytes], n \in 0 .. f.room + 1 :
    /\ ~f.overrun
    /\ f' = commit(text, n)
    /\ queue' = queue \o [i \in 1 .. Least(n, Len(f.mem) - f.output) |->
                            IF i <= f.room THEN text[i] ELSE 0]

consume(n) == [f EXCEPT !.input = Least(@ + n, f.output)]

Consume ==
  \E n \in 1 .. MaxSize :
    /\ ~f.overrun
    /\ f' = consume(n)
    /\ queue' = SubSeq(queue, n + 1, Len(queue))

FlatInit == f = [mem |-> <<>>, input |-> 0, output |-> 0, room |-> 0, overrun |-> FALSE]
            /\ queue = <<>>
FlatNext == (Prepare \/ Commit \/ Consume) /\ UNCHANGED <<q, s, w>>
-----------------------------------------------------------------------------
(* Sequences of buffers.  A buffer is its first byte and its size; the byte *)
(* numbers of different buffers of a sequence are different.                *)

Buffer(p, n) == [p |-> p, s |-> n]
advance(b, n) == IF b.s > n THEN Buffer(b.p + n, b.s - n) ELSE Buffer(Nil, 0)

buffer_size(bs) == SumFunction([i \in DOMAIN bs |-> bs[i].s])

\* buffers_iterator: the buffer, and the position in it.
buffers_begin == [curr |-> 1, pos |-> 0]
buffers_end(bs) == [curr |-> Len(bs) + 1, pos |-> 0]
\* A mutant: one position too many in every buffer.
IncrementPastEnd(it, bs) ==
  IF it.pos >= bs[it.curr].s
  THEN [curr |-> it.curr + 1, pos |-> 0]
  ELSE [it EXCEPT !.pos = @ + 1]
increment(it, bs) ==
  IF it.pos + 1 >= bs[it.curr].s
  THEN [curr |-> it.curr + 1, pos |-> 0]
  ELSE [it EXCEPT !.pos = @ + 1]

Advance ==
  \E i \in DOMAIN q.bs, n \in 1 .. MaxBuffer :
    /\ q.it = buffers_begin /\ q.bs[i].s > 0
    /\ q' = [q EXCEPT !.bs[i] = advance(@, n), !.gone[i] = @ + Least(n, q.bs[i].s)]
Visit ==
  /\ q.it # buffers_end(q.bs)
  /\ q' = [q EXCEPT !.seen = Append(@, <<q.it.curr, q.it.pos>>),
                    !.it = increment(@, q.bs)]

SequenceInit ==
  \E n \in 0 .. MaxBuffers : \E lens \in [1 .. n -> 0 .. MaxBuffer] :
    q = [lens |-> lens, bs |-> [i \in 1 .. n |-> Buffer(MaxBuffer * i, lens[i])],
         gone |-> [i \in 1 .. n |-> 0], it |-> buffers_begin, seen |-> <<>>]
SequenceNext == (Advance \/ Visit) /\ UNCHANGED <<f, queue, s, w>>
-----------------------------------------------------------------------------
(* basic_spanbuf.  g and p are the get and the put area of the stream       *)
(* buffer it derives from: base, position and end.                          *)

NoArea == [base |-> Nil, pos |-> Nil, end |-> Nil]
Unborn == [alive |-> FALSE, mode |-> {}, span |-> [at |-> Nil, len |-> 0], g |-> NoArea,
           p |-> NoArea, puts |-> 0, sought |-> FALSE]
Area(base, pos, end) == [base |-> base, pos |-> pos, end |-> end]

\* span(buf): the areas that the mode has start over on buf.
set_span(b, buf) ==
  LET begin == buf.at
      end == buf.at + buf.len
  IN  [b EXCEPT !.span = buf,
                !.g = IF "in" \in b.mode THEN Area(begin, begin, end) ELSE @,
                !.p = IF "out" \in b.mode
                      THEN Area(IF "ate" \in b.mode THEN end ELSE begin,
                                IF "ate" \in b.mode THEN end ELSE begin, end)
                      ELSE @,
                !.puts = 0, !.sought = FALSE]

\* span(): what has been put, or all of the range when nothing can be.
get_span(b) ==
  IF "out" \in b.mode THEN [at |-> b.p.base, len |-> b.p.pos - b.p.base] ELSE b.span

\* seekoff(off, dir, which): Nil when it fails, else the offset from the start.
\* Relative to the put area it counts from the base, which an earlier seek moved.
newoff(b, off, dir, which) ==
  CASE dir = "beg" -> off
    [] dir = "cur" -> IF which = {"in", "out"} \/ which = {} THEN Nil
                      ELSE IF "out" \in which THEN b.p.pos - b.p.base + off
                      ELSE b.g.pos - b.g.base + off
    [] dir = "end" -> IF "out" \in b.mode /\ "in" \notin b.mode
                      THEN b.p.pos - b.p.base + off ELSE off + b.span.len
seekable(b, off, dir, which) ==
  LET to == newoff(b, off, dir, which)
  IN  /\ which \subseteq b.mode
      /\ ~(b.p.pos = Nil /\ b.g.pos = Nil /\ to # 0)
      /\ to \in 0 .. b.span.len
seekoff(b, off, dir, which) ==
  LET to == newoff(b, off, dir, which)
      end == b.span.at + b.span.len
  IN  IF ~seekable(b, off, dir, which) THEN b
      ELSE [b EXCEPT
             !.g = IF "in" \in which THEN Area(b.span.at, b.span.at + to, end) ELSE @,
             !.p = IF "out" \in which THEN Area(b.span.at + to, b.span.at + to, end) ELSE @,
             !.sought = @ \/ "out" \in which]

Construct ==
  \E x \in Bufs, mode \in SUBSET {"in", "out", "ate"}, buf \in Spans :
    /\ ~s[x].alive
    /\ s' = [s EXCEPT ![x] = set_span([Unborn EXCEPT !.alive = TRUE, !.mode = mode], buf)]

\* The new object has copies of both areas; the old one loses its mode only.
MoveConstruct ==
  \E x, y \in Bufs :
    /\ ~s[x].alive /\ s[y].alive
    /\ s' = [s EXCEPT ![x] = s[y], ![y].mode = {}]

SetSpan == \E x \in Bufs, buf \in Spans : s[x].alive /\ s' = [s EXCEPT ![x] = set_span(@, buf)]

Seek ==
  \E x \in Bufs, off \in -1 .. 1, dir \in {"beg", "cur", "end"}, which \in SUBSET {"in", "out"} :
    /\ s[x].alive
    /\ s' = [s EXCEPT ![x] = seekoff(@, off, dir, which)]

\* sputc and sbumpc of the stream buffer: one character at the position.
Put ==
  \E x \in Bufs :
    /\ s[x].alive /\ s[x].p.pos < s[x].p.end /\ s[x].puts < MaxPuts
    /\ s' = [s EXCEPT ![x].p.pos = @ + 1, ![x].puts = @ + 1]
Get ==
  \E x \in Bufs :
    /\ s[x].alive /\ s[x].g.pos < s[x].g.end
    /\ s' = [s EXCEPT ![x].g.pos = @ + 1]

SpanInit == s = [x \in Bufs |-> Unborn]
SpanNext == (Construct \/ MoveConstruct \/ SetSpan \/ Seek \/ Put \/ Get)
            /\ UNCHANGED <<f, queue, q, w>>
-----------------------------------------------------------------------------
(* split.  A piece is the part of the text from first to last (exclusive).  *)

Piece(first, last) == [first |-> first, last |-> last]
str(text, piece) == SubSeq(text, piece.first + 1, piece.last)

\* std::search: the first place at or after first where delim stands, or the end.
search(text, first, delim) ==
  LET found == {i \in first .. Len(text) - Len(delim) :
                  SubSeq(text, i + 1, i + Len(delim)) = delim}
  IN  IF found = {} THEN Len(text) ELSE Min(found)

\* trimmed(): from the first character that is no space to the next that is one.
trimmed(text, piece) ==
  LET inside(spaces, from) == {i \in from .. piece.last - 1 : (text[i + 1] = Space) = spaces}
      First(is) == IF is = {} THEN piece.last ELSE Min(is)
      i == First(inside(FALSE, piece.first))
  IN  Piece(i, First(inside(TRUE, i)))

\* One turn of the loop of split.
SplitTurn ==
  LET pos == search(w.text, w.first, w.delim)
      piece == Piece(w.first, pos)
      keep == w.first # pos \/ "skip_empty_string" \notin w.flags
      added == IF "trim_results" \in w.flags THEN trimmed(w.text, piece) ELSE piece
  IN  /\ ~w.done
      /\ w' = [w EXCEPT !.pieces = IF keep THEN Append(@, added) ELSE @,
                        !.first = IF pos = Len(w.text) THEN @ ELSE pos + Len(w.delim),
                        !.done = pos = Len(w.text)]

\* split_old: the scan from first, with a piece open since start.
RECURSIVE old_from(_, _, _, _)
old_from(text, delim, start, first) ==
  IF Len(text) - first < Len(delim) THEN <<Piece(start, Len(text))>>
  ELSE IF SubSeq(text, first + 1, first + Len(delim)) = delim
  THEN <<Piece(start, first)>> \o old_from(text, delim, first + Len(delim), first + Len(delim))
  ELSE old_from(text, delim, start, first + 1)
split_old(text, delim, skip) ==
  SelectSeq(old_from(text, delim, 0, 0), LAMBDA x : x.first # x.last \/ ~skip)

SplitInit ==
  \E n \in 0 .. MaxText : \E text \in [1 .. n -> Bytes \cup {Space}] :
    \E delim \in Delims, flags \in SUBSET {"skip_empty_string", "trim_results"} :
      w = [text |-> text, delim |-> delim, flags |-> flags, pieces |-> <<>>, first |-> 0,
           done |-> FALSE]
SplitNext == SplitTurn /\ UNCHANGED <<f, queue, q, s>>
-----------------------------------------------------------------------------
Init ==
  \/ FlatInit /\ q = Idle /\ s = Idle /\ w = Idle
  \/ SequenceInit /\ f = Idle /\ queue = Idle /\ s = Idle /\ w = Idle
  \/ SpanInit /\ f = Idle /\ queue = Idle /\ q = Idle /\ w = Idle
  \/ SplitInit /\ f = Idle /\ queue = Idle /\ q = Idle /\ s = Idle
Next ==
  \/ f # Idle /\ FlatNext
  \/ q # Idle /\ SequenceNext
  \/ s # Idle /\ SpanNext
  \/ w # Idle /\ SplitNext
Spec == Init /\ [][Next]_vars
-----------------------------------------------------------------------------
\* basic_flat_buffer is a queue: whatever prepare moved or reallocated, data() is the
\* bytes committed and not consumed, in order, and the prepared room is inside the
\* allocation.  A request so large that size() + n wraps is excepted.
QueueKept ==
  f # Idle /\ ~f.overrun =>
    /\ Len(data) = Len(queue) /\ size = Len(queue)
    /\ \A i \in DOMAIN queue : queue[i] # 0 => data[i] = queue[i]
    /\ f.output + f.room <= Len(f.mem) /\ Len(f.mem) <= MaxSize

\* The positions the iterator goes through: every byte once and in order, and for an
\* empty buffer the position behind its (absent) first byte.
Positions(bs) ==
  FlattenSeq([i \in DOMAIN bs |-> [k \in 1 .. Most(bs[i].s, 1) |-> <<i, k - 1>>]])

\* The iterator of a sequence visits every byte once, in order, and then equals
\* buffers_end, also when operator+= took bytes from some of the buffers first;
\* without empty buffers that is after buffer_size steps.
IterationExact ==
  q # Idle =>
    /\ IsPrefix(q.seen, Positions(q.bs))
    /\ (q.it = buffers_end(q.bs)) = (q.seen = Positions(q.bs))
    /\ (\A i \in DOMAIN q.bs : q.bs[i].s > 0) /\ q.it = buffers_end(q.bs)
         => Len(q.seen) = buffer_size(q.bs)
    /\ \A i \in DOMAIN q.bs :
         /\ q.bs[i].s = q.lens[i] - q.gone[i]
         /\ q.bs[i].s > 0 => q.bs[i].p = MaxBuffer * i + q.gone[i]

\* A basic_spanbuf stays inside its span, whatever was sought.  Until the first seek
\* of the put area span() is what was put and asking for the put position leaves it
\* alone (a seek moves pbase, and both count from there); asking for the get
\* position always does.
SpanKept ==
  s # Idle =>
    \A x \in Bufs :
      LET b == s[x]
          end == b.span.at + b.span.len
      IN  b.alive =>
        /\ "in" \in b.mode =>
             /\ b.g.base = b.span.at /\ b.g.pos \in b.g.base .. end /\ b.g.end = end
             /\ seekoff(b, 0, "cur", {"in"}) = b
        /\ "out" \in b.mode =>
             b.p.base \in b.span.at .. end /\ b.p.pos \in b.p.base .. end /\ b.p.end = end
        /\ "out" \in b.mode /\ "ate" \notin b.mode /\ ~b.sought =>
             /\ get_span(b) = [at |-> b.span.at, len |-> b.puts]
             /\ seekoff(b, 0, "cur", {"out"}).p.pos = b.p.pos

\* split cuts at every leftmost occurrence of the delimiter and nowhere else: it
\* agrees with split_old, the pieces and the delimiters are the text again, and a
\* trimmed piece is the first word of its piece.
SplitExact ==
  w # Idle /\ w.done =>
    LET skip == "skip_empty_string" \in w.flags
        plain == split_old(w.text, w.delim, skip)
    IN  /\ w.pieces = IF "trim_results" \in w.flags
                      THEN [i \in DOMAIN plain |-> trimmed(w.text, plain[i])] ELSE plain
        /\ w.flags = {} =>
             /\ w.text = FoldLeft(LAMBDA acc, piece : acc \o w.delim \o str(w.text, piece),
                                  str(w.text, Head(w.pieces)), Tail(w.pieces))
             /\ \A i \in DOMAIN w.pieces :
                  search(str(w.text, w.pieces[i]), 0, w.delim) = Len(str(w.text, w.pieces[i]))
        /\ "trim_results" \in w.flags =>
             \A i \in DOMAIN w.pieces :
               /\ ~Contains(str(w.text, w.pieces[i]), Space)
               /\ \A k \in plain[i].first .. w.pieces[i].first - 1 : w.text[k + 1] = Space
=============================================================================
