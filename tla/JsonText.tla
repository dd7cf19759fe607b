------------------------------ MODULE JsonText ------------------------------
(***************************************************************************)
(* The text of JSON values: serializing_visitor, which prints a value, and *)
(* parser with value_builder, which read one.  A text is a sequence of     *)
(* symbols: a character, or a word of letters, which nothing takes apart.  *)
(*                                                                         *)
(* A value is <<type, payload>>: the digits of a number (with its sign and *)
(* point), the characters of a string, the elements of an array, the       *)
(* entries <<key, value>> of an object in the order of its keys.           *)
(*                                                                         *)
(* A behaviour reads one text.  Either it is what the serializer makes of  *)
(* one of the Samples, or it is any text of at most MaxText symbols.       *)
(***************************************************************************)
EXTENDS Naturals, Sequences, SequencesExt

CONSTANTS Samples,   \* the values that are printed and read back
          Symbols,   \* the symbols of any other text
          MaxText    \* the length of such a text

VARIABLES v,      \* the value that was printed, or <<"none", <<>>>>
          text,   \* what is left to read of the printed text
          read,   \* what has been read
          p       \* the parser and the builder

vars == <<v, text, read, p>>

Digits == {"0", "1", "2", "5"}
Words == {"null", "true", "false", "x", "e"}
Spaces == {" ", "newline"}
Scalar(ty) == <<ty, <<>>>>

-----------------------------------------------------------------------------
(* The serializer *)
\* std::quoted: quotes and backslashes are escaped by a backslash.
quoted(chars) ==
  <<"quote">> \o
  FlattenSeq([i \in DOMAIN chars |->
    IF chars[i] \in {"quote", "backslash"} THEN <<"backslash", chars[i]>> ELSE <<chars[i]>>])
  \o <<"quote">>

\* The digits before and after the point of a real.
Point(ds) == IF Contains(ds, ".") THEN SelectInSeq(ds, LAMBDA d : d = ".") ELSE Len(ds) + 1
RECURSIVE DropZeros(_)
DropZeros(ds) == IF ds # <<>> /\ Last(ds) = "0" THEN DropZeros(Front(ds)) ELSE ds
\* operator<<(double): six significant digits, without trailing zeros or point;
\* an exponent when six digits cannot reach the point.
Precision == 6
RealText(ds) ==
  LET whole == SubSeq(ds, 1, Point(ds) - 1)
      fraction == DropZeros(SubSeq(ds, Point(ds) + 1,
                                   IF Len(ds) > Precision + 1 THEN Precision + 1 ELSE Len(ds)))
  IN  IF Len(whole) > Precision THEN <<Head(ds), "e", "+", "0">>
      ELSE IF fraction = <<>> THEN whole ELSE whole \o <<".">> \o fraction

\* newline() and space(), unless the style is compressed; indentation is a space.
Newline(style) == IF style = "compressed" THEN <<>> ELSE <<"newline", " ">>
Space(style) == IF style = "compressed" THEN <<>> ELSE <<" ">>

RECURSIVE Serialize(_, _)
Serialize(w, style) ==
  LET Listed(items) ==
        IF items = <<>> THEN <<>>
        ELSE Newline(style) \o
             FoldLeft(LAMBDA done, item : done \o <<",">> \o Newline(style) \o item,
                      Head(items), Tail(items))
             \o Newline(style)
  IN CASE w[1] \in {"null", "true", "false"} -> <<w[1]>>
       [] w[1] = "int" -> w[2]
       [] w[1] = "real" -> RealText(w[2])
       [] w[1] = "str" -> quoted(w[2])
       [] w[1] = "arr" ->
            <<"[">> \o Listed([i \in DOMAIN w[2] |-> Serialize(w[2][i], style)]) \o <<"]">>
       [] w[1] = "obj" ->
            <<"{">> \o Listed([i \in DOMAIN w[2] |->
                quoted(w[2][i][1]) \o <<":">> \o Space(style) \o Serialize(w[2][i][2], style)])
            \o <<"}">>

-----------------------------------------------------------------------------
(* value_builder: a stack of contexts, <<kind, contents, key>> *)
Fail(q, why) == [q EXCEPT !.failed = why]
Top(q) == Last(q.stack)
SetTop(q, c) == [q EXCEPT !.stack = Append(Front(@), c)]
Pushed(q, c) == [q EXCEPT !.stack = Append(@, c)]

\* std::map::insert: in the order of the keys, and the first of a key stays.
\* Keys have at most one character here, so the empty key comes first.
Inserted(entries, key, w) ==
  IF \E i \in DOMAIN entries : entries[i][1] = key THEN entries
  ELSE IF key = <<>> THEN << <<key, w>> >> \o entries ELSE Append(entries, <<key, w>>)

handle_value(q, w) ==
  LET c == Top(q)
  IN  CASE c[1] = "value" -> SetTop(q, <<"value", <<w>>, <<>>>>)
        [] c[1] = "array" -> SetTop(q, <<"array", Append(c[2], w), <<>>>>)
        [] c[1] = "object" ->
             IF c[3] = <<>> THEN Fail(q, "assert")
             ELSE SetTop(q, <<"object", Inserted(c[2], c[3], w), <<>>>>)

\* end_array_event and end_object_event: get<> throws on another context.
end_event(q, kind, ty) ==
  IF Top(q)[1] # kind THEN Fail(q, "variant")
  ELSE handle_value([q EXCEPT !.stack = Front(@)], <<ty, Top(q)[2]>>)
start_event(q, kind) == Pushed(q, <<kind, <<>>, <<>>>>)
object_key_event(q, key) ==
  IF Top(q)[1] # "object" THEN Fail(q, "variant")
  ELSE SetTop(q, <<"object", Top(q)[2], key>>)
error_event(q) == Fail(q, "parse")

\* get_value(): what has been read, if nothing is open.
get_value(q) ==
  IF Len(q.stack) # 1 THEN <<"error", <<>>>>
  ELSE IF q.stack[1][2] = <<>> THEN Scalar("null") ELSE q.stack[1][2][1]

-----------------------------------------------------------------------------
(* parser *)
State(q, kind, chars) == [q EXCEPT !.state = kind, !.chars = chars]
Reset(q) == State(q, "indeterminate", <<>>)

put_indeterminate(q, ch) ==
  CASE ch \in Spaces -> q
    [] ch \in Words -> State(q, "literal", <<ch>>)
    [] ch \in Digits \cup {"+"} -> State(q, "number", <<ch>>)
    [] ch = "quote" -> State(q, "string", <<>>)
    [] ch = "[" -> start_event(q, "array")
    [] ch = "," -> q
    [] ch = "]" -> end_event(q, "array", "arr")
    [] ch = "{" -> start_event(q, "object")
    [] ch = "}" -> end_event(q, "object", "obj")
    [] OTHER -> error_event(q)

\* json_cast of a number: a sign, digits, at most one point.
Unsigned(ds) == IF Head(ds) = "+" THEN Tail(ds) ELSE ds
RECURSIVE NoLeadingZeros(_)
NoLeadingZeros(ds) ==
  IF Len(ds) > 1 /\ ds[1] = "0" /\ ds[2] # "." THEN NoLeadingZeros(Tail(ds)) ELSE ds
RealOf(ds) ==
  NoLeadingZeros((IF Head(ds) = "." THEN <<"0">> ELSE <<>>) \o
                 SubSeq(ds, 1, Point(ds)) \o DropZeros(SubSeq(ds, Point(ds) + 1, Len(ds))))
number_event(q) ==
  LET ds == Unsigned(q.chars)
      digits == SelectSeq(ds, LAMBDA d : d \in Digits)
  IN  IF digits = <<>> \/ Len(ds) > Len(digits) + 1 THEN Fail(q, "cast")
      ELSE handle_value(q, IF Contains(ds, ".") THEN <<"real", RealOf(ds)>>
                           ELSE <<"int", NoLeadingZeros(ds)>>)
literal_event(q) ==
  IF q.chars \in {<<"null">>, <<"true">>, <<"false">>}
  THEN handle_value(q, Scalar(q.chars[1])) ELSE error_event(q)

\* Mutant of put: the character that ends a number or a literal is lost.
PutLost(q, ch) ==
  CASE q.state = "indeterminate" -> put_indeterminate(q, ch)
    [] q.state = "literal" ->
         IF ch \in Words \cup Digits THEN [q EXCEPT !.chars = Append(@, ch)]
         ELSE Reset(literal_event(q))
    [] q.state = "number" ->
         IF ch \in Digits \cup {"."} THEN [q EXCEPT !.chars = Append(@, ch)]
         ELSE Reset(number_event(q))
    [] q.state = "string" ->
         IF ch = "quote" THEN [q EXCEPT !.state = "closed"]
         ELSE [q EXCEPT !.chars = Append(@, ch)]
    [] q.state = "closed" ->
         IF ch \in Spaces THEN q
         ELSE IF ch = ":" THEN Reset(object_key_event(q, q.chars))
         ELSE put_indeterminate(Reset(handle_value(q, <<"str", q.chars>>)), ch)

\* put(): a character that ends a number, a literal or a string is put again.
put(q, ch) ==
  LET Again(r) == IF r.failed # "" THEN r ELSE put_indeterminate(Reset(r), ch)
  IN  CASE q.state = "indeterminate" -> put_indeterminate(q, ch)
        [] q.state = "literal" ->
             IF ch \in Words \cup Digits THEN [q EXCEPT !.chars = Append(@, ch)]
             ELSE Again(literal_event(q))
        [] q.state = "number" ->
             IF ch \in Digits \cup {"."} THEN [q EXCEPT !.chars = Append(@, ch)]
             ELSE Again(number_event(q))
        [] q.state = "string" ->
             IF ch = "quote" THEN [q EXCEPT !.state = "closed"]
             ELSE [q EXCEPT !.chars = Append(@, ch)]
        [] q.state = "closed" ->
             IF ch \in Spaces THEN q
             ELSE IF ch = ":" THEN Reset(object_key_event(q, q.chars))
             ELSE Again(handle_value(q, <<"str", q.chars>>))

Parser == [state |-> "indeterminate", chars |-> <<>>, stack |-> << <<"value", <<>>, <<>>>> >>,
           failed |-> ""]
\* parse(first, last): the text, then get_value().
parse(symbols) ==
  LET q == FoldLeft(LAMBDA r, ch : IF r.failed # "" THEN r ELSE put(r, ch), Parser, symbols)
  IN  IF q.failed # "" THEN <<"error", <<>>>> ELSE get_value(q)

-----------------------------------------------------------------------------
None == <<"none", <<>>>>
Init ==
  /\ read = <<>> /\ p = Parser
  /\ \/ \E w \in Samples, style \in {"compressed", "pretty"} : v = w /\ text = Serialize(w, style)
     \/ v = None /\ text = <<>>
Read(ch) == read' = Append(read, ch) /\ p' = put(p, ch) /\ UNCHANGED v
ReadPrinted == v # None /\ text # <<>> /\ Read(Head(text)) /\ text' = Tail(text)
ReadAny == v = None /\ Len(read) < MaxText /\ UNCHANGED text /\ \E ch \in Symbols : Read(ch)
Next == p.failed = "" /\ (ReadPrinted \/ ReadAny)
Spec == Init /\ [][Next]_vars

-----------------------------------------------------------------------------
\* What text can carry: a value without negative numbers, reals that are whole,
\* long or large, characters that are escaped, and empty keys.
RECURSIVE Carried(_)
Carried(w) ==
  CASE w[1] = "int" -> Head(w[2]) # "-"
    [] w[1] = "real" -> RealText(w[2]) = w[2]
    [] w[1] = "str" -> \A i \in DOMAIN w[2] : w[2][i] \notin {"quote", "backslash"}
    [] w[1] = "arr" -> \A i \in DOMAIN w[2] : Carried(w[2][i])
    [] w[1] = "obj" -> \A i \in DOMAIN w[2] :
                         /\ Carried(w[2][i][2]) /\ w[2][i][1] # <<>>
                         /\ Carried(<<"str", w[2][i][1]>>)
    [] OTHER -> TRUE
\* A number, string or literal that ends the text is never delivered.
Delivered(w) == w[1] \in {"arr", "obj", "null"}

\* What has been printed is read back as the same value exactly when the text can
\* carry it, in both styles: serializing_visitor and parser agree.
PrintedReadBack ==
  (v # None /\ (text = <<>> \/ p.failed # "")) =>
    ((p.failed = "" /\ get_value(p) = v) <=> (Carried(v) /\ Delivered(v)))

\* Whatever a text was read as, printing and reading it again gives the same value,
\* if the text can carry it: parse() is idempotent, and never makes up a value.
ReadPrintedBack ==
  (v = None /\ p.failed = "" /\ Len(p.stack) = 1) =>
    \A style \in {"compressed", "pretty"} :
      LET w == get_value(p)
      IN  (parse(Serialize(w, style)) = w) <=> (Carried(w) /\ Delivered(w))

\* The brackets that a text leaves open, read without the parser.
OpenBrackets(symbols) ==
  FoldLeft(LAMBDA r, ch :
             CASE ch = "quote" -> [r EXCEPT !.quoted = ~@]
               [] r.quoted -> r
               [] ch \in {"[", "{"} -> [r EXCEPT !.open = Append(@, ch)]
               [] ch \in {"]", "}"} -> [r EXCEPT !.open = IF @ = <<>> THEN @ ELSE Front(@)]
               [] OTHER -> r,
           [quoted |-> FALSE, open |-> <<>>], symbols).open
\* The builder's stack is exactly the brackets that the text has opened and not
\* closed, whatever else the text contains, as long as the parser accepts it; a
\* bracket is never closed by the other kind.
StackIsNesting ==
  p.failed = "" =>
    [i \in 1..(Len(p.stack) - 1) |-> IF p.stack[i + 1][1] = "array" THEN "[" ELSE "{"]
      = OpenBrackets(read)
=============================================================================
