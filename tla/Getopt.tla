------------------------------- MODULE Getopt -------------------------------
(***************************************************************************)
(* getopt: the command line parser.  A program calls operator() until it   *)
(* returns -1, as the example of getopt.hpp does.  A word is a sequence of  *)
(* tokens: "-", "=", option letters, and the name of a long option or a    *)
(* piece of text as one token; argv[argc] is the null pointer.  A flag is   *)
(* the set of its bits, so that & and | are intersection and union.         *)
(***************************************************************************)
EXTENDS Naturals, Sequences, SequencesExt, FiniteSetsExt

CONSTANTS Words, MaxArgs, Options, None

VARIABLES argv_,    \* the words, argv[0] (the program's name) left out
          optind_, optpos_,
          optarg_,  \* <<word, position>>, or None for the null pointer
          opt_,     \* the current option's index, or 0
          flag,     \* the int the flag options share
          ret,      \* what the last call returned
          taken,    \* history: the characters consumed so far
          twice     \* history: some character was consumed twice

getoptVars == <<argv_, optind_, optpos_, optarg_, opt_, flag, ret, taken, twice>>

argc == Len(argv_) + 1

\* argv_[i][k]: positions count from 0, "nul" ends a word.
Char(i, k) == IF k < Len(argv_[i]) THEN argv_[i][k + 1] ELSE "nul"

Here(k) == Char(optind_, k)

First(S) == IF S = {} THEN 0 ELSE Min(S)

\* The first option with that letter, or that name; 0 if there is none.
Short(c) == First({n \in DOMAIN Options : Options[n].name_short = c})
Long(name) == First({n \in DOMAIN Options : Options[n].name = name})

\* The position of '=' in word i, 0 if there is none.
EqualSign(i) == First({k \in 3..Len(argv_[i]) : Char(i, k) = "="})

IsLong(i) == Char(i, 0) = "-" /\ Char(i, 1) = "-" /\ Char(i, 2) # "nul"

\* The characters of word i from position a to position b, and to its end.
Span(i, a, b) == {<<i, k>> : k \in a..b}
Rest(i, a) == IF i < argc THEN Span(i, a, Len(argv_[i]) - 1) ELSE {}

Init ==
  /\ argv_ \in BoundedSeq(Words, MaxArgs)
  /\ optind_ = 0 /\ optpos_ = 0
  /\ optarg_ = None /\ opt_ = 0
  /\ flag = {}
  /\ ret = "none"
  /\ taken = {} /\ twice = FALSE

Take(chars) ==
  /\ taken' = taken \cup chars
  /\ twice' = (twice \/ chars \cap taken # {})

Ends(i) ==
  /\ optind_' = i
  /\ optarg_' = None /\ opt_' = 0
  /\ ret' = "end"
  /\ Take({})
  /\ UNCHANGED <<argv_, optpos_, flag>>

\* '?' for a name or a letter no option has.
Unknown(i, pos, chars) ==
  /\ optind_' = i /\ optpos_' = pos
  /\ optarg_' = None /\ opt_' = 0
  /\ ret' = "?"
  /\ Take(chars)
  /\ UNCHANGED <<argv_, flag>>

\* What an option does to its flag; with another type it is an error.
FlagOf(o) ==
  CASE o.type = "flag_set" -> o.value
    [] o.type = "flag_and" -> flag \cap o.value
    [] o.type = "flag_or"  -> flag \cup o.value
    [] OTHER -> flag

\* Mutant: the position is kept after an argument was taken.
PosKept(pos, arg) == pos

\* optpos_ = 0 where an argument is taken.
PosAfter(pos, arg) == IF arg THEN 0 ELSE pos

\* handle_option: with optind_ = i and optpos_ = pos after the option itself.
Handle(n, i, pos, chars) ==
  LET o == Options[n]
      arg == \/ o.type = "required"
             \/ o.type = "optional" /\ i < argc /\ Char(i, pos) # "-"
  IN  /\ opt_' = n
      /\ optarg_' = IF arg /\ i < argc THEN <<i, pos>> ELSE None
      /\ optind_' = IF arg THEN i + 1 ELSE i
      /\ optpos_' = PosAfter(pos, arg)
      /\ flag' = IF o.flag THEN FlagOf(o) ELSE flag
      /\ ret' = CASE ~o.flag -> "value"
                  [] o.type \in {"flag_set", "flag_and", "flag_or"} -> "0"
                  [] OTHER -> "?"
      /\ Take(chars \cup IF arg THEN Rest(i, pos) ELSE {})
      /\ UNCHANGED argv_

LongOption(i) ==
  LET eq == EqualSign(i)
      n == Long(Char(i, 2))
  IN  CASE n = 0  -> Unknown(i, optpos_, {})
        [] eq # 0 -> Handle(n, i, eq + 1, Span(i, 0, eq))
        [] OTHER  -> Handle(n, i + 1, 0, Rest(i, 0))

ShortOption(i) ==
  LET at == IF optpos_ = 0 THEN 1 ELSE optpos_
      last == Char(i, at + 1) = "nul"
      next == IF last THEN i + 1 ELSE i
      pos == IF last THEN 0 ELSE at + 1
      n == Short(Char(i, at))
      chars == {<<i, at>>} \cup IF at = 1 THEN {<<i, 0>>} ELSE {}
  IN  IF n = 0 THEN Unknown(next, pos, chars) ELSE Handle(n, next, pos, chars)

\* getopt::operator()().
Call ==
  LET i == IF optind_ = 0 THEN 1 ELSE optind_
  IN  /\ ret # "end"
      /\ CASE argc <= i                              -> Ends(i)
           [] Char(i, 0) # "-" \/ Char(i, 1) = "nul" -> Ends(i)
           [] Char(i, 1) = "-" /\ Char(i, 2) = "nul" -> Ends(i + 1)
           [] IsLong(i)                              -> LongOption(i)
           [] OTHER                                  -> ShortOption(i)

Next == Call

Spec == Init /\ [][Next]_getoptVars

-----------------------------------------------------------------------------

\* A long option the parser does not get past: an unknown name, or one given
\* a value with '=' that its type does not take.
Stuck ==
  /\ optind_ \in 1..(argc - 1) /\ IsLong(optind_)
  /\ LET n == Long(Here(2))
         eq == EqualSign(optind_)
     IN  \/ n = 0
         \/ eq # 0 /\ \/ Options[n].type \notin {"required", "optional"}
                      \/ Options[n].type = "optional" /\ Here(eq + 1) = "-"

\* ConsumedOnce: outside such a word no character of the command line is
\* consumed twice, as an option, a name or an argument; the words passed are
\* consumed whole; and the position never runs past the end of a word, so that
\* every read stays in argv (impl/getopt.ipp:36-134).
ConsumedOnce ==
  /\ twice => Stuck
  /\ \A i \in 1..(argc - 1) :
       i < optind_ => \/ Rest(i, 0) \subseteq taken
                      \/ ret = "end" /\ i = optind_ - 1
  /\ optind_ \in 1..(argc - 1) /\ optpos_ # 0 => Here(optpos_) # "nul" \/ Stuck
  /\ optind_ <= argc + 1

\* ScanAdvances: every call moves on through the command line, so that the
\* loop of the documentation comes to -1, unless it is at a word of that kind;
\* from there it never moves: operator() returns the same thing for ever
\* (impl/getopt.ipp:59-85, 109-118).
ScanAdvances ==
  IF Stuck
  THEN Stuck' /\ optind_' = optind_
  ELSE \/ ret' = "end"
       \/ optind_' > optind_
       \/ optind_' = optind_ /\ optpos_' > optpos_

=============================================================================
