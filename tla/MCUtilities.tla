---------------------------- MODULE MCUtilities ----------------------------
(***************************************************************************)
(* For TLC: json::value, the printer and the parser of JSON text, the      *)
(* sqlite wrapper, time, offset_ptr, getopt, pid_file and lock_file.  The   *)
(* components do not interact: a behaviour exercises the one that the      *)
(* variable part names, and the variables of the others stay Idle.         *)
(***************************************************************************)
EXTENDS Integers, Sequences, TLC

CONSTANT NoArgument

VARIABLES
  part,                                                              \* the component
  j, j_call,                                                         \* of JsonValue
  v, text, read, p,                                                  \* of JsonText
  q, q_call,                                                         \* of Sqlite
  kind, t, d, clock, t_call,                                         \* of Time
  checked, base, offset_, want, aborted,                             \* of OffsetPtr
  argv_, optind_, optpos_, optarg_, opt_, flag, ret, taken, twice,   \* of Getopt
  pathFile, file, held, proc, raced, opens,                          \* of PidFile
  obj, locked, pid, lost                                             \* of LockFile

jsonVars == <<j, j_call>>
textVars == <<v, text, read, p>>
sqliteVars == <<q, q_call>>
timeVars == <<kind, t, d, clock, t_call>>
offsetVars == <<checked, base, offset_, want, aborted>>
getoptVars == <<argv_, optind_, optpos_, optarg_, opt_, flag, ret, taken, twice>>
pidVars == <<pathFile, file, held, proc, raced, opens>>
lockVars == <<obj, locked, pid, lost>>
allVars == <<part, jsonVars, textVars, sqliteVars, timeVars, offsetVars, getoptVars, pidVars, lockVars>>

-----------------------------------------------------------------------------
\* Two values, and shared memory for two containers.
J == INSTANCE JsonValue
  WITH Vars <- {"a", "b"}, Blocks <- {1, 2}, Keys <- {1}, MaxWeight <- 3, call <- j_call

\* JSON values up to two levels deep that between them print in every way, and the
\* symbols of texts that nobody printed.
Leaves == {<<"null", <<>>>>, <<"true", <<>>>>, <<"int", <<"1", "0">>>>, <<"int", <<"-", "1">>>>,
           <<"real", <<"1", ".", "5">>>>, <<"real", <<"2", ".">>>>,
           <<"real", <<"1", ".", "5", "0", "0", "0", "0", "0", "1">>>>,
           <<"real", <<"1", "0", "0", "0", "0", "0", "0", ".">>>>,
           <<"str", <<>>>>, <<"str", <<"x", "[">>>>, <<"str", <<"quote">>>>, <<"str", <<"backslash">>>>}
Keys == {<<>>, <<"x">>, <<"quote">>}
Flat == {<<"arr", <<>>>>, <<"obj", <<>>>>}
        \cup {<<"arr", <<a>>>> : a \in Leaves} \cup {<<"arr", <<a, b>>>> : a, b \in Leaves}
        \cup {<<"obj", <<<<k, a>>>>>> : k \in Keys, a \in Leaves}
        \cup {<<"obj", <<<<<<>>, a>>, <<<<"x">>, b>>>>>> : a, b \in Leaves}
X == INSTANCE JsonText
  WITH Samples <- Leaves \cup Flat \cup {<<"arr", <<g>>>> : g \in Flat}
                  \cup {<<"obj", <<<<k, g>>>>>> : k \in Keys, g \in Flat},
       Symbols <- {" ", "null", "x", "1", "+", "-", ".", "quote", "[", "]", "{", "}", ":", ","},
       MaxText <- 5

\* Two databases, with a transaction guard each, and one prepared statement at a time.
Q == INSTANCE Sqlite
  WITH Databases <- {"d", "e"}, Statements <- {"s", "t"}, Guards <- {"x", "y"}, Conns <- {1, 2},
       Handles <- {1}, Params <- 1, Columns <- 1, call <- q_call

\* Powers of two for powers of ten, and seconds of three bits for 64: two readings
\* within a second, and the two ends of what a clock may say.
At(secs, nanos) == [secs |-> secs, nanos |-> nanos]
T == INSTANCE Time
  WITH Kilo <- 2, Hundred <- 1, MaxSecs <- 7, Kinds <- {"instant", "system_time"}, call <- t_call,
       Readings <- {At(0, 0), At(1, 3), At(1, 5), At(6, 0), At(7, 7)}

\* A block of two elements with a pointer in each, which may be mapped at two places,
\* and a pointer outside.
O == INSTANCE OffsetPtr
  WITH Count <- 2, Size <- 2, Inner <- {0, 1}, Outer <- {10}, Bases <- {8, 40},
       OuterAt <- 10 :> 21, Invalid <- 1000

\* An option of every type, and words that use them alone, together and wrongly.
Option(name, c, type, has, val) ==
  [name |-> name, name_short |-> c, type |-> type, flag |-> has, value |-> val]
G == INSTANCE Getopt
  WITH Options <- <<Option("all", "a", "no_arg", FALSE, {}), Option("req", "r", "required", FALSE, {}),
                    Option("opt", "o", "optional", FALSE, {}), Option("set", "s", "flag_set", TRUE, {1, 2}),
                    Option("none", "m", "flag_and", TRUE, {1}), Option("none", "n", "flag_or", TRUE, {2}),
                    Option("odd", "d", "no_arg", TRUE, {1})>>,
       Words <- {<<"x">>, <<"-">>, <<"-", "-">>, <<"-", "r">>, <<"-", "a", "o">>, <<"-", "o", "a">>,
                 <<"-", "r", "-">>, <<"-", "s", "m">>, <<"-", "n", "d">>, <<"-", "z">>,
                 <<"-", "-", "all">>, <<"-", "-", "all", "=", "x">>, <<"-", "-", "opt", "=", "-">>,
                 <<"-", "-", "opt", "=", "x">>, <<"-", "-", "req">>, <<"-", "-", "bad">>},
       MaxArgs <- 3, None <- NoArgument

P == INSTANCE PidFile
  WITH Procs <- {1, 2, 3}, Width <- 1 :> 1 @@ 2 :> 2 @@ 3 :> 1, Files <- {1, 2, 3}, MaxOpens <- 4
\* Two of the four objects are in one process.
F == INSTANCE LockFile
  WITH Objects <- {1, 2, 3, 4}, ProcOf <- 1 :> 1 @@ 2 :> 2 @@ 3 :> 2 @@ 4 :> 3, text <- pid

\* What the proofs about the components assume of them holds here.
ASSUME SettingsAssumption == O!OffsetsAssumption /\ P!FilesAssumption /\ F!ProcessAssumption
-----------------------------------------------------------------------------
Idle == CHOOSE i \in {"idle"} : TRUE

UtilitiesInit ==
  /\ part \in {"json", "text", "sqlite", "time", "offset_ptr", "getopt", "pid_file", "lock_file"}
  /\ IF part = "json" THEN J!Init
     ELSE j = Idle /\ j_call = Idle
  /\ IF part = "text" THEN X!Init
     ELSE v = Idle /\ text = Idle /\ read = Idle /\ p = Idle
  /\ IF part = "sqlite" THEN Q!Init
     ELSE q = Idle /\ q_call = Idle
  /\ IF part = "time" THEN T!Init
     ELSE kind = Idle /\ t = Idle /\ d = Idle /\ clock = Idle /\ t_call = Idle
  /\ IF part = "offset_ptr" THEN O!Init
     ELSE checked = Idle /\ base = Idle /\ offset_ = Idle /\ want = Idle /\ aborted = Idle
  /\ IF part = "getopt" THEN G!Init
     ELSE argv_ = Idle /\ optind_ = Idle /\ optpos_ = Idle /\ optarg_ = Idle /\ opt_ = Idle
          /\ flag = Idle /\ ret = Idle /\ taken = Idle /\ twice = Idle
  /\ IF part = "pid_file" THEN P!Init
     ELSE pathFile = Idle /\ file = Idle /\ held = Idle /\ proc = Idle /\ raced = Idle
          /\ opens = Idle
  /\ IF part = "lock_file" THEN F!Init
     ELSE obj = Idle /\ locked = Idle /\ pid = Idle /\ lost = Idle

UtilitiesNext ==
  \/ /\ part = "json" /\ J!Next
     /\ UNCHANGED <<part, textVars, sqliteVars, timeVars, offsetVars, getoptVars, pidVars, lockVars>>
  \/ /\ part = "text" /\ X!Next
     /\ UNCHANGED <<part, jsonVars, sqliteVars, timeVars, offsetVars, getoptVars, pidVars, lockVars>>
  \/ /\ part = "sqlite" /\ Q!Next
     /\ UNCHANGED <<part, jsonVars, textVars, timeVars, offsetVars, getoptVars, pidVars, lockVars>>
  \/ /\ part = "time" /\ T!Next
     /\ UNCHANGED <<part, jsonVars, textVars, sqliteVars, offsetVars, getoptVars, pidVars, lockVars>>
  \/ /\ part = "offset_ptr" /\ O!Next
     /\ UNCHANGED <<part, jsonVars, textVars, sqliteVars, timeVars, getoptVars, pidVars, lockVars>>
  \/ /\ part = "getopt" /\ G!Next
     /\ UNCHANGED <<part, jsonVars, textVars, sqliteVars, timeVars, offsetVars, pidVars, lockVars>>
  \/ /\ part = "pid_file" /\ P!Next
     /\ UNCHANGED <<part, jsonVars, textVars, sqliteVars, timeVars, offsetVars, getoptVars, lockVars>>
  \/ /\ part = "lock_file" /\ F!Next
     /\ UNCHANGED <<part, jsonVars, textVars, sqliteVars, timeVars, offsetVars, getoptVars, pidVars>>

UtilitiesSpec == UtilitiesInit /\ [][UtilitiesNext]_allVars

\* What later behaviour depends on: not the last call.
View == <<part, IF part = "json" THEN <<j.data, j.heap, j.wrapped>> ELSE Idle,
          IF part = "sqlite" THEN q ELSE Idle, kind, t, d, clock,
          textVars, offsetVars, getoptVars, pidVars, lockVars>>

-----------------------------------------------------------------------------
jsonContent == [x \in {"a", "b"} |-> LET m == J!Meaning(j.heap, j.data[x]) IN [tag |-> m[1], v |-> m[3]]]
HJ == INSTANCE Holder
  WITH MovedFrom <- J!MovedFrom, Weak <- J!Weak, Gone <- [tag |-> "gone", v |-> <<>>],
       content <- jsonContent, call <- j_call, threw <- FALSE

\* A json::value is what Holder says although copies share memory: a change of one
\* never shows in another.  Two values are equal when they are the same value.
JsonValuesSound ==
  /\ part = "json" => HJ!Init
  /\ [][part = "json" /\ ~j'.wrapped => HJ!Next]_allVars
  /\ [](part = "json" => J!EqualMeansSame)

\* A JSON value that is printed is read back, a text that is read as a value prints as
\* one that reads the same, and the parser's stack is the nesting of what it read.
JsonTextSound ==
  part = "text" => X!PrintedReadBack /\ X!ReadPrintedBack /\ X!StackIsNesting


\* Durations are exact or the call throws, saturates or is one that the code gets
\* wrong; what elapsed() measures is right, or zero when the clock was set back.
TimeSound == [](part = "time" => T!TimeExact) /\ [][part = "time" => T!ElapsedSane]_allVars

\* An offset_ptr points where it was made to, wherever the block is mapped, and
\* comparisons agree with the addresses.
OffsetPtrsSound == part = "offset_ptr" => O!OffsetPtrsSound

\* getopt uses every word or letter once, and every call gets further or is one of
\* those that return the same error for ever.
GetoptSound == [](part = "getopt" => G!ConsumedOnce) /\ [][part = "getopt" => G!ScanAdvances]_allVars

\* A pid file has one owner, and readers are told its pid or none; a lock file is held
\* by one process.
FilesExclusive ==
  /\ [](part = "pid_file" => P!OneOwner /\ P!ReadersTold)
  /\ [](part = "lock_file" => F!LockFileExclusive)
=============================================================================
