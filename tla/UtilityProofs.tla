--------------------------- MODULE UtilityProofs ---------------------------
(***************************************************************************)
(* The proofs about what processes share and how they are started:         *)
(* pid_file (module PidFile), lock_file (LockFile), offset_ptr (OffsetPtr) *)
(* and process (Process), each for any processes, files and objects.  The  *)
(* components do not interact: each has variables of its own here, and its *)
(* inductive invariant stands in its own module.                           *)
(***************************************************************************)
EXTENDS PidFile, TLAPS

-----------------------------------------------------------------------------
(* pid_file. *)

\* No file and no process that uses one.
LEMMA PidInit == Init => IInv
<1> SUFFICES ASSUME Init PROVE IInv
  OBVIOUS
<1>1. \A p \in Procs : proc[p] = Out
  BY Zenon DEF Init
<1>2. Writers = {} /\ Readers = {}
  BY <1>1 DEF Writers, Readers, Out
<1>3. TypeOK
  BY <1>1, Zenon DEF Init, TypeOK, Out, Empty, At
<1>4. Locks
  BY <1>1, <1>2 DEF Init, Locks, Out
<1> QED
  BY <1>1, <1>2, <1>3, <1>4 DEF IInv, AloneInFile, Text, Told, Current, Out, At

\* What a step of p leaves of the other processes.
Others(p) == \A q \in Procs \ {p} : proc'[q] = proc[q]

\* p closes its file.
LEMMA PidClose ==
  ASSUME FilesAssumption, IInv, NEW p \in Procs, ~At(p, "out"), Close(p), UNCHANGED <<pathFile, raced>>
  PROVE  IInv'
<1> USE DEF IInv
<1>1. proc[p].f \in Files
  BY DEF TypeOK, At
<1>2. Others(p) /\ proc'[p] = Out
  BY DEF Close, TypeOK, Others
<1>3. TypeOK'
  <2>1. file' \in [Files -> [pid : Procs \cup {0}, len : Nat, mixed : BOOLEAN]]
    BY DEF Close, TypeOK, Empty
  <2>2. held' \in [Files -> [Procs -> {"none", "shared", "unique"}]]
    BY <1>1 DEF Close, TypeOK
  <2> QED
    BY <1>2, <2>1, <2>2 DEF Close, TypeOK, At, Others, Out
<1>4. /\ Writers' = Writers \ {p} /\ Readers' = Readers \ {p}
      /\ \A q \in Writers' \cup Readers' : proc'[q] = proc[q] /\ q # p
  BY <1>2 DEF Writers, Readers, Others, Out
<1>5. Locks'
  <2>1. \A f \in Files, q \in Procs :
          held'[f][q] = IF f = proc[p].f /\ q = p THEN "none" ELSE held[f][q]
    BY <1>1 DEF Close, TypeOK
  <2>2. \A q \in Writers' \cup Readers' : held'[proc'[q].f][q] # "none"
    <3> SUFFICES ASSUME NEW q \in Writers' \cup Readers' PROVE held'[proc'[q].f][q] # "none"
      OBVIOUS
    <3>1. q \in Procs /\ proc[q].f \in Files /\ proc'[q] = proc[q] /\ q # p /\ held[proc[q].f][q] # "none"
      BY <1>4 DEF Writers, Readers, TypeOK, At, Locks
    <3> QED
      BY <2>1, <3>1
  <2>3. ASSUME NEW q \in Procs, proc'[q].pc \in {"write", "relock"} PROVE held'[proc'[q].f][q] = "unique"
    <3>1. q # p /\ proc'[q] = proc[q]
      BY <1>2, <2>3 DEF Others, Out
    <3>2. proc[q].f \in Files /\ held[proc[q].f][q] = "unique"
      BY <2>3, <3>1 DEF TypeOK, At, Locks
    <3> QED
      BY <2>1, <3>1, <3>2
  <2>4. \A f \in Files, r, q \in Procs : held'[f][r] = "unique" /\ r # q => held'[f][q] = "none"
    BY <2>1 DEF Locks
  <2> QED
    BY <2>2, <2>3, <2>4 DEF Locks
<1>6. AloneInFile' /\ Current'
  BY <1>2, <1>4 DEF AloneInFile, Current, At, Others, Out
<1>7. Text'
  <2> SUFFICES ASSUME NEW q \in Writers', ~At(q, "write")' PROVE file'[proc'[q].f].pid = q
    BY DEF Text
  <2>1. q \in Writers /\ proc'[q] = proc[q] /\ q # p /\ file[proc[q].f].pid = q /\ proc[q].f \in Files
    BY <1>4 DEF Text, At, TypeOK, Writers
  <2>2. file'[proc[q].f] = file[proc[q].f]
    BY <2>1 DEF Close, Writers
  <2> QED
    BY <2>1, <2>2
<1>8. Told'
  BY <1>2, <1>4 DEF Told, At, Others, Out
<1> QED
  BY <1>3, <1>5, <1>6, <1>7, <1>8

\* p gets a lock of kind k on its file: nobody else has one that excludes it.
Takes(p, k) ==
  /\ proc[p].f \in Files
  /\ held' \in [Files -> [Procs -> {"none", "shared", "unique"}]]
  /\ \A f \in Files, q \in Procs : held'[f][q] = IF f = proc[p].f /\ q = p THEN k ELSE held[f][q]
  /\ \A q \in Procs \ {p} : held[proc[p].f][q] # "unique"
  /\ k = "unique" => \A q \in Procs \ {p} : held[proc[p].f][q] = "none"
  /\ \A f \in Files, r, q \in Procs : held'[f][r] = "unique" /\ r # q => held'[f][q] = "none"

\* lock_file() of either kind, when it gets the lock.
LEMMA PidTakes ==
  ASSUME IInv, NEW p \in Procs, ~At(p, "out")
  PROVE  /\ lock_file_impl(p, TRUE) => Takes(p, "unique")
         /\ lock_file_impl(p, FALSE) => Takes(p, "shared")
<1>1. proc[p].f \in Files
  BY DEF IInv, TypeOK, At
<1> SUFFICES ASSUME NEW unique \in BOOLEAN, NEW k, k = IF unique THEN "unique" ELSE "shared",
                    lock_file_impl(p, unique)
             PROVE  Takes(p, k)
  BY Zenon
<1>2. held' \in [Files -> [Procs -> {"none", "shared", "unique"}]]
  BY <1>1 DEF lock_file_impl, IInv, TypeOK
<1>3. \A f \in Files, q \in Procs : held'[f][q] = IF f = proc[p].f /\ q = p THEN k ELSE held[f][q]
  BY <1>1 DEF lock_file_impl, IInv, TypeOK
<1>4. /\ \A q \in Procs \ {p} : held[proc[p].f][q] # "unique"
      /\ k = "unique" => \A q \in Procs \ {p} : held[proc[p].f][q] = "none"
  BY DEF lock_file_impl, Granted
<1>5. \A f \in Files, r, q \in Procs : held'[f][r] = "unique" /\ r # q => held'[f][q] = "none"
  BY <1>3, <1>4 DEF IInv, Locks
<1> QED
  BY <1>1, <1>2, <1>3, <1>4, <1>5 DEF Takes

\* p goes on to l, with its file, and nothing else of the processes changes.
Goes(p, l) ==
  /\ \A q \in Procs \ {p} : proc'[q] = proc[q]
  /\ proc'[p].pc = l /\ proc'[p].f = proc[p].f

\* A step of p to another place in its call.
LEMMA PidGoes ==
  ASSUME IInv, NEW p \in Procs, ~At(p, "out"), NEW l, Go(p, l),
         l \in {"write", "relock", "own", "unlink", "close", "read"}
  PROVE  /\ Goes(p, l) /\ proc'[p].got = proc[p].got
         /\ proc' \in [Procs -> [pc : {"out", "lock", "write", "relock", "own", "unlink", "close",
                                       "rlock", "read", "told"},
                                 f : Files \cup {0}, got : Procs \cup {0, -1, Mixed}]]
         /\ \A q \in Procs : At(q, "out")' <=> proc'[q].f = 0
         /\ Writers' = IF l = "read" THEN Writers \ {p} ELSE Writers \cup {p}
         /\ Readers' = IF l = "read" THEN Readers \cup {p} ELSE Readers \ {p}
<1>1. /\ Goes(p, l) /\ proc'[p].got = proc[p].got
      /\ proc' \in [Procs -> [pc : {"out", "lock", "write", "relock", "own", "unlink", "close",
                                    "rlock", "read", "told"},
                              f : Files \cup {0}, got : Procs \cup {0, -1, Mixed}]]
  BY DEF Go, IInv, TypeOK, Goes
<1>2. \A q \in Procs : At(q, "out")' <=> proc'[q].f = 0
  BY <1>1 DEF Goes, IInv, TypeOK, At
<1> QED
  BY <1>1, <1>2 DEF Goes, Writers, Readers

\* LockUnique(p), granted.
LEMMA PidUnique ==
  ASSUME FilesAssumption, IInv, NEW p \in Procs, At(p, "lock"), lock_file_impl(p, TRUE),
         Go(p, "write"), UNCHANGED <<file, pathFile, raced>>
  PROVE  IInv'
<1> DEFINE g == proc[p].f
<1>1. ~At(p, "out")
  BY DEF At
<1>2. /\ g \in Files
      /\ held' \in [Files -> [Procs -> {"none", "shared", "unique"}]]
      /\ \A f \in Files, q \in Procs : held'[f][q] = IF f = g /\ q = p THEN "unique" ELSE held[f][q]
      /\ \A q \in Procs \ {p} : held[g][q] = "none"
      /\ \A f \in Files, r, q \in Procs : held'[f][r] = "unique" /\ r # q => held'[f][q] = "none"
  BY <1>1, PidTakes, Zenon DEF Takes
<1>3. /\ Goes(p, "write") /\ proc'[p].got = proc[p].got
      /\ proc' \in [Procs -> [pc : {"out", "lock", "write", "relock", "own", "unlink", "close",
                                    "rlock", "read", "told"},
                              f : Files \cup {0}, got : Procs \cup {0, -1, Mixed}]]
      /\ \A q \in Procs : At(q, "out")' <=> proc'[q].f = 0
      /\ Writers' = Writers \cup {p} /\ Readers' = Readers \ {p}
  BY <1>1, PidGoes
<1>4. TypeOK'
  BY <1>2, <1>3 DEF IInv, TypeOK
<1>5. \A q \in Writers \cup Readers : q \in Procs /\ q # p /\ proc[q].f # g /\ proc[q].f \in Files /\ proc'[q] = proc[q]
  BY <1>2, <1>3 DEF IInv, Locks, Writers, Readers, At, TypeOK, Goes
<1>6. Locks'
  <2>1. \A q \in Writers' \cup Readers' : held'[proc'[q].f][q] # "none"
    BY <1>2, <1>3, <1>5 DEF IInv, Locks, Goes
  <2>2. ASSUME NEW q \in Procs, proc'[q].pc \in {"write", "relock"} PROVE held'[proc'[q].f][q] = "unique"
    <3>1. q # p => q \in Writers
      BY <1>3, <2>2 DEF Goes, Writers
    <3> QED
      BY <1>2, <1>3, <1>5, <2>2, <3>1 DEF IInv, Locks, Goes
  <2> QED
    BY <1>2, <2>1, <2>2 DEF Locks
<1>7. AloneInFile'
  BY <1>3, <1>5 DEF IInv, AloneInFile, Goes
<1>8. Text'
  BY <1>3, <1>5 DEF IInv, Text, Goes, At
<1>9. Told'
  <2> SUFFICES ASSUME NEW r \in Procs, NEW w \in Writers', At(r, "told")', proc'[w].f = proc'[r].f
               PROVE  proc'[r].got \in {w, Mixed}
    BY DEF Told
  <2>1. r \in Readers /\ At(r, "told") /\ proc'[r] = proc[r]
    BY <1>3 DEF Goes, Readers, At
  <2>2. w # p /\ w \in Writers
    BY <1>3, <1>5, <2>1 DEF Goes
  <2> QED
    BY <1>5, <2>1, <2>2 DEF IInv, Told
<1>10. Current'
  BY <1>3 DEF IInv, Current, Goes, At
<1> QED
  BY <1>4, <1>6, <1>7, <1>8, <1>9, <1>10 DEF IInv

\* The text of a file changes only by its one writer, and nobody reads meanwhile.
LEMMA PidWrite ==
  ASSUME FilesAssumption, IInv, NEW p \in Procs, do_write_pid(p)
  PROVE  IInv'
<1> DEFINE g == proc[p].f
<1>1. ~At(p, "out") /\ Go(p, "relock") /\ UNCHANGED <<pathFile, held, raced>> /\ At(p, "write")
  BY DEF At, do_write_pid
<1>2. /\ Goes(p, "relock") /\ proc'[p].got = proc[p].got
      /\ proc' \in [Procs -> [pc : {"out", "lock", "write", "relock", "own", "unlink", "close",
                                    "rlock", "read", "told"},
                              f : Files \cup {0}, got : Procs \cup {0, -1, Mixed}]]
      /\ \A q \in Procs : At(q, "out")' <=> proc'[q].f = 0
      /\ Writers' = Writers \cup {p} /\ Readers' = Readers \ {p}
  BY <1>1, PidGoes
<1>3. g \in Files /\ p \in Writers /\ p \notin Readers /\ held[g][p] = "unique" /\ Writers' = Writers /\ Readers' = Readers
  BY <1>1, <1>2 DEF IInv, TypeOK, At, Writers, Readers, Locks
<1>4. /\ file' \in [Files -> [pid : Procs \cup {0}, len : Nat, mixed : BOOLEAN]]
      /\ file'[g].pid = p /\ \A f \in Files \ {g} : file'[f] = file[f]
  <2>1. file[g].len \in Nat /\ Width[p] \in Nat
    BY <1>3, Zenon DEF FilesAssumption, IInv, TypeOK
  <2>2. Written(p) \in [pid : Procs \cup {0}, len : Nat, mixed : BOOLEAN] /\ Written(p).pid = p
    BY <2>1 DEF Written
  <2>3. file' = [file EXCEPT ![g] = Written(p)]
    BY DEF do_write_pid
  <2> QED
    BY <1>3, <2>2, <2>3 DEF IInv, TypeOK
<1>5. TypeOK'
  BY <1>1, <1>2, <1>4 DEF IInv, TypeOK
<1>6. Locks'
  BY <1>1, <1>2, <1>3 DEF IInv, Locks, Goes, Writers, Readers
<1>7. AloneInFile'
  BY <1>2, <1>3 DEF IInv, AloneInFile, Goes, Writers
<1>8. Text'
  <2> SUFFICES ASSUME NEW q \in Writers, ~At(q, "write")', q # p PROVE file'[proc'[q].f].pid = q
    BY <1>2, <1>3, <1>4 DEF Text, Goes
  <2>1. proc'[q] = proc[q] /\ proc[q].f \in Files \ {g}
    BY <1>2, <1>3 DEF Goes, IInv, AloneInFile, TypeOK, Writers, At
  <2> QED
    BY <1>4, <2>1 DEF IInv, Text, At
<1>9. Told'
  BY <1>2, <1>3 DEF IInv, Told, Goes, At, Writers
<1>10. Current'
  BY <1>1, <1>2, <1>3 DEF IInv, Current, Goes, At, Writers
<1> QED
  BY <1>5, <1>6, <1>7, <1>8, <1>9, <1>10 DEF IInv

\* Relock(p) and EndLock(p): a writer changes the kind of its lock, or keeps it.
LEMMA PidOwn ==
  ASSUME FilesAssumption, IInv, NEW p \in Procs, Relock(p) \/ EndLock(p)
  PROVE  IInv'
<1> DEFINE g == proc[p].f
<1>1. PICK l \in {"own", "unlink"} :
        /\ Go(p, l)
        /\ IF l = "own" THEN At(p, "relock") ELSE At(p, "own")
        /\ UNCHANGED <<pathFile, file, raced>>
  BY Zenon DEF Relock, EndLock, At
<1>2. ~At(p, "out") /\ p \in Writers /\ p \notin Readers /\ ~At(p, "write")
  BY <1>1 DEF At, Writers, Readers
<1>3. /\ Goes(p, l) /\ proc'[p].got = proc[p].got
      /\ proc' \in [Procs -> [pc : {"out", "lock", "write", "relock", "own", "unlink", "close",
                                    "rlock", "read", "told"},
                              f : Files \cup {0}, got : Procs \cup {0, -1, Mixed}]]
      /\ \A q \in Procs : At(q, "out")' <=> proc'[q].f = 0
      /\ Writers' = Writers \cup {p} /\ Readers' = Readers \ {p}
  BY <1>1, <1>2, PidGoes
<1>4. Writers' = Writers /\ Readers' = Readers
  BY <1>2, <1>3
<1>5. PICK k \in {"shared", "unique"} : Takes(p, k) \/ (UNCHANGED held /\ l = "unlink")
  BY <1>1, <1>2, PidTakes, Zenon DEF Relock, EndLock, At
<1>6. TypeOK'
  BY <1>1, <1>3, <1>5 DEF IInv, TypeOK, Takes
<1>7. /\ g \in Files
      /\ \A f \in Files, q \in Procs : q # p \/ f # g => held'[f][q] = held[f][q]
      /\ held'[g][p] # "none"
      /\ \A f \in Files, r, q \in Procs : held'[f][r] = "unique" /\ r # q => held'[f][q] = "none"
  BY <1>2, <1>5 DEF Takes, IInv, Locks, TypeOK, At
<1>8. Locks'
  <2>1. \A q \in Writers' \cup Readers' : held'[proc'[q].f][q] # "none"
    <3> SUFFICES ASSUME NEW q \in Writers \cup Readers, q # p PROVE held'[proc'[q].f][q] # "none"
      BY <1>3, <1>4, <1>7 DEF Goes
    <3>1. q \in Procs /\ proc'[q] = proc[q] /\ proc[q].f \in Files /\ held[proc[q].f][q] # "none"
      BY <1>3 DEF Goes, IInv, Locks, TypeOK, At, Writers, Readers
    <3> QED
      BY <1>7, <3>1
  <2>2. ASSUME NEW q \in Procs, proc'[q].pc \in {"write", "relock"} PROVE held'[proc'[q].f][q] = "unique"
    <3>1. q # p /\ proc'[q] = proc[q]
      BY <1>3, <2>2 DEF Goes
    <3>2. proc[q].f \in Files /\ held[proc[q].f][q] = "unique"
      BY <2>2, <3>1 DEF IInv, Locks, TypeOK, At
    <3> QED
      BY <1>7, <3>1, <3>2
  <2> QED
    BY <1>7, <2>1, <2>2 DEF Locks
<1>9. AloneInFile' /\ Text'
  BY <1>1, <1>2, <1>3, <1>4 DEF IInv, AloneInFile, Text, Goes, Writers, At
<1>10. Told'
  BY <1>3, <1>4 DEF IInv, Told, Goes, At, Writers
<1>11. Current'
  BY <1>1, <1>2, <1>3, <1>4 DEF IInv, Current, Goes, At, Writers
<1> QED
  BY <1>6, <1>8, <1>9, <1>10, <1>11 DEF IInv

\* RLock(p): a reader joins, and no lock of a writer changes.
LEMMA PidRLock == ASSUME IInv, NEW p \in Procs, RLock(p) PROVE IInv'
<1> DEFINE g == proc[p].f
<1>1. /\ Go(p, "read") /\ UNCHANGED <<pathFile, file, raced>> /\ At(p, "rlock") /\ ~At(p, "out")
      /\ p \notin Writers /\ p \notin Readers
  BY DEF RLock, At, Writers, Readers
<1>2. /\ Goes(p, "read") /\ proc'[p].got = proc[p].got
      /\ proc' \in [Procs -> [pc : {"out", "lock", "write", "relock", "own", "unlink", "close",
                                    "rlock", "read", "told"},
                              f : Files \cup {0}, got : Procs \cup {0, -1, Mixed}]]
      /\ \A q \in Procs : At(q, "out")' <=> proc'[q].f = 0
      /\ Writers' = Writers \ {p} /\ Readers' = Readers \cup {p}
  BY <1>1, PidGoes
<1>2a. Writers' = Writers
  BY <1>1, <1>2
<1>3. Takes(p, "shared")
  BY <1>1, PidTakes, Zenon DEF RLock
<1>4. TypeOK'
  BY <1>1, <1>2, <1>3 DEF IInv, TypeOK, Takes
<1>5. Locks'
  <2>1. \A q \in Writers' \cup Readers' : held'[proc'[q].f][q] # "none"
    <3> SUFFICES ASSUME NEW q \in Writers \cup Readers, q # p PROVE held'[proc'[q].f][q] # "none"
      BY <1>2, <1>2a, <1>3 DEF Goes, Takes
    <3>1. q \in Procs /\ proc'[q] = proc[q] /\ proc[q].f \in Files /\ held[proc[q].f][q] # "none"
      BY <1>2 DEF Goes, IInv, Locks, TypeOK, At, Writers, Readers
    <3> QED
      BY <1>3, <3>1 DEF Takes
  <2>2. ASSUME NEW q \in Procs, proc'[q].pc \in {"write", "relock"} PROVE held'[proc'[q].f][q] = "unique"
    <3>1. q # p /\ proc'[q] = proc[q]
      BY <1>2, <2>2 DEF Goes
    <3>2. proc[q].f \in Files /\ held[proc[q].f][q] = "unique"
      BY <2>2, <3>1 DEF IInv, Locks, TypeOK, At
    <3> QED
      BY <1>3, <3>1, <3>2 DEF Takes
  <2> QED
    BY <1>3, <2>1, <2>2 DEF Locks, Takes
<1>6. \A q \in Writers : q # p /\ proc'[q] = proc[q]
  BY <1>1, <1>2 DEF Goes, Writers
<1>7. AloneInFile' /\ Text'
  BY <1>1, <1>2a, <1>6 DEF IInv, AloneInFile, Text, At
<1>8. Told' /\ Current'
  BY <1>1, <1>2, <1>2a, <1>6 DEF IInv, Told, Current, Goes, At
<1> QED
  BY <1>4, <1>5, <1>7, <1>8 DEF IInv

\* do_read_pid(p): a file with a writer that p's lock lets be is one it has written.
LEMMA PidRead == ASSUME IInv, NEW p \in Procs, do_read_pid(p) PROVE IInv'
<1> DEFINE g == proc[p].f
           v == IF file[g].mixed THEN Mixed ELSE file[g].pid
<1>1. /\ At(p, "read") /\ UNCHANGED <<pathFile, file, held, raced>> /\ p \in Readers /\ p \notin Writers
      /\ g \in Files
  BY DEF do_read_pid, At, Writers, Readers, IInv, TypeOK
<1>2. /\ Goes(p, "told")
      /\ proc'[p].got = v
      /\ proc' \in [Procs -> [pc : {"out", "lock", "write", "relock", "own", "unlink", "close",
                                    "rlock", "read", "told"},
                              f : Files \cup {0}, got : Procs \cup {0, -1, Mixed}]]
  <2>1. v \in Procs \cup {0, -1, Mixed}
    BY <1>1 DEF IInv, TypeOK
  <2>2. proc' = [proc EXCEPT ![p].pc = "told", ![p].got = v]
    BY DEF do_read_pid
  <2> HIDE DEF v
  <2>3. /\ proc' = [proc EXCEPT ![p] = proc'[p]] /\ proc'[p].pc = "told" /\ proc'[p].f = g
        /\ proc'[p].got = v /\ proc'[p] = [pc |-> "told", f |-> g, got |-> v]
    BY <2>2, Zenon DEF IInv, TypeOK
  <2>4. proc'[p] \in [pc : {"out", "lock", "write", "relock", "own", "unlink", "close",
                            "rlock", "read", "told"},
                      f : Files \cup {0}, got : Procs \cup {0, -1, Mixed}]
    BY <1>1, <2>1, <2>3
  <2> QED
    BY <2>3, <2>4 DEF IInv, TypeOK, Goes
<1>3. Writers' = Writers /\ Readers' = Readers /\ Writers \subseteq Procs /\ Readers \subseteq Procs
  BY <1>1, <1>2 DEF Goes, Writers, Readers
<1>4. TypeOK'
  <2>1. \A q \in Procs : At(q, "out")' <=> proc'[q].f = 0
    <3>1. proc[p].f # 0 /\ proc'[p].pc = "told" /\ proc'[p].f = proc[p].f
      BY <1>1, <1>2 DEF IInv, TypeOK, Goes, At
    <3>2. \A q \in Procs \ {p} : proc'[q] = proc[q]
      BY <1>2 DEF Goes
    <3> QED
      BY <3>1, <3>2 DEF IInv, TypeOK, At
  <2> QED
    BY <1>1, <1>2, <2>1 DEF IInv, TypeOK
<1>5. \A q \in Procs : proc'[q].f = proc[q].f
  BY <1>2 DEF Goes
<1>6. \A q \in Procs \ {p} : proc'[q] = proc[q]
  BY <1>2 DEF Goes
<1>7. Locks'
  BY <1>1, <1>2, <1>3, <1>5, <1>6 DEF IInv, Locks, Writers, Readers, Goes
<1>8. AloneInFile' /\ Text'
  BY <1>1, <1>3, <1>5, <1>6 DEF IInv, AloneInFile, Text, At
<1>8a. Current'
  BY <1>1, <1>2, <1>3, <1>5, <1>6 DEF IInv, Current, At, Goes
<1>9. Told'
  <2> SUFFICES ASSUME NEW w \in Writers, proc[w].f = g PROVE proc'[p].got \in {w, Mixed}
    BY <1>3, <1>5, <1>6 DEF Told, IInv, At
  <2>1. w \in Procs /\ w # p /\ held[g][w] # "none" /\ held[g][p] # "none"
    BY <1>1 DEF IInv, Locks, Writers
  <2>2. ~At(w, "write")
    BY <1>1, <2>1 DEF IInv, Locks, At
  <2>3. file[g].pid = w
    BY <2>2 DEF IInv, Text
  <2> QED
    BY <1>2, <2>3
<1> QED
  BY <1>4, <1>7, <1>8, <1>8a, <1>9 DEF IInv

\* Unlink(p): the path leads nowhere, and only p, who is leaving, was to write there.
LEMMA PidUnlink == ASSUME IInv, NEW p \in Procs, Unlink(p) PROVE IInv'
<1>1. /\ Go(p, "close") /\ UNCHANGED <<file, held>> /\ At(p, "unlink") /\ ~At(p, "out")
      /\ p \in Writers /\ p \notin Readers /\ pathFile' = 0
      /\ raced' = (raced \/ pathFile # proc[p].f \/ \E q \in Procs : At(q, "lock") /\ proc[q].f = pathFile)
  BY DEF Unlink, At, Writers, Readers
<1>2. /\ Goes(p, "close") /\ proc'[p].got = proc[p].got
      /\ proc' \in [Procs -> [pc : {"out", "lock", "write", "relock", "own", "unlink", "close",
                                    "rlock", "read", "told"},
                              f : Files \cup {0}, got : Procs \cup {0, -1, Mixed}]]
      /\ \A q \in Procs : At(q, "out")' <=> proc'[q].f = 0
      /\ Writers' = Writers \cup {p} /\ Readers' = Readers \ {p}
  BY <1>1, PidGoes
<1>3. Writers' = Writers /\ Readers' = Readers /\ Writers \subseteq Procs /\ Readers \subseteq Procs
  BY <1>1, <1>2 DEF Writers, Readers
<1>4. \A q \in Procs : proc'[q].f = proc[q].f /\ proc'[q].got = proc[q].got
  BY <1>2 DEF Goes
<1>5. \A q \in Procs \ {p} : proc'[q] = proc[q]
  BY <1>2 DEF Goes
<1>6. TypeOK'
  BY <1>1, <1>2 DEF IInv, TypeOK
<1>7. Locks'
  BY <1>1, <1>2, <1>3, <1>4, <1>5 DEF IInv, Locks, Goes
<1>8. AloneInFile' /\ Text'
  BY <1>1, <1>3, <1>4, <1>5 DEF IInv, AloneInFile, Text, At
<1>9. Told'
  BY <1>2, <1>3, <1>4, <1>5 DEF IInv, Told, Goes, At
<1>10. Current'
  <2> SUFFICES ASSUME ~raced', NEW q \in Procs, At(q, "lock")' \/ (q \in Writers /\ ~At(q, "close")')
               PROVE  FALSE
    BY <1>3 DEF Current
  <2>1. q # p /\ proc'[q] = proc[q]
    BY <1>1, <1>2, <1>5 DEF Goes, At
  <2>2. proc[q].f = pathFile /\ pathFile = proc[p].f /\ ~At(q, "lock")
    BY <1>1, <2>1, Zenon DEF IInv, Current, At
  <2> QED
    BY <1>1, <2>1, <2>2 DEF IInv, AloneInFile, At
<1> QED
  BY <1>6, <1>7, <1>8, <1>9, <1>10 DEF IInv

\* Open(p) and OpenRead(p): p comes with the file of the path, which may be a new one.
LEMMA PidOpen == ASSUME FilesAssumption, IInv, NEW p \in Procs, Open(p) \/ OpenRead(p) PROVE IInv'
<1>1. At(p, "out") /\ p \notin Writers /\ p \notin Readers /\ UNCHANGED <<held, raced>>
  BY DEF Open, OpenRead, At, Writers, Readers
<1>2. PICK g \in Files, l \in {"lock", "rlock"} :
        /\ proc' = [proc EXCEPT ![p].pc = l, ![p].f = g] /\ pathFile' = g
        /\ \/ g = pathFile /\ UNCHANGED file
           \/ pathFile = 0 /\ g \in Unused /\ file' = [file EXCEPT ![g] = Empty]
  <2>1. CASE OpenRead(p) \/ (Open(p) /\ pathFile # 0)
    <3>1. pathFile \in Files /\ pathFile' = pathFile /\ UNCHANGED file
      BY <2>1 DEF Open, OpenRead, IInv, TypeOK
    <3>2. PICK l \in {"lock", "rlock"} : proc' = [proc EXCEPT ![p].pc = l, ![p].f = pathFile]
      BY <2>1 DEF Open, OpenRead
    <3> QED
      BY <3>1, <3>2, Zenon
  <2>2. CASE Open(p) /\ pathFile = 0
    <3>1. PICK g \in Unused :
            /\ pathFile' = g /\ file' = [file EXCEPT ![g] = Empty]
            /\ proc' = [proc EXCEPT ![p].pc = "lock", ![p].f = g]
      BY <2>2 DEF Open
    <3>2. g \in Files
      BY DEF Unused
    <3> QED
      BY <2>2, <3>1, <3>2, Zenon
  <2> QED
    BY <2>1, <2>2
<1>3. /\ \A q \in Procs \ {p} : proc'[q] = proc[q]
      /\ proc'[p] = [pc |-> l, f |-> g, got |-> proc[p].got]
      /\ proc' \in [Procs -> [pc : {"out", "lock", "write", "relock", "own", "unlink", "close",
                                    "rlock", "read", "told"},
                              f : Files \cup {0}, got : Procs \cup {0, -1, Mixed}]]
  <2>0. proc' = [proc EXCEPT ![p] = [proc[p] EXCEPT !.pc = l, !.f = g]]
    BY <1>2, Zenon
  <2>1. proc'[p] = [pc |-> l, f |-> g, got |-> proc[p].got] /\ proc' = [proc EXCEPT ![p] = proc'[p]]
    BY <2>0, Zenon DEF IInv, TypeOK
  <2>2. proc'[p] \in [pc : {"out", "lock", "write", "relock", "own", "unlink", "close",
                            "rlock", "read", "told"},
                      f : Files \cup {0}, got : Procs \cup {0, -1, Mixed}]
    BY <2>1 DEF IInv, TypeOK
  <2> QED
    BY <2>1, <2>2 DEF IInv, TypeOK
<1>4. Writers' = Writers /\ Readers' = Readers /\ Writers \subseteq Procs \ {p} /\ Readers \subseteq Procs \ {p}
  BY <1>1, <1>3 DEF Writers, Readers
<1>5. file' \in [Files -> [pid : Procs \cup {0}, len : Nat, mixed : BOOLEAN]]
  <2>1. Empty \in [pid : Procs \cup {0}, len : Nat, mixed : BOOLEAN]
    BY DEF Empty
  <2>2. file' = file \/ file' = [file EXCEPT ![g] = Empty]
    BY <1>2
  <2> QED
    BY <2>1, <2>2 DEF IInv, TypeOK
<1>6. TypeOK'
  <2>1. \A q \in Procs : At(q, "out")' <=> proc'[q].f = 0
    <3>1. proc'[p].pc # "out" /\ proc'[p].f # 0
      BY <1>3 DEF FilesAssumption
    <3> QED
      BY <1>3, <3>1, Zenon DEF IInv, TypeOK, At
  <2> QED
    BY <1>1, <1>2, <1>3, <1>5, <2>1 DEF IInv, TypeOK
<1>7. Locks'
  <2>1. \A q \in Procs : proc'[q].pc \in {"write", "relock"} => q # p
    BY <1>3
  <2> QED
    BY <1>1, <1>3, <1>4, <2>1 DEF IInv, Locks
<1>8. AloneInFile'
  BY <1>3, <1>4 DEF IInv, AloneInFile
<1>9. Text'
  <2> SUFFICES ASSUME NEW q \in Writers, ~At(q, "write") PROVE file'[proc[q].f] = file[proc[q].f]
    BY <1>3, <1>4 DEF IInv, Text, At
  <2>1. g \in Unused => proc[q].f # g
    BY <1>4 DEF Unused, Opened
  <2>2. proc[q].f \in Files
    BY <1>4 DEF IInv, TypeOK, At, Writers
  <2> QED
    BY <1>2, <2>1, <2>2 DEF IInv, TypeOK
<1>10. Told'
  <2>1. \A q \in Procs : At(q, "told")' => q # p
    BY <1>3 DEF At
  <2> QED
    BY <1>3, <1>4, <2>1 DEF IInv, Told, At
<1>11. Current'
  <2> SUFFICES ASSUME ~raced, NEW q \in Procs, q # p, At(q, "lock") \/ (q \in Writers /\ ~At(q, "close"))
               PROVE  proc[q].f = g
    BY <1>1, <1>2, <1>3, <1>4 DEF Current, At
  <2>1. proc[q].f = pathFile /\ proc[q].f # 0
    BY DEF IInv, Current, TypeOK, At, Writers
  <2> QED
    BY <1>2, <2>1
<1> QED
  BY <1>6, <1>7, <1>8, <1>9, <1>10, <1>11 DEF IInv

\* The invariant of pid_file is inductive.
LEMMA PidNext == ASSUME FilesAssumption PROVE IInv /\ [Next]_pidVars => IInv'
<1> SUFFICES ASSUME IInv, [Next]_pidVars PROVE IInv'
  OBVIOUS
<1>1. CASE UNCHANGED pidVars
  BY <1>1 DEF pidVars, IInv, TypeOK, Locks, AloneInFile, Text, Told, Current, Writers, Readers, At
<1>2. ASSUME NEW p \in Procs, Step(p) \/ EndLock(p) \/ Killed(p) PROVE IInv'
  <2>1. CASE LockUnique(p)
    BY <2>1, PidUnique, PidClose, Zenon DEF LockUnique, At
  <2>2. CASE EndClose(p) \/ ReadClose(p) \/ Killed(p)
    BY <2>2, PidClose DEF EndClose, ReadClose, Killed, At
  <2> QED
    BY <1>2, <2>1, <2>2, PidWrite, PidOwn, PidRLock, PidRead, PidUnlink DEF Step
<1> QED
  BY <1>1, <1>2, PidOpen DEF Next

\* A pid file has one owner, and readers are told its pid or none.
LEMMA PidSound == ASSUME FilesAssumption PROVE Spec => [](OneOwner /\ ReadersTold)
<1>1. ASSUME IInv PROVE OneOwner /\ ReadersTold
  <2>1. Owners \subseteq Writers /\ Owners \subseteq Procs
    BY DEF Owners, Writers, At
  <2>2. ASSUME ~raced PROVE \A p, q \in Owners : p = q /\ proc[p].f = pathFile
    <3>1. \A p \in Owners : proc[p].f = pathFile
      BY <1>1, <2>1, <2>2, Zenon DEF IInv, Current, Owners, At
    <3> QED
      BY <1>1, <2>1, <3>1 DEF IInv, AloneInFile
  <2> QED
    BY <1>1, <2>1, <2>2 DEF IInv, OneOwner, ReadersTold, AloneInFile, Told
<1> QED
  BY <1>1, PidInit, PidNext, PTL DEF Spec

-----------------------------------------------------------------------------
(* lock_file. *)

CONSTANTS Objects, ProcOf
VARIABLES obj, locked, text, lost
LF == INSTANCE LockFile

\* No object owns the lock.
LEMMA FileInit == LF!Init => LF!IInv
BY DEF LF!Init, LF!IInv, LF!TypeOK, LF!New, LF!Owning, LF!LockKept, LF!TextKept, LF!Holds

\* The descriptor o had is closed and o holds nothing.
LEMMA CloseKeeps ==
  ASSUME LF!IInv, NEW o \in Objects, LF!Closed(o), LF!TypeOK',
         \A q \in Objects \ {o} : obj'[q] = obj[q],
         ~obj'[o].owns, obj'[o].pc \notin {"truncate", "write"}, UNCHANGED text
  PROVE  LF!IInv'
<1>1. \A q \in LF!Owning' : q \in LF!Owning /\ q # o /\ obj'[q] = obj[q]
  BY DEF LF!Owning
<1>2. LF!LockKept'
  <2> SUFFICES ASSUME NEW q \in Objects, q \notin lost', LF!Holds(q)' PROVE locked' = ProcOf[q]
    BY DEF LF!LockKept
  <2>1. q # o /\ obj'[q] = obj[q] /\ LF!Holds(q) /\ q \notin lost /\ q \notin LF!Siblings(o)
    BY DEF LF!Holds, LF!Closed
  <2>2. locked = ProcOf[q] /\ ProcOf[q] # ProcOf[o]
    BY <2>1 DEF LF!IInv, LF!LockKept, LF!Siblings, LF!Holds
  <2> QED
    BY <2>2 DEF LF!Closed
<1>3. lost' = {} => lost = {}
  BY DEF LF!Closed
<1> QED
  BY <1>1, <1>2, <1>3 DEF LF!IInv, LF!TextKept, LF!At

\* A step of an object of lock_file.
LEMMA ObjectKeeps == ASSUME LF!ProcessAssumption, LF!IInv, NEW o \in Objects, LF!Step(o) \/ LF!Start(o) PROVE LF!IInv'
<1> USE DEF LF!IInv, LF!TypeOK, LF!At, LF!Go
<1>1. ASSUME NEW l \in {"lock", "try"}, LF!Open(o, l) PROVE LF!IInv'
  <2>1. /\ LF!TypeOK' /\ \A q \in Objects \ {o} : obj'[q] = obj[q]
        /\ ~obj'[o].owns /\ obj'[o].pc \notin {"truncate", "write"} /\ UNCHANGED text
    BY <1>1, Zenon DEF LF!Open
  <2>2. CASE obj[o].fd
    BY <1>1, <2>1, <2>2, CloseKeeps, Zenon DEF LF!Open
  <2>3. CASE ~obj[o].fd
    BY <1>1, <2>1, <2>3 DEF LF!Open, LF!LockKept, LF!TextKept, LF!Holds, LF!Owning
  <2> QED
    BY <2>2, <2>3
<1>2. CASE LF!Lockf(o)
  BY <1>2 DEF LF!Lockf, LF!LockKept, LF!TextKept, LF!Holds, LF!Owning, LF!ProcessAssumption
<1>3. CASE LF!TryFails(o) \/ LF!WriteFails(o)
  BY <1>3 DEF LF!TryFails, LF!WriteFails, LF!LockKept, LF!TextKept, LF!Holds, LF!Owning
<1>4. CASE LF!Truncate(o) \/ LF!Write(o) \/ LF!UnlockTruncate(o)
  <2>1. LF!Holds(o)
    BY <1>4 DEF LF!Truncate, LF!Write, LF!UnlockTruncate, LF!Holds
  <2>2. LF!TypeOK' /\ (\A q \in LF!Owning' : obj'[q].pc \in {"idle", "unlock"}) /\ LF!LockKept'
    BY <1>4, <2>1 DEF LF!Truncate, LF!Write, LF!UnlockTruncate, LF!Holds, LF!Owning, LF!LockKept
  <2>3. ASSUME NEW q \in LF!Owning', lost' = {}, LF!At(q, "idle")', LF!Alone(q) PROVE text' = ProcOf[q]
    <3>1. q # o => q \in LF!Owning /\ LF!At(q, "idle") /\ LF!Holds(q) /\ lost = {}
      BY <1>4, <2>3 DEF LF!Truncate, LF!Write, LF!UnlockTruncate, LF!Holds, LF!Owning
    <3>2. q # o => ProcOf[q] = ProcOf[o]
      BY <2>1, <3>1 DEF LF!LockKept, LF!Owning
    <3>3. q = o
      BY <2>3, <3>2 DEF LF!Alone, LF!Owning
    <3> QED
      BY <1>4, <2>3, <3>3 DEF LF!Truncate, LF!Write, LF!UnlockTruncate, LF!Owning
  <2> QED
    BY <2>2, <2>3 DEF LF!TextKept, LF!Alone
<1>5. CASE LF!Unlocked(o) \/ LF!Destroy(o)
  <2>0. obj' = [obj EXCEPT ![o] = LF!New] /\ UNCHANGED text
    BY <1>5 DEF LF!Unlocked, LF!Destroy
  <2>1. /\ LF!TypeOK' /\ \A q \in Objects \ {o} : obj'[q] = obj[q]
        /\ ~obj'[o].owns /\ obj'[o].pc \notin {"truncate", "write"} /\ UNCHANGED text
    BY <2>0 DEF LF!New
  <2> QED
    BY <1>5, <2>1, CloseKeeps DEF LF!Unlocked, LF!Destroy
<1> QED
  BY <1>1, <1>2, <1>3, <1>4, <1>5 DEF LF!Step, LF!Start

\* The kernel closes the files of a process that is killed.
LEMMA KillKeeps == ASSUME LF!IInv, NEW p, LF!Killed(p) PROVE LF!IInv'
BY DEF LF!Killed, LF!New, LF!IInv, LF!TypeOK, LF!LockKept, LF!TextKept, LF!Holds, LF!Owning, LF!At, LF!Alone

\* The invariant of lock_file is inductive.
LEMMA FileNext == ASSUME LF!ProcessAssumption PROVE LF!IInv /\ [LF!Next]_(LF!lockVars) => LF!IInv'
<1> SUFFICES ASSUME LF!IInv, [LF!Next]_(LF!lockVars) PROVE LF!IInv'
  OBVIOUS
<1>1. CASE UNCHANGED LF!lockVars
  BY <1>1 DEF LF!lockVars, LF!IInv, LF!TypeOK, LF!LockKept, LF!TextKept, LF!Holds, LF!Owning, LF!At, LF!Alone
<1> QED
  BY <1>1, ObjectKeeps, KillKeeps DEF LF!Next

\* lock_file on its own.
LEMMA FileSound == ASSUME LF!ProcessAssumption PROVE LF!Spec => []LF!LockFileExclusive
<1>1. LF!IInv => LF!LockFileExclusive
  BY DEF LF!IInv, LF!LockKept, LF!TextKept, LF!LockFileExclusive, LF!Owning, LF!Holds
<1> QED
  BY <1>1, FileInit, FileNext, PTL DEF LF!Spec

\* A file of pid_file never has two owners, readers of an owned file are told the
\* owner, and there is one owner in all unless a removal raced with an open; and
\* lock_file objects of different processes do not own the lock together, unless a
\* close() elsewhere in an owner's process has given it up.
FilesExclusive == [](OneOwner /\ ReadersTold) /\ []LF!LockFileExclusive

\* pid_file and lock_file are exclusive for any processes, files and objects, wherever
\* a process is killed, a call fails or a file is removed.
THEOREM FilesCorrect ==
  ASSUME FilesAssumption, LF!ProcessAssumption
  PROVE  Spec /\ LF!Spec => FilesExclusive
<1>1. Spec => [](OneOwner /\ ReadersTold)
  BY PidSound
<1>2. LF!Spec => []LF!LockFileExclusive
  BY FileSound
<1> QED
  BY <1>1, <1>2, PTL DEF FilesExclusive

-----------------------------------------------------------------------------
(* process. *)

CONSTANTS ProcessHandles, Kids
VARIABLES pid_, kid, parent, fault
PR == INSTANCE Process WITH Handles <- ProcessHandles

\* No child and no handle.
LEMMA ProcInit == ASSUME PR!KidsAssumption PROVE PR!Init => PR!IInv
<1> SUFFICES ASSUME PR!Init PROVE PR!IInv
  OBVIOUS
<1>1. parent.pc = "idle" /\ \A k \in Kids : kid[k] = PR!NoKid
  BY DEF PR!Init, PR!Idle
<1>2. PR!TypeOK
  <2>1. PR!NoKid \in PR!Kid
    BY DEF PR!NoKid, PR!Kid
  <2> QED
    BY <2>1 DEF PR!Init, PR!TypeOK
<1>3. PR!CallOK
  BY <1>1 DEF PR!CallOK
<1>4. PR!Held
  BY <1>1 DEF PR!Init, PR!Held, PR!NoKid, PR!KidsAssumption, PR!Dead
<1>5. \A k \in Kids : PR!KidOK(k)
  BY <1>1 DEF PR!KidOK, PR!Sound, PR!Reading, PR!Joining, PR!NoKid
<1> QED
  BY <1>2, <1>3, <1>4, <1>5 DEF PR!IInv, PR!Init

\* A step of a child.
LEMMA ProcKid == ASSUME PR!IInv, NEW k \in Kids, PR!KidStep(k) PROVE PR!IInv'
<1> DEFINE c == kid[k]
           d == kid'[k]
<1>1. kid \in [Kids -> PR!Kid] /\ c \in PR!Kid
  BY DEF PR!IInv, PR!TypeOK
<1>2. UNCHANGED <<pid_, parent, fault>>
  BY DEF PR!KidStep
<1> DEFINE Steps ==
        /\ kid' \in [Kids -> PR!Kid] /\ \A j \in Kids \ {k} : kid'[j] = kid[j]
        /\ d.close_files = c.close_files /\ d.result = c.result
        /\ \/ c.pc = "setup" /\ d.pc = "exec" /\ d.open = ~c.close_files
              /\ d.error = c.error /\ d.signal = c.signal /\ d.execed = c.execed
           \/ c.pc \in {"setup", "exec"} /\ d.pc = "catch" /\ d.open = c.open
              /\ d.error = c.error /\ d.signal = c.signal /\ d.execed = c.execed
           \/ c.pc = "exec" /\ d.pc = "running" /\ d.open = FALSE
              /\ d.error = c.error /\ d.signal = c.signal /\ d.execed = TRUE
           \/ c.pc = "catch" /\ d.pc = "zombie" /\ d.open = FALSE
              /\ d.error = c.open /\ d.signal = "none" /\ d.execed = c.execed
           \/ c.pc = "running" /\ d.pc = "zombie" /\ d.open = c.open
              /\ d.error = c.error /\ d.signal = "none" /\ d.execed = c.execed
           \/ c.pc \in {"setup", "exec", "catch", "running"} /\ c.signal # "none"
              /\ d.pc = "zombie" /\ d.open = FALSE
              /\ d.error = c.error /\ d.signal = "none" /\ d.execed = c.execed
<1>3. Steps
  <2>1. CASE PR!Setup(k)
    <3>1. CASE kid' = [kid EXCEPT ![k].pc = "exec", ![k].open = ~c.close_files]
      BY <1>1, <2>1, <3>1, Zenon DEF PR!Setup, PR!Kid
    <3>2. CASE kid' = [kid EXCEPT ![k].pc = "catch"]
      BY <1>1, <2>1, <3>2 DEF PR!Setup, PR!Kid
    <3> QED
      BY <2>1, <3>1, <3>2, Zenon DEF PR!Setup
  <2>2. CASE PR!Exec(k)
    <3>1. CASE kid' = [kid EXCEPT ![k].pc = "running", ![k].open = FALSE, ![k].execed = TRUE]
      BY <1>1, <2>2, <3>1, Zenon DEF PR!Exec, PR!Kid
    <3>2. CASE kid' = [kid EXCEPT ![k].pc = "catch"]
      BY <1>1, <2>2, <3>2 DEF PR!Exec, PR!Kid
    <3> QED
      BY <2>2, <3>1, <3>2, Zenon DEF PR!Exec
  <2>3. CASE PR!Catch(k)
    BY <1>1, <2>3, Zenon DEF PR!Catch, PR!Kid
  <2>4. CASE PR!Exit(k)
    BY <1>1, <2>4, Zenon DEF PR!Exit, PR!Kid
  <2>5. CASE PR!Dies(k)
    BY <1>1, <2>5 DEF PR!Dies, PR!Kid
  <2> QED
    BY <2>1, <2>2, <2>3, <2>4, <2>5, Zenon DEF PR!KidStep
<1> HIDE DEF Steps
<1>4. \A j \in Kids \ {k} : kid'[j] = kid[j]
  BY <1>3, Zenon DEF Steps
<1>5. PR!TypeOK' /\ PR!CallOK'
  BY <1>2, <1>3 DEF Steps, PR!IInv, PR!TypeOK, PR!CallOK
<1>6. c.pc \notin {"none", "reaped"} /\ d.pc \notin {"none", "reaped"}
  BY <1>3, Zenon DEF Steps
<1>7. PR!Held'
  BY <1>2, <1>4, <1>6 DEF PR!IInv, PR!Held
<1>8. PR!Reading(k)' = PR!Reading(k) /\ PR!Joining(k)' = PR!Joining(k)
  BY <1>2, SMTT(20) DEF PR!Reading, PR!Joining
<1>9. PR!KidOK(k)'
  BY <1>1, <1>3, <1>8 DEF Steps, PR!IInv, PR!KidOK, PR!Sound, PR!Kid
<1>10. \A j \in Kids \ {k} : PR!KidOK(j)'
  BY <1>2, <1>4, Zenon DEF PR!IInv, PR!KidOK, PR!Reading, PR!Joining
<1> QED
  BY <1>2, <1>5, <1>7, <1>9, <1>10 DEF PR!IInv

\* A signal, while no start() reads.
LEMMA ProcSignals ==
  ASSUME PR!IInv, NEW k \in Kids, NEW s \in {"SIGTERM", "SIGKILL"}, kid' = PR!Signalled(k, s),
         \A j \in Kids : ~PR!Reading(j)' /\ PR!Joining(j)' = PR!Joining(j)
  PROVE  kid' \in [Kids -> PR!Kid] /\ \A j \in Kids : kid'[j].pc = kid[j].pc /\ PR!KidOK(j)'
<1>1. CASE kid' = kid
  BY <1>1 DEF PR!IInv, PR!TypeOK, PR!KidOK, PR!Sound
<1>2. CASE kid' = [kid EXCEPT ![k].signal = s]
  <2>1. /\ kid' \in [Kids -> PR!Kid] /\ \A j \in Kids \ {k} : kid'[j] = kid[j]
        /\ kid'[k] = [kid[k] EXCEPT !.signal = s]
    BY <1>2 DEF PR!IInv, PR!TypeOK, PR!Kid
  <2>2. /\ kid'[k].pc = kid[k].pc /\ kid'[k].error = kid[k].error /\ kid'[k].execed = kid[k].execed
        /\ kid'[k].result = kid[k].result /\ kid'[k].close_files = kid[k].close_files
    BY <2>1 DEF PR!IInv, PR!TypeOK, PR!Kid
  <2>3. PR!KidOK(k)'
    BY <2>2, Zenon DEF PR!IInv, PR!KidOK, PR!Sound
  <2>4. \A j \in Kids \ {k} : PR!KidOK(j)'
    BY <2>1 DEF PR!IInv, PR!KidOK, PR!Sound
  <2> QED
    BY <2>1, <2>2, <2>3, <2>4, Zenon
<1> QED
  BY <1>1, <1>2 DEF PR!Signalled

\* waitpid() by the handle of the child.
LEMMA ProcReaps ==
  ASSUME PR!KidsAssumption, PR!IInv, NEW h \in ProcessHandles, NEW k \in Kids, pid_[h] = k, PR!Ended(k), PR!Reap(h, k),
         \A j \in Kids : ~PR!Reading(j)', \A j \in Kids \ {k} : PR!Joining(j) => PR!Joining(j)'
  PROVE  /\ pid_' \in [ProcessHandles -> Kids \cup {PR!not_a_process, PR!terminated_process, PR!Dead}]
         /\ kid' \in [Kids -> PR!Kid] /\ ~fault' /\ PR!Held' /\ pid_'[h] \notin Kids
         /\ \A j \in Kids : PR!KidOK(j)'
<1>1. /\ kid' = [kid EXCEPT ![k].pc = "reaped"] /\ pid_' = [pid_ EXCEPT ![h] = PR!terminated_process]
      /\ kid[k].pc = "zombie" /\ ~fault'
  BY Zenon DEF PR!Reap, PR!Ended, PR!IInv
<1>2. /\ kid' \in [Kids -> PR!Kid] /\ \A j \in Kids \ {k} : kid'[j] = kid[j]
      /\ kid'[k] = [kid[k] EXCEPT !.pc = "reaped"]
  BY <1>1 DEF PR!IInv, PR!TypeOK, PR!Kid
<1>3. /\ kid'[k].pc = "reaped" /\ kid'[k].error = kid[k].error /\ kid'[k].execed = kid[k].execed
      /\ kid'[k].result = kid[k].result /\ kid'[k].close_files = kid[k].close_files
  BY <1>2 DEF PR!IInv, PR!TypeOK, PR!Kid
<1>4. PR!KidOK(k)'
  BY <1>1, <1>3 DEF PR!IInv, PR!KidOK, PR!Sound
<1>5. \A j \in Kids \ {k} : PR!KidOK(j)'
  BY <1>2 DEF PR!IInv, PR!KidOK, PR!Sound
<1>6. /\ pid_' \in [ProcessHandles -> Kids \cup {PR!not_a_process, PR!terminated_process, PR!Dead}]
      /\ pid_'[h] \notin Kids /\ \A g \in ProcessHandles \ {h} : pid_'[g] = pid_[g]
  BY <1>1 DEF PR!IInv, PR!TypeOK, PR!KidsAssumption, PR!terminated_process
<1>7. PR!Held'
  <2>1. \A g \in ProcessHandles, f \in ProcessHandles : pid_'[g] \in Kids /\ pid_'[g] = pid_'[f] => g = f
    BY <1>6, SMTT(20) DEF PR!IInv, PR!Held
  <2>2. \A g \in ProcessHandles \ {h} : pid_'[g] # k
    BY <1>6 DEF PR!IInv, PR!Held
  <2>3. \A j \in Kids : kid'[j].pc \notin {"none", "reaped"} <=> \E g \in ProcessHandles : pid_'[g] = j
    <3> SUFFICES ASSUME NEW j \in Kids
                 PROVE  kid'[j].pc \notin {"none", "reaped"} <=> \E g \in ProcessHandles : pid_'[g] = j
      BY Zenon
    <3>1. CASE j = k
      BY <1>3, <1>6, <2>2, <3>1
    <3>2. CASE j # k
      <4>1. \A g \in ProcessHandles : pid_'[g] = j <=> pid_[g] = j
        BY <1>6, <3>2
      <4> QED
        BY <1>2, <3>2, <4>1 DEF PR!IInv, PR!Held
    <3> QED
      BY <3>1, <3>2, SMTT(20)
  <2> QED
    BY <2>1, <2>3, Zenon DEF PR!Held
<1> QED
  BY <1>1, <1>2, <1>4, <1>5, <1>6, <1>7

\* What the call that the parent is in goes on with.
LEMMA ProcInCall ==
  ASSUME PR!KidsAssumption, PR!IInv, NEW h \in ProcessHandles, NEW k \in Kids, PR!InCall(h, k) \/ PR!Interrupted(h, k)
  PROVE  PR!IInv'
<1>1. ASSUME NEW l, PR!At(l, h, k)
      PROVE  parent.pc = l /\ parent.h = h /\ parent.k = k
  BY <1>1 DEF PR!At
<1>2. ASSUME NEW l, PR!Goto(l, h, k)
      PROVE  parent'.pc = l /\ parent'.h = h /\ parent'.k = k /\ parent' = [pc |-> l, h |-> h, k |-> k]
  BY <1>2 DEF PR!Goto
<1>3. parent' = PR!Idle => parent'.pc = "idle"
  BY DEF PR!Idle
<1>4. ASSUME NEW r \in {"started", "failed", "interrupted"}, kid' = PR!Result(k, r)
      PROVE  /\ kid' \in [Kids -> PR!Kid] /\ \A j \in Kids \ {k} : kid'[j] = kid[j]
             /\ kid'[k].pc = kid[k].pc /\ kid'[k].error = kid[k].error /\ kid'[k].execed = kid[k].execed
             /\ kid'[k].result = r /\ kid'[k].close_files = kid[k].close_files
  BY <1>4 DEF PR!Result, PR!IInv, PR!TypeOK, PR!Kid
<1>5. ASSUME PR!At("read", h, k), UNCHANGED <<pid_, fault>>, NEW r \in {"started", "failed", "interrupted"},
             kid' = PR!Result(k, r), r = "started" => ~kid[k].error /\ ~kid[k].open,
             r = "failed" => kid[k].error /\ PR!Goto("join", h, k),
             r # "failed" => parent' = PR!Idle
      PROVE  PR!IInv'
  <2>1. parent.pc = "read" /\ parent.h = h /\ parent.k = k /\ pid_[h] = k
    BY <1>1, <1>5, Zenon DEF PR!IInv, PR!CallOK
  <2>1a. parent'.pc \in {"idle", "join"}
    BY <1>2, <1>3, <1>5, Zenon
  <2>2. PR!TypeOK' /\ PR!CallOK'
    BY <1>2, <1>3, <1>4, <1>5, <2>1 DEF PR!IInv, PR!TypeOK, PR!CallOK
  <2>3. PR!Held'
    BY <1>4, <1>5, Zenon DEF PR!IInv, PR!Held
  <2>4. PR!KidOK(k)'
    <3>1. PR!Reading(k) /\ ~PR!Reading(k)' /\ (r = "failed" => PR!Joining(k)') /\ kid[k].pc # "none"
      BY <1>2, <1>5, <2>1, <2>1a, Zenon DEF PR!Joining, PR!Reading, PR!IInv, PR!Held
    <3> QED
      BY <1>4, <1>5, <3>1, Zenon DEF PR!IInv, PR!KidOK, PR!Sound
  <2>5. ASSUME NEW j \in Kids \ {k} PROVE PR!KidOK(j)'
    <3>1. kid'[j] = kid[j] /\ ~PR!Joining(j) /\ ~PR!Reading(j)'
      BY <1>4, <1>5, <2>1, <2>1a, Zenon DEF PR!Joining, PR!Reading
    <3> QED
      BY <3>1, Zenon DEF PR!IInv, PR!KidOK, PR!Sound
  <2> QED
    BY <1>5, <2>2, <2>3, <2>4, <2>5 DEF PR!IInv
<1>6. CASE PR!ReadEnd(h, k)
  BY <1>5, <1>6 DEF PR!ReadEnd
<1>7. CASE PR!ReadError(h, k)
  BY <1>5, <1>7 DEF PR!ReadError
<1>8. CASE PR!ReadInterrupted(h, k)
  BY <1>5, <1>8 DEF PR!ReadInterrupted
<1>9. ASSUME PR!Ended(k), PR!Reap(h, k), pid_[h] = k, parent.k = k,
             parent' = PR!Idle \/ PR!Goto("end", h, k)
      PROVE  PR!IInv'
  <2>1. parent'.pc \in {"idle", "end"} /\ (parent'.pc = "end" => parent'.h = h)
    BY <1>2, <1>3, <1>9, Zenon
  <2>2. /\ \A j \in Kids : ~PR!Reading(j)'
        /\ \A j \in Kids \ {k} : ~PR!Joining(j)
    BY <1>9, <2>1 DEF PR!Reading, PR!Joining
  <2>3. /\ pid_' \in [ProcessHandles -> Kids \cup {PR!not_a_process, PR!terminated_process, PR!Dead}]
        /\ kid' \in [Kids -> PR!Kid] /\ ~fault' /\ PR!Held' /\ pid_'[h] \notin Kids
        /\ \A j \in Kids : PR!KidOK(j)'
    BY <1>9, <2>2, ProcReaps, Zenon
  <2>4. PR!TypeOK'
    BY <1>2, <1>9, <2>3, SMTT(20) DEF PR!TypeOK
  <2>5. PR!CallOK'
    BY <2>1, <2>3, Zenon DEF PR!CallOK
  <2> QED
    BY <2>3, <2>4, <2>5 DEF PR!IInv
<1>10. CASE PR!join(h, k)
  <2>1. pid_[h] = k /\ parent.k = k
    BY <1>1, <1>10, Zenon DEF PR!join, PR!IInv, PR!CallOK
  <2>2. PR!Ended(k)
    BY <1>10, <2>1 DEF PR!join, PR!IInv, PR!Held
  <2> QED
    BY <1>9, <1>10, <2>1, <2>2, Zenon DEF PR!join
<1>11. CASE PR!LastJoin(h, k) \/ (PR!Waited(h, k) /\ PR!Ended(k))
  <2>1. pid_[h] = k /\ parent.k = k
    BY <1>1, <1>11, Zenon DEF PR!LastJoin, PR!Waited, PR!IInv, PR!CallOK
  <2> QED
    BY <1>9, <1>11, <2>1, Zenon DEF PR!LastJoin, PR!Waited
<1>12. CASE PR!Waited(h, k) /\ ~PR!Ended(k)
  <2>1. /\ parent.pc = "wait" /\ pid_[h] = k /\ kid' = PR!Signalled(k, "SIGKILL") /\ UNCHANGED <<pid_, fault>>
        /\ parent'.pc = "last" /\ parent'.h = h /\ parent'.k = k /\ parent' = [pc |-> "last", h |-> h, k |-> k]
    BY <1>1, <1>2, <1>12, Zenon DEF PR!Waited, PR!IInv, PR!CallOK
  <2>2. \A j \in Kids : ~PR!Reading(j)' /\ PR!Joining(j)' = PR!Joining(j)
    BY <2>1, Zenon DEF PR!Reading, PR!Joining
  <2>3. kid' \in [Kids -> PR!Kid] /\ \A j \in Kids : kid'[j].pc = kid[j].pc /\ PR!KidOK(j)'
    BY <2>1, <2>2, ProcSignals, Zenon
  <2> QED
    BY <2>1, <2>3 DEF PR!IInv, PR!TypeOK, PR!CallOK, PR!Held
<1>13. CASE PR!WaitInterrupted(h, k)
  <2>1. /\ parent.pc = "wait" /\ pid_[h] = k /\ UNCHANGED <<pid_, kid, fault>>
        /\ parent'.pc = "terminate" /\ parent'.h = h /\ parent'.k = k
        /\ parent' = [pc |-> "terminate", h |-> h, k |-> k]
    BY <1>1, <1>2, <1>13, Zenon DEF PR!WaitInterrupted, PR!IInv, PR!CallOK
  <2>2. \A j \in Kids : ~PR!Reading(j)' /\ PR!Joining(j)' = PR!Joining(j)
    BY <2>1, Zenon DEF PR!Reading, PR!Joining
  <2> QED
    BY <2>1, <2>2, Zenon DEF PR!IInv, PR!TypeOK, PR!CallOK, PR!Held, PR!KidOK, PR!Sound
<1>14. CASE PR!End(h, k)
  <2>1. /\ parent.pc = "end" /\ pid_[h] \notin Kids /\ UNCHANGED <<kid, fault>>
        /\ parent' = PR!Idle /\ parent'.pc = "idle" /\ pid_' = [pid_ EXCEPT ![h] = PR!Dead]
    BY <1>1, <1>3, <1>14 DEF PR!End, PR!IInv, PR!CallOK
  <2>2. \A j \in Kids : ~PR!Reading(j)' /\ PR!Joining(j)' = PR!Joining(j)
    BY <2>1, Zenon DEF PR!Reading, PR!Joining
  <2>3. PR!Held'
    BY <2>1 DEF PR!IInv, PR!TypeOK, PR!Held, PR!KidsAssumption, PR!Dead
  <2> QED
    BY <2>1, <2>2, <2>3, Zenon DEF PR!IInv, PR!TypeOK, PR!CallOK, PR!KidOK, PR!Sound
<1> QED
  BY <1>6, <1>7, <1>8, <1>10, <1>11, <1>12, <1>13, <1>14 DEF PR!InCall, PR!Interrupted

\* The calls that the parent begins, and those that do not block.
LEMMA ProcCall == ASSUME PR!KidsAssumption, PR!IInv, NEW h \in ProcessHandles, PR!Call(h) PROVE PR!IInv'
<1>1. parent = PR!Idle /\ parent.pc = "idle" /\ \A j \in Kids : ~PR!Reading(j) /\ ~PR!Joining(j)
  <2>1. parent = PR!Idle
    BY Zenon DEF PR!Call, PR!Construct, PR!ForkFails, PR!Join, PR!try_join, PR!Destroy, PR!send_signal, PR!Fork, PR!MoveConstruct, PR!Swap
  <2> QED
    BY <2>1 DEF PR!Idle, PR!Reading, PR!Joining
<1>2. PR!joinable(h) => pid_[h] \in Kids
  BY DEF PR!joinable, PR!IInv, PR!TypeOK, PR!not_a_process, PR!terminated_process, PR!Dead
<1>3. pid_[h] < 0 \/ ~PR!joinable(h) \/ ~PR!Alive(h) => pid_[h] \notin Kids
  <2>1. pid_[h] \in Kids => pid_[h] \in Nat /\ pid_[h] # 0
    BY Zenon DEF PR!KidsAssumption
  <2> QED
    BY <2>1 DEF PR!joinable, PR!Alive, PR!Dead
\* A handle without a child gets another such value.
<1>4. ASSUME pid_[h] \notin Kids, NEW x \in {PR!not_a_process, PR!Dead}, pid_' = [pid_ EXCEPT ![h] = x],
             UNCHANGED <<kid, parent, fault>>
      PROVE  PR!IInv'
  <2>1. x \notin Kids
    BY DEF PR!KidsAssumption, PR!not_a_process, PR!Dead
  <2>2. PR!Held'
    BY <1>4, <2>1 DEF PR!IInv, PR!TypeOK, PR!Held
  <2>3. PR!TypeOK' /\ PR!CallOK'
    BY <1>1, <1>4 DEF PR!IInv, PR!TypeOK, PR!CallOK
  <2> QED
    BY <1>4, <2>2, <2>3 DEF PR!IInv, PR!KidOK, PR!Reading, PR!Joining
<1>5. CASE PR!Construct(h) \/ PR!ForkFails(h) \/ (PR!Destroy(h) /\ ~PR!joinable(h))
  BY <1>3, <1>4, <1>5 DEF PR!Construct, PR!ForkFails, PR!Destroy
<1>6. ASSUME NEW s \in {"SIGTERM", "SIGKILL"}, pid_[h] \in Kids, kid' = PR!Signalled(pid_[h], s),
             UNCHANGED pid_, ~fault',
             UNCHANGED parent \/ PR!Goto("wait", h, pid_[h])
      PROVE  PR!IInv'
  <2>1. PR!Goto("wait", h, pid_[h]) =>
          parent'.pc = "wait" /\ parent'.h = h /\ parent'.k = pid_[h]
          /\ parent' = [pc |-> "wait", h |-> h, k |-> pid_[h]]
    BY DEF PR!Goto
  <2>2. \A j \in Kids : ~PR!Reading(j)' /\ PR!Joining(j)' = PR!Joining(j)
    BY <1>1, <1>6, <2>1 DEF PR!Reading, PR!Joining
  <2>3. kid' \in [Kids -> PR!Kid] /\ \A j \in Kids : kid'[j].pc = kid[j].pc /\ PR!KidOK(j)'
    BY <1>6, <2>2, ProcSignals, Zenon
  <2> QED
    BY <1>1, <1>6, <2>1, <2>3, Zenon DEF PR!IInv, PR!TypeOK, PR!CallOK, PR!Held
<1>7. ASSUME NEW s \in {"SIGTERM", "SIGKILL"}, PR!send_signal(h, s) PROVE PR!IInv'
  <2>1. ~fault'
    BY <1>2, <1>7, Zenon DEF PR!send_signal, PR!IInv, PR!Held
  <2> QED
    BY <1>2, <1>6, <1>7, <2>1, Zenon DEF PR!send_signal
<1>8. CASE PR!Destroy(h) /\ PR!joinable(h)
  BY <1>2, <1>6, <1>8 DEF PR!Destroy, PR!IInv
<1>9. CASE PR!Join(h)
  <2>1. /\ parent'.pc = "join" /\ parent'.h = h /\ parent'.k = pid_[h] /\ UNCHANGED <<pid_, kid, fault>>
        /\ parent' = [pc |-> "join", h |-> h, k |-> pid_[h]] /\ pid_[h] \in Kids
    BY <1>2, <1>9 DEF PR!Join, PR!Goto
  <2>2. \A j \in Kids : PR!KidOK(j)'
    BY <1>1, <2>1, Zenon DEF PR!IInv, PR!KidOK, PR!Sound, PR!Reading, PR!Joining
  <2> QED
    BY <2>1, <2>2 DEF PR!IInv, PR!TypeOK, PR!CallOK, PR!Held
<1>10. CASE PR!try_join(h)
  <2>1. CASE PR!Ended(pid_[h]) /\ PR!Reap(h, pid_[h]) /\ UNCHANGED parent
    <3>1. \A j \in Kids : ~PR!Reading(j)' /\ PR!Joining(j)' = PR!Joining(j)
      BY <1>1, <2>1 DEF PR!Reading, PR!Joining
    <3>2. pid_[h] \in Kids
      BY <1>2, <1>10 DEF PR!try_join
    <3>3. /\ pid_' \in [ProcessHandles -> Kids \cup {PR!not_a_process, PR!terminated_process, PR!Dead}]
          /\ kid' \in [Kids -> PR!Kid] /\ ~fault' /\ PR!Held' /\ pid_'[h] \notin Kids
          /\ \A j \in Kids : PR!KidOK(j)'
      BY <2>1, <3>1, <3>2, ProcReaps
    <3> QED
      BY <1>1, <2>1, <3>3 DEF PR!IInv, PR!TypeOK, PR!CallOK
  <2>2. CASE UNCHANGED <<pid_, kid, fault, parent>>
    BY <2>2 DEF PR!IInv, PR!TypeOK, PR!CallOK, PR!Held, PR!KidOK, PR!Reading, PR!Joining
  <2> QED
    BY <1>10, <2>1, <2>2 DEF PR!try_join
<1>11. ASSUME NEW k \in Kids, PR!Fork(h, k) PROVE PR!IInv'
  <2>1. /\ parent'.pc = "read" /\ parent'.h = h /\ parent'.k = k /\ UNCHANGED fault
        /\ parent' = [pc |-> "read", h |-> h, k |-> k] /\ kid[k].pc = "none"
        /\ pid_' = [pid_ EXCEPT ![h] = k] /\ pid_[h] \notin Kids
    <3>1. k >= k
      BY DEF PR!KidsAssumption
    <3> QED
      BY <1>3, <1>11, <3>1 DEF PR!Fork, PR!Goto
  <2>2. PICK c \in BOOLEAN :
          kid' = [kid EXCEPT ![k] = [PR!NoKid EXCEPT !.pc = "setup", !.close_files = c, !.open = TRUE]]
    BY <1>11, Zenon DEF PR!Fork
  <2>3. /\ kid' \in [Kids -> PR!Kid] /\ \A j \in Kids \ {k} : kid'[j] = kid[j]
        /\ kid'[k].pc = "setup" /\ ~kid'[k].error /\ ~kid'[k].execed /\ kid'[k].result = "none"
        /\ kid'[k].signal = "none" /\ kid'[k].open
    BY <2>2, Zenon DEF PR!IInv, PR!TypeOK, PR!Kid, PR!NoKid
  <2>4. PR!TypeOK' /\ PR!CallOK'
    BY <2>1, <2>3 DEF PR!IInv, PR!TypeOK, PR!CallOK
  <2>5. \A g \in ProcessHandles : pid_[g] # k
    BY <2>1, Zenon DEF PR!IInv, PR!Held
  <2>6. PR!Held'
    <3>1. pid_'[h] = k /\ \A g \in ProcessHandles \ {h} : pid_'[g] = pid_[g]
      BY <2>1 DEF PR!IInv, PR!TypeOK
    <3>2. \A f, g \in ProcessHandles : pid_'[f] \in Kids /\ pid_'[f] = pid_'[g] => f = g
      BY <2>5, <3>1, Zenon DEF PR!IInv, PR!Held
    <3>3. ASSUME NEW j \in Kids PROVE kid'[j].pc \notin {"none", "reaped"} <=> \E g \in ProcessHandles : pid_'[g] = j
      <4>1. CASE j = k
        BY <2>3, <3>1, <4>1
      <4>2. CASE j # k
        <5>1. \A g \in ProcessHandles : pid_'[g] = j <=> pid_[g] = j
          BY <2>1, <3>1, <4>2, Zenon
        <5> QED
          BY <2>3, <4>2, <5>1, Zenon DEF PR!IInv, PR!Held
      <4> QED
        BY <4>1, <4>2
    <3> QED
      BY <3>2, <3>3, Zenon DEF PR!Held
  <2>7. PR!KidOK(k)'
    BY <2>3, Zenon DEF PR!KidOK, PR!Sound
  <2>8. ASSUME NEW j \in Kids \ {k} PROVE PR!KidOK(j)'
    <3>1. kid'[j] = kid[j] /\ ~PR!Reading(j)' /\ ~PR!Joining(j)
      BY <1>1, <2>1, <2>3, Zenon DEF PR!Reading
    <3> QED
      BY <3>1, Zenon DEF PR!IInv, PR!KidOK, PR!Sound
  <2> QED
    BY <2>1, <2>4, <2>6, <2>7, <2>8, Zenon DEF PR!IInv
<1>12. ASSUME NEW g \in ProcessHandles, PR!MoveConstruct(h, g) \/ PR!Swap(h, g) PROVE PR!IInv'
  <2>1. /\ g # h /\ UNCHANGED <<kid, parent, fault>>
        /\ \E x : /\ pid_' = [pid_ EXCEPT ![h] = pid_[g], ![g] = x]
                  /\ x = pid_[h] \/ (x = PR!not_a_process /\ pid_[h] \notin Kids)
    BY <1>3, <1>12 DEF PR!MoveConstruct, PR!Swap, PR!Alive
  <2>2. /\ pid_'[h] = pid_[g] /\ (pid_'[g] = pid_[h] \/ (pid_'[g] = PR!not_a_process /\ pid_[h] \notin Kids))
        /\ \A f \in ProcessHandles \ {g, h} : pid_'[f] = pid_[f]
        /\ pid_' \in [ProcessHandles -> Kids \cup {PR!not_a_process, PR!terminated_process, PR!Dead}]
    BY <2>1 DEF PR!IInv, PR!TypeOK
  <2>3. PR!not_a_process \notin Kids
    BY DEF PR!KidsAssumption, PR!not_a_process
  <2>4. \A e, f \in ProcessHandles : pid_'[e] \in Kids /\ pid_'[e] = pid_'[f] => e = f
    BY <2>1, <2>2, <2>3, SMTT(20) DEF PR!IInv, PR!Held
  <2>5. ASSUME NEW k \in Kids PROVE (\E f \in ProcessHandles : pid_'[f] = k) <=> (\E f \in ProcessHandles : pid_[f] = k)
    BY <2>1, <2>2, <2>3
  <2>6. PR!Held'
    BY <2>1, <2>4, <2>5, Zenon DEF PR!IInv, PR!Held
  <2> QED
    BY <1>1, <2>1, <2>2, <2>6, Zenon DEF PR!IInv, PR!TypeOK, PR!CallOK, PR!KidOK, PR!Reading, PR!Joining
<1> QED
  BY <1>5, <1>7, <1>8, <1>9, <1>10, <1>11, <1>12 DEF PR!Call

\* The invariant of process is inductive.
LEMMA ProcNext == ASSUME PR!KidsAssumption PROVE PR!IInv /\ [PR!Next]_(PR!processVars) => PR!IInv'
<1> SUFFICES ASSUME PR!IInv, [PR!Next]_(PR!processVars) PROVE PR!IInv'
  OBVIOUS
<1>1. CASE UNCHANGED PR!processVars
  BY <1>1 DEF PR!processVars, PR!IInv, PR!TypeOK, PR!CallOK, PR!Held, PR!KidOK, PR!Reading, PR!Joining
<1> QED
  BY <1>1, ProcCall, ProcInCall, ProcKid DEF PR!Next

\* start() reports what became of the child, and each child that is not waited for
\* has exactly one handle, which no call ever waits for or signals in vain.
THEOREM ProcessesCorrect == ASSUME PR!KidsAssumption PROVE PR!Spec => [](PR!StartTells /\ PR!ChildrenOwned)
<1>1. ASSUME PR!IInv PROVE PR!StartTells
  <2>1. parent = PR!Idle => \A k \in Kids : ~PR!Joining(k)
    BY DEF PR!Idle, PR!Joining
  <2> QED
    BY <1>1, <2>1, Zenon DEF PR!IInv, PR!KidOK, PR!Sound, PR!StartTells
<1>2. ASSUME PR!IInv PROVE PR!ChildrenOwned
  BY <1>2, SMTT(20) DEF PR!IInv, PR!Held, PR!ChildrenOwned
<1> QED
  BY <1>1, <1>2, ProcInit, ProcNext, PTL DEF PR!Spec

-----------------------------------------------------------------------------
(* offset_ptr. *)

CONSTANTS Count, Size, Inner, Outer, Bases, OuterAt, Invalid
VARIABLES checked, base, offset_, want, aborted
OP == INSTANCE OffsetPtr

\* Addresses are at most that of the end of the block or of the array, and no distance
\* between addresses is taken for a null pointer.
LEMMA AddressRange ==
  ASSUME OP!OffsetsAssumption, base \in Bases,
         NEW p \in OP!Ptrs, NEW x \in OP!Targets, x # OP!Nil
  PROVE  /\ OP!This(p) \in Nat
         /\ OP!Address(x) \in Nat
         /\ OP!Address(x) < Invalid
         /\ OP!Address(x) - OP!This(p) # Invalid
<1>1. OP!This(p) \in Nat
  BY DEF OP!This, OP!OffsetsAssumption, OP!Ptrs
<1>2. x.at \in 0..Count
  BY DEF OP!Targets
<1>3. Size * x.at \in Nat /\ Size * x.at <= Size * Count
  BY <1>2 DEF OP!OffsetsAssumption
<1>4. base \in Nat /\ base + Size * Count < Invalid /\ Size * Count < Invalid /\ Size * Count \in Nat /\ Invalid \in Nat
  BY DEF OP!OffsetsAssumption
<1>5. OP!Address(x) \in Nat /\ OP!Address(x) < Invalid
  BY <1>3, <1>4 DEF OP!Address
<1> QED
  BY <1>1, <1>4, <1>5

\* What get() returns for a pointer that does not dangle.
LEMMA GetFollows ==
  ASSUME OP!OffsetsAssumption, OP!IInv, NEW p \in OP!Ptrs, want[p] # OP!Stale
  PROVE  /\ want[p] \in OP!Targets
         /\ OP!get(p) = OP!Raw(want[p])
         /\ OP!Raw(want[p]) = OP!NULL <=> want[p] = OP!Nil
<1>1. want[p] \in OP!Targets
  BY DEF OP!IInv, OP!TypeOK
<1>2. CASE want[p] = OP!Nil
  BY <1>1, <1>2 DEF OP!IInv, OP!Distances, OP!get, OP!Raw
<1>3. CASE want[p] # OP!Nil
  <2>1. /\ OP!This(p) \in Nat /\ OP!Address(want[p]) \in Nat
        /\ OP!Address(want[p]) - OP!This(p) # Invalid
    BY <1>1, <1>3, AddressRange DEF OP!IInv, OP!TypeOK
  <2>2. offset_[p] = OP!Address(want[p]) - OP!This(p)
    BY <1>3 DEF OP!IInv, OP!Distances
  <2> QED
    BY <1>1, <1>3, <2>1, <2>2 DEF OP!get, OP!Raw, OP!NULL
<1> QED
  BY <1>2, <1>3

\* A pointer that is made to point to x, from where it lives.
LEMMA SetKeeps ==
  ASSUME OP!OffsetsAssumption, OP!IInv, NEW p \in OP!Ptrs, NEW x \in OP!Targets,
         OP!Set(p, OP!Offset(p, OP!Raw(x)), x)
  PROVE  OP!IInv'
<1> DEFINE off == OP!Offset(p, OP!Raw(x))
<1>1. off \in Int /\ off = IF x = OP!Nil THEN Invalid ELSE OP!Address(x) - OP!This(p)
  <2>1. CASE x = OP!Nil
    BY <2>1 DEF OP!Offset, OP!Raw, OP!OffsetsAssumption
  <2>2. CASE x # OP!Nil
    <3>1. OP!This(p) \in Nat /\ OP!Address(x) \in Nat
      BY <2>2, AddressRange DEF OP!IInv, OP!TypeOK
    <3> QED
      BY <2>2, <3>1 DEF OP!Offset, OP!Raw, OP!NULL
  <2> QED
    BY <2>1, <2>2
<1>2. OP!TypeOK'
  BY <1>1 DEF OP!IInv, OP!TypeOK, OP!Set
<1>3. ASSUME NEW q \in OP!Ptrs, want'[q] # OP!Stale
      PROVE  offset_'[q] = IF want'[q] = OP!Nil THEN Invalid ELSE OP!Address(want[q])' - OP!This(q)'
  <2>1. base' = base
    BY DEF OP!Set
  <2>2. CASE q = p
    BY <1>1, <2>1, <2>2 DEF OP!IInv, OP!TypeOK, OP!Set, OP!Address, OP!This
  <2>3. CASE q # p
    BY <1>3, <2>1, <2>3 DEF OP!IInv, OP!TypeOK, OP!Distances, OP!Set, OP!Address, OP!This
  <2> QED
    BY <2>2, <2>3
<1> QED
  BY <1>2, <1>3 DEF OP!IInv, OP!Distances

\* A step on and a step back lead to the neighbour in memory.
LEMMA MovedAddress ==
  ASSUME OP!OffsetsAssumption, base \in Bases, NEW x \in OP!Targets, x # OP!Nil,
         NEW n \in {-1, 1}, OP!Within(x, n)
  PROVE  /\ OP!Moved(x, n) \in OP!Targets /\ OP!Moved(x, n) # OP!Nil
         /\ OP!Address(OP!Moved(x, n)) = OP!Address(x) + OP!diff_to_offset(n)
<1>1. /\ x.in \in {"block", "array"} /\ x.at \in 0..Count
      /\ x = [in |-> x.in, at |-> x.at]
  BY DEF OP!Targets
<1>2. x.at + n \in 0..Count
  BY DEF OP!Within
<1>3. OP!Moved(x, n) = [in |-> x.in, at |-> x.at + n]
  BY <1>1 DEF OP!Moved
<1>4. OP!Moved(x, n) \in OP!Targets /\ OP!Moved(x, n) # OP!Nil
  BY <1>1, <1>2, <1>3 DEF OP!Targets, OP!Nil
<1>5. Size * (x.at + n) = Size * x.at + n * Size
  BY <1>1 DEF OP!OffsetsAssumption
<1> QED
  BY <1>1, <1>3, <1>4, <1>5 DEF OP!Address, OP!diff_to_offset, OP!OffsetsAssumption

\* A copy points where its source does, from a place of its own.
LEMMA CopyKeeps ==
  ASSUME OP!OffsetsAssumption, OP!IInv, NEW p \in OP!Ptrs, NEW q \in OP!Ptrs, OP!Copy(p, q)
  PROVE  OP!IInv'
<1>1. CASE OP!Rejects(q)
  BY <1>1 DEF OP!Copy, OP!Abort, OP!IInv, OP!TypeOK, OP!Distances, OP!Address, OP!This
<1>2. CASE ~OP!Rejects(q)
  <2>1. want[q] # OP!Stale /\ OP!Set(p, OP!Offset(p, OP!get(q)), want[q])
    BY <1>2 DEF OP!Copy, OP!Usable
  <2> QED
    BY <2>1, GetFollows, SetKeeps
<1> QED
  BY <1>1, <1>2

\* p + n and p - n.
LEMMA PlusKeeps ==
  ASSUME OP!OffsetsAssumption, OP!IInv, NEW p \in OP!Ptrs, NEW q \in OP!Ptrs, NEW n \in {-1, 1},
         OP!Plus(p, q, n)
  PROVE  OP!IInv'
<1> DEFINE x == want[q]
<1>1. CASE OP!Rejects(q) \/ OP!get(q) = OP!NULL
  BY <1>1, Zenon DEF OP!Plus, OP!Abort, OP!IInv, OP!TypeOK, OP!Distances, OP!Address, OP!This
<1>2. CASE ~(OP!Rejects(q) \/ OP!get(q) = OP!NULL)
  <2>1. /\ x # OP!Stale /\ OP!Within(x, n) /\ OP!get(q) # OP!NULL
        /\ OP!Set(p, OP!Offset(p, OP!get(q) + OP!diff_to_offset(n)), OP!Moved(x, n))
    BY <1>2 DEF OP!Plus, OP!Usable
  <2>2. x \in OP!Targets /\ x # OP!Nil /\ OP!get(q) = OP!Address(x)
    BY <2>1, GetFollows DEF OP!Raw
  <2>3. /\ OP!Moved(x, n) \in OP!Targets /\ OP!Moved(x, n) # OP!Nil
        /\ OP!Address(OP!Moved(x, n)) = OP!Address(x) + OP!diff_to_offset(n)
    BY <2>1, <2>2, MovedAddress DEF OP!IInv, OP!TypeOK
  <2>4. OP!Set(p, OP!Offset(p, OP!Raw(OP!Moved(x, n))), OP!Moved(x, n))
    BY <2>1, <2>2, <2>3 DEF OP!Raw
  <2> QED
    BY <2>3, <2>4, SetKeeps
<1> QED
  BY <1>1, <1>2

\* Increments and decrements.
LEMMA AdvanceKeeps ==
  ASSUME OP!OffsetsAssumption, OP!IInv, NEW p \in OP!Ptrs, NEW n \in {-1, 1}, OP!Advance(p, n)
  PROVE  OP!IInv'
<1> DEFINE x == want[p]
           y == OP!Moved(x, n)
<1>1. CASE OP!Rejects(p) \/ OP!get(p) = OP!NULL
  BY <1>1, Zenon DEF OP!Advance, OP!Abort, OP!IInv, OP!TypeOK, OP!Distances, OP!Address, OP!This
<1>2. CASE ~(OP!Rejects(p) \/ OP!get(p) = OP!NULL)
  <2>1. /\ x # OP!Stale /\ OP!Within(x, n) /\ OP!get(p) # OP!NULL
        /\ OP!Set(p, offset_[p] + OP!diff_to_offset(n), y)
    BY <1>2 DEF OP!Advance, OP!Usable
  <2>2. x \in OP!Targets /\ x # OP!Nil
    BY <2>1, GetFollows DEF OP!Raw
  <2>3. y \in OP!Targets /\ y # OP!Nil /\ OP!Address(y) = OP!Address(x) + OP!diff_to_offset(n)
    BY <2>1, <2>2, MovedAddress, SMTT(20) DEF OP!IInv, OP!TypeOK
  <2>4. offset_[p] = OP!Address(x) - OP!This(p)
    BY <2>1, <2>2 DEF OP!IInv, OP!Distances
  <2>5. /\ OP!This(p) \in Nat /\ OP!Address(x) \in Nat /\ OP!Address(y) \in Nat
        /\ OP!diff_to_offset(n) \in Int
    BY <2>2, <2>3, AddressRange DEF OP!IInv, OP!TypeOK, OP!diff_to_offset, OP!OffsetsAssumption
  <2>6. offset_[p] + OP!diff_to_offset(n) = OP!Offset(p, OP!Raw(y))
    BY <2>3, <2>4, <2>5 DEF OP!Offset, OP!Raw, OP!NULL
  <2> QED
    BY <2>1, <2>3, <2>6, SetKeeps, SMTT(20)
<1> QED
  BY <1>1, <1>2

\* A pointer keeps its distance to its target when both move together or stay.
LEMMA RemapKeeps ==
  ASSUME OP!OffsetsAssumption, OP!IInv, NEW b \in Bases, OP!Remap(b)
  PROVE  OP!IInv'
<1>1. OP!TypeOK'
  BY DEF OP!IInv, OP!TypeOK, OP!Remap, OP!Targets, OP!Stale
<1>2. ASSUME NEW p \in OP!Ptrs, want'[p] # OP!Stale
      PROVE  offset_'[p] = IF want'[p] = OP!Nil THEN Invalid ELSE OP!Address(want[p])' - OP!This(p)'
  <2> DEFINE x == want[p]
  <2>1. /\ want'[p] = x /\ offset_'[p] = offset_[p] /\ x # OP!Stale
        /\ p \in Inner => x.in # "array"
        /\ p \in Outer => x.in # "block"
    BY <1>2 DEF OP!Remap, OP!IInv, OP!TypeOK
  <2>2. CASE x = OP!Nil
    BY <2>1, <2>2 DEF OP!IInv, OP!Distances
  <2>3. CASE x # OP!Nil
    <3>1. /\ x.in \in {"block", "array"} /\ x.at \in 0..Count
          /\ offset_[p] = OP!Address(x) - OP!This(p)
      BY <2>1, <2>3 DEF OP!IInv, OP!TypeOK, OP!Distances, OP!Targets
    <3>2. base \in Nat /\ base' \in Nat
      BY DEF OP!IInv, OP!TypeOK, OP!Remap, OP!OffsetsAssumption
    <3>3. CASE p \in Inner
      <4> HIDE DEF x
      <4>0. p \in Nat /\ Size \in Nat /\ x.at \in Nat
        BY <3>1, <3>3 DEF OP!OffsetsAssumption
      <4>1. Size * p \in Nat /\ Size * x.at \in Nat
        BY <4>0
      <4> USE DEF x
      <4>2. offset_[p] = (base + Size * x.at) - (base + Size * p)
        BY <2>1, <3>1, <3>3, SMTT(20) DEF OP!Address, OP!This
      <4>3. OP!Address(want[p])' = base' + Size * x.at /\ OP!This(p)' = base' + Size * p
        BY <2>1, <3>1, <3>3 DEF OP!Address, OP!This
      <4> QED
        BY <2>1, <2>3, <3>2, <4>1, <4>2, <4>3
    <3>4. CASE p \notin Inner
      BY <2>1, <2>3, <3>1, <3>4 DEF OP!Address, OP!This, OP!Ptrs
    <3> QED
      BY <3>3, <3>4
  <2> QED
    BY <2>2, <2>3
<1> QED
  BY <1>1, <1>2 DEF OP!IInv, OP!Distances

\* No pointer has been made.
LEMMA OffsetInit == OP!OffsetsAssumption /\ OP!Init => OP!IInv
<1>1. OP!Nil \in OP!Targets
  BY DEF OP!Targets
<1>2. OP!OffsetsAssumption /\ OP!Init => OP!TypeOK
  <2> SUFFICES ASSUME OP!OffsetsAssumption, OP!Init PROVE OP!TypeOK
    OBVIOUS
  <2>1. offset_ \in [OP!Ptrs -> Int] /\ base \in Bases
    BY DEF OP!OffsetsAssumption, OP!Init
  <2>2. want \in [OP!Ptrs -> OP!Targets \cup {OP!Stale}]
    BY <1>1, Zenon DEF OP!Init
  <2> QED
    BY <2>1, <2>2, Zenon DEF OP!Init, OP!TypeOK
<1> QED
  BY <1>2 DEF OP!Init, OP!IInv, OP!Distances

\* The invariant of offset_ptr is inductive.
LEMMA OffsetNext ==
  ASSUME OP!OffsetsAssumption, OP!IInv, [OP!Next]_(OP!offsetVars)
  PROVE  OP!IInv'
<1>1. CASE UNCHANGED OP!offsetVars
  BY <1>1 DEF OP!offsetVars, OP!IInv, OP!TypeOK, OP!Distances, OP!Address, OP!This
<1>2. ASSUME NEW p \in OP!Ptrs, OP!Construct(p) PROVE OP!IInv'
  BY <1>2, SetKeeps DEF OP!Construct
<1>3. ASSUME NEW p \in OP!Ptrs, NEW q \in OP!Ptrs, OP!Copy(p, q) \/ OP!Assign(p, q) \/ OP!Cast(p, q)
      PROVE  OP!IInv'
  BY <1>3, CopyKeeps DEF OP!Assign, OP!Cast
<1> QED
  BY <1>1, <1>2, <1>3, AdvanceKeeps, PlusKeeps, RemapKeeps DEF OP!Next

\* Subtracting two pointers into the same array counts the elements between them.
LEMMA MinusCounts ==
  ASSUME OP!OffsetsAssumption, base \in Bases, NEW x \in OP!Targets, NEW y \in OP!Targets,
         x # OP!Nil, x.in = y.in
  PROVE  (OP!Address(x) - OP!Address(y)) \div Size = x.at - y.at
<1>1. /\ x.at \in Int /\ y.at \in Int /\ x.in \in {"block", "array"}
      /\ base \in Int /\ Size \in Int /\ Size > 0
  BY DEF OP!Targets, OP!Nil, OP!OffsetsAssumption
<1>2. OP!Address(x) - OP!Address(y) = Size * (x.at - y.at)
  BY <1>1 DEF OP!Address
<1>3. \A k \in Int : (Size * k) \div Size = k
  BY <1>1
<1> QED
  BY <1>1, <1>2, <1>3

\* Exact distances are all that pointers and comparisons depend on.
LEMMA OffsetSound == OP!OffsetsAssumption /\ OP!IInv => OP!OffsetPtrsSound
<1> SUFFICES ASSUME OP!OffsetsAssumption, OP!IInv
             PROVE  OP!OffsetPtrsSound
  OBVIOUS
<1>1. ASSUME NEW p \in OP!Ptrs, want[p] # OP!Stale
      PROVE  /\ OP!get(p) = OP!Raw(want[p]) /\ OP!Raw(want[p]) \in Int
             /\ OP!Rejects(p) => OP!Raw(want[p]) = OP!This(p)
  <2>1. /\ want[p] \in OP!Targets
        /\ OP!get(p) = OP!Raw(want[p])
        /\ OP!Raw(want[p]) = OP!NULL <=> want[p] = OP!Nil
    BY <1>1, GetFollows
  <2>2. CASE want[p] = OP!Nil
    BY <1>1, <2>1, <2>2, SMTT(20) DEF OP!Rejects, OP!IInv, OP!Distances, OP!OffsetsAssumption, OP!Raw, OP!NULL
  <2>3. CASE want[p] # OP!Nil
    <3>1. /\ OP!This(p) \in Nat /\ OP!Address(want[p]) \in Nat
          /\ offset_[p] = OP!Address(want[p]) - OP!This(p)
      BY <1>1, <2>1, <2>3, AddressRange DEF OP!IInv, OP!TypeOK, OP!Distances
    <3> QED
      BY <2>1, <2>3, <3>1 DEF OP!Rejects, OP!Raw
  <2> QED
    BY <2>2, <2>3
<1>2. OP!PointersFollow
  BY <1>1 DEF OP!PointersFollow, OP!Live
<1>3. ASSUME NEW p \in OP!Live, NEW q \in OP!Live,
             want[p].in = want[q].in, OP!Raw(want[p]) # OP!NULL
      PROVE  OP!Minus(p, q) = want[p].at - want[q].at
  <2>1. /\ p \in OP!Ptrs /\ q \in OP!Ptrs /\ want[p] # OP!Stale /\ want[q] # OP!Stale
    BY DEF OP!Live
  <2>2. /\ want[p] \in OP!Targets /\ want[q] \in OP!Targets /\ want[p] # OP!Nil /\ want[q] # OP!Nil
    BY <1>3, <2>1, GetFollows DEF OP!Targets, OP!Nil
  <2>3. OP!get(p) = OP!Address(want[p]) /\ OP!get(q) = OP!Address(want[q])
    BY <2>1, <2>2, GetFollows, SMTT(20) DEF OP!Raw
  <2> QED
    BY <1>3, <2>2, <2>3, MinusCounts DEF OP!Minus, OP!IInv, OP!TypeOK
<1>4. OP!ComparisonsAgree
  <2>1. ASSUME NEW p \in OP!Live PROVE OP!get(p) = OP!Raw(want[p]) /\ OP!get(p) \in Int
    BY <1>1 DEF OP!Live
  <2>2. ASSUME NEW p \in OP!Live, NEW q \in OP!Live
        PROVE  /\ OP!Equal(p, q) <=> OP!Raw(want[p]) = OP!Raw(want[q])
               /\ OP!Less(p, q) <=> OP!Raw(want[p]) < OP!Raw(want[q])
               /\ OP!Greater(p, q) <=> OP!Raw(want[p]) > OP!Raw(want[q])
               /\ OP!LessEqual(p, q) <=> OP!Raw(want[p]) <= OP!Raw(want[q])
               /\ OP!GreaterEqual(p, q) <=> OP!Raw(want[p]) >= OP!Raw(want[q])
    <3>1. /\ OP!get(p) = OP!Raw(want[p]) /\ OP!get(p) \in Int
          /\ OP!get(q) = OP!Raw(want[q]) /\ OP!get(q) \in Int
      BY <2>1
    <3> QED
      BY <3>1, SMTT(20) DEF OP!Equal, OP!Less, OP!Greater, OP!LessEqual, OP!GreaterEqual
  <2>3. ASSUME NEW p \in OP!Live, NEW q \in OP!Live
        PROVE  /\ OP!NotEqual(p, q) <=> OP!Raw(want[p]) # OP!Raw(want[q])
               /\ OP!RawEqual(OP!Raw(want[p]), q) <=> OP!Raw(want[p]) = OP!Raw(want[q])
               /\ OP!RawGreater(OP!Raw(want[p]), q) <=> OP!Raw(want[p]) > OP!Raw(want[q])
               /\ OP!RawLessEqual(OP!Raw(want[p]), q) <=> OP!Raw(want[p]) <= OP!Raw(want[q])
               /\ OP!RawGreaterEqual(OP!Raw(want[p]), q) <=> OP!Raw(want[p]) >= OP!Raw(want[q])
    <3>1. OP!get(q) = OP!Raw(want[q])
      BY <2>1
    <3> QED
      BY <2>2, <3>1, Zenon DEF OP!NotEqual, OP!RawEqual, OP!RawGreater, OP!RawLessEqual, OP!RawGreaterEqual
  <2> QED
    BY <1>3, <2>2, <2>3, Zenon DEF OP!ComparisonsAgree
<1> QED
  BY <1>2, <1>4 DEF OP!OffsetPtrsSound

\* Whatever the size and number of the nodes and wherever the block is mapped, every
\* offset_ptr that does not dangle leads to its target and compares as its address
\* (impl/offset_ptr.hpp, offset_ptr.hpp).
THEOREM OffsetPtrsCorrect ==
  ASSUME OP!OffsetsAssumption
  PROVE  OP!Spec => []OP!OffsetPtrsSound
<1>1. OP!Init => OP!IInv
  BY OffsetInit
<1>2. OP!IInv /\ [OP!Next]_(OP!offsetVars) => OP!IInv'
  BY OffsetNext
<1>3. OP!IInv => OP!OffsetPtrsSound
  BY OffsetSound
<1> QED
  BY <1>1, <1>2, <1>3, PTL DEF OP!Spec
=============================================================================
