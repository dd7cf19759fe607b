------------------------------ MODULE PidFile -------------------------------
(***************************************************************************)
(* gpcl::pid_file (posix_pid_file): a process opens the file, takes a      *)
(* record lock on it, writes its pid and keeps a shared lock for as long   *)
(* as it owns the file; others read the pid under a shared lock; the       *)
(* destructor of the owner removes the file.  Processes interleave at      *)
(* every system call and may be killed at any of them.                     *)
(*                                                                         *)
(* The kernel: a path names at most one file; a file that nobody names     *)
(* lives on while it is open; the locks of a process end with it.          *)
(***************************************************************************)
EXTENDS Integers

CONSTANTS
  Procs,   \* processes: their pids
  Width,   \* [Procs -> number of digits of the pid]
  Files,   \* the kernel's files
  MaxOpens \* how many pid_file objects are constructed in all

VARIABLES
  pathFile,   \* the file that the path names, 0 if there is none
  file,       \* [Files -> [pid, len, mixed]]: the text of each file
  held,       \* [Files -> [Procs -> "none", "shared" or "unique"]]
  proc,       \* [Procs -> [pc, f, got]]
  raced,      \* some process opened a file that was then removed under it
  opens       \* the objects constructed so far

pidVars == <<pathFile, file, held, proc, raced, opens>>

Empty == [pid |-> 0, len |-> 0, mixed |-> FALSE]
Out == [pc |-> "out", f |-> 0, got |-> -1]
Mixed == -2
Init ==
  /\ pathFile = 0
  /\ file = [f \in Files |-> Empty]
  /\ held = [f \in Files |-> [p \in Procs |-> "none"]]
  /\ proc = [p \in Procs |-> Out]
  /\ raced = FALSE
  /\ opens = 0

At(p, l) == proc[p].pc = l
Go(p, l) == proc' = [proc EXCEPT ![p].pc = l]
Opened(f) == \E p \in Procs : proc[p].f = f
Unused == {f \in Files : f # pathFile /\ ~Opened(f)}
\* fcntl(F_SETLK): whether the lock is granted.
Granted(p, unique) ==
  \A q \in Procs \ {p} : held[proc[p].f][q] = "none" \/ (~unique /\ held[proc[p].f][q] = "shared")
lock_file_impl(p, unique) ==
  /\ Granted(p, unique)
  /\ held' = [held EXCEPT ![proc[p].f][p] = IF unique THEN "unique" ELSE "shared"]
\* The descriptor is closed: by the destructor, an exception or the end of the process.
\* A file that neither the path nor a descriptor leads to is gone.
Close(p) ==
  /\ file' = [f \in Files |-> IF f = pathFile \/ \E q \in Procs \ {p} : proc[q].f = f THEN file[f] ELSE Empty]
  /\ held' = [held EXCEPT ![proc[p].f][p] = "none"]
  /\ proc' = [proc EXCEPT ![p] = Out]

-----------------------------------------------------------------------------
\* The constructor: with O_CREAT to write a pid, without it to read one.
Open(p) ==
  /\ At(p, "out")
  /\ \/ pathFile # 0 /\ UNCHANGED <<pathFile, file>> /\ proc' = [proc EXCEPT ![p].pc = "lock", ![p].f = pathFile]
     \/ pathFile = 0 /\ \E f \in Unused :
          /\ \A g \in Unused : f <= g
          /\ pathFile' = f /\ file' = [file EXCEPT ![f] = Empty]
          /\ proc' = [proc EXCEPT ![p].pc = "lock", ![p].f = f]
  /\ UNCHANGED <<held, raced>>
OpenRead(p) ==
  /\ At(p, "out") /\ pathFile # 0
  /\ proc' = [proc EXCEPT ![p].pc = "rlock", ![p].f = pathFile]
  /\ UNCHANGED <<pathFile, file, held, raced>>

\* write_pid(): refused, by an exception, while anybody else has a lock.
\* Mutant of LockUnique: the lock is shared from the beginning.
LockShared(p) ==
  /\ At(p, "lock")
  /\ \/ lock_file_impl(p, FALSE) /\ Go(p, "write") /\ UNCHANGED file
     \/ ~Granted(p, FALSE) /\ Close(p)
  /\ UNCHANGED <<pathFile, raced>>
LockUnique(p) ==
  /\ At(p, "lock")
  /\ \/ lock_file_impl(p, TRUE) /\ Go(p, "write") /\ UNCHANGED file
     \/ ~Granted(p, TRUE) /\ Close(p)
  /\ UNCHANGED <<pathFile, raced>>
\* do_write_pid(): what a longer pid left behind stays there.
Written(p) ==
  LET old == file[proc[p].f] IN
  [pid |-> p, len |-> IF old.len > Width[p] THEN old.len ELSE Width[p], mixed |-> old.len > Width[p]]
do_write_pid(p) ==
  /\ At(p, "write")
  /\ file' = [file EXCEPT ![proc[p].f] = Written(p)]
  /\ Go(p, "relock")
  /\ UNCHANGED <<pathFile, held, raced>>
\* The guard's destructor.
Relock(p) ==
  /\ At(p, "relock") /\ lock_file_impl(p, FALSE) /\ Go(p, "own")
  /\ UNCHANGED <<pathFile, file, raced>>

\* Mutant of RLock: no lock at all.
RLockNot(p) == At(p, "rlock") /\ Go(p, "read") /\ UNCHANGED <<pathFile, file, held, raced>>
\* read_pid(): waits for a writer, then reads.
RLock(p) ==
  /\ At(p, "rlock") /\ lock_file_impl(p, FALSE) /\ Go(p, "read")
  /\ UNCHANGED <<pathFile, file, raced>>
do_read_pid(p) ==
  /\ At(p, "read")
  /\ LET t == file[proc[p].f] IN proc' = [proc EXCEPT ![p].pc = "told", ![p].got = IF t.mixed THEN Mixed ELSE t.pid]
  /\ UNCHANGED <<pathFile, file, held, raced>>

\* The destructor: the lock is tried for, and the file is removed in any case.
EndLock(p) ==
  /\ At(p, "own") /\ Go(p, "unlink")
  /\ \/ lock_file_impl(p, TRUE)
     \/ ~Granted(p, TRUE) /\ UNCHANGED held
  /\ UNCHANGED <<pathFile, file, raced>>
Unlink(p) ==
  /\ At(p, "unlink") /\ Go(p, "close")
  /\ pathFile' = 0
  /\ raced' = (raced \/ pathFile # proc[p].f \/ \E q \in Procs : At(q, "lock") /\ proc[q].f = pathFile)
  /\ UNCHANGED <<file, held>>
EndClose(p) == At(p, "close") /\ Close(p) /\ UNCHANGED <<pathFile, raced>>
ReadClose(p) == At(p, "told") /\ Close(p) /\ UNCHANGED <<pathFile, raced>>
\* The process is killed, or exits without the destructor: the file stays.
Killed(p) == ~At(p, "out") /\ Close(p) /\ UNCHANGED <<pathFile, raced>>

Step(p) ==
  \/ LockUnique(p) \/ do_write_pid(p) \/ Relock(p) \/ RLock(p) \/ do_read_pid(p)
  \/ Unlink(p) \/ EndClose(p) \/ ReadClose(p)
Next == \E p \in Procs :
  \/ (Step(p) \/ EndLock(p) \/ Killed(p)) /\ UNCHANGED opens
  \/ opens < MaxOpens /\ opens' = opens + 1 /\ (Open(p) \/ OpenRead(p))
Spec == Init /\ [][Next]_pidVars

-----------------------------------------------------------------------------
Owners == {p \in Procs : At(p, "own")}
\* A file never has two owners, and as long as no file is removed between another
\* process's open and its lock there is one owner in all, which the path leads to.
OneOwner ==
  /\ \A p, q \in Owners : proc[p].f = proc[q].f => p = q
  /\ ~raced => \A p, q \in Owners : p = q /\ proc[p].f = pathFile
\* Who reads a file that has an owner reads the owner's pid, never half of it, but for
\* the digits of a longer pid that a killed process has left.
ReadersTold ==
  \A r \in Procs : At(r, "told") =>
    \A p \in Owners : proc[p].f = proc[r].f => proc[r].got \in {p, Mixed}

-----------------------------------------------------------------------------
(***************************************************************************)
(* The inductive invariant, for any processes and files (the proof is in   *)
(* module UtilityProofs).  A process that writes, or has written, keeps    *)
(* some lock on its file until it closes it, so nobody else gets past      *)
(* LockUnique there (AloneInFile); and whoever is to write, has written or *)
(* owns has the file of the path, unless a removal raced with an open      *)
(* (Current).                                                              *)
(***************************************************************************)
FilesAssumption ==
  /\ 0 \notin Files /\ Files \subseteq Int
  /\ Procs \subseteq Nat /\ \A p \in Procs : Width[p] \in Nat

Writers == {p \in Procs : proc[p].pc \in {"write", "relock", "own", "unlink", "close"}}
Readers == {p \in Procs : proc[p].pc \in {"read", "told"}}
TypeOK ==
  /\ pathFile \in Files \cup {0}
  /\ file \in [Files -> [pid : Procs \cup {0}, len : Nat, mixed : BOOLEAN]]
  /\ held \in [Files -> [Procs -> {"none", "shared", "unique"}]]
  /\ proc \in [Procs -> [pc : {"out", "lock", "write", "relock", "own", "unlink", "close",
                               "rlock", "read", "told"},
                         f : Files \cup {0}, got : Procs \cup {0, -1, Mixed}]]
  /\ raced \in BOOLEAN
  /\ \A p \in Procs : At(p, "out") <=> proc[p].f = 0

Locks ==
  /\ \A p \in Writers \cup Readers : held[proc[p].f][p] # "none"
  /\ \A p \in Procs : proc[p].pc \in {"write", "relock"} => held[proc[p].f][p] = "unique"
  /\ \A f \in Files, p, q \in Procs : held[f][p] = "unique" /\ p # q => held[f][q] = "none"
AloneInFile == \A p, q \in Writers : proc[p].f = proc[q].f => p = q
Text == \A p \in Writers : At(p, "write") \/ file[proc[p].f].pid = p
Told ==
  \A r \in Procs, p \in Writers :
    At(r, "told") /\ proc[p].f = proc[r].f => proc[r].got \in {p, Mixed}
Current ==
  ~raced => \A p \in Procs : At(p, "lock") \/ (p \in Writers /\ ~At(p, "close")) => proc[p].f = pathFile
IInv == TypeOK /\ Locks /\ AloneInFile /\ Text /\ Told /\ Current
=============================================================================
