------------------------------ MODULE LockFile ------------------------------
(***************************************************************************)
(* gpcl::lock_file (posix_lock_file): a lock between processes, a lockf()  *)
(* lock on the whole of a file that also holds the pid of the owner.       *)
(*                                                                         *)
(* The kernel gives such a lock to a process, not to a descriptor: a       *)
(* process is never refused what it has, and closing any descriptor of the *)
(* file ends it.                                                           *)
(***************************************************************************)
EXTENDS Integers

CONSTANTS
  Objects,  \* lock_file objects, all for one file
  ProcOf    \* [Objects -> their processes, positive numbers]

VARIABLES
  obj,      \* [Objects -> [pc, fd, owns]]: fd_ is open, owns_lock_
  locked,   \* the process that has the kernel's lock, 0 if none has
  text,     \* the pid in the file, 0 if it is empty
  lost      \* objects that ever lost the lock by a close() elsewhere in their process

lockVars == <<obj, locked, text, lost>>

New == [pc |-> "idle", fd |-> FALSE, owns |-> FALSE]
Init ==
  /\ obj = [o \in Objects |-> New]
  /\ locked = 0 /\ text = 0 /\ lost = {}

At(o, l) == obj[o].pc = l
Go(o, l) == obj' = [obj EXCEPT ![o].pc = l]
Siblings(o) ==
  {q \in Objects \ {o} : ProcOf[q] = ProcOf[o] /\ (obj[q].owns \/ obj[q].pc \in {"truncate", "write"})}
\* close() of one descriptor of the file: locks of the process end.
Closed(o) ==
  /\ locked' = IF locked = ProcOf[o] THEN 0 ELSE locked
  /\ lost' = lost \cup Siblings(o)

\* lock() and try_lock(): the file is opened, what fd_ held is closed.
Open(o, l) ==
  /\ At(o, "idle") /\ ~obj[o].owns
  /\ obj' = [obj EXCEPT ![o].pc = l, ![o].fd = TRUE]
  /\ IF obj[o].fd THEN Closed(o) ELSE UNCHANGED <<locked, lost>>
  /\ UNCHANGED text
\* lockf(F_LOCK) waits, lockf(F_TLOCK) does not.
Lockf(o) ==
  /\ obj[o].pc \in {"lock", "try"} /\ locked \in {0, ProcOf[o]}
  /\ locked' = ProcOf[o]
  /\ Go(o, "truncate")
  /\ UNCHANGED <<text, lost>>
\* Mutant of TryFails: the refusal goes unnoticed.
TryUnnoticed(o) ==
  /\ At(o, "try") /\ locked \notin {0, ProcOf[o]} /\ Go(o, "truncate")
  /\ UNCHANGED <<locked, text, lost>>
TryFails(o) ==
  /\ At(o, "try") /\ locked \notin {0, ProcOf[o]} /\ Go(o, "idle")
  /\ UNCHANGED <<locked, text, lost>>
\* write_pid(), which may throw: then the lock stays with a file that nobody owns.
Truncate(o) == At(o, "truncate") /\ text' = 0 /\ Go(o, "write") /\ UNCHANGED <<locked, lost>>
Write(o) ==
  /\ At(o, "write") /\ text' = ProcOf[o]
  /\ obj' = [obj EXCEPT ![o].pc = "idle", ![o].owns = TRUE]
  /\ UNCHANGED <<locked, lost>>
WriteFails(o) ==
  /\ obj[o].pc \in {"truncate", "write"} /\ Go(o, "idle")
  /\ UNCHANGED <<locked, text, lost>>

\* unlock(), also the destructor's: empty, unlock, close.
UnlockTruncate(o) ==
  /\ At(o, "idle") /\ obj[o].owns
  /\ text' = 0 /\ Go(o, "unlock")
  /\ UNCHANGED <<locked, lost>>
Unlocked(o) ==
  /\ At(o, "unlock")
  /\ Closed(o) /\ obj' = [obj EXCEPT ![o] = New]
  /\ UNCHANGED text
\* The destructor of an object that does not own the lock closes fd_.
Destroy(o) ==
  /\ At(o, "idle") /\ ~obj[o].owns /\ obj[o].fd
  /\ Closed(o) /\ obj' = [obj EXCEPT ![o] = New]
  /\ UNCHANGED text
\* The whole process is killed.
Killed(p) ==
  /\ \E o \in Objects : ProcOf[o] = p /\ obj[o].fd
  /\ obj' = [o \in Objects |-> IF ProcOf[o] = p THEN New ELSE obj[o]]
  /\ locked' = IF locked = p THEN 0 ELSE locked
  /\ UNCHANGED <<text, lost>>

Step(o) == Lockf(o) \/ TryFails(o) \/ Truncate(o) \/ Write(o) \/ Unlocked(o)
Start(o) == (\E l \in {"lock", "try"} : Open(o, l)) \/ UnlockTruncate(o) \/ Destroy(o) \/ WriteFails(o)
Next ==
  \/ \E o \in Objects : Step(o) \/ Start(o)
  \/ \E o \in Objects : Killed(ProcOf[o])
Spec == Init /\ [][Next]_lockVars

-----------------------------------------------------------------------------
Alone(o) == \A q \in Objects \ {o} : ProcOf[q] # ProcOf[o]
Owning == {o \in Objects : obj[o].owns}
\* Objects of different processes never own the lock together, whichever of them is
\* killed or fails, unless another object of an owner's process has closed the file;
\* and the file names the process of its owner.
LockFileExclusive ==
  \A o \in Owning \ lost :
    /\ \A q \in Owning \ lost : ProcOf[q] = ProcOf[o]
    /\ lost = {} /\ At(o, "idle") /\ Alone(o) => text = ProcOf[o]

-----------------------------------------------------------------------------
(***************************************************************************)
(* The inductive invariant, for any objects in any processes (the proof is *)
(* in module UtilityProofs).  An object between lockf() and the end of     *)
(* unlock() has its process in the kernel's lock, unless a close()         *)
(* elsewhere in the process has ended that, and only such an object        *)
(* changes the text.                                                       *)
(***************************************************************************)
ProcessAssumption == \A o \in Objects : ProcOf[o] # 0

Holds(o) == obj[o].owns \/ obj[o].pc \in {"truncate", "write"}
TypeOK ==
  obj \in [Objects -> [pc : {"idle", "lock", "try", "truncate", "write", "unlock"},
                       fd : BOOLEAN, owns : BOOLEAN]]
LockKept == \A o \in Objects \ lost : Holds(o) => locked = ProcOf[o]
TextKept ==
  \A o \in Owning : lost = {} /\ At(o, "idle") /\ Alone(o) => text = ProcOf[o]
IInv ==
  /\ TypeOK
  /\ \A o \in Owning : obj[o].pc \in {"idle", "unlock"}
  /\ LockKept
  /\ TextKept
=============================================================================
