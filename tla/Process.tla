------------------------------ MODULE Process -------------------------------
(***************************************************************************)
(* gpcl::process (posix_process): start() forks a child that sets itself   *)
(* up, executes the program and reports an error on the way through a pipe *)
(* that a successful execveat() closes; the handle then signals the child, *)
(* waits for it, and its destructor sees to its end.  The parent and its   *)
(* children run concurrently.                                              *)
(*                                                                         *)
(* Abstracted: what is executed and how it is looked up (it may fail), and *)
(* the files that are handed down.  A timeout may happen at any time, and  *)
(* so may a signal handler in the parent.                                  *)
(***************************************************************************)
EXTENDS Integers

CONSTANTS
  Handles,   \* objects of class process
  Kids       \* the children, positive numbers: their pids

VARIABLES
  pid_,      \* pid_ of each handle, Dead if there is no such object
  kid,       \* the children
  parent,    \* the call that the parent is in
  fault      \* a wait for, or signal to, a process that is no child any more

processVars == <<pid_, kid, parent, fault>>

not_a_process == -1
terminated_process == -2
Dead == -3
NoKid == [pc |-> "none", close_files |-> FALSE, open |-> FALSE, error |-> FALSE,
          signal |-> "none", execed |-> FALSE, result |-> "none"]
Idle == [pc |-> "idle", h |-> "none", k |-> 0]

Init ==
  /\ pid_ = [h \in Handles |-> Dead]
  /\ kid = [k \in Kids |-> NoKid]
  /\ parent = Idle
  /\ fault = FALSE

Alive(h) == pid_[h] # Dead
joinable(h) == pid_[h] > 0
At(l, h, k) == parent = [pc |-> l, h |-> h, k |-> k]
Goto(l, h, k) == parent' = [pc |-> l, h |-> h, k |-> k]
Ended(k) == kid[k].pc = "zombie"

-----------------------------------------------------------------------------
\* start(): the executable, the pipe and fork().  What fails before fork() leaves
\* no trace; afterwards the parent closes its end of the pipe and reads.
Construct(h) ==
  /\ parent = Idle /\ ~Alive(h)
  /\ pid_' = [pid_ EXCEPT ![h] = not_a_process]
  /\ UNCHANGED <<kid, parent, fault>>
Fork(h, k) ==
  /\ parent = Idle /\ Alive(h) /\ pid_[h] < 0
  /\ \A i \in Kids : kid[i].pc = "none" <=> i >= k       \* they are numbered as they come
  /\ pid_' = [pid_ EXCEPT ![h] = k]
  /\ \E c \in BOOLEAN : kid' = [kid EXCEPT ![k] = [NoKid EXCEPT !.pc = "setup", !.close_files = c, !.open = TRUE]]
  /\ Goto("read", h, k)
  /\ UNCHANGED fault
ForkFails(h) ==
  /\ parent = Idle /\ Alive(h) /\ pid_[h] < 0
  /\ pid_' = [pid_ EXCEPT ![h] = not_a_process]
  /\ UNCHANGED <<kid, parent, fault>>
Result(k, r) == [kid EXCEPT ![k].result = r]
\* read(): the error of the child, or the end of the file once nobody can write.
\* Mutant of ReadEnd: the parent has not closed wrfd.
ReadEndNever(h, k) == FALSE /\ UNCHANGED processVars
ReadEnd(h, k) ==
  /\ At("read", h, k) /\ ~kid[k].error /\ ~kid[k].open
  /\ kid' = Result(k, "started")
  /\ parent' = Idle
  /\ UNCHANGED <<pid_, fault>>
ReadError(h, k) ==
  /\ At("read", h, k) /\ kid[k].error
  /\ kid' = Result(k, "failed")
  /\ Goto("join", h, k)                                 \* and then it throws
  /\ UNCHANGED <<pid_, fault>>
ReadInterrupted(h, k) ==                                \* EINTR: start() throws
  /\ At("read", h, k)
  /\ kid' = Result(k, "interrupted")
  /\ parent' = Idle
  /\ UNCHANGED <<pid_, fault>>

-----------------------------------------------------------------------------
\* The child: seteuid, dup2 and chdir, then close_files, then execveat.
Setup(k) ==
  /\ kid[k].pc = "setup"
  /\ \/ kid' = [kid EXCEPT ![k].pc = "exec", ![k].open = ~kid[k].close_files]
     \/ kid' = [kid EXCEPT ![k].pc = "catch"]
Exec(k) ==
  /\ kid[k].pc = "exec"
  /\ \/ kid' = [kid EXCEPT ![k].pc = "running", ![k].open = FALSE, ![k].execed = TRUE]
     \/ kid' = [kid EXCEPT ![k].pc = "catch"]
\* The handlers: the error goes into the pipe, if it is still open.
Catch(k) ==
  /\ kid[k].pc = "catch"
  /\ kid' = [kid EXCEPT ![k].pc = "zombie", ![k].error = kid[k].open, ![k].open = FALSE, ![k].signal = "none"]
\* The program ends by itself, or a signal ends it; SIGTERM may be ignored.
Exit(k) == kid[k].pc = "running" /\ kid' = [kid EXCEPT ![k].pc = "zombie", ![k].signal = "none"]
Dies(k) ==
  /\ kid[k].pc \in {"setup", "exec", "catch", "running"} /\ kid[k].signal # "none"
  /\ kid' = [kid EXCEPT ![k].pc = "zombie", ![k].open = FALSE, ![k].signal = "none"]
KidStep(k) == (Setup(k) \/ Exec(k) \/ Catch(k) \/ Exit(k) \/ Dies(k)) /\ UNCHANGED <<pid_, parent, fault>>

-----------------------------------------------------------------------------
\* send_signal(): a process that has ended but was not waited for still gets it.
Signalled(k, s) == IF Ended(k) \/ kid[k].signal = "SIGKILL" THEN kid ELSE [kid EXCEPT ![k].signal = s]
send_signal(h, s) ==
  /\ parent = Idle /\ joinable(h)
  /\ kid' = Signalled(pid_[h], s)
  /\ fault' = (fault \/ kid[pid_[h]].pc = "reaped")
  /\ UNCHANGED <<pid_, parent>>
\* waitpid() of a child that has ended.
Reap(h, k) ==
  /\ kid' = [kid EXCEPT ![k].pc = "reaped"]
  /\ fault' = (fault \/ kid[k].pc = "reaped")
  /\ pid_' = [pid_ EXCEPT ![h] = terminated_process]
Join(h) ==
  /\ parent = Idle /\ joinable(h) /\ Goto("join", h, pid_[h])
  /\ UNCHANGED <<pid_, kid, fault>>
join(h, k) ==
  /\ At("join", h, k) /\ (Ended(k) \/ kid[k].pc = "reaped")
  /\ Reap(h, k)
  /\ parent' = Idle
\* try_join(), with or without a wait before it.
try_join(h) ==
  /\ parent = Idle /\ joinable(h)
  /\ \/ Ended(pid_[h]) /\ Reap(h, pid_[h])
     \/ ~Ended(pid_[h]) /\ UNCHANGED <<pid_, kid, fault>>
  /\ UNCHANGED parent

-----------------------------------------------------------------------------
\* The destructor: SIGTERM, two seconds, then SIGKILL.
Destroy(h) ==
  /\ parent = Idle /\ Alive(h)
  /\ \/ ~joinable(h) /\ pid_' = [pid_ EXCEPT ![h] = Dead] /\ UNCHANGED <<kid, parent>>
     \/ joinable(h) /\ kid' = Signalled(pid_[h], "SIGTERM") /\ Goto("wait", h, pid_[h]) /\ UNCHANGED pid_
  /\ UNCHANGED fault
\* Mutant of Waited: the child is left to itself after the timeout.
WaitedLeaves(h, k) ==
  /\ At("wait", h, k)
  /\ \/ Ended(k) /\ Reap(h, k) /\ Goto("end", h, k)
     \/ ~Ended(k) /\ Goto("end", h, k) /\ UNCHANGED <<pid_, kid, fault>>
\* try_join_for(2 s): the child has ended in time, or it gets SIGKILL.
Waited(h, k) ==
  /\ At("wait", h, k)
  /\ \/ Ended(k) /\ Reap(h, k) /\ Goto("end", h, k)
     \/ ~Ended(k) /\ kid' = Signalled(k, "SIGKILL") /\ Goto("last", h, k) /\ UNCHANGED <<pid_, fault>>
LastJoin(h, k) == At("last", h, k) /\ Ended(k) /\ Reap(h, k) /\ Goto("end", h, k)
\* A signal handler interrupts pselect(): a destructor that throws ends the program.
WaitInterrupted(h, k) == At("wait", h, k) /\ Goto("terminate", h, k) /\ UNCHANGED <<pid_, kid, fault>>
End(h, k) ==
  /\ At("end", h, k)
  /\ pid_' = [pid_ EXCEPT ![h] = Dead]
  /\ parent' = Idle
  /\ UNCHANGED <<kid, fault>>

MoveConstruct(h, g) ==
  /\ parent = Idle /\ ~Alive(h) /\ Alive(g)
  /\ pid_' = [pid_ EXCEPT ![h] = pid_[g], ![g] = not_a_process]
  /\ UNCHANGED <<kid, parent, fault>>
\* Move assignment and swap().
Swap(h, g) ==
  /\ parent = Idle /\ Alive(h) /\ Alive(g) /\ h # g
  /\ pid_' = [pid_ EXCEPT ![h] = pid_[g], ![g] = pid_[h]]
  /\ UNCHANGED <<kid, parent, fault>>

-----------------------------------------------------------------------------
InCall(h, k) ==
  \/ ReadEnd(h, k) \/ ReadError(h, k) \/ join(h, k) \/ Waited(h, k) \/ LastJoin(h, k) \/ End(h, k)
Interrupted(h, k) == ReadInterrupted(h, k) \/ WaitInterrupted(h, k)
Call(h) ==
  \/ Construct(h) \/ ForkFails(h) \/ Join(h) \/ try_join(h) \/ Destroy(h)
  \/ \E s \in {"SIGTERM", "SIGKILL"} : send_signal(h, s)
  \/ \E k \in Kids : Fork(h, k)
  \/ \E g \in Handles : MoveConstruct(h, g) \/ Swap(h, g)
Next ==
  \/ \E h \in Handles : Call(h)
  \/ \E h \in Handles, k \in Kids : InCall(h, k) \/ Interrupted(h, k)
  \/ \E k \in Kids : KidStep(k)
\* A program runs as long as it likes, and SIGTERM may be ignored.
KidFair(k) == (Setup(k) \/ Exec(k) \/ Catch(k) \/ (kid[k].signal = "SIGKILL" /\ Dies(k))) /\ UNCHANGED <<pid_, parent, fault>>
Fairness ==
  /\ \A k \in Kids : WF_processVars(KidFair(k))
  /\ \A h \in Handles, k \in Kids : WF_processVars(InCall(h, k))
Spec == Init /\ [][Next]_processVars /\ Fairness

-----------------------------------------------------------------------------
\* start() returns only if the program is executed, and a child whose error it
\* throws is gone, but for close_files, which closes the pipe before execveat().
StartTells ==
  /\ \A k \in Kids : kid[k].result = "started" => kid[k].execed \/ kid[k].close_files
  /\ parent = Idle => \A k \in Kids : kid[k].result = "failed" => kid[k].pc = "reaped" /\ ~kid[k].execed

\* However handles are moved and swapped, every child that was not waited for has
\* one handle, no other child has any, and no pid is used after its process is gone.
ChildrenOwned ==
  /\ ~fault
  /\ \A k \in Kids :
       IF kid[k].pc \in {"none", "reaped"}
       THEN \A h \in Handles : pid_[h] # k
       ELSE \E h \in Handles : \A g \in Handles : pid_[g] = k <=> g = h

\* start() returns or throws, and the destructor returns even for a child that
\* ignores SIGTERM.
DestructorReturns == []<>(parent.pc \notin {"read", "wait", "last", "end"})

-----------------------------------------------------------------------------
(***************************************************************************)
(* The inductive invariant, for any handles and children (the proof is in  *)
(* module UtilityProofs).  While start() reads, no signal of the parent's  *)
(* can end the child, so an end of the file without an error means that    *)
(* execveat() or close_files closed the pipe (KidOK); and the children not *)
(* waited for are those of the handles, one each (Held).                   *)
(***************************************************************************)
KidsAssumption == Kids \subseteq Nat \ {0}

Kid ==
  [pc : {"none", "setup", "exec", "catch", "running", "zombie", "reaped"},
   close_files : BOOLEAN, open : BOOLEAN, error : BOOLEAN,
   signal : {"none", "SIGTERM", "SIGKILL"}, execed : BOOLEAN,
   result : {"none", "started", "failed", "interrupted"}]
TypeOK ==
  /\ pid_ \in [Handles -> Kids \cup {not_a_process, terminated_process, Dead}]
  /\ kid \in [Kids -> Kid]
  /\ \/ parent = Idle
     \/ parent \in [pc : {"read", "join", "wait", "last", "end", "terminate"}, h : Handles, k : Kids]
Reading(k) == parent.pc = "read" /\ parent.k = k
Joining(k) == parent.pc = "join" /\ parent.k = k
Sound(c, reading, joining) ==
  /\ c.pc \in {"none", "setup", "exec", "catch", "running"} => ~c.error
  /\ c.pc \in {"setup", "exec", "catch"} => ~c.execed
  /\ c.pc = "none" => c.result = "none"
  /\ c.error => ~c.execed
  /\ c.result = "started" => c.execed \/ c.close_files
  /\ c.result = "failed" => c.error /\ (c.pc = "reaped" \/ joining)
  /\ reading => c.signal = "none" /\ (c.open \/ c.error \/ c.execed \/ c.close_files)
KidOK(k) == Sound(kid[k], Reading(k), Joining(k))
CallOK ==
  /\ parent.pc \in {"read", "join", "wait", "last", "terminate"} => pid_[parent.h] = parent.k
  /\ parent.pc = "end" => pid_[parent.h] \notin Kids
Held ==
  /\ \A g, h \in Handles : pid_[g] \in Kids /\ pid_[g] = pid_[h] => g = h
  /\ \A k \in Kids : kid[k].pc \notin {"none", "reaped"} <=> \E h \in Handles : pid_[h] = k
IInv == TypeOK /\ ~fault /\ CallOK /\ Held /\ \A k \in Kids : KidOK(k)
=============================================================================
