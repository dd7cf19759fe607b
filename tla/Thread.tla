------------------------------- MODULE Thread -------------------------------
(***************************************************************************)
(* gpcl::thread (posix_thread): a creator starts threads through handles   *)
(* and moves, swaps, joins, detaches and destroys the handles, while the   *)
(* threads run.  The function that a thread runs is an object which        *)
(* start_thread() creates and hands over to the new thread.                *)
(*                                                                         *)
(* pthread_create, pthread_join and pthread_detach are the C library's: a  *)
(* thread that was joined, or was detached and has ended, is no more, and  *)
(* its pthread_t must not be used again.                                   *)
(***************************************************************************)
EXTENDS Integers

CONSTANTS
  Handles,    \* objects of class thread
  Ids         \* the pthread_t values of threads that are started, in all

VARIABLES
  thread_,    \* thread_ of each handle, 0 if it has none, Dead if it is destroyed
  os,         \* the C library's view of each thread
  fn,         \* the state of each thread's function object
  pc,         \* where each thread is in posix_thread_function
  creator     \* the call that the creator is in

threadVars == <<thread_, os, fn, pc, creator>>

Dead == -1
Idle == [op |-> "idle", h |-> "none", id |-> 0]

Init ==
  /\ thread_ = [h \in Handles |-> 0]
  /\ os = [i \in Ids |-> "none"]
  /\ fn = [i \in Ids |-> "none"]
  /\ pc = [i \in Ids |-> "none"]
  /\ creator = Idle

Alive(h) == thread_[h] # Dead
joinable(h) == Alive(h) /\ thread_[h] # 0
InCall(op, h, i) == creator = [op |-> op, h |-> h, id |-> i]
Call(op, h, i) == creator' = [op |-> op, h |-> h, id |-> i]

-----------------------------------------------------------------------------
\* The constructor: posix_thread_attributes may throw before the thread is made.
Construct(h, i) ==
  /\ creator = Idle /\ thread_[h] = Dead /\ fn[i] = "none"
  /\ fn' = [fn EXCEPT ![i] = "creator's"]
  /\ thread_' = [thread_ EXCEPT ![h] = 0]
  /\ Call("start", h, i)
  /\ UNCHANGED <<os, pc>>
\* pthread_create: the thread may run before start_thread() goes on.
pthread_create(h, i) ==
  /\ InCall("start", h, i)
  /\ os' = [os EXCEPT ![i] = "joinable"]
  /\ pc' = [pc EXCEPT ![i] = "begin"]
  /\ thread_' = [thread_ EXCEPT ![h] = i]
  /\ Call("release", h, i)
  /\ UNCHANGED fn
\* An error on the way: fn is destroyed by its unique_ptr, and there is no handle.
StartFails(h, i) ==
  /\ InCall("start", h, i)
  /\ fn' = [fn EXCEPT ![i] = "destroyed"]
  /\ thread_' = [thread_ EXCEPT ![h] = Dead]
  /\ creator' = Idle
  /\ UNCHANGED <<os, pc>>
\* Mutant of release: fn is not released, and its unique_ptr destroys it.
ReleaseNot(h, i) ==
  /\ InCall("release", h, i)
  /\ fn' = [fn EXCEPT ![i] = IF @ = "destroyed" THEN "destroyed twice" ELSE "destroyed"]
  /\ creator' = Idle
  /\ UNCHANGED <<thread_, os, pc>>
\* The scope_success: the thread owns fn, and may have destroyed it.
release(h, i) ==
  /\ InCall("release", h, i)
  /\ fn' = [fn EXCEPT ![i] = IF @ = "creator's" THEN "released" ELSE @]
  /\ creator' = Idle
  /\ UNCHANGED <<thread_, os, pc>>

-----------------------------------------------------------------------------
\* posix_thread_function
Body(i) ==
  /\ pc[i] = "begin"
  /\ pc' = [pc EXCEPT ![i] = "end"]
  /\ fn' = [fn EXCEPT ![i] = IF @ = "destroyed" THEN "used after" ELSE @]
  /\ UNCHANGED <<thread_, os, creator>>
End(i) ==
  /\ pc[i] = "end"
  /\ pc' = [pc EXCEPT ![i] = "ended"]
  /\ fn' = [fn EXCEPT ![i] = CASE @ = "destroyed" -> "destroyed twice"
                               [] @ = "used after" -> @
                               [] OTHER -> "destroyed"]
  /\ os' = [os EXCEPT ![i] = IF @ = "detached" THEN "gone" ELSE @]
  /\ UNCHANGED <<thread_, creator>>

-----------------------------------------------------------------------------
\* join(), and the destructor of a handle that is joinable: it blocks.
Join(h, op) ==
  /\ creator = Idle /\ joinable(h)
  /\ Call(op, h, thread_[h])
  /\ UNCHANGED <<thread_, os, fn, pc>>
pthread_join(h, i) ==
  /\ creator.op \in {"join", "destroy"} /\ creator.h = h /\ creator.id = i
  /\ os[i] \in {"gone", "bad"} \/ pc[i] = "ended"
  /\ os' = [os EXCEPT ![i] = IF @ = "joinable" THEN "gone" ELSE "bad"]
  /\ thread_' = [thread_ EXCEPT ![h] = IF creator.op = "destroy" THEN Dead ELSE 0]
  /\ creator' = Idle
  /\ UNCHANGED <<fn, pc>>
DestroyEmpty(h) ==
  /\ creator = Idle /\ thread_[h] = 0
  /\ thread_' = [thread_ EXCEPT ![h] = Dead]
  /\ UNCHANGED <<os, fn, pc, creator>>
\* thread_'s value is used up, whether or not the thread has ended.
detach(h) ==
  /\ creator = Idle /\ joinable(h)
  /\ LET i == thread_[h]
     IN  os' = [os EXCEPT ![i] = IF @ # "joinable" THEN "bad"
                                 ELSE IF pc[i] = "ended" THEN "gone" ELSE "detached"]
  /\ thread_' = [thread_ EXCEPT ![h] = 0]
  /\ UNCHANGED <<fn, pc, creator>>
\* Mutant of MoveAssign: it overwrites the handle.
MoveOverwrites(h, g) ==
  /\ creator = Idle /\ Alive(h) /\ Alive(g)
  /\ thread_' = [thread_ EXCEPT ![g] = 0, ![h] = thread_[g]]
  /\ UNCHANGED <<os, fn, pc, creator>>
\* Move assignment and swap() exchange the handles.
MoveAssign(h, g) ==
  /\ creator = Idle /\ Alive(h) /\ Alive(g)
  /\ thread_' = [thread_ EXCEPT ![h] = thread_[g], ![g] = thread_[h]]
  /\ UNCHANGED <<os, fn, pc, creator>>
MoveConstruct(h, g) ==
  /\ creator = Idle /\ thread_[h] = Dead /\ Alive(g)
  /\ thread_' = [thread_ EXCEPT ![h] = thread_[g], ![g] = 0]
  /\ UNCHANGED <<os, fn, pc, creator>>
DefaultConstruct(h) ==
  /\ creator = Idle /\ thread_[h] = Dead
  /\ thread_' = [thread_ EXCEPT ![h] = 0]
  /\ UNCHANGED <<os, fn, pc, creator>>

-----------------------------------------------------------------------------
InStart(h, i) == pthread_create(h, i) \/ StartFails(h, i) \/ release(h, i)
Running(i) == Body(i) \/ End(i)
Handling(h) ==
  \/ detach(h) \/ DestroyEmpty(h) \/ DefaultConstruct(h)
  \/ \E op \in {"join", "destroy"} : Join(h, op)
  \/ \E g \in Handles : MoveAssign(h, g) \/ MoveConstruct(h, g)
Next ==
  \/ \E h \in Handles : Handling(h)
  \/ \E h \in Handles, i \in Ids : Construct(h, i) \/ InStart(h, i) \/ pthread_join(h, i)
  \/ \E i \in Ids : Running(i)
Fairness ==
  /\ \A i \in Ids : WF_threadVars(Running(i))
  /\ \A h \in Handles, i \in Ids : WF_threadVars(pthread_join(h, i)) /\ WF_threadVars(InStart(h, i))
Spec == Init /\ [][Next]_threadVars /\ Fairness

-----------------------------------------------------------------------------
\* The function object of a thread is destroyed once, after it has run, whoever is
\* faster, start_thread() or the thread; and it is destroyed if the thread cannot
\* be started.
FunctionOnce ==
  /\ \A i \in Ids : fn[i] \notin {"used after", "destroyed twice"}
  /\ \A i \in Ids : pc[i] = "ended" => fn[i] = "destroyed"
  /\ creator = Idle => \A i \in Ids : pc[i] = "none" => fn[i] \in {"none", "destroyed"}

\* Whatever is done with the handles, a thread that is neither joined nor detached
\* has one handle, and no handle has a thread that is.
HandlesExact ==
  /\ \A i \in Ids :
       IF os[i] = "joinable" THEN \E h \in Handles : \A g \in Handles : thread_[g] = i <=> g = h
                             ELSE \A h \in Handles : thread_[h] # i
  /\ \A i \in Ids : os[i] # "bad"

\* The destructor and join() return: the thread they wait for ends.
JoinReturns == []<>(creator = Idle)

-----------------------------------------------------------------------------
(***************************************************************************)
(* The inductive invariant, for any handles and threads (the proof is in   *)
(* module LockProofs): where a thread is says who owns its function        *)
(* (Owner), the creator's call says what it works on (CallOK), and the     *)
(* threads that can be joined are those of the handles, one each (Held).   *)
(***************************************************************************)
IdsAssumption == 0 \notin Ids /\ Dead \notin Ids

TypeOK ==
  /\ thread_ \in [Handles -> Ids \cup {0, Dead}]
  /\ os \in [Ids -> {"none", "joinable", "detached", "gone"}]
  /\ fn \in [Ids -> {"none", "creator's", "released", "destroyed"}]
  /\ pc \in [Ids -> {"none", "begin", "end", "ended"}]
  /\ creator = Idle \/ creator \in [op : {"start", "release", "join", "destroy"}, h : Handles, id : Ids]
Owner ==
  \A i \in Ids :
    /\ pc[i] = "none" => os[i] = "none" /\ fn[i] # "released"
    /\ pc[i] \in {"begin", "end"} => fn[i] \in {"creator's", "released"}
    /\ pc[i] = "ended" => fn[i] = "destroyed"
    /\ fn[i] = "creator's" => creator.op \in {"start", "release"} /\ creator.id = i
CallOK ==
  /\ creator.op = "start" =>
       pc[creator.id] = "none" /\ fn[creator.id] = "creator's" /\ thread_[creator.h] = 0
  /\ creator.op = "release" => pc[creator.id] # "none"
  /\ creator.op \in {"join", "destroy"} => thread_[creator.h] = creator.id
Held ==
  /\ \A g, h \in Handles : thread_[g] \in Ids /\ thread_[g] = thread_[h] => g = h
  /\ \A i \in Ids : os[i] = "joinable" <=> \E h \in Handles : thread_[h] = i
IInv == TypeOK /\ Owner /\ CallOK /\ Held
=============================================================================
