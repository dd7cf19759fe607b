------------------------------ MODULE Blocking ------------------------------
(***************************************************************************)
(* The primitives of gpcl that block in the C library: mutex, timed_mutex  *)
(* and recursive_mutex (posix_mutex_base), counting_semaphore              *)
(* (posix_semaphore) and call_once (posix_once_flag).  A behaviour is      *)
(* about one object, of the kind that b.kind names.                        *)
(*                                                                         *)
(* A system call is one action, and a thread that it blocks stays at the   *)
(* same label.  Signal handlers may interrupt sem_wait, a timed lock may   *)
(* time out, and the callable of call_once may throw.                      *)
(***************************************************************************)
EXTENDS Integers, FiniteSetsExt

CONSTANTS
  Threads,
  Kinds,        \* of "normal", "timed", "recursive", "semaphore", "once"
  MaxCalls,     \* bound: calls of each thread
  MaxDepth,     \* how often a recursive mutex may be locked
  SemInitial,   \* desired, the initial count
  SemMax,       \* SEM_VALUE_MAX
  MaxUpdate     \* the largest update of release()

VARIABLE b
blockingVars == <<b>>

None == "none"
Mutexes == {"normal", "timed", "recursive"}

Init == \E k \in Kinds :
  b = [kind |-> k, pc |-> [t \in Threads |-> "idle"], calls |-> [t \in Threads |-> 0],
       owner |-> None, count |-> 0,                  \* mtx_
       told |-> [t \in Threads |-> 0],               \* locks that a thread was told it has
       untold |-> [t \in Threads |-> 0],             \* and those it was not told of
       value |-> SemInitial, left |-> [t \in Threads |-> 0],   \* sem_; update in release()
       granted |-> 0, offered |-> 0,        \* what calls have reported
       once |-> "init", runs |-> 0, returned |-> FALSE]        \* data_ of the once_flag

At(t, l) == b.pc[t] = l
Begin(t, l) == At(t, "idle") /\ b.calls[t] < MaxCalls /\ b' = [b EXCEPT !.pc[t] = l, !.calls[t] = @ + 1]
Return(t, s) == b' = [s EXCEPT !.pc[t] = "idle"]

-----------------------------------------------------------------------------
(* posix_mutex_base *)
\* pthread_mutex_lock, _trylock and _timedlock get the mutex when it is free or,
\* if it is recursive, the caller's.
Available(t) == b.owner = None \/ (b.kind = "recursive" /\ b.owner = t /\ b.count < MaxDepth)
\* A recursive mutex locked as often as it can be: EAGAIN.
Exhausted(t) == b.kind = "recursive" /\ b.owner = t /\ b.count = MaxDepth
Locked(t) == [b EXCEPT !.owner = t, !.count = @ + 1]
Told(t) == [Locked(t) EXCEPT !.told[t] = @ + 1]

\* A thread does not lock a mutex it knows it has, unless it is recursive.
Lock(t) == b.kind \in Mutexes /\ (b.kind = "recursive" \/ b.told[t] = 0) /\ Begin(t, "lock")
lock(t) ==
  /\ At(t, "lock")
  /\ \/ Available(t) /\ Return(t, Told(t))
     \/ Exhausted(t) /\ Return(t, b)                       \* throws
unlock(t) ==
  /\ b.told[t] > 0 /\ At(t, "idle")
  /\ Return(t, [b EXCEPT !.told[t] = @ - 1, !.count = @ - 1, !.owner = IF b.count = 1 THEN None ELSE @])
try_lock(t) ==
  /\ b.kind \in Mutexes /\ At(t, "idle") /\ b.calls[t] < MaxCalls
  /\ LET s == IF Available(t) THEN Told(t) ELSE b
     IN  Return(t, [s EXCEPT !.calls[t] = @ + 1])
\* try_lock_for() and try_lock_until(): false whether or not the lock was got.
TryLockUntil(t) == b.kind = "timed" /\ b.told[t] = 0 /\ Begin(t, "timedlock")
try_lock_until(t) ==
  /\ At(t, "timedlock")
  /\ \/ Available(t) /\ Return(t, [Locked(t) EXCEPT !.untold[t] = @ + 1])
     \/ Return(t, b)                                       \* ETIMEDOUT

-----------------------------------------------------------------------------
(* counting_semaphore *)
Release(t) == b.kind = "semaphore" /\ \E n \in 0..MaxUpdate :
  At(t, "idle") /\ b.calls[t] < MaxCalls
  /\ b' = [b EXCEPT !.pc[t] = "post", !.calls[t] = @ + 1, !.left[t] = n, !.offered = @ + n]
\* while (update--) post();
post(t) ==
  /\ At(t, "post")
  /\ \/ b.left[t] = 0 /\ Return(t, b)
     \/ b.left[t] > 0 /\ b.value < SemMax /\ b' = [b EXCEPT !.left[t] = @ - 1, !.value = @ + 1]
     \/ /\ b.left[t] > 0 /\ b.value = SemMax               \* throws EOVERFLOW: the rest is lost
        /\ Return(t, [b EXCEPT !.offered = @ - b.left[t], !.left[t] = 0])

Acquire(t) == b.kind = "semaphore" /\ Begin(t, "wait")
wait(t) == At(t, "wait") /\ b.value > 0 /\ Return(t, [b EXCEPT !.value = @ - 1, !.granted = @ + 1])
\* A signal handler interrupts sem_wait, and acquire() throws EINTR.
Interrupted(t) == At(t, "wait") /\ Return(t, b)
try_acquire(t) ==
  /\ b.kind = "semaphore" /\ At(t, "idle") /\ b.calls[t] < MaxCalls
  /\ Return(t, IF b.value > 0 THEN [b EXCEPT !.calls[t] = @ + 1, !.value = @ - 1, !.granted = @ + 1]
                              ELSE [b EXCEPT !.calls[t] = @ + 1])

-----------------------------------------------------------------------------
(* call_once *)
CallOnce(t) == b.kind = "once" /\ Begin(t, "once")
\* pthread_once: who finds the flag untouched runs the routine; the others wait.
pthread_once(t) ==
  /\ At(t, "once")
  /\ \/ b.once = "init" /\ b' = [b EXCEPT !.once = "running", !.pc[t] = "routine"]
     \/ b.once = "done" /\ Return(t, [b EXCEPT !.returned = TRUE])
\* The callable returns, and pthread_once marks the flag; or it throws.
Routine(t) ==
  /\ At(t, "routine")
  /\ \/ b' = [b EXCEPT !.runs = @ + 1, !.pc[t] = "mark"]
     \/ b' = [b EXCEPT !.pc[t] = "longjmp"]
Mark(t) == At(t, "mark") /\ Return(t, [b EXCEPT !.once = "done", !.returned = TRUE])
\* Mutant of longjmp: the flag stays as pthread_once left it.
LongjmpOnly(t) == At(t, "longjmp") /\ Return(t, b)
\* longjmp() out of pthread_once: its clean-up handler clears the flag, and
\* rethrow_exception() ends the call.
longjmp(t) == At(t, "longjmp") /\ Return(t, [b EXCEPT !.once = "init"])

-----------------------------------------------------------------------------
\* What a thread in a call does without further ado.
Proceed(t) == lock(t) \/ try_lock_until(t) \/ post(t) \/ wait(t) \/ pthread_once(t) \/ Routine(t) \/ Mark(t) \/ longjmp(t)
Start(t) == Lock(t) \/ TryLockUntil(t) \/ try_lock(t) \/ Release(t) \/ Acquire(t) \/ try_acquire(t) \/ CallOnce(t)
Next == \E t \in Threads : Start(t) \/ Proceed(t) \/ unlock(t) \/ Interrupted(t)
Fairness == \A t \in Threads : WF_blockingVars(Proceed(t)) /\ WF_blockingVars(unlock(t))
Spec == Init /\ [][Next]_blockingVars /\ Fairness

-----------------------------------------------------------------------------
Blocked(t) == At(t, "lock") /\ ~Available(t) /\ ~Exhausted(t)
Waiting == {t \in Threads : At(t, "wait")}
InRoutine(t) == b.pc[t] \in {"routine", "mark", "longjmp"}

\* A thread has the mutex as often as its calls have said, except that
\* try_lock_until() gets it and returns false; and only a thread that was not told
\* leaves everybody blocked for good.
MutexTold ==
  b.kind \in Mutexes =>
    /\ \A t \in Threads : (b.owner = t) = (b.told[t] + b.untold[t] > 0)
    /\ b.owner # None => b.count = b.told[b.owner] + b.untold[b.owner]
    /\ (\A t \in Threads : Blocked(t)) => b.untold[b.owner] > 0

\* The count of a semaphore is what the calls that returned leave of it: no permit
\* is lost or made up by a wait that a signal interrupts, nor by a release() that
\* throws half-way, which has added what fitted.
PermitsExact ==
  b.kind = "semaphore" =>
    /\ b.value \in 0..SemMax
    /\ b.value + b.granted = SemInitial + b.offered - MapThenSumSet(LAMBDA t : b.left[t], Threads)

\* The callable of a once_flag completes once, before any call returns normally, and
\* no two threads are in it; a flag is in progress only while a thread is.
OnceSound ==
  b.kind = "once" =>
    /\ b.runs <= 1 /\ (b.returned => b.runs = 1)
    /\ (b.once = "running") = (\E t \in Threads : InRoutine(t))
    /\ \A t, u \in Threads : InRoutine(t) /\ InRoutine(u) => t = u

\* Nobody waits for ever beside a permit, or for a once_flag whose callable threw.
BlockedReturn == []<>((b.value > 0 => Waiting = {}) /\ \A t \in Threads : ~At(t, "once"))

-----------------------------------------------------------------------------
(***************************************************************************)
(* The inductive invariant of the mutexes and the once_flag, for any       *)
(* threads (the proof is in module LockProofs).                            *)
(***************************************************************************)
BlockingAssumption ==
  /\ Threads # {} /\ None \notin Threads
  /\ Kinds \subseteq Mutexes \cup {"semaphore", "once"}
  /\ MaxCalls \in Nat /\ MaxDepth \in Nat \ {0} /\ MaxUpdate \in Nat
  /\ SemMax \in Nat /\ SemInitial \in 0..SemMax

Fields == {"kind", "pc", "calls", "owner", "count", "told", "untold", "value", "left",
           "granted", "offered", "once", "runs", "returned"}
PCs(k) == {"idle"} \cup (IF k = "semaphore" THEN {"post", "wait"}
                         ELSE IF k = "once" THEN {"once", "routine", "mark", "longjmp"}
                         ELSE {"lock", "timedlock"})
TypeOK ==
  /\ DOMAIN b = Fields
  /\ b.kind \in Kinds /\ b.pc \in [Threads -> PCs(b.kind)]
  /\ b.owner \in Threads \cup {None} /\ b.count \in Nat
  /\ b.told \in [Threads -> Nat] /\ b.untold \in [Threads -> Nat]
  /\ b.once \in {"init", "running", "done"} /\ b.runs \in Nat /\ b.returned \in BOOLEAN
MutexInv ==
  IF b.kind \in Mutexes
  THEN /\ \A t \in Threads : b.owner = t <=> b.told[t] + b.untold[t] > 0
       /\ b.count = IF b.owner = None THEN 0 ELSE b.told[b.owner] + b.untold[b.owner]
       /\ b.kind # "recursive" => \A t \in Threads : At(t, "lock") => b.told[t] = 0
       /\ b.kind = "recursive" => b.count <= MaxDepth
  ELSE \A t \in Threads : b.told[t] = 0
OnceInv ==
  b.kind = "once" =>
    /\ b.once = "running" <=> \E t \in Threads : InRoutine(t)
    /\ \A t, u \in Threads : InRoutine(t) /\ InRoutine(u) => t = u
    /\ b.runs = IF b.once = "done" \/ \E t \in Threads : At(t, "mark") THEN 1 ELSE 0
    /\ b.returned => b.once = "done"
IInv == TypeOK /\ MutexInv /\ OnceInv
=============================================================================
