------------------------------- MODULE Mutex -------------------------------
(***************************************************************************)
(* What a gpcl mutex promises its callers: at most one thread is between   *)
(* the return of lock() (or of a successful try_lock()) and its unlock().  *)
(* futex_mutex is shown to implement it, and the components that only need *)
(* the promise (condition variables, event, future) are composed with it.  *)
(***************************************************************************)

CONSTANT Threads

VARIABLE holders  \* the set of threads that hold the mutex

MutexInit == holders = {}

Acquire(t) == /\ holders = {}
              /\ holders' = {t}

Release(t) == /\ holders = {t}
              /\ holders' = {}

MutexNext == \E t \in Threads : Acquire(t) \/ Release(t)

MutexSpec == MutexInit /\ [][MutexNext]_holders
============================================================================
