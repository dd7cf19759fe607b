------------------------------ MODULE MCLocks ------------------------------
(***************************************************************************)
(* The locks for TLC: futex_mutex, futex_condition_variable and the lock   *)
(* functions, each with threads of its own.  The components do not         *)
(* interact, so a behaviour exercises one of them, the one that the        *)
(* variable part names, and leaves the others in their initial states.     *)
(***************************************************************************)
EXTENDS FutexMutex, TLC

CONSTANTS
  t1, t2, t3, t4,   \* threads
  a, b, c,          \* mutexes
  Nobody

VARIABLES
  part,                                           \* the component exercised
  cv_fut, cv_holders, cv_pc, cv_items, cv_rounds, \* of the condition variable
  owner, ml_pc, first, round                      \* of the lock functions

cvVars == <<cv_fut, cv_holders, cv_pc, cv_items, cv_rounds>>
mlVars == <<owner, ml_pc, first, round>>
allVars == <<part, vars, cvVars, mlVars>>

\* Two waiters and two notifiers, an item each.
CV == INSTANCE FutexCondVar
      WITH Waiters <- {t1, t2}, Notifiers <- {t3, t4}, Rounds <- 1,
           fut <- cv_fut, holders <- cv_holders, pc <- cv_pc, items <- cv_items,
           rounds <- cv_rounds

LockThreads == {t1, t2, t3, t4}

\* Three threads that would close a circle if they waited with a mutex in hand,
\* and one that takes a single mutex.
Circle == INSTANCE MultiLock
          WITH Threads <- LockThreads, Mutexes <- {a, b, c}, Rounds <- 1,
               Args <- t1 :> <<a, b>> @@ t2 :> <<b, c>> @@ t3 :> <<c, a>> @@ t4 :> <<b>>,
               pc <- ml_pc

\* One thread takes two mutexes, the others one each.
Pair == INSTANCE MultiLock
        WITH Threads <- LockThreads, Mutexes <- {a, b, c}, Rounds <- 2,
             Args <- t1 :> <<a, b>> @@ t2 :> <<a>> @@ t3 :> <<b>> @@ t4 :> <<b>>,
             pc <- ml_pc

\* What the proofs about the components assume of them holds here.
ASSUME SettingsAssumption == CV!ThreadsAssumption /\ Circle!ArgsAssumption /\ Pair!ArgsAssumption

LocksInit ==
  /\ part \in {"mutex", "condvar", "circle", "pair"}
  /\ Init
  /\ CV!Init
  /\ Circle!Init

LocksNext ==
  \/ part = "mutex" /\ Next /\ UNCHANGED <<part, cvVars, mlVars>>
  \/ part = "condvar" /\ CV!Next /\ UNCHANGED <<part, vars, mlVars>>
  \/ part = "circle" /\ Circle!Next /\ UNCHANGED <<part, vars, cvVars>>
  \/ part = "pair" /\ Pair!Next /\ UNCHANGED <<part, vars, cvVars>>

\* The fairness of the FairSpec of each component.
LocksFairness ==
  /\ \A t \in Threads : WF_vars(part = "mutex" /\ Step(t))
  /\ \A w \in {t1, t2} : WF_cvVars(part = "condvar" /\ CV!WaiterStep(w))
  /\ \A n \in {t3, t4} : WF_cvVars(part = "condvar" /\ CV!NotifierStep(n))
  /\ \A t \in LockThreads : WF_mlVars(part = "pair" /\ Pair!Step(t))

LocksSpec == LocksInit /\ [][LocksNext]_allVars /\ LocksFairness

----------------------------------------------------------------------------
\* Every component is well typed.
TypesOK == TypeOK /\ CV!TypeOK /\ Pair!TypeOK

\* The waiters of a condition variable do not all sleep through a notification, and
\* every item that notifiers announce is eventually taken.
CondVarSound == [](part = "condvar" => CV!NoMissedNotification) /\ CV!EveryItemTaken

\* lock() of several mutexes returns with all of them and no other, never waits for
\* one with another in hand, and with two mutexes does return, among threads that
\* take one at a time.
PairLockSound ==
  /\ [](part = "circle" => Circle!OwnsItsArguments /\ Circle!WaitsEmptyHanded)
  /\ [](part = "pair" => Pair!OwnsItsArguments /\ Pair!WaitsEmptyHanded)
  /\ part = "pair" => Pair!LockReturns
============================================================================
