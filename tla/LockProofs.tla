---------------------------- MODULE LockProofs ----------------------------
(***************************************************************************)
(* The proofs about what threads wait with and for: futex_mutex (module    *)
(* FutexMutex), futex_condition_variable (FutexCondVar), the lock          *)
(* functions of several mutexes (MultiLock), the mutexes of the C library  *)
(* and call_once (Blocking), and thread (Thread), each for any threads.    *)
(* The components do not interact: each has variables of its own here, and *)
(* its inductive invariant stands in its own module.                       *)
(***************************************************************************)
EXTENDS FutexMutex, Integers, Sequences, TLAPS

-----------------------------------------------------------------------------
(* futex_mutex. *)

\* The initial states are well typed.
LEMMA InitTyped == Init => TypeOK /\ SpinInv
BY SpinCountAssumption, MaxCallsAssumption
DEF Init, TypeOK, SpinInv, PCs, futex_locked, futex_unlocked

\* Every step keeps the types, and a thread that spins has attempts left.
LEMMA NextTyped == TypeOK /\ SpinInv /\ [Next]_vars => TypeOK' /\ SpinInv'
<1> SUFFICES ASSUME TypeOK, SpinInv, [Next]_vars
             PROVE  TypeOK' /\ SpinInv'
  OBVIOUS
<1> USE SpinCountAssumption, MaxCallsAssumption
    DEF TypeOK, SpinInv, PCs, Goto, futex_locked, futex_unlocked
<1>1. ASSUME NEW t \in Threads, lock(t) PROVE TypeOK' /\ SpinInv'
  BY <1>1 DEF lock
<1>2. ASSUME NEW t \in Threads, try_lock(t) PROVE TypeOK' /\ SpinInv'
  BY <1>2 DEF try_lock
<1>3. ASSUME NEW t \in Threads, SpinCas(t) PROVE TypeOK' /\ SpinInv'
  BY <1>3 DEF SpinCas
<1>4. ASSUME NEW t \in Threads, SlowCas(t) PROVE TypeOK' /\ SpinInv'
  BY <1>4 DEF SlowCas
<1>5. ASSUME NEW t \in Threads, FutexWait(t) PROVE TypeOK' /\ SpinInv'
  BY <1>5 DEF FutexWait
<1>6. ASSUME NEW t \in Threads, SpuriousWake(t) PROVE TypeOK' /\ SpinInv'
  BY <1>6 DEF SpuriousWake
<1>7. ASSUME NEW t \in Threads, Interrupted(t) PROVE TypeOK' /\ SpinInv'
  BY <1>7 DEF Interrupted
<1>8. ASSUME NEW t \in Threads, unlock(t) PROVE TypeOK' /\ SpinInv'
  BY <1>8 DEF unlock
<1>9. ASSUME NEW t \in Threads, FutexWake(t) PROVE TypeOK' /\ SpinInv'
  BY <1>9 DEF FutexWake
<1>10. CASE UNCHANGED vars
  BY <1>10 DEF vars
<1> QED
  BY <1>1, <1>2, <1>3, <1>4, <1>5, <1>6, <1>7, <1>8, <1>9, <1>10
  DEF Next, Step, Finished

\* The futex word, the program counters and the loop counter of lock() stay
\* in range.
THEOREM TypeCorrect == Spec => []TypeOK
BY InitTyped, NextTyped, PTL DEF Spec

\* Only the compare-and-swap of a free word lets a thread in, so every step keeps
\* exclusion together with the link between the word and its owner.
LEMMA NextExclusive ==
  TypeOK /\ MutualExclusion /\ WordMatchesOwner /\ [Next]_vars
    => MutualExclusion' /\ WordMatchesOwner'
<1> SUFFICES ASSUME TypeOK, MutualExclusion, WordMatchesOwner, [Next]_vars
             PROVE  MutualExclusion' /\ WordMatchesOwner'
  OBVIOUS
<1> USE DEF TypeOK, MutualExclusion, WordMatchesOwner, InCS, Goto,
            futex_locked, futex_unlocked
<1>1. ASSUME NEW t \in Threads, lock(t) PROVE MutualExclusion' /\ WordMatchesOwner'
  BY <1>1 DEF lock
<1>2. ASSUME NEW t \in Threads, try_lock(t) PROVE MutualExclusion' /\ WordMatchesOwner'
  BY <1>2 DEF try_lock
<1>3. ASSUME NEW t \in Threads, SpinCas(t) PROVE MutualExclusion' /\ WordMatchesOwner'
  BY <1>3 DEF SpinCas
<1>4. ASSUME NEW t \in Threads, SlowCas(t) PROVE MutualExclusion' /\ WordMatchesOwner'
  BY <1>4 DEF SlowCas
<1>5. ASSUME NEW t \in Threads, FutexWait(t) PROVE MutualExclusion' /\ WordMatchesOwner'
  BY <1>5 DEF FutexWait
<1>6. ASSUME NEW t \in Threads, SpuriousWake(t) PROVE MutualExclusion' /\ WordMatchesOwner'
  BY <1>6 DEF SpuriousWake
<1>7. ASSUME NEW t \in Threads, Interrupted(t) PROVE MutualExclusion' /\ WordMatchesOwner'
  BY <1>7 DEF Interrupted
<1>8. ASSUME NEW t \in Threads, unlock(t) PROVE MutualExclusion' /\ WordMatchesOwner'
  BY <1>8 DEF unlock
<1>9. ASSUME NEW t \in Threads, FutexWake(t) PROVE MutualExclusion' /\ WordMatchesOwner'
  BY <1>9 DEF FutexWake
<1>10. CASE UNCHANGED vars
  BY <1>10 DEF vars
<1> QED
  BY <1>1, <1>2, <1>3, <1>4, <1>5, <1>6, <1>7, <1>8, <1>9, <1>10
  DEF Next, Step, Finished

\* Every step that lets go of the mutex owes a wake or leaves an awake competitor.
LEMMA NextRemembered ==
  TypeOK /\ WordMatchesOwner /\ NoSleeperForgotten /\ [Next]_vars
    => NoSleeperForgotten'
<1> SUFFICES ASSUME TypeOK, WordMatchesOwner, NoSleeperForgotten, [Next]_vars
             PROVE  NoSleeperForgotten'
  OBVIOUS
<1> USE DEF TypeOK, WordMatchesOwner, NoSleeperForgotten, Contending, InCS,
            Goto, futex_locked, futex_unlocked
<1>1. ASSUME NEW t \in Threads, lock(t) PROVE NoSleeperForgotten'
  BY <1>1 DEF lock
<1>2. ASSUME NEW t \in Threads, try_lock(t) PROVE NoSleeperForgotten'
  BY <1>2 DEF try_lock
<1>3. ASSUME NEW t \in Threads, SpinCas(t) PROVE NoSleeperForgotten'
  BY <1>3 DEF SpinCas
<1>4. ASSUME NEW t \in Threads, SlowCas(t) PROVE NoSleeperForgotten'
  BY <1>4 DEF SlowCas
<1>5. ASSUME NEW t \in Threads, FutexWait(t) PROVE NoSleeperForgotten'
  BY <1>5 DEF FutexWait
<1>6. ASSUME NEW t \in Threads, SpuriousWake(t) PROVE NoSleeperForgotten'
  BY <1>6 DEF SpuriousWake
<1>7. ASSUME NEW t \in Threads, Interrupted(t) PROVE NoSleeperForgotten'
  BY <1>7 DEF Interrupted
<1>8. ASSUME NEW t \in Threads, unlock(t) PROVE NoSleeperForgotten'
  BY <1>8 DEF unlock
<1>9. ASSUME NEW t \in Threads, FutexWake(t) PROVE NoSleeperForgotten'
  BY <1>9 DEF FutexWake
<1>10. CASE UNCHANGED vars
  BY <1>10 DEF vars
<1> QED
  BY <1>1, <1>2, <1>3, <1>4, <1>5, <1>6, <1>7, <1>8, <1>9, <1>10
  DEF Next, Step, Finished

\* The invariant of futex_mutex holds throughout.
LEMMA Invariance == Spec => []IInv
<1>1. Init => IInv
  BY InitTyped
  DEF Init, IInv, MutualExclusion, WordMatchesOwner, NoSleeperForgotten, InCS,
      futex_locked, futex_unlocked
<1>2. IInv /\ [Next]_vars => IInv'
  BY NextTyped, NextExclusive, NextRemembered DEF IInv
<1> QED
  BY <1>1, <1>2, PTL DEF Spec

\* At most one thread is between the return of lock() or of a successful
\* try_lock() and its unlock().
THEOREM Exclusion == Spec => []MutualExclusion
BY Invariance, PTL DEF IInv

\* No thread sleeps in FUTEX_WAIT on a free mutex unless somebody who is awake
\* is bound to wake a sleeper.
THEOREM NoForgottenSleeper == Spec => []NoSleeperForgotten
BY Invariance, PTL DEF IInv

\* unlock() never finds the word unlocked.
LEMMA NextReachable ==
  TypeOK /\ WordMatchesOwner /\ NeverUnreachable /\ [Next]_vars => NeverUnreachable'
<1> SUFFICES ASSUME TypeOK, WordMatchesOwner, NeverUnreachable, [Next]_vars
             PROVE  NeverUnreachable'
  OBVIOUS
<1> USE DEF TypeOK, WordMatchesOwner, NeverUnreachable, InCS, Goto,
            futex_locked, futex_unlocked
<1>1. ASSUME NEW t \in Threads, lock(t) PROVE NeverUnreachable'
  BY <1>1 DEF lock
<1>2. ASSUME NEW t \in Threads, try_lock(t) PROVE NeverUnreachable'
  BY <1>2 DEF try_lock
<1>3. ASSUME NEW t \in Threads, SpinCas(t) PROVE NeverUnreachable'
  BY <1>3 DEF SpinCas
<1>4. ASSUME NEW t \in Threads, SlowCas(t) PROVE NeverUnreachable'
  BY <1>4 DEF SlowCas
<1>5. ASSUME NEW t \in Threads, FutexWait(t) PROVE NeverUnreachable'
  BY <1>5 DEF FutexWait
<1>6. ASSUME NEW t \in Threads, SpuriousWake(t) PROVE NeverUnreachable'
  BY <1>6 DEF SpuriousWake
<1>7. ASSUME NEW t \in Threads, Interrupted(t) PROVE NeverUnreachable'
  BY <1>7 DEF Interrupted
<1>8. ASSUME NEW t \in Threads, unlock(t) PROVE NeverUnreachable'
  BY <1>8 DEF unlock
<1>9. ASSUME NEW t \in Threads, FutexWake(t) PROVE NeverUnreachable'
  BY <1>9 DEF FutexWake
<1>10. CASE UNCHANGED vars
  BY <1>10 DEF vars
<1> QED
  BY <1>1, <1>2, <1>3, <1>4, <1>5, <1>6, <1>7, <1>8, <1>9, <1>10
  DEF Next, Step, Finished

\* unlock()'s GPCL_UNREACHABLE("futex not locked") is not reached: whoever holds
\* the mutex finds the word locked.
THEOREM Reachability == Spec => []NeverUnreachable
<1>1. Init => NeverUnreachable
  BY Zenon DEF Init, NeverUnreachable
<1>2. IInv /\ NeverUnreachable /\ [Next]_vars => NeverUnreachable'
  BY NextReachable DEF IInv
<1> QED
  BY <1>1, <1>2, Invariance, PTL DEF Spec

\* futex_mutex implements the abstract mutex: taking the word is Acquire, the
\* compare-and-swap of unlock() is Release, every other step is invisible.
THEOREM Refinement == Spec => MutexSpec
<1> DEFINE held == {t \in Threads : InCS(t)}
<1>1. Init => Abstract!MutexInit
  BY DEF Init, Abstract!MutexInit, InCS
<1>2. IInv /\ [Next]_vars => [Abstract!MutexNext]_held
  <2> SUFFICES ASSUME IInv, [Next]_vars
               PROVE  Abstract!MutexNext \/ held' = held
    OBVIOUS
  <2> USE DEF IInv, TypeOK, MutualExclusion, WordMatchesOwner, InCS, Goto,
              Abstract!MutexNext, Abstract!Acquire, Abstract!Release,
              futex_locked, futex_unlocked
  <2>1. ASSUME NEW t \in Threads, lock(t) PROVE Abstract!MutexNext \/ held' = held
    BY <2>1 DEF lock
  <2>2. ASSUME NEW t \in Threads, try_lock(t) PROVE Abstract!MutexNext \/ held' = held
    BY <2>2 DEF try_lock
  <2>3. ASSUME NEW t \in Threads, SpinCas(t) PROVE Abstract!MutexNext \/ held' = held
    BY <2>3 DEF SpinCas
  <2>4. ASSUME NEW t \in Threads, SlowCas(t) PROVE Abstract!MutexNext \/ held' = held
    BY <2>4 DEF SlowCas
  <2>5. ASSUME NEW t \in Threads, FutexWait(t) PROVE Abstract!MutexNext \/ held' = held
    BY <2>5 DEF FutexWait
  <2>6. ASSUME NEW t \in Threads, SpuriousWake(t) PROVE Abstract!MutexNext \/ held' = held
    BY <2>6 DEF SpuriousWake
  <2>7. ASSUME NEW t \in Threads, Interrupted(t) PROVE Abstract!MutexNext \/ held' = held
    BY <2>7 DEF Interrupted
  <2>8. ASSUME NEW t \in Threads, unlock(t) PROVE Abstract!MutexNext \/ held' = held
    BY <2>8 DEF unlock
  <2>9. ASSUME NEW t \in Threads, FutexWake(t) PROVE Abstract!MutexNext \/ held' = held
    BY <2>9 DEF FutexWake
  <2>10. CASE UNCHANGED vars
    BY <2>10 DEF vars
  <2> QED
    BY <2>1, <2>2, <2>3, <2>4, <2>5, <2>6, <2>7, <2>8, <2>9, <2>10
    DEF Next, Step, Finished
<1> QED
  BY <1>1, <1>2, Invariance, PTL DEF Spec, MutexSpec, Abstract!MutexSpec

-----------------------------------------------------------------------------
(* futex_condition_variable. *)

CONSTANTS Waiters, Notifiers, Rounds
VARIABLES cv_fut, cv_holders, cv_pc, cv_items, cv_rounds
CV == INSTANCE FutexCondVar
      WITH fut <- cv_fut, holders <- cv_holders, pc <- cv_pc, items <- cv_items,
           rounds <- cv_rounds

\* No item, nothing to answer for.
LEMMA CvInit == ASSUME CV!ThreadsAssumption PROVE CV!Init => CV!IInv
BY DEF CV!ThreadsAssumption, CV!AllThreads, CV!Init, CV!IInv, CV!TypeOK, CV!PCs, CV!RoundLeft, CV!WaiterPCs, CV!NotifierPCs, CV!Answered

\* Steps of a waiter, woken by nobody included.
LEMMA CvWaiter ==
  ASSUME CV!ThreadsAssumption, CV!IInv, NEW w \in Waiters, CV!WaiterStep(w) \/ CV!SpuriousWake(w)
  PROVE  CV!IInv'
<1> USE DEF CV!ThreadsAssumption, CV!AllThreads, CV!Goto
<1>1. /\ cv_fut \in {0, 1} /\ cv_items \in Nat /\ CV!Answered /\ CV!RoundLeft /\ cv_pc \in [CV!AllThreads -> CV!PCs]
      /\ \A u \in Waiters : cv_pc[u] \in CV!WaiterPCs
      /\ \A n \in Notifiers : cv_pc[n] \in CV!NotifierPCs
  BY DEF CV!IInv, CV!TypeOK
<1>2. PICK l \in CV!WaiterPCs :
        /\ cv_pc' = [cv_pc EXCEPT ![w] = l] /\ cv_rounds' = cv_rounds
        /\ cv_items' \in Nat /\ cv_fut' \in {0, 1}
        /\ \/ l \in {"idle", "check", "clear", "relock"}
           \/ l = "cas" /\ cv_items' = 0
           \/ /\ l \in {"unlock", "fwait"} /\ cv_pc[w] \in {"cas", "unlock"}
              /\ cv_fut' = cv_fut /\ cv_items' = cv_items
           \/ l = "asleep" /\ cv_pc[w] = "fwait" /\ cv_fut = 0 /\ cv_fut' = cv_fut /\ cv_items' = cv_items
  BY <1>1
  DEF CV!WaiterStep, CV!WaiterLock, CV!TakeItem, CV!CallWait, CV!WaitCas, CV!WaitUnlock, CV!WaitFutex, CV!WaitClear,
      CV!WaitRelock, CV!SpuriousWake, CV!WaiterPCs
<1>3. cv_holders' \subseteq CV!AllThreads
  BY DEF CV!IInv, CV!TypeOK, CV!WaiterStep, CV!WaiterLock, CV!TakeItem, CV!CallWait, CV!WaitCas, CV!WaitUnlock,
         CV!WaitFutex, CV!WaitClear, CV!WaitRelock, CV!SpuriousWake, CV!TheMutex!Acquire, CV!TheMutex!Release
<1>4. /\ cv_pc'[w] = l /\ \A u \in CV!AllThreads \ {w} : cv_pc'[u] = cv_pc[u]
      /\ w \notin Notifiers
  BY <1>1, <1>2
<1>5. CV!TypeOK'
  BY <1>1, <1>2, <1>3 DEF CV!IInv, CV!TypeOK, CV!PCs, CV!WaiterPCs
<1>6. /\ \A u \in Waiters : cv_pc'[u] \in CV!WaiterPCs
      /\ \A n \in Notifiers : cv_pc'[n] \in CV!NotifierPCs /\ cv_pc'[n] = cv_pc[n]
  BY <1>1, <1>2, <1>4
<1>7. CV!Answered'
  <2>1. CASE l \in {"idle", "check", "clear", "relock"}
    BY <1>4, <2>1 DEF CV!Answered, CV!Looking
  <2>2. CASE l = "cas" /\ cv_items' = 0
    BY <2>2 DEF CV!Answered
  <2>3. CASE /\ l \in {"unlock", "fwait"} /\ cv_pc[w] \in {"cas", "unlock"}
             /\ cv_fut' = cv_fut /\ cv_items' = cv_items
    BY <1>1, <1>4, <1>6, <2>3 DEF CV!Answered, CV!Looking, CV!Stopped, CV!Waking
  <2>4. CASE l = "asleep" /\ cv_pc[w] = "fwait" /\ cv_fut = 0 /\ cv_fut' = cv_fut /\ cv_items' = cv_items
    BY <1>1, <1>4, <1>6, <2>4 DEF CV!Answered, CV!Looking, CV!Stopped, CV!Waking
  <2> QED
    BY <1>2, <2>1, <2>2, <2>3, <2>4
<1>8. CV!RoundLeft'
  BY <1>1, <1>2, <1>6 DEF CV!RoundLeft
<1> QED
  BY <1>5, <1>6, <1>7, <1>8 DEF CV!IInv

\* Steps of a notifier.
LEMMA CvNotifier ==
  ASSUME CV!ThreadsAssumption, CV!IInv, NEW n \in Notifiers, CV!NotifierStep(n)
  PROVE  CV!IInv'
<1> USE DEF CV!ThreadsAssumption, CV!AllThreads, CV!Goto
<1>1. /\ cv_fut \in {0, 1} /\ cv_items \in Nat /\ CV!Answered /\ CV!RoundLeft /\ cv_pc \in [CV!AllThreads -> CV!PCs]
      /\ cv_holders \subseteq CV!AllThreads /\ cv_rounds \in [Notifiers -> 0..Rounds]
      /\ \A u \in Waiters : cv_pc[u] \in CV!WaiterPCs
      /\ \A m \in Notifiers : cv_pc[m] \in CV!NotifierPCs
  BY DEF CV!IInv, CV!TypeOK
<1>2. CASE CV!NotifierLock(n)
  <2>1. /\ cv_pc' = [cv_pc EXCEPT ![n] = "add"] /\ UNCHANGED <<cv_fut, cv_items, cv_rounds>> /\ cv_pc[n] = "idle"
        /\ cv_rounds[n] < Rounds /\ cv_holders' \subseteq CV!AllThreads
    BY <1>2 DEF CV!NotifierLock, CV!TheMutex!Acquire
  <2>2. CV!TypeOK'
    BY <1>1, <2>1 DEF CV!TypeOK, CV!PCs
  <2>3. CV!Answered'
    BY <1>1, <2>1 DEF CV!Answered, CV!Looking, CV!Stopped, CV!Waking
  <2> QED
    BY <1>1, <2>1, <2>2, <2>3 DEF CV!IInv, CV!RoundLeft, CV!WaiterPCs, CV!NotifierPCs
<1>3. CASE CV!AddItem(n)
  <2>1. /\ cv_pc[n] = "add" /\ cv_pc' = [cv_pc EXCEPT ![n] = "store"] /\ cv_fut' = cv_fut /\ cv_items' = cv_items + 1
        /\ cv_rounds' = [cv_rounds EXCEPT ![n] = @ + 1] /\ cv_holders' \subseteq CV!AllThreads
    BY <1>3 DEF CV!AddItem, CV!TheMutex!Release
  <2>2. CV!TypeOK'
    BY <1>1, <2>1 DEF CV!TypeOK, CV!PCs, CV!RoundLeft
  <2>3. CV!Answered'
    BY <1>1, <2>1 DEF CV!Answered
  <2> QED
    BY <1>1, <2>1, <2>2, <2>3 DEF CV!IInv, CV!RoundLeft, CV!WaiterPCs, CV!NotifierPCs
<1>4. CASE CV!NotifyStore(n)
  <2>1. PICK l \in {"wakeOne", "wakeAll"} :
          cv_pc' = [cv_pc EXCEPT ![n] = l] /\ cv_fut' = 1 /\ UNCHANGED <<cv_holders, cv_items, cv_rounds>>
    BY <1>4, Zenon DEF CV!NotifyStore
  <2>2. CV!TypeOK'
    BY <1>1, <2>1 DEF CV!TypeOK, CV!PCs
  <2>3. PICK w \in Waiters : cv_pc'[w] = cv_pc[w] /\ cv_pc[w] \in CV!WaiterPCs
    BY <1>1, <2>1
  <2>4. CV!Looking' \/ CV!Stopped' \/ CV!Waking'
    BY <1>1, <2>1, <2>3 DEF CV!Looking, CV!Stopped, CV!Waking, CV!WaiterPCs
  <2> QED
    BY <1>1, <2>1, <2>2, <2>4 DEF CV!IInv, CV!RoundLeft, CV!Answered, CV!WaiterPCs, CV!NotifierPCs
<1>5. CASE CV!notify_one(n) \/ CV!notify_all(n)
  <2>1. /\ \A u \in CV!AllThreads \ {n} :
             cv_pc'[u] = cv_pc[u] \/ (u \in Waiters /\ cv_pc[u] = "asleep" /\ cv_pc'[u] = "clear")
        /\ cv_pc' \in [CV!AllThreads -> CV!PCs] /\ cv_pc'[n] = "idle"
        /\ cv_pc[n] \in {"wakeOne", "wakeAll"}
        /\ UNCHANGED <<cv_fut, cv_holders, cv_items, cv_rounds>>
        /\ (\E w \in Waiters : cv_pc'[w] = "clear") \/ \A w \in Waiters : cv_pc[w] # "asleep"
    BY <1>1, <1>5 DEF CV!notify_one, CV!notify_all, CV!Asleep, CV!PCs
  <2>2. CV!TypeOK'
    BY <1>1, <2>1 DEF CV!TypeOK
  <2>3. CV!Answered'
    BY <1>1, <2>1 DEF CV!Answered, CV!Looking, CV!Stopped, CV!Waking
  <2> QED
    BY <1>1, <2>1, <2>2, <2>3 DEF CV!IInv, CV!RoundLeft, CV!WaiterPCs, CV!NotifierPCs
<1> QED
  BY <1>2, <1>3, <1>4, <1>5 DEF CV!NotifierStep

\* The invariant of the condition variable is inductive.
LEMMA CvNext == ASSUME CV!ThreadsAssumption PROVE CV!IInv /\ [CV!Next]_(CV!vars) => CV!IInv'
<1> SUFFICES ASSUME CV!IInv, [CV!Next]_(CV!vars) PROVE CV!IInv'
  OBVIOUS
<1>1. CASE UNCHANGED CV!vars
  BY <1>1
  DEF CV!vars, CV!IInv, CV!TypeOK, CV!RoundLeft, CV!Answered, CV!Looking, CV!Stopped, CV!Waking
<1>2. CASE CV!Finished
  BY <1>1, <1>2 DEF CV!Finished
<1> QED
  BY <1>1, <1>2, CvWaiter, CvNotifier DEF CV!Next

\* wait() and notify_*() lose no notification: the waiters never all sleep over an item
\* that no notifier is about to wake one of them for, whatever wait()'s plain store to
\* the word wipes out, for any number of waiters and notifiers.
THEOREM NotificationsReach ==
  ASSUME CV!ThreadsAssumption
  PROVE  CV!Spec => [](CV!TypeOK /\ CV!NoMissedNotification)
<1>1. CV!Init => CV!IInv
  BY CvInit
<1>2. CV!IInv /\ [CV!Next]_(CV!vars) => CV!IInv'
  BY CvNext
<1>3. CV!IInv => CV!TypeOK /\ CV!NoMissedNotification
  BY DEF CV!IInv, CV!Answered, CV!Looking, CV!Stopped, CV!Waking, CV!NoMissedNotification, CV!Asleep
<1> QED
  BY <1>1, <1>2, <1>3, PTL DEF CV!Spec

-----------------------------------------------------------------------------
(* lock() of one and of two mutexes. *)

CONSTANTS LockThreads, Mutexes, Nobody, Args, LockRounds
VARIABLES owner, ml_pc, first, round
ML == INSTANCE MultiLock WITH Threads <- LockThreads, Rounds <- LockRounds, pc <- ml_pc

\* What lock() was called with, by place in the call.
LEMMA Arguments ==
    ASSUME ML!ArgsAssumption, ML!TypeOK, NEW t \in LockThreads, ML!InTwo(t)
    PROVE  /\ Args[t][1] \in Mutexes
           /\ ml_pc[t] = "lock" => ML!First(t) \in Mutexes
           /\ Len(Args[t]) = 2 =>
                /\ ML!First(t) \in Mutexes /\ ML!Second(t) \in Mutexes /\ ML!First(t) # ML!Second(t)
                /\ {ML!First(t), ML!Second(t)} = {Args[t][1], Args[t][2]}
           /\ DOMAIN Args[t] = 1 .. Len(Args[t])
BY DEF ML!ArgsAssumption, ML!TypeOK, ML!InTwo, ML!First, ML!Second

\* A step of t that leaves the other threads' mutexes and places alone.
LEMMA Others ==
    ASSUME ML!IInv, NEW t \in LockThreads, NEW u \in LockThreads \ {t},
           \A m \in Mutexes : owner'[m] = u <=> owner[m] = u,
           ml_pc'[u] = ml_pc[u], first'[u] = first[u]
    PROVE  ML!InTwo(u)' /\ ML!Owns(u)'
BY DEF ML!IInv, ML!InTwo, ML!Owns, ML!First

\* Nobody owns anything at first.
LEMMA LockInit == ASSUME ML!ArgsAssumption PROVE ML!Init => ML!IInv
BY DEF ML!ArgsAssumption, ML!Init, ML!IInv, ML!TypeOK, ML!InTwo, ML!Owns

\* Every call on a mutex leaves each thread with what its place says.
LEMMA LockStep ==
    ASSUME ML!ArgsAssumption, ML!IInv, NEW t \in LockThreads, ML!Step(t)
    PROVE  ML!IInv'
<1> USE DEF ML!Go
<1>1. /\ ML!TypeOK /\ ML!InTwo(t) /\ ML!Owns(t) /\ Nobody \notin LockThreads /\ LockRounds \in Nat
      /\ Len(Args[t]) \in {1, 2}
  BY DEF ML!IInv, ML!ArgsAssumption
<1>2. /\ Args[t][1] \in Mutexes
      /\ ml_pc[t] = "lock" => ML!First(t) \in Mutexes
      /\ Len(Args[t]) = 2 =>
           /\ ML!First(t) \in Mutexes /\ ML!Second(t) \in Mutexes /\ ML!First(t) # ML!Second(t)
           /\ {ML!First(t), ML!Second(t)} = {Args[t][1], Args[t][2]}
  BY <1>1, Arguments
<1>3. ML!TypeOK'
  BY <1>1, <1>2 DEF ML!TypeOK, ML!InTwo, ML!Step, ML!Enter, ML!Lock, ML!TryLock, ML!BackOff, ML!Unlock
<1>4. \A u \in LockThreads \ {t} : ml_pc'[u] = ml_pc[u] /\ first'[u] = first[u]
  BY <1>1 DEF ML!TypeOK, ML!Step, ML!Enter, ML!Lock, ML!TryLock, ML!BackOff, ML!Unlock
<1>5. \A m \in Mutexes : owner'[m] = owner[m] \/ (owner[m] = Nobody /\ owner'[m] = t)
                         \/ (owner[m] = t /\ owner'[m] = Nobody)
  BY <1>1, <1>2 DEF ML!TypeOK, ML!InTwo, ML!Owns, ML!Step, ML!Enter, ML!Lock, ML!TryLock, ML!BackOff, ML!Unlock
<1>6. \A u \in LockThreads \ {t} : ML!InTwo(u)' /\ ML!Owns(u)'
  BY <1>1, <1>4, <1>5, Others
<1>7. ML!InTwo(t)' /\ ML!Owns(t)'
  <2> USE <1>1, <1>2 DEF ML!TypeOK, ML!InTwo, ML!Owns, ML!First, ML!Second
  <2>1. CASE ML!Enter(t)
    BY <2>1 DEF ML!Enter
  <2>2. CASE ML!Lock(t)
    BY <2>2 DEF ML!Lock
  <2>3. CASE ML!TryLock(t)
    BY <2>3 DEF ML!TryLock
  <2>4. CASE ML!BackOff(t)
    BY <2>4 DEF ML!BackOff
  <2>5. CASE ML!Unlock(t)
    BY <2>5 DEF ML!Unlock
  <2> QED
    BY <2>1, <2>2, <2>3, <2>4, <2>5 DEF ML!Step
<1> QED
  BY <1>3, <1>6, <1>7 DEF ML!IInv

\* The invariant of the lock functions is inductive.
LEMMA LockNext == ASSUME ML!ArgsAssumption PROVE ML!IInv /\ [ML!Next]_(ML!vars) => ML!IInv'
<1> SUFFICES ASSUME ML!IInv, [ML!Next]_(ML!vars) PROVE ML!IInv'
  OBVIOUS
<1>1. CASE UNCHANGED ML!vars
  BY <1>1 DEF ML!vars, ML!IInv, ML!TypeOK, ML!InTwo, ML!Owns, ML!First
<1> QED
  BY <1>1, LockStep DEF ML!Next

\* Whoever names the mutexes in whatever order, lock returns with exactly the mutexes
\* asked for, and a thread that waits for one owns none, so that threads in lock never
\* wait for each other in a circle.
THEOREM LockOwnership ==
    ASSUME ML!ArgsAssumption
    PROVE  ML!Spec => [](ML!OwnsItsArguments /\ ML!WaitsEmptyHanded)
<1>1. ML!Init => ML!IInv
  BY LockInit
<1>2. ML!IInv /\ [ML!Next]_(ML!vars) => ML!IInv'
  BY LockNext
<1>3. ML!IInv => ML!OwnsItsArguments /\ ML!WaitsEmptyHanded
  <2> SUFFICES ASSUME ML!IInv, NEW t \in LockThreads
               PROVE  /\ ml_pc[t] = "in" => {m \in Mutexes : owner[m] = t}
                                           = {Args[t][i] : i \in DOMAIN Args[t]}
                      /\ ml_pc[t] \in {"out", "lock"} => \A m \in Mutexes : owner[m] # t
    BY DEF ML!OwnsItsArguments, ML!WaitsEmptyHanded
  <2>1. ML!InTwo(t) /\ ML!Owns(t) /\ ML!TypeOK
    BY DEF ML!IInv
  <2>2. Args[t] \in Seq(Mutexes) /\ Len(Args[t]) \in {1, 2}
    BY DEF ML!ArgsAssumption
  <2>3. ASSUME ml_pc[t] = "in" PROVE {m \in Mutexes : owner[m] = t} = {Args[t][i] : i \in DOMAIN Args[t]}
    BY <2>1, <2>2, <2>3 DEF ML!Owns
  <2> QED
    BY <2>1, <2>3 DEF ML!Owns
<1> QED
  BY <1>1, <1>2, <1>3, PTL DEF ML!Spec

-----------------------------------------------------------------------------
(* The locks together. *)

\* Every lock component is well typed.
TypesOK == TypeOK /\ CV!TypeOK /\ ML!TypeOK

\* The words, the places of the threads and the owners that the locks keep stay in
\* range, for any threads and mutexes.
THEOREM TypesCorrect ==
  ASSUME CV!ThreadsAssumption, ML!ArgsAssumption
  PROVE  Spec /\ CV!Spec /\ ML!Spec => []TypesOK
<1>1. CV!Spec => []CV!TypeOK
  BY NotificationsReach, PTL
<1>2. ML!Spec => []ML!TypeOK
  <2>1. ML!Init => ML!IInv
    BY LockInit
  <2>2. ML!IInv /\ [ML!Next]_(ML!vars) => ML!IInv'
    BY LockNext
  <2>3. ML!IInv => ML!TypeOK
    BY DEF ML!IInv
  <2> QED
    BY <2>1, <2>2, <2>3, PTL DEF ML!Spec
<1> QED
  BY <1>1, <1>2, TypeCorrect, PTL DEF TypesOK

-----------------------------------------------------------------------------
(* The mutexes of the C library, and call_once. *)

CONSTANTS BlockThreads, Kinds, BlockMaxCalls, MaxDepth, SemInitial, SemMax, MaxUpdate
VARIABLE prim
BL == INSTANCE Blocking WITH Threads <- BlockThreads, MaxCalls <- BlockMaxCalls, b <- prim

\* An unused object of any of the classes.
LEMMA BlockInit == ASSUME BL!BlockingAssumption PROVE BL!Init => BL!IInv
<1> SUFFICES ASSUME BL!Init PROVE BL!IInv
  OBVIOUS
<1>1. /\ prim.owner = BL!None /\ prim.count = 0 /\ prim.once = "init" /\ prim.runs = 0 /\ prim.returned = FALSE
      /\ prim.pc = [t \in BlockThreads |-> "idle"] /\ prim.told = [t \in BlockThreads |-> 0]
      /\ prim.untold = [t \in BlockThreads |-> 0] /\ prim.kind \in Kinds /\ DOMAIN prim = BL!Fields
  <2>1. PICK k \in Kinds : prim = [kind |-> k, pc |-> [t \in BlockThreads |-> "idle"],
             calls |-> [t \in BlockThreads |-> 0], owner |-> BL!None, count |-> 0,
             told |-> [t \in BlockThreads |-> 0], untold |-> [t \in BlockThreads |-> 0],
             value |-> SemInitial, left |-> [t \in BlockThreads |-> 0], granted |-> 0, offered |-> 0,
             once |-> "init", runs |-> 0, returned |-> FALSE]
    BY Zenon DEF BL!Init
  <2> QED
    BY <2>1 DEF BL!Fields
<1>2. BL!TypeOK
  <2>1. "idle" \in BL!PCs(prim.kind)
    BY DEF BL!PCs
  <2>2. /\ prim.pc \in [BlockThreads -> BL!PCs(prim.kind)] /\ prim.told \in [BlockThreads -> Nat] /\ prim.untold \in [BlockThreads -> Nat]
        /\ prim.count \in Nat /\ prim.runs \in Nat
    BY <1>1, <2>1
  <2>3. prim.returned \in BOOLEAN
    BY <1>1, Zenon
  <2> QED
    BY <1>1, <2>2, <2>3 DEF BL!TypeOK
<1>3. \A t \in BlockThreads : prim.pc[t] = "idle" /\ prim.told[t] = 0 /\ prim.untold[t] = 0
  BY <1>1
<1>4. BL!MutexInv
  BY <1>1, <1>3 DEF BL!MutexInv, BL!At, BL!BlockingAssumption
<1>5. BL!OnceInv
  BY <1>1, <1>3 DEF BL!OnceInv, BL!InRoutine, BL!At
<1> QED
  BY <1>2, <1>4, <1>5 DEF BL!IInv

\* The locks and the once_flag stay what they are, and t goes to l.
BlockAt(t, l) ==
  /\ DOMAIN prim' = BL!Fields /\ prim'.pc = [prim.pc EXCEPT ![t] = l]
  /\ prim'.kind = prim.kind /\ prim'.owner = prim.owner /\ prim'.count = prim.count /\ prim'.told = prim.told
  /\ prim'.untold = prim.untold /\ prim'.once = prim.once /\ prim'.runs = prim.runs /\ prim'.returned = prim.returned

\* A step that changes nothing but where t is.
LEMMA BlockMoves ==
  ASSUME BL!IInv, NEW t \in BlockThreads, NEW l, BlockAt(t, l), l \in BL!PCs(prim.kind),
         l = "lock" => prim.kind = "recursive" \/ prim.told[t] = 0,
         ~BL!InRoutine(t), l \notin {"routine", "mark", "longjmp"}
  PROVE  BL!IInv'
<1>1. BL!TypeOK'
  BY DEF BL!IInv, BL!TypeOK, BlockAt
<1>2. \A u \in BlockThreads : prim'.pc[u] = IF u = t THEN l ELSE prim.pc[u]
  BY DEF BL!IInv, BL!TypeOK, BlockAt
<1>3. BL!MutexInv'
  BY <1>2 DEF BL!IInv, BL!MutexInv, BlockAt, BL!At
<1>4. \A u \in BlockThreads : BL!InRoutine(u)' = BL!InRoutine(u) /\ BL!At(u, "mark")' = BL!At(u, "mark")
  BY <1>2 DEF BL!InRoutine, BL!At
<1>5. BL!OnceInv'
  BY <1>4 DEF BL!IInv, BL!OnceInv, BlockAt
<1> QED
  BY <1>1, <1>3, <1>5 DEF BL!IInv

\* The calls that begin, and those that change no lock.
LEMMA BlockCalls ==
  ASSUME BL!IInv, NEW t \in BlockThreads,
         \/ BL!Lock(t) \/ BL!TryLockUntil(t) \/ BL!Release(t) \/ BL!Acquire(t) \/ BL!try_acquire(t) \/ BL!CallOnce(t)
         \/ BL!post(t) \/ BL!wait(t) \/ BL!Interrupted(t)
  PROVE  BL!IInv'
<1>1. ASSUME NEW l, BL!Begin(t, l) PROVE BlockAt(t, l) /\ BL!At(t, "idle")
  BY <1>1 DEF BL!Begin, BL!IInv, BL!TypeOK, BL!Fields, BlockAt
<1>2. BL!At(t, "idle") \/ BL!At(t, "post") \/ BL!At(t, "wait") => ~BL!InRoutine(t)
  BY DEF BL!At, BL!InRoutine
<1>3. CASE BL!Lock(t)
  BY <1>1, <1>2, <1>3, BlockMoves DEF BL!Lock, BL!PCs, BL!Mutexes
<1>4. CASE BL!TryLockUntil(t)
  BY <1>1, <1>2, <1>4, BlockMoves DEF BL!TryLockUntil, BL!PCs
<1>5. CASE BL!Acquire(t)
  BY <1>1, <1>2, <1>5, BlockMoves DEF BL!Acquire, BL!PCs
<1>6. CASE BL!CallOnce(t)
  BY <1>1, <1>2, <1>6, BlockMoves DEF BL!CallOnce, BL!PCs
<1>7. CASE BL!Release(t)
  <2>1. PICK n \in 0..MaxUpdate :
          prim' = [prim EXCEPT !.pc[t] = "post", !.calls[t] = @ + 1, !.left[t] = n, !.offered = @ + n]
    BY <1>7, Zenon DEF BL!Release
  <2>2. BL!At(t, "idle") /\ prim.kind = "semaphore"
    BY <1>7, Zenon DEF BL!Release
  <2>3. BlockAt(t, "post")
    BY <2>1 DEF BL!IInv, BL!TypeOK, BL!Fields, BlockAt
  <2>4. "post" \in BL!PCs(prim.kind)
    BY <2>2 DEF BL!PCs
  <2> QED
    BY <1>2, <2>2, <2>3, <2>4, BlockMoves
<1>8. CASE BL!try_acquire(t)
  <2>1. BlockAt(t, "idle") /\ BL!At(t, "idle")
    BY <1>8 DEF BL!try_acquire, BL!Return, BL!IInv, BL!TypeOK, BL!Fields, BlockAt
  <2> QED
    BY <1>2, <2>1, BlockMoves DEF BL!PCs
<1>9. CASE BL!wait(t) \/ BL!Interrupted(t)
  <2>1. BlockAt(t, "idle") /\ BL!At(t, "wait")
    BY <1>9, Zenon DEF BL!wait, BL!Interrupted, BL!Return, BL!IInv, BL!TypeOK, BL!Fields, BlockAt
  <2> QED
    BY <1>2, <2>1, BlockMoves DEF BL!PCs
<1>10. CASE BL!post(t)
  <2>1. BL!At(t, "post") /\ (BlockAt(t, "idle") \/ BlockAt(t, "post"))
    <3>1. CASE BL!Return(t, prim)
      BY <1>10, <3>1 DEF BL!post, BL!Return, BL!IInv, BL!TypeOK, BL!Fields, BlockAt
    <3>2. CASE prim' = [prim EXCEPT !.left[t] = @ - 1, !.value = @ + 1]
      <4>1. prim.pc = [prim.pc EXCEPT ![t] = "post"]
        BY <1>10 DEF BL!post, BL!At, BL!IInv, BL!TypeOK
      <4> QED
        BY <1>10, <3>2, <4>1 DEF BL!post, BL!IInv, BL!TypeOK, BL!Fields, BlockAt
    <3>3. CASE BL!Return(t, [prim EXCEPT !.offered = @ - prim.left[t], !.left[t] = 0])
      BY <1>10, <3>3 DEF BL!post, BL!Return, BL!IInv, BL!TypeOK, BL!Fields, BlockAt
    <3> QED
      BY <1>10, <3>1, <3>2, <3>3 DEF BL!post
  <2>2. "post" \in BL!PCs(prim.kind)
    BY <2>1 DEF BL!At, BL!IInv, BL!TypeOK
  <2> QED
    BY <1>2, <2>1, <2>2, BlockMoves DEF BL!PCs
<1> QED
  BY <1>3, <1>4, <1>5, <1>6, <1>7, <1>8, <1>9, <1>10

\* t gets the mutex, and told[t] or untold[t] counts it.
LEMMA BlockLocks ==
  ASSUME BL!BlockingAssumption, BL!IInv, NEW t \in BlockThreads, BL!Available(t), prim.kind \in BL!Mutexes,
         DOMAIN prim' = BL!Fields, prim'.kind = prim.kind, prim'.owner = t, prim'.count = prim.count + 1,
         prim'.pc = [prim.pc EXCEPT ![t] = "idle"],
         \/ prim'.told = [prim.told EXCEPT ![t] = @ + 1] /\ prim'.untold = prim.untold
         \/ prim'.untold = [prim.untold EXCEPT ![t] = @ + 1] /\ prim'.told = prim.told,
         prim'.once = prim.once, prim'.runs = prim.runs, prim'.returned = prim.returned
  PROVE  BL!IInv'
<1>1. BL!TypeOK'
  BY DEF BL!IInv, BL!TypeOK, BL!PCs
<1>2. \A u \in BlockThreads : prim'.pc[u] = IF u = t THEN "idle" ELSE prim.pc[u]
  BY DEF BL!IInv, BL!TypeOK
<1>3. /\ prim'.told[t] + prim'.untold[t] = prim.told[t] + prim.untold[t] + 1
      /\ \A u \in BlockThreads \ {t} : prim'.told[u] = prim.told[u] /\ prim'.untold[u] = prim.untold[u]
      /\ \A u \in BlockThreads : prim.told[u] \in Nat /\ prim.untold[u] \in Nat
  BY DEF BL!IInv, BL!TypeOK
<1>4. /\ \A u \in BlockThreads : prim.owner = u <=> prim.told[u] + prim.untold[u] > 0
      /\ prim.count = prim.told[t] + prim.untold[t]
      /\ \A u \in BlockThreads \ {t} : prim.told[u] + prim.untold[u] = 0
      /\ prim.kind = "recursive" => prim.count < MaxDepth
  <2>1. prim.owner = BL!None \/ prim.owner = t
    BY DEF BL!Available
  <2> QED
    BY <1>3, <2>1 DEF BL!IInv, BL!MutexInv, BL!Available, BL!BlockingAssumption
<1>5. BL!MutexInv'
  BY <1>1, <1>2, <1>3, <1>4 DEF BL!TypeOK, BL!IInv, BL!MutexInv, BL!At, BL!BlockingAssumption
<1>6. BL!OnceInv'
  BY DEF BL!OnceInv, BL!Mutexes
<1> QED
  BY <1>1, <1>5, <1>6 DEF BL!IInv

\* The calls that take a mutex or begin to wait for it.
LEMMA BlockTakes ==
  ASSUME BL!BlockingAssumption, BL!IInv, NEW t \in BlockThreads, BL!lock(t) \/ BL!try_lock(t) \/ BL!try_lock_until(t)
  PROVE  BL!IInv'
<1>1. /\ prim.kind \in BL!Mutexes /\ ~BL!InRoutine(t) /\ "idle" \in BL!PCs(prim.kind)
  BY DEF BL!lock, BL!try_lock, BL!try_lock_until, BL!At, BL!InRoutine, BL!IInv, BL!TypeOK, BL!PCs, BL!BlockingAssumption, BL!Mutexes
<1>2. CASE BlockAt(t, "idle")
  BY <1>1, <1>2, BlockMoves
<1>3. CASE BL!Available(t) /\ BL!Return(t, BL!Told(t))
  BY <1>1, <1>3, BlockLocks DEF BL!Return, BL!Told, BL!Locked, BL!IInv, BL!TypeOK, BL!Fields
<1>4. CASE BL!Available(t) /\ BL!Return(t, [BL!Told(t) EXCEPT !.calls[t] = @ + 1])
  BY <1>1, <1>4, BlockLocks DEF BL!Return, BL!Told, BL!Locked, BL!IInv, BL!TypeOK, BL!Fields
<1>5. CASE BL!Available(t) /\ BL!Return(t, [BL!Locked(t) EXCEPT !.untold[t] = @ + 1])
  BY <1>1, <1>5, BlockLocks DEF BL!Return, BL!Locked, BL!IInv, BL!TypeOK, BL!Fields
<1>6. ASSUME BL!Return(t, prim) \/ BL!Return(t, [prim EXCEPT !.calls[t] = @ + 1]) PROVE BlockAt(t, "idle")
  BY <1>6, Zenon DEF BL!Return, BL!IInv, BL!TypeOK, BL!Fields, BlockAt
<1> QED
  BY <1>2, <1>3, <1>4, <1>5, <1>6 DEF BL!lock, BL!try_lock, BL!try_lock_until

\* unlock(), the last of a recursive mutex included.
LEMMA BlockUnlock ==
  ASSUME BL!BlockingAssumption, BL!IInv, NEW t \in BlockThreads, BL!unlock(t)
  PROVE  BL!IInv'
<1>1. /\ DOMAIN prim' = BL!Fields /\ prim'.kind = prim.kind /\ prim'.count = prim.count - 1
      /\ prim'.owner = (IF prim.count = 1 THEN BL!None ELSE prim.owner)
      /\ prim'.told = [prim.told EXCEPT ![t] = @ - 1] /\ prim'.untold = prim.untold
      /\ prim'.pc = [prim.pc EXCEPT ![t] = "idle"]
      /\ prim'.once = prim.once /\ prim'.runs = prim.runs /\ prim'.returned = prim.returned
      /\ prim.told[t] > 0 /\ BL!At(t, "idle")
  BY DEF BL!unlock, BL!Return, BL!IInv, BL!TypeOK, BL!Fields
<1>2. /\ prim.kind \in BL!Mutexes /\ prim.owner = t /\ prim.count = prim.told[t] + prim.untold[t] /\ prim.told[t] \in Nat
      /\ prim.untold[t] \in Nat
  BY <1>1 DEF BL!IInv, BL!TypeOK, BL!MutexInv, BL!BlockingAssumption
<1>3. BL!TypeOK'
  <2>1. "idle" \in BL!PCs(prim.kind) /\ prim.told[t] - 1 \in Nat /\ prim.count - 1 \in Nat
    BY <1>1, <1>2 DEF BL!PCs
  <2> QED
    BY <1>1, <1>2, <2>1 DEF BL!IInv, BL!TypeOK
<1>4. /\ \A u \in BlockThreads : prim'.pc[u] = IF u = t THEN "idle" ELSE prim.pc[u]
      /\ \A u \in BlockThreads \ {t} : prim'.told[u] = prim.told[u] /\ prim.told[u] + prim.untold[u] = 0 /\ prim.told[u] \in Nat
                                  /\ prim.untold[u] \in Nat
      /\ prim'.told[t] = prim.told[t] - 1
  <2>1. \A u \in BlockThreads : prim.told[u] \in Nat /\ prim.untold[u] \in Nat
    BY DEF BL!IInv, BL!TypeOK
  <2>2. \A u \in BlockThreads \ {t} : prim.told[u] + prim.untold[u] = 0
    BY <1>2, <2>1 DEF BL!IInv, BL!MutexInv
  <2> QED
    BY <1>1, <2>1, <2>2 DEF BL!IInv, BL!TypeOK
<1>5. BL!MutexInv'
  <2>1. /\ prim.kind # "recursive" => \A u \in BlockThreads : BL!At(u, "lock") => prim.told[u] = 0
        /\ prim.kind = "recursive" => prim.count <= MaxDepth /\ MaxDepth \in Nat /\ BL!None # t
    BY <1>2 DEF BL!IInv, BL!MutexInv, BL!BlockingAssumption
  <2>2. BL!None \notin BlockThreads
    BY DEF BL!BlockingAssumption
  <2>3. prim'.count = (IF prim'.owner = BL!None THEN 0 ELSE prim'.told[prim'.owner] + prim'.untold[prim'.owner])
    BY <1>1, <1>2, <1>4, <2>2
  <2>4. ASSUME NEW u \in BlockThreads PROVE prim'.owner = u <=> prim'.told[u] + prim'.untold[u] > 0
    <3>1. CASE u = t
      BY <1>1, <1>2, <1>4, <2>2, <3>1
    <3>2. CASE u # t
      <4>1. prim'.told[u] = prim.told[u] /\ prim'.untold[u] = prim.untold[u] /\ prim.told[u] + prim.untold[u] = 0
        BY <1>1, <1>4, <3>2
      <4>2. prim'.owner # u
        BY <1>1, <1>2, <2>2, <3>2
      <4> QED
        BY <4>1, <4>2
    <3> QED
      BY <3>1, <3>2
  <2>5. prim'.kind # "recursive" => \A u \in BlockThreads : prim'.pc[u] = "lock" => prim'.told[u] = 0
    BY <1>1, <1>4, <2>1 DEF BL!At
  <2>6. prim'.kind = "recursive" => prim'.count <= MaxDepth
    BY <1>1, <1>2, <2>1
  <2> QED
    BY <1>1, <1>2, <2>3, <2>4, <2>5, <2>6 DEF BL!MutexInv, BL!At
<1>6. BL!OnceInv'
  BY <1>1, <1>2 DEF BL!OnceInv, BL!Mutexes
<1> QED
  BY <1>3, <1>5, <1>6 DEF BL!IInv

\* The steps of call_once inside pthread_once.
LEMMA BlockOnce ==
  ASSUME BL!BlockingAssumption, BL!IInv, NEW t \in BlockThreads,
         BL!pthread_once(t) \/ BL!Routine(t) \/ BL!Mark(t) \/ BL!longjmp(t)
  PROVE  BL!IInv'
<1>1. prim.kind = "once" /\ BL!At(t, prim.pc[t]) /\ \A u \in BlockThreads : prim.told[u] = 0
  BY SMTT(20) DEF BL!pthread_once, BL!Routine, BL!Mark, BL!longjmp, BL!At, BL!IInv, BL!TypeOK, BL!PCs, BL!MutexInv, BL!Mutexes
<1> DEFINE Goes(l, o, r) ==
             /\ DOMAIN prim' = BL!Fields /\ prim'.pc = [prim.pc EXCEPT ![t] = l] /\ prim'.once = o /\ prim'.runs = r
             /\ prim'.returned \in BOOLEAN /\ prim'.kind = prim.kind /\ prim'.owner = prim.owner /\ prim'.count = prim.count
             /\ prim'.told = prim.told /\ prim'.untold = prim.untold
<1>2. ASSUME NEW l \in BL!PCs("once"), NEW o \in {"init", "running", "done"}, NEW r \in Nat,
             Goes(l, o, r)
      PROVE  /\ BL!TypeOK' /\ BL!MutexInv' /\ \A u \in BlockThreads : prim'.pc[u] = IF u = t THEN l ELSE prim.pc[u]
             /\ prim'.once = o /\ prim'.runs = r
  BY <1>1, <1>2 DEF BL!IInv, BL!TypeOK, BL!MutexInv, BL!Mutexes
<1> DEFINE Alone == \A u \in BlockThreads \ {t} : ~BL!InRoutine(u)
<1> HIDE DEF Goes
<1>3. \A l : l \in {"idle", "routine", "mark", "longjmp"} => l \in BL!PCs("once")
  BY DEF BL!PCs
<1>4. ASSUME BL!At(t, "once") PROVE ~BL!InRoutine(t) /\ ~BL!At(t, "mark")
  BY <1>4 DEF BL!At, BL!InRoutine
<1>5. ASSUME BL!InRoutine(t) PROVE Alone /\ prim.once = "running" /\ ~prim.returned
  BY <1>1, <1>5 DEF BL!IInv, BL!OnceInv
<1>6. CASE BL!At(t, "once") /\ prim.once = "init" /\ prim' = [prim EXCEPT !.once = "running", !.pc[t] = "routine"]
  <2>1. Goes("routine", "running", prim.runs) /\ prim'.returned = prim.returned
    BY <1>6 DEF Goes, BL!IInv, BL!TypeOK, BL!Fields
  <2>2. /\ BL!TypeOK' /\ BL!MutexInv' /\ \A u \in BlockThreads : prim'.pc[u] = IF u = t THEN "routine" ELSE prim.pc[u]
        /\ prim'.once = "running" /\ prim'.runs = prim.runs
    BY <1>2, <1>3, <2>1, Zenon DEF BL!IInv, BL!TypeOK
  <2>3. BL!OnceInv'
    BY <1>1, <1>6, <2>1, <2>2 DEF BL!IInv, BL!OnceInv, BL!InRoutine, BL!At
  <2> QED
    BY <2>2, <2>3 DEF BL!IInv
<1>7. CASE BL!At(t, "once") /\ prim.once = "done" /\ BL!Return(t, [prim EXCEPT !.returned = TRUE])
  <2>1. Goes("idle", "done", prim.runs) /\ prim'.returned = TRUE
    BY <1>7 DEF Goes, BL!Return, BL!IInv, BL!TypeOK, BL!Fields
  <2>2. /\ BL!TypeOK' /\ BL!MutexInv' /\ \A u \in BlockThreads : prim'.pc[u] = IF u = t THEN "idle" ELSE prim.pc[u]
        /\ prim'.once = "done" /\ prim'.runs = prim.runs
    BY <1>2, <1>3, <2>1, Zenon DEF BL!IInv, BL!TypeOK
  <2>3. BL!OnceInv'
    BY <1>1, <1>7, <2>1, <2>2 DEF BL!IInv, BL!OnceInv, BL!InRoutine, BL!At
  <2> QED
    BY <2>2, <2>3 DEF BL!IInv
<1>8. CASE BL!At(t, "routine") /\ prim' = [prim EXCEPT !.runs = @ + 1, !.pc[t] = "mark"]
  <2>1. Goes("mark", prim.once, prim.runs + 1) /\ prim'.returned = prim.returned
    BY <1>8 DEF Goes, BL!IInv, BL!TypeOK, BL!Fields
  <2>2. /\ BL!TypeOK' /\ BL!MutexInv' /\ \A u \in BlockThreads : prim'.pc[u] = IF u = t THEN "mark" ELSE prim.pc[u]
        /\ prim'.once = prim.once /\ prim'.runs = prim.runs + 1
    <3>1. prim.runs + 1 \in Nat /\ prim.once \in {"init", "running", "done"}
      BY DEF BL!IInv, BL!TypeOK
    <3> QED
      BY <1>2, <1>3, <2>1, <3>1, Zenon
  <2>3. Alone /\ prim.once = "running" /\ ~prim.returned
    BY <1>5, <1>8 DEF BL!InRoutine, BL!At
  <2>4. prim.runs = 0
    BY <1>1, <1>8, <2>3 DEF BL!IInv, BL!OnceInv, BL!InRoutine, BL!At
  <2>5. BL!OnceInv'
    BY <1>1, <1>8, <2>1, <2>2, <2>3, <2>4 DEF BL!OnceInv, BL!InRoutine, BL!At
  <2> QED
    BY <2>2, <2>5 DEF BL!IInv
<1>9. CASE BL!At(t, "routine") /\ prim' = [prim EXCEPT !.pc[t] = "longjmp"]
  <2>1. Goes("longjmp", prim.once, prim.runs) /\ prim'.returned = prim.returned
    BY <1>9 DEF Goes, BL!IInv, BL!TypeOK, BL!Fields
  <2>2. /\ BL!TypeOK' /\ BL!MutexInv' /\ \A u \in BlockThreads : prim'.pc[u] = IF u = t THEN "longjmp" ELSE prim.pc[u]
        /\ prim'.once = prim.once /\ prim'.runs = prim.runs
    BY <1>2, <1>3, <2>1, Zenon DEF BL!IInv, BL!TypeOK
  <2>3. Alone /\ prim.once = "running" /\ ~prim.returned
    BY <1>5, <1>9 DEF BL!InRoutine, BL!At
  <2>4. prim.runs = 0
    BY <1>1, <1>9, <2>3 DEF BL!IInv, BL!OnceInv, BL!InRoutine, BL!At
  <2>5. BL!OnceInv'
    BY <1>1, <1>9, <2>1, <2>2, <2>3, <2>4 DEF BL!OnceInv, BL!InRoutine, BL!At
  <2> QED
    BY <2>2, <2>5 DEF BL!IInv
<1>10. CASE BL!Mark(t)
  <2>1. Goes("idle", "done", prim.runs) /\ prim'.returned = TRUE /\ BL!At(t, "mark")
    BY <1>10 DEF Goes, BL!Mark, BL!Return, BL!IInv, BL!TypeOK, BL!Fields
  <2>2. /\ BL!TypeOK' /\ BL!MutexInv' /\ \A u \in BlockThreads : prim'.pc[u] = IF u = t THEN "idle" ELSE prim.pc[u]
        /\ prim'.once = "done" /\ prim'.runs = prim.runs
    BY <1>2, <1>3, <2>1, Zenon DEF BL!IInv, BL!TypeOK
  <2>3. Alone /\ prim.once = "running" /\ ~prim.returned
    BY <1>5, <2>1 DEF BL!InRoutine, BL!At
  <2>4. prim.runs = 1
    BY <1>1, <2>1, <2>3 DEF BL!IInv, BL!OnceInv
  <2>5. BL!OnceInv'
    BY <1>1, <2>1, <2>2, <2>3, <2>4 DEF BL!OnceInv, BL!InRoutine, BL!At
  <2> QED
    BY <2>2, <2>5 DEF BL!IInv
<1>11. CASE BL!longjmp(t)
  <2>1. Goes("idle", "init", prim.runs) /\ prim'.returned = prim.returned /\ BL!At(t, "longjmp")
    BY <1>11 DEF Goes, BL!longjmp, BL!Return, BL!IInv, BL!TypeOK, BL!Fields
  <2>2. /\ BL!TypeOK' /\ BL!MutexInv' /\ \A u \in BlockThreads : prim'.pc[u] = IF u = t THEN "idle" ELSE prim.pc[u]
        /\ prim'.once = "init" /\ prim'.runs = prim.runs
    BY <1>2, <1>3, <2>1, Zenon DEF BL!IInv, BL!TypeOK
  <2>3. Alone /\ prim.once = "running" /\ ~prim.returned
    BY <1>5, <2>1 DEF BL!InRoutine, BL!At
  <2>4. prim.runs = 0
    BY <1>1, <2>1, <2>3 DEF BL!IInv, BL!OnceInv, BL!InRoutine, BL!At
  <2>5. BL!OnceInv'
    BY <1>1, <2>1, <2>2, <2>3, <2>4 DEF BL!OnceInv, BL!InRoutine, BL!At
  <2> QED
    BY <2>2, <2>5 DEF BL!IInv
<1> QED
  BY <1>6, <1>7, <1>8, <1>9, <1>10, <1>11 DEF BL!pthread_once, BL!Routine

\* The invariant of the mutexes and once_flag is inductive.
LEMMA BlockNext == ASSUME BL!BlockingAssumption PROVE BL!IInv /\ [BL!Next]_(BL!blockingVars) => BL!IInv'
<1> SUFFICES ASSUME BL!IInv, [BL!Next]_(BL!blockingVars) PROVE BL!IInv'
  OBVIOUS
<1>1. CASE UNCHANGED BL!blockingVars
  BY <1>1 DEF BL!blockingVars, BL!IInv, BL!TypeOK, BL!MutexInv, BL!OnceInv, BL!InRoutine, BL!At
<1> QED
  BY <1>1, BlockCalls, BlockTakes, BlockUnlock, BlockOnce, SMTT(20) DEF BL!Next, BL!Start, BL!Proceed

\* A mutex is had as often as the calls of its owner took it, all its threads block
\* for good only after a try_lock_until() that got it and said false, and the callable
\* of a once_flag completes once, in one thread, before a call_once() returns.
THEOREM BlockingCorrect == ASSUME BL!BlockingAssumption PROVE BL!Spec => [](BL!MutexTold /\ BL!OnceSound)
<1>1. ASSUME BL!IInv PROVE BL!MutexTold
  <2> SUFFICES ASSUME prim.kind \in BL!Mutexes
               PROVE  /\ \A t \in BlockThreads : (prim.owner = t) = (prim.told[t] + prim.untold[t] > 0)
                      /\ prim.owner # BL!None => prim.count = prim.told[prim.owner] + prim.untold[prim.owner]
                      /\ (\A t \in BlockThreads : BL!Blocked(t)) => prim.untold[prim.owner] > 0
    BY DEF BL!MutexTold
  <2>1. \A t \in BlockThreads : (prim.owner = t) = (prim.told[t] + prim.untold[t] > 0)
    BY <1>1 DEF BL!IInv, BL!MutexInv
  <2>2. prim.owner # BL!None => prim.count = prim.told[prim.owner] + prim.untold[prim.owner]
    BY <1>1 DEF BL!IInv, BL!MutexInv
  <2>3. ASSUME \A t \in BlockThreads : BL!Blocked(t) PROVE prim.untold[prim.owner] > 0
    <3>1. PICK t \in BlockThreads : TRUE
      BY DEF BL!BlockingAssumption
    <3>2. prim.owner \in BlockThreads
      BY <1>1, <2>3 DEF BL!Blocked, BL!Available, BL!IInv, BL!TypeOK
    <3>3. BL!At(prim.owner, "lock") /\ ~BL!Available(prim.owner) /\ ~BL!Exhausted(prim.owner)
      BY <2>3, <3>2 DEF BL!Blocked
    <3>4. prim.kind # "recursive"
      <4>1. prim.kind = "recursive" => prim.count <= MaxDepth
        BY <1>1 DEF BL!IInv, BL!MutexInv
      <4>2. prim.count \in Nat /\ MaxDepth \in Nat
        BY <1>1 DEF BL!IInv, BL!TypeOK, BL!BlockingAssumption
      <4> QED
        BY <3>3, <4>1, <4>2 DEF BL!Available, BL!Exhausted
    <3>5. prim.told[prim.owner] = 0 /\ prim.told[prim.owner] + prim.untold[prim.owner] > 0
      BY <1>1, <3>2, <3>3, <3>4 DEF BL!IInv, BL!MutexInv
    <3> QED
      BY <1>1, <3>2, <3>5 DEF BL!IInv, BL!TypeOK
  <2> QED
    BY <2>1, <2>2, <2>3
<1>2. ASSUME BL!IInv PROVE BL!OnceSound
  <2>1. ASSUME prim.kind = "once"
        PROVE  /\ prim.runs <= 1 /\ (prim.returned => prim.runs = 1)
               /\ \A t, u \in BlockThreads : BL!InRoutine(t) /\ BL!InRoutine(u) => t = u
    BY <1>2, <2>1 DEF BL!IInv, BL!OnceInv
  <2>2. ASSUME prim.kind = "once" PROVE (prim.once = "running") = (\E t \in BlockThreads : BL!InRoutine(t))
    BY <1>2, <2>2, Zenon DEF BL!IInv, BL!OnceInv
  <2> QED
    BY <2>1, <2>2, Zenon DEF BL!OnceSound
<1> QED
  BY <1>1, <1>2, BlockInit, BlockNext, PTL DEF BL!Spec

-----------------------------------------------------------------------------
(* thread. *)

CONSTANTS ThreadHandles, Ids
VARIABLES thread_, os, fn, th_pc, creator
TH == INSTANCE Thread WITH Handles <- ThreadHandles, pc <- th_pc

\* No thread and no handle.
LEMMA ThreadInit == ASSUME TH!IdsAssumption PROVE TH!Init => TH!IInv
BY DEF TH!IdsAssumption, TH!Init, TH!IInv, TH!TypeOK, TH!Owner, TH!CallOK, TH!Held, TH!Idle

\* The creator's calls that start a thread.
LEMMA ThreadStarts ==
  ASSUME TH!IdsAssumption, TH!IInv, NEW h \in ThreadHandles, NEW i \in Ids, TH!Construct(h, i) \/ TH!InStart(h, i)
  PROVE  TH!IInv'
<1> USE DEF TH!IInv
<1>1. CASE TH!Construct(h, i)
  <2>1. /\ TH!TypeOK'
        /\ creator'.op = "start" /\ creator'.h = h /\ creator'.id = i /\ creator.op = "idle"
    BY <1>1, SMTT(20) DEF TH!Construct, TH!TypeOK, TH!Call, TH!Idle
  <2> QED
    BY <1>1, <2>1 DEF TH!Construct, TH!TypeOK, TH!Owner, TH!CallOK, TH!Held, TH!IdsAssumption, TH!Dead
<1>2. CASE TH!pthread_create(h, i)
  <2>1. /\ TH!TypeOK'
        /\ creator'.op = "release" /\ creator'.h = h /\ creator'.id = i
        /\ creator.op = "start" /\ creator.h = h /\ creator.id = i
    BY <1>2, SMTT(20) DEF TH!pthread_create, TH!InCall, TH!TypeOK, TH!Call
  <2> QED
    BY <1>2, <2>1 DEF TH!pthread_create, TH!TypeOK, TH!Owner, TH!CallOK, TH!Held, TH!IdsAssumption
<1>3. CASE TH!StartFails(h, i)
  <2>1. /\ TH!TypeOK'
        /\ creator'.op = "idle"
        /\ creator.op = "start" /\ creator.h = h /\ creator.id = i
    BY <1>3, Zenon DEF TH!StartFails, TH!InCall, TH!TypeOK, TH!Idle
  <2> QED
    BY <1>3, <2>1 DEF TH!StartFails, TH!TypeOK, TH!Owner, TH!CallOK, TH!Held, TH!IdsAssumption
<1>4. CASE TH!release(h, i)
  <2>1. /\ TH!TypeOK'
        /\ creator'.op = "idle"
        /\ creator.op = "release" /\ creator.h = h /\ creator.id = i
    BY <1>4, Zenon DEF TH!release, TH!InCall, TH!TypeOK, TH!Idle
  <2> QED
    BY <1>4, <2>1 DEF TH!release, TH!TypeOK, TH!Owner, TH!CallOK, TH!Held
<1> QED
  BY <1>1, <1>2, <1>3, <1>4 DEF TH!InStart

\* The steps of a thread.
LEMMA ThreadRuns == ASSUME TH!IInv, NEW i \in Ids, TH!Running(i) PROVE TH!IInv'
<1> USE DEF TH!IInv
<1>1. CASE TH!Body(i)
  <2>1. fn[i] # "destroyed" /\ fn' = fn
    BY <1>1, Zenon DEF TH!Body, TH!Owner, TH!TypeOK
  <2> QED
    BY <1>1, <2>1 DEF TH!Body, TH!TypeOK, TH!Owner, TH!CallOK, TH!Held
<1>2. CASE TH!End(i)
  <2>1. fn[i] \in {"creator's", "released"} /\ fn' = [fn EXCEPT ![i] = "destroyed"]
    BY <1>2, Zenon DEF TH!End, TH!Owner, TH!TypeOK
  <2>2. TH!TypeOK' /\ \A j \in Ids : os'[j] # os[j] => os[j] = "detached" /\ os'[j] = "gone"
    <3>1. /\ os' = [os EXCEPT ![i] = IF os[i] = "detached" THEN "gone" ELSE os[i]]
          /\ th_pc' = [th_pc EXCEPT ![i] = "ended"] /\ UNCHANGED <<thread_, creator>>
      BY <1>2, Zenon DEF TH!End
    <3> QED
      BY <2>1, <3>1 DEF TH!TypeOK
  <2>3. TH!Owner' /\ TH!CallOK'
    <3>1. /\ th_pc[i] = "end" /\ th_pc'[i] = "ended" /\ fn'[i] = "destroyed" /\ UNCHANGED <<thread_, creator>>
          /\ \A j \in Ids \ {i} : th_pc'[j] = th_pc[j] /\ fn'[j] = fn[j]
          /\ \A j \in Ids : os[j] = "none" => os'[j] = "none"
      <4>1. th_pc[i] = "end" /\ th_pc' = [th_pc EXCEPT ![i] = "ended"] /\ UNCHANGED <<thread_, creator>>
        BY <1>2, Zenon DEF TH!End
      <4> QED
        BY <2>1, <2>2, <4>1 DEF TH!TypeOK
    <3>2. creator.op = "start" => creator.id \in Ids \ {i}
      BY <3>1 DEF TH!TypeOK, TH!CallOK, TH!Idle
    <3>3. creator.op = "release" => creator.id \in Ids
      BY DEF TH!TypeOK, TH!Idle
    <3> QED
      BY <3>1, <3>2, <3>3 DEF TH!Owner, TH!CallOK
  <2>4. TH!Held'
    BY <1>2, <2>2, Zenon DEF TH!End, TH!Held
  <2> QED
    BY <2>2, <2>3, <2>4
<1> QED
  BY <1>1, <1>2 DEF TH!Running

\* What the creator does with its handles between two calls.
LEMMA ThreadHandled ==
  ASSUME TH!IdsAssumption, TH!IInv, NEW h \in ThreadHandles, TH!Handling(h)
  PROVE  TH!IInv'
<1> USE DEF TH!IInv
<1>1. CASE TH!detach(h)
  <2>1. creator.op = "idle"
    BY <1>1 DEF TH!detach, TH!Idle
  <2>2. thread_[h] \in Ids
    BY <1>1 DEF TH!detach, TH!joinable, TH!Alive, TH!TypeOK
  <2>3. os[thread_[h]] = "joinable"
    BY <2>2 DEF TH!Held
  <2>4. PICK s \in {"gone", "detached"} : os' = [os EXCEPT ![thread_[h]] = s]
    BY <1>1, <2>3, Zenon DEF TH!detach
  <2> QED
    BY <1>1, <2>1, <2>2, <2>4, SMTT(20) DEF TH!detach, TH!TypeOK, TH!Owner, TH!CallOK, TH!Held, TH!IdsAssumption
<1>2. CASE TH!DestroyEmpty(h) \/ TH!DefaultConstruct(h)
  BY <1>2 DEF TH!DestroyEmpty, TH!DefaultConstruct, TH!TypeOK, TH!Owner, TH!CallOK, TH!Held, TH!IdsAssumption, TH!Idle
<1>3. ASSUME NEW op \in {"join", "destroy"}, TH!Join(h, op) PROVE TH!IInv'
  <2>1. /\ creator' = [op |-> op, h |-> h, id |-> thread_[h]] /\ thread_[h] \in Ids
        /\ creator.op = "idle"
    BY <1>3, Zenon DEF TH!Join, TH!Call, TH!joinable, TH!Alive, TH!TypeOK, TH!Idle
  <2> QED
    BY <1>3, <2>1 DEF TH!Join, TH!TypeOK, TH!Owner, TH!CallOK, TH!Held
<1>4. ASSUME NEW g \in ThreadHandles, TH!MoveAssign(h, g) \/ TH!MoveConstruct(h, g) PROVE TH!IInv'
  <2>1. /\ creator = TH!Idle /\ creator.op = "idle" /\ UNCHANGED <<os, fn, th_pc, creator>>
        /\ thread_' \in [ThreadHandles -> Ids \cup {0, TH!Dead}]
    <3>1. /\ creator = TH!Idle /\ UNCHANGED <<os, fn, th_pc, creator>>
          /\ \/ thread_' = [thread_ EXCEPT ![h] = thread_[g], ![g] = thread_[h]]
             \/ thread_' = [thread_ EXCEPT ![h] = thread_[g], ![g] = 0]
      BY <1>4, Zenon DEF TH!MoveAssign, TH!MoveConstruct
    <3>2. creator.op = "idle"
      BY <3>1 DEF TH!Idle
    <3> QED
      BY <3>1, <3>2 DEF TH!TypeOK
  <2>2. PICK x \in {0, thread_[h]} :
          /\ thread_' = [thread_ EXCEPT ![h] = thread_[g], ![g] = x]
          /\ x = thread_[h] \/ (thread_[h] = TH!Dead /\ g # h)
    <3>1. CASE TH!MoveAssign(h, g)
      BY <3>1 DEF TH!MoveAssign
    <3>2. CASE TH!MoveConstruct(h, g)
      <4>1. g # h /\ thread_[h] = TH!Dead /\ thread_' = [thread_ EXCEPT ![h] = thread_[g], ![g] = 0]
        BY <3>2 DEF TH!MoveConstruct, TH!Alive
      <4> QED
        BY <4>1
    <3> QED
      BY <1>4, <3>1, <3>2
  <2>3. TH!Held'
    BY <2>1, <2>2 DEF TH!Held, TH!TypeOK, TH!IdsAssumption
  <2> QED
    BY <2>1, <2>3 DEF TH!TypeOK, TH!Owner, TH!CallOK
<1> QED
  BY <1>1, <1>2, <1>3, <1>4 DEF TH!Handling

\* pthread_join() for join() and for the destructor.
LEMMA ThreadJoined ==
  ASSUME TH!IdsAssumption, TH!IInv, NEW h \in ThreadHandles, NEW i \in Ids, TH!pthread_join(h, i)
  PROVE  TH!IInv'
<1>1. /\ thread_[h] = i /\ os[i] = "joinable" /\ os' = [os EXCEPT ![i] = "gone"]
      /\ creator.op \in {"join", "destroy"} /\ creator'.op = "idle"
      /\ \E x \in {0, TH!Dead} : thread_' = [thread_ EXCEPT ![h] = x]
      /\ creator' = TH!Idle /\ UNCHANGED <<fn, th_pc>>
  <2>1. creator.op \in {"join", "destroy"} /\ creator.h = h /\ creator.id = i /\ creator' = TH!Idle
    BY SMTT(20) DEF TH!pthread_join
  <2>2. thread_[h] = i /\ os[i] = "joinable"
    BY <2>1 DEF TH!IInv, TH!CallOK, TH!Held
  <2>3. creator'.op = "idle"
    BY <2>1 DEF TH!Idle
  <2> QED
    BY <2>1, <2>2, <2>3, Zenon DEF TH!pthread_join
<1>2. th_pc[i] # "none"
  BY <1>1 DEF TH!IInv, TH!Owner
<1> QED
  BY <1>1, <1>2 DEF TH!IInv, TH!TypeOK, TH!Owner, TH!CallOK, TH!Held, TH!IdsAssumption

\* The invariant of thread is inductive.
LEMMA ThreadNext == ASSUME TH!IdsAssumption PROVE TH!IInv /\ [TH!Next]_(TH!threadVars) => TH!IInv'
<1> SUFFICES ASSUME TH!IInv, [TH!Next]_(TH!threadVars) PROVE TH!IInv'
  OBVIOUS
<1>1. CASE UNCHANGED TH!threadVars
  BY <1>1 DEF TH!threadVars, TH!IInv, TH!TypeOK, TH!Owner, TH!CallOK, TH!Held
<1> QED
  BY <1>1, ThreadStarts, ThreadRuns, ThreadHandled, ThreadJoined DEF TH!Next

\* The function of a thread is destroyed once, by the thread or by the constructor
\* that could not start it, and each thread that can be joined has exactly one handle.
THEOREM ThreadsCorrect == ASSUME TH!IdsAssumption PROVE TH!Spec => [](TH!FunctionOnce /\ TH!HandlesExact)
<1>1. ASSUME TH!IInv PROVE TH!FunctionOnce
  <2>1. creator = TH!Idle => creator.op = "idle"
    BY DEF TH!Idle
  <2> QED
    BY <1>1, <2>1, Zenon DEF TH!IInv, TH!TypeOK, TH!Owner, TH!FunctionOnce
<1>2. ASSUME TH!IInv PROVE TH!HandlesExact
  BY <1>2 DEF TH!IInv, TH!TypeOK, TH!Held, TH!HandlesExact
<1> QED
  BY <1>1, <1>2, ThreadInit, ThreadNext, PTL DEF TH!Spec
=============================================================================
