---------------------------- MODULE FutexCondVar ----------------------------
(***************************************************************************)
(* gpcl::detail::futex_condition_variable                                  *)
(* (include/gpcl/detail/impl/futex_condition_variable.ipp), used the way a *)
(* condition variable is: waiters call wait() in a loop until they find an *)
(* item, notifiers add an item under the mutex, unlock and notify.  The    *)
(* futex_mutex is the abstract mutex it implements (module Mutex), here as *)
(* the variable holders; every atomic instruction and every system call of *)
(* the condition variable is one action.                                   *)
(***************************************************************************)
EXTENDS Integers

CONSTANTS
  Waiters,     \* threads that wait for an item and take it
  Notifiers,   \* threads that add an item and notify
  Rounds       \* bound: items a notifier adds

AllThreads == Waiters \cup Notifiers

VARIABLES
  fut,       \* fut_: 1 = "notified", 0 otherwise
  holders,   \* who holds the mutex
  pc,        \* where each thread is
  items,     \* the condition waited for, guarded by the mutex
  rounds     \* items each notifier has added (bounds the model)

vars == <<fut, holders, pc, items, rounds>>

TheMutex == INSTANCE Mutex WITH Threads <- AllThreads, holders <- holders

PCs == {"idle", "check", "cas", "unlock", "fwait", "asleep", "clear", "relock",
        "add", "store", "wakeOne", "wakeAll"}

Init ==
  /\ fut = 0
  /\ holders = {}
  /\ pc = [t \in AllThreads |-> "idle"]
  /\ items = 0
  /\ rounds = [n \in Notifiers |-> 0]

Goto(t, l) == pc' = [pc EXCEPT ![t] = l]

----------------------------------------------------------------------------
\* The waiter's lock, and its test of the condition: it takes an item and
\* leaves, or calls wait() with the mutex held.
WaiterLock(t) ==
  /\ pc[t] = "idle"
  /\ TheMutex!Acquire(t)
  /\ Goto(t, "check")
  /\ UNCHANGED <<fut, items, rounds>>

TakeItem(t) ==
  /\ pc[t] = "check"
  /\ items > 0
  /\ items' = items - 1
  /\ TheMutex!Release(t)
  /\ Goto(t, "idle")
  /\ UNCHANGED <<fut, rounds>>

CallWait(t) ==
  /\ pc[t] = "check"
  /\ items = 0
  /\ Goto(t, "cas")
  /\ UNCHANGED <<fut, holders, items, rounds>>

\* wait(): a pending notification is consumed and wait() returns without ever
\* releasing the mutex.  The compare-and-swap is weak: it may fail even when
\* the word is 1.
WaitCas(t) ==
  /\ pc[t] = "cas"
  /\ \/ fut = 1 /\ fut' = 0 /\ Goto(t, "check")
     \/ Goto(t, "unlock") /\ UNCHANGED fut
  /\ UNCHANGED <<holders, items, rounds>>

\* wait(): the constructor of locker unlocks the mutex.
WaitUnlock(t) ==
  /\ pc[t] = "unlock"
  /\ TheMutex!Release(t)
  /\ Goto(t, "fwait")
  /\ UNCHANGED <<fut, items, rounds>>

\* Mutant of WaitFutex: FUTEX_WAIT without the kernel's comparison.
WaitFutexBlindly(t) ==
  /\ pc[t] = "fwait"
  /\ Goto(t, "asleep")
  /\ UNCHANGED <<fut, holders, items, rounds>>

\* wait(): FUTEX_WAIT compares the word with 0 and sleeps in one step.
WaitFutex(t) ==
  /\ pc[t] = "fwait"
  /\ Goto(t, IF fut = 0 THEN "asleep" ELSE "clear")
  /\ UNCHANGED <<fut, holders, items, rounds>>

\* FUTEX_WAIT may also return for a signal; wait() does not look why.
SpuriousWake(t) ==
  /\ pc[t] = "asleep"
  /\ Goto(t, "clear")
  /\ UNCHANGED <<fut, holders, items, rounds>>

\* wait(): the store that clears the word, whoever set it.
WaitClear(t) ==
  /\ pc[t] = "clear"
  /\ fut' = 0
  /\ Goto(t, "relock")
  /\ UNCHANGED <<holders, items, rounds>>

\* wait(): the destructor of locker locks the mutex again.
WaitRelock(t) ==
  /\ pc[t] = "relock"
  /\ TheMutex!Acquire(t)
  /\ Goto(t, "check")
  /\ UNCHANGED <<fut, items, rounds>>

----------------------------------------------------------------------------
\* The notifier: lock, add an item, unlock, notify.
NotifierLock(t) ==
  /\ pc[t] = "idle"
  /\ rounds[t] < Rounds
  /\ TheMutex!Acquire(t)
  /\ Goto(t, "add")
  /\ UNCHANGED <<fut, items, rounds>>

AddItem(t) ==
  /\ pc[t] = "add"
  /\ items' = items + 1
  /\ rounds' = [rounds EXCEPT ![t] = @ + 1]
  /\ TheMutex!Release(t)
  /\ Goto(t, "store")
  /\ UNCHANGED fut

\* Mutant of NotifyStore: notify_*() wakes without setting the word first.
NotifyWithoutStore(t) ==
  /\ pc[t] = "store"
  /\ \E kind \in {"wakeOne", "wakeAll"} : Goto(t, kind)
  /\ UNCHANGED <<fut, holders, items, rounds>>

\* notify_one() and notify_all(): the store that both begin with.
NotifyStore(t) ==
  /\ pc[t] = "store"
  /\ fut' = 1
  /\ \E kind \in {"wakeOne", "wakeAll"} : Goto(t, kind)
  /\ UNCHANGED <<holders, items, rounds>>

Asleep == {w \in Waiters : pc[w] = "asleep"}

\* notify_one(): FUTEX_WAKE of at most one sleeper.
notify_one(t) ==
  /\ pc[t] = "wakeOne"
  /\ \/ \E w \in Asleep : pc' = [pc EXCEPT ![t] = "idle", ![w] = "clear"]
     \/ Asleep = {} /\ Goto(t, "idle")
  /\ UNCHANGED <<fut, holders, items, rounds>>

\* notify_all(): FUTEX_WAKE of all sleepers.
notify_all(t) ==
  /\ pc[t] = "wakeAll"
  /\ pc' = [u \in AllThreads |->
              IF u = t THEN "idle" ELSE IF u \in Asleep THEN "clear" ELSE pc[u]]
  /\ UNCHANGED <<fut, holders, items, rounds>>

WaiterStep(t) ==
  \/ WaiterLock(t) \/ TakeItem(t) \/ CallWait(t) \/ WaitCas(t) \/ WaitUnlock(t)
  \/ WaitFutex(t) \/ WaitClear(t) \/ WaitRelock(t)

NotifierStep(t) ==
  NotifierLock(t) \/ AddItem(t) \/ NotifyStore(t) \/ notify_one(t) \/ notify_all(t)

\* No notifier has anything left to add: waiters may then sleep for ever.
Quiescent == \A n \in Notifiers : pc[n] = "idle" /\ rounds[n] = Rounds

Finished ==
  /\ Quiescent
  /\ Asleep = Waiters
  /\ UNCHANGED vars

Next ==
  \/ \E w \in Waiters : WaiterStep(w) \/ SpuriousWake(w)
  \/ \E n \in Notifiers : NotifierStep(n)
  \/ Finished

Spec == Init /\ [][Next]_vars

\* A thread that can go on eventually does.  A thread that wants the mutex is
\* not promised it while others take it again and again.
FairSpec ==
  /\ Spec
  /\ \A w \in Waiters : WF_vars(WaiterStep(w))
  /\ \A n \in Notifiers : WF_vars(NotifierStep(n))

----------------------------------------------------------------------------
TypeOK ==
  /\ fut \in {0, 1}
  /\ holders \subseteq AllThreads
  /\ pc \in [AllThreads -> PCs]
  /\ items \in Nat
  /\ rounds \in [Notifiers -> 0..Rounds]

\* The waiters do not all sleep while an item is there, unless a notifier has
\* yet to wake one.  The store to the word and FUTEX_WAKE are separate steps,
\* and wait() clears the word with a plain store that may wipe out a
\* notification meant for another waiter.
NoMissedNotification ==
  (items > 0 /\ Asleep = Waiters) =>
    \E n \in Notifiers : pc[n] \in {"store", "wakeOne", "wakeAll"}

\* Every item is eventually taken, when the waiters keep coming back for more.
EveryItemTaken == items > 0 ~> items = 0

----------------------------------------------------------------------------
(***************************************************************************)
(* The inductive invariant behind NoMissedNotification, for any waiters    *)
(* and notifiers (the proof is in module LockProofs).  The word alone does *)
(* not carry a notification, since any waiter may clear it.                *)
(* What is inductive is that somebody answers for the items (Answered): a  *)
(* waiter that has yet to look, one on its way to sleep that the word will *)
(* stop, or a sleeper with a notifier about to wake somebody.              *)
(***************************************************************************)
\* There are waiters, and no thread is both.
ThreadsAssumption ==
  Waiters # {} /\ Waiters \cap Notifiers = {} /\ Rounds \in Nat

WaiterPCs == {"idle", "check", "cas", "unlock", "fwait", "asleep", "clear", "relock"}
NotifierPCs == {"idle", "add", "store", "wakeOne", "wakeAll"}

Looking == \E w \in Waiters : pc[w] \in {"idle", "check", "clear", "relock"}
Stopped == fut = 1 /\ \E w \in Waiters : pc[w] \in {"cas", "unlock", "fwait"}
Waking ==
  /\ \E w \in Waiters : pc[w] = "asleep"
  /\ \E n \in Notifiers : pc[n] \in {"wakeOne", "wakeAll"}
Answered ==
  items > 0 => Looking \/ Stopped \/ Waking \/ \E n \in Notifiers : pc[n] = "store"

\* The bound on the items is kept as well.
RoundLeft == \A n \in Notifiers : pc[n] = "add" => rounds[n] < Rounds

\* The inductive invariant.
IInv ==
  /\ TypeOK
  /\ \A w \in Waiters : pc[w] \in WaiterPCs
  /\ \A n \in Notifiers : pc[n] \in NotifierPCs
  /\ RoundLeft
  /\ Answered
=============================================================================
