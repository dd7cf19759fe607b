------------------------------- MODULE Future -------------------------------
(***************************************************************************)
(* gpcl::event (include/gpcl/event.hpp), and gpcl::future and              *)
(* gpcl::promise (include/gpcl/future.hpp), whose shared state contains    *)
(* one.                                                                    *)
(*                                                                         *)
(* An event is a flag with a condition variable, both guarded by a mutex   *)
(* that the caller locks.  The mutex is the abstract one of module Mutex.  *)
(* The condition variable is the one of                                    *)
(* include/gpcl/condition_variable.hpp: wait releases the mutex and blocks *)
(* in one step, may wake for no reason, and takes the mutex again before   *)
(* it returns.  What a call does between two points where the mutex is     *)
(* free is one action.                                                     *)
(*                                                                         *)
(* The shared state adds a result to the event: the promise's side sets it *)
(* once and signals with unlock_and_signal_one, the future's side waits    *)
(* for the event while the result is pending.                              *)
(***************************************************************************)
EXTENDS Integers, FiniteSets, FiniteSetTheorems, TLAPS

(* event. *)

CONSTANTS
  Threads,      \* the threads sharing the event
  Calls,        \* the operations they call, names from Operations
  Destroyers,   \* threads that destroy the event when their wait() returns
  MaxCalls      \* bound: calls a thread makes

Signals == {"signal_all", "unlock_and_signal_one", "signal_one",
            "try_unlock_and_signal_one"}
NotifyUnlocked == {"unlock_and_signal_one", "try_unlock_and_signal_one"}
Operations == Signals \cup {"reset", "wait", "wait_for"}

ASSUME ThreadsAssumption == IsFiniteSet(Threads)
ASSUME CallsAssumption == Calls \subseteq Operations
ASSUME DestroyersAssumption == Destroyers \subseteq Threads
ASSUME MaxCallsAssumption == MaxCalls \in Nat

VARIABLES
  holders,    \* who holds the caller's mutex
  signaled,   \* signaled_
  waiters,    \* waiters_
  pc,         \* where each thread is
  op,         \* the call a blocked thread is in
  calls,      \* calls made so far (bounds the model)
  served,     \* history: a waiter has returned since the flag was last set
  destroyed   \* ~event has run

vars == <<holders, signaled, waiters, pc, op, calls, served, destroyed>>

TheMutex == INSTANCE Mutex WITH Threads <- Threads, holders <- holders

Init ==
  /\ holders = {}
  /\ signaled = FALSE
  /\ waiters = 0
  /\ pc = [t \in Threads |-> "idle"]
  /\ op = [t \in Threads |-> "none"]
  /\ calls = [t \in Threads |-> 0]
  /\ served = FALSE
  /\ destroyed = FALSE

Blocked == {t \in Threads : pc[t] = "blocked"}

\* pthread_cond_signal and pthread_cond_broadcast: the threads they may wake.
OneOf(S) == IF S = {} THEN {{}} ELSE {{t} : t \in S}
Wake(W, p) == [t \in Threads |-> IF t \in W THEN "woken" ELSE p[t]]

\* The caller locks the mutex and calls operation o, the event still there.
Calling(t, o) ==
  /\ o \in Calls
  /\ pc[t] = "locked"
  /\ calls[t] < MaxCalls
  /\ ~destroyed
  /\ calls' = [calls EXCEPT ![t] = @ + 1]
  /\ op' = [op EXCEPT ![t] = o]

----------------------------------------------------------------------------
\* The caller's unique_lock.
Lock(t) ==
  /\ pc[t] = "idle"
  /\ calls[t] < MaxCalls
  /\ TheMutex!Acquire(t)
  /\ pc' = [pc EXCEPT ![t] = "locked"]
  /\ UNCHANGED <<signaled, waiters, op, calls, served, destroyed>>

Unlock(t) ==
  /\ pc[t] = "locked"
  /\ TheMutex!Release(t)
  /\ pc' = [pc EXCEPT ![t] = "idle"]
  /\ UNCHANGED <<signaled, waiters, op, calls, served, destroyed>>

\* reset: clears the flag; the waiters stay.
reset(t) ==
  /\ Calling(t, "reset")
  /\ signaled' = FALSE
  /\ UNCHANGED <<holders, waiters, pc, served, destroyed>>

\* Setting the flag starts a new signal when it was clear.
SetSignaled ==
  /\ signaled' = TRUE
  /\ served' = (served /\ signaled)

\* Mutant of signal_all: wakes a single waiter.
SignalAllWakesOne(t) ==
  /\ Calling(t, "signal_all")
  /\ SetSignaled
  /\ \E W \in OneOf(Blocked) : pc' = Wake(W, pc)
  /\ UNCHANGED <<holders, waiters, destroyed>>

\* signal_all: sets the flag and wakes every waiter, the mutex held.
signal_all(t) ==
  /\ Calling(t, "signal_all")
  /\ SetSignaled
  /\ pc' = Wake(Blocked, pc)
  /\ UNCHANGED <<holders, waiters, destroyed>>

\* Mutant of unlock_and_signal_one: the test of waiters_ is off by one.
SignalIfTwoWait(t) ==
  /\ Calling(t, "unlock_and_signal_one")
  /\ SetSignaled
  /\ TheMutex!Release(t)
  /\ pc' = [pc EXCEPT ![t] = IF waiters > 1 THEN "notify" ELSE "idle"]
  /\ UNCHANGED <<waiters, destroyed>>

\* unlock_and_signal_one: the notification comes after the unlock.
unlock_and_signal_one(t) ==
  /\ Calling(t, "unlock_and_signal_one")
  /\ SetSignaled
  /\ TheMutex!Release(t)
  /\ pc' = [pc EXCEPT ![t] = IF waiters # 0 THEN "notify" ELSE "idle"]
  /\ UNCHANGED <<waiters, destroyed>>

\* Mutant of signal_one: releases the mutex before it notifies.
SignalOneAfterUnlock(t) ==
  /\ Calling(t, "signal_one")
  /\ waiters # 0
  /\ SetSignaled
  /\ TheMutex!Release(t)
  /\ pc' = [pc EXCEPT ![t] = "notify"]
  /\ UNCHANGED <<waiters, destroyed>>

\* signal_one: does nothing without a waiter; notifies under the mutex.
signal_one(t) ==
  /\ Calling(t, "signal_one")
  /\ IF waiters # 0
     THEN /\ SetSignaled
          /\ \E W \in OneOf(Blocked) : pc' = Wake(W, pc)
     ELSE UNCHANGED <<signaled, served, pc>>
  /\ UNCHANGED <<holders, waiters, destroyed>>

\* try_unlock_and_signal_one: sets the flag even when it then does nothing else.
try_unlock_and_signal_one(t) ==
  /\ Calling(t, "try_unlock_and_signal_one")
  /\ SetSignaled
  /\ IF waiters # 0
     THEN /\ TheMutex!Release(t)
          /\ pc' = [pc EXCEPT ![t] = "notify"]
     ELSE UNCHANGED <<holders, pc>>
  /\ UNCHANGED <<waiters, destroyed>>

\* The cond_.notify_one() that follows an unlock.
NotifyOne(t) ==
  /\ pc[t] = "notify"
  /\ \E W \in OneOf(Blocked) : pc' = [Wake(W, pc) EXCEPT ![t] = "idle"]
  /\ UNCHANGED <<holders, signaled, waiters, op, calls, served, destroyed>>

\* The constructor of waiter, and the start of cond_.wait: counted and blocked.
Block(t) ==
  /\ waiters' = waiters + 1
  /\ TheMutex!Release(t)
  /\ pc' = [pc EXCEPT ![t] = "blocked"]

\* A waiter returns with the mutex held.
Return(t) ==
  /\ pc' = [pc EXCEPT ![t] = "locked"]
  /\ served' = (served \/ signaled)

\* wait, wait_for and wait_until up to the point where they block or return.
BeginWait(t) ==
  /\ \E o \in {"wait", "wait_for"} : Calling(t, o)
  /\ \/ /\ ~signaled
        /\ Block(t)
        /\ UNCHANGED served
     \/ /\ signaled
        /\ Return(t)
        /\ UNCHANGED <<holders, waiters>>
  /\ UNCHANGED <<signaled, destroyed>>

\* The time of a wait_for() or wait_until() passes.
Timeout(t) ==
  /\ pc[t] = "blocked"
  /\ op[t] = "wait_for"
  /\ pc' = [pc EXCEPT ![t] = "woken"]
  /\ UNCHANGED <<holders, signaled, waiters, op, calls, served, destroyed>>

\* pthread_cond_wait may return without a notification.
SpuriousWake(t) ==
  /\ pc[t] = "blocked"
  /\ pc' = [pc EXCEPT ![t] = "woken"]
  /\ UNCHANGED <<holders, signaled, waiters, op, calls, served, destroyed>>

\* Mutant of EndWait: wait() tests the flag once, like wait_for().
EndWaitOnce(t) ==
  /\ pc[t] = "woken"
  /\ TheMutex!Acquire(t)
  /\ Return(t)
  /\ waiters' = waiters - 1
  /\ UNCHANGED <<signaled, op, calls, destroyed>>

\* Mutant of EndWait: the destructor of waiter is left out.
EndWaitUncounted(t) ==
  /\ pc[t] = "woken"
  /\ TheMutex!Acquire(t)
  /\ Return(t)
  /\ UNCHANGED <<waiters, signaled, op, calls, destroyed>>

\* A woken waiter takes the mutex again and is taken off the count.  wait()
\* tests the flag again, and blocks again (counted again) when it is clear;
\* wait_for() and wait_until() return the flag as it is.
EndWait(t) ==
  /\ pc[t] = "woken"
  /\ holders = {}
  /\ IF op[t] = "wait" /\ ~signaled
     THEN pc' = [pc EXCEPT ![t] = "blocked"] /\ UNCHANGED <<holders, waiters, served>>
     ELSE TheMutex!Acquire(t) /\ Return(t) /\ waiters' = waiters - 1
  /\ UNCHANGED <<signaled, op, calls, destroyed>>

\* A thread whose wait() has returned, and that is the only waiter, unlocks and
\* destroys the event.
Destroy(t) ==
  /\ t \in Destroyers
  /\ pc[t] = "locked"
  /\ op[t] = "wait"
  /\ signaled
  /\ waiters = 0
  /\ ~destroyed
  /\ destroyed' = TRUE
  /\ TheMutex!Release(t)
  /\ pc' = [pc EXCEPT ![t] = "idle"]
  /\ UNCHANGED <<signaled, waiters, op, calls, served>>

Step(t) == EndWait(t) \/ NotifyOne(t) \/ Unlock(t)

Call(t) ==
  \/ reset(t) \/ signal_all(t) \/ unlock_and_signal_one(t) \/ signal_one(t)
  \/ try_unlock_and_signal_one(t) \/ BeginWait(t) \/ Destroy(t)

Next ==
  \E t \in Threads : Lock(t) \/ Call(t) \/ Step(t) \/ Timeout(t) \/ SpuriousWake(t)

Spec == Init /\ [][Next]_vars

\* Woken waiters and pending notifications make progress, and holders unlock.
FairSpec == Spec /\ \A t \in Threads : WF_vars(Step(t))

----------------------------------------------------------------------------
TypeOK ==
  /\ holders \subseteq Threads
  /\ waiters \in Nat
  /\ pc \in [Threads -> {"idle", "locked", "blocked", "woken", "notify"}]
  /\ op \in [Threads -> Operations \cup {"none"}]
  /\ calls \in [Threads -> 0..MaxCalls]
  /\ signaled \in BOOLEAN /\ served \in BOOLEAN /\ destroyed \in BOOLEAN

\* waiters_ counts exactly the threads inside a wait: the signalling calls
\* skip the notification only when nobody needs it, and ~event's assertion
\* waiters_ == 0 says that nobody is inside.
WaitersExact ==
  waiters = Cardinality({t \in Threads : pc[t] \in {"blocked", "woken"}})

\* A signal reaches someone: while the flag is set and a thread is blocked, a
\* notification is still to come, a woken waiter is on its way, or a waiter
\* has returned since the flag was set.
SignalReaches ==
  (signaled /\ Blocked # {}) =>
    \/ served
    \/ \E t \in Threads : pc[t] \in {"notify", "woken"}

\* wait() returns only when the flag is set, however often the condition
\* variable wakes it.
WaitNotSpurious ==
  [][\A t \in Threads :
       (op[t] = "wait" /\ pc[t] = "woken" /\ pc'[t] = "locked") => signaled]_vars

\* Every waiter leaves after signal_all(), unless the event is reset first.
AllOut == signaled => \A t \in Threads : pc[t] # "blocked"
AllReturn == []<>AllOut

\* Nobody is inside wait() when the event is destroyed, and the only calls that may
\* still touch it afterwards are those that notify after the unlock: signal_one does
\* not ("This is used when the waiter wants to destroy the event").
NotUsedAfterDestruction ==
  destroyed => \A t \in Threads :
                 /\ pc[t] \notin {"blocked", "woken"}
                 /\ pc[t] = "notify" => op[t] \in NotifyUnlocked

\* event counts its waiters, a signal reaches one that waits, nothing but a late
\* notification uses the event after a waiter has destroyed it, and wait() returns
\* only when the flag is set.
EventSafe ==
  [](WaitersExact /\ SignalReaches /\ NotUsedAfterDestruction) /\ WaitNotSpurious

-----------------------------------------------------------------------------
(* future and promise. *)

CONSTANTS
  Setter,    \* the thread that owns the promise
  Getters,   \* the threads that call future::get
  Results    \* what the setter may set: "value" (set_value), "error" (set_error)

ASSUME SetterAssumption == Setter \in Threads /\ Setter \notin Getters
ASSUME GettersAssumption == Getters \subseteq Threads
ASSUME ResultsAssumption == Results \subseteq {"value", "error"}

VARIABLES
  result,    \* result_: which alternative is active
  outcome    \* what each get() ended with

futureVars == <<vars, result, outcome>>

FutureInit ==
  /\ Init
  /\ result = "pending"
  /\ outcome = [g \in Getters |-> "none"]

\* GPCL_UNREACHABLE ends the program.
Running == \A g \in Getters : outcome[g] # "unreachable"

\* promise::set_value and promise::set_error take the state's lock.
SetterLock ==
  /\ result = "pending"
  /\ Lock(Setter)
  /\ UNCHANGED <<result, outcome>>

\* Mutant of set_result: the event is signalled before the result is stored.
SetSignalFirst ==
  /\ unlock_and_signal_one(Setter)
  /\ UNCHANGED <<result, outcome>>

\* Mutant of set_result: nobody is signalled.
SetWithoutSignal ==
  /\ result = "pending"
  /\ result' \in Results
  /\ Unlock(Setter)
  /\ UNCHANGED outcome

\* set_value, emplace_value and set_error: store, then unlock and signal.
set_result ==
  /\ result = "pending"
  /\ result' \in Results
  /\ unlock_and_signal_one(Setter)
  /\ UNCHANGED outcome

\* The rest of unlock_and_signal_one.
SetterNotify ==
  /\ NotifyOne(Setter)
  /\ UNCHANGED <<result, outcome>>

GetterLock(g) ==
  /\ Lock(g)
  /\ UNCHANGED <<result, outcome>>

\* future::get while the result is pending: shared_state::wait.
GetWait(g) ==
  /\ result = "pending"
  /\ op[g] = "none"
  /\ BeginWait(g)
  /\ op'[g] = "wait"
  /\ UNCHANGED <<result, outcome>>

\* event::wait's loop.
GetWakeup(g) ==
  /\ EndWait(g)
  /\ UNCHANGED <<result, outcome>>

\* shared_state::get, called at once when the result is there or when wait
\* returns: the value is moved out of the state, so a second get() finds a
\* moved-from value; the error branch falls through to GPCL_UNREACHABLE.
GetResult(g) ==
  /\ pc[g] = "locked"
  /\ result # "pending" \/ op[g] = "wait"
  /\ outcome' = [outcome EXCEPT ![g] = IF result = "value" THEN "value" ELSE "unreachable"]
  /\ Unlock(g)
  /\ UNCHANGED result

SetterStep == Running /\ (SetterLock \/ set_result \/ SetterNotify)

\* What a getter does without waiting for anybody but the mutex.
GetterStep(g) ==
  /\ Running
  /\ outcome[g] = "none"
  /\ GetterLock(g) \/ GetWait(g) \/ GetWakeup(g) \/ GetResult(g)

GetSpuriousWake(g) ==
  /\ Running
  /\ SpuriousWake(g)
  /\ UNCHANGED <<result, outcome>>

FutureNext ==
  \/ SetterStep
  \/ \E g \in Getters : GetterStep(g) \/ GetSpuriousWake(g)

FutureSpec == FutureInit /\ [][FutureNext]_futureVars

\* The function given to async() ends, and threads that can run do run.
FairFutureSpec ==
  /\ FutureSpec
  /\ WF_futureVars(SetterStep)
  /\ \A g \in Getters : WF_futureVars(GetterStep(g))

----------------------------------------------------------------------------
\* The event is signalled only when the result is there: a get() that has
\* waited finds it, and shared_state::get's assertion result_.index() != 0
\* holds.
ResultBeforeSignal ==
  /\ signaled => result # "pending"
  /\ \A g \in Getters : (pc[g] = "locked" /\ op[g] = "wait") => result # "pending"

\* A get() ends as the promise was fulfilled: with the value, or by way of the error
\* branch into GPCL_UNREACHABLE, and not with a pending result.
GetsWhatWasSet ==
  \A g \in Getters : outcome[g] # "none" =>
    result = (IF outcome[g] = "value" THEN "value" ELSE "error")

\* Somebody gets the result: the getters neither all miss the only signal nor
\* wait for one that was given before they came.  (future is copyable, but the
\* signal wakes one getter: a second one that is already blocked stays so.)
Delivered == (\A g \in Getters : pc[g] = "idle") \/ \E g \in Getters : outcome[g] # "none"
ValueDelivered == []<>Delivered

\* shared_state::get's GPCL_UNREACHABLE is not reached.
GetNeverUnreachable == Running

----------------------------------------------------------------------------
(***************************************************************************)
(* Proofs about event and future for any finite set of threads and any     *)
(* number of calls.  What has to be added to the properties of the event   *)
(* to make them inductive is the caller's mutex: its holders are exactly   *)
(* the threads between lock and unlock (HeldByLocked), so that what a call *)
(* reads and writes is not changed by another, and a thread that still has *)
(* to notify is in one of the calls that notify after the unlock           *)
(* (NotifiesLate).                                                         *)
(***************************************************************************)
HeldByLocked ==
  /\ holders = {t \in Threads : pc[t] = "locked"}
  /\ \A s, t \in holders : s = t

NotifiesLate == \A t \in Threads : pc[t] = "notify" => op[t] \in NotifyUnlocked

Inside == {t \in Threads : pc[t] \in {"blocked", "woken"}}

\* The inductive invariant.
IInv ==
  /\ TypeOK
  /\ HeldByLocked
  /\ NotifiesLate
  /\ WaitersExact
  /\ SignalReaches
  /\ NotUsedAfterDestruction

LEMMA InitTyped == Init => TypeOK /\ HeldByLocked /\ NotifiesLate
<1> SUFFICES ASSUME Init PROVE TypeOK /\ HeldByLocked /\ NotifiesLate
  OBVIOUS
<1> USE DEF Init
<1>1. signaled \in BOOLEAN /\ served \in BOOLEAN /\ destroyed \in BOOLEAN
  BY Zenon
<1>2. TypeOK
  BY <1>1, MaxCallsAssumption DEF TypeOK
<1>3. HeldByLocked /\ NotifiesLate
  BY DEF HeldByLocked, NotifiesLate
<1> QED
  BY <1>2, <1>3

\* What a step does to waiters_ and to the threads inside a wait.
Counted ==
  \/ Inside' = Inside /\ waiters' = waiters
  \/ \E t \in Threads \ Inside : Inside' = Inside \cup {t} /\ waiters' = waiters + 1
  \/ \E t \in Inside : Inside' = Inside \ {t} /\ waiters' = waiters - 1

LEMMA NextCounted == TypeOK /\ [Next]_vars => Counted
<1> SUFFICES ASSUME TypeOK, [Next]_vars PROVE Counted
  OBVIOUS
<1> USE DEF TypeOK, Counted, Inside, Calling, SetSignaled, OneOf, Wake, Blocked, Return
<1>1. ASSUME NEW t \in Threads, Lock(t) PROVE Counted
  BY <1>1 DEF Lock
<1>2. ASSUME NEW t \in Threads, Unlock(t) PROVE Counted
  BY <1>2 DEF Unlock
<1>3. ASSUME NEW t \in Threads, reset(t) PROVE Counted
  BY <1>3 DEF reset
<1>4. ASSUME NEW t \in Threads, signal_all(t) PROVE Counted
  BY <1>4 DEF signal_all
<1>5. ASSUME NEW t \in Threads, unlock_and_signal_one(t) PROVE Counted
  BY <1>5 DEF unlock_and_signal_one
<1>6. ASSUME NEW t \in Threads, signal_one(t) PROVE Counted
  BY <1>6 DEF signal_one
<1>7. ASSUME NEW t \in Threads, try_unlock_and_signal_one(t) PROVE Counted
  BY <1>7 DEF try_unlock_and_signal_one
<1>8. ASSUME NEW t \in Threads, NotifyOne(t) PROVE Counted
  BY <1>8 DEF NotifyOne
<1>9. ASSUME NEW t \in Threads, BeginWait(t) PROVE Counted
  BY <1>9 DEF BeginWait, Block
<1>10. ASSUME NEW t \in Threads, Timeout(t) PROVE Counted
  BY <1>10 DEF Timeout
<1>11. ASSUME NEW t \in Threads, SpuriousWake(t) PROVE Counted
  BY <1>11 DEF SpuriousWake
<1>12. ASSUME NEW t \in Threads, EndWait(t) PROVE Counted
  BY <1>12 DEF EndWait
<1>13. ASSUME NEW t \in Threads, Destroy(t) PROVE Counted
  BY <1>13 DEF Destroy
<1>14. CASE UNCHANGED vars
  BY <1>14 DEF vars
<1> QED
  BY <1>1, <1>2, <1>3, <1>4, <1>5, <1>6, <1>7, <1>8, <1>9, <1>10, <1>11, <1>12, <1>13, <1>14
  DEF Next, Call, Step

LEMMA WaitersCounted ==
  ASSUME TypeOK, WaitersExact, Counted
  PROVE  waiters' \in Nat /\ WaitersExact'
<1> USE DEF TypeOK, WaitersExact
<1>1. IsFiniteSet(Inside) /\ waiters = Cardinality(Inside)
  BY ThreadsAssumption, FS_Subset DEF Inside
<1>2. SUFFICES waiters' \in Nat /\ waiters' = Cardinality(Inside')
  BY DEF Inside
<1>3. CASE Inside' = Inside /\ waiters' = waiters
  BY <1>1, <1>3
<1>4. ASSUME NEW t \in Threads \ Inside, Inside' = Inside \cup {t}, waiters' = waiters + 1
      PROVE  waiters' \in Nat /\ waiters' = Cardinality(Inside')
  <2>1. Cardinality(Inside \cup {t}) = Cardinality(Inside) + 1
    BY <1>1, FS_AddElement, Zenon
  <2> QED
    BY <1>1, <1>4, <2>1
<1>5. ASSUME NEW t \in Inside, Inside' = Inside \ {t}, waiters' = waiters - 1
      PROVE  waiters' \in Nat /\ waiters' = Cardinality(Inside')
  <2>1. waiters # 0
    BY <1>1, FS_EmptySet
  <2>2. Cardinality(Inside \ {t}) = Cardinality(Inside) - 1
    BY <1>1, FS_RemoveElement, Zenon
  <2> QED
    BY <1>1, <1>5, <2>1, <2>2
<1> QED
  BY <1>3, <1>4, <1>5 DEF Counted

TypedFlags == signaled \in BOOLEAN /\ served \in BOOLEAN /\ destroyed \in BOOLEAN

LEMMA NextFlags == TypeOK /\ [Next]_vars => TypedFlags'
<1> SUFFICES ASSUME TypeOK, [Next]_vars PROVE TypedFlags'
  OBVIOUS
<1> USE Zenon DEF TypeOK, TypedFlags, Calling, SetSignaled, Return
<1>1. ASSUME NEW t \in Threads, Lock(t) PROVE TypedFlags'
  BY <1>1 DEF Lock
<1>2. ASSUME NEW t \in Threads, Unlock(t) PROVE TypedFlags'
  BY <1>2 DEF Unlock
<1>3. ASSUME NEW t \in Threads, reset(t) PROVE TypedFlags'
  BY <1>3 DEF reset
<1>4. ASSUME NEW t \in Threads, signal_all(t) PROVE TypedFlags'
  BY <1>4 DEF signal_all
<1>5. ASSUME NEW t \in Threads, unlock_and_signal_one(t) PROVE TypedFlags'
  BY <1>5 DEF unlock_and_signal_one
<1>6. ASSUME NEW t \in Threads, signal_one(t) PROVE TypedFlags'
  BY <1>6 DEF signal_one
<1>7. ASSUME NEW t \in Threads, try_unlock_and_signal_one(t) PROVE TypedFlags'
  BY <1>7 DEF try_unlock_and_signal_one
<1>8. ASSUME NEW t \in Threads, NotifyOne(t) PROVE TypedFlags'
  BY <1>8 DEF NotifyOne
<1>9. ASSUME NEW t \in Threads, BeginWait(t) PROVE TypedFlags'
  BY <1>9 DEF BeginWait
<1>10. ASSUME NEW t \in Threads, Timeout(t) PROVE TypedFlags'
  BY <1>10 DEF Timeout
<1>11. ASSUME NEW t \in Threads, SpuriousWake(t) PROVE TypedFlags'
  BY <1>11 DEF SpuriousWake
<1>12. ASSUME NEW t \in Threads, EndWait(t) PROVE TypedFlags'
  BY <1>12 DEF EndWait
<1>13. ASSUME NEW t \in Threads, Destroy(t) PROVE TypedFlags'
  BY <1>13 DEF Destroy
<1>14. CASE UNCHANGED vars
  BY <1>14 DEF vars
<1> QED
  BY <1>1, <1>2, <1>3, <1>4, <1>5, <1>6, <1>7, <1>8, <1>9, <1>10, <1>11, <1>12, <1>13, <1>14
  DEF Next, Call, Step

LEMMA NextTyped ==
  TypeOK /\ HeldByLocked /\ NotifiesLate /\ WaitersExact /\ [Next]_vars
    => TypeOK' /\ HeldByLocked' /\ NotifiesLate'
<1> SUFFICES ASSUME TypeOK, HeldByLocked, NotifiesLate, WaitersExact, [Next]_vars
             PROVE  TypeOK' /\ HeldByLocked' /\ NotifiesLate'
  OBVIOUS
<1>0. waiters' \in Nat /\ TypedFlags'
  BY NextCounted, WaitersCounted, NextFlags
<1> USE <1>0, CallsAssumption, MaxCallsAssumption
    DEF TypeOK, TypedFlags, HeldByLocked, NotifiesLate, NotifyUnlocked, Operations, Calling,
        SetSignaled, OneOf, Wake, Blocked, Return, TheMutex!Acquire, TheMutex!Release
<1>1. ASSUME NEW t \in Threads, Lock(t) PROVE TypeOK' /\ HeldByLocked' /\ NotifiesLate'
  BY <1>1 DEF Lock
<1>2. ASSUME NEW t \in Threads, Unlock(t) PROVE TypeOK' /\ HeldByLocked' /\ NotifiesLate'
  BY <1>2 DEF Unlock
<1>3. ASSUME NEW t \in Threads, reset(t) PROVE TypeOK' /\ HeldByLocked' /\ NotifiesLate'
  BY <1>3 DEF reset
<1>4. ASSUME NEW t \in Threads, signal_all(t) PROVE TypeOK' /\ HeldByLocked' /\ NotifiesLate'
  BY <1>4 DEF signal_all
<1>5. ASSUME NEW t \in Threads, unlock_and_signal_one(t) PROVE TypeOK' /\ HeldByLocked' /\ NotifiesLate'
  BY <1>5 DEF unlock_and_signal_one
<1>6. ASSUME NEW t \in Threads, signal_one(t) PROVE TypeOK' /\ HeldByLocked' /\ NotifiesLate'
  BY <1>6 DEF signal_one
<1>7. ASSUME NEW t \in Threads, try_unlock_and_signal_one(t) PROVE TypeOK' /\ HeldByLocked' /\ NotifiesLate'
  BY <1>7 DEF try_unlock_and_signal_one
<1>8. ASSUME NEW t \in Threads, NotifyOne(t) PROVE TypeOK' /\ HeldByLocked' /\ NotifiesLate'
  BY <1>8 DEF NotifyOne
<1>9. ASSUME NEW t \in Threads, BeginWait(t) PROVE TypeOK' /\ HeldByLocked' /\ NotifiesLate'
  BY <1>9 DEF BeginWait, Block
<1>10. ASSUME NEW t \in Threads, Timeout(t) PROVE TypeOK' /\ HeldByLocked' /\ NotifiesLate'
  BY <1>10 DEF Timeout
<1>11. ASSUME NEW t \in Threads, SpuriousWake(t) PROVE TypeOK' /\ HeldByLocked' /\ NotifiesLate'
  BY <1>11 DEF SpuriousWake
<1>12. ASSUME NEW t \in Threads, EndWait(t) PROVE TypeOK' /\ HeldByLocked' /\ NotifiesLate'
  BY <1>12 DEF EndWait
<1>13. ASSUME NEW t \in Threads, Destroy(t) PROVE TypeOK' /\ HeldByLocked' /\ NotifiesLate'
  BY <1>13 DEF Destroy
<1>14. CASE UNCHANGED vars
  BY <1>14 DEF vars
<1> QED
  BY <1>1, <1>2, <1>3, <1>4, <1>5, <1>6, <1>7, <1>8, <1>9, <1>10, <1>11, <1>12, <1>13, <1>14
  DEF Next, Call, Step

LEMMA NobodyInside == ASSUME WaitersExact, waiters = 0 PROVE Inside = {}
<1>1. IsFiniteSet(Inside) /\ Cardinality(Inside) = 0
  BY ThreadsAssumption, FS_Subset DEF Inside, WaitersExact
<1> QED
  BY <1>1, FS_EmptySet

LEMMA NextReached ==
  TypeOK /\ WaitersExact /\ SignalReaches /\ [Next]_vars => SignalReaches'
<1> SUFFICES ASSUME TypeOK, WaitersExact, SignalReaches, [Next]_vars PROVE SignalReaches'
  OBVIOUS
<1>0. waiters = 0 => \A t \in Threads : pc[t] # "blocked"
  BY NobodyInside DEF Inside
<1> USE DEF TypeOK, SignalReaches, Calling, SetSignaled, OneOf, Wake, Blocked, Return
<1>1. ASSUME NEW t \in Threads, Lock(t) PROVE SignalReaches'
  BY <1>1 DEF Lock
<1>2. ASSUME NEW t \in Threads, Unlock(t) PROVE SignalReaches'
  BY <1>2 DEF Unlock
<1>3. ASSUME NEW t \in Threads, reset(t) PROVE SignalReaches'
  BY <1>3 DEF reset
<1>4. ASSUME NEW t \in Threads, signal_all(t) PROVE SignalReaches'
  BY <1>4 DEF signal_all
<1>5. ASSUME NEW t \in Threads, unlock_and_signal_one(t) PROVE SignalReaches'
  BY <1>5, <1>0 DEF unlock_and_signal_one
<1>6. ASSUME NEW t \in Threads, signal_one(t) PROVE SignalReaches'
  BY <1>6, <1>0 DEF signal_one
<1>7. ASSUME NEW t \in Threads, try_unlock_and_signal_one(t) PROVE SignalReaches'
  BY <1>7, <1>0 DEF try_unlock_and_signal_one
<1>8. ASSUME NEW t \in Threads, NotifyOne(t) PROVE SignalReaches'
  BY <1>8 DEF NotifyOne
<1>9. ASSUME NEW t \in Threads, BeginWait(t) PROVE SignalReaches'
  BY <1>9 DEF BeginWait, Block
<1>10. ASSUME NEW t \in Threads, Timeout(t) PROVE SignalReaches'
  BY <1>10 DEF Timeout
<1>11. ASSUME NEW t \in Threads, SpuriousWake(t) PROVE SignalReaches'
  BY <1>11 DEF SpuriousWake
<1>12. ASSUME NEW t \in Threads, EndWait(t) PROVE SignalReaches'
  BY <1>12 DEF EndWait
<1>13. ASSUME NEW t \in Threads, Destroy(t) PROVE SignalReaches'
  BY <1>13 DEF Destroy
<1>14. CASE UNCHANGED vars
  BY <1>14 DEF vars
<1> QED
  BY <1>1, <1>2, <1>3, <1>4, <1>5, <1>6, <1>7, <1>8, <1>9, <1>10, <1>11, <1>12, <1>13, <1>14
  DEF Next, Call, Step

LEMMA NextUnused ==
  IInv /\ [Next]_vars => NotUsedAfterDestruction'
<1> SUFFICES ASSUME IInv, [Next]_vars PROVE NotUsedAfterDestruction'
  OBVIOUS
<1>0. waiters = 0 => \A t \in Threads : pc[t] \notin {"blocked", "woken"}
  BY NobodyInside DEF Inside, IInv
<1> USE DEF IInv, TypeOK, NotifiesLate, NotUsedAfterDestruction, Calling, SetSignaled, OneOf,
            Wake, Blocked, Return
<1>1. ASSUME NEW t \in Threads, Lock(t) PROVE NotUsedAfterDestruction'
  BY <1>1 DEF Lock
<1>2. ASSUME NEW t \in Threads, Unlock(t) PROVE NotUsedAfterDestruction'
  BY <1>2 DEF Unlock
<1>3. ASSUME NEW t \in Threads, reset(t) PROVE NotUsedAfterDestruction'
  BY <1>3 DEF reset
<1>4. ASSUME NEW t \in Threads, signal_all(t) PROVE NotUsedAfterDestruction'
  BY <1>4 DEF signal_all
<1>5. ASSUME NEW t \in Threads, unlock_and_signal_one(t) PROVE NotUsedAfterDestruction'
  BY <1>5 DEF unlock_and_signal_one
<1>6. ASSUME NEW t \in Threads, signal_one(t) PROVE NotUsedAfterDestruction'
  BY <1>6 DEF signal_one
<1>7. ASSUME NEW t \in Threads, try_unlock_and_signal_one(t) PROVE NotUsedAfterDestruction'
  BY <1>7 DEF try_unlock_and_signal_one
<1>8. ASSUME NEW t \in Threads, NotifyOne(t) PROVE NotUsedAfterDestruction'
  BY <1>8 DEF NotifyOne
<1>9. ASSUME NEW t \in Threads, BeginWait(t) PROVE NotUsedAfterDestruction'
  BY <1>9 DEF BeginWait, Block
<1>10. ASSUME NEW t \in Threads, Timeout(t) PROVE NotUsedAfterDestruction'
  BY <1>10 DEF Timeout
<1>11. ASSUME NEW t \in Threads, SpuriousWake(t) PROVE NotUsedAfterDestruction'
  BY <1>11 DEF SpuriousWake
<1>12. ASSUME NEW t \in Threads, EndWait(t) PROVE NotUsedAfterDestruction'
  BY <1>12 DEF EndWait
<1>13. ASSUME NEW t \in Threads, Destroy(t) PROVE NotUsedAfterDestruction'
  BY <1>13, <1>0 DEF Destroy
<1>14. CASE UNCHANGED vars
  BY <1>14 DEF vars
<1> QED
  BY <1>1, <1>2, <1>3, <1>4, <1>5, <1>6, <1>7, <1>8, <1>9, <1>10, <1>11, <1>12, <1>13, <1>14
  DEF Next, Call, Step

LEMMA EventInvariance == Spec => []IInv
<1>1. Init => IInv
  <2> SUFFICES ASSUME Init PROVE IInv
    OBVIOUS
  <2>1. \A t \in Threads : pc[t] = "idle"
    BY DEF Init
  <2>2. WaitersExact
    BY <2>1, FS_EmptySet DEF Init, WaitersExact
  <2>3. SignalReaches /\ NotUsedAfterDestruction
    BY <2>1 DEF SignalReaches, NotUsedAfterDestruction, Blocked
  <2> QED
    BY InitTyped, <2>2, <2>3 DEF IInv
<1>2. IInv /\ [Next]_vars => IInv'
  BY NextTyped, NextCounted, WaitersCounted, NextReached, NextUnused DEF IInv
<1> QED
  BY <1>1, <1>2, PTL DEF Spec

LEMMA NextNotSpurious ==
  TypeOK /\ [Next]_vars =>
    \A t \in Threads : (op[t] = "wait" /\ pc[t] = "woken" /\ pc'[t] = "locked") => signaled
<1> SUFFICES ASSUME TypeOK, [Next]_vars, NEW u \in Threads,
                    op[u] = "wait", pc[u] = "woken", pc'[u] = "locked"
             PROVE  signaled
  OBVIOUS
<1> USE DEF TypeOK, Calling, OneOf, Wake, Blocked, Return
<1>1. ASSUME NEW t \in Threads, Lock(t) PROVE signaled
  BY <1>1 DEF Lock
<1>2. ASSUME NEW t \in Threads, Unlock(t) PROVE signaled
  BY <1>2 DEF Unlock
<1>3. ASSUME NEW t \in Threads, reset(t) PROVE signaled
  BY <1>3 DEF reset
<1>4. ASSUME NEW t \in Threads, signal_all(t) PROVE signaled
  BY <1>4 DEF signal_all
<1>5. ASSUME NEW t \in Threads, unlock_and_signal_one(t) PROVE signaled
  BY <1>5 DEF unlock_and_signal_one
<1>6. ASSUME NEW t \in Threads, signal_one(t) PROVE signaled
  BY <1>6 DEF signal_one
<1>7. ASSUME NEW t \in Threads, try_unlock_and_signal_one(t) PROVE signaled
  BY <1>7 DEF try_unlock_and_signal_one
<1>8. ASSUME NEW t \in Threads, NotifyOne(t) PROVE signaled
  BY <1>8 DEF NotifyOne
<1>9. ASSUME NEW t \in Threads, BeginWait(t) PROVE signaled
  BY <1>9 DEF BeginWait, Block
<1>10. ASSUME NEW t \in Threads, Timeout(t) PROVE signaled
  BY <1>10 DEF Timeout
<1>11. ASSUME NEW t \in Threads, SpuriousWake(t) PROVE signaled
  BY <1>11 DEF SpuriousWake
<1>12. ASSUME NEW t \in Threads, EndWait(t) PROVE signaled
  BY <1>12 DEF EndWait
<1>13. ASSUME NEW t \in Threads, Destroy(t) PROVE signaled
  BY <1>13 DEF Destroy
<1>14. CASE UNCHANGED vars
  BY <1>14 DEF vars
<1> QED
  BY <1>1, <1>2, <1>3, <1>4, <1>5, <1>6, <1>7, <1>8, <1>9, <1>10, <1>11, <1>12, <1>13, <1>14
  DEF Next, Call, Step

\* event: waiters_ counts the threads inside a wait, a signal reaches one of them, only
\* a notification that follows the unlock can come after the destruction, and wait()
\* returns only when the flag is set.
THEOREM EventCorrect == Spec => EventSafe
<1>1. IInv => TypeOK /\ WaitersExact /\ SignalReaches /\ NotUsedAfterDestruction
  BY DEF IInv
<1> QED
  BY <1>1, EventInvariance, NextNotSpurious, PTL DEF Spec, EventSafe, WaitNotSpurious

-----------------------------------------------------------------------------
(* future.  Every step of it is a step of its event or leaves the event     *)
(* alone, so that what is proved of the event holds for it.                 *)

LEMMA FutureStep == [FutureNext]_futureVars => [Next]_vars
<1> SUFFICES ASSUME [FutureNext]_futureVars PROVE [Next]_vars
  OBVIOUS
<1>1. CASE SetterStep
  BY <1>1, SetterAssumption
  DEF SetterStep, SetterLock, set_result, SetterNotify, Next, Call, Step
<1>2. ASSUME NEW g \in Getters, GetterStep(g) \/ GetSpuriousWake(g) PROVE [Next]_vars
  BY <1>2, GettersAssumption
  DEF GetterStep, GetterLock, GetWait, GetWakeup, GetResult, GetSpuriousWake, Next, Call, Step
<1>3. CASE UNCHANGED futureVars
  BY <1>3 DEF futureVars
<1> QED
  BY <1>1, <1>2, <1>3 DEF FutureNext

\* future uses its event as module Event says an event is used: the shared state never
\* touches the flag, the count or the mutex in another way.
THEOREM FutureUsesEvent == FutureSpec => Spec
BY FutureStep, PTL DEF FutureSpec, FutureInit, Spec

\* A getter calls nothing but wait(), once, and has an outcome when it has left.
GettersInv ==
  /\ result \in {"pending", "value", "error"}
  /\ outcome \in [Getters -> {"none", "value", "unreachable"}]
  /\ \A g \in Getters :
       /\ op[g] \in {"none", "wait"}
       /\ pc[g] \in {"blocked", "woken"} => op[g] = "wait"
       /\ pc[g] = "idle" /\ op[g] = "wait" => outcome[g] # "none"

FInv == GettersInv /\ ResultBeforeSignal /\ GetsWhatWasSet

LEMMA FutureNextInv == TypeOK /\ FInv /\ [FutureNext]_futureVars => FInv'
<1> SUFFICES ASSUME TypeOK, FInv, [FutureNext]_futureVars PROVE FInv'
  OBVIOUS
<1> USE SetterAssumption, GettersAssumption, ResultsAssumption
    DEF TypeOK, FInv, GettersInv, ResultBeforeSignal, GetsWhatWasSet, Calling, SetSignaled,
        OneOf, Wake, Blocked, Return
<1>1. CASE SetterLock
  BY <1>1 DEF SetterLock, Lock
<1>2. CASE set_result
  BY <1>2 DEF set_result, unlock_and_signal_one
<1>3. CASE SetterNotify
  BY <1>3 DEF SetterNotify, NotifyOne
<1>4. ASSUME NEW g \in Getters, outcome[g] = "none", GetterLock(g) PROVE FInv'
  BY <1>4 DEF GetterLock, Lock
<1>5. ASSUME NEW g \in Getters, GetWait(g) PROVE FInv'
  BY <1>5 DEF GetWait, BeginWait, Block
<1>6. ASSUME NEW g \in Getters, GetWakeup(g) PROVE FInv'
  BY <1>6 DEF GetWakeup, EndWait
<1>7. ASSUME NEW g \in Getters, GetResult(g) PROVE FInv'
  BY <1>7 DEF GetResult, Unlock
<1>8. ASSUME NEW g \in Getters, GetSpuriousWake(g) PROVE FInv'
  BY <1>8 DEF GetSpuriousWake, SpuriousWake
<1>9. CASE UNCHANGED futureVars
  BY <1>9 DEF futureVars, vars
<1> QED
  BY <1>1, <1>2, <1>3, <1>4, <1>5, <1>6, <1>7, <1>8, <1>9
  DEF FutureNext, SetterStep, GetterStep

\* The event is signalled only when the result is there, a get() that has waited
\* finds it, and what a get() ends with is what was set.
THEOREM FutureCorrect == FutureSpec => [](ResultBeforeSignal /\ GetsWhatWasSet)
<1>1. FutureInit => FInv
  BY GettersAssumption
  DEF FutureInit, Init, FInv, GettersInv, ResultBeforeSignal, GetsWhatWasSet
<1>2. IInv => TypeOK
  BY DEF IInv
<1> QED
  BY <1>1, <1>2, FutureUsesEvent, EventInvariance, FutureNextInv, PTL DEF FutureSpec, FInv
============================================================================
