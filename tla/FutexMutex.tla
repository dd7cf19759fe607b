----------------------------- MODULE FutexMutex -----------------------------
(***************************************************************************)
(* gpcl::detail::futex_mutex (include/gpcl/detail/impl/futex_mutex.ipp): a *)
(* mutex over one futex word.  lock() spins on a compare-and-swap, then    *)
(* alternates a compare-and-swap with FUTEX_WAIT; unlock() stores          *)
(* "unlocked" and then, as a separate step, wakes one sleeper.  Every      *)
(* atomic instruction and every system call is one action.                 *)
(***************************************************************************)
EXTENDS Naturals

CONSTANTS
  Threads,      \* the threads sharing the mutex
  SpinCount,    \* spin_count of lock() (10 in the code)
  MaxCalls      \* bound: lock()/try_lock() calls a thread makes

ASSUME SpinCountAssumption == SpinCount \in Nat \ {0}
ASSUME MaxCallsAssumption == MaxCalls \in Nat

VARIABLES
  fut,    \* fut_, the futex word
  pc,     \* where each thread is
  spin,   \* i of the spin loop
  calls   \* calls made so far (bounds the model)

vars == <<fut, pc, spin, calls>>

futex_locked   == 0
futex_unlocked == 1

PCs == {"idle", "spin", "cas", "fwait", "asleep", "cs", "wake", "unreachable",
        "interrupted"}

Init ==
  /\ fut = futex_unlocked
  /\ pc = [t \in Threads |-> "idle"]
  /\ spin = [t \in Threads |-> 0]
  /\ calls = [t \in Threads |-> 0]

\* GPCL_UNREACHABLE ends the program, be it the one of unlock() ("unreachable")
\* or the one of lock() ("interrupted").
Running == \A t \in Threads : pc[t] \notin {"unreachable", "interrupted"}

Goto(t, l) == pc' = [pc EXCEPT ![t] = l]

----------------------------------------------------------------------------
\* lock(): entry.
lock(t) ==
  /\ Running
  /\ pc[t] = "idle"
  /\ calls[t] < MaxCalls
  /\ calls' = [calls EXCEPT ![t] = @ + 1]
  /\ spin' = [spin EXCEPT ![t] = 0]
  /\ Goto(t, "spin")
  /\ UNCHANGED fut

\* Mutant of SpinCas: the loop runs once too often (i <= spin_count).
SpinCasOnceMore(t) ==
  /\ Running
  /\ pc[t] = "spin"
  /\ fut' = futex_locked
  /\ spin' = [spin EXCEPT ![t] = @ + 1]
  /\ Goto(t, IF fut = futex_unlocked THEN "cs"
             ELSE IF spin[t] + 1 <= SpinCount THEN "spin" ELSE "cas")
  /\ UNCHANGED calls

\* One compare-and-swap of the spin loop.
SpinCas(t) ==
  /\ Running
  /\ pc[t] = "spin"
  /\ \/ /\ fut = futex_unlocked
        /\ fut' = futex_locked
        /\ Goto(t, "cs")
        /\ UNCHANGED spin
     \/ /\ fut # futex_unlocked
        /\ spin' = [spin EXCEPT ![t] = @ + 1]
        /\ Goto(t, IF spin[t] + 1 < SpinCount THEN "spin" ELSE "cas")
        /\ UNCHANGED fut
  /\ UNCHANGED calls

\* Mutant of SlowCas: a plain store where the code compares and swaps.
SlowStore(t) ==
  /\ Running
  /\ pc[t] = "cas"
  /\ fut' = futex_locked
  /\ Goto(t, "cs")
  /\ UNCHANGED <<spin, calls>>

\* The compare-and-swap that precedes each FUTEX_WAIT.
SlowCas(t) ==
  /\ Running
  /\ pc[t] = "cas"
  /\ \/ /\ fut = futex_unlocked
        /\ fut' = futex_locked
        /\ Goto(t, "cs")
     \/ /\ fut # futex_unlocked
        /\ Goto(t, "fwait")
        /\ UNCHANGED fut
  /\ UNCHANGED <<spin, calls>>

\* Mutant of FutexWait: sleeps without comparing the word.
SleepUnconditionally(t) ==
  /\ Running
  /\ pc[t] = "fwait"
  /\ Goto(t, "asleep")
  /\ UNCHANGED <<fut, spin, calls>>

\* FUTEX_WAIT with the expected value 0: the kernel compares and sleeps in one
\* step, or fails with EAGAIN and lock() loops.
FutexWait(t) ==
  /\ Running
  /\ pc[t] = "fwait"
  /\ Goto(t, IF fut = futex_locked THEN "asleep" ELSE "cas")
  /\ UNCHANGED <<fut, spin, calls>>

\* FUTEX_WAIT may return 0 without a FUTEX_WAKE of this mutex.
SpuriousWake(t) ==
  /\ Running
  /\ pc[t] = "asleep"
  /\ Goto(t, "cas")
  /\ UNCHANGED <<fut, spin, calls>>

\* A handler installed without SA_RESTART makes FUTEX_WAIT fail with EINTR,
\* which lock() takes for impossible.
Interrupted(t) ==
  /\ Running
  /\ pc[t] = "asleep"
  /\ Goto(t, "interrupted")
  /\ UNCHANGED <<fut, spin, calls>>

\* unlock(): the compare-and-swap; the wake is still to come.
unlock(t) ==
  /\ Running
  /\ pc[t] = "cs"
  /\ fut' = futex_unlocked
  /\ Goto(t, IF fut = futex_locked THEN "wake" ELSE "unreachable")
  /\ UNCHANGED <<spin, calls>>

\* Mutant of FutexWake: unlock() returns without waking anybody.
WakeNobody(t) ==
  /\ Running
  /\ pc[t] = "wake"
  /\ Goto(t, "idle")
  /\ UNCHANGED <<fut, spin, calls>>

\* unlock(): FUTEX_WAKE of at most one sleeper, then return.
FutexWake(t) ==
  /\ Running
  /\ pc[t] = "wake"
  /\ \/ \E s \in Threads :
          /\ pc[s] = "asleep"
          /\ pc' = [pc EXCEPT ![t] = "idle", ![s] = "cas"]
     \/ /\ \A s \in Threads : pc[s] # "asleep"
        /\ Goto(t, "idle")
  /\ UNCHANGED <<fut, spin, calls>>

\* Mutant of try_lock: the result of the compare-and-swap is inverted, so the
\* caller that took the mutex believes that it did not.
TryLockInverted(t) ==
  /\ Running
  /\ pc[t] = "idle"
  /\ calls[t] < MaxCalls
  /\ calls' = [calls EXCEPT ![t] = @ + 1]
  /\ fut' = futex_locked
  /\ Goto(t, IF fut = futex_unlocked THEN "idle" ELSE "cs")
  /\ UNCHANGED spin

\* try_lock(): one compare-and-swap.
try_lock(t) ==
  /\ Running
  /\ pc[t] = "idle"
  /\ calls[t] < MaxCalls
  /\ calls' = [calls EXCEPT ![t] = @ + 1]
  /\ \/ /\ fut = futex_unlocked
        /\ fut' = futex_locked
        /\ Goto(t, "cs")
     \/ /\ fut # futex_unlocked
        /\ UNCHANGED <<fut, pc>>
  /\ UNCHANGED spin

Step(t) == SpinCas(t) \/ SlowCas(t) \/ FutexWait(t) \/ unlock(t) \/ FutexWake(t)

\* Every call has returned (or the program has ended): nothing is left to do.
Finished ==
  /\ Running => \A t \in Threads : pc[t] = "idle" /\ calls[t] = MaxCalls
  /\ UNCHANGED vars

Next ==
  \/ \E t \in Threads :
       \/ lock(t) \/ try_lock(t) \/ Step(t)
       \/ SpuriousWake(t) \/ Interrupted(t)
  \/ Finished

Spec == Init /\ [][Next]_vars

\* A running thread keeps running, and the holder eventually unlocks.  Nothing
\* is assumed of sleeping threads nor of which sleeper the kernel wakes.
FairSpec == Spec /\ \A t \in Threads : WF_vars(Step(t))

----------------------------------------------------------------------------
TypeOK ==
  /\ fut \in {futex_locked, futex_unlocked}
  /\ pc \in [Threads -> PCs]
  /\ spin \in [Threads -> 0..SpinCount]
  /\ calls \in [Threads -> 0..MaxCalls]

InCS(t) == pc[t] = "cs"

Contending(t) == pc[t] \in {"spin", "cas", "fwait"}

\* At most one thread is between lock() and unlock().
MutualExclusion == \A s, t \in Threads : InCS(s) /\ InCS(t) => s = t

\* The word says "locked" exactly while some thread is between lock() and
\* unlock(): the mutex is never left locked with no owner.
WordMatchesOwner == (fut = futex_locked) <=> (\E t \in Threads : InCS(t))

\* While a thread sleeps in FUTEX_WAIT, the mutex is locked, or an unlock() is
\* about to wake someone, or a thread that is awake is still competing for the
\* mutex and will wake someone when it unlocks.  Otherwise the sleeper would
\* be forgotten: unlock() wakes only one thread, and separately from the store.
NoSleeperForgotten ==
  (\E s \in Threads : pc[s] = "asleep") =>
     \/ fut = futex_locked
     \/ \E t \in Threads : pc[t] = "wake" \/ Contending(t)

\* unlock()'s GPCL_UNREACHABLE("futex not locked") is not reached by a caller
\* that holds the mutex.
NeverUnreachable == \A t \in Threads : pc[t] # "unreachable"

\* GPCL_UNREACHABLE("futex-FUTEX_WAIT") is "used to assert that the line cannot
\* be reached": a signal must not take lock() there.
LockSurvivesSignals == \A t \in Threads : pc[t] # "interrupted"

\* lock() always returns, unless a signal ends the program, provided the other
\* threads make finitely many calls (the mutex is not fair: it promises no more
\* than that).
LockReturns ==
  \A t \in Threads :
    (pc[t] \in {"spin", "cas", "fwait", "asleep"}) ~> (InCS(t) \/ ~Running)

\* futex_mutex implements the abstract mutex.
Abstract == INSTANCE Mutex WITH holders <- {t \in Threads : InCS(t)}
MutexSpec == Abstract!MutexSpec

-----------------------------------------------------------------------------
(* The inductive invariant, for any set of threads, any spin count and any  *)
(* number of calls (the proof is in module LockProofs).  Mutual exclusion   *)
(* is not inductive by itself: the word alone decides who may enter, so     *)
(* "locked" is tied to the existence of an owner (WordMatchesOwner).        *)
(* NoSleeperForgotten needs the same link.                                  *)

\* A thread in the spin loop has attempts left.
SpinInv == \A t \in Threads : pc[t] = "spin" => spin[t] < SpinCount

\* The inductive invariant.
IInv ==
  /\ TypeOK
  /\ SpinInv
  /\ MutualExclusion
  /\ WordMatchesOwner
  /\ NoSleeperForgotten
=============================================================================
