------------------------------ MODULE MultiLock ------------------------------
(***************************************************************************)
(* gpcl::lock of one and of two mutexes (lock.hpp) and the scoped_lock and *)
(* unique_lock around them (scoped_lock.hpp, unique_lock.hpp).             *)
(*                                                                         *)
(* lock(m1, m2) locks one mutex, tries the other, and on failure unlocks   *)
(* the first and starts with the other one.  Each call on a mutex is one   *)
(* step; a mutex is what the module Mutex promises: at most one owner.     *)
(***************************************************************************)
EXTENDS Integers, Sequences

CONSTANTS
    Threads, Mutexes, Nobody,
    Args,       \* Args[t]: the arguments of t's scoped_lock, one or two different mutexes
    Rounds      \* bound: the number of times each thread locks

VARIABLES
    owner,  \* per mutex
    pc,     \* per thread: "out", "lock", "try", "back", "in", "leaving"
    first,  \* which argument attempt_lock_two locks first
    round

vars == <<owner, pc, first, round>>

Init ==
    /\ owner = [m \in Mutexes |-> Nobody]
    /\ pc = [t \in Threads |-> "out"]
    /\ first = [t \in Threads |-> 1]
    /\ round = [t \in Threads |-> 0]

Go(t, l) == pc' = [pc EXCEPT ![t] = l]
First(t) == Args[t][first[t]]
Second(t) == Args[t][3 - first[t]]

\* scoped_lock's constructor calls lock.
Enter(t) ==
    /\ pc[t] = "out" /\ round[t] < Rounds
    /\ round' = [round EXCEPT ![t] = @ + 1]
    /\ first' = [first EXCEPT ![t] = 1]
    /\ Go(t, "lock")
    /\ UNCHANGED owner

\* m1.lock(), in lock_impl of one mutex or in the unique_lock of attempt_lock_two.
Lock(t) ==
    /\ pc[t] = "lock" /\ owner[First(t)] = Nobody
    /\ owner' = [owner EXCEPT ![First(t)] = t]
    /\ Go(t, IF Len(Args[t]) = 1 THEN "in" ELSE "try")
    /\ UNCHANGED <<first, round>>

\* Mutant of TryLock: takes the failure of try_lock for success.
TryLockIgnored(t) ==
    /\ pc[t] = "try"
    /\ IF owner[Second(t)] = Nobody
       THEN owner' = [owner EXCEPT ![Second(t)] = t] ELSE UNCHANGED owner
    /\ Go(t, "in")
    /\ UNCHANGED <<first, round>>

\* Mutant of TryLock: succeeds only on a mutex that the thread owns already.
TryLockNeverSucceeds(t) ==
    /\ pc[t] = "try"
    /\ IF owner[Second(t)] = t
       THEN UNCHANGED owner /\ Go(t, "in")
       ELSE UNCHANGED owner /\ Go(t, "back")
    /\ UNCHANGED <<first, round>>

\* m2.try_lock(); on success lock1.release() keeps both mutexes locked.
TryLock(t) ==
    /\ pc[t] = "try"
    /\ IF owner[Second(t)] = Nobody
       THEN owner' = [owner EXCEPT ![Second(t)] = t] /\ Go(t, "in")
       ELSE UNCHANGED owner /\ Go(t, "back")
    /\ UNCHANGED <<first, round>>

\* Mutant of BackOff: waits for the second mutex without unlocking the first.
BackOffHolding(t) ==
    /\ pc[t] = "back"
    /\ first' = [first EXCEPT ![t] = 3 - @]
    /\ Go(t, "lock")
    /\ UNCHANGED <<owner, round>>

\* ~unique_lock unlocks, and the loop of lock_impl tries the other order.
BackOff(t) ==
    /\ pc[t] = "back"
    /\ owner' = [owner EXCEPT ![First(t)] = Nobody]
    /\ first' = [first EXCEPT ![t] = 3 - @]
    /\ Go(t, "lock")
    /\ UNCHANGED round

\* ~scoped_lock unlocks in the order of the arguments.
Unlock(t) ==
    /\ \/ /\ pc[t] = "in" /\ owner' = [owner EXCEPT ![Args[t][1]] = Nobody]
          /\ Go(t, IF Len(Args[t]) = 1 THEN "out" ELSE "leaving")
       \/ /\ pc[t] = "leaving" /\ owner' = [owner EXCEPT ![Args[t][2]] = Nobody]
          /\ Go(t, "out")
    /\ UNCHANGED <<first, round>>

Step(t) == Enter(t) \/ Lock(t) \/ TryLock(t) \/ BackOff(t) \/ Unlock(t)

Finished == \A t \in Threads : pc[t] = "out" /\ round[t] = Rounds

Next == (\E t \in Threads : Step(t)) \/ (Finished /\ UNCHANGED vars)

Spec == Init /\ [][Next]_vars

\* Every thread that can take a step eventually does.
FairSpec == Spec /\ \A t \in Threads : WF_vars(Step(t))

-----------------------------------------------------------------------------
(* Properties. *)

TypeOK ==
    /\ owner \in [Mutexes -> Threads \cup {Nobody}]
    /\ pc \in [Threads -> {"out", "lock", "try", "back", "in", "leaving"}]
    /\ first \in [Threads -> {1, 2}]
    /\ round \in [Threads -> 0 .. Rounds]

\* When lock returns, the thread owns every mutex it asked for and no other, and
\* after scoped_lock's destructor it owns none.
OwnsItsArguments ==
    \A t \in Threads :
        LET owned == {m \in Mutexes : owner[m] = t}
        IN  /\ pc[t] = "in" => owned = {Args[t][i] : i \in DOMAIN Args[t]}
            /\ pc[t] = "out" => owned = {}

\* A thread that waits in m.lock() owns no mutex: whatever order the threads name
\* their mutexes in, they cannot wait for each other in a circle.
WaitsEmptyHanded ==
    \A t \in Threads : pc[t] = "lock" => \A m \in Mutexes : owner[m] # t

\* One thread that locks two mutexes gets them, and so do the others, when these
\* take one mutex at a time: lock_impl's loop ends.  (Two threads that both lock
\* two mutexes may back off in lockstep for ever, even in the same order.)
LockReturns == \A t \in Threads : pc[t] = "lock" ~> pc[t] = "in"

-----------------------------------------------------------------------------
(***************************************************************************)
(* The inductive invariant, for any threads, mutexes and arguments (the    *)
(* proof is in module LockProofs).  Between the calls on the mutexes a     *)
(* thread owns exactly what its place in lock_impl says (Owns), which      *)
(* takes knowing that only lock of two mutexes gets past the first one     *)
(* (InTwo).                                                                *)
(***************************************************************************)
\* lock takes one mutex, or two different ones.
ArgsAssumption ==
    /\ Nobody \notin Threads /\ Rounds \in Nat
    /\ \A t \in Threads :
         /\ Args[t] \in Seq(Mutexes) /\ Len(Args[t]) \in {1, 2}
         /\ Len(Args[t]) = 2 => Args[t][1] # Args[t][2]

InTwo(t) ==
    /\ pc[t] \in {"try", "back", "leaving"} => Len(Args[t]) = 2
    /\ Len(Args[t]) = 1 /\ pc[t] = "lock" => first[t] = 1

Owns(t) == \A m \in Mutexes :
    owner[m] = t <=>
        \/ pc[t] \in {"try", "back"} /\ m = First(t)
        \/ pc[t] = "in" /\ (m = Args[t][1] \/ (Len(Args[t]) = 2 /\ m = Args[t][2]))
        \/ pc[t] = "leaving" /\ m = Args[t][2]

\* The inductive invariant.
IInv == TypeOK /\ \A t \in Threads : InTwo(t) /\ Owns(t)
=============================================================================
