----------------------------- MODULE AtomicWait -----------------------------
(***************************************************************************)
(* atomic<T>::wait, notify_one and notify_all over a futex                 *)
(* (include/gpcl/detail/futex_atomic_wait.hpp): one of the 16 entries of   *)
(* futex_atomic_wait_state and the atomic objects whose addresses hash to  *)
(* it.  When T has the size of a futex word, waiters sleep on the object   *)
(* itself; otherwise all objects of the entry share its proxy word, which  *)
(* every notification increments.  Memory is sequentially consistent.      *)
(***************************************************************************)
EXTENDS Integers, FiniteSets, FiniteSetTheorems, TLAPS

CONSTANTS
  Waiters, Writers,   \* threads that call wait; threads that store and notify
  Addrs,              \* the atomic objects that share the entry
  WordSized,          \* sizeof(T) == sizeof(futex_word_type)
  NotifyKinds,        \* the notify calls the writers make: "one", "all"
  MaxValue            \* bound: an object counts from 0 up to MaxValue

AllThreads == Waiters \cup Writers

VARIABLES
  value,          \* the value of each object
  proxy,          \* proxy of the entry
  waiter_count,   \* waiter_count of the entry
  pc,             \* where each thread is
  addr,           \* the object a thread works on
  old,            \* old of a wait()
  event           \* event of a wait(): the word as it was first read

vars == <<value, proxy, waiter_count, pc, addr, old, event>>

\* The word that waiters on a sleep on.
wait_address(a) == IF WordSized THEN value[a] ELSE proxy

Init ==
  /\ value = [a \in Addrs |-> 0]
  /\ proxy = 0
  /\ waiter_count = 0
  /\ pc = [t \in AllThreads |-> "idle"]
  /\ addr = [t \in AllThreads |-> CHOOSE a \in Addrs : TRUE]
  /\ old = [t \in Waiters |-> 0]
  /\ event = [t \in Waiters |-> 0]

Goto(t, l) == pc' = [pc EXCEPT ![t] = l]

----------------------------------------------------------------------------
\* wait(): entry, and the load of the futex word.
wait(t) ==
  /\ pc[t] = "idle"
  /\ \E a \in Addrs, v \in 0..MaxValue :
       /\ addr' = [addr EXCEPT ![t] = a]
       /\ old' = [old EXCEPT ![t] = v]
       /\ event' = [event EXCEPT ![t] = wait_address(a)]
  /\ Goto(t, "load")
  /\ UNCHANGED <<value, proxy, waiter_count>>

\* wait(): the first load of the value; the caller returns if it has changed.
FirstLoad(t) ==
  /\ pc[t] = "load"
  /\ Goto(t, IF value[addr[t]] # old[t] THEN "idle" ELSE "start")
  /\ UNCHANGED <<value, proxy, waiter_count, addr, old, event>>

\* wait(): the constructor of waiter.
start_waiting(t) ==
  /\ pc[t] = "start"
  /\ waiter_count' = waiter_count + 1
  /\ Goto(t, "fwait")
  /\ UNCHANGED <<value, proxy, addr, old, event>>

\* FUTEX_WAIT with the word read at entry: sleeps, or fails with EAGAIN.
futex_wait(t) ==
  /\ pc[t] = "fwait"
  /\ Goto(t, IF wait_address(addr[t]) = event[t] THEN "asleep" ELSE "reload")
  /\ UNCHANGED <<value, proxy, waiter_count, addr, old, event>>

\* FUTEX_WAIT may return 0 without a notification.
SpuriousWake(t) ==
  /\ pc[t] = "asleep"
  /\ Goto(t, "reload")
  /\ UNCHANGED <<value, proxy, waiter_count, addr, old, event>>

\* Mutant of Reload: do ... while replaced by a single pass.
ReloadOnce(t) ==
  /\ pc[t] = "reload"
  /\ Goto(t, "finish")
  /\ UNCHANGED <<value, proxy, waiter_count, addr, old, event>>

\* wait(): the load that ends an iteration.  The word is not read again.
Reload(t) ==
  /\ pc[t] = "reload"
  /\ Goto(t, IF value[addr[t]] = old[t] THEN "fwait" ELSE "finish")
  /\ UNCHANGED <<value, proxy, waiter_count, addr, old, event>>

\* wait(): the destructor of waiter, and the return.
finish_waiting(t) ==
  /\ pc[t] = "finish"
  /\ waiter_count' = waiter_count - 1
  /\ Goto(t, "idle")
  /\ UNCHANGED <<value, proxy, addr, old, event>>

----------------------------------------------------------------------------
\* A writer changes an object and will then notify.  Values are not reused.
Store(t) ==
  /\ pc[t] = "idle"
  /\ \E a \in Addrs :
       /\ value[a] < MaxValue
       /\ value' = [value EXCEPT ![a] = @ + 1]
       /\ addr' = [addr EXCEPT ![t] = a]
  /\ Goto(t, "bump")
  /\ UNCHANGED <<proxy, waiter_count, old, event>>

\* Mutant of BumpProxy: wake() forgets the proxy.
BumpNothing(t) ==
  /\ pc[t] = "bump"
  /\ Goto(t, "check")
  /\ UNCHANGED <<value, proxy, waiter_count, addr, old, event>>

\* wake(): increments the proxy, unless the object is its own word.
BumpProxy(t) ==
  /\ pc[t] = "bump"
  /\ proxy' = IF WordSized THEN proxy ELSE proxy + 1
  /\ Goto(t, "check")
  /\ UNCHANGED <<value, waiter_count, addr, old, event>>

\* wake(): returns at once when nobody waits.  notify_one on a word-sized
\* object is turned into notify_all.
is_waiting(t) ==
  /\ pc[t] = "check"
  /\ \E kind \in NotifyKinds :
       Goto(t, IF waiter_count <= 0 THEN "idle"
               ELSE IF WordSized \/ kind = "all" THEN "wakeAll" ELSE "wakeOne")
  /\ UNCHANGED <<value, proxy, waiter_count, addr, old, event>>

\* The threads asleep on the word of object a.
SleepersOn(a) == {w \in Waiters : pc[w] = "asleep" /\ (WordSized => addr[w] = a)}


\* wake(): FUTEX_WAKE of one or of all threads asleep on the word.
futex_wake(t) ==
  /\ \/ /\ pc[t] = "wakeAll"
        /\ pc' = [u \in AllThreads |-> IF u = t THEN "idle"
                                    ELSE IF u \in SleepersOn(addr[t]) THEN "reload"
                                    ELSE pc[u]]
     \/ /\ pc[t] = "wakeOne"
        /\ \/ \E w \in SleepersOn(addr[t]) :
                pc' = [pc EXCEPT ![t] = "idle", ![w] = "reload"]
           \/ SleepersOn(addr[t]) = {} /\ Goto(t, "idle")
  /\ UNCHANGED <<value, proxy, waiter_count, addr, old, event>>

WaiterStep(t) ==
  \/ FirstLoad(t) \/ start_waiting(t) \/ futex_wait(t) \/ Reload(t) \/ finish_waiting(t)

WriterStep(t) == BumpProxy(t) \/ is_waiting(t) \/ futex_wake(t)

Next ==
  \/ \E t \in Waiters : wait(t) \/ WaiterStep(t) \/ SpuriousWake(t)
  \/ \E t \in Writers : Store(t) \/ WriterStep(t)

Spec == Init /\ [][Next]_vars

\* A thread inside wait() or wake() that is not asleep keeps running.
FairSpec ==
  /\ Spec
  /\ \A t \in Waiters : WF_vars(WaiterStep(t))
  /\ \A t \in Writers : WF_vars(WriterStep(t))

----------------------------------------------------------------------------
PCs == {"idle", "load", "start", "fwait", "asleep", "reload", "finish",
        "bump", "check", "wakeOne", "wakeAll"}

TypeOK ==
  /\ value \in [Addrs -> 0..MaxValue]
  /\ proxy \in Nat
  /\ waiter_count \in Nat
  /\ pc \in [AllThreads -> PCs]
  /\ addr \in [AllThreads -> Addrs]
  /\ old \in [Waiters -> 0..MaxValue]
  /\ event \in [Waiters -> Nat]

\* A waiter whose object has changed sleeps only while a notification of its word
\* is still under way.  The value is stored, the proxy incremented, the
\* count read and FUTEX_WAKE called in four steps, and the waiter reads the
\* word, the value, counts itself and sleeps in four others.
NoLostWakeup ==
  \A w \in Waiters :
    (pc[w] = "asleep" /\ value[addr[w]] # old[w]) =>
      \E t \in Writers : /\ WordSized => addr[t] = addr[w]
                         /\ pc[t] \in {"bump", "check", "wakeOne", "wakeAll"}

\* wait() returns once the object has changed, unless it changes back to old.
WaitReturns == \A w \in Waiters : []<>(pc[w] = "idle" \/ value[addr[w]] = old[w])

\* wait() never returns an unchanged value.
NoEarlyReturn ==
  [][\A w \in Waiters :
       (pc[w] # "idle" /\ pc'[w] \in {"idle", "finish"}) => value[addr[w]] # old[w]]_vars

----------------------------------------------------------------------------
(***************************************************************************)
(* Proofs for any threads and objects, where a notification reaches every  *)
(* sleeper of the word: the objects are words, or writers call notify_all. *)
(* The waiter's four steps and the writer's four interleave; what ties     *)
(* them together is that a waiter whose object has changed finds the word  *)
(* moved on from its event, or a writer about to move it (Moved), and that *)
(* the entry counts it before it sleeps (Count).                           *)
(***************************************************************************)
WaitAssumption ==
  /\ IsFiniteSet(Waiters) /\ Waiters \cap Writers = {} /\ Addrs # {} /\ MaxValue \in Nat
  /\ WordSized \in BOOLEAN /\ NotifyKinds \subseteq {"one", "all"}
  /\ WordSized \/ NotifyKinds = {"all"}

WaiterPCs == {"idle", "load", "start", "fwait", "asleep", "reload", "finish"}
WriterPCs == {"idle", "bump", "check", "wakeAll"}
Places ==
  /\ \A w \in Waiters : pc[w] \in WaiterPCs
  /\ \A t \in Writers : pc[t] \in WriterPCs

Counted == {w \in Waiters : pc[w] \in {"fwait", "asleep", "reload", "finish"}}
Count == waiter_count = Cardinality(Counted)

Waits(w) == pc[w] \in {"start", "fwait", "asleep", "reload"}
Changed(w) == value[addr[w]] # old[w]
Seen(w) ==
  /\ pc[w] = "load" \/ Waits(w) => event[w] <= wait_address(addr[w])
  /\ Waits(w) => old[w] <= value[addr[w]]
  /\ pc[w] = "finish" => old[w] < value[addr[w]]
Moved(w) ==
  Waits(w) /\ Changed(w) =>
    \/ event[w] < wait_address(addr[w])
    \/ ~WordSized /\ \E t \in Writers : pc[t] = "bump"
Notified(w) ==
  pc[w] = "asleep" /\ Changed(w) =>
    \E t \in Writers : /\ WordSized => addr[t] = addr[w]
                       /\ pc[t] \in {"bump", "check", "wakeAll"}

\* The inductive invariant.
IInv == TypeOK /\ Places /\ Count /\ \A w \in Waiters : Seen(w) /\ Moved(w) /\ Notified(w)

\* The entry counts exactly one thread more, or less, when one passes by.
LEMMA CountChanges ==
  ASSUME WaitAssumption, NEW w \in Waiters,
         \A u \in Waiters \ {w} : (u \in Counted)' <=> u \in Counted
  PROVE  /\ Cardinality(Counted) \in Nat
         /\ (w \in Counted)' <=> w \in Counted => Cardinality(Counted') = Cardinality(Counted)
         /\ (w \in Counted)' /\ w \notin Counted => Cardinality(Counted') = Cardinality(Counted) + 1
         /\ ~(w \in Counted)' /\ w \in Counted =>
              Cardinality(Counted') = Cardinality(Counted) - 1 /\ Cardinality(Counted) > 0
<1>1. IsFiniteSet(Counted) /\ Cardinality(Counted) \in Nat
  <2>1. Counted \subseteq Waiters
    BY DEF Counted
  <2>2. IsFiniteSet(Counted)
    BY <2>1, FS_Subset DEF WaitAssumption
  <2> QED
    BY <2>2, FS_CardinalityType
<1>2. ASSUME (w \in Counted)' <=> w \in Counted PROVE Counted' = Counted
  BY <1>2 DEF Counted
<1>3. ASSUME (w \in Counted)', w \notin Counted
      PROVE  Cardinality(Counted') = Cardinality(Counted) + 1
  <2>1. Counted' = Counted \cup {w}
    BY <1>3 DEF Counted
  <2> QED
    BY <1>1, <1>3, <2>1, FS_AddElement
<1>4. ASSUME ~(w \in Counted)', w \in Counted
      PROVE  Cardinality(Counted') = Cardinality(Counted) - 1 /\ Cardinality(Counted) > 0
  <2>1. Counted' = Counted \ {w}
    BY <1>4 DEF Counted
  <2>2. Cardinality(Counted) # 0
    BY <1>1, <1>4, FS_EmptySet
  <2> QED
    BY <1>1, <1>4, <2>1, <2>2, FS_RemoveElement
<1> QED
  BY <1>1, <1>2, <1>3, <1>4

\* A waiter that a step leaves alone, together with the objects and the writers.
LEMMA Aside ==
  ASSUME NEW u \in Waiters, Seen(u), Moved(u), Notified(u),
         pc'[u] = pc[u], addr'[u] = addr[u], old'[u] = old[u], event'[u] = event[u],
         value' = value, proxy' = proxy,
         \A t \in Writers : pc'[t] = pc[t] /\ addr'[t] = addr[t]
  PROVE  Seen(u)' /\ Moved(u)' /\ Notified(u)'
BY DEF Seen, Moved, Notified, Waits, Changed, wait_address

LEMMA InitInv == ASSUME WaitAssumption PROVE Init => IInv
<1> SUFFICES ASSUME Init PROVE IInv
  OBVIOUS
<1>1. (CHOOSE a \in Addrs : TRUE) \in Addrs
  BY DEF WaitAssumption
<1>2. TypeOK
  BY <1>1 DEF WaitAssumption, Init, TypeOK, PCs, AllThreads
<1>3. \A t \in AllThreads : pc[t] = "idle"
  BY DEF Init
<1>4. Counted = {}
  BY <1>3 DEF Counted, AllThreads
<1>5. Count
  BY <1>4, FS_EmptySet DEF Count, Init
<1> QED
  BY <1>2, <1>3, <1>5
  DEF IInv, Places, Seen, Moved, Notified, Waits, AllThreads, WaiterPCs, WriterPCs

LEMMA EntryInv ==
  ASSUME WaitAssumption, IInv, NEW w \in Waiters, wait(w)
  PROVE  IInv'
<1>1. /\ TypeOK /\ Places /\ Count /\ \A u \in Waiters : Seen(u) /\ Moved(u) /\ Notified(u)
      /\ w \in AllThreads /\ w \notin Writers
  BY DEF IInv, AllThreads, WaitAssumption
<1>2. PICK a \in Addrs, v \in 0..MaxValue :
        /\ addr' = [addr EXCEPT ![w] = a] /\ old' = [old EXCEPT ![w] = v]
        /\ event' = [event EXCEPT ![w] = wait_address(a)]
        /\ pc[w] = "idle" /\ pc' = [pc EXCEPT ![w] = "load"]
        /\ UNCHANGED <<value, proxy, waiter_count>>
  BY DEF wait, Goto
<1>3. /\ pc'[w] = "load" /\ addr'[w] = a /\ event'[w] = wait_address(a)
      /\ \A u \in AllThreads \ {w} : pc'[u] = pc[u] /\ addr'[u] = addr[u]
      /\ \A u \in Waiters \ {w} : old'[u] = old[u] /\ event'[u] = event[u]
  BY <1>1, <1>2 DEF TypeOK
<1>4. wait_address(a) \in Nat /\ wait_address(a)' = wait_address(a)
  BY <1>1, <1>2 DEF TypeOK, wait_address, WaitAssumption
<1>5. TypeOK'
  BY <1>1, <1>2, <1>4 DEF TypeOK, PCs
<1>6. Places'
  BY <1>1, <1>3 DEF Places, WaiterPCs, AllThreads
<1>7. Count'
  <2>1. \A u \in Waiters : (u \in Counted)' <=> u \in Counted
    BY <1>2, <1>3 DEF Counted, AllThreads
  <2> QED
    BY <1>1, <1>2, <2>1, CountChanges DEF Count
<1>8. Seen(w)' /\ Moved(w)' /\ Notified(w)'
  <2>1. wait_address(addr[w])' = wait_address(a)
    BY <1>3, <1>4 DEF wait_address
  <2> QED
    BY <1>3, <1>4, <2>1 DEF Seen, Moved, Notified, Waits
<1>9. \A u \in Waiters \ {w} : Seen(u)' /\ Moved(u)' /\ Notified(u)'
  BY <1>1, <1>2, <1>3, Aside DEF AllThreads
<1> QED
  BY <1>5, <1>6, <1>7, <1>8, <1>9 DEF IInv

LEMMA WaiterInv ==
  ASSUME WaitAssumption, IInv, NEW w \in Waiters, WaiterStep(w) \/ SpuriousWake(w)
  PROVE  IInv'
<1>1. /\ TypeOK /\ Places /\ Count /\ \A u \in Waiters : Seen(u) /\ Moved(u) /\ Notified(u)
      /\ w \in AllThreads /\ w \notin Writers
  BY DEF IInv, AllThreads, WaitAssumption
<1>2. PICK l \in WaiterPCs :
        /\ pc' = [pc EXCEPT ![w] = l] /\ UNCHANGED <<value, proxy, addr, old, event>>
        /\ \/ /\ waiter_count' = waiter_count
              /\ \/ pc[w] = "load" /\ l = "idle"
                 \/ pc[w] = "load" /\ l = "start" /\ ~Changed(w)
                 \/ pc[w] = "fwait" /\ l = "asleep" /\ wait_address(addr[w]) = event[w]
                 \/ pc[w] \in {"fwait", "asleep"} /\ l = "reload"
                 \/ pc[w] = "reload" /\ l = "fwait"
                 \/ pc[w] = "reload" /\ l = "finish" /\ Changed(w)
           \/ waiter_count' = waiter_count + 1 /\ pc[w] = "start" /\ l = "fwait"
           \/ waiter_count' = waiter_count - 1 /\ pc[w] = "finish" /\ l = "idle"
  BY DEF WaiterStep, FirstLoad, start_waiting, futex_wait, Reload, finish_waiting, SpuriousWake,
         Goto, WaiterPCs, Changed
<1>3. pc'[w] = l /\ \A u \in AllThreads \ {w} : pc'[u] = pc[u]
  BY <1>1, <1>2 DEF TypeOK
<1>4. Count' /\ waiter_count' \in Nat
  <2>1. \A u \in Waiters \ {w} : (u \in Counted)' <=> u \in Counted
    BY <1>3 DEF Counted, AllThreads
  <2>2. /\ w \in Counted <=> pc[w] \in {"fwait", "asleep", "reload", "finish"}
        /\ (w \in Counted)' <=> l \in {"fwait", "asleep", "reload", "finish"}
    BY <1>3 DEF Counted
  <2>3. /\ Cardinality(Counted) \in Nat
        /\ (w \in Counted)' <=> w \in Counted => Cardinality(Counted') = Cardinality(Counted)
        /\ (w \in Counted)' /\ w \notin Counted => Cardinality(Counted') = Cardinality(Counted) + 1
        /\ ~(w \in Counted)' /\ w \in Counted =>
             Cardinality(Counted') = Cardinality(Counted) - 1 /\ Cardinality(Counted) > 0
    BY <2>1, CountChanges
  <2> QED
    BY <1>1, <1>2, <2>2, <2>3 DEF Count
<1>5. TypeOK'
  BY <1>1, <1>2, <1>4 DEF TypeOK, PCs, WaiterPCs
<1>6. Places'
  BY <1>1, <1>3 DEF Places, AllThreads
<1>7. /\ value[addr[w]] \in Nat /\ old[w] \in Nat /\ event[w] \in Nat
      /\ wait_address(addr[w]) \in Nat /\ wait_address(addr[w])' = wait_address(addr[w])
      /\ Changed(w)' <=> Changed(w)
  BY <1>1, <1>2 DEF TypeOK, wait_address, WaitAssumption, Changed
<1>8. Seen(w)'
  BY <1>1, <1>2, <1>3, <1>7 DEF Seen, Waits, Changed
<1>9. Moved(w)'
  <2>1. l # "start" /\ Waits(w)' => Waits(w)
    BY <1>2, <1>3 DEF Waits
  <2>2. l = "start" => ~Changed(w)
    BY <1>2
  <2>3. \A t \in Writers : pc'[t] = pc[t]
    BY <1>1, <1>3 DEF AllThreads
  <2> QED
    BY <1>1, <1>2, <1>7, <2>1, <2>2, <2>3 DEF Moved
<1>10. Notified(w)'
  <2>1. SUFFICES ASSUME l = "asleep", Changed(w)
                 PROVE  ~WordSized /\ \E t \in Writers : pc[t] = "bump"
    BY <1>1, <1>3, <1>7 DEF Notified, AllThreads
  <2>2. Waits(w) /\ wait_address(addr[w]) = event[w]
    BY <1>2, <2>1 DEF Waits
  <2> QED
    BY <1>1, <1>7, <2>1, <2>2 DEF Moved
<1>11. \A u \in Waiters \ {w} : Seen(u)' /\ Moved(u)' /\ Notified(u)'
  BY <1>1, <1>2, <1>3, Aside DEF AllThreads
<1> QED
  BY <1>4, <1>5, <1>6, <1>8, <1>9, <1>10, <1>11 DEF IInv

LEMMA StoreInv ==
  ASSUME WaitAssumption, IInv, NEW t \in Writers, Store(t)
  PROVE  IInv'
<1>1. /\ TypeOK /\ Places /\ Count /\ \A u \in Waiters : Seen(u) /\ Moved(u) /\ Notified(u)
      /\ t \in AllThreads /\ t \notin Waiters
  BY DEF IInv, AllThreads, WaitAssumption
<1>2. PICK a \in Addrs :
        /\ value[a] < MaxValue /\ value' = [value EXCEPT ![a] = @ + 1]
        /\ addr' = [addr EXCEPT ![t] = a]
        /\ pc[t] = "idle" /\ pc' = [pc EXCEPT ![t] = "bump"]
        /\ UNCHANGED <<proxy, waiter_count, old, event>>
  BY DEF Store, Goto
<1>3. /\ pc'[t] = "bump" /\ addr'[t] = a
      /\ \A u \in AllThreads \ {t} : pc'[u] = pc[u] /\ addr'[u] = addr[u]
      /\ value'[a] = value[a] + 1 /\ \A c \in Addrs \ {a} : value'[c] = value[c]
      /\ \A c \in Addrs : value[c] \in Nat
  BY <1>1, <1>2 DEF TypeOK, WaitAssumption
<1>4. TypeOK'
  BY <1>1, <1>2 DEF TypeOK, PCs, WaitAssumption
<1>5. Places'
  BY <1>1, <1>3 DEF Places, WriterPCs, AllThreads
<1>6. Count'
  <2>1. Counted' = Counted
    BY <1>1, <1>3 DEF Counted, AllThreads
  <2> QED
    BY <1>1, <1>2, <2>1 DEF Count
<1>7. ASSUME NEW u \in Waiters PROVE Seen(u)' /\ Moved(u)' /\ Notified(u)'
  <2>1. /\ pc'[u] = pc[u] /\ addr'[u] = addr[u] /\ old'[u] = old[u] /\ event'[u] = event[u]
        /\ addr[u] \in Addrs /\ old[u] \in Nat /\ event[u] \in Nat /\ proxy \in Nat
        /\ value[addr[u]] \in Nat /\ Waits(u)' = Waits(u) /\ u # t
    BY <1>1, <1>2, <1>3 DEF TypeOK, AllThreads, WaitAssumption, Waits
  <2>2. CASE addr[u] # a
    <3>1. /\ value'[addr'[u]] = value[addr[u]]
          /\ wait_address(addr[u])' = wait_address(addr[u])
      BY <1>2, <1>3, <2>1, <2>2 DEF wait_address
    <3>2. Seen(u)' /\ Moved(u)'
      BY <1>1, <1>3, <2>1, <3>1 DEF Seen, Moved, Changed, AllThreads
    <3>3. Notified(u)'
      BY <1>1, <1>2, <1>3, <2>1, <3>1 DEF Notified, Changed, AllThreads
    <3> QED
      BY <3>2, <3>3
  <2>3. CASE addr[u] = a
    <3>1. /\ value'[addr'[u]] = value[addr[u]] + 1
          /\ WordSized => /\ wait_address(addr[u])' = wait_address(addr[u]) + 1
                          /\ wait_address(addr[u]) \in Nat
          /\ ~WordSized => wait_address(addr[u])' = wait_address(addr[u])
      BY <1>2, <1>3, <2>1, <2>3 DEF wait_address
    <3>2. Seen(u)'
      BY <1>1, <2>1, <3>1 DEF Seen
    <3>3. Moved(u)'
      <4>1. CASE WordSized
        <5>1. Waits(u) => event[u] <= wait_address(addr[u])
          BY <1>1 DEF Seen
        <5>2. Waits(u) => event'[u] < wait_address(addr[u])'
          BY <2>1, <3>1, <4>1, <5>1
        <5> QED
          BY <2>1, <5>2 DEF Moved
      <4>2. CASE ~WordSized
        BY <1>3, <4>2 DEF Moved
      <4> QED
        BY <4>1, <4>2
    <3>4. Notified(u)'
      BY <1>3, <2>1, <2>3 DEF Notified
    <3> QED
      BY <3>2, <3>3, <3>4
  <2> QED
    BY <2>2, <2>3
<1> QED
  BY <1>4, <1>5, <1>6, <1>7 DEF IInv

LEMMA WriterInv ==
  ASSUME WaitAssumption, IInv, NEW t \in Writers, WriterStep(t)
  PROVE  IInv'
<1>1. /\ TypeOK /\ Places /\ Count /\ \A u \in Waiters : Seen(u) /\ Moved(u) /\ Notified(u)
      /\ t \in AllThreads /\ t \notin Waiters /\ pc[t] \in WriterPCs
  BY DEF IInv, AllThreads, WaitAssumption, Places
<1>2. UNCHANGED <<value, waiter_count, addr, old, event>>
  BY DEF WriterStep, BumpProxy, is_waiting, futex_wake
<1>3. CASE BumpProxy(t)
  <2>1. /\ pc[t] = "bump" /\ pc' = [pc EXCEPT ![t] = "check"]
        /\ WordSized => proxy' = proxy
        /\ ~WordSized => proxy' = proxy + 1
        /\ proxy \in Nat /\ proxy' \in Nat
    BY <1>1, <1>3 DEF BumpProxy, Goto, TypeOK, WaitAssumption
  <2>2. pc'[t] = "check" /\ \A u \in AllThreads \ {t} : pc'[u] = pc[u]
    BY <1>1, <2>1 DEF TypeOK
  <2>3. TypeOK'
    BY <1>1, <1>2, <2>1 DEF TypeOK, PCs
  <2>4. Places'
    BY <1>1, <2>2 DEF Places, WriterPCs, AllThreads
  <2>5. Count'
    <3>1. Counted' = Counted
      BY <1>1, <2>2 DEF Counted, AllThreads
    <3> QED
      BY <1>1, <1>2, <3>1 DEF Count
  <2>6. ASSUME NEW u \in Waiters PROVE Seen(u)' /\ Moved(u)' /\ Notified(u)'
    <3>1. /\ pc'[u] = pc[u] /\ addr[u] \in Addrs /\ event[u] \in Nat
          /\ Waits(u)' = Waits(u) /\ (Changed(u)' <=> Changed(u))
      BY <1>1, <1>2, <2>2 DEF TypeOK, AllThreads, Waits, Changed
    <3>2. /\ WordSized => wait_address(addr[u])' = wait_address(addr[u])
          /\ ~WordSized => /\ wait_address(addr[u])' = wait_address(addr[u]) + 1
                           /\ wait_address(addr[u]) \in Nat
      BY <1>2, <2>1 DEF wait_address
    <3>3. Seen(u)'
      BY <1>1, <1>2, <3>1, <3>2 DEF Seen
    <3>4. Moved(u)'
      <4>1. CASE WordSized
        BY <1>1, <1>2, <3>1, <3>2, <4>1 DEF Moved
      <4>2. CASE ~WordSized
        <5>1. Waits(u) => event[u] <= wait_address(addr[u])
          BY <1>1 DEF Seen
        <5>2. Waits(u) => event'[u] < wait_address(addr[u])'
          BY <1>2, <3>1, <3>2, <4>2, <5>1
        <5> QED
          BY <3>1, <5>2 DEF Moved
      <4> QED
        BY <4>1, <4>2
    <3>5. Notified(u)'
      BY <1>1, <1>2, <2>2, <3>1 DEF Notified, AllThreads
    <3> QED
      BY <3>3, <3>4, <3>5
  <2> QED
    BY <2>3, <2>4, <2>5, <2>6 DEF IInv
<1>4. CASE is_waiting(t)
  <2>1. PICK l \in {"idle", "wakeAll"} :
          /\ pc[t] = "check" /\ pc' = [pc EXCEPT ![t] = l] /\ proxy' = proxy
          /\ l = "idle" => waiter_count <= 0
    BY <1>4 DEF is_waiting, Goto, WaitAssumption
  <2>2. pc'[t] = l /\ \A u \in AllThreads \ {t} : pc'[u] = pc[u]
    BY <1>1, <2>1 DEF TypeOK
  <2>3. TypeOK'
    BY <1>1, <1>2, <2>1 DEF TypeOK, PCs
  <2>4. Places'
    BY <1>1, <2>2 DEF Places, WriterPCs, AllThreads
  <2>5. Count'
    <3>1. Counted' = Counted
      BY <1>1, <2>2 DEF Counted, AllThreads
    <3> QED
      BY <1>1, <1>2, <3>1 DEF Count
  <2>6. ASSUME NEW u \in Waiters PROVE Seen(u)' /\ Moved(u)' /\ Notified(u)'
    <3>1. /\ pc'[u] = pc[u] /\ Waits(u)' = Waits(u) /\ (Changed(u)' <=> Changed(u))
          /\ wait_address(addr[u])' = wait_address(addr[u])
      BY <1>1, <1>2, <2>1, <2>2 DEF AllThreads, Waits, Changed, wait_address
    <3>2. Seen(u)' /\ Moved(u)'
      BY <1>1, <1>2, <2>1, <2>2, <3>1 DEF Seen, Moved, AllThreads
    <3>3. pc[u] = "asleep" => l = "wakeAll"
      <4>1. SUFFICES ASSUME pc[u] = "asleep" PROVE waiter_count > 0
        BY <1>1, <2>1 DEF TypeOK
      <4>2. u \in Counted /\ Counted \subseteq Waiters
        BY <4>1 DEF Counted
      <4>3. IsFiniteSet(Counted)
        BY <4>2, FS_Subset DEF WaitAssumption
      <4>4. Cardinality(Counted) \in Nat /\ Cardinality(Counted) # 0
        BY <4>2, <4>3, FS_CardinalityType, FS_EmptySet
      <4> QED
        BY <1>1, <4>4 DEF Count
    <3>4. Notified(u)'
      BY <1>1, <1>2, <2>2, <3>1, <3>3 DEF Notified, AllThreads
    <3> QED
      BY <3>2, <3>4
  <2> QED
    BY <2>3, <2>4, <2>5, <2>6 DEF IInv
<1>5. CASE futex_wake(t)
  <2>1. /\ pc[t] = "wakeAll" /\ proxy' = proxy
        /\ pc' = [u \in AllThreads |-> IF u = t THEN "idle"
                                       ELSE IF u \in SleepersOn(addr[t]) THEN "reload" ELSE pc[u]]
    BY <1>1, <1>5 DEF futex_wake, WriterPCs
  <2>2. /\ pc'[t] = "idle" /\ \A u \in Writers \ {t} : pc'[u] = pc[u]
        /\ \A u \in Waiters : \/ pc'[u] = pc[u] /\ u \notin SleepersOn(addr[t])
                              \/ pc[u] = "asleep" /\ pc'[u] = "reload"
    BY <1>1, <2>1 DEF AllThreads, SleepersOn, WaitAssumption
  <2>3. TypeOK'
    BY <1>1, <1>2, <2>1 DEF TypeOK, PCs
  <2>4. Places'
    BY <1>1, <2>2 DEF Places, WriterPCs, WaiterPCs
  <2>5. Count'
    <3>1. Counted' = Counted
      BY <2>2 DEF Counted
    <3> QED
      BY <1>1, <1>2, <3>1 DEF Count
  <2>6. ASSUME NEW u \in Waiters PROVE Seen(u)' /\ Moved(u)' /\ Notified(u)'
    <3>1. /\ Waits(u)' <=> Waits(u)
          /\ pc'[u] = "load" <=> pc[u] = "load"
          /\ pc'[u] = "finish" <=> pc[u] = "finish"
          /\ Changed(u)' <=> Changed(u)
          /\ wait_address(addr[u])' = wait_address(addr[u])
      BY <1>2, <2>1, <2>2 DEF Waits, Changed, wait_address
    <3>2. \A s \in Writers : pc'[s] = "bump" <=> pc[s] = "bump"
      BY <2>1, <2>2
    <3>3. Seen(u)' /\ Moved(u)'
      BY <1>1, <1>2, <3>1, <3>2 DEF Seen, Moved
    <3>4. Notified(u)'
      BY <1>1, <1>2, <2>2, <3>1 DEF Notified, SleepersOn
    <3> QED
      BY <3>3, <3>4
  <2> QED
    BY <2>3, <2>4, <2>5, <2>6 DEF IInv
<1> QED
  BY <1>3, <1>4, <1>5 DEF WriterStep

LEMMA NextInv == ASSUME WaitAssumption PROVE IInv /\ [Next]_vars => IInv'
<1> SUFFICES ASSUME IInv, [Next]_vars PROVE IInv'
  OBVIOUS
<1>1. CASE UNCHANGED vars
  <2>1. Counted' = Counted
    BY <1>1 DEF vars, Counted
  <2>2. TypeOK' /\ Places' /\ Count'
    BY <1>1, <2>1 DEF vars, IInv, TypeOK, Places, Count
  <2>3. \A u \in Waiters : Seen(u)' /\ Moved(u)' /\ Notified(u)'
    BY <1>1, Aside DEF vars, IInv
  <2> QED
    BY <2>2, <2>3 DEF IInv
<1> QED
  BY <1>1, EntryInv, WaiterInv, StoreInv, WriterInv DEF Next

\* wait() sleeps through no change of its object: however the waiter's steps fall among
\* those of store and notify, for any number of threads and objects.
THEOREM WakeupsReach ==
  ASSUME WaitAssumption
  PROVE  Spec => []NoLostWakeup
<1>1. Init => IInv
  BY InitInv
<1>2. IInv /\ [Next]_vars => IInv'
  BY NextInv
<1>3. IInv => NoLostWakeup
  BY DEF IInv, Notified, Changed, NoLostWakeup
<1> QED
  BY <1>1, <1>2, <1>3, PTL DEF Spec

\* wait() returns only when the value has changed, also if it was woken for another
\* object of the entry or for nothing.
THEOREM ReturnsAreDue ==
  ASSUME WaitAssumption
  PROVE  Spec => NoEarlyReturn
<1> DEFINE Due(w) == (pc[w] # "idle" /\ pc'[w] \in {"idle", "finish"}) => value[addr[w]] # old[w]
<1>1. Init => IInv
  BY InitInv
<1>2. IInv /\ [Next]_vars => IInv'
  BY NextInv
<1>3. IInv /\ [Next]_vars => [\A w \in Waiters : Due(w)]_vars
  <2> SUFFICES ASSUME IInv, Next, NEW w \in Waiters, pc[w] # "idle", pc'[w] \in {"idle", "finish"}
               PROVE  value[addr[w]] # old[w]
    OBVIOUS
  <2>1. /\ TypeOK /\ Places /\ Seen(w) /\ w \in AllThreads /\ w \notin Writers
        /\ value[addr[w]] \in Nat /\ old[w] \in Nat
    BY DEF IInv, TypeOK, AllThreads, WaitAssumption
  <2>2. ASSUME NEW u \in Waiters, wait(u) PROVE value[addr[w]] # old[w]
    <3>1. pc[w] = "finish"
      BY <2>1, <2>2 DEF wait, Goto, TypeOK
    <3> QED
      BY <2>1, <3>1 DEF Seen
  <2>3. ASSUME NEW u \in Waiters, WaiterStep(u) \/ SpuriousWake(u) PROVE value[addr[w]] # old[w]
    <3>1. PICK l \in PCs : pc' = [pc EXCEPT ![u] = l]
      BY <2>3 DEF WaiterStep, FirstLoad, start_waiting, futex_wait, Reload, finish_waiting,
                  SpuriousWake, Goto, PCs
    <3>2. u = w \/ pc[w] = "finish"
      BY <2>1, <3>1 DEF TypeOK
    <3>3. CASE pc[w] = "finish"
      BY <2>1, <3>3 DEF Seen
    <3>4. CASE u = w /\ pc[w] # "finish"
      BY <2>1, <2>3, <3>4
      DEF WaiterStep, FirstLoad, start_waiting, futex_wait, Reload, finish_waiting,
          SpuriousWake, Goto, TypeOK
    <3> QED
      BY <3>2, <3>3, <3>4
  <2>4. ASSUME NEW t \in Writers, Store(t) \/ WriterStep(t) PROVE value[addr[w]] # old[w]
    <3>1. pc'[w] = pc[w] \/ pc'[w] = "reload"
      BY <2>1, <2>4 DEF Store, WriterStep, BumpProxy, is_waiting, futex_wake, SleepersOn, Goto,
                        TypeOK, AllThreads
    <3>2. pc[w] = "finish"
      BY <3>1
    <3> QED
      BY <2>1, <3>2 DEF Seen
  <2> QED
    BY <2>2, <2>3, <2>4 DEF Next
<1>4. NoEarlyReturn <=> [][\A w \in Waiters : Due(w)]_vars
  BY DEF NoEarlyReturn
<1> QED
  BY <1>1, <1>2, <1>3, <1>4, PTL DEF Spec
============================================================================
