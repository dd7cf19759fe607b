------------------------------ MODULE Syncbuf -------------------------------
(***************************************************************************)
(* basic_syncbuf and the mutexes that syncbufs of one streambuf share      *)
(* (detail/get_mutex_for_address.ipp): a map from streambufs to weak_ptrs, *)
(* and mutexes that take themselves out of it when the last syncbuf lets   *)
(* go of them.  Each thread uses syncbufs of its own on streambufs that    *)
(* all of them share.                                                      *)
(*                                                                         *)
(* An action runs from one synchronisation to the next: taking a mutex or  *)
(* the map's recursive_mutex, putting one character into a streambuf,      *)
(* dropping a reference to a mutex.  A streambuf may take fewer characters *)
(* than it is offered.                                                     *)
(***************************************************************************)
EXTENDS Integers, Sequences, FiniteSets

CONSTANTS
  Threads, Bufs,
  Owner,        \* [Bufs -> Threads]
  Streams,      \* the wrapped streambufs
  Mutexes,      \* enough for those that live at a time
  MaxCalls      \* bound: the number of calls, by thread

VARIABLES
  buf,          \* the syncbufs
  map,          \* map_, by streambuf: the mutex, Expired, or None
  mtx,          \* the mutexes: shared_ptrs to each, its key, who has locked it
  mapLock,      \* who holds the map's mutex
  p,            \* where each thread is in its call
  calls,        \* the calls a thread has made (bounds the model)
  out           \* characters written, put into the streambuf and dropped; whether
                \* it ever refused any

syncVars == <<buf, map, mtx, mapLock, p, calls, out>>

None == 0
Expired == -1
Keys == Streams \cup {None}
Empty == [alive |-> TRUE, wrapped |-> None, size |-> 0, emit_on_sync |-> FALSE, pending_flush |-> FALSE, mutex |-> None]
Gone == [Empty EXCEPT !.alive = FALSE]
Idle == [pc |-> "idle", op |-> "none", b |-> None, from |-> None, n |-> 0, k |-> 0, own |-> {}, temp |-> None]

Init ==
  /\ buf = [b \in Bufs |-> Gone]
  /\ map = [w \in Keys |-> None]
  /\ mtx = [m \in Mutexes |-> [refs |-> 0, key |-> None, locked |-> None]]
  /\ mapLock = None
  /\ p = [t \in Threads |-> Idle]
  /\ calls = [t \in Threads |-> 0]
  /\ out = [w \in Streams |-> [written |-> 0, put |-> 0, dropped |-> 0, refused |-> FALSE]]

At(t, l) == p[t].pc = l
Call(t, b) == At(t, "idle") /\ Owner[b] = t /\ calls[t] < MaxCalls[t] /\ calls' = [calls EXCEPT ![t] = @ + 1]

-----------------------------------------------------------------------------
\* get_mutex_for_address(w), under the map's lock: the mutex of w, or a new one.
Free == {m \in Mutexes : /\ mtx[m].refs = 0 /\ \A t \in Threads : m \notin p[t].own
                         /\ \A w \in Keys : map[w] # m}
get_mutex_for_address(w) == IF map[w] \in Mutexes THEN map[w] ELSE CHOOSE m \in Free : TRUE
Construct(t, b, w) ==
  /\ Call(t, b) /\ ~buf[b].alive /\ mapLock = None
  /\ LET m == get_mutex_for_address(w)
     IN  /\ buf' = [buf EXCEPT ![b] = [Empty EXCEPT !.wrapped = w, !.mutex = m]]
         /\ map' = [map EXCEPT ![w] = m]
         /\ mtx' = [mtx EXCEPT ![m].refs = @ + 1, ![m].key = w]
  /\ UNCHANGED <<mapLock, p, out>>

\* overflow() and xsputn()
Write(t, b) ==
  /\ Call(t, b) /\ buf[b].alive
  /\ buf' = [buf EXCEPT ![b].size = @ + 1]
  /\ out' = [w \in Streams |-> IF w = buf[b].wrapped THEN [out[w] EXCEPT !.written = @ + 1] ELSE out[w]]
  /\ UNCHANGED <<map, mtx, mapLock, p>>
set_emit_on_sync(t, b) ==
  /\ Call(t, b) /\ buf[b].alive
  /\ \E f \in BOOLEAN : buf' = [buf EXCEPT ![b].emit_on_sync = f]
  /\ UNCHANGED <<map, mtx, mapLock, p, out>>

\* What emit() does first.
EmitPC(b) == IF buf[b].wrapped = None THEN "after" ELSE "lock"
Enter(t, b, op, from) == p' = [p EXCEPT ![t] = [Idle EXCEPT !.pc = EmitPC(b), !.op = op, !.b = b, !.from = from]]
Emit(t, b) ==
  /\ Call(t, b) /\ buf[b].alive /\ Enter(t, b, "emit", None)
  /\ UNCHANGED <<buf, map, mtx, mapLock, out>>
Sync(t, b) ==
  /\ Call(t, b) /\ buf[b].alive
  /\ buf' = [buf EXCEPT ![b].pending_flush = TRUE]
  /\ IF buf[b].emit_on_sync THEN Enter(t, b, "emit", None) ELSE UNCHANGED p
  /\ UNCHANGED <<map, mtx, mapLock, out>>
Destroy(t, b) ==
  /\ Call(t, b) /\ buf[b].alive /\ Enter(t, b, "destroy", None)
  /\ UNCHANGED <<buf, map, mtx, mapLock, out>>
\* Mutant of MoveAssign: what is buffered is not emitted first.
MoveAssignBlind(t, b, from) ==
  /\ Call(t, b) /\ b # from /\ Owner[from] = t /\ buf[b].alive /\ buf[from].alive
  /\ p' = [p EXCEPT ![t] = [Idle EXCEPT !.pc = "after", !.op = "move", !.b = b, !.from = from]]
  /\ UNCHANGED <<buf, map, mtx, mapLock, out>>
MoveAssign(t, b, from) ==
  /\ Call(t, b) /\ b # from /\ Owner[from] = t /\ buf[b].alive /\ buf[from].alive
  /\ Enter(t, b, "move", from)
  /\ UNCHANGED <<buf, map, mtx, mapLock, out>>

-----------------------------------------------------------------------------
\* emit(): the lock, the characters that the streambuf takes, then the rest.
EmitLock(t) ==
  /\ At(t, "lock") /\ mtx[buf[p[t].b].mutex].locked = None
  /\ mtx' = [mtx EXCEPT ![buf[p[t].b].mutex].locked = t]
  /\ \E n \in 0..buf[p[t].b].size : p' = [p EXCEPT ![t].pc = "put", ![t].n = n]
  /\ UNCHANGED <<buf, map, mapLock, calls, out>>
Put(t) ==
  /\ At(t, "put") /\ p[t].k < p[t].n
  /\ p' = [p EXCEPT ![t].k = @ + 1]
  /\ out' = [out EXCEPT ![buf[p[t].b].wrapped].put = @ + 1]
  /\ UNCHANGED <<buf, map, mtx, mapLock, calls>>
\* The rest of emit(): the erase, pubsync() and the unlock.
EmitUnlock(t) ==
  LET b == p[t].b
  IN  /\ At(t, "put") /\ p[t].k = p[t].n
      /\ buf' = [buf EXCEPT ![b].size = @ - p[t].n, ![b].pending_flush = FALSE]
      /\ out' = [out EXCEPT ![buf[b].wrapped].refused = @ \/ p[t].n < buf[b].size]
      /\ mtx' = [mtx EXCEPT ![buf[b].mutex].locked = None]
      /\ p' = [p EXCEPT ![t].pc = "after", ![t].k = 0]
      /\ UNCHANGED <<map, mapLock, calls>>

\* Giving up a shared_ptr to m: the last one starts ~mutex_deleter.
Dropped(m) == [mtx EXCEPT ![m].refs = @ - 1]
Expire(m) == [w \in Keys |-> IF map[w] = m THEN Expired ELSE map[w]]
DropRef(t, m) ==
  IF m = None THEN UNCHANGED <<mtx, map>> /\ p' = [p EXCEPT ![t] = Idle]
  ELSE /\ mtx' = Dropped(m)
       /\ IF mtx[m].refs = 1
          THEN map' = Expire(m) /\ p' = [p EXCEPT ![t] = [Idle EXCEPT !.pc = "find", !.own = {m}, !.n = m]]
          ELSE UNCHANGED map /\ p' = [p EXCEPT ![t] = Idle]
Lost(b) == out' = [w \in Streams |-> IF w = buf[b].wrapped THEN [out[w] EXCEPT !.dropped = @ + buf[b].size] ELSE out[w]]

\* What follows emit() in the call.
After(t) ==
  LET b == p[t].b
      from == p[t].from
  IN  /\ At(t, "after")
      /\ \/ p[t].op = "emit" /\ p' = [p EXCEPT ![t] = Idle] /\ UNCHANGED <<buf, map, mtx, out>>
         \/ p[t].op = "destroy" /\ buf' = [buf EXCEPT ![b] = Gone] /\ DropRef(t, buf[b].mutex) /\ Lost(b)
         \/ /\ p[t].op = "move" /\ buf' = [buf EXCEPT ![b] = buf[from], ![from] = Empty]
            /\ DropRef(t, buf[b].mutex) /\ Lost(b)
      /\ UNCHANGED <<mapLock, calls>>

-----------------------------------------------------------------------------
\* ~mutex_deleter of the mutex p.n: the map's lock, and a shared_ptr to the mutex
\* that the map has for its key now, if any.
Find(t) ==
  LET now == map[mtx[p[t].n].key]
  IN  /\ At(t, "find") /\ mapLock \in {None, t}
      /\ mapLock' = t
      /\ p' = [p EXCEPT ![t].pc = "compare", ![t].temp = IF now \in Mutexes THEN now ELSE None]
      /\ mtx' = IF now \in Mutexes THEN [mtx EXCEPT ![now].refs = @ + 1] ELSE mtx
      /\ UNCHANGED <<buf, map, calls, out>>
\* Mutant of Erased: the entry is erased whatever mutex it has.
ErasedBlindly(t, m) == [m EXCEPT ![mtx[p[t].n].key] = None]
\* The entry is erased if it has the mutex that is being destroyed.
Erased(t, m) == IF p[t].temp = p[t].n THEN [m EXCEPT ![mtx[p[t].n].key] = None] ELSE m
\* The temporary shared_ptr goes; if it is the last, its mutex is destroyed within,
\* under the same lock.  Then the map is unlocked.
Compare(t) ==
  LET temp == p[t].temp
      last == temp # None /\ mtx[temp].refs = 1
  IN  /\ At(t, "compare")
      /\ map' = Erased(t, IF last THEN Expire(temp) ELSE map)
      /\ mtx' = IF temp = None THEN mtx ELSE Dropped(temp)
      /\ p' = [p EXCEPT ![t] = IF last THEN [@ EXCEPT !.pc = "find", !.own = @ \cup {temp}, !.n = temp, !.temp = None]
                               ELSE Idle]
      /\ mapLock' = IF last THEN t ELSE None
      /\ UNCHANGED <<buf, calls, out>>

-----------------------------------------------------------------------------
Step(t) == EmitLock(t) \/ Put(t) \/ EmitUnlock(t) \/ After(t) \/ Find(t) \/ Compare(t)
Start(t, b) ==
  \/ Write(t, b) \/ set_emit_on_sync(t, b) \/ Emit(t, b) \/ Sync(t, b) \/ Destroy(t, b)
  \/ \E w \in Keys : Construct(t, b, w)
  \/ \E from \in Bufs : MoveAssign(t, b, from)
Next == \E t \in Threads : Step(t) \/ \E b \in Bufs : Start(t, b)
Fairness == \A t \in Threads : WF_syncVars(Step(t))
Spec == Init /\ [][Next]_syncVars /\ Fairness

-----------------------------------------------------------------------------
\* Syncbufs of one streambuf share one mutex, however their constructors and
\* destructors interleave, and so what they emit is put there without a break.
OneMutex ==
  /\ \A b, c \in Bufs : buf[b].wrapped = buf[c].wrapped /\ buf[b].wrapped # None => buf[b].mutex = buf[c].mutex
  /\ \A t, u \in Threads : At(t, "put") /\ At(u, "put") /\ t # u => buf[p[t].b].wrapped # buf[p[u].b].wrapped
  /\ \A m \in Mutexes : mtx[m].refs = Cardinality({b \in Bufs : buf[b].mutex = m})
                                      + Cardinality({t \in Threads : p[t].temp = m})

\* Every character written is still buffered, has been put, or was refused by the
\* streambuf in the last emit() of a syncbuf.
NothingLost == \A w \in Streams :
  LET In(b) == {<<b, i>> : i \in 1..(IF buf[b].wrapped = w THEN buf[b].size ELSE 0)}
      Under(t) == {<<t, i>> : i \in 1..(IF At(t, "put") /\ buf[p[t].b].wrapped = w THEN p[t].k ELSE 0)}
  IN  /\ out[w].written + Cardinality(UNION {Under(t) : t \in Threads})
           = out[w].put + out[w].dropped + Cardinality(UNION {In(b) : b \in Bufs})
      /\ out[w].dropped > 0 => out[w].refused

\* Every call returns.
CallsReturn == []<>(\A t \in Threads : At(t, "idle"))
=============================================================================
