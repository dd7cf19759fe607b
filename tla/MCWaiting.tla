----------------------------- MODULE MCWaiting -----------------------------
(***************************************************************************)
(* What threads and processes wait for, for TLC: event, future and the     *)
(* wait and notify calls of atomic<T>; the POSIX locks, semaphore and      *)
(* once_flag, class thread, the syncbufs, class process, the service and   *)
(* the MQTT client.  The components do not interact: a behaviour exercises *)
(* one of them in one setting, the one that the variable part names, and   *)
(* leaves the others in their initial states.                              *)
(***************************************************************************)
EXTENDS Future, TLC

CONSTANTS
  t1, t2, t3,        \* threads that share the event
  w1, w2, n1, n2,    \* threads that wait for and write the atomic objects
  a1, a2,            \* atomic objects
  h1, h2             \* objects of class thread

VARIABLES
  part,                                                \* the setting
  value, proxy, waiter_count, aw_pc, addr, old, seen,  \* of AtomicWait
  b,                                                   \* of Blocking
  thread_, os, fn, th_pc, creator,                     \* of Thread
  buf, map, mtx, mapLock, p, sb_calls, out,            \* of Syncbuf
  pid_, kid, parent, fault,                            \* of Process
  s, pidfile, kills, sv_calls,                         \* of Service
  init_count, lib, at, client, aborted                 \* of Mqtt

awVars == <<value, proxy, waiter_count, aw_pc, addr, old, seen>>
threadVars == <<thread_, os, fn, th_pc, creator>>
syncVars == <<buf, map, mtx, mapLock, p, sb_calls, out>>
processVars == <<pid_, kid, parent, fault>>
serviceVars == <<s, pidfile, kills, sv_calls>>
mqttVars == <<init_count, lib, at, client, aborted>>
posixVars == <<b, threadVars, syncVars, processVars, serviceVars, mqttVars>>
allVars == <<part, futureVars, awVars, posixVars>>

\* What each thread calls in the settings of the event.
Allowed ==
  [event     |-> t1 :> {"wait", "wait_for"} @@ t2 :> Operations
                 @@ t3 :> Signals \cup {"reset"},
   broadcast |-> [t \in Threads |-> {"signal_all", "reset", "wait"}],
   destroy   |-> [t \in Threads |-> {"signal_one", "unlock_and_signal_one", "wait"}]]

EventPart ==
  /\ part \in DOMAIN Allowed
  /\ Next
  /\ \A t \in Threads : calls'[t] # calls[t] => op'[t] \in Allowed[part][t]
  /\ destroyed' => part = "destroy"
  /\ UNCHANGED <<part, result, outcome, awVars, posixVars>>

FuturePart ==
  /\ part = "future"
  /\ FutureNext
  /\ UNCHANGED <<part, awVars, posixVars>>

\* Objects of the size of a futex word.
Word == INSTANCE AtomicWait
        WITH Waiters <- {w1, w2}, Writers <- {n1, n2}, Addrs <- {a1, a2},
             WordSized <- TRUE, NotifyKinds <- {"one", "all"}, MaxValue <- 2,
             pc <- aw_pc, event <- seen

\* Two objects that share the proxy word.
Proxy == INSTANCE AtomicWait
         WITH Waiters <- {w1, w2}, Writers <- {n1, n2}, Addrs <- {a1, a2},
              WordSized <- FALSE, NotifyKinds <- {"one", "all"}, MaxValue <- 1,
              pc <- aw_pc, event <- seen

WordPart ==
  /\ part = "word"
  /\ Word!Next
  /\ value'[a2] = 0 /\ addr' \in [{w1, w2, n1, n2} -> {a1}]
  /\ UNCHANGED <<part, futureVars, posixVars>>

\* Either one writer, which notifies all, or one waiter.
ProxyPart ==
  /\ part \in {"all", "one"}
  /\ Proxy!Next
  /\ IF part = "all" THEN aw_pc'[n2] = "idle" /\ aw_pc'[n1] # "wakeOne"
                      ELSE aw_pc'[w2] = "idle"
  /\ UNCHANGED <<part, futureVars, posixVars>>

\* Each of the five classes in turn, with three threads that make two calls each.
Blocking == INSTANCE Blocking
  WITH Threads <- {t1, t2, t3}, Kinds <- {"normal", "timed", "recursive", "semaphore", "once"},
       MaxCalls <- 2, MaxDepth <- 2, SemInitial <- 1, SemMax <- 2, MaxUpdate <- 2

\* Two objects that start three threads between them.
Thread == INSTANCE Thread WITH Handles <- {h1, h2}, Ids <- {1, 2, 3}, pc <- th_pc

\* Three syncbufs of one streambuf, two of them used by one thread, which may fill one
\* and then move the other into it; one of them is flushed.
Syncbuf == INSTANCE Syncbuf
  WITH Threads <- {1, 2}, Bufs <- {1, 2, 3}, Owner <- 1 :> 1 @@ 2 :> 2 @@ 3 :> 2,
       Streams <- {1}, Mutexes <- {1, 2, 3, 4}, MaxCalls <- 1 :> 2 @@ 2 :> 4, calls <- sb_calls

\* Two objects and two children, the first of which may be told to close its files.
Process == INSTANCE Process WITH Handles <- {"g", "h"}, Kids <- {1, 2}

\* What the proofs about the components assume of them holds here.  (AtomicWait's of
\* the word-sized objects only: with the proxy, notify_one() may wake a waiter on
\* another object.)
ASSUME SettingsAssumption ==
  /\ Word!WaitAssumption /\ Blocking!BlockingAssumption
  /\ Thread!IdsAssumption /\ Process!KidsAssumption

\* Three calls of start(), stop() and restart(), with processes enough.
Service == INSTANCE Service WITH Procs <- 1..5, MaxCalls <- 3, calls <- sv_calls

\* Two clients, one of which connects.
Mqtt == INSTANCE Mqtt
  WITH Clients <- {"c", "d"}, Busy <- {"c"}, Main <- "main", Events <- {"message", "log"}

PosixPart ==
  /\ UNCHANGED <<part, futureVars, awVars>>
  /\ \/ /\ part = "blocking" /\ Blocking!Next
        /\ UNCHANGED <<threadVars, syncVars, processVars, serviceVars, mqttVars>>
     \/ /\ part = "thread" /\ Thread!Next
        /\ UNCHANGED <<b, syncVars, processVars, serviceVars, mqttVars>>
     \/ /\ part = "syncbuf" /\ Syncbuf!Next
        /\ \A x \in {1, 3} : ~buf'[x].emit_on_sync /\ ~buf'[x].pending_flush
        /\ UNCHANGED <<b, threadVars, processVars, serviceVars, mqttVars>>
     \/ /\ part = "process" /\ Process!Next
        /\ ~kid'[2].close_files
        /\ UNCHANGED <<b, threadVars, syncVars, serviceVars, mqttVars>>
     \/ /\ part = "service" /\ Service!Next
        /\ UNCHANGED <<b, threadVars, syncVars, processVars, mqttVars>>
     \/ /\ part = "mqtt" /\ Mqtt!Next
        /\ UNCHANGED <<b, threadVars, syncVars, processVars, serviceVars>>

WaitingInit ==
  /\ part \in DOMAIN Allowed \cup {"future", "word", "all", "one", "blocking", "thread", "syncbuf",
                                   "process", "service", "mqtt"}
  /\ FutureInit
  /\ Word!Init
  /\ Blocking!Init /\ (part # "blocking" => b.kind = "normal")
  /\ Thread!Init /\ Syncbuf!Init /\ Process!Init /\ Service!Init /\ Mqtt!Init

WaitingNext == EventPart \/ FuturePart \/ WordPart \/ ProxyPart \/ PosixPart

\* The fairness of the FairSpec of each component.
WaitingFairness ==
  /\ \A t \in Threads : WF_vars(part = "broadcast" /\ Step(t))
  /\ WF_futureVars(part = "future" /\ SetterStep)
  /\ \A g \in Getters : WF_futureVars(part = "future" /\ GetterStep(g))
  /\ \A w \in {w1, w2} : WF_awVars(IF part = "word" THEN Word!WaiterStep(w)
                                                    ELSE Proxy!WaiterStep(w))
  /\ \A n \in {n1, n2} : WF_awVars(IF part = "word" THEN Word!WriterStep(n)
                                                    ELSE Proxy!WriterStep(n))
  /\ \A t \in {t1, t2, t3} : /\ WF_b(part = "blocking" /\ Blocking!Proceed(t))
                             /\ WF_b(part = "blocking" /\ Blocking!unlock(t))
  /\ \A i \in {1, 2, 3} : WF_threadVars(part = "thread" /\ Thread!Running(i))
  /\ \A h \in {h1, h2}, i \in {1, 2, 3} :
       /\ WF_threadVars(part = "thread" /\ Thread!pthread_join(h, i))
       /\ WF_threadVars(part = "thread" /\ Thread!InStart(h, i))
  /\ \A t \in {1, 2} : WF_syncVars(part = "syncbuf" /\ Syncbuf!Step(t))
  /\ \A k \in {1, 2} : WF_processVars(part = "process" /\ Process!KidFair(k))
  /\ \A h \in {"g", "h"}, k \in {1, 2} : WF_processVars(part = "process" /\ Process!InCall(h, k))
  /\ \A q \in 1..5 : WF_serviceVars(part = "service" /\ Service!Step(q))
  /\ \A c \in {"c", "d"} :
       /\ WF_mqttVars(part = "mqtt" /\ aborted = "no" /\ Mqtt!CallbackReturns(c))
       /\ SF_mqttVars(part = "mqtt" /\ aborted = "no" /\ Mqtt!LoopEnds(c))
       /\ WF_mqttVars(part = "mqtt" /\ aborted = "no" /\ (Mqtt!StopReturns(c) \/ Mqtt!Destroyed(c)))

WaitingSpec == WaitingInit /\ [][WaitingNext]_allVars /\ WaitingFairness

----------------------------------------------------------------------------
\* Every blocked thread returns after signal_all(), unless the event is reset.
EventWaits == []<>(part = "broadcast" => AllOut)

\* The event of a future is signalled when the result is there, not before, a get()
\* ends with what was set, and some getter gets it once the promise is fulfilled.
FutureSound ==
  /\ [](part = "future" => ResultBeforeSignal /\ GetsWhatWasSet)
  /\ []<>(part = "future" => Delivered)



\* However a thread races the one that starts it, its function object is destroyed
\* once, after it has run; every joinable thread has one handle; and join() and the
\* destructor return.
ThreadsSound == [](Thread!FunctionOnce /\ Thread!HandlesExact) /\ Thread!JoinReturns

\* The syncbufs of a streambuf share one mutex, lose nothing that is written, and
\* every call on them returns.
SyncbufsSound == [](Syncbuf!OneMutex /\ Syncbuf!NothingLost) /\ Syncbuf!CallsReturn



\* libmosquitto is initialised while a client uses it, a callback finds its function
\* and its client, and loop_stop() after a disconnect and the destructor return.
MqttClientSound == [](part = "mqtt" => Mqtt!MqttSound) /\ Mqtt!LoopStops
============================================================================
