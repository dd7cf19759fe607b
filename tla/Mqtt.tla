-------------------------------- MODULE Mqtt --------------------------------
(***************************************************************************)
(* ext::mqtt: the count that initialises libmosquitto, the client, its     *)
(* callbacks and the thread loop_start runs them on.                       *)
(*                                                                         *)
(* Every guard of the count is an element of Guards: Main is the static    *)
(* guard of mqtt.ipp, alive from before main() to its return, and every    *)
(* client has one as its base class.  A client is used by one application  *)
(* thread and, between loop_start and the end of the loop, by the loop's   *)
(* thread.  The library itself is external: it may return any of Codes; it *)
(* runs a callback only when its hook is installed; its loop ends after a   *)
(* disconnect or when it is cancelled.                                     *)
(***************************************************************************)
EXTENDS Naturals

CONSTANTS
  Clients, Busy,   \* the clients, and those among them that connect
  Main,            \* the static guard, not a client
  Events           \* the events that have callbacks

VARIABLES init_count, lib, at, client, aborted

mqttVars == <<init_count, lib, at, client, aborted>>

Guards == Clients \cup {Main}
Codes == {"success", "nomem", "inval", "errno", "no_conn", "conn_lost",
          "protocol", "payload_size", "malformed_utf8", "oversize_packet", "other"}

\* Members and loop thread of a client: connect_called_; quit, a disconnect was
\* asked for; loop, its thread; forced, it was cancelled; running, the callback
\* it is in; fn and hook, per event, the std::function and the library's hook;
\* ev, the event whose callback is being set.
Fresh == [connect_called_ |-> FALSE, quit |-> FALSE, loop |-> "none",
          forced |-> FALSE, running |-> "none", ev |-> "none",
          fn |-> [e \in Events |-> "empty"], hook |-> [e \in Events |-> FALSE]]

Init ==
  /\ init_count = 0 /\ lib = "down"
  /\ at = [g \in Guards |-> "none"]
  /\ client = [c \in Clients |-> Fresh]
  /\ aborted = "no"

Go(g, s) == at' = [at EXCEPT ![g] = s]
Abort(why) == aborted' = why /\ UNCHANGED <<init_count, lib, at, client>>

-----------------------------------------------------------------------------
(* The guard: mqtt_init_guard, of a client and of the static object.        *)

\* Mutant: there is no static guard; the first client initialises the library.
NoStaticGuard(g) == g # Main

\* Static objects are made before main(), which makes the clients; none is
\* made once main() has returned.
MayStart(g) == g = Main \/ at[Main] = "guarded"

GuardAdd(g) ==
  /\ at[g] = "none" /\ MayStart(g)
  /\ init_count' = init_count + 1
  /\ Go(g, IF init_count = 0 THEN "initing" ELSE "guarded")
  /\ UNCHANGED <<lib, client, aborted>>

LibInit(g) ==
  /\ at[g] = "initing"
  /\ lib' = "up"
  /\ Go(g, "guarded")
  /\ UNCHANGED <<init_count, client, aborted>>

MainReturns ==
  /\ at[Main] = "guarded" /\ Go(Main, "leaving")
  /\ UNCHANGED <<init_count, lib, client, aborted>>

GuardSub(g) ==
  /\ at[g] = "leaving"
  /\ init_count' = init_count - 1
  /\ Go(g, IF init_count = 1 THEN "cleaning" ELSE "gone")
  /\ UNCHANGED <<lib, client, aborted>>

LibCleanup(g) ==
  /\ at[g] = "cleaning"
  /\ lib' = "down"
  /\ Go(g, "gone")
  /\ UNCHANGED <<init_count, client, aborted>>

-----------------------------------------------------------------------------
(* The client's application thread.                                         *)

Idle(c) == at[c] = "idle"

Update(c, r) ==
  /\ client' = [client EXCEPT ![c] = r]
  /\ UNCHANGED <<init_count, lib, aborted>>

\* client::client: without memory it throws, and the base class is destroyed.
New(c) ==
  /\ at[c] = "guarded"
  /\ \/ Go(c, "idle")
     \/ Go(c, "leaving")
  /\ UNCHANGED <<init_count, lib, client, aborted>>

\* One call of the library by c: success leaves done, one of the codes the
\* operation reports leaves failed, any other is GPCL_UNREACHABLE.
Result(c, reported, failed, done) ==
  \E code \in Codes :
    IF code \in reported \cup {"success"}
    THEN Update(c, IF code = "success" THEN done ELSE failed) /\ UNCHANGED at
    ELSE Abort("unreachable")

Plain(c, reported) == Result(c, reported, client[c], client[c])

set_will(c) == Plain(c, {"nomem", "payload_size"})

\* GPCL_VERIFY_(MOSQ_ERR_SUCCESS, ...): clear_will and the options.
Verified(c) == Plain(c, {})

\* Credentials and the protocol version are refused after a connect(), even
\* one that failed: connect_called_ is set before the library is called.
username_and_password(c) ==
  IF client[c].connect_called_ THEN Abort("assert") ELSE Plain(c, {"nomem"})

protocol_version(c) ==
  IF client[c].connect_called_ THEN Abort("assert") ELSE Verified(c)

Connecting(c, reported) ==
  LET m == [client[c] EXCEPT !.connect_called_ = TRUE]
  IN  Result(c, reported, m, [m EXCEPT !.quit = FALSE])

connect(c) == Connecting(c, {"errno"})

async_connect(c) == Connecting(c, {"errno", "inval"})

disconnect(c) ==
  Result(c, {"no_conn"}, client[c], [client[c] EXCEPT !.quit = TRUE])

reconnect(c) ==
  IF client[c].connect_called_
  THEN Result(c, {"nomem", "errno"}, client[c], [client[c] EXCEPT !.quit = FALSE])
  ELSE Abort("assert")

async_reconnect(c) == reconnect(c)

publish(c) == Plain(c, {"nomem", "no_conn", "protocol", "payload_size",
                        "malformed_utf8", "oversize_packet"})

subscribe(c) == Plain(c, {"nomem", "no_conn", "malformed_utf8", "oversize_packet"})

unsubscribe(c) == subscribe(c)

\* want_write, socket, loop_misc, loop_write, loop_read, loop_forever and the
\* overloads with properties end the program.
unimplemented == Abort("unimplemented")

Operate(c) ==
  /\ Idle(c) /\ c \in Busy
  /\ \/ set_will(c) \/ Verified(c) \/ username_and_password(c) \/ protocol_version(c)
     \/ connect(c) \/ async_connect(c) \/ disconnect(c)
     \/ reconnect(c) \/ async_reconnect(c)
     \/ publish(c) \/ subscribe(c) \/ unsubscribe(c) \/ unimplemented

\* The lambda installed for e: an empty std::function throws through the
\* library's C frames, and the program ends.
Invoke(c, e) ==
  IF client[c].fn[e] = "empty" THEN Abort("empty")
  ELSE IF client[c].fn[e] = "moving" THEN Abort("race")
  ELSE UNCHANGED <<init_count, lib, at, aborted>> /\
       client' = [client EXCEPT ![c].running = e]

\* poll(): one turn of the loop on this thread, with at most one callback.
poll(c) ==
  /\ Idle(c) /\ c \in Busy /\ client[c].loop = "none"
  /\ \/ Plain(c, {"nomem", "no_conn", "conn_lost", "protocol", "errno"})
     \/ \E e \in Events : client[c].hook[e] /\ client[c].fn[e] = "empty" /\ Abort("empty")

\* log_callback moves log_cb_ into itself, whatever it was given.
Stored(e, value) == IF e = "log" THEN "empty" ELSE value

Setting(c, e) ==
  /\ Idle(c) /\ c \in Busy
  /\ Go(c, IF client[c].hook[e] THEN "replacing" ELSE "setting")

\* Mutant: the hook is installed before the function is stored.
HookFirst(c, e) ==
  /\ Setting(c, e)
  /\ Update(c, [client[c] EXCEPT !.fn[e] = Stored(e, "moving"), !.ev = e,
                                 !.hook[e] = TRUE])

\* x_callback(f): the member is assigned, which another thread sees half done...
SetFunction(c, e) ==
  /\ Setting(c, e)
  /\ Update(c, [client[c] EXCEPT !.fn[e] = Stored(e, "moving"), !.ev = e])

\* ... then the hook is installed.
SetHook(c, e) ==
  /\ at[c] \in {"setting", "replacing"} /\ client[c].ev = e
  /\ Go(c, "idle")
  /\ Update(c, [client[c] EXCEPT !.fn[e] = Stored(e, "set"), !.ev = "none",
                                 !.hook[e] = TRUE])

\* loop_start(): a second loop is an error of the library, and unreachable.
loop_start(c) ==
  /\ Idle(c) /\ c \in Busy
  /\ IF client[c].loop # "none" THEN Abort("unreachable")
     ELSE Update(c, [client[c] EXCEPT !.loop = "running", !.forced = FALSE]) /\ UNCHANGED at

\* loop_stop(), loop_stop_force() and ~async_loop_guard: the thread is joined.
loop_stop(c, force) ==
  /\ Idle(c) /\ c \in Busy
  /\ IF client[c].loop = "none" THEN Abort("unreachable")
     ELSE /\ Go(c, "stopping")
          /\ Update(c, [client[c] EXCEPT !.forced = force])

StopReturns(c) ==
  /\ at[c] = "stopping" /\ client[c].loop = "ended"
  /\ Go(c, "idle")
  /\ Update(c, [client[c] EXCEPT !.loop = "none"])

\* Mutant: the members and the base are destroyed before the thread is joined.
DestroyEarly(c) ==
  Idle(c) /\ Go(c, "leaving") /\ Update(c, [client[c] EXCEPT !.forced = TRUE])

\* Mutant: the loop is joined without being told to end.
DestroyWaits(c) == Idle(c) /\ Go(c, "destroying") /\ Update(c, client[c])

\* ~client: mosquitto_destroy cancels and joins a running loop; then come the
\* members, then the base class.
Destroy(c) ==
  Idle(c) /\ Go(c, "destroying") /\ Update(c, [client[c] EXCEPT !.forced = TRUE])

Destroyed(c) ==
  /\ at[c] = "destroying" /\ client[c].loop \in {"none", "ended"}
  /\ Go(c, "leaving")
  /\ Update(c, [client[c] EXCEPT !.loop = "none"])

-----------------------------------------------------------------------------
(* The loop's thread, inside the library.                                   *)

Deliver(c, e) ==
  /\ client[c].loop = "running" /\ client[c].running = "none"
  /\ client[c].hook[e]
  /\ Invoke(c, e)

CallbackReturns(c) ==
  /\ client[c].running # "none"
  /\ Update(c, [client[c] EXCEPT !.running = "none"]) /\ UNCHANGED at

LoopEnds(c) ==
  /\ client[c].loop = "running" /\ client[c].running = "none"
  /\ client[c].quit \/ client[c].forced
  /\ Update(c, [client[c] EXCEPT !.loop = "ended"]) /\ UNCHANGED at

-----------------------------------------------------------------------------

Guard(g) == GuardAdd(g) \/ LibInit(g) \/ GuardSub(g) \/ LibCleanup(g)

App(c) ==
  \/ New(c) \/ Destroy(c) \/ Destroyed(c)
  \/ Operate(c) \/ poll(c) \/ loop_start(c) \/ StopReturns(c)
  \/ \E force \in BOOLEAN : loop_stop(c, force)
  \/ \E e \in Events : SetFunction(c, e) \/ SetHook(c, e)

Loop(c) == CallbackReturns(c) \/ LoopEnds(c) \/ \E e \in Events : Deliver(c, e)

Next ==
  /\ aborted = "no"
  /\ \/ MainReturns
     \/ \E g \in Guards : Guard(g)
     \/ \E c \in Clients : App(c) \/ Loop(c)

\* Callbacks return, the library ends a loop that was told to end, and the
\* application thread comes back from the join.
Fairness ==
  \A c \in Clients :
    /\ WF_mqttVars(aborted = "no" /\ CallbackReturns(c))
    /\ SF_mqttVars(aborted = "no" /\ LoopEnds(c))
    /\ WF_mqttVars(aborted = "no" /\ (StopReturns(c) \/ Destroyed(c)))

Spec == Init /\ [][Next]_mqttVars /\ Fairness

-----------------------------------------------------------------------------

\* LibraryUp: whoever may call the library, it has been initialised and not
\* cleaned up, whatever other clients come and go (mqtt.ipp:585-603).
LibraryUp == \A c \in Clients :
  at[c] \notin {"none", "initing", "leaving", "cleaning", "gone"} => lib = "up"

\* CallbackReady: a hook the library may call finds its function stored; the
\* two exceptions are log_callback, which never stores it, and a callback that
\* is being replaced while its hook is installed (mqtt.ipp:440-512).
CallbackReady == \A c \in Clients, e \in Events :
  client[c].hook[e] =>
    client[c].fn[e] = "set" \/ e = "log" \/ at[c] = "replacing"

\* MembersOutlive: no callback runs once the members of its client are being
\* destroyed (mqtt.ipp:59-62).
MembersOutlive == \A c \in Clients :
  at[c] \in {"leaving", "cleaning", "gone"} =>
    client[c].loop # "running" /\ client[c].running = "none"

\* LoopStops: after a disconnect loop_stop() returns; loop_stop_force() and the
\* destructor always do, unless the program ended.  Without a disconnect
\* loop_stop() waits, and so does ~async_loop_guard (mqtt.ipp:389-409).
LoopStops == []<>(aborted # "no" \/ \A c \in Clients :
  /\ at[c] # "destroying"
  /\ at[c] = "stopping" => ~client[c].quit /\ ~client[c].forced)

MqttSound == LibraryUp /\ CallbackReady /\ MembersOutlive

=============================================================================
