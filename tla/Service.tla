------------------------------ MODULE Service -------------------------------
(***************************************************************************)
(* gpcl::service (posix_service): start() daemonises, waits for the        *)
(* daemon's word through a pipe and exits; the daemon writes the pid file, *)
(* installs its signal handlers and runs until a signal; stop() and        *)
(* restart() read the pid file and signal whom it names.  A daemon that    *)
(* is told to restart becomes the launcher of the next one.                *)
(*                                                                         *)
(* child1, which forks the daemon and exits, is part of the fork.  run()   *)
(* is the service's own code: here a loop until is_stopped().  The pid     *)
(* file is taken as module PidFile describes it, a held name.              *)
(***************************************************************************)
EXTENDS Integers, FiniteSets

CONSTANTS
  Procs,        \* process ids, positive numbers
  MaxCalls      \* how many calls of start(), stop() and restart() there are

VARIABLES
  s,            \* the processes
  pidfile,      \* [pid |-> the pid in it, 0 if there is no file; held |-> who has its lock]
  kills,        \* the signals that stop() and restart() are about to send
  calls

serviceVars == <<s, pidfile, kills, calls>>

Unborn == [pc |-> "unborn", up |-> 0, handler |-> FALSE, run |-> FALSE, need |-> FALSE,
           pipe |-> "none", told |-> "none", stop |-> FALSE]   \* stop: SIGTERM came while it ran, and no SIGHUP
Init ==
  /\ s = [p \in Procs |-> Unborn]
  /\ pidfile = [pid |-> 0, held |-> 0]
  /\ kills = {}
  /\ calls = 0

At(p, l) == s[p].pc = l
Alive(p) == s[p].pc \notin {"unborn", "gone"}
\* The next process id; ids are not used again.
Fresh == {p \in Procs : At(p, "unborn") /\ \A q \in Procs : At(q, "unborn") => p <= q}
\* A process ends: its lock goes with it, the pid file stays, and a launcher that
\* waits for it finds its pipe closed.
Ending(p, f) ==
  [q \in Procs |->
     IF q = p THEN [f[p] EXCEPT !.pc = "gone", !.handler = FALSE, !.run = FALSE, !.need = FALSE]
     ELSE IF q = f[p].up /\ f[q].pipe = "open" THEN [f[q] EXCEPT !.pipe = "closed"]
     ELSE f[q]]
Unheld(p) == [pidfile EXCEPT !.held = IF @ = p THEN 0 ELSE @]

-----------------------------------------------------------------------------
\* start()
Launch ==
  /\ calls < MaxCalls /\ calls' = calls + 1
  /\ \E p \in Fresh : s' = [s EXCEPT ![p].pc = "reset"]
  /\ UNCHANGED <<pidfile, kills>>
\* From l_restart to the pipe: pidfilefd_.reset() removes the file of a daemon that
\* restarts, and signals have their default actions again.
Reset(p) ==
  /\ At(p, "reset")
  /\ s' = [s EXCEPT ![p].pc = "fork", ![p].handler = FALSE]
  /\ pidfile' = IF pidfile.held = p THEN [pid |-> 0, held |-> 0] ELSE pidfile
  /\ UNCHANGED <<kills, calls>>
Fork(p) ==
  /\ At(p, "fork")
  /\ \E d \in Fresh :
       s' = [s EXCEPT ![p].pc = "wait", ![p].pipe = "open", ![d].pc = "child2", ![d].up = p]
  /\ UNCHANGED <<pidfile, kills, calls>>
\* close_all_fd(), what resets the signals and the environment, pipe2() or fork() fails:
\* start() throws.
ForkFails(p) ==
  /\ At(p, "fork") /\ s' = Ending(p, [s EXCEPT ![p].told = "error"])
  /\ UNCHANGED <<pidfile, kills, calls>>
\* parent(): what the daemon wrote, or the end of the pipe; then exit(0) or an exception.
ReadReturns(p) == s[p].pipe # "open"
Parent(p) ==
  /\ At(p, "wait") /\ ReadReturns(p)
  /\ s' = Ending(p, [s EXCEPT ![p].told = IF s[p].pipe = "success" THEN "success" ELSE "error"])
  /\ UNCHANGED <<pidfile, kills, calls>>

\* child1() and child2(): an error is written to the pipe; so is the refusal of the
\* pid file's lock while another daemon has it.
ChildFails(d) ==
  /\ At(d, "child2")
  /\ s' = Ending(d, [s EXCEPT ![s[d].up].pipe = IF @ = "open" THEN "error" ELSE @])
  /\ UNCHANGED <<pidfile, kills, calls>>
\* Mutant of Child2: the lock is not asked for.
Child2Unlocked(d) ==
  /\ At(d, "child2")
  /\ pidfile' = [pid |-> d, held |-> d]
  /\ s' = [s EXCEPT ![d].pc = "handlers"]
  /\ UNCHANGED <<kills, calls>>
Child2(d) ==
  /\ At(d, "child2") /\ pidfile.held = 0
  /\ pidfile' = [pid |-> d, held |-> d]
  /\ s' = [s EXCEPT ![d].pc = "handlers"]
  /\ UNCHANGED <<kills, calls>>
install_service_signal_handler(d) ==
  /\ At(d, "handlers")
  /\ s' = [s EXCEPT ![d].pc = "do_start", ![d].handler = TRUE]
  /\ UNCHANGED <<pidfile, kills, calls>>
\* do_start(): run_, then the word to the launcher.
do_start(d) ==
  /\ At(d, "do_start")
  /\ s' = [s EXCEPT ![d].pc = "notify", ![d].run = TRUE]
  /\ UNCHANGED <<pidfile, kills, calls>>
\* Writing to a pipe that nobody reads ends the process by SIGPIPE.
notify_success(d) ==
  /\ At(d, "notify")
  /\ IF Alive(s[d].up)
     THEN s' = [s EXCEPT ![d].pc = "run", ![s[d].up].pipe = "success"] /\ UNCHANGED pidfile
     ELSE s' = Ending(d, s) /\ pidfile' = Unheld(d)
  /\ UNCHANGED <<kills, calls>>
\* run() returns; then another start() or exit(0), which runs no destructor of the
\* service: the pid file stays.
run(d) ==
  /\ At(d, "run") /\ ~s[d].run
  /\ \/ s[d].need /\ s' = [s EXCEPT ![d].need = FALSE, ![d].pc = "reset"] /\ UNCHANGED pidfile
     \/ ~s[d].need /\ s' = Ending(d, s) /\ pidfile' = Unheld(d)
  /\ UNCHANGED <<kills, calls>>

-----------------------------------------------------------------------------
\* stop() and restart() read the pid; without a file stop() throws and restart() starts.
Request(sig) ==
  /\ calls < MaxCalls /\ calls' = calls + 1
  /\ pidfile.pid # 0 /\ kills' = kills \cup {[pid |-> pidfile.pid, sig |-> sig]}
  /\ UNCHANGED <<s, pidfile>>
\* The signal handler: do_stop() and do_restart().
gpcl_posix_service_signal_handler(p, sig) ==
  [s EXCEPT ![p].run = FALSE,
            ![p].need = @ \/ sig = "SIGHUP",
            ![p].stop = sig = "SIGTERM" /\ (@ \/ (At(p, "run") /\ ~s[p].need))]
\* kill(): the handler runs, or the default action ends the process; a process that is
\* gone already is reported, and restart() starts a new one.
Kill(k) ==
  /\ k \in kills /\ kills' = kills \ {k}
  /\ LET p == k.pid IN
     CASE s[p].handler -> s' = gpcl_posix_service_signal_handler(p, k.sig) /\ UNCHANGED pidfile
       [] ~s[p].handler /\ Alive(p) -> s' = Ending(p, s) /\ pidfile' = Unheld(p)
       [] OTHER -> /\ IF k.sig = "SIGHUP" THEN \E q \in Fresh : s' = [s EXCEPT ![q].pc = "reset"] ELSE UNCHANGED s
                   /\ UNCHANGED pidfile
  /\ UNCHANGED calls

Step(p) ==
  \/ Reset(p) \/ Fork(p) \/ Parent(p) \/ Child2(p) \/ (At(p, "child2") /\ pidfile.held # 0 /\ ChildFails(p))
  \/ install_service_signal_handler(p) \/ do_start(p) \/ notify_success(p) \/ run(p)
Fails(p) == ForkFails(p) \/ ChildFails(p)
Next ==
  \/ Launch \/ \E sig \in {"SIGTERM", "SIGHUP"} : Request(sig)
  \/ \E k \in kills : Kill(k)
  \/ \E p \in Procs : Step(p) \/ Fails(p)
Fairness == \A p \in Procs : WF_serviceVars(Step(p))
Spec == Init /\ [][Next]_serviceVars /\ Fairness

-----------------------------------------------------------------------------
Serving == {p \in Procs : s[p].pc \in {"handlers", "do_start", "notify", "run"}}
\* Whatever is launched, stopped, restarted or killed: at most one daemon serves, and
\* the pid file names it and is locked by it.
OneDaemon ==
  /\ Cardinality(Serving) <= 1
  /\ \A d \in Serving : pidfile = [pid |-> d, held |-> d]
\* A start() that ends well leaves a daemon that has got to its run(), one that throws
\* leaves none.
LauncherTold ==
  \A d \in Procs : s[d].up # 0 /\ s[s[d].up].told # "none" =>
    IF s[s[d].up].told = "success" THEN s[d].pc \notin {"child2", "handlers", "do_start", "notify"}
    ELSE At(d, "gone")
\* Every launcher comes to an end, also when its daemon is killed before it reports, and
\* SIGTERM ends a daemon that has reported success unless SIGHUP comes too.
StopStops == []<>(\A p \in Procs : ~At(p, "wait") /\ (s[p].stop => At(p, "gone")))
=============================================================================
