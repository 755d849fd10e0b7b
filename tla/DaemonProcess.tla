---------------------------- MODULE DaemonProcess ----------------------------
(***************************************************************************)
(* The daemon as a process: its boot, its connections, its shutdown, and   *)
(* the commands of cu that start and stop it.  Two files tie them          *)
(* together: the socket a client connects to, and the admin credential     *)
(* without which nobody may stop the daemon.  Both outlive a daemon that   *)
(* is killed, both have one fixed path, and nothing locks them: two        *)
(* daemons whose lives overlap write over each other's files.              *)
(***************************************************************************)
EXTENDS Naturals

CONSTANTS Daemons,      \* daemon processes, each run once
          Clients,      \* processes that hold a connection
          Terminals,    \* processes that run a cu daemon command
          Absent,       \* there is no such file, or nobody
          Foreign,      \* a credential written by another build
          MaxInflight   \* bound: requests in flight on a connection

ASSUME DaemonAssumption ==
  /\ Absent \notin Daemons /\ Foreign \notin Daemons \union {Absent}
  /\ MaxInflight \in Nat

VARIABLES
  phase,       \* how far a daemon has got in serve_with
  socketFile,  \* whose listener the file at socket_path names
  credential,  \* whose admin credential is at admin_token_path
  crowded,     \* history: daemons whose life met another's, or a stop of another
  link,        \* the daemon a client is connected to
  reading,     \* handle_connection still reads this client's requests
  inflight,    \* its requests that have not been answered
  stuck,       \* the client does not read its answers
  verb,        \* what a terminal runs
  at,          \* how far it has got
  peer,        \* the daemon that took its connection
  have         \* the credential it loaded

linkVars     == <<link, reading, inflight, stuck>>
terminalVars == <<verb, at, peer, have>>
fileVars     == <<socketFile, credential>>
daemonVars   == <<phase, fileVars, crowded, linkVars, terminalVars>>

Phases   == {"off", "booting", "stored", "cleared", "serving", "stopping", "draining",
             "unlinking", "unlinked", "gone"}
Alive    == {d \in Daemons : phase[d] \notin {"off", "gone"}}
\* A daemon whose listener is open: the kernel queues a connection to it
\* whether or not the accept loop still runs.
Listens(d) == d \in Alive /\ phase[d] \notin {"booting", "stored", "cleared"}
Verbs == {"start", "stop", "restart", "status"}
Places   == {"idle", "probe", "probing", "spawn", "await", "asking", "load", "unsure",
             "identify", "identifying", "order", "ordering", "vanish"}

DaemonInit ==
  /\ phase = [d \in Daemons |-> "off"]
  /\ socketFile = Absent /\ credential \in {Absent, Foreign}
  /\ crowded = {}
  /\ link = [c \in Clients |-> Absent]
  /\ reading = [c \in Clients |-> FALSE]
  /\ inflight = [c \in Clients |-> 0]
  /\ stuck = [c \in Clients |-> FALSE]
  /\ verb = [t \in Terminals |-> "none"]
  /\ at = [t \in Terminals |-> "idle"]
  /\ peer = [t \in Terminals |-> Absent]
  /\ have = [t \in Terminals |-> Absent]

-----------------------------------------------------------------------------
(* serve_with, until it serves. *)

Advances(d, from, to) == phase[d] = from /\ phase' = [phase EXCEPT ![d] = to]
OnlyDaemon == UNCHANGED <<crowded, linkVars, terminalVars>>

\* validate_and_cleanup_admin_store, then save_daemon_admin_token_to: a
\* credential this build cannot read is removed, any other is replaced.
StoresCredential(d) ==
  /\ Advances(d, "booting", "stored") /\ credential' = d
  /\ UNCHANGED socketFile /\ OnlyDaemon

\* Mutant: a credential that cannot be stored is no reason to stop.
StartsAnyway(d) ==
  /\ Advances(d, "booting", "stored")
  /\ UNCHANGED fileVars /\ OnlyDaemon

\* It cannot be removed, or the new one cannot be written: refuse to start.
CannotStore(d) ==
  /\ Advances(d, "booting", "gone")
  /\ credential' \in {credential, IF credential = Foreign THEN Absent ELSE credential}
  /\ UNCHANGED socketFile /\ OnlyDaemon

\* Whatever is at the socket's path is taken for a previous run's.
ClearsSocket(d) ==
  /\ Advances(d, "stored", "cleared") /\ socketFile' = Absent
  /\ UNCHANGED credential /\ OnlyDaemon

Binds(d) ==
  /\ socketFile = Absent
  /\ Advances(d, "cleared", "serving") /\ socketFile' = d
  /\ UNCHANGED credential /\ OnlyDaemon

\* Another daemon has bound the path in between.
CannotBind(d) ==
  /\ socketFile # Absent
  /\ Advances(d, "cleared", "gone")
  /\ UNCHANGED fileVars /\ OnlyDaemon

-----------------------------------------------------------------------------
(* handle_connection *)

OnlyLinks == UNCHANGED <<phase, fileVars, crowded, terminalVars>>

ClientConnects(c) ==
  /\ link[c] = Absent /\ socketFile # Absent /\ phase[socketFile] = "serving"
  /\ link' = [link EXCEPT ![c] = socketFile]
  /\ reading' = [reading EXCEPT ![c] = TRUE]
  /\ UNCHANGED <<inflight, stuck>> /\ OnlyLinks

\* Each line is dispatched in a task of its own.
RequestRead(c) ==
  /\ link[c] # Absent /\ reading[c] /\ phase[link[c]] = "serving"
  /\ inflight[c] < MaxInflight
  /\ inflight' = [inflight EXCEPT ![c] = @ + 1]
  /\ UNCHANGED <<link, reading, stuck>> /\ OnlyLinks

\* dispatch returned or its deadline passed, and the line was written.
RequestAnswered(c) ==
  /\ inflight[c] > 0 /\ ~ stuck[c]
  /\ inflight' = [inflight EXCEPT ![c] = @ - 1]
  /\ UNCHANGED <<link, reading, stuck>> /\ OnlyLinks

\* The client leaves its answers unread until write_all blocks.
ClientSticks(c) ==
  /\ inflight[c] > 0 /\ ~ stuck[c]
  /\ stuck' = [stuck EXCEPT ![c] = TRUE]
  /\ UNCHANGED <<link, reading, inflight>> /\ OnlyLinks

\* The client closed its end, or the daemon shuts down.
ReadingEnds(c) ==
  /\ link[c] # Absent /\ reading[c]
  /\ reading' = [reading EXCEPT ![c] = FALSE]
  /\ UNCHANGED <<link, inflight, stuck>> /\ OnlyLinks

Drops(c) ==
  /\ link' = [link EXCEPT ![c] = Absent]
  /\ reading' = [reading EXCEPT ![c] = FALSE]
  /\ inflight' = [inflight EXCEPT ![c] = 0]
  /\ stuck' = [stuck EXCEPT ![c] = FALSE]
HandlerReturns(c) ==
  /\ link[c] # Absent /\ ~ reading[c] /\ inflight[c] = 0
  /\ Drops(c) /\ OnlyLinks

-----------------------------------------------------------------------------
(* serve_with, once app_shutdown is cancelled. *)

Remaining(d) == {c \in Clients : link[c] = d}

\* ctrl_c, in the daemon's own terminal.
CtrlC(d) ==
  /\ Advances(d, "serving", "stopping")
  /\ UNCHANGED fileVars /\ OnlyDaemon

\* runtime.shutdown: sessions stopped, the bridge released.
RuntimeStops(d) ==
  /\ Advances(d, "stopping", "draining")
  /\ UNCHANGED fileVars /\ OnlyDaemon

Drained(d) ==
  /\ Remaining(d) = {}
  /\ Advances(d, "draining", "unlinking")
  /\ UNCHANGED fileVars /\ OnlyDaemon

\* Mutant: connections are drained without a deadline.
NoGrace(d) == FALSE

\* What remains after the grace period is aborted.
GraceExpires(d) ==
  /\ Remaining(d) # {}
  /\ Advances(d, "draining", "unlinking")
  /\ link' = [c \in Clients |-> IF link[c] = d THEN Absent ELSE link[c]]
  /\ reading' = [c \in Clients |-> reading[c] /\ link[c] # d]
  /\ inflight' = [c \in Clients |-> IF link[c] = d THEN 0 ELSE inflight[c]]
  /\ stuck' = [c \in Clients |-> stuck[c] /\ link[c] # d]
  /\ UNCHANGED <<fileVars, crowded, terminalVars>>

\* The file at the path goes, whoever's it is.
RemovesSocket(d) ==
  /\ Advances(d, "unlinking", "unlinked") /\ socketFile' = Absent
  /\ UNCHANGED credential /\ OnlyDaemon

RemovesCredential(d) ==
  /\ Advances(d, "unlinked", "gone") /\ credential' = Absent
  /\ UNCHANGED socketFile /\ OnlyDaemon

\* SIGKILL, SIGTERM, a panic: nothing is removed.
DaemonDies(d) ==
  /\ d \in Alive
  /\ phase' = [phase EXCEPT ![d] = "gone"]
  /\ link' = [c \in Clients |-> IF link[c] = d THEN Absent ELSE link[c]]
  /\ reading' = [c \in Clients |-> reading[c] /\ link[c] # d]
  /\ inflight' = [c \in Clients |-> IF link[c] = d THEN 0 ELSE inflight[c]]
  /\ stuck' = [c \in Clients |-> stuck[c] /\ link[c] # d]
  /\ UNCHANGED <<fileVars, crowded, terminalVars>>

-----------------------------------------------------------------------------
(* cu daemon start | stop | restart | status *)

OnlyTerminals == UNCHANGED <<phase, fileVars, crowded, linkVars>>

CommandBegins(t) ==
  /\ at[t] = "idle"
  /\ \E k \in Verbs :
       /\ verb' = [verb EXCEPT ![t] = k]
       /\ at' = [at EXCEPT ![t] = IF k = "stop" THEN "load" ELSE "probe"]
  /\ UNCHANGED <<peer, have>> /\ OnlyTerminals

\* The request a terminal sends at each place, and the place it waits at.
Asks == [probe |-> "probing", await |-> "asking", unsure |-> "unsure",
         identify |-> "identifying", order |-> "ordering"]

\* UnixStream::connect succeeds when the file names an open listener.
Reachable == socketFile # Absent /\ Listens(socketFile)
TerminalConnects(t) ==
  /\ at[t] \in DOMAIN Asks /\ peer[t] = Absent /\ Reachable
  /\ peer' = [peer EXCEPT ![t] = socketFile]
  /\ at' = [at EXCEPT ![t] = Asks[at[t]]]
  /\ UNCHANGED <<verb, have>> /\ OnlyTerminals

\* ClientError::Connect: no file, or nobody listens at it.
Unreachable(t) == at[t] \in DOMAIN Asks /\ peer[t] = Absent /\ ~ Reachable
\* The daemon answers while its accept loop runs.  After that a connection
\* whose request was not read is closed, and one that was not accepted stays
\* open, unanswered, until the process ends.
Reached(t) == peer[t] # Absent /\ phase[peer[t]] = "serving"
Closes(t)  == peer[t] # Absent /\ phase[peer[t]] # "serving"
Hangs(t)   == Closes(t) /\ phase[peer[t]] # "gone"

\* After a stop only a restart is left with something to do: to start.
Proceeds(t, to) ==
  /\ at' = [at EXCEPT ![t] = to] /\ peer' = [peer EXCEPT ![t] = Absent]
  /\ have' = [have EXCEPT ![t] = IF to \in {"order", "vanish"} THEN @ ELSE Absent]
  /\ verb' = [verb EXCEPT ![t] = IF to = "idle" THEN "none"
                                 ELSE IF to = "probe" THEN "start" ELSE @]

\* daemon_start, daemon_restart and daemon_status begin with runtime.health.
ProbeAnswered(t) ==
  /\ at[t] = "probing" /\ Reached(t)
  /\ Proceeds(t, IF verb[t] = "restart" THEN "load" ELSE "idle")
  /\ OnlyTerminals

ProbeFails(t) ==
  /\ (at[t] = "probe" /\ Unreachable(t)) \/ (at[t] = "probing" /\ Closes(t))
  /\ Proceeds(t, IF verb[t] = "status" THEN "idle" ELSE "spawn")
  /\ OnlyTerminals

\* A daemon that is spawned into an empty house has it to itself.
Quiet == Alive = {} /\ \A t \in Terminals : at[t] \notin {"order", "ordering", "vanish"}
Spawned(d) ==
  /\ phase[d] = "off" /\ phase' = [phase EXCEPT ![d] = "booting"]
  /\ crowded' = IF Quiet THEN crowded ELSE crowded \union Alive \union {d}

LaunchesDaemon(t) ==
  /\ at[t] = "spawn" /\ Proceeds(t, "await")
  /\ \E d \in Daemons : Spawned(d)
  /\ UNCHANGED <<fileVars, linkVars>>

\* cu daemon run, by hand or by a service manager.
RunByHand(d) == Spawned(d) /\ UNCHANGED <<fileVars, linkVars, terminalVars>>

Healthy(t) ==
  /\ at[t] = "asking" /\ Reached(t)
  /\ Proceeds(t, "idle") /\ OnlyTerminals

\* One of the polls failed; the next one follows.
PollMisses(t) ==
  /\ at[t] = "asking" /\ Closes(t)
  /\ Proceeds(t, "await") /\ OnlyTerminals

\* Mutant: the daemon is polled for as long as it takes.
PollsForever(t) == FALSE

\* "daemon did not become healthy within 10s"
PollsExhausted(t) ==
  /\ at[t] = "await" /\ Unreachable(t)
  /\ Proceeds(t, "idle") /\ OnlyTerminals

-----------------------------------------------------------------------------
(* daemon_stop *)

Loads(t) ==
  /\ at[t] = "load" /\ credential \in Daemons
  /\ have' = [have EXCEPT ![t] = credential]
  /\ at' = [at EXCEPT ![t] = "identify"]
  /\ UNCHANGED <<verb, peer>> /\ OnlyTerminals

\* A file that cannot be read ends the command; no file leads to one probe.
LoadsNothing(t) ==
  /\ at[t] = "load" /\ credential \notin Daemons
  /\ Proceeds(t, IF credential = Absent THEN "unsure" ELSE "idle")
  /\ OnlyTerminals

\* The command goes on to start when it was a restart and this part of it
\* reported no error.
AfterStop(t) == IF verb[t] = "restart" THEN "probe" ELSE "idle"

NotRunning(t) ==
  /\ at[t] \in {"unsure", "identify"} /\ Unreachable(t)
  /\ Proceeds(t, AfterStop(t)) /\ OnlyTerminals

\* It answers and has no credential, it closes the connection, or it is
\* not the daemon the credential was written by.
StopRefused(t) ==
  /\ \/ at[t] = "unsure" /\ (Reached(t) \/ Closes(t))
     \/ at[t] = "identifying" /\ (Closes(t) \/ (Reached(t) /\ peer[t] # have[t]))
     \/ at[t] = "ordering" /\ (Closes(t) \/ (Reached(t) /\ peer[t] # have[t]))
  /\ Proceeds(t, "idle")
  /\ OnlyTerminals

Identified(t) ==
  /\ at[t] = "identifying" /\ Reached(t) /\ peer[t] = have[t]
  /\ Proceeds(t, "order")
  /\ OnlyTerminals

\* runtime.shutdown with the token of this very daemon.
Ordered(t) ==
  /\ at[t] = "ordering" /\ Reached(t) /\ peer[t] = have[t]
  /\ Proceeds(t, "vanish")
  /\ phase' = [phase EXCEPT ![peer[t]] = "stopping"]
  /\ UNCHANGED <<fileVars, crowded, linkVars>>

OrderUnreachable(t) ==
  /\ at[t] = "order" /\ Unreachable(t)
  /\ credential' = Absent
  /\ Proceeds(t, AfterStop(t))
  /\ UNCHANGED <<phase, socketFile, crowded, linkVars>>

\* The socket has disappeared, or three seconds have passed; whatever
\* credential is at the path goes.
StopReported(t) ==
  /\ at[t] = "vanish" /\ Proceeds(t, AfterStop(t))
  /\ credential' = Absent
  /\ UNCHANGED <<phase, socketFile, crowded, linkVars>>

-----------------------------------------------------------------------------
DaemonStep(d) ==
  \/ StoresCredential(d) \/ ClearsSocket(d) \/ Binds(d) \/ CannotBind(d)
  \/ RuntimeStops(d) \/ Drained(d) \/ GraceExpires(d)
  \/ RemovesSocket(d) \/ RemovesCredential(d)
TerminalStep(t) ==
  \/ TerminalConnects(t) \/ ProbeAnswered(t) \/ ProbeFails(t) \/ LaunchesDaemon(t)
  \/ Healthy(t) \/ PollMisses(t) \/ PollsExhausted(t)
  \/ Loads(t) \/ LoadsNothing(t) \/ NotRunning(t) \/ StopRefused(t) \/ Identified(t) \/ Ordered(t)
  \/ OrderUnreachable(t) \/ StopReported(t)
DaemonNext ==
  \/ \E d \in Daemons : DaemonStep(d) \/ CannotStore(d) \/ CtrlC(d) \/ DaemonDies(d)
                          \/ RunByHand(d)
  \/ \E c \in Clients : \/ ClientConnects(c) \/ RequestRead(c) \/ RequestAnswered(c)
                        \/ ClientSticks(c) \/ ReadingEnds(c) \/ HandlerReturns(c)
  \/ \E t \in Terminals : CommandBegins(t) \/ TerminalStep(t)

\* The daemon's own steps and a command's are code that runs until it
\* waits; the grace period and the polls are bounded by timers.  Nothing is
\* assumed of clients, of the user or of a crash.  A spawn is left out: the
\* model has only so many processes.
DaemonFairness ==
  /\ \A d \in Daemons : WF_daemonVars(DaemonStep(d))
  /\ \A t \in Terminals :
       WF_daemonVars(TerminalStep(t) /\ at[t] # "spawn" /\ ~ Hangs(t))
DaemonSpec == DaemonInit /\ [][DaemonNext]_daemonVars /\ DaemonFairness

-----------------------------------------------------------------------------
(* Properties. *)

\* Every variable has its type.
DaemonTypeOK ==
  /\ phase \in [Daemons -> Phases]
  /\ socketFile \in Daemons \union {Absent}
  /\ credential \in Daemons \union {Absent, Foreign}
  /\ crowded \in SUBSET Daemons
  /\ link \in [Clients -> Daemons \union {Absent}]
  /\ reading \in [Clients -> BOOLEAN]
  /\ inflight \in [Clients -> 0..MaxInflight]
  /\ stuck \in [Clients -> BOOLEAN]
  /\ verb \in [Terminals -> Verbs \union {"none"}]
  /\ at \in [Terminals -> Places]
  /\ peer \in [Terminals -> Daemons \union {Absent}]
  /\ have \in [Terminals -> Daemons \union {Absent, Foreign}]

\* A daemon that serves can be reached and stopped: the socket's path leads to
\* it and the credential on disk is its own, whatever earlier daemons left
\* behind when they were killed and whatever commands ran before.  It is not
\* so for daemons whose lives overlap (serve_with takes any socket for stale
\* and, on its way out, removes whatever files are there).
ServingIsStoppable ==
  \A d \in Daemons \ crowded :
    phase[d] = "serving" => socketFile = d /\ credential = d

\* A daemon that was told to stop comes to its end, also when a client never
\* reads the answers it is owed: the grace period of serve_with.
StopEnds == \A d \in Daemons : phase[d] = "stopping" ~> phase[d] = "gone"

\* Every cu daemon command returns, whatever the daemon does meanwhile: it may
\* refuse to start, be killed, or leave a connection hanging while it drains.
CommandsReturn ==
  \A t \in Terminals : at[t] \notin {"idle", "spawn"} ~> at[t] \in {"idle", "spawn"}

\* Nothing that was asked to end goes on for ever: neither a daemon that was
\* told to stop nor a command that waits for one.
StopsAndCommandsEnd == StopEnds /\ CommandsReturn

=============================================================================
