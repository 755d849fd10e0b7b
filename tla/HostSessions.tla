---------------------------- MODULE HostSessions ----------------------------
(***************************************************************************)
(* The programs that open sessions: the TypeScript client and its hosts    *)
(* (the MCP server, the Pi extension, a program of one's own), a one-shot  *)
(* cu command, and the credential files they share.                        *)
(*                                                                         *)
(* The daemon gives a session's tokens once, in its answer to start.       *)
(* Whoever takes that answer is alone able to stop the session, and until  *)
(* it is stopped nobody else can start one: a token that is dropped leaves *)
(* the desktop locked.  A call is a request, the daemon's handling of it   *)
(* and the answer's arrival, in three steps, and a host has several calls  *)
(* under way at once.                                                      *)
(***************************************************************************)
EXTENDS Naturals, FiniteSets

CONSTANTS Hosts,         \* processes with a ComputerUseClient
          Flows,         \* calls of ensureSession a host makes at once
          Tools,         \* calls of its computer_session tool
          Exit,          \* the stop it sends on its way out
          Cli,           \* a one-shot cu command
          Nobody,        \* the owner of a session not started yet
          MaxSessions,   \* bound: sessions started
          MaxRestarts    \* bound: restarts of the daemon

ASSUME HostAssumption ==
  /\ Flows \intersect Tools = {} /\ Exit \notin Flows \union Tools
  /\ Cli \notin Hosts /\ Nobody \notin Hosts \union {Cli}
  /\ MaxSessions \in Nat /\ MaxRestarts \in Nat

SessionIds  == 1..MaxSessions
NoId == 0
MaybeSession == SessionIds \union {NoId}
HostKinds == {"mcp", "pi", "app"}
Slots == Flows \union Tools \union {Exit}

VARIABLES
  hostKind,    \* what a host is
  state,       \* the daemon's sessions; "lost" after a restart
  starter,     \* history: who started each, and by which call
  lockHolder,  \* ControlLock::holder
  store,       \* sessions with a file in the credentials directory
  restarts,    \* how often the daemon was restarted
  wire,        \* ComputerUseClient::socket: not made yet, open, or closed
  cred,        \* ComputerUseClient::sessionCredential
  call,        \* what each of a host's calls is doing
  remembered,  \* sessionId of the Pi extension
  owns,        \* ownsSession
  life,        \* the host runs, is on its way out, or has exited
  calm,        \* history: its tool ran alone, no call was cut off, none failed
  cli,         \* how far the one-shot command has got
  cliSession,  \* the session it started
  auto,        \* AUTO_STARTED_SESSION
  handler,     \* how far its signal handler has got
  spared       \* history: it was neither signalled nor let down

hostVars == <<wire, cred, call, remembered, owns, life, calm>>
cliVars  == <<cli, cliSession, auto, handler, spared>>
serverVars == <<state, starter, lockHolder, restarts>>
sessionVars == <<hostKind, serverVars, store, hostVars, cliVars>>

Idle == [does |-> "nothing", on |-> NoId, says |-> "nothing"]
Ask(what, s) == [does |-> what, on |-> s, says |-> "nothing"]
Asked  == {"status", "summary", "start", "stop"}
Answers == {"nothing", "ok", "gone", "refused", "lost", "found", "free"}

HostInit ==
  /\ hostKind \in [Hosts -> HostKinds]
  /\ state = [s \in SessionIds |-> "none"]
  /\ starter = [s \in SessionIds |-> [who |-> Nobody, how |-> "none"]]
  /\ lockHolder = NoId /\ store = {} /\ restarts = 0
  /\ wire = [h \in Hosts |-> "none"]
  /\ cred = [h \in Hosts |-> NoId]
  /\ call = [h \in Hosts |-> [k \in Slots |-> Idle]]
  /\ remembered = [h \in Hosts |-> NoId]
  /\ owns = [h \in Hosts |-> FALSE]
  /\ life = [h \in Hosts |-> "running"]
  /\ calm = [h \in Hosts |-> TRUE]
  /\ cli = "idle" /\ cliSession = NoId /\ auto = NoId
  /\ handler = "none" /\ spared = TRUE

-----------------------------------------------------------------------------
(* The daemon, as its clients see it. *)

Fresh == {s \in SessionIds : state[s] = "none"}
NextSession == CHOOSE s \in Fresh : \A o \in Fresh : s <= o

\* computer.session start, by one that has no token.
Starts(who, how, s) ==
  /\ lockHolder = NoId /\ s \in Fresh /\ s = NextSession
  /\ state' = [state EXCEPT ![s] = "active"] /\ lockHolder' = s
  /\ starter' = [starter EXCEPT ![s] = [who |-> who, how |-> how]]
  /\ UNCHANGED restarts

\* Stop is idempotent: a stopped session is known and its token still good.
Stops(s) ==
  /\ state[s] \in {"active", "stopped"}
  /\ state' = [state EXCEPT ![s] = "stopped"]
  /\ lockHolder' = IF lockHolder = s THEN NoId ELSE lockHolder
  /\ UNCHANGED <<starter, restarts>>

Says(h, k, what) == call' = [call EXCEPT ![h][k].says = what]
Waits(h, k, what) == call[h][k].does = what /\ call[h][k].says = "nothing"
OnlyCall == UNCHANGED <<hostKind, store, wire, cred, remembered, owns, life, calm,
                        cliVars>>

StatusHandled(h, k) ==
  /\ Waits(h, k, "status")
  /\ Says(h, k, IF state[call[h][k].on] = "lost" THEN "gone" ELSE "ok")
  /\ UNCHANGED serverVars /\ OnlyCall

SummaryHandled(h, k) ==
  /\ Waits(h, k, "summary")
  /\ Says(h, k, IF lockHolder = NoId THEN "free" ELSE "found")
  /\ UNCHANGED serverVars /\ OnlyCall

StartHandled(h, k) ==
  /\ Waits(h, k, "start")
  /\ \E s \in SessionIds :
       /\ Starts(h, IF k \in Tools THEN "tool" ELSE "ensure", s)
       /\ call' = [call EXCEPT ![h][k] = [does |-> "start", on |-> s, says |-> "ok"]]
  /\ OnlyCall

\* CONTROL_LOCKED, with the holder's identity.
StartRefused(h, k) ==
  /\ Waits(h, k, "start") /\ lockHolder # NoId
  /\ call' = [call EXCEPT ![h][k] = [does |-> "start", on |-> lockHolder,
                                     says |-> "refused"]]
  /\ UNCHANGED serverVars /\ OnlyCall

StopHandled(h, k) ==
  /\ Waits(h, k, "stop")
  /\ \/ Stops(call[h][k].on) /\ Says(h, k, "ok")
     \/ /\ state[call[h][k].on] = "lost" /\ Says(h, k, "gone")
        /\ UNCHANGED serverVars
  /\ OnlyCall

\* Sessions and tokens die with the daemon; every connection is closed and
\* every call that has not been answered rejected.
DaemonRestarts ==
  /\ restarts < MaxRestarts /\ restarts' = restarts + 1
  /\ state' = [s \in SessionIds |-> IF state[s] = "none" THEN "none" ELSE "lost"]
  /\ lockHolder' = NoId
  /\ wire' = [h \in Hosts |-> IF wire[h] = "none" THEN "none" ELSE "closed"]
  /\ call' = [h \in Hosts |-> [k \in Slots |->
       IF call[h][k].does \in Asked /\ call[h][k].says = "nothing"
       THEN [call[h][k] EXCEPT !.says = "lost"] ELSE call[h][k]]]
  /\ calm' = [h \in Hosts |-> FALSE] /\ spared' = FALSE
  /\ UNCHANGED <<hostKind, starter, store, cred, remembered, owns, life,
                 cli, cliSession, auto, handler>>

-----------------------------------------------------------------------------
(* ComputerUseClient *)

OnlyHost == UNCHANGED <<hostKind, serverVars, cliVars>>
Quietly == UNCHANGED <<remembered, owns, life, calm>>
Runs(h) == life[h] = "running"
Ready(h, k) == Runs(h) /\ wire[h] # "none" /\ call[h][k] = Idle
\* The hosts create one client and keep it.  A program may connect it again
\* once its close event has settled what the old connection was asked.
Connects(h) ==
  /\ Runs(h)
  /\ \/ wire[h] = "none"
     \/ /\ wire[h] = "closed" /\ hostKind[h] = "app"
        /\ \A k \in Slots : call[h][k].says = "nothing"
  /\ wire' = [wire EXCEPT ![h] = "open"]
  /\ UNCHANGED <<store, cred, call>> /\ Quietly /\ OnlyHost

\* The answer of a call has arrived.
Got(h, k, what, says) ==
  life[h] # "exited" /\ call[h][k].does = what /\ call[h][k].says = says
\* A request of a client that is not connected is rejected on the spot.
Sends(h, k, what, s) ==
  call' = [call EXCEPT ![h][k] =
    IF wire[h] = "open" THEN Ask(what, s) ELSE [Ask(what, s) EXCEPT !.says = "lost"]]

\* The Pi extension answers from its own memory when its credential matches.
Cached(h) == hostKind[h] = "pi" /\ remembered[h] # NoId /\ remembered[h] = cred[h]
Resolving(h) == {k \in Flows : call[h][k].does \notin {"nothing", "joined"}}

\* ensureSession: a credential is tried with status, without one the public
\* summary is asked.
First(h) == IF cred[h] # NoId THEN "status" ELSE "summary"
EnsureAmongFlows(h) ==
  /\ calm' = [calm EXCEPT ![h] = @ /\ \A k \in Tools : call[h][k] = Idle]
  /\ UNCHANGED <<store, wire, cred, remembered, owns, life>> /\ OnlyHost
\* Mutant: a call does not join the one that is under way.
EnsureAlone(h, k) ==
  /\ Ready(h, k)
  /\ Sends(h, k, First(h), cred[h])
  /\ EnsureAmongFlows(h)

EnsureBegins(h, k) ==
  /\ Ready(h, k)
  /\ Resolving(h) = {} /\ ~ Cached(h)
  /\ Sends(h, k, First(h), cred[h])
  /\ EnsureAmongFlows(h)

\* ensureSessionPromise is set: share it.
EnsureJoins(h, k) ==
  /\ Ready(h, k) /\ Resolving(h) # {}
  /\ call' = [call EXCEPT ![h][k] = [Idle EXCEPT !.does = "joined"]]
  /\ UNCHANGED <<store, wire, cred>> /\ Quietly /\ OnlyHost

\* SESSION_NOT_FOUND: the credential is dropped.
StatusGone(h, k) ==
  /\ k \in Flows /\ Got(h, k, "status", "gone")
  /\ cred' = [cred EXCEPT ![h] = NoId]
  /\ Sends(h, k, "summary", NoId)
  /\ UNCHANGED <<store, wire>> /\ Quietly /\ OnlyHost

\* Policy "reject": whether or not there is a session, start decides.
SummaryArrives(h, k) ==
  /\ k \in Flows /\ (Got(h, k, "summary", "free") \/ Got(h, k, "summary", "found"))
  /\ Sends(h, k, "start", NoId)
  /\ UNCHANGED <<store, wire, cred>> /\ Quietly /\ OnlyHost

\* Everybody who shared the promise is answered with it.
Settled(h, k) ==
  call' = [call EXCEPT ![h] = [o \in Slots |->
             IF o = k \/ (o \in Flows /\ call[h][o].does = "joined")
             THEN Idle ELSE call[h][o]]]
\* Mutant: the session an observation started is not owned.
RecallsUnowned(h, s, c) ==
  /\ remembered' = [remembered EXCEPT ![h] = IF hostKind[h] = "pi" THEN s ELSE @]
  /\ UNCHANGED owns

\* What the extension keeps of it.
Recalls(h, s, c) ==
  IF hostKind[h] = "pi"
  THEN /\ remembered' = [remembered EXCEPT ![h] = s]
       /\ owns' = [owns EXCEPT ![h] = (c = s)]
  ELSE UNCHANGED <<remembered, owns>>

EnsureFinds(h, k) ==
  /\ k \in Flows /\ Got(h, k, "status", "ok")
  /\ Settled(h, k) /\ Recalls(h, call[h][k].on, cred[h])
  /\ UNCHANGED <<store, wire, cred, life, calm>> /\ OnlyHost

EnsureStarts(h, k) ==
  /\ k \in Flows /\ Got(h, k, "start", "ok")
  /\ cred' = [cred EXCEPT ![h] = call[h][k].on]
  /\ Settled(h, k) /\ Recalls(h, call[h][k].on, call[h][k].on)
  /\ UNCHANGED <<store, wire, life, calm>> /\ OnlyHost

EnsureFails(h, k) ==
  /\ k \in Flows /\ life[h] # "exited" /\ call[h][k].says \in {"refused", "lost"}
  /\ Settled(h, k)
  /\ UNCHANGED <<store, wire, cred>> /\ Quietly /\ OnlyHost

-----------------------------------------------------------------------------
(* The computer_session tool of a host. *)

ToolBegins(h) ==
  /\ calm' = [calm EXCEPT ![h] = @ /\ \A k \in Slots : call[h][k] = Idle]
  /\ UNCHANGED <<store, wire, cred, remembered, owns, life>>
ToolStarts(h, k) ==
  /\ k \in Tools /\ Ready(h, k)
  /\ Sends(h, k, "start", NoId)
  /\ ToolBegins(h) /\ OnlyHost

\* The control token rides along when it is the credential's session.
ToolStops(h, k) ==
  /\ k \in Tools /\ Ready(h, k) /\ cred[h] # NoId
  /\ Sends(h, k, "stop", cred[h])
  /\ ToolBegins(h) /\ OnlyHost

\* The MCP server also stores the tokens where cu finds them; that it may
\* fail is swallowed.
ToolStarted(h, k) ==
  /\ k \in Tools /\ Got(h, k, "start", "ok")
  /\ cred' = [cred EXCEPT ![h] = call[h][k].on]
  /\ call' = [call EXCEPT ![h][k] = Idle]
  /\ \/ hostKind[h] # "mcp" /\ Recalls(h, call[h][k].on, call[h][k].on)
        /\ UNCHANGED store
     \/ hostKind[h] = "mcp" /\ owns' = [owns EXCEPT ![h] = TRUE]
        /\ store' \in {store, store \union {call[h][k].on}}
        /\ UNCHANGED remembered
  /\ UNCHANGED <<wire, life, calm>> /\ OnlyHost

\* A stop's answer clears the credential only if it is still that session's.
Clears(h, s) == cred' = [cred EXCEPT ![h] = IF @ = s THEN NoId ELSE @]
ToolStopped(h, k) ==
  /\ k \in Tools /\ Got(h, k, "stop", "ok")
  /\ Clears(h, call[h][k].on)
  /\ call' = [call EXCEPT ![h][k] = Idle]
  /\ remembered' = [remembered EXCEPT ![h] = NoId]
  /\ owns' = [owns EXCEPT ![h] = FALSE]
  /\ UNCHANGED <<store, wire, life, calm>> /\ OnlyHost

ToolFails(h, k) ==
  /\ k \in Tools /\ life[h] # "exited" /\ call[h][k].says \in {"refused", "lost", "gone"}
  /\ call' = [call EXCEPT ![h][k] = Idle]
  /\ UNCHANGED <<store, wire, cred>> /\ Quietly /\ OnlyHost

\* SIGTERM of the MCP server, session_shutdown of the extension: stop what is
\* owned, then go.  What its other calls are doing is not waited for.
ExitBegins(h) ==
  /\ Runs(h) /\ hostKind[h] # "app"
  /\ life' = [life EXCEPT ![h] = "leaving"]
  /\ calm' = [calm EXCEPT ![h] = @ /\ \A k \in Slots : call[h][k] = Idle]
  /\ LET s == IF hostKind[h] = "pi" THEN remembered[h] ELSE cred[h] IN
     IF owns[h] /\ s # NoId THEN Sends(h, Exit, "stop", s) ELSE UNCHANGED call
  /\ UNCHANGED <<store, wire, cred, remembered, owns>> /\ OnlyHost

\* The answer has come; or, in the MCP server, three seconds have passed.
ExitEnds(h) ==
  /\ life[h] = "leaving" /\ (Waits(h, Exit, "stop") => hostKind[h] = "mcp")
  /\ life' = [life EXCEPT ![h] = "exited"]
  /\ calm' = [calm EXCEPT ![h] = @ /\ ~ Waits(h, Exit, "stop")]
  /\ wire' = [wire EXCEPT ![h] = "closed"]
  /\ cred' = [cred EXCEPT ![h] = NoId]
  /\ remembered' = [remembered EXCEPT ![h] = NoId]
  /\ owns' = [owns EXCEPT ![h] = FALSE]
  /\ UNCHANGED <<store, call>> /\ OnlyHost

-----------------------------------------------------------------------------
(* cu: the credential files, and a command that starts a session by itself. *)

OnlyCli == UNCHANGED <<hostKind, hostVars>>
CliGoes(from, to) == cli = from /\ cli' = to

\* resolve_session: session.summary, then start, unless a session is active.
CliResolves ==
  /\ CliGoes("idle", IF lockHolder = NoId THEN "starting" ELSE "over")
  /\ UNCHANGED <<serverVars, store, cliSession, auto, handler, spared>> /\ OnlyCli

CliStarted ==
  /\ CliGoes("starting", "granted")
  /\ \E s \in SessionIds : Starts(Cli, "cli", s) /\ cliSession' = s
  /\ UNCHANGED <<store, auto, handler, spared>> /\ OnlyCli

CliRefused ==
  /\ CliGoes("starting", "over") /\ lockHolder # NoId
  /\ UNCHANGED <<serverVars, store, cliSession, auto, handler, spared>> /\ OnlyCli

\* save_started_credential; a failure is a warning.
CliSaves ==
  /\ CliGoes("granted", "saved") /\ store' = store \union {cliSession}
  /\ UNCHANGED <<serverVars, cliSession, auto, handler, spared>> /\ OnlyCli
CliCannotSave ==
  /\ CliGoes("granted", "saved") /\ spared' = FALSE
  /\ UNCHANGED <<serverVars, store, cliSession, auto, handler>> /\ OnlyCli

CliRemembers ==
  /\ CliGoes("saved", "working") /\ auto' = cliSession
  /\ UNCHANGED <<serverVars, store, cliSession, handler, spared>> /\ OnlyCli

\* stop_auto_started: the static is taken, the token loaded and the stop sent.
CliTakes ==
  /\ CliGoes("working", IF auto = NoId \/ auto \notin store THEN "over" ELSE "stopping")
  /\ auto' = NoId
  /\ UNCHANGED <<serverVars, store, cliSession, handler, spared>> /\ OnlyCli

\* Whatever the daemon says, the file is deleted.
Dismissed(s) ==
  /\ IF state[s] = "lost" THEN UNCHANGED serverVars ELSE Stops(s)
  /\ store' = store \ {s}
CliStops ==
  /\ CliGoes("stopping", "over") /\ Dismissed(cliSession)
  /\ UNCHANGED <<cliSession, auto, handler, spared>> /\ OnlyCli

\* The request fails (the daemon closes the connection): deleted as well.
CliCannotStop ==
  /\ CliGoes("stopping", "over") /\ restarts > 0
  /\ store' = store \ {cliSession} /\ spared' = FALSE
  /\ UNCHANGED <<serverVars, cliSession, auto, handler>> /\ OnlyCli

\* SIGINT or SIGTERM: a task of its own does the same and exits the process,
\* which main may do first.
Signalled ==
  /\ cli \notin {"idle", "over"} /\ handler = "none"
  /\ handler' = IF auto = NoId \/ auto \notin store THEN "done" ELSE "stopping"
  /\ auto' = NoId /\ spared' = FALSE
  /\ UNCHANGED <<serverVars, store, cli, cliSession>> /\ OnlyCli

HandlerStops ==
  /\ handler = "stopping" /\ cli # "over" /\ handler' = "done"
  /\ Dismissed(cliSession)
  /\ UNCHANGED <<cli, cliSession, auto, spared>> /\ OnlyCli

HandlerExits ==
  /\ handler = "done" /\ cli # "over" /\ cli' = "over"
  /\ UNCHANGED <<serverVars, store, cliSession, auto, handler, spared>> /\ OnlyCli

\* cu session stop, with a stored token; the opencode adapter's cleanup
\* stops with each of them and leaves the files.
StoppedByFile(s, kept) ==
  /\ s \in store /\ Stops(s)
  /\ store' = IF kept THEN store ELSE store \ {s}
  /\ UNCHANGED cliVars /\ OnlyCli

\* prune_stale_credentials, in cu session status.
FilePruned(s) ==
  /\ s \in store /\ lockHolder = NoId
  /\ store' = store \ {s}
  /\ UNCHANGED <<serverVars, cliVars>> /\ OnlyCli

-----------------------------------------------------------------------------
HostStep(h) ==
  \/ Connects(h) \/ ExitBegins(h) \/ ExitEnds(h)
  \/ \E k \in Tools : \/ ToolStarts(h, k) \/ ToolStops(h, k) \/ ToolStarted(h, k)
                       \/ ToolStopped(h, k) \/ ToolFails(h, k)
CallStep(h, k) ==
  \/ StatusHandled(h, k) \/ SummaryHandled(h, k) \/ StartHandled(h, k)
  \/ StartRefused(h, k) \/ StopHandled(h, k)
FlowStep(h, k) ==
  \/ EnsureBegins(h, k) \/ EnsureJoins(h, k) \/ StatusGone(h, k) \/ SummaryArrives(h, k)
  \/ EnsureFinds(h, k) \/ EnsureStarts(h, k) \/ EnsureFails(h, k)
CliStep ==
  \/ CliResolves \/ CliStarted \/ CliRefused \/ CliSaves \/ CliCannotSave \/ CliRemembers
  \/ CliTakes \/ CliStops \/ CliCannotStop \/ Signalled \/ HandlerStops \/ HandlerExits
HostNext ==
  \/ \E h \in Hosts : \/ HostStep(h)
                      \/ \E k \in Slots : CallStep(h, k)
                      \/ \E k \in Flows : FlowStep(h, k)
  \/ CliStep \/ DaemonRestarts
  \/ \E s \in SessionIds : FilePruned(s) \/ \E kept \in BOOLEAN : StoppedByFile(s, kept)
HostSpec == HostInit /\ [][HostNext]_sessionVars

-----------------------------------------------------------------------------
(* Properties. *)

\* Every variable has its type.
HostTypeOK ==
  /\ hostKind \in [Hosts -> HostKinds]
  /\ state \in [SessionIds -> {"none", "active", "stopped", "lost"}]
  /\ starter \in [SessionIds -> [who : Hosts \union {Cli, Nobody},
                               how : {"none", "ensure", "tool", "cli"}]]
  /\ lockHolder \in MaybeSession /\ store \subseteq SessionIds
  /\ restarts \in 0..MaxRestarts
  /\ wire \in [Hosts -> {"none", "open", "closed"}]
  /\ cred \in [Hosts -> MaybeSession]
  /\ call \in [Hosts -> [Slots -> [does : Asked \union {"nothing", "joined"},
                                   on : MaybeSession, says : Answers]]]
  /\ remembered \in [Hosts -> MaybeSession]
  /\ owns \in [Hosts -> BOOLEAN]
  /\ life \in [Hosts -> {"running", "leaving", "exited"}]
  /\ calm \in [Hosts -> BOOLEAN]
  /\ cli \in {"idle", "starting", "granted", "saved", "working", "stopping", "over"}
  /\ cliSession \in MaybeSession /\ auto \in MaybeSession
  /\ handler \in {"none", "stopping", "done"} /\ spared \in BOOLEAN

\* The calls of one client share one session (the single-flight promise of
\* ensureSession).  None is refused with CONTROL_LOCKED because of the session
\* another of them has just started; and the token of a live session is never
\* dropped: the host that started it holds it, or is about to be given it, as
\* long as it runs, in whatever order the answers arrive.  A restart of the
\* daemon ends the second promise: StatusGone drops the credential that is
\* there when the answer comes, which a start may have replaced since the
\* question was sent.
NoSelfRefusal ==
  \A h \in Hosts, k \in Flows :
    call[h][k].says = "refused" => starter[call[h][k].on] # [who |-> h, how |-> "ensure"]

TokenHeld ==
  restarts = 0 =>
  \A s \in SessionIds, h \in Hosts :
    state[s] = "active" /\ starter[s].who = h /\ life[h] = "running"
      => \/ cred[h] = s
         \/ \E k \in Slots : call[h][k] = [does |-> "start", on |-> s, says |-> "ok"]

ConcurrentCallsShare == NoSelfRefusal /\ TokenHeld

\* What starts a session for its own use leaves none behind.  A one-shot command
\* does not, when it has ended, was not signalled and could store its credential.
OneShotLeavesNothing ==
  cli = "over" /\ spared /\ cliSession # NoId => state[cliSession] # "active"

\* The Pi extension leaves no session behind either, however the session came
\* to be (its tool, or the first observation), when its tool ran alone and
\* its shutdown finds no call under way; the MCP server none that its tool
\* started.
HostLeavesNothing ==
  \A h \in Hosts, s \in SessionIds :
    life[h] = "exited" /\ calm[h] /\ starter[s].who = h /\ state[s] = "active"
      => hostKind[h] = "mcp" /\ starter[s].how = "ensure"

NothingLeftBehind == OneShotLeavesNothing /\ HostLeavesNothing

=============================================================================
