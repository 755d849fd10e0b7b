------------------------------ MODULE Authority ------------------------------
(***************************************************************************)
(* Which token admits which call.                                          *)
(*                                                                         *)
(* A start issues two capabilities, once: the control token, which changes *)
(* the session, and the observation token, which reads it.  The daemon     *)
(* keeps their hashes, in memory while it runs and in the manifest of the  *)
(* session's trace afterwards.  A call has a slot for each token, and the  *)
(* SDK fills the slots its caller left open from the one credential it     *)
(* holds, which comes from a start, a read-only attach or an attach with   *)
(* the control token.  A credential outlives stops, other starts and the   *)
(* daemon itself.                                                          *)
(*                                                                         *)
(* A call is sent and dispatched in two steps, so a stop or a restart can  *)
(* come in between; its answer arrives when it is dispatched.              *)
(***************************************************************************)
EXTENDS Naturals, FiniteSets

CONSTANTS Ids,        \* session ids
          Callers,    \* SDK clients
          NoneHeld, NoToken,
          SdkVersion, Versions,   \* the protocol the SDK speaks, those of daemons
          MaxUpgrades, MaxHandovers,  \* bounds: daemon restarts, tokens passed on
          MaxInFlight                 \* bound: calls that are not dispatched yet

ASSUME AuthorityAssumption ==
  /\ NoneHeld \notin Ids /\ NoToken \notin (Ids \cup {NoneHeld}) \X {"observation", "control"}
  /\ SdkVersion \in Versions
  /\ MaxUpgrades \in Nat /\ MaxHandovers \in Nat /\ MaxInFlight \in Nat

VARIABLES
  phase,      \* what the daemon knows of a session
  inManifest, \* the sessions whose trace has an access manifest
  version,    \* the protocol version of the daemon
  draining,   \* Runtime::is_shutting_down
  upgrades,   \* how often another daemon has started
  linked,     \* the clients that are connected
  credential, \* sessionCredential of each client, and where it came from
  request,    \* the request of a client that is not dispatched yet
  given,      \* the tokens a client or its user was given
  passed      \* how many tokens have been passed on

daemonVars == <<phase, inManifest, version, draining, upgrades>>
clientVars == <<linked, credential, request, given, passed>>
authorityVars == <<daemonVars, clientVars>>

Tokens == Ids \X {"observation", "control"}
Slot   == Tokens \cup {NoToken}
Origin == {"none", "start", "read_only", "control"}

\* "trace" stands for the five trace methods of one session, "desktop" for the
\* layout, the pointer and the active application, "act" for cancel, pause,
\* resume, takeover and release, and "status" for inspect, which needs no live
\* session either.
TraceReads   == {"trace"}
DesktopReads == {"desktop"}
Reading      == {"observe"} \cup TraceReads
Changing     == {"act", "stop"}
Ops          == Reading \cup DesktopReads \cup Changing \cup
                {"start", "attach_read_only", "attach_with_token", "ensure", "status"}

NoCred == [id |-> NoneHeld, obs |-> NoToken, ctl |-> NoToken, from |-> "none"]
NoCall == [op |-> "none", id |-> NoneHeld, obs |-> NoToken, ctl |-> NoToken, from |-> "none"]

\* A call with the tokens its caller gave.
Bare(op, s, obs, ctl) == [op |-> op, id |-> s, obs |-> obs, ctl |-> ctl, from |-> "none"]

Known(s) == phase[s] \in {"live", "stopped"}

NobodyLinked ==
  /\ version \in Versions /\ draining = FALSE /\ upgrades = 0
  /\ linked = {} /\ credential = [c \in Callers |-> NoCred]
  /\ request = [c \in Callers |-> NoCall] /\ given = [c \in Callers |-> {}]
  /\ passed = 0

AuthorityInit == phase = [s \in Ids |-> "unborn"] /\ inManifest = {} /\ NobodyLinked

(***************************************************************************)
(* The client.                                                             *)
(***************************************************************************)

\* Both ends check: the daemon that the advertised version is in its range,
\* which is its own version, and the SDK that the reported one is its own.
Linked(c) ==
  /\ c \notin linked /\ version = SdkVersion /\ ~draining
  /\ linked' = linked \cup {c}
  /\ UNCHANGED <<daemonVars, credential, request, given, passed>>

\* A user gives another client a token that was given to this one.
PassedOn(c, d, t) ==
  /\ passed < MaxHandovers /\ passed' = passed + 1
  /\ t \notin given[d] /\ given' = [given EXCEPT ![d] = @ \cup {t}]
  /\ UNCHANGED <<daemonVars, linked, credential, request>>

\* observationTokenFor: the control token stands in for a missing one.
ObservationOf(c) == IF credential[c].obs # NoToken THEN credential[c].obs ELSE credential[c].ctl

\* The slots filled whichever session the credential is for.
InjectedAnywhere(c, op, s) ==
  LET carry == [Bare(op, s, NoToken, NoToken) EXCEPT !.from = credential[c].from]
  IN  IF op \in Changing THEN [carry EXCEPT !.ctl = credential[c].ctl]
      ELSE [carry EXCEPT !.obs = ObservationOf(c)]

\* What the SDK puts into the slots: nothing where the caller gave a token,
\* and nothing of another session's credential.
Injected(c, op, s) ==
  LET own   == credential[c].id = s /\ s # NoneHeld
      open  == Bare(op, s, NoToken, NoToken)
      carry == [open EXCEPT !.from = credential[c].from]
  IN  IF op = "desktop" THEN [carry EXCEPT !.obs = ObservationOf(c)]
      ELSE IF ~own THEN open
      ELSE IF op \in Changing THEN [carry EXCEPT !.ctl = credential[c].ctl]
      ELSE [carry EXCEPT !.obs = ObservationOf(c)]

Sent(c, q) ==
  /\ c \in linked /\ request[c] = NoCall
  /\ Cardinality({d \in Callers : request[d] # NoCall}) < MaxInFlight
  /\ request' = [request EXCEPT ![c] = q]
  /\ UNCHANGED <<daemonVars, linked, credential, given, passed>>

\* A call that leaves its tokens to the SDK.
Calls(c, op, s) == Sent(c, Injected(c, op, s))

CallsDesktop(c) == Sent(c, Injected(c, "desktop", NoneHeld))

\* A call with an explicit token, in one of the slots.
CallsWith(c, op, s, slot, t) ==
  /\ op \in Changing => slot = "ctl"
  /\ Sent(c, Bare(op, s, IF slot = "obs" THEN t ELSE NoToken,
                         IF slot = "ctl" THEN t ELSE NoToken))

CallsStart(c) == Sent(c, Bare("start", NoneHeld, NoToken, NoToken))

\* ensureSession asks for the status of the credential's session first.
Ensures(c) ==
  /\ credential[c].id # NoneHeld
  /\ Sent(c, Injected(c, "ensure", credential[c].id))

AttachesReadOnly(c, s, t) ==
  Sent(c, Bare("attach_read_only", s, t, NoToken))

\* The session to attach to is the one session.summary names.
AttachesWithToken(c, s, t) ==
  /\ phase[s] = "live" /\ credential[c].id = NoneHeld
  /\ Sent(c, Bare("attach_with_token", s, NoToken, t))

(***************************************************************************)
(* The daemon.                                                             *)
(***************************************************************************)
TokenErrors == {"OBSERVATION_TOKEN_REQUIRED", "INVALID_OBSERVATION_TOKEN",
                "CONTROL_TOKEN_REQUIRED", "INVALID_CONTROL_TOKEN"}
Refusals == TokenErrors \cup {"SESSION_NOT_FOUND", "SESSION_STOPPED", "CONTROL_LOCKED",
                              "DAEMON_SHUTTING_DOWN"}

Missing(q) == q.obs = NoToken /\ q.ctl = NoToken

\* Each slot is compared with its own token only.
ReadHolds(s, q) == q.obs = <<s, "observation">> \/ q.ctl = <<s, "control">>

VerifyRead(s, q) ==
  IF ReadHolds(s, q) THEN "ok"
  ELSE IF Missing(q) THEN "OBSERVATION_TOKEN_REQUIRED" ELSE "INVALID_OBSERVATION_TOKEN"

VerifyControl(s, q) ==
  IF q.ctl = <<s, "control">> THEN "ok"
  ELSE IF q.ctl = NoToken THEN "CONTROL_TOKEN_REQUIRED" ELSE "INVALID_CONTROL_TOKEN"

\* The tokens of any session in memory, a stopped one too, read the desktop.
VerifyAny(q) ==
  IF \E s \in Ids : Known(s) /\ ReadHolds(s, q) THEN "ok"
  ELSE IF Missing(q) THEN "OBSERVATION_TOKEN_REQUIRED" ELSE "INVALID_OBSERVATION_TOKEN"

\* check_access: any slot is compared with both hashes.
ManifestAdmits(s, q) == {q.obs, q.ctl} \cap {<<s, "observation">>, <<s, "control">>} # {}

\* A session in memory verifies its own tokens; one of an earlier daemon is
\* looked up in its manifest.
TraceAccess(s, q) ==
  IF Known(s) THEN VerifyRead(s, q)
  ELSE IF s \notin inManifest THEN "SESSION_NOT_FOUND"
  ELSE IF ManifestAdmits(s, q) THEN "ok"
  ELSE IF Missing(q) THEN "OBSERVATION_TOKEN_REQUIRED" ELSE "INVALID_OBSERVATION_TOKEN"

\* A first refusal stands, else the next check decides.
Then(first, second) == IF first = "ok" THEN second ELSE first

WhenLive(s) == IF phase[s] = "live" THEN "ok" ELSE "SESSION_STOPPED"

Verdict(q) ==
  IF draining THEN "DAEMON_SHUTTING_DOWN"
  ELSE IF q.op = "start"
  THEN IF \E s \in Ids : phase[s] = "live" THEN "CONTROL_LOCKED" ELSE "ok"
  ELSE IF q.op \in DesktopReads THEN VerifyAny(q)
  ELSE IF q.op \in TraceReads THEN TraceAccess(q.id, q)
  ELSE IF ~Known(q.id) THEN "SESSION_NOT_FOUND"
  ELSE IF q.op = "stop" THEN VerifyControl(q.id, q)
  ELSE IF q.op \in Changing THEN Then(VerifyControl(q.id, q), WhenLive(q.id))
  ELSE IF q.op = "observe" THEN Then(VerifyRead(q.id, q), WhenLive(q.id))
  ELSE VerifyRead(q.id, q)

\* A call is dispatched and answered.
Dispatched(c, verdict) ==
  /\ c \in linked /\ request[c] # NoCall /\ verdict = Verdict(request[c])
  /\ request' = [request EXCEPT ![c] = NoCall]
  /\ UNCHANGED <<version, draining, upgrades, linked, passed>>

\* A start issues the tokens, and the SDK holds them in place of what it held.
DispatchStart(c, s) ==
  /\ request[c].op = "start" /\ Dispatched(c, "ok")
  /\ phase[s] = "unborn" /\ phase' = [phase EXCEPT ![s] = "live"]
  /\ inManifest' \in {inManifest, inManifest \cup {s}}
  /\ given' = [given EXCEPT ![c] = @ \cup {<<s, "observation">>, <<s, "control">>}]
  /\ credential' = [credential EXCEPT ![c] = [id |-> s, obs |-> <<s, "observation">>,
                                  ctl |-> <<s, "control">>, from |-> "start"]]

\* A stop ends the session; the SDK that asked drops its credential.
DispatchStop(c) ==
  /\ request[c].op = "stop" /\ Dispatched(c, "ok")
  /\ phase' = [phase EXCEPT ![request[c].id] = "stopped"]
  /\ credential' = [credential EXCEPT ![c] = IF @.id = request[c].id THEN NoCred ELSE @]
  /\ UNCHANGED <<inManifest, given>>

\* A read-only attach adopts the token it presented; an attach with the
\* control token puts it into both slots of the credential.
DispatchAttach(c) ==
  /\ request[c].op \in {"attach_read_only", "attach_with_token"} /\ Dispatched(c, "ok")
  /\ LET q == request[c] IN
       credential' = [credential EXCEPT ![c] =
         IF q.op = "attach_read_only"
         THEN [id |-> q.id, obs |-> q.obs, ctl |-> NoToken, from |-> "read_only"]
         ELSE [id |-> q.id, obs |-> q.ctl, ctl |-> q.ctl, from |-> "control"]]
  /\ UNCHANGED <<phase, inManifest, given>>

\* Any other answer changes nothing but a credential whose session is gone.
DispatchOther(c) ==
  /\ request[c] # NoCall
  /\ \E v \in {"ok"} \cup Refusals :
       /\ v = "ok" => request[c].op \notin
            {"start", "stop", "attach_read_only", "attach_with_token"}
       /\ Dispatched(c, v)
       /\ credential' = [credential EXCEPT ![c] =
            IF request[c].op = "ensure" /\ v = "SESSION_NOT_FOUND" THEN NoCred ELSE @]
  /\ UNCHANGED <<phase, inManifest, given>>

\* The daemon is told to stop: its sessions are stopped.
Drains ==
  /\ ~draining /\ draining' = TRUE
  /\ phase' = [s \in Ids |-> IF phase[s] = "live" THEN "stopped" ELSE phase[s]]
  /\ UNCHANGED <<inManifest, version, upgrades, clientVars>>

\* The daemon ends, drained or not, and another starts: connections and the
\* requests on them are gone, and so are the sessions.
DaemonReplaced(v) ==
  /\ upgrades < MaxUpgrades /\ upgrades' = upgrades + 1
  /\ version' = v /\ draining' = FALSE
  /\ phase' = [s \in Ids |-> IF phase[s] = "unborn" THEN "unborn" ELSE "lost"]
  /\ linked' = {} /\ request' = [c \in Callers |-> NoCall]
  /\ UNCHANGED <<inManifest, credential, given, passed>>

AuthorityNext ==
  \/ \E c \in Callers :
       \/ Linked(c) \/ CallsDesktop(c) \/ CallsStart(c) \/ Ensures(c)
       \/ DispatchStop(c) \/ DispatchAttach(c) \/ DispatchOther(c)
  \/ \E c \in Callers, s \in Ids :
       \/ DispatchStart(c, s)
       \/ \E op \in Reading \cup Changing : Calls(c, op, s)
       \/ \E t \in given[c] : AttachesReadOnly(c, s, t) \/ AttachesWithToken(c, s, t)
       \/ \E t \in given[c], op \in Reading \cup Changing, slot \in {"obs", "ctl"} :
            CallsWith(c, op, s, slot, t)
  \/ \E c, d \in Callers : \E t \in given[c] : PassedOn(c, d, t)
  \/ Drains
  \/ \E v \in Versions : DaemonReplaced(v)

AuthoritySpec == AuthorityInit /\ [][AuthorityNext]_authorityVars

(***************************************************************************)
(* Properties.                                                             *)
(***************************************************************************)
Calling == [op : Ops \cup {"none"}, id : Ids \cup {NoneHeld}, obs : Slot, ctl : Slot, from : Origin]

\* Every variable has its type.
AuthorityTypeOK ==
  /\ phase \in [Ids -> {"unborn", "live", "stopped", "lost"}] /\ inManifest \subseteq Ids
  /\ version \in Versions /\ draining \in BOOLEAN
  /\ upgrades \in 0..MaxUpgrades /\ passed \in 0..MaxHandovers
  /\ linked \subseteq Callers
  /\ credential \in [Callers -> [id : Ids \cup {NoneHeld}, obs : Slot, ctl : Slot, from : Origin]]
  /\ request \in [Callers -> Calling] /\ given \in [Callers -> SUBSET Tokens]

\* A call that is served was entitled to it: whoever changes a session was
\* given its control token, whoever reads a session was given one of its
\* tokens, whoever reads the desktop one of some session's.
ServedIsEntitled(c) ==
  Verdict(request[c]) = "ok" =>
    /\ request[c].op \in Changing \cup {"attach_with_token"} =>
         <<request[c].id, "control">> \in given[c]
    /\ request[c].op \in Reading \cup {"attach_read_only", "ensure"} =>
         \E k \in {"observation", "control"} : <<request[c].id, k>> \in given[c]
    /\ request[c].op = "desktop" => given[c] # {}

\* A call whose tokens the SDK filled in from a credential of its own start is
\* never refused for its tokens, while the daemon that issued them runs; one
\* from a read-only attach is refused only where it would change the session.
HoldersAreServed(c) ==
  Verdict(request[c]) \in TokenErrors =>
    /\ request[c].from = "start" => request[c].op = "desktop" /\ upgrades > 0
    /\ request[c].from = "read_only" =>
         (request[c].op \in Changing \/ (request[c].op = "desktop" /\ upgrades > 0))

Answered(c) == request[c] # NoCall /\ request'[c] = NoCall /\ linked' = linked

\* The two together: tokens and grants agree, across attaches, stops and
\* restarts, and only clients of the daemon's protocol version are connected
\* (verify_read_tokens, verify_control_token, verify_any_token,
\* verify_trace_access; the SDK's injection of its credential).
CallsMatchGrants ==
  [][\A c \in Callers :
       Answered(c) =>
         ServedIsEntitled(c) /\ HoldersAreServed(c) /\ version = SdkVersion]_authorityVars

=============================================================================
