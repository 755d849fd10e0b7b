------------------------ MODULE RequestCancellation ------------------------
(***************************************************************************)
(* How a computer.act request is cancelled precisely, from end to end: the *)
(* SDK client with its pending requests, deadlines and abort signals; the  *)
(* daemon, which serves every request in a task of its own; and the        *)
(* RequestRegistry, which finds the request a computer.cancel names by     *)
(* connection and request id.                                              *)
(*                                                                         *)
(* Requests of one connection are dispatched concurrently, so a cancel may *)
(* reach the registry before the act it names has registered, or after it  *)
(* has ended.  The client knows the ids it is going to use, so cancel()    *)
(* may even be called before the act is sent.                              *)
(*                                                                         *)
(* Left out: a client that connects again after close() (the daemon gives  *)
(* it a new connection id, so its keys are new), and clients that are not  *)
(* the SDK and use an id again.                                            *)
(***************************************************************************)
EXTENDS Naturals, FiniteSets

CONSTANTS Acts,           \* computer.act requests of the clients
          Connections,    \* one SDK client each
          Conn, Id,       \* connection and JSON-RPC id of each act
          MaxTombstones,  \* MAX_TOMBSTONES
          None            \* no act

\* A client numbers its requests upwards and never uses an id again.
ASSUME RequestCancellationAssumption ==
  /\ IsFiniteSet(Acts) /\ None \notin Acts
  /\ Conn \in [Acts -> Connections]
  /\ DOMAIN Id = Acts
  /\ \A a, b \in Acts : Conn[a] = Conn[b] /\ Id[a] = Id[b] => a = b
  /\ MaxTombstones \in Nat

\* Who sent a cancel: the timeout handler, an abort signal, a call of cancel().
Origins == {"timeout", "abort", "user"}

VARIABLES
  phase,       \* client: the act's promise
  settles,     \* client: how often that promise was settled
  confirmed,   \* client: runtimeCancellationConfirmed was reported
  closed,      \* connections that are gone
  at,          \* daemon: how far the act has got
  reply,       \* the act's response is on its way
  fired,       \* the act's token was cancelled through the registry
  handles,     \* RequestRegistry: the act registered under a key
  tombstones,  \* RequestRegistry: keys cancelled before registration
  cancel,      \* what became of each cancel request
  early,       \* history: acts whose cancel came before they registered
  evicted      \* history: keys whose tombstone was thrown out

clientVars   == <<phase, settles, confirmed>>
registryVars == <<fired, handles, tombstones>>
historyVars  == <<early, evicted>>
vars == <<clientVars, closed, at, reply, registryVars, cancel, historyVars>>

Phases  == {"unsent", "pending", "confirming", "settled"}
Points  == {"none", "received", "queued", "running", "ended"}
Cancels == {"none", "sent", "true", "false", "refused"}

\* Mutant: requests are found by their id alone.
KeyById(a) == Id[a]

\* RequestKey.
Key(a) == <<Conn[a], Id[a]>>

Keys == {Key(a) : a \in Acts}

Init ==
  /\ phase = [a \in Acts |-> "unsent"]
  /\ settles = [a \in Acts |-> 0]
  /\ confirmed = [a \in Acts |-> FALSE]
  /\ closed = {}
  /\ at = [a \in Acts |-> "none"]
  /\ reply = [a \in Acts |-> FALSE]
  /\ fired = [a \in Acts |-> FALSE]
  /\ handles = [k \in Keys |-> None]
  /\ tombstones = {}
  /\ cancel = [a \in Acts |-> [o \in Origins |-> "none"]]
  /\ early = {}
  /\ evicted = {}

Open(a) == Conn[a] \notin closed

-----------------------------------------------------------------------------
(* The client (sdk-typescript).                                            *)

Send(a) ==
  /\ Open(a) /\ phase[a] = "unsent"
  /\ phase' = [phase EXCEPT ![a] = "pending"]
  /\ UNCHANGED <<settles, confirmed, closed, at, reply, registryVars, cancel,
                 historyVars>>

Settle(a) ==
  /\ phase' = [phase EXCEPT ![a] = "settled"]
  /\ settles' = [settles EXCEPT ![a] = @ + 1]

\* Mutant: an answer settles the promise whether or not it is pending.
AnswerAnyway(a) ==
  /\ Open(a) /\ reply[a]
  /\ reply' = [reply EXCEPT ![a] = FALSE]
  /\ Settle(a)
  /\ UNCHANGED <<confirmed, closed, at, registryVars, cancel, historyVars>>

\* dispatchLine: the response of a request that is not pending is dropped.
Answer(a) ==
  /\ Open(a) /\ reply[a]
  /\ reply' = [reply EXCEPT ![a] = FALSE]
  /\ \/ phase[a] = "pending" /\ Settle(a)
     \/ phase[a] # "pending" /\ UNCHANGED <<phase, settles>>
  /\ UNCHANGED <<confirmed, closed, at, registryVars, cancel, historyVars>>

\* The write of the request fails.
WriteFails(a) ==
  /\ Open(a) /\ phase[a] = "pending"
  /\ Settle(a)
  /\ UNCHANGED <<confirmed, closed, at, reply, registryVars, cancel,
                 historyVars>>

\* The abort signal: settle, and send a cancel nobody waits for, if the client
\* holds the control token.
Abort(a) ==
  /\ Open(a) /\ phase[a] = "pending"
  /\ Settle(a)
  /\ \/ cancel' = [cancel EXCEPT ![a]["abort"] = "sent"]
     \/ UNCHANGED cancel
  /\ UNCHANGED <<confirmed, closed, at, reply, registryVars, historyVars>>

\* The deadline: the act is no longer pending; with the token at hand the
\* promise waits for the answer to a cancel.
Timeout(a) ==
  /\ Open(a) /\ phase[a] = "pending"
  /\ \/ /\ phase' = [phase EXCEPT ![a] = "confirming"]
        /\ cancel' = [cancel EXCEPT ![a]["timeout"] = "sent"]
        /\ UNCHANGED settles
     \/ Settle(a) /\ UNCHANGED cancel
  /\ UNCHANGED <<confirmed, closed, at, reply, registryVars, historyVars>>

\* The cancel's answer is in: report the timeout, and whether it confirmed.
Confirm(a) ==
  /\ Open(a) /\ phase[a] = "confirming"
  /\ cancel[a]["timeout"] \in {"true", "false", "refused"}
  /\ Settle(a)
  /\ confirmed' = [confirmed EXCEPT ![a] = cancel[a]["timeout"] = "true"]
  /\ UNCHANGED <<closed, at, reply, registryVars, cancel, historyVars>>

\* Mutant: the cancel has no deadline of its own.
GiveUpNever(a) == FALSE /\ UNCHANGED vars

\* cancelGracePeriodMs is over: report the timeout unconfirmed.
GiveUp(a) ==
  /\ Open(a) /\ phase[a] = "confirming"
  /\ Settle(a)
  /\ UNCHANGED <<confirmed, closed, at, reply, registryVars, cancel,
                 historyVars>>

\* client.cancel({request_id}) for any act of this connection.
UserCancel(a) ==
  /\ Open(a) /\ cancel[a]["user"] = "none"
  /\ cancel' = [cancel EXCEPT ![a]["user"] = "sent"]
  /\ UNCHANGED <<clientVars, closed, at, reply, registryVars, historyVars>>

\* close(), or the daemon is gone: everything that waits is rejected, first
\* the cancels, whose rejection settles their acts unconfirmed.
Close(c) ==
  LET waiting == {a \in Acts :
                   Conn[a] = c /\ phase[a] \in {"pending", "confirming"}}
  IN
  /\ c \notin closed
  /\ closed' = closed \cup {c}
  /\ phase' = [a \in Acts |-> IF a \in waiting THEN "settled" ELSE phase[a]]
  /\ settles' = [a \in Acts |-> IF a \in waiting THEN settles[a] + 1
                                ELSE settles[a]]
  /\ UNCHANGED <<confirmed, at, reply, registryVars, cancel, historyVars>>

-----------------------------------------------------------------------------
(* The daemon.  What was sent is read before the end of the connection is, *)
(* or lost with it; a request that was read outlives its connection.       *)

Receive(a) ==
  /\ phase[a] # "unsent" /\ at[a] = "none"
  /\ at' = [at EXCEPT ![a] = "received"]
  /\ UNCHANGED <<clientVars, closed, reply, registryVars, cancel, historyVars>>

\* Refused before it registered: token, session state, parameters.
Refuse(a) ==
  /\ at[a] = "received"
  /\ at' = [at EXCEPT ![a] = "ended"]
  /\ reply' = [reply EXCEPT ![a] = TRUE]
  /\ UNCHANGED <<clientVars, closed, registryVars, cancel, historyVars>>

\* Mutant: registration does not look for a tombstone.
RegisterForgetful(a) ==
  /\ at[a] = "received"
  /\ at' = [at EXCEPT ![a] = "queued"]
  /\ handles' = [handles EXCEPT ![Key(a)] = a]
  /\ UNCHANGED <<clientVars, closed, reply, fired, tombstones, cancel,
                 historyVars>>

\* RequestRegistry::register: consume the tombstone, if there is one.
Register(a) ==
  /\ at[a] = "received"
  /\ at' = [at EXCEPT ![a] = "queued"]
  /\ fired' = [fired EXCEPT ![a] = @ \/ Key(a) \in tombstones]
  /\ tombstones' = tombstones \ {Key(a)}
  /\ handles' = [handles EXCEPT ![Key(a)] = a]
  /\ UNCHANGED <<clientVars, closed, reply, cancel, historyVars>>

\* The busy lock is free and the token has not fired.
Start(a) ==
  /\ at[a] = "queued" /\ ~fired[a]
  /\ at' = [at EXCEPT ![a] = "running"]
  /\ UNCHANGED <<clientVars, closed, reply, registryVars, cancel, historyVars>>

\* Mutant: the handle outlives the request.
EndLeaks(a) ==
  /\ at[a] \in {"queued", "running"}
  /\ at' = [at EXCEPT ![a] = "ended"]
  /\ reply' = [reply EXCEPT ![a] = TRUE]
  /\ UNCHANGED <<clientVars, closed, registryVars, cancel, historyVars>>

\* The batch ran, failed, was cancelled for whatever reason, or was dropped by
\* the daemon's deadline: BatchScope unregisters it, and the answer is written.
End(a) ==
  /\ at[a] \in {"queued", "running"}
  /\ at' = [at EXCEPT ![a] = "ended"]
  /\ handles' = [handles EXCEPT ![Key(a)] = None]
  /\ reply' = [reply EXCEPT ![a] = TRUE]
  /\ UNCHANGED <<clientVars, closed, fired, tombstones, cancel, historyVars>>

\* Mutant: a cancel that found nothing is acknowledged too.
ReportedAnyway(k) == "true"

\* The `cancelled' of the answer: whether a live request was found.
Reported(k) == IF handles[k] # None THEN "true" ELSE "false"

\* Mutant: the set is never trimmed.
RememberedAll(k) == {tombstones \cup {k}}

\* The tombstones with k: over the limit, whichever the hash set yields first
\* is thrown out.
Remembered(k) ==
  LET all == tombstones \cup {k} IN
  IF Cardinality(all) > MaxTombstones THEN {all \ {t} : t \in all} ELSE {all}

\* The lines of a connection are read in order: what the client sends after
\* the act is dispatched after it.  cancel() may have been called before.
Dispatched(a, o) == cancel[a][o] = "sent" /\ (o = "user" \/ at[a] # "none")

\* RequestRegistry::cancel.  A cancel that finds no handle does not ask which
\* session it was meant for.
CancelLands(a, o) ==
  LET k == Key(a) IN
  /\ Dispatched(a, o)
  /\ cancel' = [cancel EXCEPT ![a][o] = Reported(k)]
  /\ \/ /\ handles[k] # None
        /\ fired' = [fired EXCEPT ![handles[k]] = TRUE]
        /\ UNCHANGED <<tombstones, evicted>>
     \/ /\ handles[k] = None
        /\ tombstones' \in Remembered(k)
        /\ evicted' = evicted \cup ((tombstones \cup {k}) \ tombstones')
        /\ UNCHANGED fired
  /\ early' = IF at[a] \in {"none", "received"} THEN early \cup {a} ELSE early
  /\ UNCHANGED <<clientVars, closed, at, reply, handles>>

\* The session is stopped, or it is not the session of the request found.
CancelRefused(a, o) ==
  /\ Dispatched(a, o)
  /\ cancel' = [cancel EXCEPT ![a][o] = "refused"]
  /\ UNCHANGED <<clientVars, closed, at, reply, registryVars, historyVars>>

-----------------------------------------------------------------------------
ClientStep(a) ==
  \/ Send(a) \/ WriteFails(a) \/ Answer(a) \/ Abort(a)
  \/ Timeout(a) \/ Confirm(a) \/ GiveUp(a) \/ UserCancel(a)

DaemonStep(a) ==
  \/ Receive(a) \/ Refuse(a) \/ Register(a) \/ Start(a) \/ End(a)
  \/ \E o \in Origins : CancelLands(a, o) \/ CancelRefused(a, o)

Next ==
  \/ \E a \in Acts : ClientStep(a) \/ DaemonStep(a)
  \/ \E c \in Connections : Close(c)

Spec == Init /\ [][Next]_vars

\* Timers fire.  Nothing is assumed of the daemon or of the connection.
FairSpec == Spec /\ \A a \in Acts : WF_vars(Timeout(a)) /\ WF_vars(GiveUp(a))

-----------------------------------------------------------------------------
(* Properties.                                                             *)

\* The types of the variables; the tombstones stay within their limit however
\* many cancels miss (RequestRegistry::cancel).
TypeOK ==
  /\ phase \in [Acts -> Phases]
  /\ settles \in [Acts -> Nat]
  /\ confirmed \in [Acts -> BOOLEAN]
  /\ closed \subseteq Connections
  /\ at \in [Acts -> Points]
  /\ reply \in [Acts -> BOOLEAN]
  /\ fired \in [Acts -> BOOLEAN]
  /\ handles \in [Keys -> Acts \cup {None}]
  /\ tombstones \subseteq Keys
  /\ Cardinality(tombstones) <= MaxTombstones
  /\ cancel \in [Acts -> [Origins -> Cancels]]
  /\ early \subseteq Acts
  /\ evicted \subseteq Keys

\* A client of its own connection sent a cancel that names the act.
Named(a) == \E o \in Origins : cancel[a][o] # "none"

\* The act has not registered yet.
Coming(a) == at[a] \in {"none", "received"}

\* Client, daemon and registry together keep what PreciseCancel promises: a
\* token is fired only by a cancel of the act's own connection that names its
\* id, also when two clients use the same ids (RequestKey); a tombstone stands
\* for a cancel that is still to come true and is used once; a cancelled act
\* does not start; and each promise is settled once.
Promise == INSTANCE PreciseCancel WITH
  named     <- {a \in Acts : Named(a)},
  asked     <- {a \in Acts : Key(a) \in tombstones /\ Coming(a)},
  stage     <- [a \in Acts |-> IF Coming(a) THEN "coming" ELSE at[a]],
  cancelled <- {a \in Acts : fired[a]},
  answers   <- settles,
  sure      <- {a \in Acts : confirmed[a]}
ImplementsPromise == Promise!Spec

\* A timeout that is reported as confirmed means that the request's token has
\* fired: the SDK never claims the runtime stopped without proof.
ConfirmedIsCancelled == \A a \in Acts : confirmed[a] => fired[a]

\* A promise is settled at most once, whatever the answer, the deadline, the
\* abort signal and the end of the connection do to each other.
SettledOnce == \A a \in Acts : settles[a] <= 1

\* The registry holds exactly the acts between registration and their end,
\* however they ended (BatchScope).
RegistryMirrorsActs ==
  \A a \in Acts : handles[Key(a)] = a <=> at[a] \in {"queued", "running"}

\* A cancel that reached the registry before the act registered keeps it from
\* running, unless its tombstone was thrown out (RequestRegistry::register).
EarlyCancelPreventsRun ==
  \A a \in early : Key(a) \notin evicted => at[a] # "running"

\* Every request of the SDK is settled in the end, even if the daemon never
\* answers it nor the cancel that its timeout sends.
EverySettles == \A a \in Acts : phase[a] = "pending" ~> phase[a] = "settled"

=============================================================================
