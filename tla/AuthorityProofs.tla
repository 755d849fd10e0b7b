--------------------------- MODULE AuthorityProofs ---------------------------
(***************************************************************************)
(* Proofs about Authority and CuCommands, for any sets of sessions,        *)
(* clients, processes and daemon versions and any bounds: their types,     *)
(* that tokens and grants agree, and that the commands of cu work.         *)
(*                                                                         *)
(* What a call was given decides its answer only because of three facts    *)
(* that hold between calls: nobody holds or sends a token it was not       *)
(* given, a credential of a start or of a read-only attach names the       *)
(* session its tokens are of, and the SDK copies it into calls about that  *)
(* session alone.                                                          *)
(*                                                                         *)
(* A command of cu holds nothing; what it does fits the credential files.  *)
(* A file is written for a session that was born, and goes only when its   *)
(* session does not live any more; sessions do not come back to life.  So  *)
(* who asked after the file had been written has the session's token for   *)
(* as long as the session lives.                                           *)
(***************************************************************************)
EXTENDS CuCommands, TLAPS

Cred == [id : Ids \cup {NoneHeld}, obs : Slot, ctl : Slot, from : Origin]

\* What the SDK of a client holds was given to it.
HeldGiven(c) == {credential[c].obs, credential[c].ctl} \subseteq given[c] \cup {NoToken}

\* What a client sends was given to it.
SentGiven(c) == {request[c].obs, request[c].ctl} \subseteq given[c] \cup {NoToken}

\* A credential of a start holds both tokens of its session, one of a read-only
\* attach the observation token, and the daemon that issued them knows them.
CredentialFits(c) ==
  LET k == credential[c]
  IN  k.from \in {"start", "read_only"} =>
        /\ k.id \in Ids /\ k.obs = <<k.id, "observation">>
        /\ k.from = "start" => k.ctl = <<k.id, "control">>
        /\ upgrades = 0 => Known(k.id)

\* The SDK copies a credential into calls about its session, and its
\* observation token into those about the desktop; an attach names a session.
Fits(q) ==
  /\ q.op \in {"attach_read_only", "attach_with_token"} => q.id \in Ids
  /\ q.op = "attach_read_only" => q.ctl = NoToken
  /\ q.op = "attach_with_token" => q.obs = NoToken
  /\ q.from \in {"start", "read_only"} =>
        /\ q.op \in Reading \cup DesktopReads \cup Changing \cup {"ensure"}
        /\ q.op \in Reading \cup {"ensure"} => q.obs = <<q.id, "observation">>
        /\ q.op \in Changing /\ q.from = "start" => q.ctl = <<q.id, "control">>
        /\ q.op \in DesktopReads =>
             \E s \in Ids : q.obs = <<s, "observation">> /\ (upgrades = 0 => Known(s))

CallFits(c) == Fits(request[c])

\* Clients are connected to a daemon of their version, and only they call.
LinksFit ==
  /\ linked # {} => version = SdkVersion
  /\ \A c \in Callers : request[c] # NoCall => c \in linked

Agreement ==
  /\ AuthorityTypeOK /\ LinksFit
  /\ \A c \in Callers : HeldGiven(c) /\ SentGiven(c) /\ CredentialFits(c) /\ CallFits(c)

-----------------------------------------------------------------------------
(* Types. *)

LEMMA RecordsTyped ==
  /\ NoCred \in Cred /\ NoCall \in Calling
  /\ NoToken \in Slot /\ Tokens \subseteq Slot
  /\ \A s \in Ids, k \in {"observation", "control"} : <<s, k>> \in Tokens
BY DEF NoCred, NoCall, Cred, Calling, Slot, Tokens, Origin

\* A call the SDK fills in is well formed.
LEMMA InjectedTyped ==
  ASSUME AuthorityTypeOK, NEW c \in Callers, NEW op \in Ops, NEW s \in Ids \cup {NoneHeld}
  PROVE  Injected(c, op, s) \in Calling
<1>1. credential[c] \in Cred
  BY DEF AuthorityTypeOK, Cred
<1>2. ObservationOf(c) \in Slot /\ credential[c].ctl \in Slot /\ credential[c].from \in Origin
  BY <1>1 DEF ObservationOf, Cred
<1>3. NoCall = [op |-> "none", id |-> NoneHeld, obs |-> NoToken, ctl |-> NoToken, from |-> "none"]
  BY DEF NoCall
<1> QED BY <1>2, <1>3, RecordsTyped DEF Injected, Bare, Calling, Origin

\* What Agreement says of one call, before it is sent.
Sendable(c, q) == q \in Calling /\ {q.obs, q.ctl} \subseteq given[c] \cup {NoToken} /\ Fits(q)

LEMMA SentKeeps ==
  ASSUME Agreement, NEW c \in Callers, NEW q, Sendable(c, q), Sent(c, q)
  PROVE  Agreement'
<1>1. AuthorityTypeOK'
  BY DEF Agreement, AuthorityTypeOK, Sent, daemonVars, Sendable
<1>2. LinksFit'
  BY DEF Agreement, AuthorityTypeOK, LinksFit, Sent, daemonVars
<1>3. ASSUME NEW d \in Callers PROVE HeldGiven(d)' /\ CredentialFits(d)'
  BY <1>3 DEF Agreement, HeldGiven, CredentialFits, Known, Sent, daemonVars
<1>4. ASSUME NEW d \in Callers PROVE SentGiven(d)' /\ CallFits(d)'
  <2>1. CASE d = c
    <3>1. request'[d] = q
      BY <2>1 DEF Agreement, AuthorityTypeOK, Sent
    <3> QED BY <2>1, <3>1 DEF SentGiven, CallFits, Fits, Sendable, Known, Sent, daemonVars
  <2>2. CASE d # c
    <3>1. request'[d] = request[d]
      BY <2>2 DEF Agreement, AuthorityTypeOK, Sent
    <3> QED BY <3>1 DEF Agreement, SentGiven, CallFits, Fits, Known, Sent, daemonVars
  <2> QED BY <2>1, <2>2
<1> QED BY <1>1, <1>2, <1>3, <1>4 DEF Agreement

\* What the SDK fills in may be sent.
LEMMA InjectedSendable ==
  ASSUME Agreement, NEW c \in Callers, NEW s \in Ids \cup {NoneHeld},
         NEW op \in Reading \cup DesktopReads \cup Changing \cup {"ensure"},
         op = "ensure" => s = credential[c].id /\ s # NoneHeld
  PROVE  Sendable(c, Injected(c, op, s))
<1> DEFINE k == credential[c]
           q == Injected(c, op, s)
<1>1. /\ op \in Ops /\ k \in Cred /\ NoToken \notin Tokens
      /\ HeldGiven(c) /\ CredentialFits(c) /\ NoneHeld \notin Ids
  BY AuthorityAssumption DEF Agreement, AuthorityTypeOK, Cred, Ops, Tokens
<1>2. q \in Calling
  BY <1>1, InjectedTyped DEF Agreement
<1>3. /\ k.from \in {"start", "read_only"} => ObservationOf(c) = k.obs
      /\ {ObservationOf(c), k.ctl} \subseteq given[c] \cup {NoToken}
  BY <1>1, RecordsTyped DEF ObservationOf, HeldGiven, CredentialFits
<1>4. /\ op \in DesktopReads =>
           q = [op |-> op, id |-> s, obs |-> ObservationOf(c), ctl |-> NoToken, from |-> k.from]
      /\ op \notin DesktopReads /\ ~(k.id = s /\ s # NoneHeld) =>
           q = [op |-> op, id |-> s, obs |-> NoToken, ctl |-> NoToken, from |-> "none"]
      /\ op \in Changing /\ k.id = s /\ s # NoneHeld =>
           q = [op |-> op, id |-> s, obs |-> NoToken, ctl |-> k.ctl, from |-> k.from]
      /\ op \in Reading \cup {"ensure"} /\ k.id = s /\ s # NoneHeld =>
           q = [op |-> op, id |-> s, obs |-> ObservationOf(c), ctl |-> NoToken, from |-> k.from]
  BY DEF Injected, Bare, Reading, TraceReads, DesktopReads, Changing
<1>5. CASE op \in DesktopReads
  <2>1. q = [op |-> op, id |-> s, obs |-> ObservationOf(c), ctl |-> NoToken, from |-> k.from]
    BY <1>4, <1>5
  <2> QED BY <1>1, <1>2, <1>3, <1>5, <2>1
          DEF Sendable, Fits, CredentialFits, Reading, TraceReads, DesktopReads, Changing
<1>6. CASE op \notin DesktopReads /\ ~(k.id = s /\ s # NoneHeld)
  <2>1. q = [op |-> op, id |-> s, obs |-> NoToken, ctl |-> NoToken, from |-> "none"]
    BY <1>4, <1>6
  <2> QED BY <1>2, <2>1
          DEF Sendable, Fits, Reading, TraceReads, DesktopReads, Changing
<1>7. CASE op \in Changing /\ k.id = s /\ s # NoneHeld
  <2>1. q = [op |-> op, id |-> s, obs |-> NoToken, ctl |-> k.ctl, from |-> k.from]
    BY <1>4, <1>7
  <2> QED BY <1>1, <1>2, <1>3, <1>7, <2>1
          DEF Sendable, Fits, CredentialFits, Reading, TraceReads, DesktopReads, Changing
<1>8. CASE op \in Reading \cup {"ensure"} /\ k.id = s /\ s # NoneHeld
  <2>1. q = [op |-> op, id |-> s, obs |-> ObservationOf(c), ctl |-> NoToken, from |-> k.from]
    BY <1>4, <1>8
  <2> QED BY <1>1, <1>2, <1>3, <1>8, <2>1
          DEF Sendable, Fits, CredentialFits, Reading, TraceReads, DesktopReads, Changing
<1> QED BY <1>5, <1>6, <1>7, <1>8

\* A call whose tokens are the caller's may be sent.
LEMMA PlainSendable ==
  ASSUME NEW c \in Callers, NEW q \in Calling, q.from = "none",
         {q.obs, q.ctl} \subseteq given[c] \cup {NoToken},
         q.op \in {"attach_read_only", "attach_with_token"} => q.id \in Ids,
         q.op = "attach_read_only" => q.ctl = NoToken,
         q.op = "attach_with_token" => q.obs = NoToken
  PROVE  Sendable(c, q)
BY DEF Sendable, Fits

-----------------------------------------------------------------------------
(* Every step keeps the agreement. *)

LEMMA AgreementInit == AuthorityInit => Agreement
<1> SUFFICES ASSUME AuthorityInit PROVE Agreement
  OBVIOUS
<1>1. AuthorityTypeOK
  <2>1. /\ phase \in [Ids -> {"unborn", "live", "stopped", "lost"}] /\ inManifest \subseteq Ids
        /\ version \in Versions /\ draining \in BOOLEAN /\ linked \subseteq Callers
        /\ given \in [Callers -> SUBSET Tokens]
    BY DEF AuthorityInit, NobodyLinked
  <2>2. upgrades \in 0..MaxUpgrades /\ passed \in 0..MaxHandovers
    BY AuthorityAssumption DEF AuthorityInit, NobodyLinked
  <2>3. credential \in [Callers -> Cred] /\ request \in [Callers -> Calling]
    BY RecordsTyped DEF AuthorityInit, NobodyLinked
  <2> QED BY <2>1, <2>2, <2>3 DEF AuthorityTypeOK, Cred
<1>2. LinksFit
  BY DEF AuthorityInit, NobodyLinked, LinksFit
<1>3. ASSUME NEW c \in Callers
      PROVE  HeldGiven(c) /\ SentGiven(c) /\ CredentialFits(c) /\ CallFits(c)
  <2>1. credential[c] = NoCred /\ request[c] = NoCall
    BY DEF AuthorityInit, NobodyLinked
  <2> QED BY <2>1 DEF HeldGiven, SentGiven, CredentialFits, CallFits, Fits, NoCred, NoCall
<1> QED BY <1>1, <1>2, <1>3 DEF Agreement

\* An answered call leaves the caller without one, and the others with theirs.
LEMMA DispatchedKeeps ==
  ASSUME Agreement, NEW c \in Callers, NEW v, Dispatched(c, v)
  PROVE  /\ c \in linked /\ request[c] # NoCall /\ v = Verdict(request[c])
         /\ request' \in [Callers -> Calling] /\ request'[c] = NoCall
         /\ \A d \in Callers : d # c => request'[d] = request[d]
         /\ LinksFit'
<1>1. request \in [Callers -> Calling] /\ NoCall \in Calling
  BY RecordsTyped DEF Agreement, AuthorityTypeOK
<1>2. /\ request' \in [Callers -> Calling] /\ request'[c] = NoCall
      /\ \A d \in Callers : d # c => request'[d] = request[d]
  BY <1>1 DEF Dispatched
<1> QED BY <1>2 DEF Agreement, LinksFit, Dispatched

\* The calls that stay fit while what was given and what is known only grow.
LEMMA CallsKeepFit ==
  ASSUME Agreement, NEW c \in Callers, NEW v, Dispatched(c, v),
         \A d \in Callers : given[d] \subseteq given'[d],
         \A s \in Ids : Known(s) => Known(s)'
  PROVE  \A d \in Callers : SentGiven(d)' /\ CallFits(d)'
<1> SUFFICES ASSUME NEW d \in Callers PROVE SentGiven(d)' /\ CallFits(d)'
  OBVIOUS
<1>1. upgrades' = upgrades
  BY DEF Dispatched
<1>2. CASE d = c
  <2>1. request'[d] = NoCall
    BY <1>2, DispatchedKeeps
  <2> QED BY <2>1 DEF SentGiven, CallFits, Fits, NoCall
<1>3. CASE d # c
  <2>1. request'[d] = request[d]
    BY <1>3, DispatchedKeeps
  <2>2. SentGiven(d) /\ CallFits(d)
    BY DEF Agreement
  <2>3. SentGiven(d)'
    BY <2>1, <2>2 DEF SentGiven
  <2>4. CallFits(d)'
    BY <1>1, <2>1, <2>2 DEF CallFits, Fits
  <2> QED BY <2>3, <2>4
<1> QED BY <1>2, <1>3

LEMMA StartKeeps ==
  ASSUME Agreement, NEW c \in Callers, NEW s \in Ids, DispatchStart(c, s)
  PROVE  Agreement'
<1> DEFINE t == <<s, "observation">>
           k == <<s, "control">>
<1>1. /\ Dispatched(c, "ok") /\ t \in Tokens /\ k \in Tokens
      /\ phase' = [phase EXCEPT ![s] = "live"]
      /\ given' = [given EXCEPT ![c] = @ \cup {t, k}]
      /\ credential' = [credential EXCEPT ![c] = [id |-> s, obs |-> t, ctl |-> k, from |-> "start"]]
      /\ inManifest' \in {inManifest, inManifest \cup {s}}
  BY RecordsTyped DEF DispatchStart
<1>2. /\ phase' \in [Ids -> {"unborn", "live", "stopped", "lost"}]
      /\ \A x \in Ids : Known(x) => Known(x)'
      /\ Known(s)'
  BY <1>1 DEF Agreement, AuthorityTypeOK, Known
<1>3. /\ given' \in [Callers -> SUBSET Tokens]
      /\ \A d \in Callers : given[d] \subseteq given'[d]
      /\ t \in given'[c] /\ k \in given'[c]
  BY <1>1 DEF Agreement, AuthorityTypeOK
<1>4. [id |-> s, obs |-> t, ctl |-> k, from |-> "start"] \in Cred
  BY <1>1, RecordsTyped DEF Cred, Origin
<1>5. /\ credential' \in [Callers -> Cred]
      /\ credential'[c] = [id |-> s, obs |-> t, ctl |-> k, from |-> "start"]
      /\ \A d \in Callers : d # c => credential'[d] = credential[d]
  BY <1>1, <1>4 DEF Agreement, AuthorityTypeOK, Cred
<1>6. AuthorityTypeOK'
  BY <1>1, <1>2, <1>3, <1>5, DispatchedKeeps
     DEF Agreement, AuthorityTypeOK, Dispatched, Cred
<1>7. ASSUME NEW d \in Callers PROVE HeldGiven(d)' /\ CredentialFits(d)'
  <2>1. CASE d = c
    BY <1>2, <1>3, <1>5, <2>1 DEF HeldGiven, CredentialFits
  <2>2. CASE d # c
    <3>1. HeldGiven(d) /\ CredentialFits(d) /\ credential'[d] = credential[d]
      BY <1>5, <2>2 DEF Agreement
    <3>2. HeldGiven(d)'
      BY <1>3, <3>1 DEF HeldGiven
    <3>3. CredentialFits(d)'
      BY <1>1, <1>2, <3>1 DEF CredentialFits, Dispatched
    <3> QED BY <3>2, <3>3
  <2> QED BY <2>1, <2>2
<1>8. \A d \in Callers : SentGiven(d)' /\ CallFits(d)'
  BY <1>1, <1>2, <1>3, CallsKeepFit
<1> QED BY <1>1, <1>6, <1>7, <1>8, DispatchedKeeps DEF Agreement

\* An answer that gives nobody a token, and after which the caller holds either
\* what it held, nothing, or what it has just presented.
LEMMA AnswerKeeps ==
  ASSUME Agreement, NEW c \in Callers, NEW v, Dispatched(c, v),
         phase' \in [Ids -> {"unborn", "live", "stopped", "lost"}],
         \A s \in Ids : Known(s) => Known(s)', UNCHANGED <<inManifest, given>>,
         NEW k \in Cred, credential' = [credential EXCEPT ![c] = k],
         {k.obs, k.ctl} \subseteq given[c] \cup {NoToken},
         k.from \in {"start", "read_only"} =>
           /\ k.id \in Ids /\ k.obs = <<k.id, "observation">>
           /\ k.from = "start" => k.ctl = <<k.id, "control">>
           /\ upgrades = 0 => Known(k.id)
  PROVE  Agreement'
<1>1. /\ credential' \in [Callers -> Cred] /\ credential'[c] = k
      /\ \A d \in Callers : d # c => credential'[d] = credential[d]
  BY DEF Agreement, AuthorityTypeOK, Cred
<1>2. AuthorityTypeOK'
  BY <1>1, DispatchedKeeps DEF Agreement, AuthorityTypeOK, Dispatched, Cred
<1>3. ASSUME NEW d \in Callers PROVE HeldGiven(d)' /\ CredentialFits(d)'
  <2>1. CASE d = c
    BY <1>1, <2>1 DEF HeldGiven, CredentialFits, Dispatched
  <2>2. CASE d # c
    <3>1. HeldGiven(d) /\ CredentialFits(d) /\ credential'[d] = credential[d]
      BY <1>1, <2>2 DEF Agreement
    <3> QED BY <3>1 DEF HeldGiven, CredentialFits, Dispatched
  <2> QED BY <2>1, <2>2
<1>4. \A d \in Callers : SentGiven(d)' /\ CallFits(d)'
  BY CallsKeepFit
<1> QED BY <1>2, <1>3, <1>4, DispatchedKeeps DEF Agreement

\* The credential a client holds, or none, in the form AnswerKeeps asks for.
LEMMA HeldCredential ==
  ASSUME Agreement, NEW c \in Callers, NEW k \in {credential[c], NoCred}
  PROVE  /\ k \in Cred
         /\ {k.obs, k.ctl} \subseteq given[c] \cup {NoToken}
         /\ k.from \in {"start", "read_only"} =>
              /\ k.id \in Ids /\ k.obs = <<k.id, "observation">>
              /\ k.from = "start" => k.ctl = <<k.id, "control">>
              /\ upgrades = 0 => Known(k.id)
<1>1. CASE k = NoCred
  BY <1>1, RecordsTyped DEF NoCred
<1>2. CASE k = credential[c]
  BY <1>2 DEF Agreement, AuthorityTypeOK, HeldGiven, CredentialFits, Cred
<1> QED BY <1>1, <1>2

LEMMA StopKeeps ==
  ASSUME Agreement, NEW c \in Callers, DispatchStop(c)
  PROVE  Agreement'
<1> DEFINE k == IF credential[c].id = request[c].id THEN NoCred ELSE credential[c]
<1>1. k \in {credential[c], NoCred}
  OBVIOUS
<1>2. /\ Dispatched(c, "ok") /\ UNCHANGED <<inManifest, given>>
      /\ phase' = [phase EXCEPT ![request[c].id] = "stopped"]
  BY DEF DispatchStop
<1>3. credential' = [credential EXCEPT ![c] = k]
  BY DEF DispatchStop, Agreement, AuthorityTypeOK
<1>4. /\ phase' \in [Ids -> {"unborn", "live", "stopped", "lost"}]
      /\ \A s \in Ids : Known(s) => Known(s)'
  BY <1>2 DEF Agreement, AuthorityTypeOK, Known
<1> QED
  <2> HIDE DEF k
  <2> QED BY <1>1, <1>2, <1>3, <1>4, HeldCredential, AnswerKeeps

LEMMA OtherKeeps ==
  ASSUME Agreement, NEW c \in Callers, DispatchOther(c)
  PROVE  Agreement'
<1>1. PICK k \in {credential[c], NoCred}, v \in {"ok"} \cup Refusals :
        /\ Dispatched(c, v) /\ credential' = [credential EXCEPT ![c] = k]
        /\ UNCHANGED <<phase, inManifest, given>>
  BY DEF DispatchOther
<1>2. /\ phase' \in [Ids -> {"unborn", "live", "stopped", "lost"}]
      /\ \A s \in Ids : Known(s) => Known(s)'
  BY <1>1 DEF Agreement, AuthorityTypeOK, Known
<1> QED BY <1>1, <1>2, HeldCredential, AnswerKeeps

LEMMA AttachKeeps ==
  ASSUME Agreement, NEW c \in Callers, DispatchAttach(c)
  PROVE  Agreement'
<1> DEFINE q == request[c]
<1>1. /\ Dispatched(c, "ok") /\ UNCHANGED <<phase, inManifest, given>>
      /\ q.op \in {"attach_read_only", "attach_with_token"}
      /\ Verdict(q) = "ok" /\ q \in Calling /\ SentGiven(c)
  <2>1. Dispatched(c, "ok") /\ UNCHANGED <<phase, inManifest, given>>
        /\ q.op \in {"attach_read_only", "attach_with_token"}
    BY DEF DispatchAttach
  <2> QED BY <2>1, DispatchedKeeps DEF Agreement, AuthorityTypeOK
<1>2. ReadHolds(q.id, q) /\ Known(q.id)
  BY <1>1 DEF Verdict, VerifyRead, DesktopReads, TraceReads, Changing
<1>3. q.id \in Ids /\ (q.op = "attach_read_only" => q.obs = <<q.id, "observation">>)
  <2>1. q.id \in Ids /\ (q.op = "attach_read_only" => q.ctl = NoToken)
    BY <1>1 DEF Agreement, CallFits, Fits
  <2>2. NoToken # <<q.id, "control">>
    BY <2>1, AuthorityAssumption
  <2> QED BY <1>2, <2>1, <2>2 DEF ReadHolds
<1>4. PICK k : /\ credential' = [credential EXCEPT ![c] = k]
               /\ k = IF q.op = "attach_read_only"
                      THEN [id |-> q.id, obs |-> q.obs, ctl |-> NoToken, from |-> "read_only"]
                      ELSE [id |-> q.id, obs |-> q.ctl, ctl |-> q.ctl, from |-> "control"]
  BY DEF DispatchAttach
<1>5. k \in Cred /\ {k.obs, k.ctl} \subseteq given[c] \cup {NoToken}
  <2>1. q.obs \in Slot /\ q.ctl \in Slot
    BY <1>1 DEF Calling
  <2> QED BY <1>1, <1>3, <1>4, <2>1, RecordsTyped DEF Cred, Origin, SentGiven
<1>6. k.from \in {"start", "read_only"} =>
        /\ k.id \in Ids /\ k.obs = <<k.id, "observation">>
        /\ k.from = "start" => k.ctl = <<k.id, "control">>
        /\ upgrades = 0 => Known(k.id)
  BY <1>2, <1>3, <1>4
<1>7. /\ phase' \in [Ids -> {"unborn", "live", "stopped", "lost"}]
      /\ \A s \in Ids : Known(s) => Known(s)'
  BY <1>1 DEF Agreement, AuthorityTypeOK, Known
<1> QED BY <1>1, <1>4, <1>5, <1>6, <1>7, AnswerKeeps

LEMMA DrainsKeeps ==
  ASSUME Agreement, Drains
  PROVE  Agreement'
<1>1. AuthorityTypeOK' /\ LinksFit'
  BY DEF Agreement, AuthorityTypeOK, LinksFit, Drains, clientVars
<1>2. \A s \in Ids : Known(s) => Known(s)'
  BY DEF Drains, Known, Agreement, AuthorityTypeOK
<1>3. ASSUME NEW c \in Callers
      PROVE  HeldGiven(c)' /\ SentGiven(c)' /\ CredentialFits(c)' /\ CallFits(c)'
  <2>1. HeldGiven(c)' /\ SentGiven(c)'
    BY DEF Agreement, HeldGiven, SentGiven, Drains, clientVars
  <2>2. CredentialFits(c)'
    BY <1>2 DEF Agreement, CredentialFits, Drains, clientVars
  <2>3. CallFits(c)'
    BY <1>2 DEF Agreement, CallFits, Fits, Drains, clientVars
  <2> QED BY <2>1, <2>2, <2>3
<1> QED BY <1>1, <1>3 DEF Agreement

\* Another daemon knows nothing and has no connections.
LEMMA ReplacedKeeps ==
  ASSUME Agreement, NEW v \in Versions, DaemonReplaced(v)
  PROVE  Agreement'
<1>1. upgrades' \in 0..MaxUpgrades /\ upgrades' # 0
  BY AuthorityAssumption DEF Agreement, AuthorityTypeOK, DaemonReplaced
<1>2. AuthorityTypeOK' /\ LinksFit'
  <2>1. /\ phase' \in [Ids -> {"unborn", "live", "stopped", "lost"}]
        /\ request' \in [Callers -> Calling]
    BY RecordsTyped DEF Agreement, AuthorityTypeOK, DaemonReplaced
  <2>2. LinksFit'
    BY DEF LinksFit, DaemonReplaced
  <2> QED BY <1>1, <2>1, <2>2 DEF Agreement, AuthorityTypeOK, DaemonReplaced
<1>3. ASSUME NEW c \in Callers
      PROVE  HeldGiven(c)' /\ SentGiven(c)' /\ CredentialFits(c)' /\ CallFits(c)'
  <2>1. HeldGiven(c)'
    BY DEF Agreement, HeldGiven, DaemonReplaced
  <2>2. CredentialFits(c)'
    BY <1>1 DEF Agreement, CredentialFits, DaemonReplaced
  <2>3. request'[c] = NoCall
    BY DEF DaemonReplaced
  <2>4. SentGiven(c)' /\ CallFits(c)'
    BY <2>3 DEF SentGiven, CallFits, Fits, NoCall
  <2> QED BY <2>1, <2>2, <2>4
<1> QED BY <1>2, <1>3 DEF Agreement

LEMMA LinkedKeeps ==
  ASSUME Agreement, NEW c \in Callers, Linked(c)
  PROVE  Agreement'
<1>1. AuthorityTypeOK' /\ LinksFit'
  BY DEF Agreement, AuthorityTypeOK, LinksFit, Linked, daemonVars
<1>2. ASSUME NEW d \in Callers
      PROVE  HeldGiven(d)' /\ SentGiven(d)' /\ CredentialFits(d)' /\ CallFits(d)'
  BY DEF Agreement, HeldGiven, SentGiven, CredentialFits, CallFits, Fits, Known, Linked, daemonVars
<1> QED BY <1>1, <1>2 DEF Agreement

LEMMA PassedOnKeeps ==
  ASSUME Agreement, NEW c \in Callers, NEW d \in Callers, NEW t \in given[c], PassedOn(c, d, t)
  PROVE  Agreement'
<1>1. t \in Tokens
  BY DEF Agreement, AuthorityTypeOK
<1>2. /\ given' \in [Callers -> SUBSET Tokens]
      /\ \A x \in Callers : given[x] \subseteq given'[x]
  BY <1>1 DEF Agreement, AuthorityTypeOK, PassedOn
<1>3. passed' \in 0..MaxHandovers
  BY AuthorityAssumption DEF Agreement, AuthorityTypeOK, PassedOn
<1>4. AuthorityTypeOK' /\ LinksFit'
  BY <1>2, <1>3 DEF Agreement, AuthorityTypeOK, LinksFit, PassedOn, daemonVars
<1>5. ASSUME NEW x \in Callers
      PROVE  HeldGiven(x)' /\ SentGiven(x)' /\ CredentialFits(x)' /\ CallFits(x)'
  <2>1. HeldGiven(x)' /\ SentGiven(x)'
    BY <1>2 DEF Agreement, HeldGiven, SentGiven, PassedOn
  <2>2. CredentialFits(x)' /\ CallFits(x)'
    BY DEF Agreement, CredentialFits, CallFits, Fits, Known, PassedOn, daemonVars
  <2> QED BY <2>1, <2>2
<1> QED BY <1>4, <1>5 DEF Agreement

\* A call with tokens of the caller's keeps the agreement when it is sent.
LEMMA OwnTokensKeep ==
  ASSUME Agreement, NEW c \in Callers, NEW op \in Ops, NEW s \in Ids \cup {NoneHeld},
         NEW o \in given[c] \cup {NoToken}, NEW k \in given[c] \cup {NoToken},
         op \in {"attach_read_only", "attach_with_token"} => s \in Ids,
         op = "attach_read_only" => k = NoToken,
         op = "attach_with_token" => o = NoToken,
         Sent(c, Bare(op, s, o, k))
  PROVE  Agreement'
<1> DEFINE q == Bare(op, s, o, k)
<1>1. o \in Slot /\ k \in Slot
  BY DEF Agreement, AuthorityTypeOK, Slot
<1>2. q \in Calling
  BY <1>1 DEF Calling, Origin, Bare
<1>3. q.op = op /\ q.id = s /\ q.obs = o /\ q.ctl = k /\ q.from = "none"
  BY DEF Bare
<1>4. Sendable(c, q)
  <2> HIDE DEF q
  <2> QED BY <1>2, <1>3, PlainSendable
<1> HIDE DEF q
<1> QED BY <1>4, SentKeeps DEF q

LEMMA AgreementStep ==
  ASSUME Agreement, [AuthorityNext]_authorityVars
  PROVE  Agreement'
<1>1. ASSUME NEW c \in Callers, NEW op \in Reading \cup DesktopReads \cup Changing,
             NEW s \in Ids \cup {NoneHeld}, Sent(c, Injected(c, op, s))
      PROVE  Agreement'
  <2>1. Sendable(c, Injected(c, op, s))
    BY InjectedSendable DEF Reading, TraceReads, DesktopReads, Changing
  <2> QED BY <1>1, <2>1, SentKeeps
<1>2. ASSUME NEW c \in Callers, Ensures(c)
      PROVE  Agreement'
  <2>1. credential[c].id \in Ids \cup {NoneHeld} /\ credential[c].id # NoneHeld
    BY <1>2 DEF Ensures, Agreement, AuthorityTypeOK
  <2>2. Sendable(c, Injected(c, "ensure", credential[c].id))
    BY <2>1, InjectedSendable
  <2> QED BY <1>2, <2>2, SentKeeps DEF Ensures
<1>3. ASSUME NEW c \in Callers, CallsStart(c)
      PROVE  Agreement'
  BY <1>3, OwnTokensKeep DEF CallsStart, Ops
<1>4. ASSUME NEW c \in Callers, NEW s \in Ids, NEW t \in given[c],
             AttachesReadOnly(c, s, t) \/ AttachesWithToken(c, s, t)
      PROVE  Agreement'
  BY <1>4, OwnTokensKeep DEF AttachesReadOnly, AttachesWithToken, Ops
<1>5. ASSUME NEW c \in Callers, NEW s \in Ids, NEW t \in given[c],
             NEW op \in Reading \cup Changing, NEW slot \in {"obs", "ctl"},
             CallsWith(c, op, s, slot, t)
      PROVE  Agreement'
  <2>1. op \in Ops /\ op \notin {"attach_read_only", "attach_with_token"}
    BY DEF Ops, Reading, TraceReads, Changing
  <2>2. CASE slot = "obs"
    BY <1>5, <2>1, <2>2, OwnTokensKeep DEF CallsWith
  <2>3. CASE slot = "ctl"
    BY <1>5, <2>1, <2>3, OwnTokensKeep DEF CallsWith
  <2> QED BY <2>2, <2>3
<1>6. CASE UNCHANGED authorityVars
  BY <1>6 DEF Agreement, AuthorityTypeOK, LinksFit, HeldGiven, SentGiven, CredentialFits,
     CallFits, Fits, Known, authorityVars, daemonVars, clientVars
<1>7. ASSUME NEW c \in Callers,
             Linked(c) \/ CallsDesktop(c) \/ DispatchStop(c) \/ DispatchAttach(c) \/ DispatchOther(c)
      PROVE  Agreement'
  <2>1. CallsDesktop(c) => Agreement'
    BY <1>1 DEF CallsDesktop, DesktopReads
  <2> QED BY <1>7, <2>1, LinkedKeeps, StopKeeps, AttachKeeps, OtherKeeps
<1>8. ASSUME NEW c \in Callers, NEW s \in Ids,
             DispatchStart(c, s) \/ \E op \in Reading \cup Changing : Calls(c, op, s)
      PROVE  Agreement'
  <2>1. ASSUME NEW op \in Reading \cup Changing, Calls(c, op, s)
        PROVE  Agreement'
    BY <1>1, <2>1 DEF Calls
  <2> QED BY <1>8, <2>1, StartKeeps
<1>9. CASE AuthorityNext
  BY <1>2, <1>3, <1>4, <1>5, <1>7, <1>8, <1>9, DrainsKeeps, ReplacedKeeps, PassedOnKeeps
     DEF AuthorityNext
<1> QED BY <1>6, <1>9

-----------------------------------------------------------------------------
(* What the agreement says of an answer. *)

LEMMA ServedWereEntitled ==
  ASSUME Agreement, NEW c \in Callers, request[c] # NoCall
  PROVE  ServedIsEntitled(c)
<1> DEFINE q == request[c]
<1> SUFFICES ASSUME Verdict(q) = "ok" PROVE ServedIsEntitled(c)
  BY DEF ServedIsEntitled
<1>1. /\ q \in Calling /\ {q.obs, q.ctl} \subseteq given[c] \cup {NoToken} /\ Fits(q)
      /\ \A s \in Ids \cup {NoneHeld}, k \in {"observation", "control"} : <<s, k>> # NoToken
  BY AuthorityAssumption DEF Agreement, AuthorityTypeOK, SentGiven, CallFits
<1>2. q.id \in Ids \cup {NoneHeld} /\ q.op \in Ops \cup {"none"}
  BY <1>1 DEF Calling
<1> HIDE DEF q
<1>3. \A s \in Ids \cup {NoneHeld} :
        ReadHolds(s, q) =>
          \/ <<s, "observation">> \in given[c]
          \/ <<s, "control">> \in given[c]
  <2> SUFFICES ASSUME NEW s \in Ids \cup {NoneHeld}, ReadHolds(s, q)
               PROVE  <<s, "observation">> \in given[c] \/ <<s, "control">> \in given[c]
    OBVIOUS
  <2>1. <<s, "observation">> # NoToken /\ <<s, "control">> # NoToken
    BY <1>1
  <2>2. CASE q.obs = <<s, "observation">>
    BY <1>1, <2>1, <2>2
  <2>3. CASE q.ctl = <<s, "control">>
    BY <1>1, <2>1, <2>3
  <2> QED BY <2>2, <2>3 DEF ReadHolds
<1>4. VerifyRead(q.id, q) = "ok" => ReadHolds(q.id, q)
  BY DEF VerifyRead
<1>5. VerifyControl(q.id, q) = "ok" => <<q.id, "control">> \in given[c]
  BY <1>1, <1>2 DEF VerifyControl
<1>6. q.op \in Changing => VerifyControl(q.id, q) = "ok"
  BY DEF Verdict, Then, Changing, DesktopReads, TraceReads
<1>7. q.op \in {"observe", "attach_read_only", "attach_with_token", "ensure"}
        => VerifyRead(q.id, q) = "ok"
  BY DEF Verdict, Then, Changing, DesktopReads, TraceReads
<1>8. q.op = "attach_with_token" => <<q.id, "control">> \in given[c]
  <2> SUFFICES ASSUME q.op = "attach_with_token" PROVE <<q.id, "control">> \in given[c]
    OBVIOUS
  <2>1. q.obs = NoToken /\ <<q.id, "observation">> # NoToken /\ <<q.id, "control">> # NoToken
    BY <1>1, <1>2 DEF Fits
  <2> QED BY <1>1, <1>4, <1>7, <2>1 DEF ReadHolds
<1>9. q.op = "trace" => \E k \in {"observation", "control"} : <<q.id, k>> \in given[c]
  <2>1. q.op = "trace" => TraceAccess(q.id, q) = "ok"
    BY DEF Verdict, DesktopReads, TraceReads
  <2>2. ManifestAdmits(q.id, q) => \E k \in {"observation", "control"} : <<q.id, k>> \in given[c]
    BY <1>1, <1>2 DEF ManifestAdmits
  <2> QED BY <1>2, <1>3, <1>4, <2>1, <2>2 DEF TraceAccess
<1>10. q.op = "desktop" => given[c] # {}
  <2>1. q.op = "desktop" => VerifyAny(q) = "ok"
    BY DEF Verdict, DesktopReads
  <2> QED BY <1>3, <2>1 DEF VerifyAny
<1> QED BY <1>2, <1>3, <1>4, <1>5, <1>6, <1>7, <1>8, <1>9, <1>10
        DEF ServedIsEntitled, q, Reading, TraceReads

LEMMA HoldersWereServed ==
  ASSUME Agreement, NEW c \in Callers, request[c] # NoCall
  PROVE  HoldersAreServed(c)
<1> DEFINE q == request[c]
<1> SUFFICES ASSUME Verdict(q) \in TokenErrors, q.from \in {"start", "read_only"}
             PROVE  \/ q.op = "desktop" /\ upgrades > 0
                    \/ q.op \in Changing /\ q.from = "read_only"
  BY DEF HoldersAreServed, Changing
<1>1. Fits(q) /\ upgrades \in Nat
  BY AuthorityAssumption DEF Agreement, AuthorityTypeOK, CallFits
<1> HIDE DEF q
<1>2. Verdict(q) \notin {"ok", "DAEMON_SHUTTING_DOWN", "CONTROL_LOCKED", "SESSION_NOT_FOUND",
                        "SESSION_STOPPED"}
  BY DEF TokenErrors
<1>3. CASE q.op \in Reading \cup {"ensure"}
  <2>1. ReadHolds(q.id, q) /\ ManifestAdmits(q.id, q)
    BY <1>1, <1>3 DEF Fits, ReadHolds, ManifestAdmits
  <2>2. VerifyRead(q.id, q) = "ok" /\ TraceAccess(q.id, q) \in {"ok", "SESSION_NOT_FOUND"}
    BY <2>1 DEF VerifyRead, TraceAccess
  <2>3. WhenLive(q.id) \in {"ok", "SESSION_STOPPED"}
    BY DEF WhenLive
  <2>4. Verdict(q) \in {"ok", "DAEMON_SHUTTING_DOWN", "SESSION_NOT_FOUND", "SESSION_STOPPED"}
    BY <1>3, <2>2, <2>3 DEF Verdict, Then, Reading, DesktopReads, TraceReads, Changing
  <2> QED BY <1>2, <2>4
<1>4. CASE q.op \in Changing /\ q.from = "start"
  <2>1. VerifyControl(q.id, q) = "ok"
    BY <1>1, <1>4 DEF Fits, VerifyControl
  <2>2. WhenLive(q.id) \in {"ok", "SESSION_STOPPED"}
    BY DEF WhenLive
  <2>3. Verdict(q) \in {"ok", "DAEMON_SHUTTING_DOWN", "SESSION_NOT_FOUND", "SESSION_STOPPED"}
    BY <1>4, <2>1, <2>2 DEF Verdict, Then, DesktopReads, TraceReads, Changing
  <2> QED BY <1>2, <2>3
<1>5. CASE q.op = "desktop"
  <2>1. upgrades = 0 => VerifyAny(q) = "ok"
    BY <1>1, <1>5 DEF Fits, DesktopReads, VerifyAny, ReadHolds
  <2>2. Verdict(q) \in {"DAEMON_SHUTTING_DOWN", VerifyAny(q)}
    BY <1>5 DEF Verdict, DesktopReads
  <2> QED BY <1>1, <1>2, <1>5, <2>1, <2>2
<1> QED BY <1>1, <1>3, <1>4, <1>5 DEF Fits, DesktopReads

-----------------------------------------------------------------------------
LEMMA AgreementAlways == AuthoritySpec => []Agreement
<1>1. AuthorityInit => Agreement
  BY AgreementInit
<1>2. Agreement /\ [AuthorityNext]_authorityVars => Agreement'
  BY AgreementStep
<1> QED BY <1>1, <1>2, PTL DEF AuthoritySpec

\* Every variable of the clients and of the daemon's tokens has its type, for
\* any numbers of sessions, clients, restarts and calls in flight.
THEOREM AuthorityTypes == AuthoritySpec => []AuthorityTypeOK
<1>1. Agreement => AuthorityTypeOK
  BY DEF Agreement
<1> QED BY <1>1, AgreementAlways, PTL

\* Nobody is served who was not given a token that grants the call, and nobody
\* is refused for tokens the SDK filled in from a credential that grants it,
\* whatever attaches, stops, handovers and restarts came before.
THEOREM TokensMatchGrants == AuthoritySpec => CallsMatchGrants
<1>1. Agreement /\ [AuthorityNext]_authorityVars =>
        [\A c \in Callers :
           Answered(c) =>
             ServedIsEntitled(c) /\ HoldersAreServed(c) /\ version = SdkVersion]_authorityVars
  <2> SUFFICES ASSUME Agreement, NEW c \in Callers, Answered(c)
               PROVE  ServedIsEntitled(c) /\ HoldersAreServed(c) /\ version = SdkVersion
    OBVIOUS
  <2>1. request[c] # NoCall
    BY DEF Answered
  <2>2. version = SdkVersion
    BY <2>1 DEF Agreement, LinksFit
  <2> QED BY <2>1, <2>2, ServedWereEntitled, HoldersWereServed
<1> QED BY <1>1, AgreementAlways, PTL DEF AuthoritySpec, CallsMatchGrants

-----------------------------------------------------------------------------
(* The commands of cu: what is known between two steps of them. *)

CommandStages ==
  {"over", "listing", "pruning", "deleting", "resolve", "lookup", "starting", "saving",
   "any", "frame", "ask", "leaving", "stopping"}

Commanding ==
  [does : CuKinds \cup {"nothing"}, at : CommandStages, on : Ids \cup {NoneHeld}, auto : BOOLEAN,
   call : Calling, listed : SUBSET Ids, gone : Ids \cup {NoneHeld}, due : BOOLEAN]

\* The stages before a command has asked for anything.
Early == {"listing", "pruning", "deleting", "resolve", "lookup", "starting", "saving", "any"}
WasBorn(s) == phase[s] # "unborn"

\* What the files say of the daemon's sessions: those that were written and
\* whose session lives are there.
FilesFit ==
  /\ files \subseteq written
  /\ \A s \in written : WasBorn(s) /\ (phase[s] = "live" => s \in files)
  /\ draining => Live = {}

\* A call with the token it needs, of the session it names.
CarriesToken(q) ==
  IF q.op \in Changing THEN q.ctl = <<q.id, "control">> ELSE q.obs = <<q.id, "observation">>

\* A command on its way.  One that asked after the file had been written has the
\* token of the file, should the session still live; a file is deleted for a
\* session that is gone.
Proceeds(k) ==
  /\ k.at \in Early => ~k.due
  /\ k.call # NoCall => k.at \in {"frame", "ask"}
  /\ k.at # "over" => k.does # "nothing"
  /\ k.at = "stopping" => k.on \in Ids
  /\ k.at = "saving" => k.on \in Ids /\ WasBorn(k.on)
  /\ \A s \in k.listed : WasBorn(s)
  /\ k.at = "deleting" => k.gone \in Ids /\ phase[k.gone] \in {"stopped", "lost"}
  /\ k.call # NoCall /\ k.due =>
        k.call.id \in written /\ (phase[k.call.id] = "live" => CarriesToken(k.call))

\* A command that nothing has come in between of finds no session, starts its
\* own and holds its tokens.
Alone(k) ==
  /\ k.at \in {"over", "resolve", "starting", "saving", "frame", "ask", "leaving", "stopping"}
  /\ k.at # "over" => k.does \in OneShots
  /\ k.at \in {"resolve", "starting", "saving", "frame", "ask"} => ~draining
  /\ k.at \in {"resolve", "starting"} => Live = {}
  /\ k.at \in {"saving", "frame", "ask"} => k.on \in Live
  /\ k.at \in {"frame", "ask"} => k.on \in files
  /\ k.call # NoCall =>
        /\ k.call.id = k.on /\ CarriesToken(k.call)
        /\ k.call.op \in {"observe", "status", "act", "desktop"}

CuInv ==
  /\ AuthorityTypeOK /\ CuTypeOK /\ FilesFit
  /\ \A p \in Shells : Proceeds(command[p])
  /\ lone # Quiet => Alone(command[lone])

\* What every step leaves of what the commands rely on: a session is born once
\* and does not come back to life.
Onwards ==
  /\ phase' \in [Ids -> {"unborn", "live", "stopped", "lost"}]
  /\ written \subseteq written'
  /\ \A s \in Ids : WasBorn(s) =>
        WasBorn(s)' /\ (phase'[s] = "live" => phase[s] = "live")

-----------------------------------------------------------------------------
LEMMA CommandsTyped ==
  ASSUME CuTypeOK
  PROVE  /\ command \in [Shells -> Commanding]
         /\ files \subseteq Ids /\ written \subseteq Ids
         /\ begun \in 0..MaxCommands /\ lone \in Shells \cup {Quiet}
BY DEF CuTypeOK, Commanding, CommandStages

\* Who presents a live session's token is not refused for it.
LEMMA CarriedIsAdmitted ==
  ASSUME NEW q \in Calling, q.id \in Ids, phase[q.id] = "live", CarriesToken(q)
  PROVE  /\ Verdict(q) \notin TokenErrors
         /\ ~draining /\ q.op \in {"observe", "status", "act", "desktop"} => Verdict(q) = "ok"
<1>1. Known(q.id) /\ WhenLive(q.id) = "ok"
  BY DEF Known, WhenLive
<1>2. q.op \in Changing => VerifyControl(q.id, q) = "ok"
  BY DEF VerifyControl, CarriesToken
<1>3. q.op \notin Changing => ReadHolds(q.id, q) /\ VerifyRead(q.id, q) = "ok"
  BY DEF VerifyRead, ReadHolds, CarriesToken
<1>4. q.op \notin Changing => VerifyAny(q) = "ok" /\ TraceAccess(q.id, q) = "ok"
  BY <1>1, <1>3 DEF VerifyAny, TraceAccess
<1>5. Verdict(q) \in {"ok", "DAEMON_SHUTTING_DOWN", "CONTROL_LOCKED"}
  BY <1>1, <1>2, <1>3, <1>4 DEF Verdict, Then, Changing, DesktopReads, TraceReads
<1>6. ~draining /\ q.op \in {"observe", "status", "act", "desktop"} => Verdict(q) = "ok"
  BY <1>1, <1>2, <1>3, <1>4 DEF Verdict, Then, Changing, DesktopReads, TraceReads
<1> QED BY <1>5, <1>6 DEF TokenErrors

LEMMA ProceedsOn ==
  ASSUME CuInv, Onwards, NEW k \in Commanding, Proceeds(k)
  PROVE  Proceeds(k)'
<1>1. /\ phase \in [Ids -> {"unborn", "live", "stopped", "lost"}] /\ written \subseteq Ids
      /\ k.listed \subseteq Ids /\ k.at \in CommandStages
  BY CommandsTyped DEF CuInv, AuthorityTypeOK, Commanding
<1>2. (\A s \in k.listed : WasBorn(s))'
  BY <1>1 DEF Onwards, Proceeds
<1>3. /\ k.at = "deleting" => phase'[k.gone] \in {"stopped", "lost"}
      /\ k.at = "saving" => k.on \in Ids /\ WasBorn(k.on)'
  BY <1>1 DEF Onwards, Proceeds, WasBorn
<1>4. k.call # NoCall /\ k.due =>
        k.call.id \in written /\ (phase[k.call.id] = "live" => CarriesToken(k.call))
  BY DEF Proceeds
<1>5. k.call # NoCall /\ k.due =>
        k.call.id \in written' /\ (phase'[k.call.id] = "live" => CarriesToken(k.call))
  BY <1>1, <1>4 DEF Onwards, FilesFit, CuInv
<1> QED BY <1>1, <1>2, <1>3, <1>5 DEF Proceeds, CarriesToken

\* A step of one command keeps the invariant if its own record and the files
\* come out right.
LEMMA CommandStepKeeps ==
  ASSUME CuInv, Onwards, AuthorityTypeOK', FilesFit',
         files' \subseteq Ids, written' \subseteq Ids, begun' \in 0..MaxCommands,
         NEW p \in Shells, NEW k \in Commanding,
         command' = [command EXCEPT ![p] = k], Proceeds(k)',
         lone' \in {p, Quiet}, lone' = p => Alone(k)'
  PROVE  CuInv'
<1>1. command \in [Shells -> Commanding]
  BY CommandsTyped DEF CuInv
<1>2. command' \in [Shells -> Commanding] /\ command'[p] = k
      /\ \A o \in Shells \ {p} : command'[o] = command[o]
  BY <1>1
<1>3. CuTypeOK'
  BY <1>2 DEF CuTypeOK, Commanding, CommandStages
<1>4. ASSUME NEW o \in Shells PROVE Proceeds(command[o])'
  <2>1. CASE o = p
    BY <1>2, <2>1
  <2>2. CASE o # p
    <3>1. Proceeds(command[o]) /\ command[o] \in Commanding /\ command'[o] = command[o]
      BY <1>1, <1>2, <2>2 DEF CuInv
    <3>2. PICK c \in Commanding : c = command[o] /\ c = command'[o] /\ Proceeds(c)
      BY <3>1
    <3>3. Proceeds(c)'
      BY <3>2, ProceedsOn
    <3> QED BY <3>2, <3>3
  <2> QED BY <2>1, <2>2
<1>5. lone' # Quiet => Alone(command[lone])'
  <2> SUFFICES ASSUME lone' # Quiet PROVE Alone(command[lone])'
    OBVIOUS
  <2>1. lone' = p /\ command'[lone'] = k
    BY <1>2
  <2> QED BY <2>1
<1> QED BY <1>3, <1>4, <1>5 DEF CuInv

\* A step that is no command's keeps it if no command is changed.
LEMMA OtherStepKeeps ==
  ASSUME CuInv, Onwards, AuthorityTypeOK', FilesFit', CuOnly, UNCHANGED command
  PROVE  CuInv'
<1>1. command \in [Shells -> Commanding] /\ CuTypeOK'
  BY CommandsTyped DEF CuInv, CuOnly, CuTypeOK
<1>2. ASSUME NEW o \in Shells PROVE Proceeds(command[o])'
  <2>1. Proceeds(command[o]) /\ command[o] \in Commanding /\ command'[o] = command[o]
    BY <1>1 DEF CuInv
  <2>2. PICK c \in Commanding : c = command[o] /\ c = command'[o] /\ Proceeds(c)
    BY <2>1
  <2>3. Proceeds(c)'
    BY <2>2, ProceedsOn
  <2> QED BY <2>2, <2>3
<1> QED BY <1>1, <1>2 DEF CuInv, CuOnly

\* What is not the sessions' or the files' leaves them as they fit.
LEMMA StillFits ==
  ASSUME CuInv, Reads
  PROVE  /\ Onwards /\ AuthorityTypeOK' /\ FilesFit' /\ Live' = Live
         /\ files' \subseteq Ids /\ written' \subseteq Ids
BY CommandsTyped DEF CuInv, Reads, Onwards, AuthorityTypeOK, FilesFit, Live, WasBorn,
   daemonVars, clientVars

LEMMA OpenedFits ==
  ASSUME CuInv, NEW s \in Ids, Opened(s)
  PROVE  /\ Onwards /\ AuthorityTypeOK' /\ FilesFit' /\ s \in Live'
         /\ ~draining /\ ~draining' /\ written' = written /\ files' = files
<1>1. ~draining
  BY DEF Opened, Verdict
<1>2. /\ phase \in [Ids -> {"unborn", "live", "stopped", "lost"}]
      /\ phase' = [phase EXCEPT ![s] = "live"] /\ phase[s] = "unborn"
  BY DEF Opened, CuInv, AuthorityTypeOK
<1>3. phase' \in [Ids -> {"unborn", "live", "stopped", "lost"}] /\ phase'[s] = "live"
      /\ \A x \in Ids \ {s} : phase'[x] = phase[x]
  BY <1>2
<1>4. AuthorityTypeOK'
  BY <1>3 DEF CuInv, AuthorityTypeOK, Opened, clientVars
<1>5. Onwards
  BY <1>2, <1>3 DEF Onwards, Opened, WasBorn
<1>6. FilesFit'
  BY <1>1, <1>2, <1>3, CommandsTyped DEF FilesFit, CuInv, Opened, WasBorn
<1> QED BY <1>1, <1>3, <1>4, <1>5, <1>6 DEF Live, Opened

\* A session ends; at most its own file goes.
LEMMA EndedFits ==
  ASSUME CuInv, NEW s \in Ids \cup {NoneHeld}, Ended(s),
         files' \in {files, files \ {s}}, written' = written
  PROVE  /\ Onwards /\ AuthorityTypeOK' /\ FilesFit' /\ Live' = Live \ {s}
         /\ files' \subseteq Ids /\ written' \subseteq Ids
<1>1. /\ phase \in [Ids -> {"unborn", "live", "stopped", "lost"}]
      /\ phase' = [phase EXCEPT ![s] = "stopped"]
  BY DEF Ended, CuInv, AuthorityTypeOK
<1>2. /\ phase' \in [Ids -> {"unborn", "live", "stopped", "lost"}]
      /\ s \in Ids => phase'[s] = "stopped"
      /\ \A x \in Ids \ {s} : phase'[x] = phase[x]
  BY <1>1
<1>3. AuthorityTypeOK'
  BY <1>2 DEF CuInv, AuthorityTypeOK, Ended, clientVars
<1>4. Onwards
  BY <1>2 DEF Onwards, WasBorn
<1>5. Live' = Live \ {s}
  BY <1>2 DEF Live
<1>6. FilesFit'
  BY <1>2, <1>5, CommandsTyped DEF FilesFit, CuInv, Ended, WasBorn
<1> QED BY <1>3, <1>4, <1>5, <1>6, CommandsTyped DEF CuInv
-----------------------------------------------------------------------------
(* The steps of a command. *)

LEMMA RecordsMove ==
  ASSUME NEW k \in Commanding, NEW at \in CommandStages, NEW on \in Ids \cup {NoneHeld},
         NEW auto \in BOOLEAN, NEW q \in Calling, NEW due \in BOOLEAN,
         NEW listed \in SUBSET Ids, NEW gone \in Ids \cup {NoneHeld}
  PROVE  [does |-> k.does, at |-> at, on |-> on, auto |-> auto, call |-> q, listed |-> listed,
          gone |-> gone, due |-> due] \in Commanding
BY DEF Commanding

LEMMA NothingTyped == NoCall \in Calling /\ NoCommand \in Commanding
BY DEF NoCall, NoCommand, Calling, Slot, Origin, Commanding, CommandStages

\* A command as it is and as a change of its stage and its session leaves it.
LEMMA CommandOf ==
  ASSUME CuInv, NEW p \in Shells
  PROVE  \E k \in Commanding :
           /\ k = command[p] /\ Proceeds(k)
           /\ lone = p => Alone(k)
           /\ p # Quiet
BY CommandsTyped, CuAssumption DEF CuInv

\* The step to another stage that asks for nothing.
LEMMA MoveKeeps ==
  ASSUME CuInv, Reads, NEW p \in Shells, NEW next \in CommandStages, To(p, next), Undisturbed(p),
         command[p].call = NoCall, command[p].at # "over",
         next \in Early => command[p].at \in Early,
         next = "stopping" => command[p].on \in Ids, next \notin {"deleting", "saving"},
         lone = p => \A k \in Commanding :
           Alone(command[p]) /\ k = [command[p] EXCEPT !.at = next] => Alone(k)'
  PROVE  CuInv'
<1>1. PICK k \in Commanding : k = command[p] /\ Proceeds(k) /\ (lone = p => Alone(k)) /\ p # Quiet
  BY CommandOf
<1> DEFINE m == [does |-> k.does, at |-> next, on |-> k.on, auto |-> k.auto, call |-> k.call,
                 listed |-> k.listed, gone |-> k.gone, due |-> k.due]
<1>2. m = [k EXCEPT !.at = next] /\ m \in Commanding
  BY RecordsMove DEF Commanding
<1>3. command' = [command EXCEPT ![p] = m]
  BY <1>1, <1>2 DEF To
<1>4. Proceeds(k)'
  BY <1>1, StillFits, ProceedsOn
<1>5. Proceeds(m)'
  BY <1>1, <1>4 DEF Proceeds
<1>6. lone = p => Alone(m)'
  BY <1>1, <1>2
<1>7. lone' \in {p, Quiet} /\ (lone' = p => lone = p)
  BY <1>1 DEF Undisturbed
<1>8. begun' \in 0..MaxCommands
  BY CommandsTyped DEF CuInv, Reads
<1> HIDE DEF m
<1> QED BY <1>2, <1>3, <1>5, <1>6, <1>7, <1>8, StillFits, CommandStepKeeps

LEMMA BeginsKeeps ==
  ASSUME CuInv, NEW p \in Shells, NEW kind \in CuKinds, NEW s \in Ids \cup {NoneHeld},
         CuBegins(p, kind, s)
  PROVE  CuInv'
<1>1. PICK next \in CommandStages \ {"over", "stopping", "deleting", "saving"} :
        /\ command' = [command EXCEPT ![p] =
                         [NoCommand EXCEPT !.does = kind, !.at = next, !.on = s]]
        /\ next \in {"frame", "ask"} \/ next \in Early
        /\ kind \in OneShots /\ s = NoneHeld => next = "resolve"
  BY DEF CuBegins, FirstStages, CommandStages, Early, OneShots, Acting
<1>2. PICK m \in Commanding :
        /\ m = [NoCommand EXCEPT !.does = kind, !.at = next, !.on = s]
        /\ m.does = kind /\ m.at = next /\ m.on = s /\ m.call = NoCall /\ ~m.due /\ m.listed = {}
  <2>1. PICK m : m = [NoCommand EXCEPT !.does = kind, !.at = next, !.on = s]
    OBVIOUS
  <2>2. NoCommand \in Commanding /\ next \in CommandStages
    BY NothingTyped
  <2>3. m \in Commanding
    BY <2>1, <2>2 DEF Commanding
  <2>4. /\ m.does = kind /\ m.at = next /\ m.on = s /\ m.call = NoCommand.call
        /\ m.due = NoCommand.due /\ m.listed = NoCommand.listed
    BY <2>1, <2>2 DEF Commanding
  <2> QED BY <2>1, <2>3, <2>4 DEF NoCommand
<1>3. begun' \in 0..MaxCommands
  BY CommandsTyped, CuAssumption DEF CuBegins, CuInv
<1>4. /\ Onwards /\ AuthorityTypeOK' /\ FilesFit' /\ Live' = Live /\ draining' = draining
      /\ files' \subseteq Ids /\ written' \subseteq Ids
  BY CommandsTyped DEF CuInv, CuBegins, Onwards, AuthorityTypeOK, FilesFit, Live, WasBorn,
     daemonVars, clientVars
<1>5. Proceeds(m)'
  BY <1>1, <1>2 DEF Proceeds, CuKinds, OneShots, Acting, Verbs, Traces
<1>6. lone' \in {p, Quiet} /\ (lone' = p => kind \in OneShots /\ next = "resolve"
                                            /\ Live = {} /\ ~draining)
  BY <1>1, CuAssumption DEF CuBegins
<1>7. lone' = p => Alone(m)'
  BY <1>2, <1>4, <1>6 DEF Alone
<1> QED BY <1>1, <1>2, <1>3, <1>4, <1>5, <1>6, <1>7, CommandStepKeeps

LEMMA FoundKeeps ==
  ASSUME CuInv, NEW p \in Shells, SessionFound(p)
  PROVE  CuInv'
<1>1. PICK k \in Commanding : k = command[p] /\ Proceeds(k) /\ (lone = p => Alone(k)) /\ p # Quiet
  BY CommandOf
<1>2. k.call = NoCall /\ k.at \in {"resolve", "lookup"} /\ Reads /\ Undisturbed(p)
  BY <1>1 DEF SessionFound, At
<1>3. CASE Live # {}
  <2>1. CASE ~draining
    <3>1. PICK s \in Live, next \in FirstStages(k.does) :
            command' = [command EXCEPT ![p].on = s, ![p].at = next]
      BY <1>1, <1>3, <2>1 DEF SessionFound
    <3>2. next \in {"frame", "ask"} /\ next \in CommandStages /\ s \in Ids
      BY DEF FirstStages, Live, CommandStages
    <3>3. PICK m : m = [k EXCEPT !.on = s, !.at = next]
      OBVIOUS
    <3>4. m \in Commanding /\ command' = [command EXCEPT ![p] = m]
      <4>1. m \in Commanding
        BY <3>2, <3>3 DEF Commanding
      <4> QED BY <1>1, <3>1, <3>3, <4>1, CommandsTyped DEF CuInv
    <3>5. Proceeds(m)'
      <4>1. Proceeds(k)'
        BY <1>1, <1>2, StillFits, ProceedsOn
      <4>2. /\ m.at = next /\ m.does = k.does /\ m.call = NoCall
            /\ m.listed = k.listed
        BY <1>2, <3>3 DEF Commanding
      <4>3. k.does # "nothing"
        BY <1>1, <1>2 DEF Proceeds
      <4> QED BY <3>2, <4>1, <4>2, <4>3 DEF Proceeds, Early
    <3>6. lone # p
      BY <1>1, <1>2, <1>3 DEF Alone
    <3>7. lone' = Quiet /\ begun' \in 0..MaxCommands
      BY <1>2, <3>6, CommandsTyped DEF Undisturbed, CuInv, Reads
    <3> QED BY <1>1, <1>2, <3>4, <3>5, <3>7, StillFits, CommandStepKeeps
  <2>2. CASE draining
    BY <1>3, <2>2 DEF CuInv, FilesFit
  <2> QED BY <2>1, <2>2
<1>4. CASE Live = {}
  <2>1. PICK next \in CommandStages :
          /\ To(p, next)
          /\ next \in {"starting", "leaving", "any"}
          /\ k.at = "resolve" /\ ~draining => next = "starting"
    BY <1>1, <1>4 DEF SessionFound, At, Unresolved, CommandStages
  <2>2. lone = p => \A m \in Commanding :
          Alone(command[p]) /\ m = [command[p] EXCEPT !.at = next] => Alone(m)'
    <3> SUFFICES ASSUME lone = p, NEW m \in Commanding, m = [k EXCEPT !.at = next] PROVE Alone(m)'
      BY <1>1
    <3>1. m.at = next /\ m.does = k.does /\ m.call = NoCall
      BY <1>2 DEF Commanding
    <3>2. k.at = "resolve" /\ ~draining /\ k.does \in OneShots
      BY <1>1, <1>2 DEF Alone
    <3>3. ~draining' /\ Live' = {}
      BY <1>2, <1>4, <3>2, StillFits DEF Reads, daemonVars
    <3> QED BY <2>1, <3>1, <3>2, <3>3 DEF Alone
  <2> QED BY <1>1, <1>2, <2>1, <2>2, MoveKeeps DEF Early
<1> QED BY <1>3, <1>4

LEMMA RefusedStartKeeps ==
  ASSUME CuInv, NEW p \in Shells, CuStartRefused(p)
  PROVE  CuInv'
<1>1. PICK k \in Commanding : k = command[p] /\ Proceeds(k) /\ (lone = p => Alone(k)) /\ p # Quiet
  BY CommandOf
<1>2. k.call = NoCall /\ k.at = "starting" /\ Reads /\ Undisturbed(p)
  BY <1>1 DEF CuStartRefused, At
<1>3. lone # p
  <2>1. draining \/ \E s \in Ids : phase[s] = "live"
    BY DEF CuStartRefused, Verdict, Bare
  <2> QED BY <1>1, <1>2, <2>1 DEF Alone, Live
<1>4. PICK next \in CommandStages : To(p, next) /\ next \in {"any", "leaving"}
  BY DEF CuStartRefused, Unresolved, CommandStages
<1> QED BY <1>1, <1>2, <1>3, <1>4, MoveKeeps DEF Early

LEMMA StartedKeeps ==
  ASSUME CuInv, NEW p \in Shells, NEW s \in Ids, CuStarted(p, s)
  PROVE  CuInv'
<1>1. PICK k \in Commanding : k = command[p] /\ Proceeds(k) /\ (lone = p => Alone(k)) /\ p # Quiet
  BY CommandOf
<1>2. k.call = NoCall /\ k.at = "starting" /\ Opened(s) /\ Undisturbed(p)
  BY <1>1 DEF CuStarted, At
<1>3. PICK m : m = [k EXCEPT !.on = s, !.at = "saving", !.auto = k.does # "start"]
  OBVIOUS
<1>4. m \in Commanding /\ command' = [command EXCEPT ![p] = m]
  <2>1. m \in Commanding
    BY <1>3 DEF Commanding, CommandStages
  <2> QED BY <1>1, <1>3, <2>1, CommandsTyped DEF CuInv, CuStarted
<1>5. /\ m.at = "saving" /\ m.does = k.does /\ m.call = NoCall /\ m.on = s
      /\ m.listed = k.listed /\ m.due = k.due
  BY <1>2, <1>3 DEF Commanding
<1>6. Proceeds(m)'
  <2>1. Proceeds(k)'
    BY <1>1, <1>2, OpenedFits, ProceedsOn
  <2>2. ~k.due /\ k.does # "nothing"
    BY <1>1, <1>2 DEF Proceeds, Early
  <2>3. WasBorn(s)'
    BY <1>2, OpenedFits DEF Live, WasBorn
  <2> QED BY <1>5, <2>1, <2>2, <2>3 DEF Proceeds, Early
<1>7. lone = p => Alone(m)'
  <2>1. lone = p => k.does \in OneShots
    BY <1>1, <1>2 DEF Alone
  <2> QED BY <1>2, <1>5, <2>1, OpenedFits DEF Alone
<1>8. lone' \in {p, Quiet} /\ (lone' = p => lone = p) /\ begun' \in 0..MaxCommands
  BY <1>1, <1>2, CommandsTyped DEF Undisturbed, CuInv, Opened
<1>9. files' \subseteq Ids /\ written' \subseteq Ids
  BY <1>2, OpenedFits, CommandsTyped DEF CuInv
<1> QED BY <1>2, <1>4, <1>6, <1>7, <1>8, <1>9, OpenedFits, CommandStepKeeps
\* The file of a session that cu started is written, or cannot be.
LEMMA SavesKeeps ==
  ASSUME CuInv, NEW p \in Shells, CuSaves(p)
  PROVE  CuInv'
<1>1. PICK k \in Commanding : k = command[p] /\ Proceeds(k) /\ (lone = p => Alone(k)) /\ p # Quiet
  BY CommandOf
<1>2. /\ k.call = NoCall /\ k.at = "saving" /\ ~k.due /\ k.does # "nothing"
      /\ UNCHANGED <<daemonVars, clientVars, begun>>
  BY <1>1 DEF CuSaves, At, Proceeds, Early
<1>3. PICK next \in CommandStages : To(p, next) /\ next \in {"leaving", "frame", "ask"}
  BY DEF CuSaves, FirstStages, CommandStages
<1>4. PICK m : m = [k EXCEPT !.at = next]
  OBVIOUS
<1>5. /\ m \in Commanding /\ command' = [command EXCEPT ![p] = m]
      /\ m.at = next /\ m.does = k.does /\ m.call = NoCall /\ m.on = k.on
      /\ m.listed = k.listed /\ m.due = k.due
  BY <1>1, <1>2, <1>3, <1>4, CommandsTyped DEF CuInv, To, Commanding
<1>6. /\ phase' = phase /\ Live' = Live /\ draining' = draining /\ AuthorityTypeOK'
      /\ phase \in [Ids -> {"unborn", "live", "stopped", "lost"}]
  BY <1>2 DEF CuInv, AuthorityTypeOK, daemonVars, clientVars, Live
<1>7. \/ Saved(p)
      \/ UNCHANGED <<files, written>> /\ lone' = Quiet
  BY DEF CuSaves
<1>8. begun' \in 0..MaxCommands /\ k.listed \subseteq Ids
  BY <1>2, CommandsTyped DEF CuInv, Commanding
<1>9. Proceeds(m)'
  <2>1. \A s \in k.listed : WasBorn(s)'
    BY <1>1, <1>6 DEF Proceeds, WasBorn
  <2> QED BY <1>2, <1>3, <1>5, <2>1 DEF Proceeds, Early
<1>10. CASE UNCHANGED <<files, written>> /\ lone' = Quiet
  <2>1. Onwards /\ FilesFit' /\ files' \subseteq Ids /\ written' \subseteq Ids
    BY <1>6, <1>10, CommandsTyped DEF CuInv, Onwards, FilesFit, WasBorn
  <2> QED BY <1>1, <1>5, <1>6, <1>8, <1>9, <1>10, <2>1, CommandStepKeeps
<1>11. CASE Saved(p)
  <2>1. files' = files \cup {k.on} /\ written' = written \cup {k.on} /\ k.on \in Ids
        /\ WasBorn(k.on)
    BY <1>1, <1>2, <1>11 DEF Saved, Proceeds
  <2>2. Onwards /\ FilesFit' /\ files' \subseteq Ids /\ written' \subseteq Ids
    BY <1>6, <2>1, CommandsTyped DEF CuInv, Onwards, FilesFit, WasBorn
  <2>3. lone' \in {p, Quiet} /\ (lone' = p => lone = p)
    BY <1>1, <1>11 DEF Saved, Undisturbed
  <2>4. lone = p => Alone(m)'
    BY <1>1, <1>2, <1>3, <1>5, <1>6, <1>11, <2>1 DEF Alone
  <2> QED BY <1>1, <1>5, <1>6, <1>8, <1>9, <2>2, <2>3, <2>4, CommandStepKeeps
<1> QED BY <1>7, <1>10, <1>11

LEMMA AuthenticatedTyped ==
  ASSUME NEW op \in Ops, NEW s \in Ids \cup {NoneHeld}, files \subseteq Ids
  PROVE  LET q == Authenticated(op, s)
         IN  /\ q \in Calling /\ q.op = op /\ q.id = s
             /\ s \in files => CarriesToken(q)
<1> DEFINE open == [op |-> op, id |-> s, obs |-> NoToken, ctl |-> NoToken, from |-> "none"]
<1>1. open = Bare(op, s, NoToken, NoToken) /\ open \in Calling
  BY DEF Bare, Calling, Slot, Origin
<1>2. CASE s \notin files
  BY <1>1, <1>2 DEF Authenticated
<1>3. CASE s \in files /\ op \in Changing
  <2>1. Authenticated(op, s) = [open EXCEPT !.ctl = <<s, "control">>] /\ <<s, "control">> \in Slot
    BY <1>1, <1>3 DEF Authenticated, Slot, Tokens
  <2>2. [open EXCEPT !.ctl = <<s, "control">>] =
          [op |-> op, id |-> s, obs |-> NoToken, ctl |-> <<s, "control">>, from |-> "none"]
    OBVIOUS
  <2> QED BY <1>1, <1>3, <2>1, <2>2 DEF CarriesToken, Calling
<1>4. CASE s \in files /\ op \notin Changing
  <2>1. /\ Authenticated(op, s) = [open EXCEPT !.obs = <<s, "observation">>]
        /\ <<s, "observation">> \in Slot
    BY <1>1, <1>4 DEF Authenticated, Slot, Tokens
  <2>2. [open EXCEPT !.obs = <<s, "observation">>] =
          [op |-> op, id |-> s, obs |-> <<s, "observation">>, ctl |-> NoToken, from |-> "none"]
    OBVIOUS
  <2> QED BY <1>1, <1>4, <2>1, <2>2 DEF CarriesToken, Calling
<1> QED BY <1>2, <1>3, <1>4

LEMMA OperationTyped ==
  ASSUME NEW p \in Shells, command[p] \in Commanding,
         command[p].at \in {"frame", "ask"}, command[p].does # "nothing"
  PROVE  /\ Operation(p) \in Ops
         /\ command[p].does \in OneShots => Operation(p) \in {"observe", "status", "act", "desktop"}
BY DEF Operation, Ops, Reading, TraceReads, DesktopReads, Changing, Commanding, CuKinds,
   OneShots, Acting, Verbs, Traces

LEMMA AsksKeeps ==
  ASSUME CuInv, NEW p \in Shells, CuAsks(p)
  PROVE  CuInv'
<1>1. PICK k \in Commanding : k = command[p] /\ Proceeds(k) /\ (lone = p => Alone(k)) /\ p # Quiet
  BY CommandOf
<1>2. k.call = NoCall /\ k.at \in {"frame", "ask"} /\ k.does # "nothing"
      /\ Reads /\ Undisturbed(p) /\ k.on \in Ids \cup {NoneHeld}
  BY <1>1 DEF CuAsks, At, Proceeds, Commanding
<1>3. PICK q \in Calling :
        /\ q = Authenticated(Operation(p), k.on)
        /\ q.op = Operation(p) /\ q.id = k.on /\ (k.on \in files => CarriesToken(q))
        /\ Operation(p) \in Ops
        /\ k.does \in OneShots => q.op \in {"observe", "status", "act", "desktop"}
  BY <1>1, <1>2, OperationTyped, AuthenticatedTyped, CommandsTyped DEF CuInv
<1> DEFINE due == k.on \in written
<1>0. due \in BOOLEAN
  OBVIOUS
<1>4. PICK m : m = [k EXCEPT !.call = q, !.due = due]
  OBVIOUS
<1>5. /\ m.at = k.at /\ m.does = k.does /\ m.call = q /\ m.on = k.on
      /\ m.listed = k.listed /\ (m.due => k.on \in written)
  BY <1>0, <1>1, <1>4 DEF Commanding
<1>6. m \in Commanding /\ command' = [command EXCEPT ![p] = m]
  <2>1. m = [k EXCEPT !.call = q, !.due = due]
    BY <1>4
  <2>2. m \in Commanding
    <3> HIDE DEF due
    <3> QED BY <1>0, <2>1 DEF Commanding
  <2>3. command' = [command EXCEPT ![p] = [k EXCEPT !.call = q, !.due = due]]
    BY <1>0, <1>1, <1>3, CommandsTyped DEF CuInv, CuAsks
  <2> QED BY <2>1, <2>2, <2>3
<1>7. Proceeds(k)' /\ phase' = phase /\ files' = files /\ written' = written
      /\ draining' = draining /\ Live' = Live
  BY <1>1, <1>2, StillFits, ProceedsOn DEF Reads, daemonVars
<1>8. Proceeds(m)'
  <2>1. m.due => m.call.id \in written /\ (phase[m.call.id] = "live" => CarriesToken(q))
    <3>1. k.on \in written /\ phase[k.on] = "live" => k.on \in files
      BY DEF CuInv, FilesFit
    <3> QED BY <1>3, <1>5, <3>1
  <2>2. \A s \in m.listed : WasBorn(s)'
    BY <1>5, <1>7 DEF Proceeds
  <2>3. m.at \in {"frame", "ask"} /\ m.does # "nothing"
    BY <1>2, <1>5
  <2> QED BY <1>5, <1>7, <2>1, <2>2, <2>3 DEF Proceeds, Early, CarriesToken
<1>9. lone = p => Alone(m)'
  <2> SUFFICES ASSUME Alone(k) PROVE Alone(m)'
    BY <1>1
  <2>1. ~draining /\ k.on \in Live /\ k.on \in files /\ k.does \in OneShots
    BY <1>2 DEF Alone
  <2> QED BY <1>2, <1>3, <1>5, <1>7, <2>1 DEF Alone, CarriesToken
<1>10. lone' \in {p, Quiet} /\ (lone' = p => lone = p) /\ begun' \in 0..MaxCommands
  BY <1>1, <1>2, CommandsTyped DEF Undisturbed, CuInv, Reads
<1> QED BY <1>2, <1>6, <1>8, <1>9, <1>10, StillFits, CommandStepKeeps

LEMMA AsksWithAnyKeeps ==
  ASSUME CuInv, NEW p \in Shells, CuAsksWithAny(p)
  PROVE  CuInv'
<1>1. PICK k \in Commanding : k = command[p] /\ Proceeds(k) /\ (lone = p => Alone(k)) /\ p # Quiet
  BY CommandOf
<1>2. k.call = NoCall /\ k.at = "any" /\ k.does # "nothing" /\ ~k.due /\ Reads /\ Undisturbed(p)
  BY <1>1 DEF CuAsksWithAny, At, Proceeds, Early
<1>3. PICK s \in Ids \cup {NoneHeld} :
        command' = [command EXCEPT ![p].at = "ask", ![p].call = Authenticated("desktop", s)]
  BY CommandsTyped DEF CuAsksWithAny, CuInv
<1>4. PICK q \in Calling : q = Authenticated("desktop", s)
  BY AuthenticatedTyped, CommandsTyped DEF CuInv, Ops, DesktopReads
<1>5. PICK m : m = [k EXCEPT !.at = "ask", !.call = q]
  OBVIOUS
<1>6. /\ m.at = "ask" /\ m.does = k.does /\ m.call = q
      /\ m.listed = k.listed /\ m.due = k.due
  BY <1>5 DEF Commanding
<1>7. m \in Commanding /\ command' = [command EXCEPT ![p] = m]
  <2>1. m \in Commanding
    BY <1>5 DEF Commanding, CommandStages
  <2> QED BY <1>1, <1>3, <1>4, <1>5, <2>1, CommandsTyped DEF CuInv
<1>8. Proceeds(m)'
  <2>1. Proceeds(k)'
    BY <1>1, <1>2, StillFits, ProceedsOn
  <2> QED BY <1>2, <1>6, <2>1 DEF Proceeds, Early
<1>9. lone' = Quiet /\ begun' \in 0..MaxCommands
  <2>1. lone # p
    BY <1>1, <1>2 DEF Alone
  <2> QED BY <1>2, <2>1, CommandsTyped DEF Undisturbed, CuInv, Reads
<1> QED BY <1>1, <1>2, <1>7, <1>8, <1>9, StillFits, CommandStepKeeps

\* An answer puts the call away, whatever else it changes.
LEMMA AnswerPutsAway ==
  ASSUME CuInv, Onwards, NEW p \in Shells, NEW next \in {"ask", "leaving"}, Finished(p, next),
         command[p].call # NoCall
  PROVE  \E m \in Commanding :
           /\ command' = [command EXCEPT ![p] = m] /\ Proceeds(m)'
           /\ m.at = next /\ m.call = NoCall /\ m.on = command[p].on
           /\ m.does = command[p].does
<1>1. PICK k \in Commanding : k = command[p] /\ Proceeds(k) /\ (lone = p => Alone(k)) /\ p # Quiet
  BY CommandOf
<1>2. k.at \in {"frame", "ask"} /\ k.does # "nothing"
  BY <1>1 DEF Proceeds
<1>3. PICK m : m = [k EXCEPT !.call = NoCall, !.at = next]
  OBVIOUS
<1>4. /\ m.at = next /\ m.does = k.does /\ m.call = NoCall /\ m.on = k.on
      /\ m.listed = k.listed
  BY <1>3 DEF Commanding
<1>5. m \in Commanding /\ command' = [command EXCEPT ![p] = m]
  <2>1. m \in Commanding
    BY <1>3, NothingTyped DEF Commanding, CommandStages
  <2> QED BY <1>1, <1>3, <2>1, CommandsTyped DEF CuInv, Finished
<1>6. Proceeds(m)'
  <2>1. Proceeds(k)'
    BY <1>1, ProceedsOn
  <2> QED BY <1>2, <1>4, <2>1 DEF Proceeds, Early
<1> QED BY <1>1, <1>4, <1>5, <1>6

LEMMA AnsweredKeeps ==
  ASSUME CuInv, NEW p \in Shells, CuAnswered(p)
  PROVE  CuInv'
<1>1. PICK k \in Commanding : k = command[p] /\ Proceeds(k) /\ (lone = p => Alone(k)) /\ p # Quiet
  BY CommandOf
<1>2. k.call # NoCall /\ k.at \in {"frame", "ask"} /\ Reads /\ Undisturbed(p)
  BY <1>1 DEF CuAnswered, Proceeds
<1>3. PICK next \in {"ask", "leaving"} : Finished(p, next)
  BY DEF CuAnswered
<1>4. PICK m \in Commanding :
        /\ command' = [command EXCEPT ![p] = m] /\ Proceeds(m)'
        /\ m.at = next /\ m.call = NoCall /\ m.on = k.on /\ m.does = k.does
  BY <1>1, <1>2, <1>3, StillFits, AnswerPutsAway
<1>5. lone = p => Alone(m)'
  <2> SUFFICES ASSUME Alone(k) PROVE Alone(m)'
    BY <1>1
  <2>1. ~draining /\ k.on \in Live /\ k.on \in files /\ k.does \in OneShots
    BY <1>2 DEF Alone
  <2>2. ~draining' /\ Live' = Live /\ files' = files
    BY <1>2, <2>1, StillFits DEF Reads, daemonVars
  <2> QED BY <1>4, <2>1, <2>2 DEF Alone
<1>6. lone' \in {p, Quiet} /\ (lone' = p => lone = p) /\ begun' \in 0..MaxCommands
  BY <1>1, <1>2, CommandsTyped DEF Undisturbed, CuInv, Reads
<1> QED BY <1>2, <1>4, <1>5, <1>6, StillFits, CommandStepKeeps

LEMMA StopAnsweredKeeps ==
  ASSUME CuInv, NEW p \in Shells, CuStopAnswered(p)
  PROVE  CuInv'
<1>1. PICK k \in Commanding : k = command[p] /\ Proceeds(k) /\ (lone = p => Alone(k)) /\ p # Quiet
  BY CommandOf
<1>2. /\ k.call.op = "stop" /\ Finished(p, "leaving") /\ Undisturbed(p)
      /\ written' = written /\ begun' = begun /\ k.on \in Ids \cup {NoneHeld}
  BY <1>1 DEF CuStopAnswered, Commanding
<1>3. k.call # NoCall
  BY <1>2 DEF NoCall
<1>4. \/ Ended(k.on) /\ files' = files \ {k.on}
      \/ UNCHANGED <<daemonVars, clientVars, files>>
  BY <1>1 DEF CuStopAnswered
<1>5. /\ Onwards /\ AuthorityTypeOK' /\ FilesFit'
      /\ files' \subseteq Ids /\ written' \subseteq Ids
  <2>1. CASE Ended(k.on) /\ files' = files \ {k.on}
    BY <1>2, <2>1, EndedFits
  <2>2. CASE UNCHANGED <<daemonVars, clientVars, files>>
    BY <1>2, <2>2, StillFits DEF Reads
  <2> QED BY <1>4, <2>1, <2>2
<1>6. lone' = Quiet /\ begun' \in 0..MaxCommands
  <2>1. lone # p
    BY <1>1, <1>2, <1>3 DEF Alone
  <2> QED BY <1>2, <2>1, CommandsTyped DEF Undisturbed, CuInv
<1>7. PICK m \in Commanding : command' = [command EXCEPT ![p] = m] /\ Proceeds(m)'
  BY <1>1, <1>2, <1>3, <1>5, AnswerPutsAway
<1> QED BY <1>1, <1>5, <1>6, <1>7, CommandStepKeeps
\* A command that is over has nothing left to go wrong.
LEMMA OverFits == Proceeds(NoCommand)' /\ Alone(NoCommand)'
<1>1. NoCommand.at = "over" /\ NoCommand.call = NoCall /\ NoCommand.listed = {}
  BY DEF NoCommand
<1> HIDE DEF NoCommand
<1> QED BY <1>1 DEF Proceeds, Alone, Early

LEMMA LeavesKeeps ==
  ASSUME CuInv, NEW p \in Shells, CuLeaves(p)
  PROVE  CuInv'
<1>1. PICK k \in Commanding : k = command[p] /\ Proceeds(k) /\ (lone = p => Alone(k)) /\ p # Quiet
  BY CommandOf
<1>2. k.call = NoCall /\ k.at = "leaving" /\ Reads /\ Undisturbed(p)
  BY <1>1 DEF CuLeaves, At
<1>3. CASE k.auto /\ k.on \in files
  <2>1. To(p, "stopping") /\ k.on \in Ids
    BY <1>1, <1>3, CommandsTyped DEF CuLeaves, CuInv
  <2>2. lone = p => \A m \in Commanding :
          Alone(command[p]) /\ m = [command[p] EXCEPT !.at = "stopping"] => Alone(m)'
    <3> SUFFICES ASSUME NEW m \in Commanding, Alone(k), m = [k EXCEPT !.at = "stopping"]
                 PROVE  Alone(m)'
      BY <1>1
    <3>1. m.at = "stopping" /\ m.does = k.does /\ m.call = NoCall
      BY <1>2 DEF Commanding
    <3> QED BY <1>2, <3>1 DEF Alone
  <2> QED BY <1>1, <1>2, <2>1, <2>2, MoveKeeps DEF Early, CommandStages
<1>4. CASE ~(k.auto /\ k.on \in files)
  <2>1. command' = [command EXCEPT ![p] = NoCommand]
    BY <1>1, <1>4 DEF CuLeaves
  <2>2. lone' \in {p, Quiet} /\ begun' \in 0..MaxCommands
    BY <1>2, CommandsTyped DEF Undisturbed, CuInv, Reads
  <2> QED BY <1>2, <2>1, <2>2, OverFits, NothingTyped, StillFits, CommandStepKeeps
<1> QED BY <1>3, <1>4

\* A file goes whose session does not live.
LEMMA FileGoes ==
  ASSUME CuInv, NEW s \in Ids \cup {NoneHeld}, s \in Ids => phase[s] # "live",
         UNCHANGED <<daemonVars, clientVars, written>>, files' = files \ {s}
  PROVE  /\ Onwards /\ AuthorityTypeOK' /\ FilesFit'
         /\ files' \subseteq Ids /\ written' \subseteq Ids
BY CommandsTyped DEF CuInv, Onwards, AuthorityTypeOK, FilesFit, Live, WasBorn, daemonVars, clientVars

\* The stop of a session that lives is not refused to who has its control token.
LEMMA LiveIsStopped ==
  ASSUME CuInv, NEW s \in Ids, phase[s] = "live"
  PROVE  Verdict(Bare("stop", s, NoToken, <<s, "control">>)) = "ok"
<1>1. ~draining /\ Known(s)
  BY DEF CuInv, FilesFit, Live, Known
<1> QED BY <1>1 DEF Verdict, VerifyControl, Bare, DesktopReads, TraceReads

LEMMA AutoStoppedKeeps ==
  ASSUME CuInv, NEW p \in Shells, AutoStopped(p)
  PROVE  CuInv'
<1>1. PICK k \in Commanding : k = command[p] /\ Proceeds(k) /\ (lone = p => Alone(k)) /\ p # Quiet
  BY CommandOf
<1>2. k.at = "stopping" /\ k.on \in Ids /\ Undisturbed(p) /\ UNCHANGED <<written, begun>>
      /\ command' = [command EXCEPT ![p] = NoCommand] /\ files' = files \ {k.on}
  BY <1>1 DEF AutoStopped, At, Proceeds
<1>3. /\ Onwards /\ AuthorityTypeOK' /\ FilesFit'
      /\ files' \subseteq Ids /\ written' \subseteq Ids
  <2>1. CASE Ended(k.on)
    BY <1>2, <2>1, EndedFits
  <2>2. CASE UNCHANGED <<daemonVars, clientVars>> /\ phase[k.on] # "live"
    BY <1>2, <2>2, FileGoes
  <2>3. Ended(k.on) \/ (UNCHANGED <<daemonVars, clientVars>> /\ phase[k.on] # "live")
    BY <1>1, <1>2, LiveIsStopped DEF AutoStopped
  <2> QED BY <2>1, <2>2, <2>3
<1>4. lone' \in {p, Quiet} /\ begun' \in 0..MaxCommands
  BY <1>2, CommandsTyped DEF Undisturbed, CuInv
<1> QED BY <1>2, <1>3, <1>4, OverFits, NothingTyped, CommandStepKeeps

-----------------------------------------------------------------------------
(* Pruning. *)

LEMMA PruneListsKeeps ==
  ASSUME CuInv, NEW p \in Shells, PruneLists(p)
  PROVE  CuInv'
<1>1. PICK k \in Commanding : k = command[p] /\ Proceeds(k) /\ (lone = p => Alone(k)) /\ p # Quiet
  BY CommandOf
<1>2. k.call = NoCall /\ k.at = "listing" /\ ~k.due /\ k.does # "nothing"
      /\ Reads /\ Undisturbed(p)
  BY <1>1 DEF PruneLists, At, Proceeds, Early
<1>3. PICK m : m = [k EXCEPT !.at = "pruning", !.listed = files]
  OBVIOUS
<1>4. m.at = "pruning" /\ m.does = k.does /\ m.call = NoCall /\ m.listed = files /\ m.due = k.due
  BY <1>2, <1>3 DEF Commanding
<1>5. m \in Commanding /\ command' = [command EXCEPT ![p] = m]
  <2>1. m \in Commanding
    BY <1>3, CommandsTyped DEF Commanding, CommandStages, CuInv
  <2> QED BY <1>1, <1>3, <2>1, CommandsTyped DEF CuInv, PruneLists
<1>6. Proceeds(m)'
  <2>1. \A s \in files : WasBorn(s)'
    BY <1>2, CommandsTyped DEF CuInv, FilesFit, WasBorn, Reads, daemonVars
  <2> QED BY <1>2, <1>4, <2>1 DEF Proceeds, Early
<1>7. lone' = Quiet /\ begun' \in 0..MaxCommands
  <2>1. lone # p
    BY <1>1, <1>2 DEF Alone
  <2> QED BY <1>2, <2>1, CommandsTyped DEF Undisturbed, CuInv, Reads
<1> QED BY <1>1, <1>2, <1>5, <1>6, <1>7, StillFits, CommandStepKeeps

LEMMA PruneProbesKeeps ==
  ASSUME CuInv, NEW p \in Shells, NEW s \in Ids, PruneProbes(p, s)
  PROVE  CuInv'
<1>1. PICK k \in Commanding : k = command[p] /\ Proceeds(k) /\ (lone = p => Alone(k)) /\ p # Quiet
  BY CommandOf
<1>2. k.call = NoCall /\ k.at = "pruning" /\ ~k.due /\ k.does # "nothing"
      /\ Reads /\ Undisturbed(p) /\ s \in k.listed
  BY <1>1 DEF PruneProbes, At, Proceeds, Early
<1>3. lone' = Quiet /\ begun' \in 0..MaxCommands
  <2>1. lone # p
    BY <1>1, <1>2 DEF Alone
  <2> QED BY <1>2, <2>1, CommandsTyped DEF Undisturbed, CuInv, Reads
<1>4. Proceeds(k)' /\ phase' = phase
  BY <1>1, <1>2, StillFits, ProceedsOn DEF Reads, daemonVars
<1>5. CASE Live = {} /\ ~draining
  <2>1. PICK m : m = [k EXCEPT !.at = "deleting", !.gone = s]
    OBVIOUS
  <2>2. m.at = "deleting" /\ m.does = k.does /\ m.call = NoCall /\ m.listed = k.listed
        /\ m.due = k.due /\ m.gone = s
    BY <1>2, <2>1 DEF Commanding
  <2>3. m \in Commanding /\ command' = [command EXCEPT ![p] = m]
    <3>1. m \in Commanding
      BY <2>1 DEF Commanding, CommandStages
    <3> QED BY <1>1, <1>5, <2>1, <3>1, CommandsTyped DEF CuInv, PruneProbes
  <2>4. phase[s] \in {"stopped", "lost"}
    BY <1>1, <1>2, <1>5 DEF Proceeds, WasBorn, Live, CuInv, AuthorityTypeOK
  <2>5. Proceeds(m)'
    BY <1>2, <1>4, <2>2, <2>4 DEF Proceeds, Early
  <2> QED BY <1>1, <1>2, <1>3, <2>3, <2>5, StillFits, CommandStepKeeps
<1>6. CASE ~(Live = {} /\ ~draining)
  <2>1. PICK m : m = [k EXCEPT !.listed = @ \ {s}]
    OBVIOUS
  <2>2. m.at = "pruning" /\ m.does = k.does /\ m.call = NoCall /\ m.listed = k.listed \ {s}
        /\ m.due = k.due
    BY <1>2, <2>1 DEF Commanding
  <2>3. m \in Commanding /\ command' = [command EXCEPT ![p] = m]
    <3>1. m \in Commanding
      BY <2>1 DEF Commanding
    <3> QED BY <1>1, <1>6, <2>1, <3>1, CommandsTyped DEF CuInv, PruneProbes
  <2>4. Proceeds(m)'
    BY <1>2, <1>4, <2>2 DEF Proceeds, Early
  <2> QED BY <1>1, <1>2, <1>3, <2>3, <2>4, StillFits, CommandStepKeeps
<1> QED BY <1>5, <1>6

LEMMA PruneDeletesKeeps ==
  ASSUME CuInv, NEW p \in Shells, PruneDeletes(p)
  PROVE  CuInv'
<1>1. PICK k \in Commanding : k = command[p] /\ Proceeds(k) /\ (lone = p => Alone(k)) /\ p # Quiet
  BY CommandOf
<1>2. /\ k.call = NoCall /\ k.at = "deleting" /\ ~k.due /\ k.does # "nothing"
      /\ k.gone \in Ids /\ phase[k.gone] # "live" /\ files' = files \ {k.gone}
      /\ UNCHANGED <<daemonVars, clientVars, written, begun>> /\ Undisturbed(p)
  BY <1>1 DEF PruneDeletes, Deleting, At, Proceeds, Early
<1>3. /\ Onwards /\ AuthorityTypeOK' /\ FilesFit'
      /\ files' \subseteq Ids /\ written' \subseteq Ids
  BY <1>2, FileGoes
<1>4. PICK m : m = [k EXCEPT !.at = "pruning", !.gone = NoneHeld, !.listed = @ \ {k.gone}]
  OBVIOUS
<1>5. m.at = "pruning" /\ m.does = k.does /\ m.call = NoCall /\ m.listed = k.listed \ {k.gone}
      /\ m.due = k.due
  BY <1>2, <1>4 DEF Commanding
<1>6. m \in Commanding /\ command' = [command EXCEPT ![p] = m]
  <2>1. m \in Commanding
    BY <1>4 DEF Commanding, CommandStages
  <2> QED BY <1>1, <1>4, <2>1, CommandsTyped DEF CuInv, PruneDeletes, Deleting
<1>7. Proceeds(m)'
  <2>1. Proceeds(k)'
    BY <1>1, <1>3, ProceedsOn
  <2> QED BY <1>2, <1>5, <2>1 DEF Proceeds, Early
<1>8. lone' = Quiet /\ begun' \in 0..MaxCommands
  <2>1. lone # p
    BY <1>1, <1>2 DEF Alone
  <2> QED BY <1>2, <2>1, CommandsTyped DEF Undisturbed, CuInv
<1> QED BY <1>1, <1>3, <1>6, <1>7, <1>8, CommandStepKeeps

LEMMA PruneEndsKeeps ==
  ASSUME CuInv, NEW p \in Shells, PruneEnds(p)
  PROVE  CuInv'
<1>1. PICK k \in Commanding : k = command[p] /\ Proceeds(k) /\ (lone = p => Alone(k)) /\ p # Quiet
  BY CommandOf
<1>2. k.call = NoCall /\ k.at = "pruning" /\ Reads /\ Undisturbed(p)
  BY <1>1 DEF PruneEnds, At
<1>3. PICK next \in CommandStages : To(p, next) /\ next \in {"lookup", "ask"}
  BY DEF PruneEnds, CommandStages
<1>4. lone # p
  BY <1>1, <1>2 DEF Alone
<1> QED BY <1>1, <1>2, <1>3, <1>4, MoveKeeps DEF Early
-----------------------------------------------------------------------------
(* Everybody else's steps. *)

LEMMA HostsKeep ==
  ASSUME CuInv, NEW s \in Ids, HostOpens(s) \/ HostEnds(s)
  PROVE  CuInv'
<1>1. CASE HostOpens(s)
  <2>1. Opened(s) /\ UNCHANGED command /\ CuOnly
    BY <1>1 DEF HostOpens, Opened, CuOnly
  <2> QED BY <2>1, OpenedFits, OtherStepKeeps
<1>2. CASE HostEnds(s)
  <2>1. Ended(s) /\ CuOnly /\ UNCHANGED command /\ files' = files /\ written' = written
    BY <1>2 DEF HostEnds, CuOnly
  <2> QED BY <2>1, EndedFits, OtherStepKeeps
<1> QED BY <1>1, <1>2

LEMMA DaemonDrainsKeeps ==
  ASSUME CuInv, DaemonDrains
  PROVE  CuInv'
<1>1. Drains /\ CuOnly /\ UNCHANGED command /\ files' = files /\ written' = written
  BY DEF DaemonDrains, CuOnly
<1>2. /\ phase' \in [Ids -> {"unborn", "live", "stopped", "lost"}]
      /\ \A s \in Ids : phase'[s] # "live" /\ (WasBorn(s) => WasBorn(s)')
  BY <1>1 DEF Drains, CuInv, AuthorityTypeOK, WasBorn
<1>3. AuthorityTypeOK'
  BY <1>1, <1>2 DEF Drains, CuInv, AuthorityTypeOK, clientVars
<1>4. Onwards /\ FilesFit'
  BY <1>1, <1>2, CommandsTyped DEF CuInv, Onwards, FilesFit, Live
<1> QED BY <1>1, <1>3, <1>4, OtherStepKeeps

LEMMA DaemonRestartedKeeps ==
  ASSUME CuInv, DaemonRestarted
  PROVE  CuInv'
<1>1. /\ DaemonReplaced(version) /\ CuOnly
      /\ files' = files /\ written' = written /\ begun' = begun /\ lone' = Quiet
      /\ command \in [Shells -> Commanding]
  BY CommandsTyped DEF DaemonRestarted, CuOnly, CuInv
<1>2. /\ phase' \in [Ids -> {"unborn", "live", "stopped", "lost"}]
      /\ \A s \in Ids : phase'[s] # "live" /\ (WasBorn(s) => WasBorn(s)')
  BY <1>1 DEF DaemonReplaced, CuInv, AuthorityTypeOK, WasBorn
<1>3. AuthorityTypeOK'
  <2>1. request' \in [Callers -> Calling] /\ upgrades' \in 0..MaxUpgrades
    BY <1>1, NothingTyped, AuthorityAssumption DEF DaemonReplaced, CuInv, AuthorityTypeOK
  <2> QED BY <1>1, <1>2, <2>1 DEF DaemonReplaced, CuInv, AuthorityTypeOK
<1>4. Onwards /\ FilesFit'
  BY <1>1, <1>2, CommandsTyped DEF CuInv, Onwards, FilesFit, Live
<1>5. ASSUME NEW p \in Shells
      PROVE  command'[p] \in Commanding /\ Proceeds(command[p])'
  <2>1. PICK k \in Commanding : k = command[p] /\ Proceeds(k)
    BY CommandOf
  <2>2. Proceeds(k)'
    BY <1>4, <2>1, ProceedsOn
  <2>3. CASE k.call = NoCall
    BY <2>1, <2>2, <2>3 DEF DaemonRestarted
  <2>4. CASE k.call # NoCall
    <3>1. PICK m : m = [k EXCEPT !.call = NoCall, !.at = "leaving"]
      OBVIOUS
    <3>2. m \in Commanding
      BY <3>1, NothingTyped DEF Commanding, CommandStages
    <3>3. m.at = "leaving" /\ m.does = k.does /\ m.call = NoCall /\ m.listed = k.listed
      BY <3>1 DEF Commanding
    <3>4. k.does # "nothing"
      BY <2>1, <2>4 DEF Proceeds
    <3>5. Proceeds(m)'
      BY <2>2, <3>3, <3>4 DEF Proceeds, Early
    <3>6. command'[p] = m
      BY <2>1, <2>4, <3>1 DEF DaemonRestarted
    <3> QED BY <3>2, <3>5, <3>6
  <2> QED BY <2>3, <2>4
<1>6. CuTypeOK'
  <2>1. command' \in [Shells -> Commanding]
    BY <1>5 DEF DaemonRestarted
  <2> QED BY <1>1, <2>1 DEF CuInv, CuTypeOK, Commanding, CommandStages
<1> QED BY <1>1, <1>3, <1>4, <1>5, <1>6 DEF CuInv

-----------------------------------------------------------------------------
LEMMA CuInvInit == CuInit => CuInv
<1> SUFFICES ASSUME CuInit PROVE CuInv
  OBVIOUS
<1>1. AuthorityTypeOK
  <2>1. /\ NoCred \in [id : Ids \cup {NoneHeld}, obs : Slot, ctl : Slot, from : Origin]
        /\ NoCall \in Calling
    BY NothingTyped DEF NoCred, Slot, Origin
  <2>2. /\ phase \in [Ids -> {"unborn", "live", "stopped", "lost"}] /\ inManifest \subseteq Ids
    BY DEF CuInit
  <2>3. NobodyLinked /\ upgrades \in 0..MaxUpgrades /\ passed \in 0..MaxHandovers
    BY AuthorityAssumption DEF CuInit, NobodyLinked
  <2>4. /\ credential \in [Callers -> [id : Ids \cup {NoneHeld}, obs : Slot, ctl : Slot, from : Origin]]
        /\ request \in [Callers -> Calling] /\ given \in [Callers -> SUBSET Tokens]
    BY <2>1, <2>3 DEF NobodyLinked
  <2> QED BY <2>2, <2>3, <2>4 DEF NobodyLinked, AuthorityTypeOK
<1>2. CuTypeOK
  <2>1. command \in [Shells -> Commanding]
    BY NothingTyped DEF CuInit
  <2> QED BY <2>1, CuAssumption DEF CuInit, CuTypeOK, Commanding, CommandStages
<1>3. FilesFit
  BY DEF CuInit, FilesFit, WasBorn, NobodyLinked, Live
<1>4. \A p \in Shells : Proceeds(command[p])
  <2>1. NoCommand.at = "over" /\ NoCommand.call = NoCall /\ NoCommand.listed = {}
    BY DEF NoCommand
  <2>2. \A p \in Shells : command[p] = NoCommand
    BY DEF CuInit
  <2> HIDE DEF NoCommand
  <2> QED BY <2>1, <2>2 DEF Proceeds, Early
<1> QED BY <1>1, <1>2, <1>3, <1>4 DEF CuInv, CuInit

LEMMA CuStepKeeps ==
  ASSUME CuInv, NEW p \in Shells, CuStep(p)
  PROVE  CuInv'
BY FoundKeeps, RefusedStartKeeps, SavesKeeps, AsksKeeps, AsksWithAnyKeeps, AnsweredKeeps,
   StopAnsweredKeeps, LeavesKeeps, AutoStoppedKeeps, PruneListsKeeps, PruneDeletesKeeps,
   PruneEndsKeeps, StartedKeeps, PruneProbesKeeps DEF CuStep

LEMMA CuInvStep ==
  ASSUME CuInv, [CuNext]_cuVars
  PROVE  CuInv'
<1>1. CASE UNCHANGED cuVars
  <2>1. UNCHANGED <<phase, inManifest, version, draining, upgrades, linked, credential, request,
                    given, passed, files, written, command, begun, lone>>
    BY <1>1 DEF cuVars, daemonVars, clientVars, shellVars
  <2> QED BY <2>1 DEF CuInv, AuthorityTypeOK, CuTypeOK, FilesFit, Proceeds, Alone, WasBorn, Live, CarriesToken
<1>2. CASE CuNext
  BY <1>2, CuStepKeeps, BeginsKeeps, HostsKeep, DaemonDrainsKeeps, DaemonRestartedKeeps DEF CuNext
<1> QED BY <1>1, <1>2

LEMMA CuInvAlways == CuSpec => []CuInv
<1> QED BY CuInvInit, CuInvStep, PTL DEF CuSpec

-----------------------------------------------------------------------------
(* What the invariant says of a step. *)

\* A file is deleted for a session that does not live then.
LEMMA FilesGoWithSessions ==
  ASSUME CuInv, CuNext
  PROVE  \A s \in files \ files' : phase'[s] # "live"
<1> SUFFICES ASSUME files' # files PROVE \A s \in files \ files' : phase'[s] # "live"
  OBVIOUS
<1>1. phase \in [Ids -> {"unborn", "live", "stopped", "lost"}] /\ files \subseteq Ids
  BY CommandsTyped DEF CuInv, AuthorityTypeOK
<1>2. ASSUME NEW p \in Shells, CuSaves(p)
      PROVE  files \subseteq files'
  BY <1>2 DEF CuSaves, Saved
<1>3. ASSUME NEW p \in Shells, CuStopAnswered(p)
      PROVE  \A s \in files \ files' : phase'[s] # "live"
  BY <1>1, <1>3 DEF CuStopAnswered, Ended
<1>4. ASSUME NEW p \in Shells, AutoStopped(p)
      PROVE  \A s \in files \ files' : phase'[s] # "live"
  <2>1. command[p].on \in Ids /\ files' = files \ {command[p].on}
    BY <1>4 DEF AutoStopped, At, CuInv, Proceeds
  <2>2. phase[command[p].on] = "live" => Ended(command[p].on)
    BY <1>4, <2>1, LiveIsStopped DEF AutoStopped
  <2>3. Ended(command[p].on) \/ phase' = phase
    BY <1>4 DEF AutoStopped, daemonVars
  <2> QED BY <1>1, <2>1, <2>2, <2>3 DEF Ended
<1>5. ASSUME NEW p \in Shells, PruneDeletes(p)
      PROVE  \A s \in files \ files' : phase'[s] # "live"
  BY <1>5 DEF PruneDeletes, Deleting, At, CuInv, Proceeds, daemonVars
<1>6. ASSUME NEW p \in Shells, CuStep(p)
      PROVE  \/ CuSaves(p) \/ CuStopAnswered(p) \/ AutoStopped(p) \/ PruneDeletes(p)
             \/ files' = files
  BY <1>6 DEF CuStep, SessionFound, CuStartRefused, CuAsks, CuAsksWithAny, CuAnswered, CuLeaves,
     PruneLists, PruneEnds, PruneProbes, CuStarted, Opened, Reads
<1>7. ASSUME NEW p \in Shells, CuStep(p)
      PROVE  \A s \in files \ files' : phase'[s] # "live"
  BY <1>2, <1>3, <1>4, <1>5, <1>6, <1>7
<1>8. (\E p \in Shells : CuStep(p)) \/ files' = files
  BY DEF CuNext, CuBegins, HostOpens, HostEnds, Opened, DaemonDrains, DaemonRestarted, CuOnly
<1> QED BY <1>7, <1>8

LEMMA RefusedDeservedly ==
  ASSUME CuInv, NEW p \in Shells, RefusedNow(p)
  PROVE  /\ lone # p
         /\ LET q == command[p].call
            IN  Verdict(q) \in TokenErrors => ~(command[p].due /\ phase[q.id] = "live")
<1>1. PICK k \in Commanding : k = command[p] /\ Proceeds(k) /\ (lone = p => Alone(k)) /\ p # Quiet
  BY CommandOf
<1>2. k.call # NoCall /\ k.call \in Calling /\ Verdict(k.call) # "ok" /\ k.at \in {"frame", "ask"}
  BY <1>1 DEF RefusedNow, Commanding, Proceeds
<1>3. lone # p
  <2> SUFFICES ASSUME Alone(k) PROVE FALSE
    BY <1>1
  <2>1. /\ k.call.id = k.on /\ CarriesToken(k.call) /\ ~draining /\ k.on \in Live
        /\ k.call.op \in {"observe", "status", "act", "desktop"}
    BY <1>2 DEF Alone
  <2> QED BY <1>2, <2>1, CarriedIsAdmitted DEF Live
<1>4. ASSUME k.due, phase[k.call.id] = "live"
      PROVE  Verdict(k.call) \notin TokenErrors
  <2>1. k.call.id \in Ids /\ CarriesToken(k.call)
    BY <1>1, <1>2, <1>4, CommandsTyped DEF Proceeds, CuInv
  <2> QED BY <1>2, <1>4, <2>1, CarriedIsAdmitted
<1> QED BY <1>1, <1>3, <1>4

\* Every variable of the daemon's tokens and of cu's commands has its type, for
\* any numbers of sessions, processes, commands and restarts.
THEOREM CuCommandTypes == CuSpec => [](AuthorityTypeOK /\ CuTypeOK)
<1>1. CuInv => AuthorityTypeOK /\ CuTypeOK
  BY DEF CuInv
<1> QED BY <1>1, CuInvAlways, PTL

\* A live session keeps the file that was written for it, whoever prunes or
\* leaves; a command that asks then is not refused for its tokens; and one that
\* found no session and met nobody is served by the session it starts: for any
\* numbers of processes, commands, sessions and daemon restarts.
THEOREM CommandsAreServed == CuSpec => CommandsWork
<1>1. CuInv /\ [CuNext]_cuVars => [LiveSessionsKeepTokens /\ LoneCommandServed]_cuVars
  <2> SUFFICES ASSUME CuInv, CuNext
               PROVE  LiveSessionsKeepTokens /\ LoneCommandServed
    OBVIOUS
  <2> QED BY FilesGoWithSessions, RefusedDeservedly DEF LiveSessionsKeepTokens, LoneCommandServed
<1> QED BY <1>1, CuInvAlways, PTL DEF CuSpec, CommandsWork

=============================================================================
