-------------------------- MODULE HostSessionsProofs --------------------------
(***************************************************************************)
(* Theorems about HostSessions, for any number of hosts, calls, sessions   *)
(* and restarts: its types, that the calls of a client share one session   *)
(* and the token of a live one is never dropped, and that hosts and        *)
(* one-shot commands that have gone left no session behind.                *)
(*                                                                         *)
(* The argument, in layers.  Sessions start once and end for good, at most *)
(* one is active, and answers go on being true (Ground).  Tokens on their  *)
(* way to the slot that asked for them are known to nobody else, so nobody *)
(* else can stop that session, and a client without a connection has none  *)
(* that lives (SharingInv: SingleFlight, Wired, Carried).  Hence the       *)
(* holder of a live session has its token, or it is under way, and what    *)
(* its ensureSession is asking is about that session (HeldFast, Resolves). *)
(* While a host is calm its owner's marks follow the credential (Owned),   *)
(* so the stop it sends on its way out is of the session it holds.         *)
(***************************************************************************)
EXTENDS HostSessions, TLAPS

Waiting(h, k) == call[h][k].does \in Asked /\ call[h][k].says = "nothing"
Carries(h, k, s) == call[h][k] = [does |-> "start", on |-> s, says |-> "ok"]
By(h, k) == [who |-> h, how |-> IF k \in Tools THEN "tool" ELSE "ensure"]
Holds(h, s) == state[s] = "active" /\ starter[s].who = h

\* The daemon's side: one session at most is active, and it has the lock.
Locked == \A s \in SessionIds : state[s] = "active" <=> lockHolder = s
Lasting == \A s \in SessionIds : state[s] = "lost" => restarts > 0

\* An answer speaks the truth of its session, and goes on doing so.
AnswersTrue ==
  \A h \in Hosts, k \in Slots :
    /\ call[h][k].says = "gone" => state[call[h][k].on] = "lost"
    /\ call[h][k].does = "stop" /\ call[h][k].says = "ok" => state[call[h][k].on] \in {"stopped", "lost"}

\* Nobody has heard of a session that is not started yet.
Unborn ==
  \A s \in SessionIds : state[s] = "none" =>
    /\ s \notin store /\ cliSession # s /\ auto # s
    /\ \A h \in Hosts : cred[h] # s /\ remembered[h] # s
    /\ \A h \in Hosts, k \in Slots : call[h][k].on # s

Ground == Locked /\ Lasting /\ AnswersTrue /\ Unborn

\* A client resolves its session once at a time.
SingleFlight ==
  \A h \in Hosts, j, k \in Flows : j \in Resolving(h) /\ k \in Resolving(h) => j = k

\* A client without a connection waits for no answer, and has no session that
\* lives; one that never had a connection is given no tokens.
Wired ==
  \A h \in Hosts :
    /\ wire[h] # "open" /\ life[h] # "exited" =>
         /\ \A k \in Slots : ~Waiting(h, k)
         /\ \A s \in SessionIds : ~Holds(h, s)
    /\ wire[h] = "none" => \A k \in Slots, s \in SessionIds : ~Carries(h, k, s)
    /\ life[h] = "exited" => wire[h] = "closed"

\* Tokens that have not arrived yet are known to nobody.
Secret(s) ==
  s \notin store /\ cliSession # s /\ \A h \in Hosts : cred[h] # s /\ remembered[h] # s
Carried ==
  \A h \in Hosts, k \in Slots, s \in SessionIds : Carries(h, k, s) =>
    /\ starter[s] = By(h, k) /\ state[s] \in {"active", "lost"} /\ Secret(s)
    /\ \A g \in Hosts, j \in Slots : call[g][j].on = s /\ call[g][j].says # "refused" =>
          g = h /\ j = k
    /\ state[s] = "lost" /\ life[h] # "exited" => wire[h] = "closed"

\* Who started a live session has its token, or it is under way.  A session
\* of its tool may be forgotten over a restart of the daemon, one of
\* ensureSession not even then.
HeldFast ==
  \A h \in Hosts, s \in SessionIds :
    Holds(h, s) /\ life[h] # "exited" /\ (starter[s].how = "ensure" \/ restarts = 0) =>
      cred[h] = s \/ \E k \in Slots : Carries(h, k, s)

\* While ensureSession's session lives, its other calls ask about it and start
\* no second one.
Resolves ==
  \A h \in Hosts, k \in Flows, s \in SessionIds :
    LET q == call[h][k]
    IN  Holds(h, s) /\ starter[s].how = "ensure" =>
          /\ q.does = "status" => q.on = s
          /\ ~(q.does = "summary" /\ q.says # "lost")
          /\ ~(q.does = "start" /\ q.says = "nothing")

\* What being calm means: the daemon was not restarted, a call of the tool is
\* alone, what is asked is about the credential, and an exit waits for its stop.
Steady ==
  \A h \in Hosts : calm[h] =>
    /\ restarts = 0
    /\ \A k \in Tools : call[h][k] # Idle => \A j \in Slots : j # k => call[h][j] = Idle
    /\ \A k \in Flows \union Tools : call[h][k].does \in {"status", "stop"} => call[h][k].on = cred[h]
    /\ life[h] # "running" => \A k \in Flows \union Tools : call[h][k] = Idle
    /\ life[h] = "exited" => ~Waiting(h, Exit)

\* A calm host's marks are those of the session it holds, and when it leaves
\* it is stopping that one.
Kept(h, s) ==
  /\ hostKind[h] = "pi" => remembered[h] = s /\ owns[h]
  /\ hostKind[h] = "mcp" /\ starter[s].how # "ensure" => owns[h]
Owned ==
  \A h \in Hosts, s \in SessionIds :
    calm[h] /\ Holds(h, s) =>
      /\ life[h] # "exited" /\ cred[h] = s => Kept(h, s)
      /\ life[h] = "leaving" /\ ~(hostKind[h] = "mcp" /\ starter[s].how = "ensure") =>
           call[h][Exit] = Ask("stop", s)
Leavers == \A h \in Hosts : life[h] # "running" => hostKind[h] # "app"

-----------------------------------------------------------------------------
HostCalls == [does : Asked \union {"nothing", "joined"}, on : MaybeSession, says : Answers]

\* What a slot is used for, and the calls that are about a session.
Uses(k) ==
  IF k \in Flows THEN {"nothing", "joined", "status", "summary", "start"}
  ELSE IF k \in Tools THEN {"nothing", "start", "stop"} ELSE {"nothing", "stop"}
Fitting(k) ==
  {q \in HostCalls :
     /\ q.does \in Uses(k)
     /\ q.does = "nothing" => q.on = NoId
     /\ q.does \in {"nothing", "joined"} => q.says = "nothing"
     /\ q.does \in {"status", "stop"} \/ q.says \in {"ok", "gone", "refused"} => q.on # NoId}

DaemonTyped ==
  /\ state \in [SessionIds -> {"none", "active", "stopped", "lost"}]
  /\ starter \in [SessionIds -> [who : Hosts \union {Cli, Nobody},
                               how : {"none", "ensure", "tool", "cli"}]]
  /\ lockHolder \in MaybeSession /\ restarts \in 0..MaxRestarts
ClientsTyped ==
  /\ hostKind \in [Hosts -> HostKinds]
  /\ wire \in [Hosts -> {"none", "open", "closed"}]
  /\ cred \in [Hosts -> MaybeSession]
  /\ remembered \in [Hosts -> MaybeSession]
  /\ owns \in [Hosts -> BOOLEAN]
  /\ life \in [Hosts -> {"running", "leaving", "exited"}]
  /\ calm \in [Hosts -> BOOLEAN]
CallsTyped ==
  /\ call \in [Hosts -> [Slots -> HostCalls]]
  /\ \A h \in Hosts, k \in Slots : call[h][k] \in Fitting(k)
\* The one-shot command has a session once it was granted one.
CommandTyped ==
  /\ store \subseteq SessionIds
  /\ cli \in {"idle", "starting", "granted", "saved", "working", "stopping", "over"}
  /\ cliSession \in MaybeSession /\ auto \in {NoId, cliSession}
  /\ handler \in {"none", "stopping", "done"} /\ spared \in BOOLEAN
  /\ cli \in {"granted", "saved", "working", "stopping"} \/ handler = "stopping" => cliSession # NoId
  /\ cli \in {"idle", "starting"} => cliSession = NoId
HostTypes == DaemonTyped /\ ClientsTyped /\ CallsTyped /\ CommandTyped

LEMMA IdIsNoSession == NoId \notin SessionIds /\ NoId \in MaybeSession /\ SessionIds \subseteq MaybeSession
BY HostAssumption DEF NoId, SessionIds, MaybeSession

LEMMA RecordsAreCalls ==
  \A what \in Asked \union {"nothing", "joined"}, s \in MaybeSession, a \in Answers :
     [does |-> what, on |-> s, says |-> a] \in HostCalls
BY IdIsNoSession DEF HostCalls

LEMMA IdleFits == \A k \in Slots : Idle \in Fitting(k)
BY RecordsAreCalls, IdIsNoSession DEF Idle, Fitting, HostCalls, Uses, Asked, Answers

LEMMA HostTypesSplit == HostTypes => HostTypeOK
BY IdIsNoSession DEF HostTypes, HostTypeOK, DaemonTyped, ClientsTyped, CallsTyped, CommandTyped, HostCalls

LEMMA HostTypesInit == HostInit => HostTypes
<1> SUFFICES ASSUME HostInit PROVE HostTypes OBVIOUS
<1>1. DaemonTyped
  BY HostAssumption, IdIsNoSession DEF HostInit, DaemonTyped
<1>2. ClientsTyped
  BY IdIsNoSession DEF HostInit, ClientsTyped
<1>3. CallsTyped
  <2>1. \A k \in Slots : Idle \in Fitting(k) /\ Idle \in HostCalls
    BY IdleFits DEF Fitting
  <2> QED BY <2>1 DEF HostInit, CallsTyped
<1>4. CommandTyped
  BY IdIsNoSession DEF HostInit, CommandTyped
<1> QED BY <1>1, <1>2, <1>3, <1>4 DEF HostTypes

-----------------------------------------------------------------------------
(* How the calls change. *)

\* One call is asked, answered or taken.
OneCall(h, k, q) == call' = [call EXCEPT ![h][k] = q]

LEMMA OneCallTyped ==
  ASSUME CallsTyped, NEW h \in Hosts, NEW k \in Slots, NEW q \in Fitting(k), OneCall(h, k, q)
  PROVE  /\ CallsTyped'
         /\ \A g \in Hosts, j \in Slots : call'[g][j] = IF g = h /\ j = k THEN q ELSE call[g][j]
<1>1. q \in HostCalls
  BY DEF Fitting
<1>2. /\ call' \in [Hosts -> [Slots -> HostCalls]]
      /\ \A g \in Hosts, j \in Slots : call'[g][j] = IF g = h /\ j = k THEN q ELSE call[g][j]
  BY <1>1 DEF CallsTyped, OneCall
<1> QED BY <1>2 DEF CallsTyped

\* What a request is when it is sent, on a connection or without one.
Sending(h, what, s) ==
  [does |-> what, on |-> s, says |-> IF wire[h] = "open" THEN "nothing" ELSE "lost"]

LEMMA SendsOne ==
  ASSUME NEW h \in Hosts, NEW k \in Slots, NEW what \in Asked \cap Uses(k), NEW s \in MaybeSession,
         what \in {"status", "stop"} => s # NoId, Sends(h, k, what, s)
  PROVE  OneCall(h, k, Sending(h, what, s)) /\ Sending(h, what, s) \in Fitting(k)
<1>1. Sending(h, what, s) \in HostCalls
  BY RecordsAreCalls DEF Sending, Answers
<1>2. Sending(h, what, s) \in Fitting(k)
  BY <1>1 DEF Sending, Fitting, Asked
<1>3. IF wire[h] = "open" THEN Sending(h, what, s) = Ask(what, s)
      ELSE Sending(h, what, s) = [Ask(what, s) EXCEPT !.says = "lost"]
  BY DEF Sending, Ask
<1> QED BY <1>2, <1>3 DEF Sends, OneCall

\* An answer, to what was asked.
Saying(h, k, what) == [does |-> call[h][k].does, on |-> call[h][k].on, says |-> what]

LEMMA SaysOne ==
  ASSUME CallsTyped, NEW h \in Hosts, NEW k \in Slots, NEW what \in Answers, Says(h, k, what),
         call[h][k].does \in {"status", "summary", "start", "stop"},
         what \in {"ok", "gone", "refused"} => call[h][k].on # NoId
  PROVE  OneCall(h, k, Saying(h, k, what)) /\ Saying(h, k, what) \in Fitting(k)
<1>1. call[h][k] \in Fitting(k) /\ call[h][k] \in HostCalls
  BY DEF CallsTyped, Fitting
<1>2. [call[h][k] EXCEPT !.says = what] = Saying(h, k, what) /\ Saying(h, k, what) \in HostCalls
  BY <1>1 DEF HostCalls, Saying
<1>3. call' = [call EXCEPT ![h][k] = [call[h][k] EXCEPT !.says = what]]
  BY DEF Says, CallsTyped
<1>4. Saying(h, k, what) \in Fitting(k)
  BY <1>1, <1>2 DEF Fitting, Saying
<1> QED BY <1>2, <1>3, <1>4 DEF OneCall

LEMMA SettledTyped ==
  ASSUME CallsTyped, NEW h \in Hosts, NEW k \in Slots, Settled(h, k)
  PROVE  /\ CallsTyped'
         /\ \A g \in Hosts, j \in Slots :
              call'[g][j] = IF g = h /\ (j = k \/ (j \in Flows /\ call[g][j].does = "joined"))
                            THEN Idle ELSE call[g][j]
<1>1. \A j \in Slots : Idle \in Fitting(j) /\ Idle \in HostCalls
  BY IdleFits DEF Fitting
<1>2. \A g \in Hosts, j \in Slots :
        call'[g][j] = IF g = h /\ (j = k \/ (j \in Flows /\ call[g][j].does = "joined"))
                      THEN Idle ELSE call[g][j]
  BY DEF Settled, CallsTyped
<1>3. call' \in [Hosts -> [Slots -> HostCalls]]
  BY <1>1 DEF Settled, CallsTyped
<1> QED BY <1>1, <1>2, <1>3 DEF CallsTyped

-----------------------------------------------------------------------------
(* What each action does to the calls; the types. *)

\* Slot (h, k) holds q, the others what they held.
Sets(h, k, q) ==
  /\ CallsTyped'
  /\ \A g \in Hosts, j \in Slots : call'[g][j] = IF g = h /\ j = k THEN q ELSE call[g][j]
Settles(h, k) ==
  /\ CallsTyped'
  /\ \A g \in Hosts, j \in Slots :
       call'[g][j] = IF g = h /\ (j = k \/ (j \in Flows /\ call[g][j].does = "joined"))
                     THEN Idle ELSE call[g][j]

LEMMA SendsSets ==
  ASSUME CallsTyped, NEW h \in Hosts, NEW k \in Slots, NEW what \in Asked \cap Uses(k),
         NEW s \in MaybeSession, what \in {"status", "stop"} => s # NoId, Sends(h, k, what, s)
  PROVE  Sets(h, k, Sending(h, what, s))
BY SendsOne, OneCallTyped DEF Sets

LEMMA SaysSets ==
  ASSUME CallsTyped, NEW h \in Hosts, NEW k \in Slots, NEW what \in Answers, Says(h, k, what),
         call[h][k].does \in {"status", "summary", "start", "stop"},
         what \in {"ok", "gone", "refused"} => call[h][k].on # NoId
  PROVE  Sets(h, k, Saying(h, k, what))
BY SaysOne, OneCallTyped DEF Sets

LEMMA IdleSets ==
  ASSUME CallsTyped, NEW h \in Hosts, NEW k \in Slots, OneCall(h, k, Idle)
  PROVE  Sets(h, k, Idle)
BY IdleFits, OneCallTyped DEF Sets

LEMMA SlotsAreApart ==
  \A k \in Slots : /\ k \in Flows => Uses(k) = {"nothing", "joined", "status", "summary", "start"}
                   /\ k \in Tools => Uses(k) = {"nothing", "start", "stop"}
                   /\ k = Exit => Uses(k) = {"nothing", "stop"}
                   /\ k \in Flows \/ k \in Tools \/ k = Exit
BY HostAssumption DEF Slots, Uses

LEMMA SlotsHold == Flows \subseteq Slots /\ Tools \subseteq Slots /\ Exit \in Slots
BY DEF Slots

LEMMA CallsFit ==
  ASSUME CallsTyped, NEW h \in Hosts, NEW k \in Slots
  PROVE  /\ call[h][k].does \in Uses(k) /\ call[h][k].on \in MaybeSession
         /\ call[h][k].says \in Answers
         /\ call[h][k].does \in Asked \union {"nothing", "joined"}
         /\ call[h][k] = [does |-> call[h][k].does, on |-> call[h][k].on, says |-> call[h][k].says]
         /\ call[h][k].does = "nothing" => call[h][k] = Idle
         /\ call[h][k].does \in {"nothing", "joined"} => call[h][k].says = "nothing"
         /\ call[h][k].does \in {"status", "stop"} \/ call[h][k].says \in {"ok", "gone", "refused"}
              => call[h][k].on # NoId /\ call[h][k].on \in SessionIds
<1>1. call[h][k] \in Fitting(k) /\ call[h][k] \in HostCalls
  BY DEF CallsTyped, Fitting
<1>2. call[h][k] = [does |-> call[h][k].does, on |-> call[h][k].on, says |-> call[h][k].says]
  BY <1>1 DEF HostCalls
<1>3. call[h][k].on # NoId => call[h][k].on \in SessionIds
  BY <1>1 DEF HostCalls, MaybeSession
<1>4. /\ call[h][k].does \in Uses(k) /\ call[h][k].on \in MaybeSession
      /\ call[h][k].says \in Answers
      /\ call[h][k].does \in Asked \union {"nothing", "joined"}
  BY <1>1 DEF Fitting, HostCalls
<1>5. /\ call[h][k].does = "nothing" => call[h][k].on = NoId
      /\ call[h][k].does \in {"nothing", "joined"} => call[h][k].says = "nothing"
      /\ call[h][k].does \in {"status", "stop"} \/ call[h][k].says \in {"ok", "gone", "refused"}
              => call[h][k].on # NoId
  BY <1>1 DEF Fitting
<1>6. call[h][k].does = "nothing" => call[h][k] = Idle
  BY <1>2, <1>5 DEF Idle
<1> QED BY <1>2, <1>3, <1>4, <1>5, <1>6

LEMMA StatusHandledDoes ==
  ASSUME CallsTyped, NEW h \in Hosts, NEW k \in Slots, StatusHandled(h, k)
  PROVE  /\ Sets(h, k, [does |-> "status", on |-> call[h][k].on,
                        says |-> IF state[call[h][k].on] = "lost" THEN "gone" ELSE "ok"])
         /\ Waiting(h, k) /\ call[h][k].does = "status" /\ call[h][k].on \in SessionIds
<1>1. Waiting(h, k) /\ call[h][k].does = "status" /\ call[h][k].on \in SessionIds /\ call[h][k].on # NoId
  BY CallsFit DEF StatusHandled, Waits, Waiting, Asked
<1> DEFINE w == IF state[call[h][k].on] = "lost" THEN "gone" ELSE "ok"
<1>2. w \in Answers /\ Says(h, k, w)
  BY DEF StatusHandled, Answers
<1>3. Sets(h, k, Saying(h, k, w))
  BY <1>1, <1>2, SaysSets
<1> QED BY <1>1, <1>3 DEF Saying

LEMMA SummaryHandledDoes ==
  ASSUME CallsTyped, NEW h \in Hosts, NEW k \in Slots, SummaryHandled(h, k)
  PROVE  /\ Sets(h, k, [does |-> "summary", on |-> call[h][k].on,
                        says |-> IF lockHolder = NoId THEN "free" ELSE "found"])
         /\ Waiting(h, k) /\ call[h][k].does = "summary"
<1>1. Waiting(h, k) /\ call[h][k].does = "summary"
  BY DEF SummaryHandled, Waits, Waiting, Asked
<1> DEFINE w == IF lockHolder = NoId THEN "free" ELSE "found"
<1>2. w \in Answers /\ Says(h, k, w) /\ w \notin {"ok", "gone", "refused"}
  BY DEF SummaryHandled, Answers
<1>3. Sets(h, k, Saying(h, k, w))
  BY <1>1, <1>2, SaysSets
<1> QED BY <1>1, <1>3 DEF Saying

LEMMA StartHandledDoes ==
  ASSUME CallsTyped, NEW h \in Hosts, NEW k \in Slots, StartHandled(h, k)
  PROVE  \E s \in SessionIds :
           /\ Starts(h, IF k \in Tools THEN "tool" ELSE "ensure", s)
           /\ Sets(h, k, [does |-> "start", on |-> s, says |-> "ok"])
           /\ Waiting(h, k) /\ call[h][k].does = "start" /\ k \in Flows \union Tools
<1>1. Waiting(h, k) /\ call[h][k].does = "start" /\ "start" \in Uses(k)
  BY CallsFit DEF StartHandled, Waits, Waiting, Asked
<1>2. PICK s \in SessionIds :
        /\ Starts(h, IF k \in Tools THEN "tool" ELSE "ensure", s)
        /\ OneCall(h, k, [does |-> "start", on |-> s, says |-> "ok"])
  BY DEF StartHandled, OneCall
<1>3. [does |-> "start", on |-> s, says |-> "ok"] \in Fitting(k)
  BY <1>1, RecordsAreCalls, IdIsNoSession DEF Fitting, Asked, Answers
<1> QED BY <1>1, <1>2, <1>3, OneCallTyped, SlotsAreApart DEF Sets

LEMMA StartRefusedDoes ==
  ASSUME CallsTyped, DaemonTyped, NEW h \in Hosts, NEW k \in Slots, StartRefused(h, k)
  PROVE  /\ lockHolder \in SessionIds
         /\ Sets(h, k, [does |-> "start", on |-> lockHolder, says |-> "refused"])
         /\ Waiting(h, k) /\ call[h][k].does = "start"
<1>1. Waiting(h, k) /\ call[h][k].does = "start" /\ "start" \in Uses(k)
  BY CallsFit DEF StartRefused, Waits, Waiting, Asked
<1>2. lockHolder \in SessionIds /\ lockHolder # NoId
  BY DEF StartRefused, DaemonTyped, MaybeSession
<1>3. [does |-> "start", on |-> lockHolder, says |-> "refused"] \in Fitting(k)
  BY <1>1, <1>2, RecordsAreCalls, IdIsNoSession DEF Fitting, Asked, Answers
<1>4. OneCall(h, k, [does |-> "start", on |-> lockHolder, says |-> "refused"])
  BY DEF StartRefused, OneCall
<1>5. Sets(h, k, [does |-> "start", on |-> lockHolder, says |-> "refused"])
  <2> DEFINE q == [does |-> "start", on |-> lockHolder, says |-> "refused"]
  <2>1. q \in Fitting(k) /\ OneCall(h, k, q)
    BY <1>3, <1>4
  <2> HIDE DEF q
  <2>2. Sets(h, k, q)
    BY <2>1, OneCallTyped DEF Sets
  <2> QED BY <2>2 DEF q
<1> QED BY <1>1, <1>2, <1>5

LEMMA StopHandledDoes ==
  ASSUME CallsTyped, NEW h \in Hosts, NEW k \in Slots, StopHandled(h, k)
  PROVE  /\ \/ /\ Stops(call[h][k].on)
               /\ Sets(h, k, [does |-> "stop", on |-> call[h][k].on, says |-> "ok"])
            \/ /\ state[call[h][k].on] = "lost" /\ UNCHANGED serverVars
               /\ Sets(h, k, [does |-> "stop", on |-> call[h][k].on, says |-> "gone"])
         /\ Waiting(h, k) /\ call[h][k].does = "stop" /\ call[h][k].on \in SessionIds
<1>1. Waiting(h, k) /\ call[h][k].does = "stop" /\ call[h][k].on \in SessionIds /\ call[h][k].on # NoId
  BY CallsFit DEF StopHandled, Waits, Waiting, Asked
<1>2. CASE Stops(call[h][k].on) /\ Says(h, k, "ok")
  <2>1. Sets(h, k, Saying(h, k, "ok"))
    BY <1>1, <1>2, SaysSets DEF Answers
  <2> QED BY <1>1, <1>2, <2>1 DEF Saying
<1>3. CASE state[call[h][k].on] = "lost" /\ Says(h, k, "gone") /\ UNCHANGED serverVars
  <2>1. Sets(h, k, Saying(h, k, "gone"))
    BY <1>1, <1>3, SaysSets DEF Answers
  <2> QED BY <1>1, <1>3, <2>1 DEF Saying
<1> QED BY <1>2, <1>3 DEF StopHandled

LEMMA EnsureBeginsDoes ==
  ASSUME CallsTyped, ClientsTyped, NEW h \in Hosts, NEW k \in Flows, EnsureBegins(h, k)
  PROVE  /\ Sets(h, k, Sending(h, First(h), cred[h]))
         /\ call[h][k].does = "nothing" /\ Resolving(h) = {} /\ life[h] = "running"
         /\ First(h) = IF cred[h] # NoId THEN "status" ELSE "summary"
<1>1. First(h) \in Asked \cap Uses(k) /\ k \in Slots
  BY SlotsAreApart, SlotsHold DEF First, Asked
<1>2. cred[h] \in MaybeSession /\ (First(h) \in {"status", "stop"} => cred[h] # NoId)
  BY DEF ClientsTyped, First
<1>3. Sets(h, k, Sending(h, First(h), cred[h]))
  BY <1>1, <1>2, SendsSets DEF EnsureBegins
<1> QED BY <1>3 DEF EnsureBegins, Ready, Runs, Idle, First

LEMMA EnsureJoinsDoes ==
  ASSUME CallsTyped, NEW h \in Hosts, NEW k \in Flows, EnsureJoins(h, k)
  PROVE  /\ Sets(h, k, [does |-> "joined", on |-> NoId, says |-> "nothing"])
         /\ call[h][k].does = "nothing" /\ Resolving(h) # {} /\ life[h] = "running"
<1> DEFINE q == [does |-> "joined", on |-> NoId, says |-> "nothing"]
<1>1. [Idle EXCEPT !.does = "joined"] = q
  BY DEF Idle
<1>2. k \in Slots /\ q \in Fitting(k)
  BY SlotsHold, SlotsAreApart, RecordsAreCalls, IdIsNoSession DEF Fitting, Answers
<1>3. OneCall(h, k, q)
  BY <1>1 DEF EnsureJoins, OneCall
<1>4. Sets(h, k, q)
  <2> HIDE DEF q
  <2> QED BY <1>2, <1>3, OneCallTyped DEF Sets
<1> QED BY <1>4 DEF EnsureJoins, Ready, Runs, Idle

LEMMA StatusGoneDoes ==
  ASSUME CallsTyped, NEW h \in Hosts, NEW k \in Flows, StatusGone(h, k)
  PROVE  Sets(h, k, Sending(h, "summary", NoId))
BY SlotsHold, SlotsAreApart, SendsSets, IdIsNoSession DEF StatusGone, Asked

LEMMA SummaryArrivesDoes ==
  ASSUME CallsTyped, NEW h \in Hosts, NEW k \in Flows, SummaryArrives(h, k)
  PROVE  Sets(h, k, Sending(h, "start", NoId))
BY SlotsHold, SlotsAreApart, SendsSets, IdIsNoSession DEF SummaryArrives, Asked

LEMMA EnsureEndsDoes ==
  ASSUME CallsTyped, NEW h \in Hosts, NEW k \in Flows,
         EnsureFinds(h, k) \/ EnsureStarts(h, k) \/ EnsureFails(h, k)
  PROVE  Settles(h, k)
BY SlotsHold, SettledTyped DEF EnsureFinds, EnsureStarts, EnsureFails, Settles

LEMMA ToolStartsDoes ==
  ASSUME CallsTyped, NEW h \in Hosts, NEW k \in Tools, ToolStarts(h, k)
  PROVE  Sets(h, k, Sending(h, "start", NoId)) /\ call[h][k] = Idle /\ life[h] = "running"
BY SlotsHold, SlotsAreApart, SendsSets, IdIsNoSession DEF ToolStarts, Asked, Ready, Runs

LEMMA ToolStopsDoes ==
  ASSUME CallsTyped, ClientsTyped, NEW h \in Hosts, NEW k \in Tools, ToolStops(h, k)
  PROVE  Sets(h, k, Sending(h, "stop", cred[h])) /\ call[h][k] = Idle /\ life[h] = "running"
BY SlotsHold, SlotsAreApart, SendsSets DEF ToolStops, Asked, ClientsTyped, Ready, Runs

LEMMA ToolEndsDoes ==
  ASSUME CallsTyped, NEW h \in Hosts, NEW k \in Tools,
         ToolStarted(h, k) \/ ToolStopped(h, k) \/ ToolFails(h, k)
  PROVE  Sets(h, k, Idle)
BY SlotsHold, IdleSets DEF ToolStarted, ToolStopped, ToolFails, OneCall

LEMMA ExitBeginsDoes ==
  ASSUME CallsTyped, ClientsTyped, NEW h \in Hosts, ExitBegins(h)
  PROVE  LET s == IF hostKind[h] = "pi" THEN remembered[h] ELSE cred[h]
         IN  /\ s \in MaybeSession
             /\ owns[h] /\ s # NoId => Sets(h, Exit, Sending(h, "stop", s))
             /\ ~(owns[h] /\ s # NoId) => call' = call
<1> DEFINE s == IF hostKind[h] = "pi" THEN remembered[h] ELSE cred[h]
<1>1. s \in MaybeSession
  BY DEF ClientsTyped
<1>2. ~(owns[h] /\ s # NoId) => call' = call
  BY DEF ExitBegins
<1>3. ASSUME owns[h], s # NoId PROVE Sets(h, Exit, Sending(h, "stop", s))
  <2>1. Sends(h, Exit, "stop", s)
    BY <1>3 DEF ExitBegins
  <2>2. Exit \in Slots /\ "stop" \in Asked \cap Uses(Exit)
    BY SlotsHold, SlotsAreApart DEF Asked
  <2> HIDE DEF s
  <2> QED BY <1>1, <1>3, <2>1, <2>2, SendsSets
<1> QED BY <1>1, <1>2, <1>3

LEMMA DaemonRestartsDoes ==
  ASSUME CallsTyped, DaemonRestarts
  PROVE  /\ CallsTyped'
         /\ \A h \in Hosts, k \in Slots :
              /\ call'[h][k].does = call[h][k].does /\ call'[h][k].on = call[h][k].on
              /\ Waiting(h, k) => call'[h][k].says = "lost"
              /\ ~Waiting(h, k) => call'[h][k] = call[h][k]
<1> DEFINE Cut(h, k) == [does |-> call[h][k].does, on |-> call[h][k].on, says |-> "lost"]
<1>1. \A h \in Hosts, k \in Slots : Waiting(h, k) => Cut(h, k) \in Fitting(k)
  <2> SUFFICES ASSUME NEW h \in Hosts, NEW k \in Slots, Waiting(h, k)
               PROVE  Cut(h, k) \in Fitting(k)
    OBVIOUS
  <2>1. Cut(h, k) \in HostCalls
    BY CallsFit, RecordsAreCalls DEF Answers
  <2> QED BY <2>1, CallsFit DEF Fitting, Waiting, Asked
<1>2. \A h \in Hosts, k \in Slots : call'[h][k] = IF Waiting(h, k) THEN Cut(h, k) ELSE call[h][k]
  <2> SUFFICES ASSUME NEW h \in Hosts, NEW k \in Slots
               PROVE  call'[h][k] = IF Waiting(h, k) THEN Cut(h, k) ELSE call[h][k]
    OBVIOUS
  <2>1. call'[h][k] = IF Waiting(h, k) THEN [call[h][k] EXCEPT !.says = "lost"] ELSE call[h][k]
    BY DEF DaemonRestarts, Waiting
  <2>2. call[h][k] = [does |-> call[h][k].does, on |-> call[h][k].on, says |-> call[h][k].says]
    BY CallsFit
  <2>3. [call[h][k] EXCEPT !.says = "lost"] = Cut(h, k)
    BY <2>2
  <2> QED BY <2>1, <2>3
<1>3. \A h \in Hosts, k \in Slots : call'[h][k] \in Fitting(k)
  <2> HIDE DEF Cut
  <2> QED BY <1>1, <1>2 DEF CallsTyped
<1>4. call' \in [Hosts -> [Slots -> HostCalls]]
  <2>1. \A h \in Hosts, k \in Slots : call'[h][k] \in HostCalls
    BY <1>3 DEF Fitting
  <2>2. call' = [h \in Hosts |-> [k \in Slots |-> call'[h][k]]]
    BY DEF DaemonRestarts
  <2> QED BY <2>1, <2>2
<1>5. CallsTyped'
  BY <1>3, <1>4 DEF CallsTyped
<1>6. ASSUME NEW h \in Hosts, NEW k \in Slots
      PROVE  /\ call'[h][k].does = call[h][k].does /\ call'[h][k].on = call[h][k].on
             /\ Waiting(h, k) => call'[h][k].says = "lost"
             /\ ~Waiting(h, k) => call'[h][k] = call[h][k]
  <2>1. CASE Waiting(h, k)
    <3>1. call'[h][k] = Cut(h, k)
      BY <1>2, <2>1
    <3>2. /\ Cut(h, k).does = call[h][k].does /\ Cut(h, k).on = call[h][k].on
          /\ Cut(h, k).says = "lost"
      OBVIOUS
    <3> QED BY <2>1, <3>1, <3>2
  <2>2. CASE ~Waiting(h, k)
    BY <1>2, <2>2
  <2> QED BY <2>1, <2>2
<1> QED BY <1>5, <1>6

LEMMA StartsTyped ==
  ASSUME DaemonTyped, NEW who \in Hosts \union {Cli}, NEW how \in {"ensure", "tool", "cli"},
         NEW s \in SessionIds, Starts(who, how, s)
  PROVE  DaemonTyped'
BY IdIsNoSession DEF DaemonTyped, Starts

LEMMA StopsTyped ==
  ASSUME DaemonTyped, NEW s \in SessionIds, Stops(s)
  PROVE  DaemonTyped'
BY IdIsNoSession DEF DaemonTyped, Stops

LEMMA CallStepTyped ==
  ASSUME HostTypes, NEW h \in Hosts, NEW k \in Slots, CallStep(h, k)
  PROVE  HostTypes'
<1>0. DaemonTyped /\ ClientsTyped /\ CallsTyped /\ CommandTyped
  BY DEF HostTypes
<1>1. OnlyCall
  BY DEF CallStep, StatusHandled, SummaryHandled, StartHandled, StartRefused, StopHandled
<1>2. ClientsTyped' /\ CommandTyped'
  BY <1>0, <1>1 DEF OnlyCall, ClientsTyped, CommandTyped, cliVars
<1>3. CallsTyped'
  BY <1>0, StatusHandledDoes, SummaryHandledDoes, StartHandledDoes, StartRefusedDoes, StopHandledDoes
     DEF CallStep, Sets
<1>4. DaemonTyped'
  <2>1. CASE UNCHANGED serverVars
    BY <1>0, <2>1 DEF serverVars, DaemonTyped
  <2>2. CASE StartHandled(h, k)
    BY <1>0, <2>2, StartsTyped DEF StartHandled
  <2>3. CASE StopHandled(h, k) /\ Stops(call[h][k].on)
    BY <1>0, <2>3, StopHandledDoes, StopsTyped
  <2> QED BY <2>1, <2>2, <2>3
          DEF CallStep, StatusHandled, SummaryHandled, StartRefused, StopHandled
<1> QED BY <1>2, <1>3, <1>4 DEF HostTypes

LEMMA ClientStepTyped ==
  ASSUME HostTypes, NEW h \in Hosts,
         \/ HostStep(h) \/ \E k \in Flows : FlowStep(h, k)
  PROVE  HostTypes'
<1>0. DaemonTyped /\ ClientsTyped /\ CallsTyped /\ CommandTyped
  BY DEF HostTypes
<1>1. /\ UNCHANGED <<hostKind, serverVars, cliVars>>
      /\ store' = store \/ \E k \in Tools : Got(h, k, "start", "ok") /\ store' \in {store, store \union {call[h][k].on}}
  BY DEF HostStep, FlowStep, OnlyHost, Connects, EnsureBegins, EnsureAmongFlows, EnsureJoins,
         StatusGone, SummaryArrives, EnsureFinds, EnsureStarts, EnsureFails, ToolStarts, ToolBegins,
         ToolStops, ToolStarted, ToolStopped, ToolFails, ExitBegins, ExitEnds
<1>2. DaemonTyped'
  BY <1>0, <1>1 DEF DaemonTyped, serverVars
<1>3. CommandTyped'
  <2>1. \A k \in Tools : Got(h, k, "start", "ok") => call[h][k].on \in SessionIds
    BY <1>0, CallsFit, SlotsHold DEF Got
  <2>2. store' \subseteq SessionIds
    BY <1>0, <1>1, <2>1 DEF CommandTyped
  <2> QED BY <1>0, <1>1, <2>2 DEF CommandTyped, cliVars
<1>4. CallsTyped'
  <2>1. CASE Connects(h) \/ ExitEnds(h)
    BY <1>0, <2>1 DEF Connects, ExitEnds, CallsTyped
  <2>2. CASE ExitBegins(h)
    BY <1>0, <2>2, ExitBeginsDoes DEF Sets, CallsTyped
  <2>3. ASSUME NEW k \in Tools,
               ToolStarts(h, k) \/ ToolStops(h, k) \/ ToolStarted(h, k) \/ ToolStopped(h, k) \/ ToolFails(h, k)
        PROVE  CallsTyped'
    BY <1>0, <2>3, ToolStartsDoes, ToolStopsDoes, ToolEndsDoes DEF Sets
  <2>4. ASSUME NEW k \in Flows, FlowStep(h, k)
        PROVE  CallsTyped'
    BY <1>0, <2>4, EnsureBeginsDoes, EnsureJoinsDoes, StatusGoneDoes, SummaryArrivesDoes, EnsureEndsDoes
       DEF FlowStep, Sets, Settles
  <2> QED BY <2>1, <2>2, <2>3, <2>4 DEF HostStep
<1>5. ClientsTyped'
  <2>0. \A k \in Slots : call[h][k].on \in MaybeSession
    BY <1>0, CallsFit
  <2>1. CASE Connects(h)
    BY <1>0, <2>1 DEF Connects, ClientsTyped, Quietly, OnlyHost
  <2>2. CASE ExitBegins(h)
    BY <1>0, <2>2, SlotsHold DEF ExitBegins, ClientsTyped, OnlyHost
  <2>3. CASE ExitEnds(h)
    BY <1>0, <2>3, IdIsNoSession DEF ExitEnds, ClientsTyped, OnlyHost
  <2>4. ASSUME NEW k \in Tools, ToolStarts(h, k) \/ ToolStops(h, k) PROVE ClientsTyped'
    BY <1>0, <2>4 DEF ToolStarts, ToolStops, ToolBegins, ClientsTyped, OnlyHost
  <2>5. ASSUME NEW k \in Tools, ToolStarted(h, k) PROVE ClientsTyped'
    BY <1>0, <2>0, <2>5, SlotsHold DEF ToolStarted, Recalls, ClientsTyped, OnlyHost
  <2>6. ASSUME NEW k \in Tools, ToolStopped(h, k) PROVE ClientsTyped'
    BY <1>0, <2>6, IdIsNoSession DEF ToolStopped, Clears, ClientsTyped, OnlyHost
  <2>7. ASSUME NEW k \in Tools, ToolFails(h, k) PROVE ClientsTyped'
    BY <1>0, <2>7 DEF ToolFails, Quietly, ClientsTyped, OnlyHost
  <2>8. ASSUME NEW k \in Flows, EnsureBegins(h, k) PROVE ClientsTyped'
    BY <1>0, <2>8 DEF EnsureBegins, EnsureAmongFlows, ClientsTyped, OnlyHost
  <2>9. ASSUME NEW k \in Flows, EnsureJoins(h, k) \/ StatusGone(h, k) \/ SummaryArrives(h, k) \/ EnsureFails(h, k)
        PROVE  ClientsTyped'
    BY <1>0, <2>9, IdIsNoSession
       DEF EnsureJoins, StatusGone, SummaryArrives, EnsureFails, Quietly, ClientsTyped, OnlyHost
  <2>10. ASSUME NEW k \in Flows, EnsureFinds(h, k) \/ EnsureStarts(h, k)
         PROVE  ClientsTyped'
    BY <1>0, <2>0, <2>10, SlotsHold DEF EnsureFinds, EnsureStarts, Recalls, ClientsTyped, OnlyHost
  <2> QED BY <2>1, <2>2, <2>3, <2>4, <2>5, <2>6, <2>7, <2>8, <2>9, <2>10 DEF HostStep, FlowStep
<1> QED BY <1>2, <1>3, <1>4, <1>5 DEF HostTypes

LEMMA CliStepTyped ==
  ASSUME HostTypes, 
         CliStep \/ \E s \in SessionIds : FilePruned(s) \/ \E kept \in BOOLEAN : StoppedByFile(s, kept)
  PROVE  HostTypes'
<1>0. DaemonTyped /\ ClientsTyped /\ CallsTyped /\ CommandTyped
  BY DEF HostTypes
<1>1. OnlyCli
  BY DEF CliStep, FilePruned, StoppedByFile, CliResolves, CliStarted, CliRefused, CliSaves, CliCannotSave,
         CliRemembers, CliTakes, CliStops, CliCannotStop, Signalled, HandlerStops, HandlerExits
<1>2. ClientsTyped' /\ CallsTyped'
  BY <1>0, <1>1 DEF OnlyCli, hostVars, ClientsTyped, CallsTyped
<1>3. DaemonTyped' /\ CommandTyped'
  <2>1. CASE CliResolves \/ CliRefused \/ CliCannotSave
    BY <1>0, <2>1 DEF CliResolves, CliRefused, CliCannotSave, CliGoes, CommandTyped, DaemonTyped, serverVars
  <2>2. CASE CliStarted
    <3>1. PICK s \in SessionIds : Starts(Cli, "cli", s) /\ cliSession' = s
      BY <2>2 DEF CliStarted
    <3>2. DaemonTyped'
      BY <1>0, <3>1, StartsTyped
    <3>3. auto = NoId
      BY <1>0, <2>2 DEF CliStarted, CliGoes, CommandTyped
    <3> QED BY <1>0, <2>2, <3>1, <3>2, <3>3, IdIsNoSession DEF CliStarted, CliGoes, CommandTyped
  <2>3. CASE CliSaves
    BY <1>0, <2>3, IdIsNoSession DEF CliSaves, CliGoes, CommandTyped, DaemonTyped, serverVars, MaybeSession
  <2>4. CASE CliRemembers \/ CliTakes
    BY <1>0, <2>4 DEF CliRemembers, CliTakes, CliGoes, CommandTyped, DaemonTyped, serverVars
  <2>5. CASE CliStops \/ HandlerStops
    <3>1. cliSession \in SessionIds
      BY <1>0, <2>5 DEF CliStops, HandlerStops, CliGoes, CommandTyped, MaybeSession
    <3>2. DaemonTyped'
      BY <1>0, <2>5, <3>1, StopsTyped DEF CliStops, HandlerStops, Dismissed, DaemonTyped, serverVars
    <3> QED BY <1>0, <2>5, <3>2 DEF CliStops, HandlerStops, CliGoes, Dismissed, CommandTyped
  <2>6. CASE CliCannotStop \/ HandlerExits
    BY <1>0, <2>6 DEF CliCannotStop, HandlerExits, CliGoes, CommandTyped, DaemonTyped, serverVars
  <2>7. CASE Signalled
    BY <1>0, <2>7 DEF Signalled, CommandTyped, DaemonTyped, serverVars
  <2>8. ASSUME NEW s \in SessionIds, FilePruned(s) PROVE DaemonTyped' /\ CommandTyped'
    BY <1>0, <2>8 DEF FilePruned, CommandTyped, DaemonTyped, serverVars, cliVars
  <2>9. ASSUME NEW s \in SessionIds, NEW kept \in BOOLEAN, StoppedByFile(s, kept)
        PROVE  DaemonTyped' /\ CommandTyped'
    <3>1. DaemonTyped'
      BY <1>0, <2>9, StopsTyped DEF StoppedByFile
    <3> QED BY <1>0, <2>9, <3>1 DEF StoppedByFile, CommandTyped, cliVars
  <2> QED BY <2>1, <2>2, <2>3, <2>4, <2>5, <2>6, <2>7, <2>8, <2>9 DEF CliStep
<1> QED BY <1>2, <1>3 DEF HostTypes

LEMMA RestartTyped ==
  ASSUME HostTypes, DaemonRestarts PROVE HostTypes'
<1>0. DaemonTyped /\ ClientsTyped /\ CallsTyped /\ CommandTyped
  BY DEF HostTypes
<1>1. CallsTyped'
  BY <1>0, DaemonRestartsDoes
<1>2. DaemonTyped'
  BY <1>0, IdIsNoSession, HostAssumption DEF DaemonRestarts, DaemonTyped
<1>3. ClientsTyped' /\ CommandTyped'
  BY <1>0 DEF DaemonRestarts, ClientsTyped, CommandTyped
<1> QED BY <1>1, <1>2, <1>3 DEF HostTypes

LEMMA HostTypesStep == HostTypes /\ [HostNext]_sessionVars => HostTypes'
<1> SUFFICES ASSUME HostTypes, [HostNext]_sessionVars PROVE HostTypes' OBVIOUS
<1>1. CASE UNCHANGED sessionVars
  BY <1>1 DEF sessionVars, hostVars, cliVars, serverVars, HostTypes, DaemonTyped, ClientsTyped,
              CallsTyped, CommandTyped
<1>2. CASE HostNext
  BY <1>2, CallStepTyped, ClientStepTyped, CliStepTyped, RestartTyped DEF HostNext
<1> QED BY <1>1, <1>2

\* Every variable has its type.
THEOREM HostsAreTyped == HostSpec => []HostTypeOK
<1>1. HostInit => HostTypes
  BY HostTypesInit
<1>2. HostTypes /\ [HostNext]_sessionVars => HostTypes'
  BY HostTypesStep
<1>3. HostTypes => HostTypeOK
  BY HostTypesSplit
<1> QED BY <1>1, <1>2, <1>3, PTL DEF HostSpec

-----------------------------------------------------------------------------
(* What becomes of a session, and where a host has heard of one. *)

\* It starts once, and ends for good.
Ages ==
  \A s \in SessionIds :
    /\ state[s] # "none" => state'[s] # "none" /\ starter'[s] = starter[s]
    /\ state[s] = "stopped" => state'[s] \in {"stopped", "lost"}
    /\ state[s] = "lost" => state'[s] = "lost"
    /\ state'[s] = "lost" => state[s] = "lost" \/ restarts' > 0

\* A session s has just been started.
Born(s, who, how) ==
  /\ state[s] = "none" /\ state'[s] = "active" /\ starter'[s] = [who |-> who, how |-> how]
  /\ \A o \in SessionIds : o # s => state'[o] = state[o] /\ starter'[o] = starter[o] /\ state[o] # "active"

LEMMA StartsDoes ==
  ASSUME DaemonTyped, Locked, NEW who, NEW how, NEW s \in SessionIds, Starts(who, how, s)
  PROVE  Ages /\ Locked' /\ Born(s, who, how) /\ restarts' = restarts
<1>1. \A o \in SessionIds : state[o] # "active"
  BY IdIsNoSession DEF Starts, Locked
<1>2. state[s] = "none"
  BY DEF Starts, Fresh
<1>3. \A o \in SessionIds : /\ state'[o] = IF o = s THEN "active" ELSE state[o]
                            /\ starter'[o] = IF o = s THEN [who |-> who, how |-> how] ELSE starter[o]
  BY DEF Starts, DaemonTyped
<1>4. lockHolder' = s /\ restarts' = restarts
  BY DEF Starts
<1>5. Ages
  BY <1>2, <1>3, <1>4 DEF Ages
<1>6. Locked'
  BY <1>1, <1>3, <1>4 DEF Locked
<1> QED BY <1>1, <1>2, <1>3, <1>4, <1>5, <1>6 DEF Born

LEMMA StopsDoes ==
  ASSUME DaemonTyped, Locked, NEW s \in SessionIds, Stops(s)
  PROVE  /\ Ages /\ Locked' /\ restarts' = restarts /\ starter' = starter
         /\ state'[s] = "stopped" /\ \A o \in SessionIds : o # s => state'[o] = state[o]
<1>1. \A o \in SessionIds : state'[o] = IF o = s THEN "stopped" ELSE state[o]
  BY DEF Stops, DaemonTyped
<1>2. starter' = starter /\ restarts' = restarts /\ state[s] \in {"active", "stopped"}
      /\ lockHolder' = IF lockHolder = s THEN NoId ELSE lockHolder
  BY DEF Stops
<1>3. Ages
  BY <1>1, <1>2 DEF Ages
<1>4. Locked'
  BY <1>1, <1>2, IdIsNoSession DEF Locked
<1> QED BY <1>1, <1>2, <1>3, <1>4

LEMMA RestartDoes ==
  ASSUME DaemonTyped, DaemonRestarts
  PROVE  /\ Ages /\ Locked' /\ restarts' > 0 /\ starter' = starter
         /\ \A s \in SessionIds : state'[s] = IF state[s] = "none" THEN "none" ELSE "lost"
<1>1. \A s \in SessionIds : state'[s] = IF state[s] = "none" THEN "none" ELSE "lost"
  BY DEF DaemonRestarts
<1>2. starter' = starter /\ lockHolder' = NoId /\ restarts' = restarts + 1
  BY DEF DaemonRestarts
<1>3. restarts' > 0
  BY <1>2, HostAssumption DEF DaemonTyped
<1> QED BY <1>1, <1>2, <1>3, IdIsNoSession DEF Ages, Locked

LEMMA NothingHappens ==
  ASSUME Locked, UNCHANGED serverVars PROVE Ages /\ Locked' /\ restarts' = restarts
BY DEF Ages, Locked, serverVars

\* What a client's step takes a session from: what it holds, or an answer it
\* takes.
ClientStep(h) == HostStep(h) \/ \E k \in Flows : FlowStep(h, k)
Takes(h, k, s) == call[h][k].on = s /\ call[h][k].says = "ok" /\ call'[h][k] = Idle
ClientSources(h) ==
  /\ UNCHANGED <<hostKind, serverVars, cliVars>>
  /\ \A g \in Hosts \ {h} :
       /\ wire'[g] = wire[g] /\ cred'[g] = cred[g] /\ remembered'[g] = remembered[g]
       /\ owns'[g] = owns[g] /\ life'[g] = life[g] /\ calm'[g] = calm[g]
       /\ \A k \in Slots : call'[g][k] = call[g][k]
  /\ cred'[h] \in {cred[h], NoId} \/ \E k \in Slots : Takes(h, k, cred'[h])
  /\ remembered'[h] \in {remembered[h], NoId} \/ \E k \in Slots : Takes(h, k, remembered'[h])
  /\ store' = store \/ \E k \in Slots : Takes(h, k, call[h][k].on) /\ store' = store \union {call[h][k].on}
  /\ \A k \in Slots :
       \/ call'[h][k] \in {call[h][k], Idle}
       \/ /\ call'[h][k].on \in {NoId, cred[h], remembered[h]}
          /\ call'[h][k].says \in {"nothing", "lost"}

\* What becomes of calm when a host begins something.
LEMMA CalmChanges ==
  ASSUME ClientsTyped, NEW h \in Hosts, NEW b \in BOOLEAN, calm' = [calm EXCEPT ![h] = @ /\ b]
  PROVE  (calm'[h] <=> calm[h] /\ b) /\ \A g \in Hosts \ {h} : calm'[g] = calm[g]
BY DEF ClientsTyped

LEMMA CalmBegins ==
  ASSUME ClientsTyped, NEW h \in Hosts,
         \/ ExitBegins(h) \/ \E k \in Tools : ToolStarts(h, k) \/ ToolStops(h, k)
  PROVE  /\ calm'[h] <=> calm[h] /\ \A k \in Slots : call[h][k] = Idle
         /\ \A g \in Hosts \ {h} : calm'[g] = calm[g]
<1> DEFINE b == \A k \in Slots : call[h][k] = Idle
<1>1. b \in BOOLEAN /\ calm' = [calm EXCEPT ![h] = @ /\ b]
  BY DEF ExitBegins, ToolStarts, ToolStops, ToolBegins
<1> HIDE DEF b
<1>2. (calm'[h] <=> calm[h] /\ b) /\ \A g \in Hosts \ {h} : calm'[g] = calm[g]
  BY <1>1, CalmChanges
<1> QED BY <1>2 DEF b

LEMMA CalmEnsures ==
  ASSUME ClientsTyped, NEW h \in Hosts, EnsureAmongFlows(h)
  PROVE  /\ calm'[h] <=> calm[h] /\ \A k \in Tools : call[h][k] = Idle
         /\ \A g \in Hosts \ {h} : calm'[g] = calm[g]
<1> DEFINE b == \A k \in Tools : call[h][k] = Idle
<1>1. b \in BOOLEAN /\ calm' = [calm EXCEPT ![h] = @ /\ b]
  BY DEF EnsureAmongFlows
<1> HIDE DEF b
<1>2. (calm'[h] <=> calm[h] /\ b) /\ \A g \in Hosts \ {h} : calm'[g] = calm[g]
  BY <1>1, CalmChanges
<1> QED BY <1>2 DEF b

LEMMA CalmEnds ==
  ASSUME ClientsTyped, NEW h \in Hosts, ExitEnds(h)
  PROVE  /\ calm'[h] <=> calm[h] /\ ~Waits(h, Exit, "stop")
         /\ \A g \in Hosts \ {h} : calm'[g] = calm[g]
<1> DEFINE b == ~Waits(h, Exit, "stop")
<1>1. b \in BOOLEAN /\ calm' = [calm EXCEPT ![h] = @ /\ b]
  BY DEF ExitEnds
<1> HIDE DEF b
<1>2. (calm'[h] <=> calm[h] /\ b) /\ \A g \in Hosts \ {h} : calm'[g] = calm[g]
  BY <1>1, CalmChanges
<1> QED BY <1>2 DEF b

LEMMA SendingIs ==
  ASSUME NEW h, NEW what, NEW s
  PROVE  /\ Sending(h, what, s).does = what /\ Sending(h, what, s).on = s
         /\ Sending(h, what, s).says = IF wire[h] = "open" THEN "nothing" ELSE "lost"
BY DEF Sending

LEMMA SendingSets ==
  ASSUME NEW h \in Hosts, NEW k \in Slots, NEW what, NEW s, Sets(h, k, Sending(h, what, s))
  PROVE  /\ \A g \in Hosts, j \in Slots : g # h \/ j # k => call'[g][j] = call[g][j]
         /\ call'[h][k].does = what /\ call'[h][k].on = s
         /\ call'[h][k].says = IF wire[h] = "open" THEN "nothing" ELSE "lost"
<1> DEFINE q == Sending(h, what, s)
<1>1. q.does = what /\ q.on = s /\ q.says = IF wire[h] = "open" THEN "nothing" ELSE "lost"
  BY SendingIs
<1> HIDE DEF q
<1> QED BY <1>1 DEF Sets, q

LEMMA HostSources ==
  ASSUME HostTypes, NEW h \in Hosts, HostStep(h) PROVE ClientSources(h)
<1>0. ClientsTyped /\ CallsTyped
  BY DEF HostTypes
<1>1. CASE Connects(h)
  BY <1>0, <1>1 DEF Connects, ClientSources, ClientsTyped, Quietly, OnlyHost
<1>2. CASE ExitBegins(h)
  <2> DEFINE s == IF hostKind[h] = "pi" THEN remembered[h] ELSE cred[h]
  <2>1. \A g \in Hosts, j \in Slots :
          \/ call'[g][j] = call[g][j]
          \/ g = h /\ call'[g][j].on = s /\ call'[g][j].says \in {"nothing", "lost"}
    <3> HIDE DEF s
    <3>1. owns[h] /\ s # NoId => Sets(h, Exit, Sending(h, "stop", s))
      BY <1>0, <1>2, ExitBeginsDoes DEF s
    <3>2. ~(owns[h] /\ s # NoId) => call' = call
      BY <1>0, <1>2, ExitBeginsDoes DEF s
    <3> QED BY <3>1, <3>2, SendingSets, SlotsHold
  <2>2. /\ \A g \in Hosts \ {h} : calm'[g] = calm[g] /\ life'[g] = life[g]
        /\ s \in {cred[h], remembered[h]} /\ UNCHANGED <<store, wire, cred, remembered, owns>> /\ OnlyHost
    BY <1>0, <1>2, CalmBegins DEF ExitBegins, ClientsTyped
  <2> HIDE DEF s
  <2> QED BY <2>1, <2>2 DEF ClientSources, OnlyHost
<1>3. CASE ExitEnds(h)
  BY <1>0, <1>3, CalmEnds DEF ExitEnds, ClientSources, ClientsTyped, OnlyHost
<1>4. ASSUME NEW k \in Tools, ToolStarts(h, k) \/ ToolStops(h, k) PROVE ClientSources(h)
  <2>1. \A g \in Hosts, j \in Slots :
          \/ call'[g][j] = call[g][j]
          \/ g = h /\ call'[g][j].on \in {NoId, cred[h]} /\ call'[g][j].says \in {"nothing", "lost"}
    <3>1. Sets(h, k, Sending(h, "start", NoId)) \/ Sets(h, k, Sending(h, "stop", cred[h]))
      BY <1>0, <1>4, ToolStartsDoes, ToolStopsDoes
    <3> QED BY <3>1, SendingSets, SlotsHold
  <2>2. /\ \A g \in Hosts \ {h} : calm'[g] = calm[g]
        /\ UNCHANGED <<store, wire, cred, remembered, owns, life>> /\ OnlyHost
    BY <1>0, <1>4, CalmBegins DEF ToolStarts, ToolStops, ToolBegins
  <2> QED BY <2>1, <2>2 DEF ClientSources, OnlyHost
<1>5. ASSUME NEW k \in Tools, ToolStarted(h, k) PROVE ClientSources(h)
  <2>0. k \in Slots
    BY SlotsHold
  <2>1. \A g \in Hosts, j \in Slots : call'[g][j] = IF g = h /\ j = k THEN Idle ELSE call[g][j]
    BY <1>0, <1>5, ToolEndsDoes DEF Sets
  <2>2. Takes(h, k, call[h][k].on)
    BY <1>5, <2>0, <2>1 DEF Takes, ToolStarted, Got
  <2>3. /\ cred'[h] = call[h][k].on /\ remembered'[h] \in {remembered[h], call[h][k].on}
        /\ \A g \in Hosts \ {h} :
             cred'[g] = cred[g] /\ remembered'[g] = remembered[g] /\ owns'[g] = owns[g]
        /\ store' = store \/ store' = store \union {call[h][k].on}
        /\ UNCHANGED <<wire, life, calm>> /\ OnlyHost
    BY <1>0, <1>5 DEF ToolStarted, Recalls, ClientsTyped
  <2> QED BY <2>0, <2>1, <2>2, <2>3 DEF ClientSources, OnlyHost
<1>6. ASSUME NEW k \in Tools, ToolStopped(h, k) \/ ToolFails(h, k) PROVE ClientSources(h)
  <2>1. \A g \in Hosts, j \in Slots : call'[g][j] = IF g = h /\ j = k THEN Idle ELSE call[g][j]
    BY <1>0, <1>6, ToolEndsDoes DEF Sets
  <2> QED BY <1>0, <1>6, <2>1 DEF ToolStopped, ToolFails, Clears, Quietly, ClientSources, ClientsTyped, OnlyHost
<1> QED BY <1>1, <1>2, <1>3, <1>4, <1>5, <1>6 DEF HostStep

LEMMA FlowSources ==
  ASSUME HostTypes, NEW h \in Hosts, NEW k \in Flows, FlowStep(h, k) PROVE ClientSources(h)
<1>0. ClientsTyped /\ CallsTyped /\ k \in Slots
  BY SlotsHold DEF HostTypes
<1>1. CASE EnsureBegins(h, k) \/ EnsureJoins(h, k) \/ StatusGone(h, k) \/ SummaryArrives(h, k)
  <2>1. \A g \in Hosts, j \in Slots :
          \/ call'[g][j] = call[g][j]
          \/ g = h /\ call'[g][j].on \in {NoId, cred[h]} /\ call'[g][j].says \in {"nothing", "lost"}
    <3>1. CASE EnsureJoins(h, k)
      <4> DEFINE q == [does |-> "joined", on |-> NoId, says |-> "nothing"]
      <4>1. q.on = NoId /\ q.says = "nothing"
        OBVIOUS
      <4>2. \A g \in Hosts, j \in Slots : call'[g][j] = IF g = h /\ j = k THEN q ELSE call[g][j]
        BY <1>0, <3>1, EnsureJoinsDoes DEF Sets
      <4> HIDE DEF q
      <4> QED BY <4>1, <4>2
    <3>2. CASE ~EnsureJoins(h, k)
      <4>1. \/ Sets(h, k, Sending(h, "status", cred[h])) \/ Sets(h, k, Sending(h, "summary", cred[h]))
            \/ Sets(h, k, Sending(h, "summary", NoId)) \/ Sets(h, k, Sending(h, "start", NoId))
        BY <1>0, <1>1, <3>2, EnsureBeginsDoes, StatusGoneDoes, SummaryArrivesDoes
      <4> QED BY <1>0, <4>1, SendingSets
    <3> QED BY <3>1, <3>2
  <2>2. /\ \A g \in Hosts \ {h} : calm'[g] = calm[g] /\ cred'[g] = cred[g]
        /\ cred'[h] \in {cred[h], NoId}
        /\ UNCHANGED <<store, wire, remembered, owns, life>> /\ OnlyHost
    BY <1>0, <1>1, CalmEnsures
       DEF EnsureBegins, EnsureAmongFlows, EnsureJoins, StatusGone, SummaryArrives, Quietly, ClientsTyped
  <2> QED BY <2>1, <2>2 DEF ClientSources, OnlyHost
<1>2. CASE EnsureFinds(h, k) \/ EnsureStarts(h, k)
  <2>1. \A g \in Hosts, j \in Slots :
          call'[g][j] = IF g = h /\ (j = k \/ (j \in Flows /\ call[g][j].does = "joined")) THEN Idle ELSE call[g][j]
    BY <1>0, <1>2, EnsureEndsDoes DEF Settles
  <2>2. Takes(h, k, call[h][k].on)
    BY <1>0, <1>2, <2>1 DEF Takes, EnsureFinds, EnsureStarts, Got
  <2>3. /\ cred'[h] \in {cred[h], call[h][k].on} /\ remembered'[h] \in {remembered[h], call[h][k].on}
        /\ \A g \in Hosts \ {h} :
             cred'[g] = cred[g] /\ remembered'[g] = remembered[g] /\ owns'[g] = owns[g]
        /\ UNCHANGED <<store, wire, life, calm>> /\ OnlyHost
    BY <1>0, <1>2 DEF EnsureFinds, EnsureStarts, Recalls, ClientsTyped
  <2> QED BY <1>0, <2>1, <2>2, <2>3 DEF ClientSources, OnlyHost
<1>3. CASE EnsureFails(h, k)
  <2>1. \A g \in Hosts, j \in Slots :
          call'[g][j] = IF g = h /\ (j = k \/ (j \in Flows /\ call[g][j].does = "joined")) THEN Idle ELSE call[g][j]
    BY <1>0, <1>3, EnsureEndsDoes DEF Settles
  <2> QED BY <1>0, <1>3, <2>1 DEF EnsureFails, Quietly, ClientSources, ClientsTyped, OnlyHost
<1> QED BY <1>1, <1>2, <1>3 DEF FlowStep

\* The same of the commands and the credential files.
FilesMove == CliStep \/ \E s \in SessionIds : FilePruned(s) \/ \E kept \in BOOLEAN : StoppedByFile(s, kept)
FileSources ==
  /\ UNCHANGED <<hostKind, hostVars>>
  /\ store' \subseteq store \union {cliSession}
  /\ auto' \in {auto, NoId, cliSession}
  /\ \/ UNCHANGED <<serverVars, cliSession>>
     \/ UNCHANGED cliSession /\ \E s \in SessionIds : s \in store \union {cliSession} /\ Stops(s)
     \/ Starts(Cli, "cli", cliSession') /\ cliSession' \in SessionIds

LEMMA FilesSources ==
  ASSUME HostTypes, FilesMove PROVE FileSources
<1>0. CommandTyped
  BY DEF HostTypes
<1>1. OnlyCli
  BY DEF FilesMove, CliStep, FilePruned, StoppedByFile, CliResolves, CliStarted, CliRefused, CliSaves, CliCannotSave,
         CliRemembers, CliTakes, CliStops, CliCannotStop, Signalled, HandlerStops, HandlerExits
<1>2. CASE CliResolves \/ CliRefused \/ CliCannotSave \/ CliSaves \/ CliRemembers
  BY <1>1, <1>2 DEF CliResolves, CliRefused, CliCannotSave, CliSaves, CliRemembers, FileSources, OnlyCli
<1>3. CASE CliTakes \/ CliCannotStop \/ Signalled \/ HandlerExits
  BY <1>1, <1>3 DEF CliTakes, CliCannotStop, Signalled, HandlerExits, FileSources, OnlyCli
<1>4. CASE CliStarted
  BY <1>1, <1>4 DEF CliStarted, FileSources, OnlyCli
<1>5. CASE CliStops \/ HandlerStops
  <2>1. cliSession \in SessionIds
    BY <1>0, <1>5 DEF CliStops, HandlerStops, CliGoes, CommandTyped, MaybeSession
  <2> QED BY <1>1, <1>5, <2>1 DEF CliStops, HandlerStops, Dismissed, FileSources, OnlyCli
<1>6. ASSUME NEW s \in SessionIds, FilePruned(s) \/ \E kept \in BOOLEAN : StoppedByFile(s, kept)
      PROVE  FileSources
  BY <1>1, <1>6 DEF FilePruned, StoppedByFile, FileSources, OnlyCli, cliVars
<1> QED BY <1>2, <1>3, <1>4, <1>5, <1>6 DEF FilesMove, CliStep

-----------------------------------------------------------------------------
(* What the daemon's handling of a call does, in the fields of the call. *)

Replies(h, k) ==
  /\ UNCHANGED serverVars
  /\ \/ /\ call[h][k].does = "status" /\ call'[h][k].on = call[h][k].on /\ call[h][k].on \in SessionIds
        /\ call'[h][k].says = IF state[call[h][k].on] = "lost" THEN "gone" ELSE "ok"
     \/ /\ call[h][k].does = "summary" /\ call'[h][k].on = call[h][k].on
        /\ call'[h][k].says = IF lockHolder = NoId THEN "free" ELSE "found"
     \/ /\ call[h][k].does = "start" /\ call'[h][k].on = lockHolder /\ lockHolder \in SessionIds
        /\ call'[h][k].says = "refused"
     \/ /\ call[h][k].does = "stop" /\ call'[h][k].on = call[h][k].on /\ call[h][k].on \in SessionIds
        /\ call'[h][k].says = "gone" /\ state[call[h][k].on] = "lost"
Grants(h, k) ==
  /\ call[h][k].does = "start" /\ call'[h][k].says = "ok" /\ k \in Flows \union Tools
  /\ call'[h][k].on \in SessionIds
  /\ Born(call'[h][k].on, h, IF k \in Tools THEN "tool" ELSE "ensure") /\ restarts' = restarts
Closes(h, k) ==
  /\ call[h][k].does = "stop" /\ call'[h][k].on = call[h][k].on /\ call'[h][k].says = "ok"
  /\ call[h][k].on \in SessionIds /\ state'[call[h][k].on] = "stopped"
  /\ \A s \in SessionIds : s # call[h][k].on => state'[s] = state[s]
  /\ starter' = starter /\ restarts' = restarts
CallMoves(h, k) ==
  /\ Waiting(h, k) /\ OnlyCall /\ Ages /\ Locked'
  /\ \A g \in Hosts, j \in Slots : g # h \/ j # k => call'[g][j] = call[g][j]
  /\ call'[h][k].does = call[h][k].does
  /\ Replies(h, k) \/ Grants(h, k) \/ Closes(h, k)

LEMMA SetsFields ==
  ASSUME NEW h \in Hosts, NEW k \in Slots, NEW what, NEW s, NEW a,
         Sets(h, k, [does |-> what, on |-> s, says |-> a])
  PROVE  /\ \A g \in Hosts, j \in Slots : g # h \/ j # k => call'[g][j] = call[g][j]
         /\ call'[h][k].does = what /\ call'[h][k].on = s /\ call'[h][k].says = a
<1> DEFINE q == [does |-> what, on |-> s, says |-> a]
<1>1. q.does = what /\ q.on = s /\ q.says = a
  OBVIOUS
<1> HIDE DEF q
<1> QED BY <1>1 DEF Sets, q

LEMMA CallDoes ==
  ASSUME HostTypes, Locked, NEW h \in Hosts, NEW k \in Slots, CallStep(h, k)
  PROVE  CallMoves(h, k)
<1>0. DaemonTyped /\ CallsTyped
  BY DEF HostTypes
<1>1. OnlyCall
  BY DEF CallStep, StatusHandled, SummaryHandled, StartHandled, StartRefused, StopHandled
<1>2. CASE StatusHandled(h, k)
  <2>1. UNCHANGED serverVars
    BY <1>2 DEF StatusHandled
  <2> DEFINE a == IF state[call[h][k].on] = "lost" THEN "gone" ELSE "ok"
  <2>2. Sets(h, k, [does |-> "status", on |-> call[h][k].on, says |-> a])
    BY <1>0, <1>2, StatusHandledDoes
  <2>3. Waiting(h, k) /\ call[h][k].does = "status" /\ call[h][k].on \in SessionIds
    BY <1>0, <1>2, StatusHandledDoes
  <2> HIDE DEF a
  <2>4. /\ \A g \in Hosts, j \in Slots : g # h \/ j # k => call'[g][j] = call[g][j]
        /\ call'[h][k].does = "status" /\ call'[h][k].on = call[h][k].on /\ call'[h][k].says = a
    BY <2>2, SetsFields
  <2> QED BY <1>1, <2>1, <2>3, <2>4, NothingHappens DEF CallMoves, Replies, a
<1>3. CASE SummaryHandled(h, k)
  <2>1. UNCHANGED serverVars
    BY <1>3 DEF SummaryHandled
  <2> DEFINE a == IF lockHolder = NoId THEN "free" ELSE "found"
  <2>2. Sets(h, k, [does |-> "summary", on |-> call[h][k].on, says |-> a])
    BY <1>0, <1>3, SummaryHandledDoes
  <2>3. Waiting(h, k) /\ call[h][k].does = "summary"
    BY <1>0, <1>3, SummaryHandledDoes
  <2> HIDE DEF a
  <2>4. /\ \A g \in Hosts, j \in Slots : g # h \/ j # k => call'[g][j] = call[g][j]
        /\ call'[h][k].does = "summary" /\ call'[h][k].on = call[h][k].on /\ call'[h][k].says = a
    BY <2>2, SetsFields
  <2> QED BY <1>1, <2>1, <2>3, <2>4, NothingHappens DEF CallMoves, Replies, a
<1>4. CASE StartRefused(h, k)
  <2>1. UNCHANGED serverVars
    BY <1>4 DEF StartRefused
  <2> QED BY <1>0, <1>1, <1>4, <2>1, StartRefusedDoes, SetsFields, NothingHappens DEF CallMoves, Replies
<1>5. CASE StartHandled(h, k)
  <2>1. PICK s \in SessionIds :
           /\ Starts(h, IF k \in Tools THEN "tool" ELSE "ensure", s)
           /\ Sets(h, k, [does |-> "start", on |-> s, says |-> "ok"])
           /\ Waiting(h, k) /\ call[h][k].does = "start" /\ k \in Flows \union Tools
    BY <1>0, <1>5, StartHandledDoes
  <2>2. Ages /\ Locked' /\ Born(s, h, IF k \in Tools THEN "tool" ELSE "ensure") /\ restarts' = restarts
    BY <1>0, <2>1, StartsDoes
  <2>3. /\ \A g \in Hosts, j \in Slots : g # h \/ j # k => call'[g][j] = call[g][j]
        /\ call'[h][k].does = "start" /\ call'[h][k].on = s /\ call'[h][k].says = "ok"
    BY <2>1, SetsFields
  <2> QED BY <1>1, <2>1, <2>2, <2>3 DEF CallMoves, Grants
<1>6. CASE StopHandled(h, k)
  <2>1. Waiting(h, k) /\ call[h][k].does = "stop" /\ call[h][k].on \in SessionIds
    BY <1>0, <1>6, StopHandledDoes
  <2>2. CASE Stops(call[h][k].on) /\ Sets(h, k, [does |-> "stop", on |-> call[h][k].on, says |-> "ok"])
    <3>1. /\ Ages /\ Locked' /\ restarts' = restarts /\ starter' = starter
          /\ state'[call[h][k].on] = "stopped"
          /\ \A o \in SessionIds : o # call[h][k].on => state'[o] = state[o]
      BY <1>0, <2>1, <2>2, StopsDoes
    <3>2. /\ \A g \in Hosts, j \in Slots : g # h \/ j # k => call'[g][j] = call[g][j]
          /\ call'[h][k].does = "stop" /\ call'[h][k].on = call[h][k].on /\ call'[h][k].says = "ok"
      BY <2>2, SetsFields
    <3> QED BY <1>1, <2>1, <3>1, <3>2 DEF CallMoves, Closes
  <2>3. CASE /\ state[call[h][k].on] = "lost" /\ UNCHANGED serverVars
             /\ Sets(h, k, [does |-> "stop", on |-> call[h][k].on, says |-> "gone"])
    <3>1. /\ \A g \in Hosts, j \in Slots : g # h \/ j # k => call'[g][j] = call[g][j]
          /\ call'[h][k].does = "stop" /\ call'[h][k].on = call[h][k].on /\ call'[h][k].says = "gone"
      BY <2>3, SetsFields
    <3> QED BY <1>1, <2>1, <2>3, <3>1, NothingHappens DEF CallMoves, Replies
  <2> QED BY <1>0, <1>6, <2>2, <2>3, StopHandledDoes
<1> QED BY <1>2, <1>3, <1>4, <1>5, <1>6 DEF CallStep

\* A restart of the daemon, in the same terms.
RestartMoves ==
  /\ Ages /\ Locked' /\ restarts' > 0 /\ starter' = starter
  /\ \A s \in SessionIds : state'[s] = IF state[s] = "none" THEN "none" ELSE "lost"
  /\ \A h \in Hosts, k \in Slots :
       /\ call'[h][k].does = call[h][k].does /\ call'[h][k].on = call[h][k].on
       /\ Waiting(h, k) => call'[h][k].says = "lost"
       /\ ~Waiting(h, k) => call'[h][k] = call[h][k]
  /\ \A h \in Hosts : ~calm'[h] /\ wire'[h] = IF wire[h] = "none" THEN "none" ELSE "closed"
  /\ ~spared'
  /\ UNCHANGED <<hostKind, store, cred, remembered, owns, life, cli, cliSession, auto, handler>>

LEMMA RestartsDoes ==
  ASSUME HostTypes, DaemonRestarts PROVE RestartMoves
<1>0. DaemonTyped /\ CallsTyped
  BY DEF HostTypes
<1>1. /\ \A h \in Hosts : ~calm'[h] /\ wire'[h] = IF wire[h] = "none" THEN "none" ELSE "closed"
      /\ ~spared'
      /\ UNCHANGED <<hostKind, store, cred, remembered, owns, life, cli, cliSession, auto, handler>>
  BY DEF DaemonRestarts
<1> QED BY <1>0, <1>1, RestartDoes, DaemonRestartsDoes DEF RestartMoves

\* The four kinds of steps.
Moves ==
  \/ \E h \in Hosts, k \in Slots : CallMoves(h, k)
  \/ \E h \in Hosts : ClientStep(h) /\ ClientSources(h)
  \/ FilesMove /\ FileSources
  \/ RestartMoves

LEMMA StepsMove ==
  ASSUME HostTypes, Locked, HostNext PROVE Moves
BY CallDoes, HostSources, FlowSources, FilesSources, RestartsDoes
   DEF HostNext, Moves, ClientStep, FilesMove

-----------------------------------------------------------------------------
(* The ground: sessions and what is known of them. *)

LEMMA FilesAge ==
  ASSUME HostTypes, Locked, FileSources
  PROVE  /\ Ages /\ Locked' /\ restarts' = restarts
         /\ \/ /\ cliSession' = cliSession /\ starter' = starter
               /\ \A s \in SessionIds : state'[s] # state[s] =>
                    s \in store \union {cliSession} /\ state'[s] = "stopped"
            \/ cliSession' \in SessionIds /\ Born(cliSession', Cli, "cli")
<1>0. DaemonTyped
  BY DEF HostTypes
<1>1. CASE UNCHANGED <<serverVars, cliSession>>
  BY <1>1, NothingHappens DEF serverVars
<1>2. CASE UNCHANGED cliSession /\ \E s \in SessionIds : s \in store \union {cliSession} /\ Stops(s)
  BY <1>0, <1>2, StopsDoes
<1>3. CASE Starts(Cli, "cli", cliSession') /\ cliSession' \in SessionIds
  BY <1>0, <1>3, StartsDoes
<1> QED BY <1>1, <1>2, <1>3 DEF FileSources

LEMMA MovesAge ==
  ASSUME HostTypes, Locked, Moves PROVE Ages /\ Locked'
BY FilesAge, NothingHappens DEF Moves, CallMoves, ClientSources, RestartMoves

LEMMA LastingStep ==
  ASSUME Lasting, Ages, restarts' = restarts \/ restarts' > 0 PROVE Lasting'
BY DEF Lasting, Ages

\* What a client's step leaves or makes of each of its calls.
LEMMA OthersKept ==
  ASSUME NEW h \in Hosts, ClientSources(h), NEW g \in Hosts, NEW j \in Slots
  PROVE  \/ call'[g][j] \in {call[g][j], Idle}
         \/ /\ g = h /\ call'[g][j].on \in {NoId, cred[g], remembered[g]}
            /\ call'[g][j].says \in {"nothing", "lost"}
BY DEF ClientSources

LEMMA IdleIs == Idle.does = "nothing" /\ Idle.on = NoId /\ Idle.says = "nothing"
BY DEF Idle

LEMMA AnswersTrueStep ==
  ASSUME HostTypes, HostTypes', Locked, AnswersTrue, Moves
  PROVE  AnswersTrue'
<1> SUFFICES ASSUME NEW g \in Hosts, NEW j \in Slots
             PROVE  /\ call'[g][j].says = "gone" => state'[call'[g][j].on] = "lost"
                    /\ call'[g][j].does = "stop" /\ call'[g][j].says = "ok"
                         => state'[call'[g][j].on] \in {"stopped", "lost"}
  BY DEF AnswersTrue
<1>0. CallsTyped /\ Ages
  BY MovesAge DEF HostTypes
<1>1. CASE call'[g][j] = call[g][j]
  <2>1. call[g][j].says \in {"ok", "gone"} => call[g][j].on \in SessionIds
    BY <1>0, CallsFit
  <2> QED BY <1>0, <1>1, <2>1 DEF AnswersTrue, Ages
<1>2. CASE call'[g][j].says \in {"nothing", "lost"}
  BY <1>2
<1>3. CASE CallMoves(g, j)
  BY <1>3 DEF CallMoves, Replies, Grants, Closes, serverVars
<1> QED BY <1>1, <1>2, <1>3, OthersKept, IdleIs
    DEF Moves, CallMoves, FileSources, hostVars, RestartMoves

LEMMA UnbornStep ==
  ASSUME HostTypes, Locked, Unborn, Moves
  PROVE  Unborn'
<1> SUFFICES ASSUME NEW s \in SessionIds, state'[s] = "none"
             PROVE  /\ s \notin store' /\ cliSession' # s /\ auto' # s
                    /\ \A h \in Hosts : cred'[h] # s /\ remembered'[h] # s
                    /\ \A h \in Hosts, k \in Slots : call'[h][k].on # s
  BY DEF Unborn
<1>0. CallsTyped /\ Ages /\ s # NoId
  BY MovesAge, IdIsNoSession DEF HostTypes
<1>1. state[s] = "none"
  BY <1>0 DEF Ages
<1>2. /\ s \notin store /\ cliSession # s /\ auto # s
      /\ \A h \in Hosts : cred[h] # s /\ remembered[h] # s
      /\ \A h \in Hosts, k \in Slots : call[h][k].on # s
  BY <1>1 DEF Unborn
<1>3. ASSUME NEW h \in Hosts, NEW k \in Slots, CallMoves(h, k)
      PROVE  call'[h][k].on # s
  <2>1. CASE Replies(h, k)
    BY <1>1, <1>2, <2>1 DEF Replies, Locked
  <2>2. CASE Grants(h, k) \/ Closes(h, k)
    BY <1>2, <2>2 DEF Grants, Closes, Born
  <2> QED BY <1>3, <2>1, <2>2 DEF CallMoves
<1>4. ASSUME NEW h \in Hosts, NEW k \in Slots, CallMoves(h, k)
      PROVE  /\ s \notin store' /\ cliSession' # s /\ auto' # s
             /\ \A g \in Hosts : cred'[g] # s /\ remembered'[g] # s
             /\ \A g \in Hosts, j \in Slots : call'[g][j].on # s
  BY <1>2, <1>3, <1>4 DEF CallMoves, OnlyCall, cliVars
<1>5. ASSUME NEW h \in Hosts, ClientSources(h)
      PROVE  /\ s \notin store' /\ cliSession' # s /\ auto' # s
             /\ \A g \in Hosts : cred'[g] # s /\ remembered'[g] # s
             /\ \A g \in Hosts, j \in Slots : call'[g][j].on # s
  <2>1. \A g \in Hosts, j \in Slots : call'[g][j].on # s
    BY <1>0, <1>2, <1>5, OthersKept, IdleIs
  <2>2. cred'[h] # s /\ remembered'[h] # s /\ s \notin store'
    BY <1>0, <1>2, <1>5 DEF ClientSources, Takes
  <2> QED BY <1>2, <1>5, <2>1, <2>2 DEF ClientSources, cliVars
<1>6. CASE FileSources
  BY <1>0, <1>2, <1>6, FilesAge DEF FileSources, hostVars, Born
<1>7. CASE RestartMoves
  BY <1>2, <1>7 DEF RestartMoves
<1> QED BY <1>4, <1>5, <1>6, <1>7 DEF Moves

LEMMA GroundInit == HostInit => Ground
<1> SUFFICES ASSUME HostInit PROVE Ground OBVIOUS
<1>1. \A s \in SessionIds : state[s] = "none" /\ s # NoId
  BY IdIsNoSession DEF HostInit
<1>2. \A h \in Hosts, k \in Slots : call[h][k] = Idle
  BY DEF HostInit
<1>3. Locked /\ Lasting
  BY <1>1 DEF HostInit, Locked, Lasting
<1>4. AnswersTrue /\ Unborn
  BY <1>1, <1>2, IdleIs DEF HostInit, AnswersTrue, Unborn
<1> QED BY <1>3, <1>4 DEF Ground

LEMMA GroundStep ==
  ASSUME HostTypes, HostTypes', Ground, Moves PROVE Ground'
<1>1. Ages /\ Locked'
  BY MovesAge DEF Ground
<1>2. restarts' = restarts \/ restarts' > 0
  BY FilesAge DEF Moves, CallMoves, Replies, Grants, Closes, ClientSources, RestartMoves, serverVars, Ground
<1> QED BY <1>1, <1>2, LastingStep, AnswersTrueStep, UnbornStep DEF Ground

-----------------------------------------------------------------------------
(* One resolution at a time, and whose answers are under way. *)

\* What a step of a flow makes of what it is resolving.
LEMMA ResolvingStep ==
  ASSUME HostTypes, NEW h \in Hosts, ClientStep(h), ClientSources(h), NEW k \in Flows, k \in Resolving(h)'
  PROVE  \/ k \in Resolving(h)
         \/ /\ Resolving(h) = {} /\ EnsureBegins(h, k)
            /\ \A j \in Slots : j # k => call'[h][j] = call[h][j]
<1>0. CallsTyped /\ ClientsTyped /\ k \in Slots
  BY SlotsHold DEF HostTypes
<1>1. SUFFICES ASSUME k \notin Resolving(h) PROVE EnsureBegins(h, k) /\ Resolving(h) = {} /\
            \A j \in Slots : j # k => call'[h][j] = call[h][j]
  OBVIOUS
<1>2. call'[h][k].does \notin {"nothing", "joined"} /\ call[h][k].does \in {"nothing", "joined"}
  BY <1>0, <1>1 DEF Resolving
<1>3. CASE Connects(h) \/ ExitEnds(h)
  BY <1>2, <1>3 DEF Connects, ExitEnds
<1>4. CASE ExitBegins(h)
  <2>1. k # Exit
    BY HostAssumption
  <2>2. call'[h][k] = call[h][k]
    BY <1>0, <1>4, <2>1, ExitBeginsDoes, SlotsHold DEF Sets
  <2> QED BY <1>2, <2>2
<1>5. ASSUME NEW j \in Tools,
             ToolStarts(h, j) \/ ToolStops(h, j) \/ ToolStarted(h, j) \/ ToolStopped(h, j) \/ ToolFails(h, j)
      PROVE  FALSE
  <2>1. k # j
    BY HostAssumption
  <2>2. call'[h][k] = call[h][k]
    BY <1>0, <1>5, <2>1, ToolStartsDoes, ToolStopsDoes, ToolEndsDoes, SlotsHold DEF Sets
  <2> QED BY <1>2, <2>2
<1>6. ASSUME NEW j \in Flows, EnsureFinds(h, j) \/ EnsureStarts(h, j) \/ EnsureFails(h, j)
      PROVE  FALSE
  BY <1>0, <1>2, <1>6, EnsureEndsDoes, IdleIs DEF Settles
<1>7. ASSUME NEW j \in Flows, EnsureJoins(h, j)
      PROVE  FALSE
  <2>1. Sets(h, j, [does |-> "joined", on |-> NoId, says |-> "nothing"])
    BY <1>0, <1>7, EnsureJoinsDoes
  <2>2. k # j => call'[h][k] = call[h][k]
    BY <1>0, <2>1, SetsFields, SlotsHold
  <2>3. call'[h][j].does = "joined"
    BY <1>0, <2>1, SetsFields, SlotsHold
  <2> QED BY <1>2, <2>2, <2>3
<1>8. ASSUME NEW j \in Flows, StatusGone(h, j) \/ SummaryArrives(h, j)
      PROVE  FALSE
  <2>1. call[h][j].does \in {"status", "summary"}
    BY <1>8 DEF StatusGone, SummaryArrives, Got
  <2>2. Sets(h, j, Sending(h, "summary", NoId)) \/ Sets(h, j, Sending(h, "start", NoId))
    BY <1>0, <1>8, StatusGoneDoes, SummaryArrivesDoes
  <2>3. k # j => call'[h][k] = call[h][k]
    BY <1>0, <2>2, SlotsHold DEF Sets
  <2> QED BY <1>2, <2>1, <2>3
<1>9. ASSUME NEW j \in Flows, EnsureBegins(h, j)
      PROVE  j = k /\ Resolving(h) = {} /\ \A i \in Slots : i # k => call'[h][i] = call[h][i]
  <2>1. \A i \in Slots : i # j => call'[h][i] = call[h][i]
    BY <1>0, <1>9, EnsureBeginsDoes DEF Sets
  <2> QED BY <1>0, <1>2, <1>9, <2>1, EnsureBeginsDoes
<1> QED BY <1>3, <1>4, <1>5, <1>6, <1>7, <1>8, <1>9 DEF ClientStep, HostStep, FlowStep

LEMMA SingleFlightStep ==
  ASSUME HostTypes, SingleFlight, Moves PROVE SingleFlight'
<1> SUFFICES ASSUME NEW g \in Hosts, NEW j \in Flows, NEW k \in Flows,
                    j \in Resolving(g)', k \in Resolving(g)'
             PROVE  j = k
  BY DEF SingleFlight
<1>0. CallsTyped /\ Flows \subseteq Slots
  BY SlotsHold DEF HostTypes
<1>1. CASE \A i \in Flows : call'[g][i].does = call[g][i].does
  BY <1>1 DEF Resolving, SingleFlight
<1>2. ASSUME NEW h \in Hosts, ClientStep(h), ClientSources(h)
      PROVE  j = k
  <2>1. CASE g # h
    <3>1. \A i \in Flows : call'[g][i].does = call[g][i].does
      BY <1>0, <1>2, <2>1 DEF ClientSources
    <3> QED BY <1>1, <3>1
  <2>2. CASE g = h
    <3>1. /\ j \in Resolving(h) \/ (Resolving(h) = {} /\ \A i \in Slots : i # j => call'[h][i] = call[h][i])
          /\ k \in Resolving(h) \/ Resolving(h) = {}
      BY <1>2, <2>2, ResolvingStep
    <3>2. j \in Resolving(h) /\ k \in Resolving(h) => j = k
      BY DEF SingleFlight
    <3>3. Resolving(h) = {} => call[h][k].does \in {"nothing", "joined"}
      BY DEF Resolving
    <3>4. call'[h][k].does \notin {"nothing", "joined"}
      BY <2>2 DEF Resolving
    <3> QED BY <1>0, <3>1, <3>2, <3>3, <3>4
  <2> QED BY <2>1, <2>2
<1>3. ASSUME NEW h \in Hosts, NEW i \in Slots, CallMoves(h, i)
      PROVE  \A f \in Flows : call'[g][f].does = call[g][f].does
  BY <1>0, <1>3 DEF CallMoves
<1>4. FileSources \/ RestartMoves => \A f \in Flows : call'[g][f].does = call[g][f].does
  BY <1>0 DEF FileSources, hostVars, RestartMoves
<1> QED BY <1>1, <1>2, <1>3, <1>4 DEF Moves

\* What is sent without a connection is rejected; the rest of a client's step
\* leaves no request behind that was not there.
LEMMA WaitsOpenly ==
  ASSUME HostTypes, NEW h \in Hosts, ClientStep(h), ClientSources(h), NEW k \in Slots, Waiting(h, k)'
  PROVE  Waiting(h, k) \/ wire[h] = "open"
<1>0. CallsTyped /\ ClientsTyped
  BY DEF HostTypes
<1>1. SUFFICES ASSUME wire[h] # "open", call'[h][k] \notin {call[h][k], Idle} PROVE FALSE
  BY IdleIs DEF Waiting, Asked
<1>2. call'[h][k].says = "nothing" /\ call'[h][k].does \in Asked
  BY DEF Waiting
<1>3. ASSUME NEW j \in Slots, NEW what, NEW s, Sets(h, j, Sending(h, what, s))
      PROVE  FALSE
  BY <1>1, <1>2, <1>3, SendingSets
<1>4. CASE Connects(h) \/ ExitEnds(h)
  BY <1>1, <1>4 DEF Connects, ExitEnds
<1>5. CASE ExitBegins(h)
  <2> DEFINE s == IF hostKind[h] = "pi" THEN remembered[h] ELSE cred[h]
  <2>1. Sets(h, Exit, Sending(h, "stop", s)) \/ call' = call
    BY <1>0, <1>5, ExitBeginsDoes
  <2> HIDE DEF s
  <2> QED BY <1>1, <1>3, <2>1, SlotsHold
<1>6. ASSUME NEW j \in Tools,
             ToolStarts(h, j) \/ ToolStops(h, j) \/ ToolStarted(h, j) \/ ToolStopped(h, j) \/ ToolFails(h, j)
      PROVE  FALSE
  <2>1. Sets(h, j, Sending(h, "start", NoId)) \/ Sets(h, j, Sending(h, "stop", cred[h])) \/ Sets(h, j, Idle)
    BY <1>0, <1>6, ToolStartsDoes, ToolStopsDoes, ToolEndsDoes
  <2> QED BY <1>1, <1>3, <2>1, SlotsHold DEF Sets
<1>7. ASSUME NEW j \in Flows, FlowStep(h, j)
      PROVE  FALSE
  <2>1. CASE EnsureJoins(h, j)
    <3>1. Sets(h, j, [does |-> "joined", on |-> NoId, says |-> "nothing"])
      BY <1>0, <2>1, EnsureJoinsDoes
    <3>2. j \in Slots
      BY SlotsHold
    <3>3. k = j
      BY <1>1, <3>1 DEF Sets
    <3>4. call'[h][j].does = "joined"
      BY <3>1, <3>2, SetsFields
    <3> QED BY <1>2, <3>3, <3>4 DEF Asked
  <2>2. CASE EnsureFinds(h, j) \/ EnsureStarts(h, j) \/ EnsureFails(h, j)
    BY <1>0, <1>1, <2>2, EnsureEndsDoes DEF Settles
  <2>3. CASE EnsureBegins(h, j) \/ StatusGone(h, j) \/ SummaryArrives(h, j)
    <3>1. \/ Sets(h, j, Sending(h, "status", cred[h])) \/ Sets(h, j, Sending(h, "summary", cred[h]))
          \/ Sets(h, j, Sending(h, "summary", NoId)) \/ Sets(h, j, Sending(h, "start", NoId))
      BY <1>0, <2>3, EnsureBeginsDoes, StatusGoneDoes, SummaryArrivesDoes
    <3> QED BY <1>3, <3>1, SlotsHold
  <2> QED BY <1>7, <2>1, <2>2, <2>3 DEF FlowStep
<1> QED BY <1>4, <1>5, <1>6, <1>7 DEF ClientStep, HostStep

\* A connection is made by Connects and closed by ExitEnds.
LEMMA WireSteps ==
  ASSUME HostTypes, NEW h \in Hosts, ClientStep(h)
  PROVE  \/ wire' = wire /\ (life' = life \/ (life[h] = "running" /\ life'[h] = "leaving"))
         \/ /\ Connects(h) /\ wire'[h] = "open" /\ life' = life /\ call' = call /\ life[h] = "running"
         \/ wire'[h] = "closed" /\ life'[h] = "exited" /\ call' = call /\ ExitEnds(h)
<1>0. ClientsTyped
  BY DEF HostTypes
<1>1. CASE Connects(h)
  BY <1>0, <1>1 DEF Connects, ClientsTyped, Quietly, Runs
<1>2. CASE ExitBegins(h)
  BY <1>0, <1>2 DEF ExitBegins, ClientsTyped, Runs
<1>3. CASE ExitEnds(h)
  BY <1>0, <1>3 DEF ExitEnds, ClientsTyped
<1>4. ASSUME NEW k \in Tools,
             ToolStarts(h, k) \/ ToolStops(h, k) \/ ToolStarted(h, k) \/ ToolStopped(h, k) \/ ToolFails(h, k)
      PROVE  wire' = wire /\ life' = life
  BY <1>4 DEF ToolStarts, ToolStops, ToolBegins, ToolStarted, ToolStopped, ToolFails, Quietly
<1>5. ASSUME NEW k \in Flows, FlowStep(h, k)
      PROVE  wire' = wire /\ life' = life
  BY <1>5 DEF FlowStep, EnsureBegins, EnsureAmongFlows, EnsureJoins, StatusGone, SummaryArrives,
              EnsureFinds, EnsureStarts, EnsureFails, Quietly
<1> QED BY <1>1, <1>2, <1>3, <1>4, <1>5 DEF ClientStep, HostStep

\* Who holds a live session held it before, or is being given it.
LEMMA HoldsFrom ==
  ASSUME HostTypes, Locked, Moves, NEW g \in Hosts, NEW s \in SessionIds, Holds(g, s)'
  PROVE  \/ Holds(g, s) /\ starter'[s] = starter[s]
         \/ /\ state[s] = "none"
            /\ \E k \in Slots : CallMoves(g, k) /\ Grants(g, k) /\ call'[g][k].on = s
<1>1. ASSUME NEW h \in Hosts, NEW k \in Slots, CallMoves(h, k)
      PROVE  \/ Holds(g, s) /\ starter'[s] = starter[s]
             \/ g = h /\ Grants(h, k) /\ call'[h][k].on = s /\ state[s] = "none"
  <2>1. CASE Replies(h, k)
    BY <2>1 DEF Replies, Holds, serverVars
  <2>2. CASE Grants(h, k)
    BY <2>2 DEF Grants, Born, Holds
  <2>3. CASE Closes(h, k)
    BY <2>3 DEF Closes, Holds
  <2> QED BY <1>1, <2>1, <2>2, <2>3 DEF CallMoves
<1>2. ASSUME NEW h \in Hosts, ClientSources(h)
      PROVE  Holds(g, s) /\ starter'[s] = starter[s]
  BY <1>2 DEF ClientSources, Holds, serverVars
<1>3. CASE FileSources
  BY <1>3, FilesAge, HostAssumption DEF Holds, Born
<1>4. CASE RestartMoves
  BY <1>4 DEF RestartMoves, Holds
<1> QED BY <1>1, <1>2, <1>3, <1>4 DEF Moves

LEMMA CarriesIs ==
  ASSUME HostTypes, NEW h \in Hosts, NEW k \in Slots, NEW s
  PROVE  Carries(h, k, s) <=> call[h][k].does = "start" /\ call[h][k].on = s /\ call[h][k].says = "ok"
<1>1. call[h][k] = [does |-> call[h][k].does, on |-> call[h][k].on, says |-> call[h][k].says]
  BY CallsFit DEF HostTypes
<1> QED BY <1>1 DEF Carries

LEMMA CarriesIsNext ==
  ASSUME HostTypes', NEW h \in Hosts, NEW k \in Slots, NEW s
  PROVE  Carries(h, k, s)' <=> call'[h][k].does = "start" /\ call'[h][k].on = s /\ call'[h][k].says = "ok"
<1>1. call'[h][k] \in Fitting(k)
  BY DEF HostTypes, CallsTyped
<1>2. call'[h][k] = [does |-> call'[h][k].does, on |-> call'[h][k].on, says |-> call'[h][k].says]
  BY <1>1 DEF Fitting, HostCalls
<1> QED BY <1>2 DEF Carries

\* Whose tokens are under way was so before, or is being granted them.
LEMMA CarriesFrom ==
  ASSUME HostTypes, HostTypes', Moves, NEW g \in Hosts, NEW j \in Slots, NEW s \in SessionIds, Carries(g, j, s)'
  PROVE  \/ Carries(g, j, s)
         \/ CallMoves(g, j) /\ Grants(g, j) /\ call'[g][j].on = s
<1>1. call'[g][j].does = "start" /\ call'[g][j].on = s /\ call'[g][j].says = "ok"
  BY CarriesIsNext
<1>2. CASE call'[g][j] = call[g][j]
  BY <1>1, <1>2, CarriesIs
<1>3. ASSUME NEW h \in Hosts, NEW k \in Slots, CallMoves(h, k), call'[g][j] # call[g][j]
      PROVE  CallMoves(g, j) /\ Grants(g, j)
  BY <1>1, <1>3 DEF CallMoves, Replies, Closes
<1>4. ASSUME NEW h \in Hosts, ClientSources(h), call'[g][j] # call[g][j]
      PROVE  FALSE
  BY <1>1, <1>4, OthersKept, IdleIs
<1>5. FileSources => call' = call
  BY DEF FileSources, hostVars
<1>6. RestartMoves => call'[g][j] = call[g][j]
  BY <1>1 DEF RestartMoves
<1> QED BY <1>1, <1>2, <1>3, <1>4, <1>5, <1>6 DEF Moves

\* So with what a host waits for.
LEMMA WaitsFrom ==
  ASSUME HostTypes, Moves, NEW g \in Hosts, NEW j \in Slots, Waiting(g, j)'
  PROVE  /\ Waiting(g, j) \/ (wire[g] = "open" /\ ClientStep(g) /\ ClientSources(g))
         /\ ~RestartMoves
<1>1. call'[g][j].says = "nothing" /\ call'[g][j].does \in Asked
  BY DEF Waiting
<1>2. ~RestartMoves
  BY <1>1 DEF RestartMoves, Waiting
<1>3. CASE call'[g][j] = call[g][j]
  BY <1>1, <1>2, <1>3 DEF Waiting
<1>4. ASSUME NEW h \in Hosts, NEW k \in Slots, CallMoves(h, k), call'[g][j] # call[g][j]
      PROVE  FALSE
  BY <1>1, <1>4 DEF CallMoves, Replies, Closes, Grants
<1>5. ASSUME NEW h \in Hosts, ClientStep(h), ClientSources(h), call'[g][j] # call[g][j]
      PROVE  (wire[g] = "open" /\ h = g) \/ Waiting(g, j)
  <2>1. g = h
    BY <1>5 DEF ClientSources
  <2> QED BY <1>5, <2>1, WaitsOpenly
<1>6. FileSources => call' = call
  BY DEF FileSources, hostVars
<1> QED BY <1>2, <1>3, <1>4, <1>5, <1>6 DEF Moves

\* How the life and the connection of a host change.
LEMMA LinkSteps ==
  ASSUME HostTypes, Moves, NEW g \in Hosts
  PROVE  \/ wire'[g] = wire[g] /\ (life'[g] = life[g] \/ (life[g] = "running" /\ life'[g] = "leaving"))
         \/ Connects(g) /\ ClientSources(g) /\ wire'[g] = "open" /\ life'[g] = life[g] /\ life[g] = "running"
         \/ ExitEnds(g) /\ wire'[g] = "closed" /\ life'[g] = "exited"
         \/ RestartMoves
<1>1. ASSUME NEW h \in Hosts, NEW k \in Slots, CallMoves(h, k) PROVE wire' = wire /\ life' = life
  BY <1>1 DEF CallMoves, OnlyCall
<1>2. ASSUME NEW h \in Hosts, ClientStep(h), ClientSources(h), h # g
      PROVE  wire'[g] = wire[g] /\ life'[g] = life[g]
  BY <1>2 DEF ClientSources
<1>3. FileSources => wire' = wire /\ life' = life
  BY DEF FileSources, hostVars
<1> QED BY <1>1, <1>2, <1>3, WireSteps DEF Moves

LEMMA LinkedStep ==
  ASSUME HostTypes, HostTypes', Locked, Wired, Moves PROVE Wired'
<1> SUFFICES ASSUME NEW g \in Hosts
             PROVE  /\ wire'[g] # "open" /\ life'[g] # "exited" =>
                         /\ \A k \in Slots : ~Waiting(g, k)'
                         /\ \A s \in SessionIds : ~Holds(g, s)'
                    /\ wire'[g] = "none" => \A k \in Slots, s \in SessionIds : ~Carries(g, k, s)'
                    /\ life'[g] = "exited" => wire'[g] = "closed"
  BY DEF Wired
<1>0. /\ wire[g] # "open" /\ life[g] # "exited" =>
           (\A k \in Slots : ~Waiting(g, k)) /\ (\A s \in SessionIds : ~Holds(g, s))
      /\ wire[g] = "none" => \A k \in Slots, s \in SessionIds : ~Carries(g, k, s)
      /\ life[g] = "exited" => wire[g] = "closed"
  BY DEF Wired
<1>1. CASE wire'[g] = wire[g] /\ (life'[g] = life[g] \/ (life[g] = "running" /\ life'[g] = "leaving")) /\ ~RestartMoves
  <2>1. ASSUME wire[g] # "open", life[g] # "exited", NEW k \in Slots, Waiting(g, k)' PROVE FALSE
    BY <1>0, <2>1, WaitsFrom
  <2>2. ASSUME wire[g] # "open", life[g] # "exited", NEW s \in SessionIds, Holds(g, s)' PROVE FALSE
    BY <1>0, <2>2, HoldsFrom DEF CallMoves
  <2>3. ASSUME wire[g] = "none", NEW k \in Slots, NEW s \in SessionIds, Carries(g, k, s)' PROVE FALSE
    BY <1>0, <2>3, CarriesFrom DEF CallMoves
  <2> QED BY <1>0, <1>1, <2>1, <2>2, <2>3
<1>2. CASE wire'[g] = "open" /\ life'[g] = life[g] /\ life[g] = "running"
  BY <1>2
<1>3. CASE wire'[g] = "closed" /\ life'[g] = "exited"
  BY <1>3
<1>4. CASE RestartMoves
  <2>1. ASSUME NEW k \in Slots, Waiting(g, k)' PROVE FALSE
    BY <1>4, <2>1, WaitsFrom
  <2>2. ASSUME NEW s \in SessionIds, Holds(g, s)' PROVE FALSE
    BY <1>4, <2>2 DEF RestartMoves, Holds
  <2>3. ASSUME wire'[g] = "none", NEW k \in Slots, NEW s \in SessionIds, Carries(g, k, s)' PROVE FALSE
    <3>1. ~Carries(g, k, s)
      BY <1>0, <1>4, <2>3 DEF RestartMoves
    <3>2. CallMoves(g, k) /\ Grants(g, k)
      BY <2>3, <3>1, CarriesFrom
    <3>3. wire' = wire /\ Waiting(g, k)
      BY <3>2 DEF CallMoves, OnlyCall
    <3> QED BY <1>0, <1>4, <2>3, <3>3 DEF RestartMoves
  <2>4. life' = life /\ wire'[g] = IF wire[g] = "none" THEN "none" ELSE "closed"
    BY <1>4 DEF RestartMoves
  <2> QED BY <1>0, <2>1, <2>2, <2>3, <2>4
<1> QED BY <1>1, <1>2, <1>3, <1>4, LinkSteps

\* Tokens under way are a secret of their slot.
LEMMA CarriedStep ==
  ASSUME HostTypes, HostTypes', Ground, Wired, Wired', Carried, Moves PROVE Carried'
<1> SUFFICES ASSUME NEW h \in Hosts, NEW k \in Slots, NEW s \in SessionIds, Carries(h, k, s)'
             PROVE  /\ starter'[s] = By(h, k) /\ state'[s] \in {"active", "lost"} /\ Secret(s)'
                    /\ \A g \in Hosts, j \in Slots :
                         call'[g][j].on = s /\ call'[g][j].says # "refused" => g = h /\ j = k
                    /\ state'[s] = "lost" /\ life'[h] # "exited" => wire'[h] = "closed"
  BY DEF Carried, By
<1>0. CallsTyped /\ Ages /\ s # NoId /\ Locked /\ Unborn
  BY MovesAge, IdIsNoSession DEF HostTypes, Ground
<1>1. CASE CallMoves(h, k) /\ Grants(h, k) /\ call'[h][k].on = s
  <2>1. state[s] = "none" /\ state'[s] = "active" /\ starter'[s] = By(h, k)
    BY <1>1 DEF Grants, Born, By
  <2>2. Secret(s)'
    BY <1>0, <1>1, <2>1 DEF Unborn, Secret, CallMoves, OnlyCall, cliVars
  <2>3. \A g \in Hosts, j \in Slots : call'[g][j].on = s => g = h /\ j = k
    BY <1>0, <1>1, <2>1 DEF Unborn, CallMoves
  <2> QED BY <2>1, <2>2, <2>3
<1>2. CASE Carries(h, k, s)
  <2>0. /\ starter[s] = By(h, k) /\ state[s] \in {"active", "lost"} /\ Secret(s)
        /\ \A g \in Hosts, j \in Slots : call[g][j].on = s /\ call[g][j].says # "refused" => g = h /\ j = k
        /\ state[s] = "lost" /\ life[h] # "exited" => wire[h] = "closed"
    BY <1>2 DEF Carried
  <2>1. /\ call[h][k].does = "start" /\ call[h][k].on = s /\ call[h][k].says = "ok"
        /\ call'[h][k].does = "start" /\ call'[h][k].on = s /\ call'[h][k].says = "ok"
    BY <1>2, CarriesIs, CarriesIsNext
  <2>2. starter'[s] = By(h, k) /\ state'[s] # "none"
    BY <1>0, <2>0 DEF Ages
  <2>3. \A g \in Hosts, j \in Slots : ~(Takes(g, j, s))
    BY <2>0, <2>1, IdleIs DEF Takes
  <2>4. ASSUME NEW g \in Hosts, NEW j \in Slots, CallMoves(g, j)
        PROVE  /\ state'[s] = state[s] /\ Secret(s)'
               /\ \A f \in Hosts, i \in Slots :
                    call'[f][i].on = s /\ call'[f][i].says # "refused" => f = h /\ i = k
    <3>1. Secret(s)'
      BY <2>0, <2>4 DEF CallMoves, OnlyCall, cliVars, Secret
    <3>2. call[g][j].says = "nothing"
      BY <2>4 DEF CallMoves, Waiting
    <3>3. g # h \/ j # k
      BY <2>1, <3>2
    <3>4. call[g][j].on # s
      BY <2>0, <3>2, <3>3
    <3>5. CASE Replies(g, j)
      BY <2>0, <2>4, <3>1, <3>4, <3>5 DEF Replies, serverVars, CallMoves
    <3>6. CASE Grants(g, j)
      BY <2>0, <2>4, <3>1, <3>6 DEF Grants, Born, CallMoves
    <3>7. CASE Closes(g, j)
      BY <2>0, <2>4, <3>1, <3>4, <3>7 DEF Closes, CallMoves
    <3> QED BY <2>4, <3>5, <3>6, <3>7 DEF CallMoves
  <2>5. ASSUME NEW g \in Hosts, ClientSources(g)
        PROVE  /\ state'[s] = state[s] /\ Secret(s)'
               /\ \A f \in Hosts, i \in Slots :
                    call'[f][i].on = s /\ call'[f][i].says # "refused" => f = h /\ i = k
    <3>1. state' = state
      BY <2>5 DEF ClientSources, serverVars
    <3>2. cred'[g] # s /\ remembered'[g] # s
      BY <1>0, <2>0, <2>3, <2>5 DEF ClientSources, Secret
    <3>3. s \notin store'
      BY <2>0, <2>3, <2>5 DEF ClientSources, Secret
    <3>4. Secret(s)'
      BY <2>0, <2>5, <3>2, <3>3 DEF ClientSources, Secret, cliVars
    <3>5. \A f \in Hosts, i \in Slots : call'[f][i].on = s /\ call'[f][i].says # "refused" => f = h /\ i = k
      BY <1>0, <2>0, <2>5, OthersKept, IdleIs DEF Secret
    <3> QED BY <3>1, <3>4, <3>5
  <2>6. ASSUME FileSources
        PROVE  /\ state'[s] = state[s] /\ Secret(s)'
               /\ \A f \in Hosts, i \in Slots :
                    call'[f][i].on = s /\ call'[f][i].says # "refused" => f = h /\ i = k
    <3>1. state'[s] = state[s] /\ Secret(s)'
      BY <2>0, <2>6, FilesAge DEF FileSources, hostVars, Secret, Born, Ground
    <3> QED BY <2>0, <2>6, <3>1 DEF FileSources, hostVars
  <2>7. ASSUME RestartMoves
        PROVE  /\ state'[s] = "lost" /\ Secret(s)'
               /\ \A f \in Hosts, i \in Slots :
                    call'[f][i].on = s /\ call'[f][i].says # "refused" => f = h /\ i = k
    <3>1. state'[s] = "lost" /\ Secret(s)'
      BY <2>0, <2>7 DEF RestartMoves, Secret
    <3>2. \A f \in Hosts, i \in Slots : call'[f][i].on = s /\ call'[f][i].says # "refused" => f = h /\ i = k
      BY <2>0, <2>7 DEF RestartMoves, Waiting
    <3> QED BY <3>1, <3>2
  <2>8. state'[s] = "lost" /\ life'[h] # "exited" => wire'[h] = "closed"
    <3>1. CASE RestartMoves
      <4>1. wire[h] # "none"
        BY <1>2 DEF Wired
      <4> QED BY <3>1, <4>1 DEF RestartMoves
    <3>2. CASE ~RestartMoves
      <4>1. state'[s] = state[s]
        BY <2>4, <2>5, <2>6, <3>2 DEF Moves
      <4>2. ~Connects(h) \/ state[s] # "lost" \/ life[h] = "exited"
        BY <2>0, <2>1 DEF Connects
      <4> QED BY <2>0, <3>2, <4>1, <4>2, LinkSteps
    <3> QED BY <3>1, <3>2
  <2>9. state'[s] \in {"active", "lost"} /\ Secret(s)'
        /\ \A g \in Hosts, j \in Slots : call'[g][j].on = s /\ call'[g][j].says # "refused" => g = h /\ j = k
    BY <2>0, <2>4, <2>5, <2>6, <2>7 DEF Moves
  <2> QED BY <2>2, <2>8, <2>9
<1> QED BY <1>1, <1>2, CarriesFrom

-----------------------------------------------------------------------------
(* The token of a live session is never dropped; a resolution is about it. *)

LEMMA WhatIsHeld ==
  ASSUME HostTypes, NEW h \in Hosts, NEW k \in Slots
  PROVE  /\ call[h][k] = Idle => call[h][k].does = "nothing" /\ call[h][k].says = "nothing"
         /\ call[h][k].does = "start" => k # Exit
BY IdleIs, CallsFit, SlotsAreApart DEF HostTypes

\* Which steps change the credential of a host.
CredChanges(g) ==
  \/ cred'[g] = cred[g]
  \/ \E k \in Flows : StatusGone(g, k) /\ cred'[g] = NoId
  \/ \E k \in Flows \union Tools : /\ EnsureStarts(g, k) \/ ToolStarted(g, k)
                                   /\ Carries(g, k, cred'[g])
  \/ \E k \in Tools : ToolStopped(g, k) /\ call[g][k].on = cred[g] /\ cred'[g] = NoId
  \/ ExitEnds(g)

LEMMA CredSteps ==
  ASSUME HostTypes, Moves, NEW g \in Hosts PROVE CredChanges(g)
<1>0. ClientsTyped /\ Flows \subseteq Slots /\ Tools \subseteq Slots
  BY SlotsHold DEF HostTypes
<1>1. ASSUME NEW h \in Hosts, ClientStep(h), ClientSources(h), h # g
      PROVE  cred'[g] = cred[g]
  BY <1>1 DEF ClientSources
<1>2. ASSUME HostStep(g) PROVE CredChanges(g)
  <2>1. CASE Connects(g) \/ ExitBegins(g)
    BY <2>1 DEF Connects, ExitBegins, CredChanges
  <2>2. CASE ExitEnds(g)
    BY <2>2 DEF CredChanges
  <2>3. ASSUME NEW k \in Tools, ToolStarts(g, k) \/ ToolStops(g, k) \/ ToolFails(g, k) PROVE CredChanges(g)
    BY <2>3 DEF ToolStarts, ToolStops, ToolBegins, ToolFails, CredChanges
  <2>4. ASSUME NEW k \in Tools, ToolStarted(g, k) PROVE CredChanges(g)
    <3>1. cred'[g] = call[g][k].on /\ call[g][k].does = "start" /\ call[g][k].says = "ok"
      BY <1>0, <2>4 DEF ToolStarted, Got, ClientsTyped
    <3>2. Carries(g, k, cred'[g])
      BY <1>0, <3>1, CarriesIs
    <3> QED BY <2>4, <3>2 DEF CredChanges
  <2>5. ASSUME NEW k \in Tools, ToolStopped(g, k) PROVE CredChanges(g)
    BY <1>0, <2>5 DEF ToolStopped, Clears, ClientsTyped, CredChanges
  <2> QED BY <1>2, <2>1, <2>2, <2>3, <2>4, <2>5 DEF HostStep
<1>3. ASSUME NEW k \in Flows, FlowStep(g, k) PROVE CredChanges(g)
  <2>1. CASE EnsureBegins(g, k) \/ EnsureJoins(g, k) \/ SummaryArrives(g, k) \/ EnsureFinds(g, k) \/ EnsureFails(g, k)
    BY <2>1 DEF EnsureBegins, EnsureAmongFlows, EnsureJoins, SummaryArrives, EnsureFinds, EnsureFails, CredChanges
  <2>2. CASE StatusGone(g, k)
    BY <1>0, <2>2 DEF StatusGone, ClientsTyped, CredChanges
  <2>3. CASE EnsureStarts(g, k)
    <3>1. cred'[g] = call[g][k].on /\ call[g][k].does = "start" /\ call[g][k].says = "ok"
      BY <1>0, <2>3 DEF EnsureStarts, Got, ClientsTyped
    <3>2. Carries(g, k, cred'[g])
      BY <1>0, <3>1, CarriesIs
    <3> QED BY <2>3, <3>2 DEF CredChanges
  <2> QED BY <1>3, <2>1, <2>2, <2>3 DEF FlowStep
<1>4. ASSUME NEW h \in Hosts, NEW k \in Slots, CallMoves(h, k) PROVE cred' = cred
  BY <1>4 DEF CallMoves, OnlyCall
<1>5. FileSources \/ RestartMoves => cred' = cred
  BY DEF FileSources, hostVars, RestartMoves
<1> QED BY <1>1, <1>2, <1>3, <1>4, <1>5 DEF Moves, ClientStep, CredChanges

\* Tokens that arrive become the credential.
LEMMA CarriesGoes ==
  ASSUME HostTypes, HostTypes', Moves, NEW g \in Hosts, NEW k \in Slots, NEW s \in SessionIds, Carries(g, k, s)
  PROVE  Carries(g, k, s)' \/ cred'[g] = s
<1>0. /\ CallsTyped /\ ClientsTyped /\ Flows \subseteq Slots /\ Tools \subseteq Slots /\ Exit \in Slots
      /\ call[g][k].does = "start" /\ call[g][k].on = s /\ call[g][k].says = "ok" /\ k # Exit
  BY CarriesIs, WhatIsHeld, SlotsHold DEF HostTypes
<1>1. CASE call'[g][k] = call[g][k]
  BY <1>0, <1>1, CarriesIsNext
<1>2. ASSUME HostStep(g) PROVE call'[g][k] = call[g][k] \/ cred'[g] = s
  <2>1. CASE Connects(g) \/ ExitEnds(g)
    BY <2>1 DEF Connects, ExitEnds
  <2>2. CASE ExitBegins(g)
    BY <1>0, <2>2, ExitBeginsDoes DEF Sets
  <2>3. ASSUME NEW j \in Tools, ToolStarts(g, j) \/ ToolStops(g, j) PROVE call'[g][k] = call[g][k]
    <3>1. j # k
      BY <1>0, <2>3, ToolStartsDoes, ToolStopsDoes, IdleIs
    <3> QED BY <1>0, <2>3, <3>1, ToolStartsDoes, ToolStopsDoes DEF Sets
  <2>4. ASSUME NEW j \in Tools, ToolStopped(g, j) \/ ToolFails(g, j) PROVE call'[g][k] = call[g][k]
    <3>1. j # k
      BY <1>0, <2>4 DEF ToolStopped, ToolFails, Got
    <3> QED BY <1>0, <2>4, <3>1, ToolEndsDoes DEF Sets
  <2>5. ASSUME NEW j \in Tools, ToolStarted(g, j) PROVE call'[g][k] = call[g][k] \/ cred'[g] = s
    <3>1. cred'[g] = call[g][j].on
      BY <1>0, <2>5 DEF ToolStarted, ClientsTyped
    <3> QED BY <1>0, <2>5, <3>1, ToolEndsDoes DEF Sets
  <2> QED BY <1>2, <2>1, <2>2, <2>3, <2>4, <2>5 DEF HostStep
<1>3. ASSUME NEW j \in Flows, FlowStep(g, j) PROVE call'[g][k] = call[g][k] \/ cred'[g] = s
  <2>1. CASE EnsureBegins(g, j) \/ EnsureJoins(g, j)
    <3>1. j # k
      BY <1>0, <2>1, EnsureBeginsDoes, EnsureJoinsDoes
    <3> QED BY <1>0, <2>1, <3>1, EnsureBeginsDoes, EnsureJoinsDoes DEF Sets
  <2>2. CASE StatusGone(g, j) \/ SummaryArrives(g, j)
    <3>1. j # k
      BY <1>0, <2>2 DEF StatusGone, SummaryArrives, Got
    <3> QED BY <1>0, <2>2, <3>1, StatusGoneDoes, SummaryArrivesDoes DEF Sets
  <2>3. CASE EnsureFinds(g, j) \/ EnsureFails(g, j)
    <3>1. j # k
      BY <1>0, <2>3 DEF EnsureFinds, EnsureFails, Got
    <3> QED BY <1>0, <2>3, <3>1, EnsureEndsDoes DEF Settles
  <2>4. CASE EnsureStarts(g, j)
    <3>1. cred'[g] = call[g][j].on
      BY <1>0, <2>4 DEF EnsureStarts, ClientsTyped
    <3> QED BY <1>0, <2>4, <3>1, EnsureEndsDoes DEF Settles
  <2> QED BY <1>3, <2>1, <2>2, <2>3, <2>4 DEF FlowStep
<1>4. ASSUME NEW h \in Hosts, NEW j \in Slots, CallMoves(h, j) PROVE call'[g][k] = call[g][k]
  BY <1>0, <1>4 DEF CallMoves, Waiting
<1>5. ASSUME NEW h \in Hosts, ClientSources(h), h # g PROVE call'[g][k] = call[g][k]
  BY <1>5 DEF ClientSources
<1>6. FileSources \/ RestartMoves => call'[g][k] = call[g][k]
  BY <1>0 DEF FileSources, hostVars, RestartMoves, Waiting
<1> QED BY <1>1, <1>2, <1>3, <1>4, <1>5, <1>6 DEF Moves, ClientStep

LEMMA RestartsGrow ==
  ASSUME HostTypes, Locked, Moves, restarts' = 0 PROVE restarts = 0 /\ ~RestartMoves
BY FilesAge DEF Moves, CallMoves, Replies, Grants, Closes, ClientSources, RestartMoves, serverVars

LEMMA HeldFastStep ==
  ASSUME HostTypes, HostTypes', Ground, Wired, Carried, HeldFast, Resolves, Moves
  PROVE  HeldFast'
<1> SUFFICES ASSUME NEW h \in Hosts, NEW s \in SessionIds, Holds(h, s)', life'[h] # "exited",
                    starter'[s].how = "ensure" \/ restarts' = 0
             PROVE  cred'[h] = s \/ \E k \in Slots : Carries(h, k, s)'
  BY DEF HeldFast
<1>0. CallsTyped /\ ClientsTyped /\ Flows \subseteq Slots /\ Tools \subseteq Slots /\ s # NoId
  BY SlotsHold, IdIsNoSession DEF HostTypes
<1>1. ~RestartMoves
  BY DEF RestartMoves, Holds
<1>2. CASE \E k \in Slots : CallMoves(h, k) /\ Grants(h, k) /\ call'[h][k].on = s
  BY <1>2, CarriesIsNext DEF CallMoves, Grants
<1>3. CASE Holds(h, s) /\ starter'[s] = starter[s]
  <2>1. life[h] # "exited"
    BY <1>1, LinkSteps
  <2>2. starter[s].how = "ensure" \/ restarts = 0
    BY <1>3, RestartsGrow DEF Ground
  <2>3. cred[h] = s \/ \E k \in Slots : Carries(h, k, s)
    BY <1>3, <2>1, <2>2 DEF HeldFast
  <2>4. CASE \E k \in Slots : Carries(h, k, s)
    BY <2>4, CarriesGoes
  <2>5. CASE cred[h] = s
    <3>1. ASSUME NEW k \in Flows, StatusGone(h, k) PROVE FALSE
      <4>1. call[h][k].does = "status" /\ call[h][k].says = "gone" /\ call[h][k].on \in SessionIds
        BY <1>0, <3>1, CallsFit DEF StatusGone, Got
      <4>2. state[call[h][k].on] = "lost"
        BY <1>0, <4>1 DEF Ground, AnswersTrue
      <4>3. restarts > 0
        BY <4>1, <4>2 DEF Ground, Lasting
      <4>4. starter[s].how # "ensure"
        BY <1>3, <4>1, <4>2 DEF Resolves, Holds
      <4> QED BY <2>2, <4>3, <4>4
    <3>2. ASSUME NEW k \in Flows \union Tools, NEW o \in SessionIds, Carries(h, k, o)
          PROVE  o = s
      <4>1. state[o] \in {"active", "lost"} /\ (state[o] = "lost" => wire[h] = "closed")
        BY <1>0, <2>1, <3>2 DEF Carried
      <4>2. wire[h] # "closed"
        BY <1>3, <2>1 DEF Wired
      <4>3. state[o] = "active" /\ state[s] = "active"
        BY <1>3, <4>1, <4>2 DEF Holds
      <4> QED BY <4>3 DEF Ground, Locked
    <3>3. ASSUME NEW k \in Flows \union Tools, Carries(h, k, cred'[h]) PROVE cred'[h] \in SessionIds
      <4>1. k \in Slots
        BY <1>0
      <4>2. call[h][k].on = cred'[h] /\ call[h][k].says = "ok"
        BY <3>3, <4>1, CarriesIs
      <4> QED BY <1>0, <4>1, <4>2, CallsFit
    <3>4. ASSUME NEW k \in Tools, ToolStopped(h, k), call[h][k].on = cred[h] PROVE FALSE
      <4>1. call[h][k].does = "stop" /\ call[h][k].says = "ok"
        BY <3>4 DEF ToolStopped, Got
      <4> QED BY <1>0, <1>3, <2>5, <3>4, <4>1 DEF Ground, AnswersTrue, Holds
    <3>5. ~ExitEnds(h)
      BY <1>0 DEF ExitEnds, ClientsTyped
    <3> QED BY <2>5, <3>1, <3>2, <3>3, <3>4, <3>5, CredSteps DEF CredChanges
  <2> QED BY <2>3, <2>4, <2>5
<1> QED BY <1>2, <1>3, HoldsFrom DEF Ground

\* Which flow calls change, and how, while their host holds a session.
LEMMA ResolvesStep ==
  ASSUME HostTypes, HostTypes', Ground, SingleFlight, Carried, HeldFast, Resolves, Moves
  PROVE  Resolves'
<1> SUFFICES ASSUME NEW g \in Hosts, NEW k \in Flows, NEW s \in SessionIds, Holds(g, s)', starter'[s].how = "ensure"
             PROVE  /\ call'[g][k].does = "status" => call'[g][k].on = s
                    /\ ~(call'[g][k].does = "summary" /\ call'[g][k].says # "lost")
                    /\ ~(call'[g][k].does = "start" /\ call'[g][k].says = "nothing")
  BY DEF Resolves
<1>0. CallsTyped /\ ClientsTyped /\ Flows \subseteq Slots /\ Tools \subseteq Slots /\ s # NoId /\ k \in Slots
  BY SlotsHold, IdIsNoSession DEF HostTypes
<1>1. ~RestartMoves
  BY DEF RestartMoves, Holds
<1>2. ASSUME NEW j \in Slots, CallMoves(g, j), Grants(g, j), call'[g][j].on = s
      PROVE  /\ call'[g][k].does = "status" => call'[g][k].on = s
             /\ ~(call'[g][k].does = "summary" /\ call'[g][k].says # "lost")
             /\ ~(call'[g][k].does = "start" /\ call'[g][k].says = "nothing")
  <2>1. starter'[s].how = IF j \in Tools THEN "tool" ELSE "ensure"
    BY <1>2 DEF Grants, Born
  <2>2. j \in Flows
    BY <1>2, <2>1 DEF Grants
  <2>3. call[g][j].does = "start" /\ j \in Resolving(g) /\ call'[g][j].does = "start" /\ call'[g][j].says = "ok"
    BY <1>2, <2>2 DEF Grants, CallMoves, Resolving
  <2>4. CASE k # j
    <3>1. call[g][k].does \in {"nothing", "joined"}
      BY <2>2, <2>3, <2>4 DEF SingleFlight, Resolving
    <3>2. call'[g][k] = call[g][k]
      BY <1>0, <1>2, <2>4 DEF CallMoves
    <3> QED BY <3>1, <3>2
  <2> QED BY <2>3, <2>4
<1>3. CASE Holds(g, s) /\ starter'[s] = starter[s]
  <2>0. /\ call[g][k].does = "status" => call[g][k].on = s
        /\ ~(call[g][k].does = "summary" /\ call[g][k].says # "lost")
        /\ ~(call[g][k].does = "start" /\ call[g][k].says = "nothing")
    BY <1>3 DEF Resolves
  <2>1. CASE call'[g][k] = call[g][k]
    BY <2>0, <2>1
  <2>2. CASE call'[g][k].does \in {"nothing", "joined"}
    BY <2>2
  <2>3. CASE CallMoves(g, k)
    BY <2>0, <2>3 DEF CallMoves, Waiting, Asked, Replies, Grants, Closes
  <2>4. CASE EnsureBegins(g, k)
    <3>1. life[g] = "running" /\ Resolving(g) = {} /\ Sets(g, k, Sending(g, First(g), cred[g]))
          /\ First(g) = IF cred[g] # NoId THEN "status" ELSE "summary"
      BY <1>0, <2>4, EnsureBeginsDoes
    <3>2. \A j \in Slots : ~Carries(g, j, s)
      <4> SUFFICES ASSUME NEW j \in Slots, Carries(g, j, s) PROVE FALSE
        OBVIOUS
      <4>1. call[g][j].does = "start"
        BY CarriesIs
      <4>2. j \in Flows
        <5>1. starter[s] = By(g, j)
          BY DEF Carried
        <5>2. By(g, j).how = IF j \in Tools THEN "tool" ELSE "ensure"
          BY DEF By
        <5>3. starter[s].how = "ensure"
          BY <1>3
        <5>4. j \notin Tools
          BY <5>1, <5>2, <5>3
        <5> QED BY <5>4, <4>1, WhatIsHeld DEF Slots
      <4>3. j \in Resolving(g)
        BY <4>1, <4>2 DEF Resolving
      <4> QED BY <3>1, <4>3
    <3>3. cred[g] = s
      BY <1>3, <3>1, <3>2 DEF HeldFast
    <3> QED BY <1>0, <3>1, <3>3, SendingSets
  <2>5. ~StatusGone(g, k)
    BY <1>0, <1>3, <2>0 DEF StatusGone, Got, Ground, AnswersTrue, Holds
  <2>6. ~SummaryArrives(g, k)
    BY <2>0 DEF SummaryArrives, Got
  <2>7. ASSUME HostStep(g) PROVE call'[g][k] = call[g][k]
    <3>1. k # Exit /\ k \notin Tools
      BY HostAssumption
    <3>2. CASE Connects(g) \/ ExitEnds(g)
      BY <3>2 DEF Connects, ExitEnds
    <3>3. CASE ExitBegins(g)
      BY <1>0, <3>1, <3>3, ExitBeginsDoes DEF Sets
    <3>4. ASSUME NEW j \in Tools,
                 ToolStarts(g, j) \/ ToolStops(g, j) \/ ToolStarted(g, j) \/ ToolStopped(g, j) \/ ToolFails(g, j)
          PROVE  call'[g][k] = call[g][k]
      <4>1. k # j
        BY <3>1
      <4> QED BY <1>0, <3>4, <4>1, ToolStartsDoes, ToolStopsDoes, ToolEndsDoes DEF Sets
    <3> QED BY <2>7, <3>2, <3>3, <3>4 DEF HostStep
  <2>8. ASSUME NEW j \in Flows, FlowStep(g, j)
        PROVE  call'[g][k] = call[g][k] \/ call'[g][k].does \in {"nothing", "joined"} \/ EnsureBegins(g, k)
    <3>1. CASE EnsureFinds(g, j) \/ EnsureStarts(g, j) \/ EnsureFails(g, j)
      BY <1>0, <3>1, EnsureEndsDoes, IdleIs DEF Settles
    <3>2. CASE j # k /\ ~(EnsureFinds(g, j) \/ EnsureStarts(g, j) \/ EnsureFails(g, j))
      BY <1>0, <2>8, <3>2, EnsureBeginsDoes, EnsureJoinsDoes, StatusGoneDoes, SummaryArrivesDoes DEF FlowStep, Sets
    <3>3. CASE EnsureJoins(g, k)
      BY <1>0, <3>3, EnsureJoinsDoes, SetsFields
    <3> QED BY <2>5, <2>6, <2>8, <3>1, <3>2, <3>3 DEF FlowStep
  <2>9. ASSUME NEW h \in Hosts, NEW j \in Slots, CallMoves(h, j), ~CallMoves(g, k) PROVE call'[g][k] = call[g][k]
    BY <1>0, <2>9 DEF CallMoves
  <2>10. ASSUME NEW h \in Hosts, ClientSources(h), h # g PROVE call'[g][k] = call[g][k]
    BY <1>0, <2>10 DEF ClientSources
  <2>11. FileSources => call'[g][k] = call[g][k]
    BY DEF FileSources, hostVars
  <2> QED BY <1>1, <2>1, <2>2, <2>3, <2>4, <2>7, <2>8, <2>9, <2>10, <2>11 DEF Moves, ClientStep
<1> QED BY <1>2, <1>3, HoldsFrom DEF Ground

LEMMA NoSelfRefusalStep ==
  ASSUME HostTypes, HostTypes', Ground, Resolves, NoSelfRefusal, Moves
  PROVE  NoSelfRefusal'
<1> SUFFICES ASSUME NEW h \in Hosts, NEW k \in Flows, call'[h][k].says = "refused"
             PROVE  starter'[call'[h][k].on] # [who |-> h, how |-> "ensure"]
  BY DEF NoSelfRefusal
<1>0. CallsTyped /\ k \in Slots /\ Ages
  BY SlotsHold, MovesAge DEF HostTypes, Ground
<1>1. CASE call'[h][k] = call[h][k]
  <2>1. call[h][k].on \in SessionIds
    BY <1>0, <1>1, CallsFit
  <2>2. starter'[call[h][k].on] = starter[call[h][k].on]
    BY <1>0, <2>1 DEF Ages, Ground, Unborn
  <2> QED BY <1>1, <2>2 DEF NoSelfRefusal
<1>2. CASE CallMoves(h, k)
  <2>1. /\ starter' = starter /\ call'[h][k].on = lockHolder /\ lockHolder \in SessionIds
        /\ call[h][k].does = "start" /\ call[h][k].says = "nothing"
    BY <1>2 DEF CallMoves, Replies, Grants, Closes, Waiting, serverVars
  <2>2. state[lockHolder] = "active"
    BY <2>1 DEF Ground, Locked
  <2>3. ~(starter[lockHolder] = [who |-> h, how |-> "ensure"])
    BY <2>1, <2>2 DEF Resolves, Holds
  <2> QED BY <2>1, <2>3
<1>3. ASSUME NEW g \in Hosts, NEW j \in Slots, CallMoves(g, j), ~CallMoves(h, k) PROVE call'[h][k] = call[h][k]
  BY <1>0, <1>3 DEF CallMoves
<1>4. ASSUME NEW g \in Hosts, ClientSources(g) PROVE call'[h][k] = call[h][k]
  BY <1>0, <1>4, OthersKept, IdleIs
<1>5. FileSources \/ RestartMoves => call'[h][k] = call[h][k]
  BY <1>0 DEF FileSources, hostVars, RestartMoves, Waiting
<1> QED BY <1>1, <1>2, <1>3, <1>4, <1>5 DEF Moves

Sharing == SingleFlight /\ Wired /\ Carried
Holding == HeldFast /\ Resolves
SharingInv == HostTypes /\ Ground /\ Sharing /\ Holding /\ NoSelfRefusal

LEMMA SharingInit == HostInit => SharingInv
<1> SUFFICES ASSUME HostInit PROVE SharingInv OBVIOUS
<1>1. HostTypes /\ Ground
  BY HostTypesInit, GroundInit
<1>2. /\ \A h \in Hosts, k \in Slots : call[h][k] = Idle
      /\ \A h \in Hosts, s \in SessionIds : ~Holds(h, s)
      /\ \A h \in Hosts : life[h] = "running"
  BY DEF HostInit, Holds
<1>3. /\ \A h \in Hosts : Resolving(h) = {}
      /\ \A h \in Hosts, k \in Slots : ~Waiting(h, k) /\ call[h][k].says = "nothing"
      /\ \A h \in Hosts, k \in Slots, s \in SessionIds : ~Carries(h, k, s)
  <2>1. \A h \in Hosts : Resolving(h) = {}
    BY <1>2, IdleIs, SlotsHold DEF Resolving
  <2>2. \A h \in Hosts, k \in Slots : ~Waiting(h, k) /\ call[h][k].says = "nothing"
    BY <1>2, IdleIs DEF Waiting, Asked
  <2> QED BY <1>1, <2>1, <2>2, CarriesIs
<1> QED BY <1>1, <1>2, <1>3, SlotsHold
    DEF SharingInv, Sharing, Holding, SingleFlight, Wired, Carried, HeldFast, Resolves, NoSelfRefusal

LEMMA SharingStep == SharingInv /\ [HostNext]_sessionVars => SharingInv'
<1> SUFFICES ASSUME SharingInv, [HostNext]_sessionVars PROVE SharingInv' OBVIOUS
<1>1. HostTypes'
  BY HostTypesStep DEF SharingInv
<1>2. CASE UNCHANGED sessionVars
  BY <1>1, <1>2 DEF SharingInv, sessionVars, serverVars, hostVars, cliVars, Ground, Locked, Lasting, AnswersTrue,
     Unborn, Sharing, Holding, SingleFlight, Wired, Carried, HeldFast, Resolves, NoSelfRefusal,
     Resolving, Waiting, Holds, Carries, Secret
<1>3. CASE HostNext
  <2>1. Moves
    BY <1>3, StepsMove DEF SharingInv, Ground
  <2>2. Ground' /\ SingleFlight' /\ NoSelfRefusal'
    BY <1>1, <2>1, GroundStep, SingleFlightStep, NoSelfRefusalStep DEF SharingInv, Sharing, Holding
  <2>3. Wired'
    BY <1>1, <2>1, LinkedStep DEF SharingInv, Sharing, Ground
  <2>4. Carried'
    BY <1>1, <2>1, <2>3, CarriedStep DEF SharingInv, Sharing
  <2>5. HeldFast' /\ Resolves'
    BY <1>1, <2>1, HeldFastStep, ResolvesStep DEF SharingInv, Sharing, Holding
  <2> QED BY <1>1, <2>2, <2>3, <2>4, <2>5 DEF SharingInv, Sharing, Holding
<1> QED BY <1>2, <1>3

LEMMA SharingShares == SharingInv => ConcurrentCallsShare
<1> SUFFICES ASSUME SharingInv PROVE TokenHeld
  BY DEF ConcurrentCallsShare, SharingInv
<1>1. HeldFast
  BY DEF SharingInv, Holding
<1> QED BY <1>1 DEF TokenHeld, HeldFast, Holds, Carries

\* The calls of one client share one session, and no token of a live one is dropped
\* (ensureSession in client.ts, in whatever order the answers arrive).
THEOREM CallsShareOneSession == HostSpec => []ConcurrentCallsShare
<1>1. HostInit => SharingInv
  BY SharingInit
<1>2. SharingInv /\ [HostNext]_sessionVars => SharingInv'
  BY SharingStep
<1>3. SharingInv => ConcurrentCallsShare
  BY SharingShares
<1> QED BY <1>1, <1>2, <1>3, PTL DEF HostSpec

-----------------------------------------------------------------------------
(* Hosts and commands that leave nothing behind. *)

\* What a step makes of one call of a host.
CallChanges(g, k) ==
  \/ call'[g][k] = call[g][k]
  \/ k # Exit /\ call'[g][k] = Idle
  \/ CallMoves(g, k)
  \/ RestartMoves
  \/ k \in Flows /\ life[g] = "running" /\ call'[g][k].does = "joined" /\ Resolving(g) # {}
  \/ /\ k \in Flows /\ EnsureBegins(g, k) /\ call'[g][k].does \in {"status", "summary"}
     /\ call'[g][k].does = "status" => call'[g][k].on = cred[g]
  \/ /\ k \in Flows /\ (StatusGone(g, k) \/ SummaryArrives(g, k))
     /\ call'[g][k].does \in {"summary", "start"}
  \/ k \in Tools /\ ToolStarts(g, k) /\ call'[g][k].does = "start"
  \/ k \in Tools /\ ToolStops(g, k) /\ call'[g][k].does = "stop" /\ call'[g][k].on = cred[g]
  \/ k = Exit /\ ExitBegins(g)

LEMMA CallSteps ==
  ASSUME HostTypes, Moves, NEW g \in Hosts, NEW k \in Slots
  PROVE  CallChanges(g, k)
<1>0. /\ CallsTyped /\ ClientsTyped /\ Flows \subseteq Slots /\ Tools \subseteq Slots /\ Exit \in Slots
      /\ Exit \notin Flows /\ Exit \notin Tools
  BY SlotsHold, HostAssumption DEF HostTypes
<1>1. ASSUME HostStep(g) PROVE CallChanges(g, k)
  <2>1. CASE Connects(g) \/ ExitEnds(g)
    BY <2>1 DEF Connects, ExitEnds, CallChanges
  <2>2. CASE ExitBegins(g)
    BY <1>0, <2>2, ExitBeginsDoes DEF Sets, CallChanges
  <2>3. ASSUME NEW j \in Tools, ToolStarts(g, j) PROVE CallChanges(g, k)
    <3>1. Sets(g, j, Sending(g, "start", NoId))
      BY <1>0, <2>3, ToolStartsDoes
    <3>2. call'[g][j].does = "start" /\ (j # k => call'[g][k] = call[g][k])
      BY <1>0, <3>1, SendingSets
    <3> QED BY <2>3, <3>2 DEF CallChanges
  <2>4. ASSUME NEW j \in Tools, ToolStops(g, j) PROVE CallChanges(g, k)
    <3>1. Sets(g, j, Sending(g, "stop", cred[g]))
      BY <1>0, <2>4, ToolStopsDoes
    <3>2. call'[g][j].does = "stop" /\ call'[g][j].on = cred[g] /\ (j # k => call'[g][k] = call[g][k])
      BY <1>0, <3>1, SendingSets
    <3> QED BY <2>4, <3>2 DEF CallChanges
  <2>5. ASSUME NEW j \in Tools, ToolStarted(g, j) \/ ToolStopped(g, j) \/ ToolFails(g, j) PROVE CallChanges(g, k)
    BY <1>0, <2>5, ToolEndsDoes DEF Sets, CallChanges
  <2> QED BY <1>1, <2>1, <2>2, <2>3, <2>4, <2>5 DEF HostStep
<1>2. ASSUME NEW j \in Flows, FlowStep(g, j) PROVE CallChanges(g, k)
  <2>1. CASE EnsureFinds(g, j) \/ EnsureStarts(g, j) \/ EnsureFails(g, j)
    <3>1. call'[g][k] = IF k = j \/ (k \in Flows /\ call[g][k].does = "joined") THEN Idle ELSE call[g][k]
      BY <1>0, <2>1, EnsureEndsDoes DEF Settles
    <3> QED BY <1>0, <3>1 DEF CallChanges
  <2>2. CASE EnsureBegins(g, j)
    <3>1. /\ Sets(g, j, Sending(g, First(g), cred[g]))
          /\ First(g) = IF cred[g] # NoId THEN "status" ELSE "summary"
      BY <1>0, <2>2, EnsureBeginsDoes
    <3>2. /\ call'[g][j].does \in {"status", "summary"} /\ call'[g][j].on = cred[g]
          /\ j # k => call'[g][k] = call[g][k]
      BY <1>0, <3>1, SendingSets
    <3> QED BY <2>2, <3>2 DEF CallChanges
  <2>3. CASE EnsureJoins(g, j)
    <3>1. /\ Sets(g, j, [does |-> "joined", on |-> NoId, says |-> "nothing"])
          /\ life[g] = "running" /\ Resolving(g) # {}
      BY <1>0, <2>3, EnsureJoinsDoes
    <3>2. call'[g][j].does = "joined" /\ (j # k => call'[g][k] = call[g][k])
      BY <1>0, <3>1, SetsFields
    <3> QED BY <3>1, <3>2 DEF CallChanges
  <2>4. CASE StatusGone(g, j)
    <3>1. Sets(g, j, Sending(g, "summary", NoId))
      BY <1>0, <2>4, StatusGoneDoes
    <3>2. call'[g][j].does = "summary" /\ (j # k => call'[g][k] = call[g][k])
      BY <1>0, <3>1, SendingSets
    <3> QED BY <2>4, <3>2 DEF CallChanges
  <2>5. CASE SummaryArrives(g, j)
    <3>1. Sets(g, j, Sending(g, "start", NoId))
      BY <1>0, <2>5, SummaryArrivesDoes
    <3>2. call'[g][j].does = "start" /\ (j # k => call'[g][k] = call[g][k])
      BY <1>0, <3>1, SendingSets
    <3> QED BY <2>5, <3>2 DEF CallChanges
  <2> QED BY <1>2, <2>1, <2>2, <2>3, <2>4, <2>5 DEF FlowStep
<1>3. ASSUME NEW h \in Hosts, NEW j \in Slots, CallMoves(h, j) PROVE CallChanges(g, k)
  BY <1>3 DEF CallMoves, CallChanges
<1>4. ASSUME NEW h \in Hosts, ClientSources(h), h # g PROVE CallChanges(g, k)
  BY <1>4 DEF ClientSources, CallChanges
<1>5. FileSources \/ RestartMoves => CallChanges(g, k)
  BY DEF FileSources, hostVars, CallChanges
<1> QED BY <1>1, <1>2, <1>3, <1>4, <1>5 DEF Moves, ClientStep

\* A host is calm as long as nothing of its own disturbs it.
Calmly(g) ==
  /\ ExitBegins(g) \/ (\E k \in Tools : ToolStarts(g, k) \/ ToolStops(g, k)) => \A k \in Slots : call[g][k] = Idle
  /\ (\E k \in Flows : EnsureBegins(g, k)) => \A k \in Tools : call[g][k] = Idle
  /\ ExitEnds(g) => ~Waits(g, Exit, "stop")

LEMMA CalmSteps ==
  ASSUME HostTypes, Moves, NEW g \in Hosts, calm'[g]
  PROVE  calm[g] /\ ~RestartMoves /\ Calmly(g)
<1>0. ClientsTyped
  BY DEF HostTypes
<1>1. ~RestartMoves
  BY DEF RestartMoves
<1>2. ASSUME ExitBegins(g) PROVE calm[g] /\ \A k \in Slots : call[g][k] = Idle
  BY <1>0, <1>2, CalmBegins
<1>3. ASSUME NEW k \in Tools, ToolStarts(g, k) \/ ToolStops(g, k) PROVE calm[g] /\ \A j \in Slots : call[g][j] = Idle
  BY <1>0, <1>3, CalmBegins
<1>4. ASSUME NEW k \in Flows, EnsureBegins(g, k) PROVE calm[g] /\ \A j \in Tools : call[g][j] = Idle
  BY <1>0, <1>4, CalmEnsures DEF EnsureBegins
<1>5. ASSUME ExitEnds(g) PROVE calm[g] /\ ~Waits(g, Exit, "stop")
  BY <1>0, <1>5, CalmEnds
<1>6. Calmly(g)
  BY <1>2, <1>3, <1>4, <1>5 DEF Calmly
<1>7. calm[g]
  <2>1. ASSUME NEW h \in Hosts, ClientStep(h), ClientSources(h), h # g PROVE calm[g]
    BY <2>1 DEF ClientSources
  <2>2. ASSUME NEW k \in Tools, ToolStarted(g, k) \/ ToolStopped(g, k) \/ ToolFails(g, k) PROVE calm[g]
    BY <2>2 DEF ToolStarted, ToolStopped, ToolFails, Quietly
  <2>3. ASSUME NEW k \in Flows, FlowStep(g, k), ~EnsureBegins(g, k) PROVE calm[g]
    BY <2>3 DEF FlowStep, EnsureJoins, StatusGone, SummaryArrives, EnsureFinds, EnsureStarts, EnsureFails, Quietly
  <2>4. Connects(g) => calm[g]
    BY DEF Connects, Quietly
  <2>5. ClientStep(g) => calm[g]
    BY <1>2, <1>3, <1>4, <1>5, <2>2, <2>3, <2>4 DEF ClientStep, HostStep
  <2>6. ASSUME NEW h \in Hosts, NEW k \in Slots, CallMoves(h, k) PROVE calm[g]
    BY <2>6 DEF CallMoves, OnlyCall
  <2>7. FileSources => calm[g]
    BY DEF FileSources, hostVars
  <2> QED BY <1>1, <2>1, <2>5, <2>6, <2>7 DEF Moves
<1> QED BY <1>1, <1>6, <1>7

LEMMA LifeSteps ==
  ASSUME HostTypes, Moves, NEW g \in Hosts
  PROVE  /\ hostKind' = hostKind
         /\ \/ life'[g] = life[g]
            \/ ExitBegins(g) /\ life[g] = "running" /\ life'[g] = "leaving" /\ hostKind[g] # "app"
            \/ ExitEnds(g) /\ life[g] = "leaving" /\ life'[g] = "exited"
<1>0. ClientsTyped
  BY DEF HostTypes
<1>1. ASSUME ClientStep(g)
      PROVE  \/ life'[g] = life[g]
             \/ ExitBegins(g) /\ life[g] = "running" /\ life'[g] = "leaving" /\ hostKind[g] # "app"
             \/ ExitEnds(g) /\ life[g] = "leaving" /\ life'[g] = "exited"
  <2>1. Connects(g) => life' = life
    BY DEF Connects, Quietly
  <2>2. ASSUME NEW k \in Tools,
               ToolStarts(g, k) \/ ToolStops(g, k) \/ ToolStarted(g, k) \/ ToolStopped(g, k) \/ ToolFails(g, k)
        PROVE  life' = life
    BY <2>2 DEF ToolStarts, ToolStops, ToolBegins, ToolStarted, ToolStopped, ToolFails, Quietly
  <2>3. ASSUME NEW k \in Flows, FlowStep(g, k) PROVE life' = life
    BY <2>3 DEF FlowStep, EnsureBegins, EnsureAmongFlows, EnsureJoins, StatusGone, SummaryArrives,
                EnsureFinds, EnsureStarts, EnsureFails, Quietly
  <2>4. ExitBegins(g) => life[g] = "running" /\ life'[g] = "leaving" /\ hostKind[g] # "app"
    BY <1>0 DEF ExitBegins, Runs, ClientsTyped
  <2>5. ExitEnds(g) => life[g] = "leaving" /\ life'[g] = "exited"
    BY <1>0 DEF ExitEnds, ClientsTyped
  <2> QED BY <1>1, <2>1, <2>2, <2>3, <2>4, <2>5 DEF ClientStep, HostStep
<1>2. ASSUME NEW h \in Hosts, ClientSources(h) PROVE hostKind' = hostKind /\ (h # g => life'[g] = life[g])
  BY <1>2 DEF ClientSources
<1>3. ASSUME NEW h \in Hosts, NEW k \in Slots, CallMoves(h, k) PROVE hostKind' = hostKind /\ life' = life
  BY <1>3 DEF CallMoves, OnlyCall
<1>4. FileSources \/ RestartMoves => hostKind' = hostKind /\ life' = life
  BY DEF FileSources, hostVars, RestartMoves
<1> QED BY <1>1, <1>2, <1>3, <1>4 DEF Moves

LEMMA RestartsKept ==
  ASSUME HostTypes, Locked, Moves, ~RestartMoves PROVE restarts' = restarts
BY FilesAge DEF Moves, CallMoves, Replies, Grants, Closes, ClientSources, serverVars

\* A call that is under way was so, or has just begun.
LEMMA BusyFrom ==
  ASSUME HostTypes, HostTypes', Moves, NEW g \in Hosts, NEW k \in Slots, call'[g][k] # Idle, ~RestartMoves
  PROVE  \/ call[g][k] # Idle
         \/ k \in Flows /\ life[g] = "running" /\ (EnsureBegins(g, k) \/ Resolving(g) # {})
         \/ k \in Tools /\ life[g] = "running" /\ (ToolStarts(g, k) \/ ToolStops(g, k))
         \/ k = Exit /\ ExitBegins(g)
<1>1. CallMoves(g, k) => call[g][k] # Idle
  BY IdleIs DEF CallMoves, Waiting, Asked
<1>2. k \in Flows /\ (StatusGone(g, k) \/ SummaryArrives(g, k)) => call[g][k] # Idle
  BY IdleIs DEF StatusGone, SummaryArrives, Got
<1>3. EnsureBegins(g, k) \/ ToolStarts(g, k) \/ ToolStops(g, k) => life[g] = "running"
  BY DEF EnsureBegins, ToolStarts, ToolStops, Ready, Runs
<1> QED BY <1>1, <1>2, <1>3, CallSteps DEF CallChanges

LEMMA UndisturbedStep ==
  ASSUME SharingInv, HostTypes', Wired', Steady, Moves
  PROVE  Steady'
<1> SUFFICES ASSUME NEW g \in Hosts, calm'[g]
             PROVE  /\ restarts' = 0
                    /\ \A k \in Tools : call'[g][k] # Idle =>
                         \A j \in Slots : j # k => call'[g][j] = Idle
                    /\ \A k \in Flows \union Tools : call'[g][k].does \in {"status", "stop"} =>
                         call'[g][k].on = cred'[g]
                    /\ life'[g] # "running" => \A k \in Flows \union Tools : call'[g][k] = Idle
                    /\ life'[g] = "exited" => ~Waiting(g, Exit)'
  BY DEF Steady
<1>0. /\ HostTypes /\ CallsTyped /\ ClientsTyped /\ Ground /\ Locked /\ SingleFlight /\ Wired /\ Carried
      /\ Flows \subseteq Slots /\ Tools \subseteq Slots /\ Exit \in Slots
      /\ Exit \notin Flows /\ Exit \notin Tools /\ Flows \cap Tools = {}
  BY SlotsHold, HostAssumption DEF SharingInv, HostTypes, Sharing, Ground
<1>1. calm[g] /\ ~RestartMoves /\ Calmly(g)
  BY <1>0, CalmSteps
<1>2. /\ restarts = 0
      /\ \A k \in Tools : call[g][k] # Idle => \A j \in Slots : j # k => call[g][j] = Idle
      /\ \A k \in Flows \union Tools : call[g][k].does \in {"status", "stop"} => call[g][k].on = cred[g]
      /\ life[g] # "running" => \A k \in Flows \union Tools : call[g][k] = Idle
      /\ life[g] = "exited" => ~Waiting(g, Exit)
  BY <1>1 DEF Steady
<1>3. restarts' = 0
  BY <1>0, <1>1, <1>2, RestartsKept
<1>4. ASSUME NEW k \in Tools, call'[g][k] # Idle, NEW j \in Slots, j # k
      PROVE  call'[g][j] = Idle
  <2>1. CASE call[g][k] = Idle
    <3>1. ToolStarts(g, k) \/ ToolStops(g, k)
      BY <1>0, <1>1, <1>4, <2>1, BusyFrom
    <3>2. call[g][j] = Idle
      BY <1>1, <3>1 DEF Calmly
    <3>3. call'[g][j] = call[g][j]
      BY <1>0, <1>4, <3>1, ToolStartsDoes, ToolStopsDoes DEF Sets
    <3> QED BY <3>2, <3>3
  <2>2. CASE call[g][k] # Idle
    <3>1. call[g][j] = Idle /\ \A f \in Flows : call[g][f] = Idle
      BY <1>0, <1>2, <1>4, <2>2
    <3>2. Resolving(g) = {}
      BY <3>1, IdleIs DEF Resolving
    <3>3. /\ ~ExitBegins(g) /\ (j \in Tools => ~ToolStarts(g, j) /\ ~ToolStops(g, j))
          /\ j \in Flows => ~EnsureBegins(g, j)
      BY <1>0, <1>1, <2>2 DEF Calmly
    <3> QED BY <1>0, <1>1, <3>1, <3>2, <3>3, BusyFrom
  <2> QED BY <2>1, <2>2
<1>5. ASSUME NEW k \in Flows \union Tools, call'[g][k].does \in {"status", "stop"}
      PROVE  call'[g][k].on = cred'[g]
  <2>1. CASE cred'[g] = cred[g]
    <3>1. CASE CallMoves(g, k)
      BY <1>0, <1>2, <1>5, <2>1, <3>1 DEF CallMoves, Replies, Grants, Closes
    <3> QED BY <1>0, <1>1, <1>2, <1>5, <2>1, <3>1, CallSteps, IdleIs DEF CallChanges
  <2>2. ASSUME NEW f \in Flows, StatusGone(g, f) PROVE FALSE
    <3>1. call[g][f].says = "gone" /\ call[g][f].on \in SessionIds
      BY <1>0, <2>2, CallsFit DEF StatusGone, Got
    <3>2. state[call[g][f].on] = "lost"
      BY <1>0, <3>1 DEF Ground, AnswersTrue
    <3> QED BY <1>0, <1>2, <3>1, <3>2 DEF Ground, Lasting
  <2>3. ASSUME NEW f \in Flows, EnsureStarts(g, f) PROVE FALSE
    <3>1. call[g][f].does = "start" /\ call[g][f] # Idle
      BY <2>3, IdleIs DEF EnsureStarts, Got
    <3>2. k # f /\ call'[g][k] = call[g][k]
      BY <1>0, <1>5, <2>3, EnsureEndsDoes, IdleIs DEF Settles
    <3>3. call[g][k] # Idle
      BY <1>5, <3>2, IdleIs
    <3>4. k \notin Tools
      BY <1>0, <1>2, <3>1, <3>2, <3>3
    <3> QED BY <1>0, <1>5, <3>1, <3>2, <3>4 DEF SingleFlight, Resolving
  <2>4. ASSUME NEW f \in Tools, ToolStarted(g, f) \/ ToolStopped(g, f) PROVE FALSE
    <3>1. call[g][f] # Idle
      BY <2>4, IdleIs DEF ToolStarted, ToolStopped, Got
    <3>2. k # f /\ call'[g][k] = call[g][k]
      BY <1>0, <1>5, <2>4, ToolEndsDoes, IdleIs DEF Sets
    <3> QED BY <1>0, <1>2, <1>5, <3>1, <3>2, IdleIs
  <2>5. ASSUME ExitEnds(g) PROVE FALSE
    <3>1. life[g] = "leaving" /\ call' = call
      BY <2>5 DEF ExitEnds
    <3> QED BY <1>2, <1>5, <3>1, IdleIs
  <2> QED BY <1>0, <2>1, <2>2, <2>3, <2>4, <2>5, CredSteps, HostAssumption DEF CredChanges, EnsureStarts, ToolStarted
<1>6. ASSUME life'[g] # "running", NEW k \in Flows \union Tools
      PROVE  call'[g][k] = Idle
  <2>1. CASE life[g] # "running"
    <3>1. call[g][k] = Idle
      BY <1>2, <2>1
    <3> QED BY <1>0, <1>1, <2>1, <3>1, BusyFrom
  <2>2. CASE ExitBegins(g)
    <3>1. call[g][k] = Idle
      BY <1>0, <1>1, <2>2 DEF Calmly
    <3> QED BY <1>0, <2>2, <3>1, ExitBeginsDoes DEF Sets
  <2> QED BY <1>0, <1>6, <2>1, <2>2, LifeSteps
<1>7. ASSUME life'[g] = "exited", Waiting(g, Exit)' PROVE FALSE
  <2>1. CASE ExitEnds(g)
    <3>1. Waiting(g, Exit)
      BY <1>7, <2>1 DEF ExitEnds, Waiting
    <3>2. call[g][Exit].does = "stop"
      BY <1>0, <3>1, CallsFit, SlotsAreApart DEF Waiting, Asked
    <3> QED BY <1>1, <2>1, <3>1, <3>2 DEF Calmly, Waits, Waiting
  <2>2. CASE life[g] = "exited"
    BY <1>0, <1>2, <1>7, <2>2, WaitsFrom DEF Wired
  <2> QED BY <1>0, <1>7, <2>1, <2>2, LifeSteps
<1> QED BY <1>3, <1>4, <1>5, <1>6, <1>7

\* Which steps change what the extension remembers and who owns it.
OwnChanges(g) ==
  \/ remembered'[g] = remembered[g] /\ owns'[g] = owns[g]
  \/ \E k \in Flows : EnsureFinds(g, k) \/ EnsureStarts(g, k)
  \/ \E k \in Tools : ToolStarted(g, k) \/ ToolStopped(g, k)
  \/ ExitEnds(g)

LEMMA OwnSteps ==
  ASSUME HostTypes, Moves, NEW g \in Hosts PROVE OwnChanges(g)
<1>1. ASSUME NEW k \in Tools, ToolStarts(g, k) \/ ToolStops(g, k) \/ ToolFails(g, k)
      PROVE  remembered'[g] = remembered[g] /\ owns'[g] = owns[g]
  BY <1>1 DEF ToolStarts, ToolStops, ToolBegins, ToolFails, Quietly
<1>2. ASSUME NEW k \in Flows, FlowStep(g, k), ~EnsureFinds(g, k), ~EnsureStarts(g, k)
      PROVE  remembered'[g] = remembered[g] /\ owns'[g] = owns[g]
  BY <1>2 DEF FlowStep, EnsureBegins, EnsureAmongFlows, EnsureJoins, StatusGone, SummaryArrives, EnsureFails, Quietly
<1>3. Connects(g) \/ ExitBegins(g) => remembered'[g] = remembered[g] /\ owns'[g] = owns[g]
  BY DEF Connects, ExitBegins, Quietly
<1>4. ClientStep(g) => OwnChanges(g)
  BY <1>1, <1>2, <1>3 DEF ClientStep, HostStep, OwnChanges
<1>5. ASSUME NEW h \in Hosts, ClientSources(h), h # g PROVE OwnChanges(g)
  BY <1>5 DEF ClientSources, OwnChanges
<1>6. ASSUME NEW h \in Hosts, NEW k \in Slots, CallMoves(h, k) PROVE OwnChanges(g)
  BY <1>6 DEF CallMoves, OnlyCall, OwnChanges
<1>7. FileSources \/ RestartMoves => OwnChanges(g)
  BY DEF FileSources, hostVars, RestartMoves, OwnChanges
<1> QED BY <1>4, <1>5, <1>6, <1>7 DEF Moves

LeavingInv == SharingInv /\ Steady /\ Owned /\ Leavers /\ HostLeavesNothing

\* What its host keeps in mind of the session it holds.
LEMMA KeptStep ==
  ASSUME LeavingInv, HostTypes', Moves, NEW g \in Hosts, NEW s \in SessionIds,
         calm'[g], Holds(g, s), starter'[s] = starter[s], Holds(g, s)', life'[g] # "exited", cred'[g] = s
  PROVE  Kept(g, s)'
<1>0. /\ HostTypes /\ ClientsTyped /\ CallsTyped /\ Ground /\ Carried /\ s # NoId /\ hostKind' = hostKind
      /\ Flows \subseteq Slots /\ Tools \subseteq Slots /\ Flows \cap Tools = {}
  BY SlotsHold, LifeSteps, IdIsNoSession, HostAssumption DEF LeavingInv, SharingInv, HostTypes, Sharing
<1>1. calm[g] /\ ~RestartMoves
  BY <1>0, CalmSteps
<1>2. ~ExitEnds(g)
  BY <1>0 DEF ExitEnds, ClientsTyped
<1>3. life[g] # "exited"
  BY <1>0, <1>1, LifeSteps
<1>4. ASSUME NEW k \in Flows, EnsureFinds(g, k) PROVE Kept(g, s)'
  <2>1. call[g][k].does = "status" /\ call[g][k].on = cred[g] /\ cred' = cred
    BY <1>1, <1>4 DEF EnsureFinds, Got, LeavingInv, Steady
  <2>2. Kept(g, s)
    BY <1>1, <1>3, <2>1 DEF LeavingInv, Owned
  <2>3. hostKind[g] = "pi" => remembered'[g] = s /\ owns'[g] = TRUE
    BY <1>0, <1>4, <2>1 DEF EnsureFinds, Recalls, ClientsTyped
  <2>4. hostKind[g] # "pi" => owns' = owns
    BY <1>4 DEF EnsureFinds, Recalls
  <2> QED BY <1>0, <2>2, <2>3, <2>4 DEF Kept
<1>5. ASSUME NEW k \in Flows, EnsureStarts(g, k) PROVE Kept(g, s)'
  <2>1. call[g][k].does = "start" /\ call[g][k].says = "ok" /\ call[g][k].on = s
    BY <1>0, <1>5 DEF EnsureStarts, Got, ClientsTyped
  <2>2. starter[s] = By(g, k)
    BY <1>0, <2>1, CarriesIs DEF Carried
  <2>3. starter[s].how = "ensure"
    BY <1>0, <2>2 DEF By
  <2>4. hostKind[g] = "pi" => remembered'[g] = s /\ owns'[g] = TRUE
    BY <1>0, <1>5, <2>1 DEF EnsureStarts, Recalls, ClientsTyped
  <2>5. starter'[s].how = "ensure"
    BY <2>3
  <2> QED BY <1>0, <2>4, <2>5 DEF Kept
<1>6. ASSUME NEW k \in Tools, ToolStarted(g, k) PROVE Kept(g, s)'
  <2>1. call[g][k].on = s
    BY <1>0, <1>6 DEF ToolStarted, ClientsTyped
  <2>2. hostKind[g] = "pi" => remembered'[g] = s /\ owns'[g] = TRUE
    BY <1>0, <1>6, <2>1 DEF ToolStarted, Recalls, ClientsTyped
  <2>3. hostKind[g] = "mcp" => owns'[g] = TRUE
    BY <1>0, <1>6 DEF ToolStarted, ClientsTyped
  <2> QED BY <1>0, <2>2, <2>3 DEF Kept
<1>7. ASSUME NEW k \in Tools, ToolStopped(g, k) PROVE FALSE
  <2>1. call[g][k].does = "stop" /\ call[g][k].says = "ok" /\ call[g][k].on = cred[g]
    BY <1>1, <1>7 DEF ToolStopped, Got, LeavingInv, Steady
  <2>2. cred'[g] = NoId
    BY <1>0, <1>7, <2>1 DEF ToolStopped, Clears, ClientsTyped
  <2> QED BY <1>0, <2>2
<1>8. CASE remembered'[g] = remembered[g] /\ owns'[g] = owns[g] /\ cred'[g] = cred[g]
  <2>1. Kept(g, s)
    BY <1>1, <1>3, <1>8 DEF LeavingInv, Owned
  <2> QED BY <1>0, <1>8, <2>1 DEF Kept
<1>9. ASSUME NEW k \in Flows, StatusGone(g, k), cred'[g] = NoId PROVE FALSE
  BY <1>0, <1>9
<1>10. \A k : (EnsureStarts(g, k) => k \in Flows) /\ (ToolStarted(g, k) => k \in Tools)
  BY DEF EnsureStarts, ToolStarted
<1>11. OwnChanges(g) /\ CredChanges(g)
  BY <1>0, OwnSteps, CredSteps
<1> QED BY <1>2, <1>4, <1>5, <1>6, <1>7, <1>8, <1>9, <1>10, <1>11 DEF OwnChanges, CredChanges

LEMMA AskIs == \A s : Ask("stop", s) = [does |-> "stop", on |-> s, says |-> "nothing"]
BY DEF Ask

LEMMA ExitStops ==
  ASSUME LeavingInv, Moves, NEW g \in Hosts, NEW s \in SessionIds, calm'[g], ExitBegins(g), Holds(g, s),
         ~(hostKind[g] = "mcp" /\ starter[s].how = "ensure")
  PROVE  call'[g][Exit] = Ask("stop", s)
<1>0. /\ HostTypes /\ ClientsTyped /\ CallsTyped /\ Wired /\ HeldFast /\ s # NoId /\ Exit \in Slots
      /\ life[g] = "running" /\ hostKind[g] \in {"mcp", "pi"}
  BY SlotsHold, IdIsNoSession
     DEF LeavingInv, SharingInv, HostTypes, Sharing, Holding, ExitBegins, Runs, ClientsTyped, HostKinds
<1>1. calm[g] /\ \A k \in Slots : call[g][k] = Idle
  BY <1>0, CalmSteps DEF Calmly
<1>2. restarts = 0 /\ wire[g] = "open"
  BY <1>0, <1>1 DEF LeavingInv, Steady, Wired
<1>3. \A k \in Slots : ~Carries(g, k, s)
  BY <1>0, <1>1, CarriesIs, IdleIs
<1>4. cred[g] = s
  BY <1>0, <1>2, <1>3 DEF HeldFast
<1>5. Kept(g, s)
  BY <1>0, <1>1, <1>4 DEF LeavingInv, Owned
<1>6. owns[g] /\ (IF hostKind[g] = "pi" THEN remembered[g] ELSE cred[g]) = s
  BY <1>0, <1>4, <1>5 DEF Kept
<1>7. Sets(g, Exit, Sending(g, "stop", s))
  BY <1>0, <1>6, ExitBeginsDoes
<1>8. Sending(g, "stop", s) = Ask("stop", s)
  BY <1>2, AskIs DEF Sending
<1> QED BY <1>0, <1>7, <1>8 DEF Sets

LEMMA OwnedStep ==
  ASSUME LeavingInv, HostTypes', Moves
  PROVE  Owned' /\ HostLeavesNothing'
<1> SUFFICES ASSUME NEW g \in Hosts, NEW s \in SessionIds, calm'[g], Holds(g, s)'
             PROVE  /\ life'[g] # "exited" /\ cred'[g] = s => Kept(g, s)'
                    /\ life'[g] = "leaving" /\ ~(hostKind'[g] = "mcp" /\ starter'[s].how = "ensure") =>
                         call'[g][Exit] = Ask("stop", s)'
                    /\ life'[g] = "exited" => hostKind'[g] = "mcp" /\ starter'[s].how = "ensure"
  BY DEF Owned, HostLeavesNothing, Holds
<1>0. /\ HostTypes /\ ClientsTyped /\ CallsTyped /\ Ground /\ Locked /\ Exit \in Slots /\ hostKind' = hostKind
      /\ Exit \notin Flows \union Tools /\ Ask("stop", s)' = Ask("stop", s)
  BY SlotsHold, LifeSteps, HostAssumption DEF LeavingInv, SharingInv, HostTypes, Ground, Ask
<1>1. calm[g] /\ ~RestartMoves /\ Calmly(g)
  BY <1>0, CalmSteps
<1>2. CASE state[s] = "none" /\ \E k \in Slots : CallMoves(g, k) /\ Grants(g, k) /\ call'[g][k].on = s
  <2>1. PICK k \in Flows \union Tools : CallMoves(g, k)
    BY <1>2 DEF Grants
  <2>2. call[g][k] # Idle /\ life' = life /\ cred' = cred
    BY <2>1, IdleIs DEF CallMoves, Waiting, Asked, OnlyCall
  <2>3. life[g] = "running"
    BY <1>1, <2>2 DEF LeavingInv, Steady
  <2>4. cred[g] # s
    BY <1>0, <1>2 DEF Ground, Unborn
  <2> QED BY <2>2, <2>3, <2>4
<1>3. CASE Holds(g, s) /\ starter'[s] = starter[s]
  <2>1. life'[g] # "exited" /\ cred'[g] = s => Kept(g, s)'
    BY <1>3, KeptStep
  <2>2. ASSUME life'[g] = "leaving", ~(hostKind[g] = "mcp" /\ starter[s].how = "ensure")
        PROVE  call'[g][Exit] = Ask("stop", s)
    <3>1. CASE ExitBegins(g)
      BY <1>3, <2>2, <3>1, ExitStops
    <3>2. CASE life[g] = "leaving"
      <4>1. call[g][Exit] = Ask("stop", s)
        BY <1>1, <1>3, <2>2, <3>2 DEF LeavingInv, Owned
      <4>2. call[g][Exit].does = "stop" /\ call[g][Exit].on = s
        BY <4>1, AskIs
      <4>3. ~CallMoves(g, Exit)
        BY <1>3, <4>2 DEF CallMoves, Replies, Grants, Closes, Holds
      <4>4. ~ExitBegins(g)
        BY <3>2 DEF ExitBegins, Runs
      <4>5. call'[g][Exit] = call[g][Exit]
        BY <1>0, <1>1, <4>3, <4>4, CallSteps DEF CallChanges
      <4> QED BY <4>1, <4>5
    <3> QED BY <1>0, <2>2, <3>1, <3>2, LifeSteps
  <2>3. ASSUME life'[g] = "exited", ~(hostKind[g] = "mcp" /\ starter[s].how = "ensure")
        PROVE  FALSE
    <3>1. life[g] # "exited"
      BY <1>1, <1>3, <2>3 DEF LeavingInv, HostLeavesNothing, Holds
    <3>2. ExitEnds(g) /\ life[g] = "leaving"
      BY <1>0, <2>3, <3>1, LifeSteps
    <3>3. call[g][Exit] = Ask("stop", s)
      BY <1>1, <1>3, <2>3, <3>2 DEF LeavingInv, Owned
    <3>4. Waits(g, Exit, "stop")
      BY <3>3, AskIs DEF Waits
    <3> QED BY <1>1, <3>2, <3>4 DEF Calmly
  <2> QED BY <1>0, <1>3, <2>1, <2>2, <2>3
<1> QED BY <1>0, <1>2, <1>3, HoldsFrom

LEMMA LeaversStep ==
  ASSUME HostTypes, Leavers, Moves PROVE Leavers'
<1> SUFFICES ASSUME NEW g \in Hosts, life'[g] # "running" PROVE hostKind'[g] # "app"
  BY DEF Leavers
<1> QED BY LifeSteps DEF Leavers

-----------------------------------------------------------------------------
(* The one-shot command. *)

\* It has a session once it was granted one; unless it is signalled or let down,
\* it has remembered it when it works, and stored its token once it has saved.
OneShotInv ==
  /\ handler # "none" => ~spared
  /\ spared /\ cli = "working" => auto = cliSession
  /\ spared /\ cli \in {"saved", "working", "stopping"} /\ state[cliSession] = "active" => cliSession \in store
  /\ OneShotLeavesNothing

\* As long as the command takes no step of its own, only its session's end and
\* the end of its file matter.
LEMMA OneShotKept ==
  ASSUME HostTypes, OneShotInv, UNCHANGED cliVars,
         cliSession \in SessionIds /\ state'[cliSession] = "active" =>
           state[cliSession] = "active" /\ (cliSession \in store => cliSession \in store')
  PROVE  OneShotInv'
<1>1. cliSession \in SessionIds \/ cliSession = NoId
  BY DEF HostTypes, CommandTyped, MaybeSession
<1>2. cli \in {"saved", "working", "stopping"} => cliSession # NoId
  BY DEF HostTypes, CommandTyped
<1> QED BY <1>1, <1>2 DEF OneShotInv, OneShotLeavesNothing, cliVars

LEMMA BornIsNotCli ==
  ASSUME HostTypes, Ground, cliSession \in SessionIds, NEW s \in SessionIds, NEW who, NEW how, Born(s, who, how)
  PROVE  s # cliSession
BY DEF Born, Ground, Unborn

LEMMA OneShotStep ==
  ASSUME HostTypes, HostTypes', Ground, OneShotInv, Moves
  PROVE  OneShotInv'
<1>0. CommandTyped /\ DaemonTyped /\ Locked /\ (cliSession = NoId \/ cliSession \in SessionIds) /\ NoId \notin SessionIds
  BY IdIsNoSession DEF HostTypes, CommandTyped, MaybeSession, Ground
<1>1. ASSUME NEW h \in Hosts, NEW k \in Slots, CallMoves(h, k) PROVE OneShotInv'
  <2>1. UNCHANGED cliVars /\ store' = store
    BY <1>1 DEF CallMoves, OnlyCall
  <2>2. cliSession \in SessionIds /\ state'[cliSession] = "active" => state[cliSession] = "active"
    <3>1. CASE Replies(h, k)
      BY <3>1 DEF Replies, serverVars
    <3>2. CASE Grants(h, k)
      BY <3>2, BornIsNotCli DEF Grants, Born
    <3>3. CASE Closes(h, k)
      BY <3>3 DEF Closes
    <3> QED BY <1>1, <3>1, <3>2, <3>3 DEF CallMoves
  <2> QED BY <2>1, <2>2, OneShotKept
<1>2. ASSUME NEW h \in Hosts, ClientSources(h) PROVE OneShotInv'
  BY <1>2, OneShotKept DEF ClientSources, serverVars
<1>3. CASE RestartMoves
  BY <1>0, <1>3 DEF RestartMoves, OneShotInv, OneShotLeavesNothing
<1>4. ASSUME NEW s \in SessionIds, FilePruned(s) PROVE OneShotInv'
  <2>1. UNCHANGED cliVars /\ state' = state /\ lockHolder = NoId
    BY <1>4 DEF FilePruned, serverVars
  <2> QED BY <1>0, <2>1, OneShotKept DEF Locked
<1>5. ASSUME NEW s \in SessionIds, NEW kept \in BOOLEAN, StoppedByFile(s, kept) PROVE OneShotInv'
  <2>1. UNCHANGED cliVars /\ Stops(s) /\ (store' = store \/ store' = store \ {s})
    BY <1>5 DEF StoppedByFile
  <2>2. state'[s] = "stopped" /\ \A o \in SessionIds : o # s => state'[o] = state[o]
    BY <1>0, <2>1, StopsDoes
  <2> QED BY <2>1, <2>2, OneShotKept
<1>6. CASE CliResolves \/ CliRefused
  BY <1>0, <1>6 DEF CliResolves, CliRefused, CliGoes, OneShotInv, OneShotLeavesNothing, CommandTyped
<1>7. CASE CliStarted
  BY <1>0, <1>7 DEF CliStarted, CliGoes, OneShotInv, OneShotLeavesNothing, CommandTyped
<1>8. CASE CliSaves \/ CliCannotSave
  BY <1>0, <1>8 DEF CliSaves, CliCannotSave, CliGoes, OneShotInv, OneShotLeavesNothing, CommandTyped
<1>9. CASE CliRemembers
  BY <1>0, <1>9 DEF CliRemembers, CliGoes, OneShotInv, OneShotLeavesNothing, CommandTyped, serverVars
<1>10. CASE CliTakes
  BY <1>0, <1>10 DEF CliTakes, CliGoes, OneShotInv, OneShotLeavesNothing, CommandTyped, serverVars
<1>11. CASE CliStops
  <2>1. cliSession \in SessionIds
    BY <1>0, <1>11 DEF CliStops, CliGoes, CommandTyped
  <2>2. state'[cliSession] # "active"
    BY <1>0, <1>11, <2>1, StopsDoes DEF CliStops, Dismissed, serverVars
  <2> QED BY <1>0, <1>11, <2>2 DEF CliStops, CliGoes, OneShotInv, OneShotLeavesNothing
<1>12. CASE CliCannotStop
  BY <1>0, <1>12 DEF CliCannotStop, CliGoes, OneShotInv, OneShotLeavesNothing
<1>13. CASE Signalled
  BY <1>0, <1>13 DEF Signalled, OneShotInv, OneShotLeavesNothing
<1>14. CASE HandlerStops \/ HandlerExits
  BY <1>0, <1>14 DEF HandlerStops, HandlerExits, OneShotInv, OneShotLeavesNothing
<1> QED BY <1>1, <1>2, <1>3, <1>4, <1>5, <1>6, <1>7, <1>8, <1>9, <1>10, <1>11, <1>12, <1>13, <1>14
        DEF Moves, FilesMove, CliStep

HostInv == LeavingInv /\ OneShotInv

LEMMA HostInvInit == HostInit => HostInv
<1> SUFFICES ASSUME HostInit PROVE HostInv OBVIOUS
<1>1. SharingInv
  BY SharingInit
<1>2. /\ \A h \in Hosts, k \in Slots : call[h][k] = Idle
      /\ \A h \in Hosts, s \in SessionIds : ~Holds(h, s)
      /\ \A h \in Hosts : life[h] = "running" /\ restarts = 0
  BY DEF HostInit, Holds
<1>3. Steady /\ Owned /\ Leavers
  BY <1>2, IdleIs, SlotsHold DEF Steady, Owned, Leavers
<1>4. HostLeavesNothing
  BY <1>2 DEF HostLeavesNothing
<1>5. OneShotInv
  BY DEF HostInit, OneShotInv, OneShotLeavesNothing
<1> QED BY <1>1, <1>3, <1>4, <1>5 DEF HostInv, LeavingInv

LEMMA HostInvStep == HostInv /\ [HostNext]_sessionVars => HostInv'
<1> SUFFICES ASSUME HostInv, [HostNext]_sessionVars PROVE HostInv' OBVIOUS
<1>0. SharingInv /\ LeavingInv /\ HostTypes /\ Ground
  BY DEF HostInv, LeavingInv, SharingInv
<1>1. SharingInv' /\ HostTypes' /\ Wired'
  BY <1>0, SharingStep DEF SharingInv, Sharing
<1>2. CASE UNCHANGED sessionVars
  BY <1>1, <1>2 DEF HostInv, LeavingInv, OneShotInv, sessionVars, serverVars, hostVars, cliVars,
     Steady, Owned, Kept, Leavers, HostLeavesNothing, OneShotLeavesNothing, Holds, Waiting, Ask
<1>3. CASE HostNext
  <2>1. Moves
    BY <1>0, <1>3, StepsMove DEF Ground
  <2>2. Steady'
    BY <1>0, <1>1, <2>1, UndisturbedStep DEF LeavingInv
  <2>3. Owned' /\ HostLeavesNothing'
    BY <1>0, <1>1, <2>1, OwnedStep
  <2>4. Leavers' /\ OneShotInv'
    BY <1>0, <1>1, <2>1, LeaversStep, OneShotStep DEF HostInv, LeavingInv
  <2> QED BY <1>1, <2>2, <2>3, <2>4 DEF HostInv, LeavingInv
<1> QED BY <1>2, <1>3

\* A host that has left, and a one-shot command that has ended, leave no session
\* behind (session_shutdown, SIGTERM, stop_auto_started).
THEOREM LeaversLeaveNothing == HostSpec => []NothingLeftBehind
<1>1. HostInit => HostInv
  BY HostInvInit
<1>2. HostInv /\ [HostNext]_sessionVars => HostInv'
  BY HostInvStep
<1>3. HostInv => NothingLeftBehind
  BY DEF HostInv, LeavingInv, OneShotInv, NothingLeftBehind
<1> QED BY <1>1, <1>2, <1>3, PTL DEF HostSpec

===============================================================================
