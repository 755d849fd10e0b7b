--------------------------- MODULE ProcessesProofs ---------------------------
(***************************************************************************)
(* Proofs about EventTap, DaemonProcess and Bridge, for any numbers of     *)
(* threads, daemons, clients, terminals, helper processes, callers and     *)
(* starts: their types, that the state of the tap tells what its thread    *)
(* does, that a daemon that has the machine to itself can be reached and   *)
(* stopped, that the helper process in the slot is in step with the        *)
(* requests made of it, and that a paste types its text and gives the      *)
(* clipboard back.  Last, that the three are typed when they run together. *)
(***************************************************************************)
EXTENDS MCProcesses, TLAPS

-----------------------------------------------------------------------------
(* EventTap *)

\* From its registration to its end the thread's sink is that of the latest
\* start: no other start comes before the thread was joined.
SinkHeld == thread \in {"activate", "enter", "running", "leaving", "final"} => sink = starts

TapInv == TapTypeOK /\ StateTellsThread /\ SinkHeld

LEMMA TapInvInit == TapInit => TapInv
<1> SUFFICES ASSUME TapInit PROVE TapInv
  OBVIOUS
<1>1. StateTellsThread /\ SinkHeld
  BY DEF TapInit, StateTellsThread, ActiveMeansLive, CurrentSink, OneTapThread, SinkHeld
<1>2. TapTypeOK
  <2>1. /\ stopFlag \in BOOLEAN /\ runloop \in BOOLEAN /\ slot \in BOOLEAN /\ late \in BOOLEAN
        /\ stopped \in BOOLEAN
    BY Zenon DEF TapInit
  <2>2. starts \in 0..MaxStarts /\ sink \in 0..MaxStarts
    BY EventTapAssumption DEF TapInit
  <2>3. /\ tapState \in TapStates /\ thread \in ThreadPoints
        /\ slotLock \in Stoppers \cup {NoStopper}
        /\ poll \in [Pollers -> {"idle", "fail"}] /\ stopper \in [Stoppers -> StopPoints]
    BY DEF TapInit, TapStates, ThreadPoints, StopPoints
  <2> QED BY <2>1, <2>2, <2>3 DEF TapTypeOK
<1> QED BY <1>1, <1>2 DEF TapInv

LEMMA TapInvNext ==
  ASSUME TapInv, TapNext
  PROVE  TapInv'
<1> USE EventTapAssumption
<1> USE DEF TapInv, TapTypeOK, StateTellsThread, ActiveMeansLive, CurrentSink, OneTapThread, SinkHeld,
    TapStates, ThreadPoints, StopPoints, Unavailable, Goes
<1>1. CASE Start
  <2>1. thread \in {"none", "ended"} /\ thread' \in {"none", "ended", "preflight"}
    BY <1>1 DEF Start
  <2>2. starts' \in 0..MaxStarts /\ tapState' \in {"starting", "unavailable"}
    BY <1>1 DEF Start
  <2>3. slot' \in BOOLEAN /\ stopFlag' \in BOOLEAN /\ late' \in BOOLEAN /\ stopped' \in BOOLEAN
    BY <1>1 DEF Start
  <2>4. ~slot' => thread' \in {"none", "ended"}
    BY <1>1, <2>1 DEF Start
  <2>5. TapTypeOK'
    BY <1>1, <2>1, <2>2, <2>3 DEF Start
  <2> QED BY <2>1, <2>2, <2>4, <2>5
<1>2. CASE GracePasses
  BY <1>2 DEF GracePasses
<1>3. CASE ThreadCreates \/ CreateFails \/ ThreadUntrusted \/ ThreadTrusted
  BY <1>3 DEF ThreadCreates, CreateFails, ThreadUntrusted, ThreadTrusted, ThreadGivesUp
<1>4. CASE ThreadPublishes \/ ThreadRegisters \/ ThreadActivates
  BY <1>4 DEF ThreadPublishes, ThreadRegisters, ThreadActivates, Registered
<1>5. CASE ThreadEnters \/ ThreadLeaves \/ LoopEnds \/ ThreadClears \/ ThreadEnds
  BY <1>5 DEF ThreadEnters, ThreadLeaves, LoopEnds, ThreadClears, ThreadEnds
<1>6. ASSUME NEW p \in Pollers, PollStep(p)
      PROVE  TapInv'
  BY <1>6 DEF PollStep, PollReads, PollFails
<1>7. ASSUME NEW s \in Stoppers, StopWithoutThread(s) \/ StopBegins(s)
      PROVE  TapInv'
  BY <1>7 DEF StopWithoutThread, StopBegins
<1>8. ASSUME NEW s \in Stoppers, StopStep(s)
      PROVE  TapInv'
  BY <1>8 DEF StopStep, StopStores, StopsLoop, StopJoins, Joinable
<1> QED BY <1>1, <1>2, <1>3, <1>4, <1>5, <1>6, <1>7, <1>8 DEF TapNext, ThreadStep

LEMMA TapInvAlways == TapSpec => []TapInv
<1>1. TapInv /\ [TapNext]_tapVars => TapInv'
  <2>1. ASSUME TapInv, UNCHANGED tapVars PROVE TapInv'
    BY <2>1 DEF tapVars, TapInv, TapTypeOK, StateTellsThread, ActiveMeansLive, CurrentSink,
       OneTapThread, SinkHeld
  <2> QED BY <2>1, TapInvNext
<1> QED BY <1>1, TapInvInit, PTL DEF TapSpec

\* Every variable of the monitor has its type, for any threads and any number of
\* starts.
THEOREM TapTypes == TapSpec => []TapTypeOK
<1>1. TapInv => TapTypeOK
  BY DEF TapInv
<1> QED BY <1>1, TapInvAlways, PTL

\* The state the monitor reports tells what its thread does: reported as active
\* it has a thread in its run loop with the sink of the latest start, and an
\* empty slot means that no thread is left.
THEOREM TapTellsThread == TapSpec => []StateTellsThread
<1>1. TapInv => StateTellsThread
  BY DEF TapInv
<1> QED BY <1>1, TapInvAlways, PTL

-----------------------------------------------------------------------------
(* DaemonProcess: types. *)

FilesTyped == socketFile \in Daemons \union {Absent} /\ credential \in Daemons \union {Absent, Foreign}

DaemonsTyped == phase \in [Daemons -> Phases] /\ crowded \in SUBSET Daemons

LinksTyped ==
  /\ link \in [Clients -> Daemons \union {Absent}] /\ reading \in [Clients -> BOOLEAN]
  /\ inflight \in [Clients -> 0..MaxInflight] /\ stuck \in [Clients -> BOOLEAN]

TerminalsTyped ==
  /\ verb \in [Terminals -> Verbs \union {"none"}] /\ at \in [Terminals -> Places]
  /\ peer \in [Terminals -> Daemons \union {Absent}]
  /\ have \in [Terminals -> Daemons \union {Absent, Foreign}]

LEMMA DaemonTypesSplit ==
  DaemonTypeOK <=> FilesTyped /\ DaemonsTyped /\ LinksTyped /\ TerminalsTyped
BY DEF DaemonTypeOK, FilesTyped, DaemonsTyped, LinksTyped, TerminalsTyped

LEMMA DaemonTypesInit == DaemonInit => DaemonTypeOK
<1> SUFFICES ASSUME DaemonInit PROVE DaemonTypeOK
  OBVIOUS
<1>1. FilesTyped /\ DaemonsTyped
  BY DEF DaemonInit, FilesTyped, DaemonsTyped, Phases
<1>2. LinksTyped
  BY DaemonAssumption DEF DaemonInit, LinksTyped
<1>3. TerminalsTyped
  BY DEF DaemonInit, TerminalsTyped, Verbs, Places
<1> QED BY <1>1, <1>2, <1>3, DaemonTypesSplit

\* A step of a daemon is a step of its phase and of the two files, and may cut
\* its connections.
LEMMA DaemonMoves ==
  ASSUME DaemonTypeOK, NEW d \in Daemons, DaemonStep(d) \/ CannotStore(d) \/ CtrlC(d) \/ DaemonDies(d)
  PROVE  FilesTyped' /\ DaemonsTyped' /\ LinksTyped' /\ UNCHANGED <<crowded, terminalVars>>
<1> USE DEF DaemonTypeOK, FilesTyped, DaemonsTyped, LinksTyped, Phases, Advances, OnlyDaemon, fileVars,
    linkVars
<1>1. CASE StoresCredential(d) \/ ClearsSocket(d) \/ Binds(d) \/ CannotBind(d) \/ CannotStore(d)
  BY <1>1 DEF StoresCredential, ClearsSocket, Binds, CannotBind, CannotStore
<1>2. CASE RuntimeStops(d) \/ Drained(d) \/ RemovesSocket(d) \/ RemovesCredential(d) \/ CtrlC(d)
  BY <1>2 DEF RuntimeStops, Drained, RemovesSocket, RemovesCredential, CtrlC
<1>3. CASE GraceExpires(d) \/ DaemonDies(d)
  <2>1. UNCHANGED <<fileVars, crowded, terminalVars>>
    BY <1>3 DEF GraceExpires, DaemonDies
  <2>2. phase' \in [Daemons -> Phases]
    BY <1>3 DEF GraceExpires, DaemonDies
  <2>3. link' \in [Clients -> Daemons \union {Absent}] /\ inflight' \in [Clients -> 0..MaxInflight]
    BY <1>3, DaemonAssumption DEF GraceExpires, DaemonDies
  <2>4. reading' \in [Clients -> BOOLEAN] /\ stuck' \in [Clients -> BOOLEAN]
    BY <1>3 DEF GraceExpires, DaemonDies
  <2> QED BY <2>1, <2>2, <2>3, <2>4
<1> QED BY <1>1, <1>2, <1>3 DEF DaemonStep

LEMMA ClientMoves ==
  ASSUME DaemonTypeOK, NEW c \in Clients,
         \/ ClientConnects(c) \/ RequestRead(c) \/ RequestAnswered(c)
         \/ ClientSticks(c) \/ ReadingEnds(c) \/ HandlerReturns(c)
  PROVE  LinksTyped' /\ UNCHANGED <<phase, fileVars, crowded, terminalVars>>
<1> USE DaemonAssumption
<1> USE DEF DaemonTypeOK, FilesTyped, LinksTyped, OnlyLinks
<1>1. CASE ClientConnects(c)
  BY <1>1 DEF ClientConnects
<1>2. CASE RequestRead(c) \/ RequestAnswered(c)
  BY <1>2 DEF RequestRead, RequestAnswered
<1>3. CASE ClientSticks(c) \/ ReadingEnds(c)
  BY <1>3 DEF ClientSticks, ReadingEnds
<1>4. CASE HandlerReturns(c)
  BY <1>4 DEF HandlerReturns, Drops
<1> QED BY <1>1, <1>2, <1>3, <1>4

LEMMA AsksAre ==
  /\ DOMAIN Asks = {"probe", "await", "unsure", "identify", "order"}
  /\ \A p \in DOMAIN Asks :
       /\ Asks[p] \in {"probing", "asking", "unsure", "identifying", "ordering"}
       /\ Asks[p] = "ordering" => p = "order"
BY DEF Asks

\* After a step of a command its terminal is somewhere, and the other terminals
\* are where they were.
LEMMA ProceedsTo ==
  ASSUME TerminalsTyped, NEW t \in Terminals, NEW to \in Places, Proceeds(t, to)
  PROVE  /\ TerminalsTyped'
         /\ at'[t] = to /\ (to \in {"order", "vanish"} => have'[t] = have[t])
         /\ \A u \in Terminals \ {t} : at'[u] = at[u] /\ have'[u] = have[u]
<1>1. /\ at' \in [Terminals -> Places] /\ at'[t] = to
      /\ \A u \in Terminals \ {t} : at'[u] = at[u]
  BY DEF Proceeds, TerminalsTyped
<1>2. /\ have' \in [Terminals -> Daemons \union {Absent, Foreign}]
      /\ to \in {"order", "vanish"} => have'[t] = have[t]
      /\ \A u \in Terminals \ {t} : have'[u] = have[u]
  BY DEF Proceeds, TerminalsTyped
<1>3. peer' \in [Terminals -> Daemons \union {Absent}]
  BY DEF Proceeds, TerminalsTyped
<1>4. verb' \in [Terminals -> Verbs \union {"none"}]
  BY DEF Proceeds, TerminalsTyped, Verbs
<1> QED BY <1>1, <1>2, <1>3, <1>4 DEF TerminalsTyped

\* What a step of a terminal may do to the terminal, the files and the daemons.
LEMMA TerminalMoves ==
  ASSUME DaemonTypeOK, NEW t \in Terminals, CommandBegins(t) \/ TerminalStep(t)
  PROVE  /\ TerminalsTyped' /\ UNCHANGED linkVars
         /\ \A u \in Terminals \ {t} : at'[u] = at[u] /\ have'[u] = have[u]
         /\ \/ UNCHANGED <<phase, fileVars, crowded>>
            \/ (\E d \in Daemons : Spawned(d)) /\ at'[t] = "await" /\ UNCHANGED fileVars
            \/ Ordered(t) /\ at'[t] = "vanish"
            \/ /\ OrderUnreachable(t) \/ StopReported(t)
               /\ at'[t] \in {"idle", "probe"} /\ credential' = Absent
               /\ UNCHANGED <<phase, socketFile, crowded>>
         /\ at'[t] \in {"order", "ordering", "vanish"} =>
              /\ have'[t] = have[t]
              /\ \/ at[t] = "order" /\ at'[t] = "ordering"
                 \/ Identified(t) /\ at'[t] = "order"
                 \/ Ordered(t) /\ at'[t] = "vanish"
<1> USE DaemonTypesSplit
<1>1. TerminalsTyped
  OBVIOUS
<1>2. CASE CommandBegins(t)
  BY <1>1, <1>2 DEF CommandBegins, OnlyTerminals, TerminalsTyped, Verbs, Places, linkVars, fileVars
<1>3. CASE TerminalConnects(t)
  <2>1. Asks[at[t]] \in Places /\ (Asks[at[t]] = "ordering" => at[t] = "order")
        /\ Asks[at[t]] \notin {"order", "vanish"}
    BY <1>3, AsksAre DEF TerminalConnects, Places
  <2> QED BY <1>1, <1>3, <2>1, AsksAre
          DEF TerminalConnects, OnlyTerminals, TerminalsTyped, FilesTyped, linkVars, fileVars
<1>4. CASE Loads(t)
  BY <1>1, <1>4 DEF Loads, OnlyTerminals, TerminalsTyped, Places, linkVars, fileVars
<1>5. ASSUME NEW to \in {"idle", "load", "spawn", "await", "unsure", "probe"},
             Proceeds(t, to), OnlyTerminals
      PROVE  /\ TerminalsTyped' /\ UNCHANGED <<linkVars, phase, fileVars, crowded>>
             /\ \A u \in Terminals \ {t} : at'[u] = at[u] /\ have'[u] = have[u]
             /\ at'[t] \notin {"order", "ordering", "vanish"}
  BY <1>1, <1>5, ProceedsTo DEF Places, OnlyTerminals
<1>6. CASE \/ ProbeAnswered(t) \/ ProbeFails(t) \/ Healthy(t) \/ PollMisses(t) \/ PollsExhausted(t)
           \/ LoadsNothing(t) \/ NotRunning(t) \/ StopRefused(t)
  <2>1. PICK to \in {"idle", "load", "spawn", "await", "unsure", "probe"} :
          Proceeds(t, to) /\ OnlyTerminals
    BY <1>6 DEF ProbeAnswered, ProbeFails, Healthy, PollMisses, PollsExhausted, LoadsNothing,
       NotRunning, StopRefused, AfterStop
  <2> QED BY <1>5, <2>1
<1>7. CASE LaunchesDaemon(t)
  BY <1>1, <1>7, ProceedsTo DEF LaunchesDaemon, Places
<1>8. CASE Identified(t)
  BY <1>1, <1>8, ProceedsTo DEF Identified, OnlyTerminals, Places
<1>9. CASE Ordered(t)
  BY <1>1, <1>9, ProceedsTo DEF Ordered, Places
<1>10. CASE OrderUnreachable(t) \/ StopReported(t)
  <2>1. AfterStop(t) \in {"idle", "probe"}
    BY DEF AfterStop
  <2>2. /\ Proceeds(t, AfterStop(t)) /\ credential' = Absent
        /\ UNCHANGED <<phase, socketFile, crowded, linkVars>>
    BY <1>10 DEF OrderUnreachable, StopReported
  <2> QED BY <1>1, <1>10, <2>1, <2>2, ProceedsTo DEF Places
<1> QED BY <1>2, <1>3, <1>4, <1>6, <1>7, <1>8, <1>9, <1>10 DEF TerminalStep

LEMMA SpawnedTyped ==
  ASSUME DaemonsTyped, NEW d \in Daemons, Spawned(d)
  PROVE  DaemonsTyped'
BY DEF DaemonsTyped, Spawned, Alive, Phases

LEMMA DaemonTypesStep == DaemonTypeOK /\ [DaemonNext]_daemonVars => DaemonTypeOK'
<1> SUFFICES ASSUME DaemonTypeOK, [DaemonNext]_daemonVars PROVE DaemonTypeOK'
  OBVIOUS
<1> USE DaemonTypesSplit
<1>1. FilesTyped' /\ DaemonsTyped' /\ LinksTyped' /\ TerminalsTyped' => DaemonTypeOK'
  BY DEF DaemonTypeOK, FilesTyped, DaemonsTyped, LinksTyped, TerminalsTyped
<1>2. ASSUME NEW d \in Daemons, DaemonStep(d) \/ CannotStore(d) \/ CtrlC(d) \/ DaemonDies(d)
      PROVE  DaemonTypeOK'
  BY <1>1, <1>2, DaemonMoves DEF terminalVars, TerminalsTyped
<1>3. ASSUME NEW d \in Daemons, RunByHand(d)
      PROVE  DaemonTypeOK'
  BY <1>1, <1>3, SpawnedTyped
     DEF RunByHand, terminalVars, TerminalsTyped, fileVars, FilesTyped, linkVars, LinksTyped
<1>4. ASSUME NEW c \in Clients,
             \/ ClientConnects(c) \/ RequestRead(c) \/ RequestAnswered(c)
             \/ ClientSticks(c) \/ ReadingEnds(c) \/ HandlerReturns(c)
      PROVE  DaemonTypeOK'
  BY <1>1, <1>4, ClientMoves DEF terminalVars, TerminalsTyped, fileVars, FilesTyped, DaemonsTyped
<1>5. ASSUME NEW t \in Terminals, CommandBegins(t) \/ TerminalStep(t)
      PROVE  DaemonTypeOK'
  <2>1. TerminalsTyped' /\ LinksTyped'
    BY <1>5, TerminalMoves DEF linkVars, LinksTyped
  <2>2. FilesTyped' /\ DaemonsTyped'
    <3>1. CASE UNCHANGED <<phase, fileVars, crowded>>
      BY <3>1 DEF fileVars, FilesTyped, DaemonsTyped
    <3>2. CASE (\E d \in Daemons : Spawned(d)) /\ UNCHANGED fileVars
      BY <3>2, SpawnedTyped DEF fileVars, FilesTyped
    <3>3. CASE Ordered(t)
      BY <3>3 DEF Ordered, fileVars, FilesTyped, DaemonsTyped, Phases
    <3>4. CASE credential' = Absent /\ UNCHANGED <<phase, socketFile, crowded>>
      BY <3>4 DEF FilesTyped, DaemonsTyped
    <3> QED BY <1>5, <3>1, <3>2, <3>3, <3>4, TerminalMoves
  <2> QED BY <1>1, <2>1, <2>2
<1>6. CASE UNCHANGED daemonVars
  BY <1>6 DEF daemonVars, DaemonTypeOK, fileVars, linkVars, terminalVars
<1> QED BY <1>2, <1>3, <1>4, <1>5, <1>6 DEF DaemonNext

-----------------------------------------------------------------------------
(* A daemon whose life has met no other's.  It is the only one, the files it
   has written are its own, and a command on its way to stop a daemon is on its
   way to stop this one. *)

Living(d) == phase[d] \notin {"off", "gone"}

Sole(d) ==
  /\ \A e \in Daemons \ {d} : ~Living(e)
  /\ phase[d] \in {"stored", "cleared", "serving"} => credential = d
  /\ phase[d] = "serving" => socketFile = d
  /\ \A t \in Terminals : at[t] \in {"order", "ordering", "vanish"} =>
       /\ have[t] = d /\ phase[d] \notin {"booting", "stored", "cleared"}
       /\ at[t] = "vanish" => phase[d] # "serving"

Uncrowded == \A d \in Daemons \ crowded : Living(d) => Sole(d)

LEMMA AliveLives == Alive = {d \in Daemons : Living(d)}
BY DEF Alive, Living

LEMMA UncrowdedInit == DaemonInit => Uncrowded
BY DEF DaemonInit, Uncrowded, Living

\* The steps that move a daemon are steps of a daemon that lives.
LEMMA SoleDaemonStep ==
  ASSUME DaemonTypeOK, Uncrowded, NEW e \in Daemons,
         DaemonStep(e) \/ CannotStore(e) \/ CtrlC(e) \/ DaemonDies(e)
  PROVE  Uncrowded'
<1>1. /\ Living(e) /\ UNCHANGED <<crowded, at, have>>
      /\ phase' \in [Daemons -> Phases] /\ \A d \in Daemons \ {e} : phase'[d] = phase[d]
  <2>1. Living(e) /\ UNCHANGED <<crowded, at, have>>
    BY AliveLives DEF DaemonStep, StoresCredential, ClearsSocket, Binds, CannotBind, CannotStore,
       RuntimeStops, Drained, RemovesSocket, RemovesCredential, CtrlC, GraceExpires, DaemonDies,
       Advances, OnlyDaemon, Living, terminalVars
  <2>2. phase' \in [Daemons -> Phases]
    BY DaemonMoves DEF DaemonsTyped
  <2>3. PICK p : phase' = [phase EXCEPT ![e] = p]
    BY DEF DaemonStep, StoresCredential, ClearsSocket, Binds, CannotBind, CannotStore,
       RuntimeStops, Drained, RemovesSocket, RemovesCredential, CtrlC, GraceExpires, DaemonDies,
       Advances
  <2> QED BY <2>1, <2>2, <2>3 DEF DaemonTypeOK
<1> SUFFICES ASSUME NEW d \in Daemons \ crowded, Living(d)'
             PROVE  Sole(d)'
  BY <1>1 DEF Uncrowded
<1>2. d = e /\ Sole(e)
  BY <1>1 DEF Uncrowded, Sole, Living
<1>3. \A x \in Daemons \ {d} : ~Living(x)'
  BY <1>1, <1>2 DEF Sole, Living
<1>4. /\ phase'[d] \in {"stored", "cleared", "serving"} => credential' = d
      /\ phase'[d] = "serving" => socketFile' = d
      /\ phase[d] = "booting" \/ phase'[d] \notin {"booting", "stored", "cleared"}
           \/ phase[d] \in {"stored", "cleared"}
      /\ phase'[d] = "serving" => phase[d] \in {"cleared", "serving"}
  <2>1. CASE StoresCredential(e) \/ ClearsSocket(e) \/ Binds(e)
    BY <1>2, <2>1 DEF StoresCredential, ClearsSocket, Binds, Advances, Sole, DaemonTypeOK
  <2>2. CASE ~(StoresCredential(e) \/ ClearsSocket(e) \/ Binds(e))
    <3>1. phase'[e] \in {"gone", "stopping", "draining", "unlinking", "unlinked"}
      BY <2>2 DEF DaemonStep, CannotBind, CannotStore, RuntimeStops, Drained, RemovesSocket,
         RemovesCredential, CtrlC, GraceExpires, DaemonDies, Advances, DaemonTypeOK
    <3> QED BY <1>2, <3>1
  <2> QED BY <2>1, <2>2
<1>5. ASSUME NEW t \in Terminals, at[t] \in {"order", "ordering", "vanish"}
      PROVE  /\ have[t] = d /\ phase'[d] \notin {"booting", "stored", "cleared"}
             /\ at[t] = "vanish" => phase'[d] # "serving"
  BY <1>2, <1>4, <1>5 DEF Sole
<1> QED BY <1>1, <1>3, <1>4, <1>5 DEF Sole, Living

LEMMA SoleSpawn ==
  ASSUME DaemonTypeOK, Uncrowded, NEW e \in Daemons, Spawned(e), UNCHANGED fileVars,
         \A t \in Terminals : at'[t] \in {"order", "ordering", "vanish"} => at'[t] = at[t]
  PROVE  Uncrowded'
<1> SUFFICES ASSUME NEW d \in Daemons \ crowded', Living(d)'
             PROVE  Sole(d)'
  BY DEF Uncrowded
<1>1. \A x \in Daemons : phase'[x] = IF x = e THEN "booting" ELSE phase[x]
  BY DEF Spawned, DaemonTypeOK
<1>2. Quiet
  BY <1>1, AliveLives DEF Spawned, Living
<1>3. d = e /\ \A x \in Daemons \ {d} : ~Living(x)'
  BY <1>1, <1>2, AliveLives DEF Quiet, Living
<1>4. \A t \in Terminals : at'[t] \notin {"order", "ordering", "vanish"}
  BY <1>2 DEF Quiet
<1> QED BY <1>1, <1>3, <1>4 DEF Sole

LEMMA SoleTerminalStep ==
  ASSUME DaemonTypeOK, Uncrowded, NEW t \in Terminals, CommandBegins(t) \/ TerminalStep(t)
  PROVE  Uncrowded'
<1>1. /\ \A u \in Terminals \ {t} : at'[u] = at[u] /\ have'[u] = have[u]
      /\ at'[t] \in {"order", "ordering", "vanish"} =>
           /\ have'[t] = have[t]
           /\ \/ at[t] = "order" /\ at'[t] = "ordering"
              \/ Identified(t) /\ at'[t] = "order"
              \/ Ordered(t) /\ at'[t] = "vanish"
  BY TerminalMoves
<1>2. Identified(t) \/ Ordered(t) => peer[t] = have[t] /\ peer[t] \in Daemons /\ phase[peer[t]] = "serving"
  BY DEF Identified, Ordered, Reached, DaemonTypeOK
<1>3. CASE UNCHANGED <<phase, fileVars, crowded>>
  <2> SUFFICES ASSUME NEW d \in Daemons \ crowded, Living(d)
               PROVE  Sole(d)'
    BY <1>3 DEF Uncrowded, Living
  <2>1. Sole(d)
    BY DEF Uncrowded
  <2>2. ~Ordered(t)
    BY <1>2, <1>3 DEF Ordered, DaemonTypeOK
  <2>3. Identified(t) => have[t] = d
    BY <1>2, <2>1 DEF Sole, Living
  <2>4. ASSUME NEW u \in Terminals, at'[u] \in {"order", "ordering", "vanish"}
        PROVE  /\ have'[u] = d /\ phase[d] \notin {"booting", "stored", "cleared"}
               /\ at'[u] = "vanish" => phase[d] # "serving"
    <3>1. CASE u # t
      BY <1>1, <2>1, <2>4, <3>1 DEF Sole
    <3>2. CASE u = t
      BY <1>1, <1>2, <2>1, <2>2, <2>3, <2>4, <3>2 DEF Sole
    <3> QED BY <3>1, <3>2
  <2> QED BY <1>3, <2>1, <2>4 DEF Sole, Living, fileVars
<1>4. CASE (\E d \in Daemons : Spawned(d)) /\ at'[t] = "await" /\ UNCHANGED fileVars
  <2>1. \A u \in Terminals : at'[u] \in {"order", "ordering", "vanish"} => at'[u] = at[u]
    BY <1>1, <1>4
  <2> QED BY <1>4, <2>1, SoleSpawn
<1>5. CASE Ordered(t) /\ at'[t] = "vanish"
  <2>1. /\ UNCHANGED <<fileVars, crowded>>
        /\ \A x \in Daemons : phase'[x] = IF x = peer[t] THEN "stopping" ELSE phase[x]
    BY <1>5 DEF Ordered, DaemonTypeOK
  <2> SUFFICES ASSUME NEW d \in Daemons \ crowded, Living(d)'
               PROVE  Sole(d)'
    BY <2>1 DEF Uncrowded
  <2>2. d = peer[t] /\ Sole(d)
    BY <1>2, <1>5, <2>1 DEF Uncrowded, Sole, Living
  <2>3. ASSUME NEW u \in Terminals, at'[u] \in {"order", "ordering", "vanish"}
        PROVE  have'[u] = d
    BY <1>1, <1>2, <1>5, <2>2, <2>3 DEF Sole
  <2> QED BY <1>2, <1>5, <2>1, <2>2, <2>3 DEF Sole, Living
<1>6. CASE /\ OrderUnreachable(t) \/ StopReported(t)
           /\ at'[t] \in {"idle", "probe"} /\ credential' = Absent
           /\ UNCHANGED <<phase, socketFile, crowded>>
  <2> SUFFICES ASSUME NEW d \in Daemons \ crowded, Living(d)
               PROVE  Sole(d)'
    BY <1>6 DEF Uncrowded, Living
  <2>1. Sole(d)
    BY DEF Uncrowded
  <2>2. phase[d] \notin {"stored", "cleared", "serving"}
    <3>1. CASE StopReported(t)
      BY <2>1, <3>1 DEF StopReported, Sole
    <3>2. CASE OrderUnreachable(t)
      <4>1. phase[d] \notin {"booting", "stored", "cleared"}
        BY <2>1, <3>2 DEF OrderUnreachable, Sole
      <4>2. phase[d] = "serving" => Reachable
        BY <2>1, DaemonAssumption, AliveLives DEF Sole, Reachable, Listens
      <4> QED BY <3>2, <4>1, <4>2 DEF OrderUnreachable, Unreachable
    <3> QED BY <1>6, <3>1, <3>2
  <2>3. ASSUME NEW u \in Terminals, at'[u] \in {"order", "ordering", "vanish"}
        PROVE  at'[u] = at[u] /\ have'[u] = have[u]
    BY <1>1, <1>6, <2>3
  <2> QED BY <1>6, <2>1, <2>2, <2>3 DEF Sole, Living
<1> QED BY <1>3, <1>4, <1>5, <1>6, TerminalMoves

LEMMA UncrowdedStep == DaemonTypeOK /\ Uncrowded /\ [DaemonNext]_daemonVars => Uncrowded'
<1> SUFFICES ASSUME DaemonTypeOK, Uncrowded, [DaemonNext]_daemonVars PROVE Uncrowded'
  OBVIOUS
<1>1. ASSUME NEW d \in Daemons, RunByHand(d)
      PROVE  Uncrowded'
  BY <1>1, SoleSpawn DEF RunByHand, terminalVars
<1>2. ASSUME NEW c \in Clients,
             \/ ClientConnects(c) \/ RequestRead(c) \/ RequestAnswered(c)
             \/ ClientSticks(c) \/ ReadingEnds(c) \/ HandlerReturns(c)
      PROVE  Uncrowded'
  BY <1>2, ClientMoves DEF Uncrowded, Sole, Living, terminalVars, fileVars
<1>3. CASE UNCHANGED daemonVars
  BY <1>3 DEF Uncrowded, Sole, Living, daemonVars, terminalVars, fileVars
<1> QED BY <1>1, <1>2, <1>3, SoleDaemonStep, SoleTerminalStep DEF DaemonNext

LEMMA DaemonInvAlways == DaemonSpec => [](DaemonTypeOK /\ Uncrowded)
BY DaemonTypesInit, DaemonTypesStep, UncrowdedInit, UncrowdedStep, PTL DEF DaemonSpec

\* Every variable of the daemons, their clients and the terminals has its type,
\* for any numbers of them.
THEOREM DaemonTypes == DaemonSpec => []DaemonTypeOK
BY DaemonInvAlways, PTL

\* A daemon whose life has met no other's is reached by the socket's path and
\* stopped with the credential on disk while it serves, whatever was killed or
\* left behind before it and whatever commands run.
THEOREM ServesAndStops == DaemonSpec => []ServingIsStoppable
<1>1. Uncrowded => ServingIsStoppable
  BY DEF Uncrowded, Sole, Living, ServingIsStoppable
<1> QED BY <1>1, DaemonInvAlways, PTL

-----------------------------------------------------------------------------
(* Bridge: types. *)

\* An answer to a request for the clipboard is what was on it.
Given == {a \in Answers : a.to.op = "get" => a.val \in Contents}

SlotTyped ==
  /\ mutex \in Callers \union {Nobody} /\ held \in Processes \union {NoProcess}
  /\ abandoned \in SUBSET Processes

HelpersTyped ==
  /\ alive \in SUBSET Processes /\ acted \in SUBSET alive
  /\ inbox \in [Processes -> Seq(Commands)] /\ outbox \in [Processes -> Seq(Given)]
  /\ reply \in [Processes -> Values]

CallersTyped ==
  /\ stage \in [Callers -> Stages] /\ tries \in [Callers -> 0..2]
  /\ command \in [Callers -> Commands] /\ answer \in [Callers -> Answers]
  /\ sent \in [Callers -> 0..MaxRequests]

PasteTyped ==
  /\ clipboard \in Contents /\ saved \in Contents /\ found \in Contents /\ pasted \in Contents
  /\ paste \in {"off", "get", "set", "sleep", "restore", "failed", "dropped", "done"}
  /\ trouble \in SUBSET Troubles

\* A caller has the mutex from its first attempt to its answer.
CallersFit ==
  \A c \in Callers :
    /\ mutex = c <=> stage[c] \in {"write", "read"}
    /\ mutex = c => held \in Processes /\ tries[c] # 0
    /\ mutex # c => tries[c] = 0
    /\ stage[c] = "returned" => answer[c] \in Given \/ answer[c].val = "failed"

\* A process that has acted has the line it acted on, and a dead one has nothing
\* to work on.
ProcessesFit ==
  \A p \in Processes :
    /\ p \in acted => inbox[p] # <<>>
    /\ p \in acted /\ Head(inbox[p]).op = "get" => reply[p] \in Contents
    /\ p \notin alive => inbox[p] = <<>>

BridgeTypes == SlotTyped /\ HelpersTyped /\ CallersTyped /\ PasteTyped /\ CallersFit /\ ProcessesFit

LEMMA BridgeTypesSplit == BridgeTypes => BridgeTypeOK
<1>1. \A s \in Seq(Given) : s \in Seq(Answers)
  BY DEF Given
<1>2. SlotTyped /\ HelpersTyped /\ CallersTyped /\ PasteTyped => BridgeTypeOK
  BY <1>1 DEF BridgeTypeOK, SlotTyped, HelpersTyped, CallersTyped, PasteTyped
<1> QED BY <1>2 DEF BridgeTypes

LEMMA BridgeTypesInit == BridgeInit => BridgeTypes
<1> SUFFICES ASSUME BridgeInit PROVE BridgeTypes
  OBVIOUS
<1> USE BridgeAssumption
<1>1. SlotTyped /\ HelpersTyped
  BY DEF BridgeInit, SlotTyped, HelpersTyped, Values, Contents
<1>2. PasteTyped
  BY DEF BridgeInit, PasteTyped, Contents, Troubles
<1>3. \A c \in Callers : Ask(c, "read", "empty") \in Commands
  BY DEF Ask, Commands, Contents
<1>4. command \in [Callers -> Commands]
  BY <1>3 DEF BridgeInit
<1>5. CallersTyped
  BY <1>4 DEF BridgeInit, CallersTyped, Stages, Answers, Values
<1>6. CallersFit /\ ProcessesFit
  BY DEF BridgeInit, CallersFit, ProcessesFit
<1> QED BY <1>1, <1>2, <1>5, <1>6 DEF BridgeTypes

\* The helper process works on its line, answers it, or dies.
LEMMA BridgeTypesOnProcess ==
  ASSUME BridgeTypes, NEW p \in Processes, ProcessActs(p) \/ ProcessPrints(p) \/ ProcessDies(p)
  PROVE  BridgeTypes'
<1> USE BridgeAssumption DEF BridgeTypes, slotVars, callerVars, pasteVars
<1>1. SlotTyped' /\ CallersTyped'
  BY DEF ProcessActs, ProcessPrints, ProcessDies, SlotTyped, CallersTyped
<1>2. CASE ProcessActs(p)
  <2>1. p \in alive /\ p \notin acted /\ inbox[p] \in Seq(Commands) /\ inbox[p] # <<>>
    BY <1>2 DEF ProcessActs, HelpersTyped
  <2>2. Head(inbox[p]) \in Commands
    BY <2>1
  <2>3. PICK o \in Outcomes(Head(inbox[p])) :
          /\ clipboard' = o.clip /\ reply' = [reply EXCEPT ![p] = o.val]
          /\ trouble' = IF o.val = "false" THEN trouble \cup {"refused"} ELSE trouble
    BY <1>2 DEF ProcessActs
  <2>4. /\ o.clip \in Contents /\ o.val \in Values
        /\ Head(inbox[p]).op = "get" => o.val \in Contents
    BY <2>2 DEF Outcomes, Commands, Values, Contents, PasteTyped
  <2>5. acted' = acted \cup {p} /\ alive' = alive /\ inbox' = inbox /\ outbox' = outbox
    BY <1>2 DEF ProcessActs
  <2>6. HelpersTyped'
    BY <2>1, <2>3, <2>4, <2>5 DEF HelpersTyped
  <2>7. PasteTyped'
    BY <1>2, <2>3, <2>4 DEF ProcessActs, PasteTyped, Troubles
  <2>8. CallersFit' /\ ProcessesFit'
    BY <1>2, <2>1, <2>3, <2>4, <2>5 DEF ProcessActs, CallersFit, ProcessesFit, HelpersTyped
  <2> QED BY <1>1, <2>6, <2>7, <2>8
<1>3. CASE ProcessPrints(p)
  <2>1. inbox[p] \in Seq(Commands) /\ inbox[p] # <<>> /\ p \in alive
    BY <1>3 DEF ProcessPrints, HelpersTyped, CallersFit, ProcessesFit
  <2>2. Head(inbox[p]) \in Commands /\ Tail(inbox[p]) \in Seq(Commands)
    BY <2>1
  <2>3. [to |-> Head(inbox[p]), val |-> reply[p]] \in Given
    BY <1>3, <2>2 DEF ProcessPrints, Given, Answers, HelpersTyped, CallersFit, ProcessesFit
  <2>4. /\ acted' = acted \ {p} /\ alive' = alive
        /\ outbox' = [outbox EXCEPT ![p] = Append(@, [to |-> Head(inbox[p]), val |-> reply[p]])]
        /\ inbox' = [inbox EXCEPT ![p] = Tail(@)] /\ reply' = [reply EXCEPT ![p] = "ok"]
    BY <1>3 DEF ProcessPrints
  <2>5. inbox' \in [Processes -> Seq(Commands)]
    BY <2>2, <2>4 DEF HelpersTyped
  <2>6. outbox' \in [Processes -> Seq(Given)]
    BY <2>3, <2>4 DEF HelpersTyped
  <2>7. HelpersTyped'
    BY <2>4, <2>5, <2>6 DEF HelpersTyped, Values
  <2>8. PasteTyped'
    BY <1>3 DEF ProcessPrints, PasteTyped
  <2>9. CallersFit' /\ ProcessesFit'
    BY <1>3, <2>1, <2>4 DEF ProcessPrints, CallersFit, ProcessesFit, HelpersTyped
  <2> QED BY <1>1, <2>7, <2>8, <2>9
<1>4. CASE ProcessDies(p)
  <2>1. <<>> \in Seq(Commands)
    OBVIOUS
  <2>2. HelpersTyped'
    BY <1>4, <2>1 DEF ProcessDies, HelpersTyped
  <2>3. PasteTyped'
    BY <1>4 DEF ProcessDies, PasteTyped
  <2>4. CallersFit' /\ ProcessesFit'
    BY <1>4 DEF ProcessDies, CallersFit, ProcessesFit, HelpersTyped
  <2> QED BY <1>1, <2>2, <2>3, <2>4
<1> QED BY <1>2, <1>3, <1>4

\* Of the processes that are put out of the slot nothing is left.
SlotCleared(old) ==
  /\ held' \in Processes \union {NoProcess} /\ abandoned' \in SUBSET Processes
  /\ alive' \in SUBSET Processes /\ acted' = acted \ old /\ acted' \in SUBSET alive'
  /\ \A p \in Processes : p \in old => inbox'[p] = <<>> /\ outbox'[p] = <<>> /\ p \notin abandoned'
  /\ \A p \in Processes \ old : /\ inbox'[p] = inbox[p] /\ outbox'[p] = outbox[p]
                                /\ p \in abandoned' <=> p \in abandoned
                                /\ p \in alive => p \in alive'
  /\ inbox' \in [Processes -> Seq(Commands)] /\ outbox' \in [Processes -> Seq(Given)]

LEMMA SpawningClears ==
  ASSUME BridgeTypes, NEW old \in SUBSET Processes, Spawns(old)
  PROVE  SlotCleared(old) /\ held' \in Processes /\ alive' = (alive \ old) \cup {held'}
<1>1. held' \in Dead(old)
  BY DEF Spawns
<1>2. held' \in Processes /\ alive' = (alive \ old) \cup {held'}
  BY <1>1 DEF Spawns, Dead
<1>3. /\ inbox' = [p \in Processes |-> IF p \in old THEN <<>> ELSE inbox[p]]
      /\ outbox' = [p \in Processes |-> IF p \in old THEN <<>> ELSE outbox[p]]
      /\ acted' = acted \ old /\ abandoned' = abandoned \ old
  BY DEF Spawns, Emptied
<1>4. <<>> \in Seq(Commands) /\ <<>> \in Seq(Given)
  OBVIOUS
<1>5. inbox' \in [Processes -> Seq(Commands)] /\ outbox' \in [Processes -> Seq(Given)]
  BY <1>3, <1>4 DEF BridgeTypes, HelpersTyped
<1> QED BY <1>2, <1>3, <1>5 DEF SlotCleared, BridgeTypes, HelpersTyped, SlotTyped

LEMMA FailingClears ==
  ASSUME BridgeTypes, NEW old \in SUBSET Processes, Emptied(old), alive' = alive \ old,
         held' = NoProcess
  PROVE  SlotCleared(old)
<1>1. /\ inbox' = [p \in Processes |-> IF p \in old THEN <<>> ELSE inbox[p]]
      /\ outbox' = [p \in Processes |-> IF p \in old THEN <<>> ELSE outbox[p]]
      /\ acted' = acted \ old /\ abandoned' = abandoned \ old
  BY DEF Emptied
<1>2. <<>> \in Seq(Commands) /\ <<>> \in Seq(Given)
  OBVIOUS
<1>3. inbox' \in [Processes -> Seq(Commands)] /\ outbox' \in [Processes -> Seq(Given)]
  BY <1>1, <1>2 DEF BridgeTypes, HelpersTyped
<1> QED BY <1>1, <1>3 DEF SlotCleared, BridgeTypes, HelpersTyped, SlotTyped

\* What is left of the processes fits, whatever becomes of the caller.
LEMMA ClearedFits ==
  ASSUME BridgeTypes, NEW old \in SUBSET Processes, SlotCleared(old), reply' = reply
  PROVE  HelpersTyped' /\ ProcessesFit'
<1>1. HelpersTyped'
  BY DEF SlotCleared, BridgeTypes, HelpersTyped
<1>2. ASSUME NEW p \in Processes
      PROVE  /\ p \in acted' => inbox'[p] # <<>>
             /\ p \in acted' /\ Head(inbox'[p]).op = "get" => reply'[p] \in Contents
             /\ p \notin alive' => inbox'[p] = <<>>
  <2>1. CASE p \in old
    BY <2>1 DEF SlotCleared
  <2>2. CASE p \notin old
    BY <2>2 DEF SlotCleared, BridgeTypes, ProcessesFit
  <2> QED BY <2>1, <2>2
<1> QED BY <1>1, <1>2 DEF ProcessesFit

\* The caller's side of a step that keeps it inside, or lets it go.
LEMMA AttemptFits ==
  ASSUME BridgeTypes, NEW c \in Callers, mutex \in {c, Nobody}, tries[c] < 2, Attempt(c),
         mutex' = c, held' \in Processes, answer' = answer, command' = command, sent' = sent
  PROVE  CallersTyped' /\ CallersFit'
<1> USE BridgeAssumption
<1>1. tries[c] + 1 \in 1..2
  BY DEF BridgeTypes, CallersTyped
<1>2. CallersTyped'
  BY <1>1 DEF Attempt, BridgeTypes, CallersTyped, Stages
<1> QED BY <1>1, <1>2 DEF Attempt, BridgeTypes, CallersTyped, CallersFit

LEMMA ReturnFits ==
  ASSUME BridgeTypes, NEW c \in Callers, mutex \in {c, Nobody}, NEW a \in Answers,
         a \in Given \/ a.val = "failed", Return(c, a), command' = command, sent' = sent
  PROVE  CallersTyped' /\ CallersFit'
<1> USE BridgeAssumption
<1>1. CallersTyped'
  BY DEF Return, BridgeTypes, CallersTyped, Stages
<1> QED BY <1>1 DEF Return, BridgeTypes, CallersTyped, CallersFit

\* An attempt that fails: the process is killed and the request sent to another,
\* or it is answered.
LEMMA BridgeTypesOnFailure ==
  ASSUME BridgeTypes, NEW c \in Callers, mutex = c,
         FirstAttemptFails(c) \/ (LastAttemptFails(c) /\ (UNCHANGED outbox
                                    \/ (held \in Processes /\ outbox[held] # <<>>
                                        /\ outbox' = [outbox EXCEPT ![held] = Tail(@)]))),
         UNCHANGED <<reply, command, sent, clipboard, pasteVars>>
  PROVE  BridgeTypes'
<1> USE BridgeAssumption
<1>1. PasteTyped'
  <2>1. trouble' \in SUBSET Troubles
    BY DEF FirstAttemptFails, LastAttemptFails, Blamed, Troubles, BridgeTypes, PasteTyped
  <2> QED BY <2>1 DEF pasteVars, BridgeTypes, PasteTyped
<1>2. [to |-> command[c], val |-> "failed"] \in Answers
  BY DEF BridgeTypes, CallersTyped, Answers, Values
<1>3. Reaped \in SUBSET Processes
  BY DEF Reaped, Old
<1>4. CASE FirstAttemptFails(c) /\ Spawns(Reaped) /\ Attempt(c) /\ UNCHANGED <<mutex, answer>>
  <2>1. SlotCleared(Reaped) /\ held' \in Processes
    BY <1>3, <1>4, SpawningClears
  <2>2. CallersTyped' /\ CallersFit'
    BY <1>4, <2>1, AttemptFits DEF FirstAttemptFails
  <2>3. HelpersTyped' /\ ProcessesFit'
    BY <1>3, <2>1, ClearedFits
  <2> QED BY <1>1, <1>4, <2>1, <2>2, <2>3 DEF BridgeTypes, SlotTyped, SlotCleared
<1>5. CASE FirstAttemptFails(c) /\ SpawnFails(Reaped) /\ Fail(c)
  <2>1. SlotCleared(Reaped)
    BY <1>3, <1>5, FailingClears DEF SpawnFails
  <2>2. CallersTyped' /\ CallersFit'
    BY <1>2, <1>5, ReturnFits DEF Fail
  <2>3. HelpersTyped' /\ ProcessesFit'
    BY <1>3, <2>1, ClearedFits
  <2> QED BY <1>1, <1>5, <2>1, <2>2, <2>3 DEF BridgeTypes, SlotTyped, SlotCleared, Fail, Return
<1>6. CASE LastAttemptFails(c)
  <2>1. CallersTyped' /\ CallersFit'
    BY <1>2, <1>6, ReturnFits DEF Fail, LastAttemptFails
  <2>2. outbox' \in [Processes -> Seq(Given)]
    <3>1. \/ UNCHANGED outbox
          \/ /\ held \in Processes /\ outbox[held] # <<>>
             /\ outbox' = [outbox EXCEPT ![held] = Tail(@)]
      BY <1>6 DEF FirstAttemptFails, LastAttemptFails
    <3>2. outbox \in [Processes -> Seq(Given)]
      BY DEF BridgeTypes, HelpersTyped
    <3>3. ASSUME held \in Processes, outbox[held] # <<>> PROVE Tail(outbox[held]) \in Seq(Given)
      BY <3>2, <3>3
    <3> QED BY <3>1, <3>2, <3>3
  <2>3. HelpersTyped' /\ ProcessesFit'
    BY <1>6, <2>2 DEF LastAttemptFails, BridgeTypes, HelpersTyped, ProcessesFit
  <2>4. SlotTyped'
    BY <1>6 DEF LastAttemptFails, Fail, Return, Unanswered, BridgeTypes, SlotTyped, HelpersTyped
  <2> QED BY <1>1, <2>1, <2>3, <2>4 DEF BridgeTypes
<1> QED BY <1>4, <1>5, <1>6 DEF FirstAttemptFails

LEMMA BridgeTypesOnEnter ==
  ASSUME BridgeTypes, NEW c \in Callers, Enter(c)
  PROVE  BridgeTypes'
<1> USE BridgeAssumption
<1>0. stage[c] = "queued" /\ mutex = Nobody /\ tries[c] = 0
      /\ UNCHANGED <<reply, command, sent, clipboard, pasteVars>>
  BY DEF Enter, BridgeTypes, CallersFit
<1>1. trouble' = trouble \/ trouble' = Blamed(c)
  BY DEF Enter
<1>2. PasteTyped'
  BY <1>0, <1>1 DEF pasteVars, Blamed, Troubles, BridgeTypes, PasteTyped
<1>3. CASE /\ held # NoProcess /\ mutex' = c /\ Attempt(c)
           /\ UNCHANGED <<held, abandoned, alive, acted, inbox, outbox, answer, trouble>>
  <2>1. CallersTyped' /\ CallersFit'
    BY <1>0, <1>3, AttemptFits DEF BridgeTypes, SlotTyped
  <2>2. HelpersTyped' /\ ProcessesFit' /\ SlotTyped'
    BY <1>0, <1>3 DEF BridgeTypes, HelpersTyped, ProcessesFit, SlotTyped
  <2> QED BY <1>2, <2>1, <2>2 DEF BridgeTypes
<1>4. CASE /\ held = NoProcess /\ Spawns(NothingKilled) /\ mutex' = c /\ Attempt(c)
           /\ UNCHANGED <<answer, trouble>>
  <2>1. SlotCleared(NothingKilled) /\ held' \in Processes
    BY <1>4, SpawningClears DEF NothingKilled
  <2>2. CallersTyped' /\ CallersFit'
    BY <1>0, <1>4, <2>1, AttemptFits
  <2>3. HelpersTyped' /\ ProcessesFit'
    BY <1>0, <2>1, ClearedFits DEF NothingKilled
  <2> QED BY <1>2, <1>4, <2>1, <2>2, <2>3 DEF BridgeTypes, SlotTyped, SlotCleared
<1>5. CASE Fail(c) /\ UNCHANGED <<held, abandoned, alive, acted, inbox, outbox>>
  <2>1. [to |-> command[c], val |-> "failed"] \in Answers
    BY DEF BridgeTypes, CallersTyped, Answers, Values
  <2>2. CallersTyped' /\ CallersFit'
    BY <1>0, <1>5, <2>1, ReturnFits DEF Fail
  <2>3. HelpersTyped' /\ ProcessesFit' /\ SlotTyped'
    BY <1>0, <1>5 DEF Fail, Return, BridgeTypes, HelpersTyped, ProcessesFit, SlotTyped
  <2> QED BY <1>2, <2>2, <2>3 DEF BridgeTypes
<1> QED BY <1>3, <1>4, <1>5 DEF Enter

LEMMA BridgeTypesOnWrite ==
  ASSUME BridgeTypes, NEW c \in Callers, Write(c)
  PROVE  BridgeTypes'
<1> USE BridgeAssumption
<1>0. stage[c] = "write" /\ mutex = c /\ held \in Processes
  BY DEF Write, BridgeTypes, CallersFit
<1>1. CASE held \notin alive /\ AttemptFails(c)
  BY <1>0, <1>1, BridgeTypesOnFailure DEF AttemptFails
<1>2. CASE ~(held \notin alive /\ AttemptFails(c))
  <2>1. /\ held \in alive /\ inbox' = [inbox EXCEPT ![held] = Append(@, command[c])]
        /\ stage' = [stage EXCEPT ![c] = "read"]
        /\ UNCHANGED <<slotVars, alive, acted, reply, outbox, tries, command, answer, sent,
                       clipboard, pasteVars, trouble>>
    BY <1>2 DEF Write
  <2>2. Append(inbox[held], command[c]) \in Seq(Commands)
    BY <1>0 DEF BridgeTypes, HelpersTyped, CallersTyped
  <2>3. HelpersTyped'
    BY <2>1, <2>2 DEF BridgeTypes, HelpersTyped
  <2>4. CallersTyped' /\ CallersFit'
    BY <1>0, <2>1 DEF slotVars, BridgeTypes, CallersTyped, CallersFit, Stages
  <2>5. ASSUME NEW p \in Processes, p \in acted
        PROVE  inbox'[p] # <<>> /\ Head(inbox'[p]) = Head(inbox[p])
    <3>1. inbox[p] # <<>> /\ inbox[p] \in Seq(Commands)
      BY <2>5 DEF BridgeTypes, ProcessesFit, HelpersTyped
    <3>2. CASE p = held
      <4>1. inbox'[p] = Append(inbox[p], command[c]) /\ command[c] \in Commands
        BY <2>1, <3>2 DEF BridgeTypes, HelpersTyped, CallersTyped
      <4> QED BY <3>1, <4>1
    <3>3. CASE p # held
      BY <2>1, <3>1, <3>3 DEF BridgeTypes, HelpersTyped
    <3> QED BY <3>2, <3>3
  <2>6. ProcessesFit'
    BY <1>0, <2>1, <2>5 DEF BridgeTypes, HelpersTyped, ProcessesFit
  <2>7. SlotTyped' /\ PasteTyped'
    BY <2>1 DEF slotVars, pasteVars, BridgeTypes, SlotTyped, PasteTyped
  <2> QED BY <2>3, <2>4, <2>6, <2>7 DEF BridgeTypes
<1> QED BY <1>1, <1>2

LEMMA BridgeTypesOnRead ==
  ASSUME BridgeTypes, NEW c \in Callers, Read(c) \/ ReadError(c) \/ GiveUpReading(c)
  PROVE  BridgeTypes'
<1> USE BridgeAssumption
<1>0. stage[c] = "read" /\ mutex = c /\ held \in Processes
  BY DEF Read, ReadError, GiveUpReading, NothingRead, BridgeTypes, CallersFit
<1>1. CASE GiveUpReading(c)
  BY <1>0, <1>1, BridgeTypesOnFailure DEF GiveUpReading, AttemptFails
<1>2. CASE ReadError(c)
  BY <1>0, <1>2, BridgeTypesOnFailure DEF ReadError
<1>3. CASE Read(c)
  <2>1. outbox[held] \in Seq(Given) /\ outbox[held] # <<>>
    BY <1>0, <1>3 DEF Read, BridgeTypes, HelpersTyped
  <2>2. Head(outbox[held]) \in Given /\ Tail(outbox[held]) \in Seq(Given)
    BY <2>1
  <2>3. CallersTyped' /\ CallersFit'
    BY <1>0, <1>3, <2>2, ReturnFits DEF Read, Given
  <2>4. HelpersTyped' /\ ProcessesFit'
    BY <1>3, <2>2 DEF Read, BridgeTypes, HelpersTyped, ProcessesFit
  <2>5. SlotTyped' /\ PasteTyped'
    BY <1>3 DEF Read, Return, pasteVars, BridgeTypes, SlotTyped, PasteTyped
  <2> QED BY <2>3, <2>4, <2>5 DEF BridgeTypes
<1> QED BY <1>1, <1>2, <1>3

\* A caller asks again: only its own stage changes.
LEMMA CallFits ==
  ASSUME BridgeTypes, NEW c \in Callers, NEW op \in {"read", "get", "set"}, NEW t \in Contents,
         Call(c, op, t), mutex' = mutex, held' = held, tries' = tries, sent' \in [Callers -> 0..MaxRequests]
  PROVE  CallersTyped' /\ CallersFit'
<1> USE BridgeAssumption
<1>1. Ask(c, op, t) \in Commands
  BY DEF Ask, Commands
<1>2. [to |-> Ask(c, op, t), val |-> "pending"] \in Answers
  BY <1>1 DEF Answers, Values
<1>3. /\ stage' = [stage EXCEPT ![c] = "queued"]
      /\ command' = [command EXCEPT ![c] = Ask(c, op, t)]
      /\ answer' = [answer EXCEPT ![c] = [to |-> Ask(c, op, t), val |-> "pending"]]
  BY DEF Call, BridgeTypes, CallersTyped
<1>4. CallersTyped'
  BY <1>1, <1>2, <1>3 DEF BridgeTypes, CallersTyped, Stages
<1> QED BY <1>3, <1>4 DEF Call, BridgeTypes, CallersTyped, CallersFit

LEMMA BridgeTypesOnCall ==
  ASSUME BridgeTypes,
         \/ \E c \in Callers : ReaderCalls(c)
         \/ PasteBegins \/ PasteSets \/ PasteRestores
  PROVE  BridgeTypes'
<1> USE BridgeAssumption DEF slotVars, processVars, callerVars, pasteVars
<1>1. SlotTyped' /\ HelpersTyped' /\ ProcessesFit'
  BY DEF ReaderCalls, PasteBegins, PasteSets, PasteRestores, BridgeTypes, SlotTyped,
     HelpersTyped, ProcessesFit
<1>2. mutex' = mutex /\ held' = held /\ tries' = tries
  BY DEF ReaderCalls, PasteBegins, PasteSets, PasteRestores
<1>3. "empty" \in Contents /\ "typed" \in Contents /\ clipboard \in Contents /\ saved \in Contents
  BY DEF Contents, BridgeTypes, PasteTyped
<1>4. ASSUME NEW c \in Callers, ReaderCalls(c) PROVE BridgeTypes'
  <2>1. sent' \in [Callers -> 0..MaxRequests]
    BY <1>4 DEF ReaderCalls, BridgeTypes, CallersTyped
  <2>2. CallersTyped' /\ CallersFit'
    BY <1>2, <1>3, <1>4, <2>1, CallFits DEF ReaderCalls
  <2>3. PasteTyped'
    BY <1>4 DEF ReaderCalls, BridgeTypes, PasteTyped
  <2> QED BY <1>1, <2>2, <2>3 DEF BridgeTypes
<1>5. CASE PasteBegins
  <2>1. sent' \in [Callers -> 0..MaxRequests]
    BY <1>5 DEF PasteBegins, BridgeTypes, CallersTyped
  <2>2. CallersTyped' /\ CallersFit'
    BY <1>2, <1>3, <1>5, <2>1, CallFits DEF PasteBegins
  <2>3. PasteTyped'
    BY <1>5 DEF PasteBegins, BridgeTypes, PasteTyped
  <2> QED BY <1>1, <2>2, <2>3 DEF BridgeTypes
<1>6. CASE PasteSets
  <2>1. sent' \in [Callers -> 0..MaxRequests]
    BY <1>6 DEF PasteSets, BridgeTypes, CallersTyped
  <2>2. CallersTyped' /\ CallersFit'
    BY <1>2, <1>3, <1>6, <2>1, CallFits DEF PasteSets
  <2>3. Before \in Contents
    BY <1>3, <1>6 DEF PasteSets, Before, Got, Given, BridgeTypes, CallersFit
  <2>4. PasteTyped'
    BY <1>6, <2>3 DEF PasteSets, BridgeTypes, PasteTyped
  <2> QED BY <1>1, <2>2, <2>4 DEF BridgeTypes
<1>7. CASE PasteRestores
  <2>1. sent' \in [Callers -> 0..MaxRequests]
    BY <1>7 DEF PasteRestores, BridgeTypes, CallersTyped
  <2>2. CallersTyped' /\ CallersFit'
    BY <1>2, <1>3, <1>7, <2>1, CallFits DEF PasteRestores
  <2>3. PasteTyped'
    BY <1>7 DEF PasteRestores, BridgeTypes, PasteTyped
  <2> QED BY <1>1, <2>2, <2>3 DEF BridgeTypes
<1> QED BY <1>4, <1>5, <1>6, <1>7

LEMMA BridgeTypesStep == BridgeTypes /\ [BridgeNext]_bridgeVars => BridgeTypes'
<1> SUFFICES ASSUME BridgeTypes, [BridgeNext]_bridgeVars PROVE BridgeTypes'
  OBVIOUS
<1> USE BridgeAssumption
<1>1. CASE UNCHANGED bridgeVars
  BY <1>1 DEF bridgeVars, slotVars, processVars, callerVars, pasteVars, BridgeTypes, SlotTyped,
     HelpersTyped, CallersTyped, PasteTyped, CallersFit, ProcessesFit
<1>2. CASE PastePresses \/ PasteEnds \/ PasteDropped
  <2>1. SlotTyped' /\ HelpersTyped' /\ CallersTyped' /\ CallersFit' /\ ProcessesFit'
    BY <1>2 DEF PastePresses, PasteEnds, PasteDropped, slotVars, processVars, callerVars,
       BridgeTypes, SlotTyped, HelpersTyped, CallersTyped, CallersFit, ProcessesFit
  <2>2. PasteTyped'
    BY <1>2 DEF PastePresses, PasteEnds, PasteDropped, BridgeTypes, PasteTyped
  <2> QED BY <2>1, <2>2 DEF BridgeTypes
<1>3. CASE BridgeShutdown
  <2>1. SlotCleared(Old)
    BY <1>3, FailingClears DEF BridgeShutdown, Old
  <2>2. HelpersTyped' /\ ProcessesFit'
    BY <1>3, <2>1, ClearedFits DEF BridgeShutdown, Old
  <2>3. CallersTyped' /\ CallersFit' /\ PasteTyped'
    BY <1>3 DEF BridgeShutdown, callerVars, pasteVars, BridgeTypes, CallersTyped, CallersFit,
       PasteTyped
  <2> QED BY <1>3, <2>1, <2>2, <2>3 DEF BridgeShutdown, BridgeTypes, SlotTyped, SlotCleared
<1> QED BY <1>1, <1>2, <1>3, BridgeTypesOnProcess, BridgeTypesOnEnter, BridgeTypesOnWrite,
        BridgeTypesOnRead, BridgeTypesOnCall DEF BridgeNext, CallerStep, PasteStep

\* Every variable of the bridge, of its callers and of the paste has its type, for
\* any callers, helper processes and numbers of requests.
THEOREM BridgeIsTyped == BridgeSpec => []BridgeTypeOK
<1>1. BridgeSpec => []BridgeTypes
  BY BridgeTypesInit, BridgeTypesStep, PTL DEF BridgeSpec
<1> QED BY <1>1, BridgeTypesSplit, PTL

-----------------------------------------------------------------------------
(* Bridge: the helper in step. *)

Waiting == \E c \in Callers : stage[c] = "read"

\* What the process in the slot owes: an answer to the caller that reads, and one
\* more after two deadlines in a row.
DebtBounded ==
  \A p \in Processes :
    p = held =>
      /\ Owed(p) <= 2
      /\ p \notin abandoned \/ ~Waiting => Owed(p) <= 1
      /\ p \notin abandoned /\ ~Waiting => Owed(p) = 0

\* Outside the slot nothing runs, owes or was given up.
SlotIsAll ==
  /\ alive \subseteq {held}
  /\ \A p \in Processes : p # held => inbox[p] = <<>> /\ outbox[p] = <<>> /\ p \notin abandoned

\* A second attempt is made of a new process, which owes nothing to the past.
RetriedIsNew == \A c \in Callers : mutex = c /\ tries[c] = 2 => held \notin abandoned

StepInv == SlotIsAll /\ DebtBounded /\ RetriedIsNew

\* How a step changes what a process owes.
LEMMA OwedCounts ==
  ASSUME BridgeTypes, NEW p \in Processes
  PROVE  /\ Owed(p) \in Nat
         /\ inbox[p] = <<>> /\ outbox[p] = <<>> => Owed(p) = 0
         /\ outbox[p] # <<>> => Owed(p) >= 1
         /\ inbox[p] # <<>> /\ outbox[p] # <<>> => Owed(p) >= 2
<1>1. inbox[p] \in Seq(Commands) /\ outbox[p] \in Seq(Given)
  BY DEF BridgeTypes, HelpersTyped
<1>2. ASSUME NEW s \in Seq(Commands), NEW t \in Seq(Given)
      PROVE  /\ Len(s) + Len(t) \in Nat
             /\ s = <<>> /\ t = <<>> => Len(s) + Len(t) = 0
             /\ t # <<>> => Len(s) + Len(t) >= 1
             /\ s # <<>> /\ t # <<>> => Len(s) + Len(t) >= 2
  <2>1. Len(s) \in Nat /\ Len(t) \in Nat
    OBVIOUS
  <2>2. ASSUME s = <<>>, t = <<>> PROVE Len(s) + Len(t) = 0
    BY <2>2
  <2>3. ASSUME t # <<>> PROVE Len(s) + Len(t) >= 1
    BY <2>3
  <2>4. ASSUME s # <<>>, t # <<>> PROVE Len(s) + Len(t) >= 2
    BY <2>4
  <2> QED BY <2>1, <2>2, <2>3, <2>4
<1> QED BY <1>1, <1>2, Zenon DEF Owed

LEMMA OwedNext ==
  ASSUME BridgeTypes, NEW p \in Processes
  PROVE  /\ inbox'[p] = inbox[p] /\ outbox'[p] = outbox[p] => Owed(p)' = Owed(p)
         /\ inbox'[p] = <<>> /\ outbox'[p] = <<>> => Owed(p)' = 0
         /\ inbox'[p] = <<>> /\ outbox'[p] = outbox[p] => Owed(p)' <= Owed(p)
         /\ \A m \in Commands :
              inbox'[p] = Append(inbox[p], m) /\ outbox'[p] = outbox[p] => Owed(p)' = Owed(p) + 1
         /\ outbox[p] # <<>> /\ inbox'[p] = inbox[p] /\ outbox'[p] = Tail(outbox[p])
              => Owed(p) = Owed(p)' + 1 /\ Owed(p)' \in Nat
         /\ \A a \in Given :
              inbox[p] # <<>> /\ inbox'[p] = Tail(inbox[p]) /\ outbox'[p] = Append(outbox[p], a)
              => Owed(p)' = Owed(p)
<1>1. inbox[p] \in Seq(Commands) /\ outbox[p] \in Seq(Given)
  BY DEF BridgeTypes, HelpersTyped
<1>2. ASSUME NEW s \in Seq(Commands), NEW t \in Seq(Given)
      PROVE  /\ \A m \in Commands : Len(Append(s, m)) + Len(t) = Len(s) + Len(t) + 1
             /\ t # <<>> => Len(s) + Len(t) = Len(s) + Len(Tail(t)) + 1 /\ Len(s) + Len(Tail(t)) \in Nat
             /\ \A a \in Given : s # <<>> => Len(Tail(s)) + Len(Append(t, a)) = Len(s) + Len(t)
  <2>1. ASSUME NEW m \in Commands PROVE Len(Append(s, m)) + Len(t) = Len(s) + Len(t) + 1
    <3>1. Len(s) \in Nat /\ Len(t) \in Nat /\ Len(Append(s, m)) = Len(s) + 1
      OBVIOUS
    <3> QED BY <3>1
  <2>2. ASSUME t # <<>>
        PROVE  Len(s) + Len(t) = Len(s) + Len(Tail(t)) + 1 /\ Len(s) + Len(Tail(t)) \in Nat
    <3>1. Len(Tail(t)) \in Nat /\ Len(s) \in Nat
      BY <2>2
    <3>2. Len(s) + Len(t) = Len(s) + Len(Tail(t)) + 1
      BY <2>2
    <3> QED BY <3>1, <3>2
  <2>3. ASSUME NEW a \in Given, s # <<>> PROVE Len(Tail(s)) + Len(Append(t, a)) = Len(s) + Len(t)
    BY <2>3
  <2> QED BY <2>1, <2>2, <2>3, Zenon
<1>3. ASSUME inbox'[p] = inbox[p], outbox'[p] = outbox[p] PROVE Owed(p)' = Owed(p)
  BY <1>3, Zenon DEF Owed
<1>4. ASSUME inbox'[p] = <<>>, outbox'[p] = <<>> PROVE Owed(p)' = 0
  BY <1>4 DEF Owed
<1>5. ASSUME inbox'[p] = <<>>, outbox'[p] = outbox[p] PROVE Owed(p)' <= Owed(p)
  BY <1>1, <1>5 DEF Owed
<1>6. ASSUME NEW m \in Commands, inbox'[p] = Append(inbox[p], m), outbox'[p] = outbox[p]
      PROVE  Owed(p)' = Owed(p) + 1
  BY <1>1, <1>2, <1>6, Zenon DEF Owed
<1>7. ASSUME outbox[p] # <<>>, inbox'[p] = inbox[p], outbox'[p] = Tail(outbox[p])
      PROVE  Owed(p) = Owed(p)' + 1 /\ Owed(p)' \in Nat
  BY <1>1, <1>2, <1>7, Zenon DEF Owed
<1>8. ASSUME NEW a \in Given, inbox[p] # <<>>, inbox'[p] = Tail(inbox[p]),
             outbox'[p] = Append(outbox[p], a)
      PROVE  Owed(p)' = Owed(p)
  BY <1>1, <1>2, <1>8, Zenon DEF Owed
<1> QED BY <1>3, <1>4, <1>5, <1>6, <1>7, <1>8, Zenon

\* With nobody else inside, the caller is the one that waits.
LEMMA InsiderWaits ==
  ASSUME BridgeTypes, NEW c \in Callers, mutex \in {c, Nobody}
  PROVE  Waiting <=> stage[c] = "read"
BY BridgeAssumption DEF Waiting, BridgeTypes, CallersFit

\* A slot with a new process in it, or none, is in step.
LEMMA ClearedSlotInStep ==
  ASSUME BridgeTypes, SlotIsAll, NEW old \in SUBSET Processes,
         held \in Processes => held \in old, SlotCleared(old), alive' \subseteq {held'}
  PROVE  StepInv'
<1>1. \A p \in Processes : inbox'[p] = <<>> /\ outbox'[p] = <<>> /\ p \notin abandoned'
  BY DEF SlotCleared, SlotIsAll
<1>2. \A p \in Processes : Owed(p)' = 0
  BY <1>1, OwedNext
<1>3. held' \notin abandoned'
  BY <1>1 DEF SlotCleared
<1> QED BY <1>1, <1>2, <1>3 DEF StepInv, SlotIsAll, DebtBounded, RetriedIsNew

LEMMA StepInvOnFirstFailure ==
  ASSUME BridgeTypes, StepInv, NEW c \in Callers, FirstAttemptFails(c)
  PROVE  StepInv'
<1>1. Reaped \in SUBSET Processes /\ (held \in Processes => held \in Reaped)
  BY DEF Reaped, Old
<1>2. alive \ Reaped = {}
  BY <1>1 DEF StepInv, SlotIsAll, BridgeTypes, HelpersTyped, Reaped, Old
<1>3. CASE Spawns(Reaped)
  <2>1. SlotCleared(Reaped) /\ alive' \subseteq {held'}
    BY <1>1, <1>2, <1>3, SpawningClears
  <2> QED BY <1>1, <2>1, ClearedSlotInStep DEF StepInv
<1>4. CASE SpawnFails(Reaped)
  <2>1. SlotCleared(Reaped) /\ alive' \subseteq {held'}
    BY <1>1, <1>2, <1>4, FailingClears DEF SpawnFails
  <2> QED BY <1>1, <2>1, ClearedSlotInStep DEF StepInv
<1> QED BY <1>3, <1>4 DEF FirstAttemptFails

\* The last attempt was made of a new process: it owes one answer at most, and
\* that one is read, lost with the process, or given up.
LEMMA StepInvOnLastFailure ==
  ASSUME BridgeTypes, StepInv, NEW c \in Callers, mutex = c, LastAttemptFails(c),
         \/ /\ outbox' = outbox /\ stage[c] = "write" /\ held \notin alive
         \/ /\ outbox' = outbox /\ stage[c] = "read" /\ (outbox[held] = <<>> \/ held \in abandoned)
         \/ /\ outbox' = [outbox EXCEPT ![held] = Tail(@)] /\ outbox[held] # <<>>
            /\ stage[c] = "read"
  PROVE  StepInv'
<1> USE BridgeAssumption
<1>1. /\ tries[c] = 2 /\ held' = held /\ alive' = alive /\ inbox' = inbox /\ mutex' = Nobody
      /\ abandoned' = IF Unanswered THEN abandoned \cup {held} ELSE abandoned
  BY DEF LastAttemptFails, Fail, Return
<1>2. held \in Processes /\ held \notin abandoned
  BY <1>1 DEF StepInv, RetriedIsNew, BridgeTypes, CallersFit
<1>3. Waiting <=> stage[c] = "read"
  BY InsiderWaits
<1>4. Owed(held) \in Nat /\ Owed(held) <= 1 /\ (~Waiting => Owed(held) = 0)
  BY <1>2, OwedCounts DEF StepInv, DebtBounded
<1>5. ASSUME NEW p \in Processes, p = held
      PROVE  Owed(p)' \in Nat /\ Owed(p)' <= 1 /\ (p \notin abandoned' => Owed(p)' = 0)
  <2>1. CASE outbox' = outbox /\ stage[c] = "write"
    <3>1. Owed(p)' = Owed(p)
      BY <1>1, <2>1, OwedNext
    <3> QED BY <1>3, <1>4, <1>5, <2>1, <3>1
  <2>2. CASE outbox' = outbox /\ stage[c] = "read" /\ outbox[held] = <<>>
    <3>1. Owed(p)' = Owed(p)
      BY <1>1, <2>2, OwedNext
    <3>2. CASE Unanswered
      BY <1>1, <1>4, <1>5, <3>1, <3>2
    <3>3. CASE ~Unanswered
      <4>1. inbox[p] = <<>>
        BY <1>5, <3>3 DEF Unanswered, BridgeTypes, ProcessesFit
      <4>2. Owed(p) = 0
        BY <1>5, <2>2, <4>1, OwedCounts
      <4> QED BY <3>1, <4>2
    <3> QED BY <3>2, <3>3
  <2>3. CASE outbox' = [outbox EXCEPT ![held] = Tail(@)] /\ outbox[held] # <<>>
    <3>1. outbox'[p] = Tail(outbox[p]) /\ outbox[p] # <<>> /\ inbox'[p] = inbox[p]
      BY <1>1, <1>5, <2>3 DEF BridgeTypes, HelpersTyped
    <3>2. Owed(p) = Owed(p)' + 1 /\ Owed(p)' \in Nat
      BY <3>1, OwedNext
    <3> QED BY <1>4, <1>5, <3>2
  <2> QED BY <1>2, <2>1, <2>2, <2>3
<1>6. \A p \in Processes : p # held => outbox'[p] = outbox[p] /\ (p \in abandoned' <=> p \in abandoned)
  BY <1>1 DEF BridgeTypes, HelpersTyped
<1>7. SlotIsAll'
  BY <1>1, <1>6 DEF StepInv, SlotIsAll
<1>8. DebtBounded'
  BY <1>1, <1>5 DEF DebtBounded
<1> QED BY <1>1, <1>7, <1>8 DEF StepInv, RetriedIsNew

LEMMA StepInvOnAttempt ==
  ASSUME BridgeTypes, StepInv, NEW c \in Callers,
         \/ Write(c) /\ ~(held \in alive)
         \/ ReadError(c) \/ GiveUpReading(c)
  PROVE  StepInv'
<1>1. mutex = c /\ stage[c] \in {"write", "read"}
  BY DEF Write, ReadError, GiveUpReading, NothingRead, BridgeTypes, CallersFit
<1>2. CASE FirstAttemptFails(c)
  BY <1>2, StepInvOnFirstFailure
<1>3. CASE ~FirstAttemptFails(c)
  <2>1. /\ LastAttemptFails(c)
        /\ \/ /\ outbox' = outbox /\ stage[c] = "write" /\ held \notin alive
           \/ /\ outbox' = outbox /\ stage[c] = "read" /\ (outbox[held] = <<>> \/ held \in abandoned)
           \/ /\ outbox' = [outbox EXCEPT ![held] = Tail(@)] /\ outbox[held] # <<>>
              /\ stage[c] = "read"
    BY <1>3 DEF Write, ReadError, GiveUpReading, NothingRead, AttemptFails
  <2> QED BY <1>1, <2>1, StepInvOnLastFailure
<1> QED BY <1>2, <1>3

LEMMA StepInvOnWrite ==
  ASSUME BridgeTypes, StepInv, NEW c \in Callers, Write(c), held \in alive
  PROVE  StepInv'
<1> USE BridgeAssumption
<1>1. /\ inbox' = [inbox EXCEPT ![held] = Append(@, command[c])]
      /\ stage' = [stage EXCEPT ![c] = "read"] /\ stage[c] = "write"
      /\ UNCHANGED <<mutex, held, abandoned, alive, outbox, tries>>
  BY DEF Write, slotVars
<1>2. mutex = c /\ held \in Processes
  BY <1>1 DEF BridgeTypes, CallersFit
<1>3. ~Waiting
  BY <1>1, <1>2, InsiderWaits
<1>4. ASSUME NEW p \in Processes, p = held
      PROVE  Owed(p)' <= 2 /\ (p \notin abandoned' => Owed(p)' <= 1)
  <2>1. inbox'[p] = Append(inbox[p], command[c]) /\ command[c] \in Commands /\ outbox'[p] = outbox[p]
    BY <1>1, <1>4 DEF BridgeTypes, HelpersTyped, CallersTyped
  <2>2. Owed(p)' = Owed(p) + 1
    BY <2>1, OwedNext
  <2>3. Owed(p) \in Nat /\ Owed(p) <= 1 /\ (p \notin abandoned => Owed(p) = 0)
    BY <1>3, <1>4, OwedCounts DEF StepInv, DebtBounded
  <2> QED BY <1>1, <2>2, <2>3
<1>5. Waiting'
  BY <1>1 DEF Waiting, BridgeTypes, CallersTyped
<1>6. DebtBounded'
  BY <1>1, <1>4, <1>5 DEF DebtBounded
<1>7. \A p \in Processes : p # held => inbox'[p] = inbox[p]
  BY <1>1 DEF BridgeTypes, HelpersTyped
<1> QED BY <1>1, <1>6, <1>7 DEF StepInv, SlotIsAll, RetriedIsNew

LEMMA StepInvOnRead ==
  ASSUME BridgeTypes, StepInv, NEW c \in Callers, Read(c)
  PROVE  StepInv'
<1> USE BridgeAssumption
<1>1. /\ outbox' = [outbox EXCEPT ![held] = Tail(@)] /\ outbox[held] # <<>> /\ stage[c] = "read"
      /\ stage' = [stage EXCEPT ![c] = "returned"] /\ mutex' = Nobody
      /\ UNCHANGED <<held, abandoned, alive, inbox>>
  BY DEF Read, Return
<1>2. mutex = c /\ held \in Processes /\ Waiting
  BY <1>1, InsiderWaits DEF BridgeTypes, CallersFit
<1>3. ASSUME NEW p \in Processes, p = held
      PROVE  Owed(p)' \in Nat /\ Owed(p)' <= 1 /\ (p \notin abandoned' => Owed(p)' = 0)
  <2>1. outbox[p] # <<>> /\ inbox'[p] = inbox[p] /\ outbox'[p] = Tail(outbox[p])
    BY <1>1, <1>3 DEF BridgeTypes, HelpersTyped
  <2>2. Owed(p) = Owed(p)' + 1 /\ Owed(p)' \in Nat
    BY <2>1, OwedNext
  <2>3. Owed(p) \in Nat /\ Owed(p) <= 2 /\ (p \notin abandoned => Owed(p) <= 1)
    BY <1>3, OwedCounts DEF StepInv, DebtBounded
  <2> QED BY <1>1, <2>2, <2>3
<1>4. DebtBounded'
  BY <1>1, <1>3 DEF DebtBounded
<1>5. \A p \in Processes : p # held => outbox'[p] = outbox[p]
  BY <1>1 DEF BridgeTypes, HelpersTyped
<1> QED BY <1>1, <1>4, <1>5 DEF StepInv, SlotIsAll, RetriedIsNew

LEMMA StepInvOnEnter ==
  ASSUME BridgeTypes, BridgeTypes', StepInv, NEW c \in Callers, Enter(c)
  PROVE  StepInv'
<1> USE BridgeAssumption
<1>1. mutex = Nobody /\ stage[c] = "queued" /\ stage'[c] # "read" /\ ~Waiting /\ tries[c] = 0
  BY InsiderWaits DEF Enter, Attempt, Fail, Return, BridgeTypes, CallersTyped, CallersFit
<1>2. CASE held = NoProcess /\ Spawns(NothingKilled)
  <2>1. alive = {}
    BY <1>2 DEF StepInv, SlotIsAll, BridgeTypes, HelpersTyped
  <2>2. SlotCleared(NothingKilled) /\ alive' \subseteq {held'}
    BY <1>2, <2>1, SpawningClears DEF NothingKilled
  <2> QED BY <1>2, <2>2, ClearedSlotInStep DEF StepInv, NothingKilled
<1>3. CASE ~(held = NoProcess /\ Spawns(NothingKilled))
  <2>1. /\ UNCHANGED <<held, abandoned, alive, inbox, outbox>> /\ mutex' \in {c, Nobody}
        /\ mutex' = c => tries' = [tries EXCEPT ![c] = @ + 1]
    BY <1>3 DEF Enter, Attempt, Fail, Return
  <2>2. ~Waiting'
    BY <1>1, <2>1 DEF Waiting, BridgeTypes, CallersFit
  <2>3. \A p \in Processes : Owed(p)' = Owed(p)
    BY <2>1, OwedNext
  <2>4. DebtBounded'
    BY <1>1, <2>1, <2>2, <2>3 DEF StepInv, DebtBounded
  <2>5. mutex' = c => tries'[c] = 1
    BY <1>1, <2>1 DEF BridgeTypes, CallersTyped
  <2> QED BY <2>1, <2>4, <2>5 DEF StepInv, SlotIsAll, RetriedIsNew
<1> QED BY <1>2, <1>3

LEMMA StepInvOnProcess ==
  ASSUME BridgeTypes, StepInv, NEW p \in Processes,
         ProcessActs(p) \/ ProcessPrints(p) \/ ProcessDies(p)
  PROVE  StepInv'
<1> USE BridgeAssumption DEF slotVars, callerVars
<1>1. UNCHANGED <<mutex, held, abandoned, stage, tries>> /\ p \in alive
  BY DEF ProcessActs, ProcessPrints, ProcessDies, BridgeTypes, HelpersTyped
<1>2. p = held
  BY <1>1 DEF StepInv, SlotIsAll
<1>3. Owed(p)' \in Nat /\ Owed(p)' <= Owed(p)
  <2>1. CASE ProcessActs(p)
    BY <2>1, OwedNext, OwedCounts DEF ProcessActs
  <2>2. CASE ProcessPrints(p)
    <3>1. inbox[p] # <<>> /\ Head(inbox[p]) \in Commands
      BY <2>2 DEF ProcessPrints, BridgeTypes, HelpersTyped, ProcessesFit
    <3>2. [to |-> Head(inbox[p]), val |-> reply[p]] \in Given
      BY <2>2, <3>1 DEF ProcessPrints, Given, Answers, BridgeTypes, HelpersTyped, ProcessesFit
    <3>3. /\ inbox'[p] = Tail(inbox[p])
          /\ outbox'[p] = Append(outbox[p], [to |-> Head(inbox[p]), val |-> reply[p]])
      BY <2>2 DEF ProcessPrints, BridgeTypes, HelpersTyped
    <3>4. Owed(p)' = Owed(p)
      BY <3>1, <3>2, <3>3, OwedNext
    <3> QED BY <3>4, OwedCounts
  <2>3. CASE ProcessDies(p)
    <3>1. inbox'[p] = <<>> /\ outbox'[p] = outbox[p]
      BY <2>3 DEF ProcessDies, BridgeTypes, HelpersTyped
    <3>2. Owed(p)' <= Owed(p)
      BY <3>1, OwedNext
    <3>3. <<>> \in Seq(Commands) /\ outbox[p] \in Seq(Given)
      BY DEF BridgeTypes, HelpersTyped
    <3>4. \A s \in Seq(Commands), t \in Seq(Given) : Len(s) + Len(t) \in Nat
      OBVIOUS
    <3>5. Owed(p)' \in Nat
      BY <3>1, <3>3, <3>4, Zenon DEF Owed
    <3> QED BY <3>2, <3>5
  <2> QED BY <2>1, <2>2, <2>3
<1>4. Waiting' = Waiting
  BY <1>1 DEF Waiting
<1>5. Owed(p) \in Nat
  BY OwedCounts
<1>6. DebtBounded'
  BY <1>1, <1>2, <1>3, <1>4, <1>5 DEF StepInv, DebtBounded
<1>7. alive' \subseteq alive /\ \A q \in Processes \ {p} : inbox'[q] = inbox[q] /\ outbox'[q] = outbox[q]
  BY DEF ProcessActs, ProcessPrints, ProcessDies, BridgeTypes, HelpersTyped
<1> QED BY <1>1, <1>2, <1>6, <1>7 DEF StepInv, SlotIsAll, RetriedIsNew

\* The steps outside the mutex touch neither the slot nor the queues.
LEMMA StepInvElsewhere ==
  ASSUME BridgeTypes, StepInv, UNCHANGED <<slotVars, processVars, tries>>, Waiting' = Waiting
  PROVE  StepInv'
<1>1. UNCHANGED <<mutex, held, abandoned, alive, inbox, outbox, tries>>
  BY DEF slotVars, processVars
<1>2. \A p \in Processes : Owed(p)' = Owed(p)
  BY <1>1, OwedNext
<1> QED BY <1>1, <1>2 DEF StepInv, SlotIsAll, DebtBounded, RetriedIsNew

LEMMA StepInvStep ==
  ASSUME BridgeTypes, BridgeTypes', StepInv, [BridgeNext]_bridgeVars
  PROVE  StepInv'
<1> USE BridgeAssumption
<1>1. ASSUME NEW c \in Callers, CallerStep(c) PROVE StepInv'
  <2>1. CASE Write(c) /\ held \in alive
    BY <2>1, StepInvOnWrite
  <2>2. CASE ~(Write(c) /\ held \in alive)
    BY <1>1, <2>2, StepInvOnEnter, StepInvOnAttempt, StepInvOnRead DEF CallerStep
  <2> QED BY <2>1, <2>2
<1>2. ASSUME NEW p \in Processes, ProcessActs(p) \/ ProcessPrints(p) \/ ProcessDies(p)
      PROVE  StepInv'
  BY <1>2, StepInvOnProcess
<1>3. CASE BridgeShutdown
  <2>1. SlotCleared(Old) /\ alive' \subseteq {held'}
    <3>1. alive \ Old = {}
      BY DEF StepInv, SlotIsAll, BridgeTypes, HelpersTyped, Old
    <3> QED BY <1>3, <3>1, FailingClears DEF BridgeShutdown, Old
  <2>2. held \in Processes => held \in Old
    BY DEF Old
  <2> QED BY <2>1, <2>2, ClearedSlotInStep DEF StepInv, Old
<1>4. ASSUME NEW c \in Callers, ReaderCalls(c) PROVE StepInv'
  <2>1. Waiting' = Waiting
    BY <1>4 DEF ReaderCalls, Call, Waiting, BridgeTypes, CallersTyped
  <2> QED BY <1>4, <2>1, StepInvElsewhere DEF ReaderCalls
<1>5. CASE PasteBegins \/ PasteSets \/ PasteRestores
  <2>1. Waiting' = Waiting
    BY <1>5 DEF PasteBegins, PasteSets, PasteRestores, Call, Waiting, BridgeTypes, CallersTyped
  <2> QED BY <1>5, <2>1, StepInvElsewhere DEF PasteBegins, PasteSets, PasteRestores
<1>6. CASE PastePresses \/ PasteEnds \/ PasteDropped \/ UNCHANGED bridgeVars
  <2>1. UNCHANGED <<slotVars, processVars, callerVars>>
    BY <1>6 DEF PastePresses, PasteEnds, PasteDropped, bridgeVars
  <2>2. Waiting' = Waiting
    BY <2>1 DEF callerVars, Waiting
  <2> QED BY <2>1, <2>2, StepInvElsewhere DEF callerVars
<1> QED BY <1>1, <1>2, <1>3, <1>4, <1>5, <1>6 DEF BridgeNext, PasteStep

\* The helper in the slot is the only one that runs, and between requests it owes
\* no answer, or the one that two deadlines in a row left behind, for any callers,
\* helper processes, deaths and deadlines.
THEOREM HelperStaysInStep == BridgeSpec => []HelperInStep
<1>1. BridgeInit => BridgeTypes /\ StepInv
  <2>1. BridgeInit => SlotIsAll /\ RetriedIsNew
    BY BridgeAssumption DEF BridgeInit, SlotIsAll, RetriedIsNew
  <2>2. BridgeInit => DebtBounded
    BY BridgeAssumption DEF BridgeInit, DebtBounded
  <2> QED BY <2>1, <2>2, BridgeTypesInit DEF StepInv
<1>2. BridgeTypes /\ StepInv /\ [BridgeNext]_bridgeVars => (BridgeTypes /\ StepInv)'
  BY BridgeTypesStep, StepInvStep
<1>3. BridgeTypes /\ StepInv => HelperInStep
  <2> SUFFICES ASSUME BridgeTypes, StepInv PROVE HelperInStep
    OBVIOUS
  <2>1. mutex = Nobody => ~Waiting
    BY BridgeAssumption DEF Waiting, BridgeTypes, CallersFit
  <2>2. \A p \in Processes : p = held => Owed(p) \in Nat
    BY OwedCounts
  <2> QED BY <2>1, <2>2 DEF StepInv, SlotIsAll, DebtBounded, HelperInStep, NoOrphanBridge, OneAnswerOwed
<1> QED BY <1>1, <1>2, <1>3, PTL DEF BridgeSpec

-----------------------------------------------------------------------------
(* Bridge: what the paste leaves behind. *)

Calm == "abandoned" \notin trouble

\* What the answer v to the request m says is so, or the pasteboard refused.
Tells(m, v) ==
  /\ m.op = "get" => v = clipboard
  /\ m.op = "set" => (v = "true" /\ clipboard = m.text) \/ (v = "false" /\ "refused" \in trouble)

Unspoken(p) == inbox[p] = <<>> /\ outbox[p] = <<>>

\* Nothing is on its way, or the one line of the caller that reads is: asked and
\* perhaps done, or answered.
Asking(p) ==
  /\ inbox[p] = <<command[mutex]>> /\ outbox[p] = <<>>
  /\ p \in acted => Tells(command[mutex], reply[p])

Answering(p) ==
  /\ inbox[p] = <<>>
  /\ \E v \in Values : /\ outbox[p] = <<[to |-> command[mutex], val |-> v]>>
                       /\ Tells(command[mutex], v)

Exchange(p) ==
  Unspoken(p) \/ (mutex \in Callers /\ stage[mutex] = "read" /\ (Asking(p) \/ Answering(p)))

Exchanges == Calm => abandoned = {} /\ \A p \in Processes : Exchange(p)

\* Only the paste asks for more than a report, and what it asks is where it is.
Asked ==
  /\ \A c \in Callers \ {Paster} : command[c].op = "read"
  /\ paste = "get" => command[Paster].op = "get"
  /\ paste = "set" => command[Paster] = Ask(Paster, "set", "typed")
  /\ paste = "restore" => command[Paster] = Ask(Paster, "set", saved)
  /\ paste \in {"sleep", "failed", "dropped", "done"} => stage[Paster] = "returned"

AnswerHolds ==
  Calm /\ stage[Paster] = "returned" /\ paste \in {"get", "set", "restore"} =>
    /\ answer[Paster].to = command[Paster]
    /\ (answer[Paster].val = "failed" /\ "attempt" \in trouble)
         \/ Tells(command[Paster], answer[Paster].val)

Kept ==
  /\ Calm /\ paste = "get" => clipboard = found
  /\ trouble = {} /\ paste \notin {"off", "get"} => saved = found

PasterInv == Asked /\ AnswerHolds /\ Kept /\ PasteTypesAndRestores

PasteInv == Exchanges /\ PasterInv

\* A step that leaves the paste alone, the clipboard and its answer too.
LEMMA PasterElsewhere ==
  ASSUME PasterInv, trouble \subseteq trouble', UNCHANGED <<clipboard, pasteVars>>,
         stage'[Paster] = stage[Paster], answer'[Paster] = answer[Paster],
         command'[Paster] = command[Paster], \A c \in Callers \ {Paster} : command'[c].op = "read"
  PROVE  PasterInv'
<1>1. UNCHANGED <<clipboard, paste, saved, found, pasted>> /\ (Calm' => Calm)
      /\ (trouble' = {} => trouble = {})
  BY DEF pasteVars, Calm
<1>2. Asked'
  BY <1>1 DEF PasterInv, Asked
<1>3. AnswerHolds'
  BY <1>1 DEF PasterInv, AnswerHolds, Tells
<1>4. Kept' /\ PasteTypesAndRestores'
  BY <1>1 DEF PasterInv, Kept, PasteTypesAndRestores, Calm
<1> QED BY <1>2, <1>3, <1>4 DEF PasterInv

\* A step inside one of the paste's requests, which does not return.
LEMMA PasterGoesOn ==
  ASSUME PasterInv, BridgeTypes, NEW c \in Callers, stage[c] \in {"queued", "write", "read"},
         stage' = [stage EXCEPT ![c] = "write"] \/ stage' = [stage EXCEPT ![c] = "read"],
         trouble \subseteq trouble', UNCHANGED <<clipboard, pasteVars, command, answer>>
  PROVE  PasterInv'
<1> USE BridgeAssumption
<1>1. CASE c # Paster
  <2>1. stage'[Paster] = stage[Paster]
    BY <1>1 DEF BridgeTypes, CallersTyped
  <2>2. answer'[Paster] = answer[Paster] /\ command'[Paster] = command[Paster]
        /\ \A d \in Callers \ {Paster} : command'[d].op = "read"
    BY DEF PasterInv, Asked
  <2> QED BY <2>1, <2>2, PasterElsewhere
<1>2. CASE c = Paster
  <2>1. stage[Paster] # "returned" /\ stage'[Paster] # "returned"
    BY <1>2 DEF BridgeTypes, CallersTyped
  <2>2. UNCHANGED <<clipboard, paste, saved, found, pasted, command>> /\ (Calm' => Calm)
        /\ (trouble' = {} => trouble = {})
    BY DEF pasteVars, Calm
  <2>3. paste \notin {"sleep", "failed", "dropped", "done"}
    BY <2>1 DEF PasterInv, Asked
  <2>4. Asked'
    BY <2>2, <2>3 DEF PasterInv, Asked
  <2>5. AnswerHolds'
    BY <2>1 DEF AnswerHolds
  <2>6. Kept' /\ PasteTypesAndRestores'
    BY <2>2 DEF PasterInv, Kept, PasteTypesAndRestores, Calm
  <2> QED BY <2>4, <2>5, <2>6 DEF PasterInv
<1> QED BY <1>1, <1>2

\* A request returns, to the paste with its own answer or with a failure.
LEMMA PasterReturns ==
  ASSUME PasterInv, BridgeTypes, NEW c \in Callers, stage[c] \in {"queued", "write", "read"},
         NEW a, Return(c, a), trouble \subseteq trouble',
         UNCHANGED <<clipboard, pasteVars, command>>,
         c = Paster /\ Calm' =>
            a.to = command[c] /\ ((a.val = "failed" /\ "attempt" \in trouble')
                                     \/ Tells(command[c], a.val))
  PROVE  PasterInv'
<1> USE BridgeAssumption
<1>1. stage' = [stage EXCEPT ![c] = "returned"] /\ answer' = [answer EXCEPT ![c] = a]
  BY DEF Return
<1>2. CASE c # Paster
  <2>1. stage'[Paster] = stage[Paster] /\ answer'[Paster] = answer[Paster]
    BY <1>1, <1>2 DEF BridgeTypes, CallersTyped
  <2>2. command'[Paster] = command[Paster] /\ \A d \in Callers \ {Paster} : command'[d].op = "read"
    BY DEF PasterInv, Asked
  <2> QED BY <2>1, <2>2, PasterElsewhere
<1>3. CASE c = Paster
  <2>1. stage[Paster] # "returned" /\ stage'[Paster] = "returned" /\ answer'[Paster] = a
    BY <1>1, <1>3 DEF BridgeTypes, CallersTyped
  <2>2. UNCHANGED <<clipboard, paste, saved, found, pasted, command>> /\ (Calm' => Calm)
        /\ (trouble' = {} => trouble = {})
    BY DEF pasteVars, Calm
  <2>3. Asked'
    BY <2>1, <2>2 DEF PasterInv, Asked
  <2>4. AnswerHolds'
    BY <1>3, <2>1, <2>2 DEF AnswerHolds, Tells
  <2>5. Kept' /\ PasteTypesAndRestores'
    BY <2>2 DEF PasterInv, Kept, PasteTypesAndRestores, Calm
  <2> QED BY <2>3, <2>4, <2>5 DEF PasterInv
<1> QED BY <1>2, <1>3

\* With nobody inside, or somebody who writes, nothing is on its way.
LEMMA NothingSaid ==
  ASSUME BridgeTypes, Exchanges, Calm, mutex = Nobody \/ stage[mutex] # "read"
  PROVE  abandoned = {} /\ \A p \in Processes : Unspoken(p)
BY BridgeAssumption DEF Exchanges, Exchange

LEMMA SilenceIsExchange ==
  ASSUME Calm' => abandoned' = {} /\ \A p \in Processes : inbox'[p] = <<>> /\ outbox'[p] = <<>>
  PROVE  Exchanges'
BY DEF Exchanges, Exchange, Unspoken

\* What the reaped process had said or been told is gone with it.
LEMMA ClearedIsSilent ==
  ASSUME BridgeTypes, StepInv, NEW old \in SUBSET Processes, held \in Processes => held \in old,
         SlotCleared(old)
  PROVE  Exchanges'
<1>1. \A p \in Processes : inbox'[p] = <<>> /\ outbox'[p] = <<>> /\ p \notin abandoned'
  BY DEF SlotCleared, StepInv, SlotIsAll
<1>2. abandoned' = {}
  BY <1>1 DEF SlotCleared
<1> QED BY <1>1, <1>2, SilenceIsExchange

\* Outside the mutex no line moves.
LEMMA ExchangesElsewhere ==
  ASSUME BridgeTypes, Exchanges, trouble \subseteq trouble', UNCHANGED <<slotVars, processVars, clipboard>>,
         \A c \in Callers : mutex = c => stage'[c] = stage[c] /\ command'[c] = command[c]
  PROVE  Exchanges'
<1>1. UNCHANGED <<mutex, abandoned, acted, inbox, reply, outbox, clipboard>> /\ (Calm' => Calm)
  BY DEF slotVars, processVars, Calm
<1>2. ASSUME Calm', NEW p \in Processes PROVE Exchange(p)'
  <2>1. CASE Unspoken(p)
    BY <1>1, <2>1 DEF Exchange, Unspoken
  <2>2. CASE ~Unspoken(p)
    <3>1. mutex \in Callers /\ stage[mutex] = "read" /\ (Asking(p) \/ Answering(p))
      BY <1>1, <1>2, <2>2 DEF Exchanges, Exchange
    <3>2. mutex' \in Callers /\ stage'[mutex'] = "read" /\ command'[mutex'] = command[mutex]
      BY <1>1, <3>1
    <3>3. \A m, v : Tells(m, v) => Tells(m, v)'
      BY <1>1 DEF Tells
    <3>4. Asking(p) => Asking(p)'
      BY <1>1, <3>2, <3>3 DEF Asking
    <3>5. Answering(p) => Answering(p)'
      BY <1>1, <3>2, <3>3 DEF Answering
    <3> QED BY <3>1, <3>2, <3>4, <3>5 DEF Exchange
  <2> QED BY <2>1, <2>2
<1> QED BY <1>1, <1>2 DEF Exchanges

\* The helper does what the one line asks, and reports what it did.
LEMMA PasteInvOnAct ==
  ASSUME BridgeTypes, StepInv, PasteInv, NEW p \in Processes, ProcessActs(p)
  PROVE  PasteInv'
<1> USE BridgeAssumption
<1>1. /\ p \in alive /\ p \notin acted /\ inbox[p] # <<>> /\ acted' = acted \cup {p}
      /\ UNCHANGED <<mutex, abandoned, inbox, outbox, stage, command, answer, paste, saved, found, pasted>>
      /\ UNCHANGED <<slotVars, callerVars, pasteVars>>
  BY DEF ProcessActs, slotVars, callerVars, pasteVars
<1>2. PICK o \in Outcomes(Head(inbox[p])) :
        /\ clipboard' = o.clip /\ reply' = [reply EXCEPT ![p] = o.val]
        /\ trouble' = IF o.val = "false" THEN trouble \cup {"refused"} ELSE trouble
  BY DEF ProcessActs
<1>3. (Calm' => Calm) /\ trouble \subseteq trouble' /\ (trouble' = {} => Calm')
  BY <1>2 DEF Calm
<1>4. CASE ~Calm
  <2>1. Exchanges'
    BY <1>3, <1>4 DEF Exchanges
  <2>2. Asked'
    BY <1>1 DEF PasteInv, PasterInv, Asked
  <2> QED BY <1>3, <1>4, <2>1, <2>2 DEF PasteInv, PasterInv, AnswerHolds, Kept, PasteTypesAndRestores, Calm
<1>5. CASE Calm
  <2>0. mutex \in Callers /\ stage[mutex] = "read" /\ inbox[p] = <<command[mutex]>>
        /\ outbox[p] = <<>> /\ abandoned = {} /\ command[mutex] \in Commands
    BY <1>1, <1>5 DEF PasteInv, Exchanges, Exchange, Unspoken, Asking, Answering, BridgeTypes,
       CallersTyped
  <2> PICK m \in Commands : m = command[mutex]
    BY <2>0
  <2>1. inbox[p] = <<m>> /\ m = command[mutex] /\ m = command'[mutex']
    BY <1>1, <2>0
  <2>2. o \in Outcomes(m) /\ reply'[p] = o.val
    BY <1>2, <2>1 DEF BridgeTypes, HelpersTyped
  <2>3. Tells(m, o.val)' /\ (m.op # "set" => clipboard' = clipboard /\ trouble' = trouble)
    BY <1>2, <2>2 DEF Tells, Outcomes, Commands, Contents, BridgeTypes, PasteTyped
  <2>4. m.op = "set" => stage[Paster] = "read" /\ command[Paster].op = "set"
    BY <2>0, <2>1 DEF PasteInv, PasterInv, Asked
  <2>5. Asking(p)'
    <3>1. inbox'[p] = <<command'[mutex']>> /\ outbox'[p] = <<>>
      BY <1>1, <2>0, <2>1
    <3>2. Tells(command[mutex], reply[p])'
      BY <2>1, <2>2, <2>3 DEF Tells
    <3> QED BY <3>1, <3>2 DEF Asking
  <2>6. \A q \in Processes : Exchange(q)'
    <3>1. p = held
      BY <1>1 DEF StepInv, SlotIsAll
    <3>2. \A q \in Processes \ {p} : Unspoken(q)
      BY <3>1 DEF StepInv, SlotIsAll, Unspoken
    <3>3. \A q \in Processes \ {p} : Exchange(q)'
      BY <1>1, <3>2 DEF Exchange, Unspoken
    <3>4. Exchange(p)'
      BY <1>1, <2>0, <2>5 DEF Exchange
    <3> QED BY <3>3, <3>4
  <2>7. Exchanges'
    BY <1>1, <2>0, <2>6 DEF Exchanges
  <2>8. CASE m.op = "set"
    <3>1. stage'[Paster] # "returned" /\ stage[Paster] # "returned" /\ paste # "get"
          /\ paste \notin {"sleep", "failed", "dropped", "done"}
      BY <1>1, <2>4, <2>8 DEF PasteInv, PasterInv, Asked
    <3>2. Asked'
      BY <1>1 DEF PasteInv, PasterInv, Asked
    <3>3. AnswerHolds'
      BY <3>1 DEF AnswerHolds
    <3>4. trouble' = {} => trouble = {}
      BY <1>3
    <3>5. Kept'
      BY <1>1, <3>1, <3>4 DEF PasteInv, PasterInv, Kept
    <3>6. PasteTypesAndRestores'
      BY <1>1, <1>3, <1>5, <3>1 DEF PasteInv, PasterInv, PasteTypesAndRestores, Calm
    <3> QED BY <2>7, <3>2, <3>3, <3>5, <3>6 DEF PasteInv, PasterInv
  <2>9. CASE m.op # "set"
    <3>1. clipboard' = clipboard /\ \A c \in Callers \ {Paster} : command'[c].op = "read"
      BY <1>1, <2>3, <2>9 DEF PasteInv, PasterInv, Asked
    <3>2. PasterInv'
      BY <1>1, <1>3, <3>1, PasterElsewhere DEF PasteInv
    <3> QED BY <2>7, <3>2 DEF PasteInv
  <2> QED BY <2>8, <2>9
<1> QED BY <1>4, <1>5

LEMMA PasteInvOnPrint ==
  ASSUME BridgeTypes, StepInv, PasteInv, NEW p \in Processes, ProcessPrints(p)
  PROVE  PasteInv'
<1> USE BridgeAssumption
<1>1. /\ p \in acted /\ inbox[p] # <<>> /\ acted' = acted \ {p}
      /\ outbox' = [outbox EXCEPT ![p] = Append(@, [to |-> Head(inbox[p]), val |-> reply[p]])]
      /\ inbox' = [inbox EXCEPT ![p] = Tail(@)]
      /\ UNCHANGED <<slotVars, callerVars, clipboard, pasteVars, trouble>>
      /\ UNCHANGED <<mutex, abandoned, stage, command, answer>>
  BY DEF ProcessPrints, slotVars, callerVars, BridgeTypes, ProcessesFit
<1>2. \A c \in Callers \ {Paster} : command'[c].op = "read"
  BY <1>1 DEF PasteInv, PasterInv, Asked
<1>3. PasterInv'
  BY <1>1, <1>2, PasterElsewhere DEF PasteInv
<1>4. ASSUME Calm' PROVE abandoned' = {} /\ \A q \in Processes : Exchange(q)'
  <2>0. /\ mutex \in Callers /\ stage[mutex] = "read" /\ inbox[p] = <<command[mutex]>>
        /\ outbox[p] = <<>> /\ Tells(command[mutex], reply[p]) /\ abandoned = {}
        /\ command[mutex] \in Commands /\ reply[p] \in Values
    BY <1>1, <1>4 DEF PasteInv, Calm, Exchanges, Exchange, Unspoken, Asking, Answering, BridgeTypes,
       HelpersTyped, CallersTyped
  <2> PICK m \in Commands, v \in Values : m = command[mutex] /\ v = reply[p]
    BY <2>0
  <2>1. m = command[mutex] /\ m = command'[mutex'] /\ v = reply[p] /\ inbox[p] = <<m>>
    BY <1>1, <2>0
  <2>3. inbox'[p] = Tail(inbox[p]) /\ outbox'[p] = Append(outbox[p], [to |-> Head(inbox[p]), val |-> reply[p]])
    BY <1>1 DEF BridgeTypes, HelpersTyped
  <2>4. Tail(<<m>>) = <<>> /\ Head(<<m>>) = m
    OBVIOUS
  <2>5. inbox'[p] = <<>> /\ outbox'[p] = <<[to |-> m, val |-> v]>>
    BY <2>0, <2>1, <2>3, <2>4
  <2>6. Tells(m, v)'
    BY <1>1, <2>0, <2>1 DEF Tells
  <2>7. Answering(p)'
    BY <2>1, <2>5, <2>6 DEF Answering, Tells
  <2>8. Exchange(p)'
    BY <1>1, <2>0, <2>7 DEF Exchange
  <2>9. p = held /\ \A q \in Processes \ {p} : Exchange(q)'
    <3>1. p = held
      BY <1>1 DEF StepInv, SlotIsAll, BridgeTypes, HelpersTyped
    <3>2. \A q \in Processes \ {p} : Unspoken(q)
      BY <3>1 DEF StepInv, SlotIsAll, Unspoken
    <3> QED BY <1>1, <3>1, <3>2 DEF Exchange, Unspoken, BridgeTypes, HelpersTyped
  <2> QED BY <1>1, <2>0, <2>8, <2>9
<1> QED BY <1>3, <1>4 DEF PasteInv, Exchanges

LEMMA PasteInvOnDeath ==
  ASSUME BridgeTypes, StepInv, PasteInv, NEW p \in Processes, ProcessDies(p)
  PROVE  PasteInv'
<1> USE BridgeAssumption
<1>1. /\ acted' = acted \ {p} /\ inbox' = [inbox EXCEPT ![p] = <<>>]
      /\ UNCHANGED <<slotVars, reply, outbox, callerVars, clipboard, pasteVars, trouble>>
      /\ UNCHANGED <<mutex, abandoned, stage, command, answer>>
  BY DEF ProcessDies, slotVars, callerVars
<1>2. \A c \in Callers \ {Paster} : command'[c].op = "read"
  BY <1>1 DEF PasteInv, PasterInv, Asked
<1>3. PasterInv'
  BY <1>1, <1>2, PasterElsewhere DEF PasteInv
<1>4. ASSUME Calm', NEW q \in Processes PROVE Exchange(q)'
  <2>1. Exchange(q) /\ inbox'[q] \in {inbox[q], <<>>} /\ outbox'[q] = outbox[q]
    BY <1>1, <1>4 DEF PasteInv, Exchanges, Calm, BridgeTypes, HelpersTyped
  <2>2. CASE Unspoken(q)
    BY <2>1, <2>2 DEF Exchange, Unspoken
  <2>3. CASE ~Unspoken(q) /\ Asking(q)
    <3>1. inbox'[q] = <<>> => Unspoken(q)'
      BY <2>1, <2>3 DEF Asking, Unspoken
    <3>2. inbox'[q] = inbox[q] => Asking(q)'
      BY <1>1, <2>1, <2>3 DEF Asking, Tells
    <3> QED BY <1>1, <2>1, <2>3, <3>1, <3>2 DEF Exchange
  <2>4. CASE ~Unspoken(q) /\ Answering(q)
    <3>1. Answering(q)'
      BY <1>1, <2>1, <2>4 DEF Answering, Tells
    <3> QED BY <1>1, <2>1, <2>4, <3>1 DEF Exchange
  <2> QED BY <2>1, <2>2, <2>3, <2>4 DEF Exchange
<1>5. Exchanges'
  BY <1>1, <1>4 DEF PasteInv, Exchanges, Calm
<1> QED BY <1>3, <1>5 DEF PasteInv

LEMMA PasteInvOnEnter ==
  ASSUME BridgeTypes, StepInv, PasteInv, NEW c \in Callers, Enter(c)
  PROVE  PasteInv'
<1> USE BridgeAssumption
<1>1. mutex = Nobody /\ stage[c] = "queued" /\ UNCHANGED <<command, clipboard, pasteVars>>
  BY DEF Enter
<1>2. Calm => abandoned = {} /\ \A p \in Processes : Unspoken(p)
  BY <1>1, NothingSaid DEF PasteInv
<1>3. CASE Attempt(c) /\ UNCHANGED <<held, abandoned, inbox, outbox, answer, trouble>>
  <2>1. Exchanges'
    BY <1>2, <1>3, SilenceIsExchange DEF Calm, Unspoken
  <2>2. PasterInv'
    BY <1>1, <1>3, PasterGoesOn DEF Attempt, PasteInv
  <2> QED BY <2>1, <2>2 DEF PasteInv
<1>4. CASE Attempt(c) /\ Spawns(NothingKilled) /\ held = NoProcess /\ UNCHANGED <<answer, trouble>>
  <2>1. SlotCleared(NothingKilled)
    BY <1>4, SpawningClears DEF NothingKilled
  <2>2. Exchanges'
    BY <1>4, <2>1, ClearedIsSilent DEF NothingKilled
  <2>3. PasterInv'
    BY <1>1, <1>4, PasterGoesOn DEF Attempt, PasteInv
  <2> QED BY <2>2, <2>3 DEF PasteInv
<1>5. CASE Fail(c) /\ trouble' = Blamed(c) /\ UNCHANGED <<abandoned, inbox, outbox>>
  <2>1. trouble \subseteq trouble' /\ (c = Paster => "attempt" \in trouble') /\ (Calm' => Calm)
    BY <1>5 DEF Blamed, Calm
  <2>2. Exchanges'
    BY <1>2, <1>5, <2>1, SilenceIsExchange DEF Unspoken
  <2>3. PasterInv'
    BY <1>1, <1>5, <2>1, PasterReturns DEF Fail, PasteInv
  <2> QED BY <2>2, <2>3 DEF PasteInv
<1> QED BY <1>3, <1>4, <1>5 DEF Enter

LEMMA PasteInvOnFirstFailure ==
  ASSUME BridgeTypes, StepInv, PasteInv, NEW c \in Callers, FirstAttemptFails(c),
         stage[c] \in {"write", "read"}, UNCHANGED <<command, clipboard, pasteVars>>
  PROVE  PasteInv'
<1>1. Reaped \in SUBSET Processes /\ (held \in Processes => held \in Reaped)
  BY DEF Reaped, Old
<1>2. trouble' = Blamed(c) /\ trouble \subseteq trouble' /\ (c = Paster => "attempt" \in trouble')
  BY DEF FirstAttemptFails, Blamed
<1>3. CASE Spawns(Reaped) /\ Attempt(c) /\ UNCHANGED <<mutex, answer>>
  <2>1. Exchanges'
    BY <1>1, <1>3, SpawningClears, ClearedIsSilent
  <2>2. PasterInv'
    BY <1>2, <1>3, PasterGoesOn DEF Attempt, PasteInv
  <2> QED BY <2>1, <2>2 DEF PasteInv
<1>4. CASE SpawnFails(Reaped) /\ Fail(c)
  <2>1. Exchanges'
    BY <1>1, <1>4, FailingClears, ClearedIsSilent DEF SpawnFails
  <2>2. PasterInv'
    BY <1>2, <1>4, PasterReturns DEF Fail, PasteInv
  <2> QED BY <2>1, <2>2 DEF PasteInv
<1> QED BY <1>3, <1>4 DEF FirstAttemptFails

\* The last failure leaves nothing on its way, unless it leaves a process that
\* has not answered, and then the answers are confused.
LEMMA PasteInvOnLastFailure ==
  ASSUME BridgeTypes, StepInv, PasteInv, NEW c \in Callers, LastAttemptFails(c),
         UNCHANGED <<command, clipboard, pasteVars>>,
         \/ /\ outbox' = outbox /\ stage[c] = "write" /\ held \notin alive
         \/ /\ outbox' = outbox /\ stage[c] = "read" /\ (outbox[held] = <<>> \/ held \in abandoned)
         \/ /\ outbox' = [outbox EXCEPT ![held] = Tail(@)] /\ outbox[held] # <<>>
            /\ stage[c] = "read"
  PROVE  PasteInv'
<1> USE BridgeAssumption
<1>1. /\ mutex = c /\ held \in Processes /\ inbox' = inbox
      /\ abandoned' = IF Unanswered THEN abandoned \cup {held} ELSE abandoned
      /\ trouble' = IF Unanswered THEN Blamed(c) \cup {"abandoned"} ELSE Blamed(c)
  BY DEF LastAttemptFails, BridgeTypes, CallersFit
<1>2. trouble \subseteq trouble' /\ (c = Paster => "attempt" \in trouble')
  BY <1>1 DEF Blamed
<1>3. PasterInv'
  BY <1>2, PasterReturns DEF LastAttemptFails, Fail, PasteInv
<1>4. ASSUME Calm'
      PROVE  abandoned' = {} /\ \A p \in Processes : inbox'[p] = <<>> /\ outbox'[p] = <<>>
  <2>1. Calm /\ ~Unanswered
    BY <1>1, <1>2, <1>4 DEF Calm
  <2>2. abandoned = {} /\ abandoned' = {} /\ Exchange(held)
    BY <1>1, <2>1 DEF PasteInv, Exchanges
  <2>3. inbox[held] = <<>>
    BY <1>1, <2>1 DEF Unanswered, BridgeTypes, ProcessesFit
  <2>4. outbox'[held] = <<>>
    <3>1. CASE stage[c] = "write"
      BY <1>1, <2>2, <3>1 DEF Exchange, Unspoken
    <3>2. CASE outbox' = outbox /\ (outbox[held] = <<>> \/ held \in abandoned)
      BY <2>2, <3>2
    <3>3. CASE outbox' = [outbox EXCEPT ![held] = Tail(@)] /\ outbox[held] # <<>>
      <4>1. Answering(held)
        BY <2>2, <3>3 DEF Exchange, Unspoken, Asking
      <4>2. PICK a : outbox[held] = <<a>>
        BY <4>1 DEF Answering
      <4>3. outbox'[held] = Tail(outbox[held])
        BY <1>1, <3>3 DEF BridgeTypes, HelpersTyped
      <4>4. Tail(<<a>>) = <<>>
        OBVIOUS
      <4> QED BY <4>2, <4>3, <4>4
    <3> QED BY <3>1, <3>2, <3>3
  <2>5. ASSUME NEW p \in Processes, p # held PROVE inbox'[p] = <<>> /\ outbox'[p] = <<>>
    BY <1>1, <2>5 DEF StepInv, SlotIsAll, BridgeTypes, HelpersTyped
  <2> QED BY <1>1, <2>2, <2>3, <2>4, <2>5
<1> QED BY <1>3, <1>4, SilenceIsExchange DEF PasteInv

LEMMA PasteInvOnAttempt ==
  ASSUME BridgeTypes, StepInv, PasteInv, NEW c \in Callers,
         \/ Write(c) /\ ~(held \in alive)
         \/ ReadError(c) \/ GiveUpReading(c)
  PROVE  PasteInv'
<1>1. stage[c] \in {"write", "read"} /\ UNCHANGED <<command, clipboard, pasteVars>>
  BY DEF Write, ReadError, GiveUpReading, NothingRead, AttemptFails
<1>2. CASE FirstAttemptFails(c)
  BY <1>1, <1>2, PasteInvOnFirstFailure
<1>3. CASE ~FirstAttemptFails(c)
  <2>1. /\ LastAttemptFails(c)
        /\ \/ /\ outbox' = outbox /\ stage[c] = "write" /\ held \notin alive
           \/ /\ outbox' = outbox /\ stage[c] = "read" /\ (outbox[held] = <<>> \/ held \in abandoned)
           \/ /\ outbox' = [outbox EXCEPT ![held] = Tail(@)] /\ outbox[held] # <<>>
              /\ stage[c] = "read"
    BY <1>3 DEF Write, ReadError, GiveUpReading, NothingRead, AttemptFails
  <2> QED BY <1>1, <2>1, PasteInvOnLastFailure
<1> QED BY <1>2, <1>3

LEMMA PasteInvOnWrite ==
  ASSUME BridgeTypes, StepInv, PasteInv, NEW c \in Callers, Write(c), held \in alive
  PROVE  PasteInv'
<1> USE BridgeAssumption
<1>1. /\ stage[c] = "write" /\ stage' = [stage EXCEPT ![c] = "read"]
      /\ inbox' = [inbox EXCEPT ![held] = Append(@, command[c])]
      /\ UNCHANGED <<mutex, abandoned, acted, outbox, command, answer, clipboard, trouble>>
      /\ UNCHANGED <<clipboard, pasteVars, command, answer>>
  BY DEF Write, slotVars
<1>2. mutex = c /\ held \in Processes
  BY <1>1 DEF BridgeTypes, CallersFit
<1>3. PasterInv'
  BY <1>1, PasterGoesOn DEF PasteInv
<1>4. ASSUME Calm' PROVE abandoned' = {} /\ \A p \in Processes : Exchange(p)'
  <2>1. abandoned = {} /\ \A p \in Processes : Unspoken(p)
    BY <1>1, <1>2, <1>4, NothingSaid DEF PasteInv, Calm
  <2>2. Append(<<>>, command[c]) = <<command[c]>>
    OBVIOUS
  <2>3. inbox'[held] = <<command[c]>> /\ outbox'[held] = <<>> /\ held \notin acted'
    BY <1>1, <1>2, <2>1, <2>2 DEF Unspoken, BridgeTypes, HelpersTyped, ProcessesFit
  <2>4. Asking(held)'
    <3>1. command'[mutex'] = command[c] /\ held' = held
      BY <1>1, <1>2 DEF Write, slotVars
    <3>2. inbox'[held'] = <<command'[mutex']>> /\ outbox'[held'] = <<>> /\ held' \notin acted'
      BY <2>3, <3>1
    <3> QED BY <3>2 DEF Asking
  <2>5. Exchange(held)'
    BY <1>1, <1>2, <2>4 DEF Exchange, BridgeTypes, CallersTyped
  <2>6. \A p \in Processes : p # held => Unspoken(p)'
    BY <1>1, <2>1 DEF Unspoken, BridgeTypes, HelpersTyped
  <2>7. held' = held
    BY DEF Write, slotVars
  <2> QED BY <1>1, <2>1, <2>5, <2>6, <2>7 DEF Exchange
<1> QED BY <1>3, <1>4 DEF PasteInv, Exchanges

LEMMA PasteInvOnRead ==
  ASSUME BridgeTypes, StepInv, PasteInv, NEW c \in Callers, Read(c)
  PROVE  PasteInv'
<1> USE BridgeAssumption
<1>1. /\ stage[c] = "read" /\ outbox[held] # <<>> /\ Head(outbox[held]).val # "error"
      /\ Return(c, Head(outbox[held])) /\ outbox' = [outbox EXCEPT ![held] = Tail(@)]
      /\ UNCHANGED <<abandoned, inbox, command, clipboard, pasteVars, trouble>>
  BY DEF Read
<1>2. mutex = c /\ held \in Processes
  BY <1>1 DEF BridgeTypes, CallersFit
<1>3. ASSUME Calm
      PROVE  /\ abandoned = {}
             /\ \E v \in Values : outbox[held] = <<[to |-> command[c], val |-> v]>> /\ Tells(command[c], v)
             /\ \A p \in Processes : inbox[p] = <<>> /\ (p # held => outbox[p] = <<>>)
  <2>1. abandoned = {} /\ Exchange(held) /\ \A p \in Processes : p # held => Unspoken(p)
    BY <1>2, <1>3 DEF PasteInv, Exchanges, StepInv, SlotIsAll, Unspoken
  <2>2. Answering(held)
    BY <1>1, <2>1 DEF Exchange, Unspoken, Asking
  <2> QED BY <1>2, <2>1, <2>2 DEF Answering, Unspoken
<1>4. ASSUME Calm
      PROVE  Head(outbox[held]).to = command[c] /\ Tells(command[c], Head(outbox[held]).val)
  <2>1. PICK v \in Values : outbox[held] = <<[to |-> command[c], val |-> v]>> /\ Tells(command[c], v)
    BY <1>3, <1>4
  <2>2. Head(outbox[held]) = [to |-> command[c], val |-> v]
    BY <2>1
  <2> QED BY <2>1, <2>2
<1>5. PasterInv'
  BY <1>1, <1>4, PasterReturns DEF PasteInv, Calm
<1>6. ASSUME Calm' PROVE \A p \in Processes : inbox'[p] = <<>> /\ outbox'[p] = <<>>
  <2>1. PICK a : outbox[held] = <<a>>
    BY <1>1, <1>3, <1>6 DEF Calm
  <2>2. Tail(<<a>>) = <<>>
    OBVIOUS
  <2> QED BY <1>1, <1>2, <1>3, <1>6, <2>1, <2>2 DEF Calm, BridgeTypes, HelpersTyped
<1>7. Exchanges'
  BY <1>1, <1>3, <1>6, SilenceIsExchange DEF Calm
<1> QED BY <1>5, <1>7 DEF PasteInv

\* A caller asks again: it was outside the mutex.
LEMMA CallElsewhere ==
  ASSUME BridgeTypes, Exchanges, NEW c \in Callers, NEW op, NEW t, Call(c, op, t),
         UNCHANGED <<slotVars, processVars, clipboard, trouble>>
  PROVE  Exchanges'
<1>1. stage[c] \in {"idle", "returned"} /\ mutex # c
  BY DEF Call, BridgeTypes, CallersFit
<1>2. \A d \in Callers : mutex = d => stage'[d] = stage[d] /\ command'[d] = command[d]
  BY <1>1 DEF Call, BridgeTypes, CallersTyped
<1> QED BY <1>2, ExchangesElsewhere

LEMMA PasteInvOnReaderCall ==
  ASSUME BridgeTypes, PasteInv, NEW c \in Callers, ReaderCalls(c)
  PROVE  PasteInv'
<1> USE BridgeAssumption
<1>1. Exchanges'
  BY CallElsewhere DEF ReaderCalls, PasteInv
<1>2. /\ stage' = [stage EXCEPT ![c] = "queued"] /\ c # Paster
      /\ command' = [command EXCEPT ![c] = Ask(c, "read", "empty")]
      /\ answer' = [answer EXCEPT ![c] = [to |-> command'[c], val |-> "pending"]]
      /\ UNCHANGED <<clipboard, pasteVars, trouble>>
  BY DEF ReaderCalls, Call
<1>3. \A d \in Callers \ {Paster} : command'[d].op = "read"
  BY <1>2 DEF PasteInv, PasterInv, Asked, Ask, BridgeTypes, CallersTyped
<1>4. stage'[Paster] = stage[Paster] /\ answer'[Paster] = answer[Paster]
      /\ command'[Paster] = command[Paster]
  BY <1>2 DEF BridgeTypes, CallersTyped
<1> QED BY <1>1, <1>2, <1>3, <1>4, PasterElsewhere DEF PasteInv

\* The paste asks: nothing is answered yet, and the others ask what they asked.
LEMMA PasterCalls ==
  ASSUME BridgeTypes, PasteInv, NEW op, NEW t, Call(Paster, op, t)
  PROVE  /\ stage'[Paster] = "queued" /\ command'[Paster] = Ask(Paster, op, t)
         /\ \A d \in Callers \ {Paster} : command'[d].op = "read"
BY BridgeAssumption DEF Call, PasteInv, PasterInv, Asked, BridgeTypes, CallersTyped

LEMMA PasteInvOnPasterCall ==
  ASSUME BridgeTypes, PasteInv, PasteBegins \/ PasteSets \/ PasteRestores
  PROVE  PasteInv'
<1> USE BridgeAssumption
<1>1. CASE PasteBegins
  <2>1. Exchanges'
    BY <1>1, CallElsewhere DEF PasteBegins, PasteInv
  <2>2. stage'[Paster] = "queued" /\ command'[Paster] = Ask(Paster, "get", "empty")
        /\ \A d \in Callers \ {Paster} : command'[d].op = "read"
    BY <1>1, PasterCalls DEF PasteBegins
  <2>3. paste' = "get" /\ found' = clipboard /\ clipboard' = clipboard
    BY <1>1 DEF PasteBegins
  <2>4. Asked' /\ AnswerHolds'
    BY <2>2, <2>3 DEF Asked, AnswerHolds, Ask
  <2>5. Kept' /\ PasteTypesAndRestores'
    BY <2>3 DEF Kept, PasteTypesAndRestores
  <2> QED BY <2>1, <2>4, <2>5 DEF PasteInv, PasterInv
<1>2. CASE PasteSets
  <2>1. Exchanges'
    BY <1>2, CallElsewhere DEF PasteSets, PasteInv
  <2>2. stage'[Paster] = "queued" /\ command'[Paster] = Ask(Paster, "set", "typed")
        /\ \A d \in Callers \ {Paster} : command'[d].op = "read"
    BY <1>2, PasterCalls DEF PasteSets
  <2>3. paste' = "set" /\ paste = "get" /\ stage[Paster] = "returned" /\ saved' = Before
        /\ UNCHANGED <<clipboard, found, trouble>>
    BY <1>2 DEF PasteSets
  <2>4. Asked' /\ AnswerHolds'
    BY <2>2, <2>3 DEF Asked, AnswerHolds
  <2>5. ASSUME trouble = {} PROVE saved' = found
    <3>1. Calm /\ clipboard = found /\ command[Paster].op = "get"
      BY <2>3, <2>5 DEF Calm, PasteInv, PasterInv, Kept, Asked
    <3>2. answer[Paster].to = command[Paster] /\ answer[Paster].val = clipboard
      BY <2>3, <2>5, <3>1 DEF PasteInv, PasterInv, AnswerHolds, Tells
    <3>3. clipboard # "failed"
      BY DEF BridgeTypes, PasteTyped, Contents
    <3> QED BY <2>3, <3>1, <3>2, <3>3 DEF Before, Got
  <2>6. Kept' /\ PasteTypesAndRestores'
    BY <2>3, <2>5 DEF Kept, PasteTypesAndRestores
  <2> QED BY <2>1, <2>4, <2>6 DEF PasteInv, PasterInv
<1>3. CASE PasteRestores
  <2>1. Exchanges'
    BY <1>3, CallElsewhere DEF PasteRestores, PasteInv
  <2>2. stage'[Paster] = "queued" /\ command'[Paster] = Ask(Paster, "set", saved)
        /\ \A d \in Callers \ {Paster} : command'[d].op = "read"
    BY <1>3, PasterCalls DEF PasteRestores
  <2>3. paste' = "restore" /\ paste = "sleep"
        /\ UNCHANGED <<clipboard, saved, found, pasted, trouble>>
    BY <1>3 DEF PasteRestores
  <2>4. Asked' /\ AnswerHolds'
    BY <2>2, <2>3 DEF Asked, AnswerHolds
  <2>5. Kept' /\ PasteTypesAndRestores'
    BY <2>3 DEF PasteInv, PasterInv, Kept, PasteTypesAndRestores
  <2> QED BY <2>1, <2>4, <2>5 DEF PasteInv, PasterInv
<1> QED BY <1>1, <1>2, <1>3

\* Cmd-V is posted when the set was answered "true", and the paste ends when what
\* it restored was.
LEMMA PasteInvOnPress ==
  ASSUME BridgeTypes, PasteInv, PastePresses \/ PasteEnds \/ PasteDropped
  PROVE  PasteInv'
<1>1. UNCHANGED <<slotVars, processVars, callerVars, clipboard, trouble, saved, found>>
  BY DEF PastePresses, PasteEnds, PasteDropped
<1>2. Exchanges'
  BY <1>1, ExchangesElsewhere DEF PasteInv, callerVars
<1>3. UNCHANGED <<stage, command, answer>> /\ (Calm' <=> Calm)
  BY <1>1 DEF callerVars, Calm
<1>4. CASE PastePresses
  <2>1. paste = "set" /\ stage[Paster] = "returned"
        /\ \/ Accepted /\ paste' = "sleep" /\ pasted' = clipboard
           \/ paste' = "failed" /\ pasted' = pasted
    BY <1>4 DEF PastePresses
  <2>2. Asked' /\ AnswerHolds'
    BY <1>3, <2>1 DEF PasteInv, PasterInv, Asked, AnswerHolds
  <2>3. ASSUME Calm, Accepted PROVE clipboard = "typed"
    BY <2>1, <2>3 DEF PasteInv, PasterInv, Asked, AnswerHolds, Tells, Accepted, Got, Ask
  <2>4. Kept' /\ PasteTypesAndRestores'
    BY <1>1, <1>3, <2>1, <2>3 DEF PasteInv, PasterInv, Kept, PasteTypesAndRestores, Calm
  <2> QED BY <1>2, <2>2, <2>4 DEF PasteInv, PasterInv
<1>5. CASE PasteEnds
  <2>1. /\ paste' = "done" /\ pasted' = pasted
        /\ (paste = "sleep" /\ saved = "empty") \/ (paste = "restore" /\ stage[Paster] = "returned")
    BY <1>5 DEF PasteEnds
  <2>2. Asked' /\ AnswerHolds'
    BY <1>3, <2>1 DEF PasteInv, PasterInv, Asked, AnswerHolds
  <2>3. ASSUME trouble = {}, found = "user" PROVE clipboard = "user"
    <3>1. saved = found /\ Calm
      BY <2>1, <2>3 DEF PasteInv, PasterInv, Kept, Calm
    <3>2. paste = "restore" /\ stage[Paster] = "returned"
      BY <2>1, <2>3, <3>1
    <3> QED BY <2>3, <3>1, <3>2 DEF PasteInv, PasterInv, Asked, AnswerHolds, Tells, Ask
  <2>4. Kept' /\ PasteTypesAndRestores'
    BY <1>1, <1>3, <2>1, <2>3 DEF PasteInv, PasterInv, Kept, PasteTypesAndRestores, Calm
  <2> QED BY <1>2, <2>2, <2>4 DEF PasteInv, PasterInv
<1>6. CASE PasteDropped
  <2>1. paste = "sleep" /\ paste' = "dropped" /\ pasted' = pasted
    BY <1>6 DEF PasteDropped
  <2>2. Asked' /\ AnswerHolds'
    BY <1>3, <2>1 DEF PasteInv, PasterInv, Asked, AnswerHolds
  <2>3. Kept' /\ PasteTypesAndRestores'
    BY <1>1, <1>3, <2>1 DEF PasteInv, PasterInv, Kept, PasteTypesAndRestores, Calm
  <2> QED BY <1>2, <2>2, <2>3 DEF PasteInv, PasterInv
<1> QED BY <1>4, <1>5, <1>6

LEMMA PasteInvStep ==
  ASSUME BridgeTypes, StepInv, PasteInv, [BridgeNext]_bridgeVars
  PROVE  PasteInv'
<1>1. ASSUME NEW c \in Callers, CallerStep(c) PROVE PasteInv'
  <2>1. CASE Write(c) /\ held \in alive
    BY <2>1, PasteInvOnWrite
  <2>2. CASE ~(Write(c) /\ held \in alive)
    BY <1>1, <2>2, PasteInvOnEnter, PasteInvOnAttempt, PasteInvOnRead DEF CallerStep
  <2> QED BY <2>1, <2>2
<1>2. CASE BridgeShutdown
  <2>1. SlotCleared(Old) /\ (held \in Processes => held \in Old)
    BY <1>2, FailingClears DEF BridgeShutdown, Old
  <2>2. Exchanges'
    BY <2>1, ClearedIsSilent DEF Old
  <2>3. UNCHANGED <<stage, command, answer, clipboard, pasteVars, trouble>>
    BY <1>2 DEF BridgeShutdown, callerVars
  <2>4. PasterInv'
    BY <2>3, PasterElsewhere DEF PasteInv, PasterInv, Asked
  <2> QED BY <2>2, <2>4 DEF PasteInv
<1>3. CASE UNCHANGED bridgeVars
  <2>1. UNCHANGED <<slotVars, processVars, stage, command, answer, clipboard, pasteVars, trouble>>
    BY <1>3 DEF bridgeVars, callerVars
  <2>2. Exchanges'
    BY <2>1, ExchangesElsewhere DEF PasteInv
  <2>3. PasterInv'
    BY <2>1, PasterElsewhere DEF PasteInv, PasterInv, Asked
  <2> QED BY <2>2, <2>3 DEF PasteInv
<1> QED BY <1>1, <1>2, <1>3, PasteInvOnAct, PasteInvOnPrint, PasteInvOnDeath, PasteInvOnReaderCall,
        PasteInvOnPasterCall, PasteInvOnPress DEF BridgeNext, PasteStep

\* Cmd-V is posted with the text on the clipboard, whatever fails and is tried
\* again, unless an unanswered process has confused the answers; and a paste
\* without trouble of its own leaves the clipboard as it found it.
THEOREM PasteKeepsClipboard == BridgeSpec => []PasteTypesAndRestores
<1>1. BridgeInit => BridgeTypes /\ StepInv /\ PasteInv
  <2>1. BridgeInit => SlotIsAll /\ RetriedIsNew
    BY BridgeAssumption DEF BridgeInit, SlotIsAll, RetriedIsNew
  <2>2. BridgeInit => DebtBounded
    BY BridgeAssumption DEF BridgeInit, DebtBounded
  <2>3. BridgeInit => Exchanges
    BY DEF BridgeInit, Exchanges, Exchange, Unspoken
  <2>4. BridgeInit => PasterInv
    BY BridgeAssumption DEF BridgeInit, PasterInv, Asked, AnswerHolds, Kept, PasteTypesAndRestores, Ask
  <2> QED BY <2>1, <2>2, <2>3, <2>4, BridgeTypesInit DEF StepInv, PasteInv
<1>2. BridgeTypes /\ StepInv /\ PasteInv /\ [BridgeNext]_bridgeVars => (BridgeTypes /\ StepInv /\ PasteInv)'
  BY BridgeTypesStep, StepInvStep, PasteInvStep
<1>3. PasteInv => PasteTypesAndRestores
  BY DEF PasteInv, PasterInv
<1> QED BY <1>1, <1>2, <1>3, PTL DEF BridgeSpec

-----------------------------------------------------------------------------
(* The three parts together. *)

\* The run of the three parts is a run of each of them, fairness included: what
\* is proved of a part holds of the run.
LEMMA ProcessesRunTheirParts == ProcessesSpec => TapSpec /\ DaemonSpec /\ BridgeSpec
<1>1. ProcessesInit => TapInit /\ DaemonInit /\ BridgeInit
  BY DEF ProcessesInit
<1>2. [ProcessesNext]_processesVars =>
        /\ [TapNext]_tapVars /\ [DaemonNext]_daemonVars /\ [BridgeNext]_bridgeVars
  BY DEF ProcessesNext, processesVars
<1> QED BY <1>1, <1>2, PTL DEF ProcessesSpec, TapSpec, DaemonSpec, BridgeSpec

\* Every variable of the bridge, of the Event Tap and of the daemons has its type
\* when the three run side by side.
THEOREM ProcessesAreTyped == ProcessesSpec => []ProcessesTypeOK
<1>1. TapTypeOK /\ DaemonTypeOK /\ BridgeTypeOK => ProcessesTypeOK
  BY DEF ProcessesTypeOK
<1> QED BY <1>1, ProcessesRunTheirParts, TapTypes, DaemonTypes, BridgeIsTyped, PTL

=============================================================================
