----------------------------- MODULE CuCommands -----------------------------
(***************************************************************************)
(* The commands of cu that use a session, as clients of the daemon of      *)
(* Authority.  Each is a process of its own that holds nothing in memory:  *)
(* it finds the session with session.summary, starts one when there is     *)
(* none, authenticates with the credential file of the session, and stops  *)
(* what it started on its way out.  Several of them, the hosts and the     *)
(* daemon's own restarts come in between any two requests; files are read  *)
(* when a request is sent and deleted when an answer has come.             *)
(*                                                                         *)
(* Signals to a command are in HostSessions; the daemon's commands are in  *)
(* DaemonProcess.                                                          *)
(***************************************************************************)
EXTENDS Authority

CONSTANTS Shells,       \* processes that run cu
          Quiet         \* no process

CONSTANT MaxCommands    \* bound: commands run

ASSUME CuAssumption == Quiet \notin Shells /\ MaxCommands \in Nat

VARIABLES
  files,     \* sessions with a file in the credentials directory
  written,   \* history: sessions whose file has been written
  command,   \* what each process does; due is history: the file of its session
             \* had been written when it asked
  begun,     \* commands begun
  lone       \* history: the one-shot command that found no session, and that
             \* nothing has come in between since, or Quiet

shellVars == <<files, written, command, begun, lone>>
cuVars == <<daemonVars, clientVars, shellVars>>

\* "actions" stands for cu click, double-click, move, type, key, scroll, drag
\* and wait, each a batch of one; "desktop" for cu pointer and active-app;
\* "change" for pause, resume, takeover and release; and "trace" for get,
\* export, replay and analyze.
Acting   == {"actions"}
OneShots == {"observe", "inspect", "desktop"} \cup Acting
Verbs    == {"stop", "change", "status"}
Traces   == {"trace"}
CuKinds  == OneShots \cup Verbs \cup Traces \cup {"start"}

NoCommand == [does |-> "nothing", at |-> "over", on |-> NoneHeld, auto |-> FALSE,
              call |-> NoCall, listed |-> {}, gone |-> NoneHeld,
              due |-> FALSE]

\* Earlier commands may have left files: of sessions their owners stopped.
CuInit ==
  /\ NobodyLinked
  /\ files \in SUBSET Ids /\ written = files /\ inManifest = files
  /\ phase = [s \in Ids |-> IF s \in files THEN "stopped" ELSE "unborn"]
  /\ begun = 0 /\ lone = Quiet
  /\ command = [p \in Shells |-> NoCommand]

Live == {s \in Ids : phase[s] = "live"}

At(p, next) == command[p].at = next /\ command[p].call = NoCall
To(p, next) == command' = [command EXCEPT ![p].at = next]
Undisturbed(p) == lone' = IF lone = p THEN p ELSE Quiet
Reads == UNCHANGED <<daemonVars, clientVars, files, written, begun>>

-----------------------------------------------------------------------------
(* Finding the session. *)

\* A command with --session-id needs no summary; inspect and the actions take
\* a new frame first, unless one is named.
FirstStages(kind) == IF kind \in {"inspect"} \cup Acting THEN {"frame", "ask"} ELSE {"ask"}

CuBegins(p, kind, s) ==
  /\ At(p, "over") /\ begun < MaxCommands /\ begun' = begun + 1
  /\ (kind \in Traces => s # NoneHeld) /\ (kind \in {"desktop", "start"} => s = NoneHeld)
  /\ \E next \in IF kind = "start" THEN {"starting"}
                  ELSE IF kind = "status" THEN {"listing"}
                  ELSE IF s # NoneHeld THEN FirstStages(kind)
                  ELSE IF kind \in OneShots THEN {"resolve"} ELSE {"lookup"} :
       command' = [command EXCEPT ![p] =
                     [NoCommand EXCEPT !.does = kind, !.at = next, !.on = s]]
  /\ lone' = IF kind \in OneShots /\ s = NoneHeld /\ Live = {} /\ ~draining
                /\ \A o \in Shells : At(o, "over") THEN p ELSE Quiet
  /\ UNCHANGED <<daemonVars, clientVars, files, written>>

\* runtime.pointer and active_application go on with any file there is.
Unresolved(p) == To(p, IF command[p].does = "desktop" THEN "any" ELSE "leaving")

\* resolve_session and active_session_id: the session that holds the lock.
SessionFound(p) ==
  /\ At(p, "resolve") \/ At(p, "lookup")
  /\ \/ /\ ~draining /\ Live # {}
        /\ \E s \in Live, next \in FirstStages(command[p].does) :
             command' = [command EXCEPT ![p].on = s, ![p].at = next]
     \/ ~draining /\ Live = {} /\ To(p, IF At(p, "resolve") THEN "starting" ELSE "leaving")
     \/ draining /\ Unresolved(p)
  /\ Undisturbed(p) /\ Reads

CuStartRefused(p) ==
  /\ At(p, "starting") /\ Verdict(Bare("start", NoneHeld, NoToken, NoToken)) # "ok"
  /\ Unresolved(p) /\ Undisturbed(p) /\ Reads

\* A start whose access manifest could be written; what else may happen to it is
\* in TraceStore.
Opened(s) ==
  /\ Verdict(Bare("start", NoneHeld, NoToken, NoToken)) = "ok"
  /\ phase[s] = "unborn" /\ phase' = [phase EXCEPT ![s] = "live"]
  /\ inManifest' = inManifest \cup {s}
  /\ UNCHANGED <<version, draining, upgrades, clientVars, files, written, begun>>

\* The tokens are in this answer and nowhere else.
CuStarted(p, s) ==
  /\ At(p, "starting") /\ Opened(s)
  /\ command' = [command EXCEPT ![p].on = s, ![p].at = "saving",
                                ![p].auto = command[p].does # "start"]
  /\ Undisturbed(p)

\* Mutant: the tokens are not kept.
NotSaved(p) == UNCHANGED <<files, written>> /\ Undisturbed(p)

Saved(p) == /\ files' = files \cup {command[p].on} /\ written' = written \cup {command[p].on}
            /\ Undisturbed(p)

\* save_started_credential; that it fails is a warning, and the command goes on.
CuSaves(p) ==
  /\ At(p, "saving")
  /\ Saved(p) \/ (UNCHANGED <<files, written>> /\ lone' = Quiet)
  /\ \E next \in IF command[p].does = "start" THEN {"leaving"} ELSE FirstStages(command[p].does) :
       To(p, next)
  /\ UNCHANGED <<daemonVars, clientVars, begun>>

-----------------------------------------------------------------------------
(* Asking the daemon. *)

Operation(p) ==
  IF command[p].at = "frame" THEN "observe"
  ELSE CASE command[p].does \in {"inspect", "status"}       -> "status"
         [] command[p].does \in Acting \cup {"change"}       -> "act"
         [] OTHER                                            -> command[p].does

\* The control token for what changes the session, the read token else.
Authenticated(op, s) ==
  LET open == Bare(op, s, NoToken, NoToken)
  IN  IF s \notin files THEN open
      ELSE IF op \in Changing THEN [open EXCEPT !.ctl = <<s, "control">>]
      ELSE [open EXCEPT !.obs = <<s, "observation">>]

CuAsks(p) ==
  /\ At(p, "frame") \/ At(p, "ask")
  /\ command' = [command EXCEPT ![p].call = Authenticated(Operation(p), command[p].on),
                                ![p].due = command[p].on \in written]
  /\ Undisturbed(p) /\ Reads

\* No session could be found: the first file of the directory, if any.
CuAsksWithAny(p) ==
  /\ At(p, "any")
  /\ \E s \in IF files = {} THEN {NoneHeld} ELSE files :
       command' = [command EXCEPT ![p].at = "ask", ![p].call = Authenticated("desktop", s)]
  /\ Undisturbed(p) /\ Reads

Finished(p, next) == command' = [command EXCEPT ![p].call = NoCall, ![p].at = next]

\* A refusal ends the command, and so does a region that does not parse.
CuAnswered(p) ==
  /\ command[p].call # NoCall /\ command[p].call.op # "stop"
  /\ \/ /\ Verdict(command[p].call) = "ok" /\ command[p].at = "frame"
        /\ Finished(p, "ask") \/ (command[p].does = "inspect" /\ Finished(p, "leaving"))
     \/ (Verdict(command[p].call) # "ok" \/ command[p].at = "ask") /\ Finished(p, "leaving")
  /\ Undisturbed(p) /\ Reads

Ended(s) == phase' = [phase EXCEPT ![s] = "stopped"]
            /\ UNCHANGED <<inManifest, version, draining, upgrades, clientVars>>

\* cu session stop: the file goes once the daemon has said yes.
CuStopAnswered(p) ==
  /\ command[p].call.op = "stop" /\ Finished(p, "leaving")
  /\ \/ /\ Verdict(command[p].call) = "ok" /\ Ended(command[p].on)
        /\ files' = files \ {command[p].on}
     \/ Verdict(command[p].call) # "ok" /\ UNCHANGED <<daemonVars, clientVars, files>>
  /\ Undisturbed(p) /\ UNCHANGED <<written, begun>>

-----------------------------------------------------------------------------
(* Leaving, and the files of sessions that are gone. *)

\* stop_auto_started loads the token first; without it there is no stop.
CuLeaves(p) ==
  /\ At(p, "leaving")
  /\ IF command[p].auto /\ command[p].on \in files
       THEN To(p, "stopping") ELSE command' = [command EXCEPT ![p] = NoCommand]
  /\ Undisturbed(p) /\ Reads

\* Whatever the answer is, the file is deleted.
AutoStopped(p) ==
  /\ At(p, "stopping")
  /\ LET s == command[p].on
     IN  /\ IF Verdict(Bare("stop", s, NoToken, <<s, "control">>)) = "ok"
              THEN Ended(s) ELSE UNCHANGED <<daemonVars, clientVars>>
         /\ files' = files \ {s}
  /\ command' = [command EXCEPT ![p] = NoCommand]
  /\ Undisturbed(p) /\ UNCHANGED <<written, begun>>

\* prune_stale_credentials lists the files, then asks for the summary before
\* it deletes any of them.
PruneLists(p) ==
  /\ At(p, "listing")
  /\ command' = [command EXCEPT ![p].at = "pruning", ![p].listed = files]
  /\ Undisturbed(p) /\ Reads

PruneProbes(p, s) ==
  /\ At(p, "pruning") /\ s \in command[p].listed
  /\ IF Live = {} /\ ~draining
       THEN command' = [command EXCEPT ![p].at = "deleting", ![p].gone = s]
       ELSE command' = [command EXCEPT ![p].listed = @ \ {s}]
  /\ Undisturbed(p) /\ Reads

Deleting(p, gone) ==
  /\ At(p, "deleting") /\ files' = files \ gone
  /\ command' = [command EXCEPT ![p].at = "pruning", ![p].gone = NoneHeld,
                                ![p].listed = @ \ {command[p].gone}]
  /\ Undisturbed(p) /\ UNCHANGED <<daemonVars, clientVars, written, begun>>

\* Mutant: whatever file there is goes when no session is active.
PruneSweeps(p) == Deleting(p, files)

PruneDeletes(p) == Deleting(p, {command[p].gone})

\* status goes on once every file has been looked at.
PruneEnds(p) ==
  /\ At(p, "pruning") /\ command[p].listed = {}
  /\ To(p, IF command[p].on = NoneHeld THEN "lookup" ELSE "ask")
  /\ Undisturbed(p) /\ Reads

-----------------------------------------------------------------------------
(* Everybody else. *)

CuOnly == UNCHANGED <<files, written, begun>> /\ lone' = Quiet

\* A host starts a session whose tokens cu never sees.
HostOpens(s) == Opened(s) /\ lone' = Quiet /\ UNCHANGED command

\* Its owner stops it.
HostEnds(s) == s \in Live /\ Ended(s) /\ CuOnly /\ UNCHANGED command

\* Authority's Drains and DaemonReplaced; a request in flight fails.
DaemonDrains == Drains /\ CuOnly /\ UNCHANGED command

DaemonRestarted ==
  /\ DaemonReplaced(version) /\ CuOnly
  /\ command' = [p \in Shells |->
       IF command[p].call = NoCall THEN command[p]
       ELSE [command[p] EXCEPT !.call = NoCall, !.at = "leaving"]]

-----------------------------------------------------------------------------
CuStep(p) ==
  \/ SessionFound(p) \/ CuStartRefused(p) \/ CuSaves(p) \/ CuAsks(p) \/ CuAsksWithAny(p)
  \/ CuAnswered(p) \/ CuStopAnswered(p) \/ CuLeaves(p) \/ AutoStopped(p)
  \/ PruneLists(p) \/ PruneDeletes(p) \/ PruneEnds(p)
  \/ \E s \in Ids : CuStarted(p, s) \/ PruneProbes(p, s)

CuNext ==
  \/ \E p \in Shells : CuStep(p)
  \/ \E p \in Shells, kind \in CuKinds, s \in Ids \cup {NoneHeld} : CuBegins(p, kind, s)
  \/ \E s \in Ids : HostOpens(s) \/ HostEnds(s)
  \/ DaemonDrains \/ DaemonRestarted

CuSpec == CuInit /\ [][CuNext]_cuVars

-----------------------------------------------------------------------------
(* Properties. *)

\* Every variable has its type.
CuTypeOK ==
  /\ files \subseteq Ids /\ written \subseteq Ids
  /\ begun \in 0..MaxCommands /\ lone \in Shells \cup {Quiet}
  /\ command \in [Shells ->
       [does : CuKinds \cup {"nothing"},
        at   : {"over", "listing", "pruning", "deleting", "resolve", "lookup", "starting",
                "saving", "any", "frame", "ask", "leaving", "stopping"},
        on   : Ids \cup {NoneHeld}, auto : BOOLEAN, call : Calling,
        listed : SUBSET Ids, gone : Ids \cup {NoneHeld}, due : BOOLEAN]]

\* The request of a command is refused.
RefusedNow(p) ==
  /\ command[p].call # NoCall /\ command'[p].call = NoCall /\ upgrades' = upgrades
  /\ Verdict(command[p].call) # "ok"

\* While a session lives, a file that was written for it stays, whoever prunes
\* or leaves, and a command that asks then is never refused for its tokens.
LiveSessionsKeepTokens ==
  /\ \A s \in files \ files' : phase'[s] # "live"
  /\ \A p \in Shells :
       LET q == command[p].call
       IN  RefusedNow(p) /\ Verdict(q) \in TokenErrors =>
             ~(command[p].due /\ phase[q.id] = "live")

\* A one-shot command that found no session and met nobody is served, by the
\* session it starts.
LoneCommandServed == \A p \in Shells : lone = p => ~RefusedNow(p)

\* The two together: cu works straight after the daemon has started, without a
\* session having been started for it, and goes on working beside other
\* commands and hosts (resolve_session, credentials.rs, stop_auto_started,
\* prune_stale_credentials).
CommandsWork == [][LiveSessionsKeepTokens /\ LoneCommandServed]_cuVars

=============================================================================
