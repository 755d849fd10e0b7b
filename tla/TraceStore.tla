----------------------------- MODULE TraceStore -----------------------------
(***************************************************************************)
(* What a session leaves on disk: its trace, a file of lines, and its      *)
(* access manifest, the record that lets the holder of its token read the  *)
(* trace after the daemon was restarted.                                   *)
(*                                                                         *)
(* The manifest is written as every private file is: to a temporary file,  *)
(* which is synced, renamed over the target and made durable by syncing    *)
(* the directory.  Any of these steps may fail, the daemon may be killed,  *)
(* and the machine may lose its power between any two of them; the trace   *)
(* is flushed to the operating system and never synced.                    *)
(***************************************************************************)
EXTENDS Naturals

CONSTANTS Sessions,     \* sessions that are started, each once
          NoSession,    \* the control lock is free
          MaxActions,   \* bound: actions recorded by each session
          MaxCrashes    \* bound: restarts of the daemon

ASSUME TraceAssumption ==
  NoSession \notin Sessions /\ MaxActions \in Nat /\ MaxCrashes \in Nat

VARIABLES
  mode,       \* TraceMode
  stage,      \* how far the session's start, life and stop have got
  owner,      \* ControlLock::holder
  writing,    \* how far the atomic write of its manifest has got
  manifest,   \* what is at the manifest's path
  survives,   \* what may be there after a power failure
  promised,   \* history: write_manifest returned Ok; the token was given after that
  recorder,   \* the session's TraceRecorder
  recorded,   \* lines of the trace that stand for an action
  torn,       \* the trace has a line that was cut short
  succeeded,  \* history: actions the agent was told were done
  failed,     \* history: actions reported as failed because of their append
  crashes     \* how often the daemon has ended without warning

fileVars   == <<writing, manifest, survives>>
recordVars == <<recorder, recorded, torn>>
reportVars == <<succeeded, failed>>
storeVars  == <<mode, stage, owner, fileVars, promised, recordVars, reportVars,
                crashes>>

Modes     == {"required", "best_effort", "disabled"}
Stages    == {"none", "manifest", "open", "target", "lock", "live", "refused", "unrecorded",
              "dropped", "stopping", "closing", "marking", "stopped", "gone"}
Manifests == {"none", "partial", "started", "stopped"}

TraceInit ==
  /\ mode \in Modes
  /\ stage = [s \in Sessions |-> "none"] /\ owner = NoSession
  /\ writing = [s \in Sessions |-> "idle"]
  /\ manifest = [s \in Sessions |-> "none"]
  /\ survives = [s \in Sessions |-> {"none"}]
  /\ promised = [s \in Sessions |-> "no"]
  /\ recorder = [s \in Sessions |-> "none"]
  /\ recorded = [s \in Sessions |-> 0]
  /\ torn = [s \in Sessions |-> FALSE]
  /\ succeeded = [s \in Sessions |-> 0]
  /\ failed = [s \in Sessions |-> 0]
  /\ crashes = 0

Enters(s, st) == stage' = [stage EXCEPT ![s] = st]

-----------------------------------------------------------------------------
(* atomic_write_private_json, for the manifest of a session that starts and
   for the one that mark_stopped rewrites. *)

Content(s) == IF stage[s] = "marking" THEN "stopped" ELSE "started"
Step(s, from, to) == writing[s] = from /\ writing' = [writing EXCEPT ![s] = to]
Elsewhere == UNCHANGED <<mode, stage, owner, promised, recordVars, reportVars,
                         crashes>>

\* The directory is made private, a symlink at the target refused, and the
\* temporary file created under a random name and written.
FileCreated(s) ==
  /\ Step(s, "begin", "created") /\ UNCHANGED <<manifest, survives>> /\ Elsewhere

FileSynced(s) ==
  /\ Step(s, "created", "synced") /\ UNCHANGED <<manifest, survives>> /\ Elsewhere

\* What a power failure leaves at the path is the old file or the new one, and
\* the new one is whole only if it was synced.
OnDisk(s) == IF writing[s] = "synced" THEN {Content(s)} ELSE {Content(s), "partial"}
InPlace(s) ==
  /\ manifest' = [manifest EXCEPT ![s] = Content(s)]
  /\ survives' = [survives EXCEPT ![s] = @ \cup OnDisk(s)]
  /\ Elsewhere

\* Mutant: the temporary file is renamed without having been synced.
RenamedUnsynced(s) == Step(s, "created", "renamed") /\ InPlace(s)

FileRenamed(s) == Step(s, "synced", "renamed") /\ InPlace(s)

\* The directory is one for all sessions.
DirectorySynced(s) ==
  /\ Step(s, "renamed", "ok")
  /\ survives' = [t \in Sessions |-> {manifest[t]}]
  /\ UNCHANGED manifest /\ Elsewhere

\* The temporary file is removed; a failure to sync the directory is reported
\* although the new file is in place.
FileFails(s) ==
  /\ writing[s] \in {"begin", "created", "synced", "renamed"}
  /\ writing' = [writing EXCEPT ![s] = "failed"]
  /\ UNCHANGED <<manifest, survives>> /\ Elsewhere

Written(s) == writing[s] \in {"ok", "failed"}

-----------------------------------------------------------------------------
(* TraceRecorder::append: the line, or nothing of it, or a part. *)

\* Mutant: a line that was written is written again.
AppendedTwice(s, actions) ==
  /\ recorder[s] = "open"
  /\ recorded' = [recorded EXCEPT ![s] = @ + 2 * actions]
  /\ UNCHANGED torn

Appended(s, actions) ==
  /\ recorder[s] = "open"
  /\ recorded' = [recorded EXCEPT ![s] = @ + actions]
  /\ UNCHANGED torn

\* The `?' inside the block leaves append before the mode is consulted.
AppendFails(s) ==
  /\ recorder[s] = "open"
  /\ torn' = [torn EXCEPT ![s] = TRUE] \/ UNCHANGED torn
  /\ UNCHANGED recorded

\* No recorder, or one that was closed: nothing is written, and that is Ok.
AppendNothing(s) == recorder[s] # "open" /\ UNCHANGED <<recorded, torn>>

\* A lifecycle event is recorded with `let _ ='.
Event(s) == Appended(s, 0) \/ AppendFails(s) \/ AppendNothing(s)

-----------------------------------------------------------------------------
(* session_start *)

StartBegins(s) ==
  /\ stage[s] = "none" /\ Enters(s, "manifest")
  /\ writing' = [writing EXCEPT ![s] = "begin"]
  /\ UNCHANGED <<mode, owner, manifest, survives, promised, recordVars, reportVars,
                 crashes>>

\* A manifest that could not be written is a warning.
StartManifested(s) ==
  /\ stage[s] = "manifest" /\ Written(s) /\ Enters(s, "open")
  /\ promised' = [promised EXCEPT ![s] = IF writing[s] = "ok" THEN "written" ELSE @]
  /\ writing' = [writing EXCEPT ![s] = "idle"]
  /\ UNCHANGED <<mode, owner, manifest, survives, recordVars, reportVars, crashes>>

\* In required mode a recorder that does not open ends the start; the manifest
\* stays.
StartOpens(s) ==
  /\ stage[s] = "open"
  /\ \/ mode # "disabled" /\ Enters(s, "target") /\ recorder' = [recorder EXCEPT ![s] = "open"]
     \/ mode # "required" /\ Enters(s, "target") /\ UNCHANGED recorder
     \/ mode = "required" /\ Enters(s, "unrecorded") /\ UNCHANGED recorder
  /\ UNCHANGED <<mode, owner, fileVars, promised, recorded, torn, reportVars,
                 crashes>>

\* remove_manifest; the directory is not synced.
RemovesManifest(s) ==
  /\ manifest' = [manifest EXCEPT ![s] = "none"]
  /\ survives' = [survives EXCEPT ![s] = @ \cup {"none"}]

\* The start is refused: the recorder is closed, the manifest removed, the
\* trace file left.
Refused(s) ==
  /\ Enters(s, "refused")
  /\ recorder' = [recorder EXCEPT ![s] = IF @ = "open" THEN "closed" ELSE @]
  /\ RemovesManifest(s)
  /\ UNCHANGED <<mode, owner, writing, promised, recorded, torn, reportVars,
                 crashes>>

TargetUnavailable(s) == stage[s] = "target" /\ Refused(s)
LockHeld(s) == stage[s] = "lock" /\ owner # NoSession /\ Refused(s)

TargetResolved(s) ==
  /\ stage[s] = "target" /\ Enters(s, "lock")
  /\ UNCHANGED <<mode, owner, fileVars, promised, recordVars, reportVars, crashes>>

\* The session is inserted and its start recorded; the tokens are disclosed with
\* the answer, unless the deadline comes first.
StartReturns(s) ==
  /\ stage[s] = "lock" /\ owner = NoSession
  /\ Enters(s, "live") /\ owner' = s
  /\ Event(s)
  /\ \/ promised' = [promised EXCEPT ![s] = IF @ = "written" THEN "given" ELSE @]
     \/ UNCHANGED promised
  /\ UNCHANGED <<mode, fileVars, recorder, reportVars, crashes>>

\* The deadline drops the start where it awaits.
StartDropped(s) ==
  /\ stage[s] \in {"open", "target"} /\ Enters(s, "dropped")
  /\ UNCHANGED <<mode, owner, fileVars, promised, recordVars, reportVars, crashes>>

-----------------------------------------------------------------------------
(* A batch of a live session records each action after it was executed; one
   that was admitted goes on while its session is being stopped. *)

Recordable(s) == stage[s] \in {"live", "stopping", "closing", "marking", "stopped"}
                 /\ succeeded[s] + failed[s] < MaxActions

Succeeds(s) == succeeded' = [succeeded EXCEPT ![s] = @ + 1] /\ UNCHANGED failed
Errs(s) == failed' = [failed EXCEPT ![s] = @ + 1] /\ UNCHANGED succeeded

ActionRecorded(s) ==
  /\ Recordable(s) /\ (Appended(s, 1) \/ AppendNothing(s)) /\ Succeeds(s)
  /\ UNCHANGED <<mode, stage, owner, fileVars, promised, recorder, crashes>>

\* Mutant: an action whose line was not written succeeds.
ProceedsAnyway(s) ==
  /\ Recordable(s) /\ AppendFails(s) /\ Succeeds(s)
  /\ UNCHANGED <<mode, stage, owner, fileVars, promised, recorder, crashes>>

\* An append that fails ends the batch, whatever the mode: the agent is told that
\* the action failed.
ActionUnrecorded(s) ==
  /\ Recordable(s) /\ AppendFails(s) /\ Errs(s)
  /\ UNCHANGED <<mode, stage, owner, fileVars, promised, recorder, crashes>>

-----------------------------------------------------------------------------
(* stop_session *)

StopBegins(s) ==
  /\ stage[s] = "live" /\ Enters(s, "stopping")
  /\ UNCHANGED <<mode, owner, fileVars, promised, recordVars, reportVars, crashes>>

StopRecords(s) ==
  /\ stage[s] = "stopping" /\ Enters(s, "closing")
  /\ Event(s)
  /\ UNCHANGED <<mode, owner, fileVars, promised, recorder, reportVars, crashes>>

\* mark_stopped reads the manifest first and leaves one that is missing or
\* malformed alone.
StopCloses(s) ==
  /\ stage[s] = "closing" /\ Enters(s, "marking")
  /\ recorder' = [recorder EXCEPT ![s] = IF @ = "open" THEN "closed" ELSE @]
  /\ writing' = [writing EXCEPT ![s] = IF manifest[s] \in {"started", "stopped"}
                                         THEN "begin" ELSE "failed"]
  /\ UNCHANGED <<mode, owner, manifest, survives, promised, recorded, torn,
                 reportVars, crashes>>

\* The deadline has dropped a stop where it awaits, and another one finds the
\* session Stopping: it finishes without the recorder and the manifest.
StopAgain(s) ==
  /\ stage[s] \in {"stopping", "closing"} /\ Enters(s, "stopped")
  /\ owner' = IF owner = s THEN NoSession ELSE owner
  /\ UNCHANGED <<mode, fileVars, promised, recordVars, reportVars, crashes>>

StopReturns(s) ==
  /\ stage[s] = "marking" /\ Written(s) /\ Enters(s, "stopped")
  /\ writing' = [writing EXCEPT ![s] = "idle"]
  /\ owner' = IF owner = s THEN NoSession ELSE owner
  /\ UNCHANGED <<mode, manifest, survives, promised, recordVars, reportVars, crashes>>

-----------------------------------------------------------------------------
(* The daemon ends without warning and is started again.  Kill: the files are
   as the system has them.  Power: a manifest is what has reached the disk, and
   a trace loses lines from its end, perhaps in the middle of one. *)

Forgotten ==
  /\ stage' = [s \in Sessions |-> IF stage[s] = "none" THEN "none" ELSE "gone"]
  /\ owner' = NoSession
  /\ writing' = [s \in Sessions |-> "idle"]
  /\ recorder' = [s \in Sessions |-> "none"]
  /\ crashes < MaxCrashes /\ crashes' = crashes + 1
  /\ UNCHANGED <<mode, promised, reportVars>>

Killed == Forgotten /\ UNCHANGED <<manifest, survives, recorded, torn>>

PowerFails ==
  /\ Forgotten
  /\ manifest' \in [Sessions -> Manifests] /\ \A s \in Sessions : manifest'[s] \in survives[s]
  /\ survives' = [s \in Sessions |-> {manifest'[s]}]
  /\ recorded' \in [Sessions -> 0..MaxActions] /\ \A s \in Sessions : recorded'[s] <= recorded[s]
  /\ torn' \in [Sessions -> BOOLEAN]
  /\ \A s \in Sessions : torn'[s] => torn[s] \/ recorder[s] # "none"

\* prune_old_traces, at boot: traces go, manifests stay.
Pruned(s) ==
  /\ stage[s] = "gone"
  /\ recorded' = [recorded EXCEPT ![s] = 0] /\ torn' = [torn EXCEPT ![s] = FALSE]
  /\ UNCHANGED <<mode, stage, owner, fileVars, promised, recorder, reportVars, crashes>>

-----------------------------------------------------------------------------
(* trace.get by the holder of the session's token. *)

InMap(s) == stage[s] \in {"live", "stopping", "closing", "marking", "stopped"}
Admits(s) == InMap(s) \/ manifest[s] \in {"started", "stopped"}

\* read_trace stops at the first line that does not parse: a torn one, with
\* what was appended to it later.
Parsed(s) == IF torn[s] THEN "bad" ELSE "entries"

TraceGet(s) == IF Admits(s) THEN Parsed(s) ELSE "unknown"

-----------------------------------------------------------------------------
FileStep(s) == FileCreated(s) \/ FileSynced(s) \/ FileRenamed(s) \/ DirectorySynced(s)
               \/ FileFails(s)
StartStep(s) == StartBegins(s) \/ StartManifested(s) \/ StartOpens(s) \/ TargetUnavailable(s)
                \/ LockHeld(s) \/ TargetResolved(s) \/ StartReturns(s) \/ StartDropped(s)
StopStep(s) == StopBegins(s) \/ StopRecords(s) \/ StopCloses(s) \/ StopReturns(s) \/ StopAgain(s)

TraceNext ==
  \/ \E s \in Sessions : FileStep(s) \/ StartStep(s) \/ StopStep(s) \/ ActionRecorded(s)
                         \/ ActionUnrecorded(s) \/ Pruned(s)
  \/ Killed \/ PowerFails

TraceSpec == TraceInit /\ [][TraceNext]_storeVars

-----------------------------------------------------------------------------
(* Properties *)

TraceTypeOK ==
  /\ mode \in Modes /\ owner \in Sessions \cup {NoSession}
  /\ stage \in [Sessions -> Stages]
  /\ writing \in [Sessions -> {"idle", "begin", "created", "synced", "renamed", "ok", "failed"}]
  /\ manifest \in [Sessions -> Manifests] /\ survives \in [Sessions -> SUBSET Manifests]
  /\ promised \in [Sessions -> {"no", "written", "given"}]
  /\ recorder \in [Sessions -> {"none", "open", "closed"}]
  /\ recorded \in [Sessions -> 0..MaxActions] /\ torn \in [Sessions -> BOOLEAN]
  /\ succeeded \in [Sessions -> 0..MaxActions] /\ failed \in [Sessions -> 0..MaxActions]
  /\ crashes \in 0..MaxCrashes

\* A manifest stands for a session.  It is never half a file, wherever the
\* daemon or the machine stopped (atomic_write_private_json); who was given the
\* token of a session whose manifest was written can open its trace, whatever
\* was killed, lost or stopped since (verify_trace_access); and a refused start
\* leaves none, so that a session that never was cannot be asked for (the
\* comment in session_start).
ManifestWhole         == \A s \in Sessions : manifest[s] # "partial"
HolderKeepsAccess     == \A s \in Sessions : promised[s] = "given" => TraceGet(s) # "unknown"
RefusedLeavesNoRecord == \A s \in Sessions : stage[s] = "refused" => manifest[s] = "none"

ManifestsMatchSessions == ManifestWhole /\ HolderKeepsAccess /\ RefusedLeavesNoRecord

\* In required mode the trace of a session that is not closed has a line for
\* every action the agent was told was done.
RequiredMeansRecorded ==
  \A s \in Sessions : mode = "required" /\ recorder[s] = "open" => recorded[s] >= succeeded[s]

=============================================================================
