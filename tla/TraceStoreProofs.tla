-------------------------- MODULE TraceStoreProofs --------------------------
(***************************************************************************)
(* Proofs about TraceStore, for any number of sessions, actions and        *)
(* crashes: its types, that manifests stand for sessions, and that a       *)
(* required trace has a line for every action that succeeded; and the      *)
(* types of MCCustody, where it runs beside the hosts and the commands.    *)
(*                                                                         *)
(* The first two rest on what a crash may find: a file that was synced     *)
(* before it was renamed is whole wherever the power fails, and one whose  *)
(* directory was synced is there.  The third rests on the order of a       *)
(* session's life: nothing succeeds before its recorder is open.           *)
(***************************************************************************)
EXTENDS MCCustody, HostSessionsProofs, AuthorityProofs

Whole == {"started", "stopped"}

\* What will be found at the path, now and after a power failure, is a manifest.
Durable(s) == manifest[s] \in Whole /\ survives[s] \subseteq Whole

\* The write of a manifest belongs to a start or to a stop.
WriteFits(s) ==
  /\ writing[s] # "idle" => stage[s] \in {"manifest", "marking"}
  /\ writing[s] = "renamed" => manifest[s] \in Whole
  /\ writing[s] = "ok" => Durable(s)

\* No path leads to half a file.
NoHalves(s) == manifest[s] # "partial" /\ "partial" \notin survives[s]

\* A manifest that was reported as written is durable from then on, unless its
\* start is refused before the token is disclosed.
PromiseKept(s) ==
  /\ promised[s] = "given" => Durable(s) /\ stage[s] \notin {"open", "target", "lock", "refused"}
  /\ promised[s] = "written" /\ stage[s] \in {"open", "target", "lock"} => Durable(s)
  /\ stage[s] \in {"none", "manifest"} => promised[s] = "no"

NoneWhenRefused(s) == stage[s] = "refused" => manifest[s] = "none"

ManifestInv == \A s \in Sessions : WriteFits(s) /\ NoHalves(s) /\ PromiseKept(s) /\ NoneWhenRefused(s)

\* Nothing is recorded or succeeds before the recorder is open, nor in a
\* session a crash has ended; and every success has its line.
Recording(s) ==
  /\ recorded[s] <= succeeded[s] /\ succeeded[s] + failed[s] <= MaxActions
  /\ stage[s] \in {"none", "manifest", "open"} => succeeded[s] = 0 /\ recorded[s] = 0
  /\ stage[s] = "gone" => recorder[s] = "none"
  /\ recorder[s] = "open" => recorded[s] >= succeeded[s]

RecordInv == \A s \in Sessions : Recording(s)

-----------------------------------------------------------------------------
(* The types. *)

StagesOK   == stage \in [Sessions -> Stages] /\ mode \in Modes /\ owner \in Sessions \cup {NoSession}
FilesOK    ==
  /\ writing \in [Sessions -> {"idle", "begin", "created", "synced", "renamed", "ok", "failed"}]
  /\ manifest \in [Sessions -> Manifests] /\ survives \in [Sessions -> SUBSET Manifests]
  /\ promised \in [Sessions -> {"no", "written", "given"}]
RecordsOK  ==
  /\ recorder \in [Sessions -> {"none", "open", "closed"}]
  /\ recorded \in [Sessions -> 0..MaxActions] /\ torn \in [Sessions -> BOOLEAN]
  /\ succeeded \in [Sessions -> 0..MaxActions] /\ failed \in [Sessions -> 0..MaxActions]

LEMMA TypesSplit == TraceTypeOK <=> StagesOK /\ FilesOK /\ RecordsOK /\ crashes \in 0..MaxCrashes
BY DEF TraceTypeOK, StagesOK, FilesOK, RecordsOK

LEMMA TraceTypesInit == TraceInit => TraceTypeOK /\ ManifestInv /\ RecordInv
<1> SUFFICES ASSUME TraceInit PROVE TraceTypeOK /\ ManifestInv /\ RecordInv
  OBVIOUS
<1>1. StagesOK /\ crashes \in 0..MaxCrashes
  BY TraceAssumption DEF TraceInit, StagesOK, Stages
<1>2. FilesOK
  BY DEF TraceInit, FilesOK, Manifests
<1>3. RecordsOK
  BY TraceAssumption DEF TraceInit, RecordsOK
<1>4. ManifestInv
  BY DEF TraceInit, ManifestInv, WriteFits, NoHalves, PromiseKept, NoneWhenRefused
<1>5. RecordInv
  <2> SUFFICES ASSUME NEW s \in Sessions PROVE Recording(s)
    BY DEF RecordInv
  <2>1. /\ recorded[s] = 0 /\ succeeded[s] = 0 /\ failed[s] = 0
        /\ recorder[s] = "none" /\ stage[s] = "none"
    BY DEF TraceInit
  <2> QED BY <2>1, TraceAssumption DEF Recording
<1> QED BY <1>1, <1>2, <1>3, <1>4, <1>5, TypesSplit

LEMMA StagesStep ==
  ASSUME StagesOK, TraceNext
  PROVE  StagesOK'
<1> USE DEF StagesOK, Stages, Modes, Enters
<1>1. ASSUME NEW s \in Sessions, FileStep(s) \/ ActionRecorded(s) \/ ActionUnrecorded(s) \/ Pruned(s)
      PROVE  StagesOK'
  BY <1>1 DEF FileStep, FileCreated, FileSynced, FileRenamed, DirectorySynced, FileFails, Elsewhere,
     InPlace, ActionRecorded, ActionUnrecorded, Pruned
<1>2. ASSUME NEW s \in Sessions, StartStep(s)
      PROVE  StagesOK'
  BY <1>2 DEF StartStep, StartBegins, StartManifested, StartOpens, TargetUnavailable, LockHeld,
     TargetResolved, StartReturns, StartDropped, Refused
<1>3. ASSUME NEW s \in Sessions, StopStep(s)
      PROVE  StagesOK'
  BY <1>3 DEF StopStep, StopBegins, StopRecords, StopCloses, StopReturns, StopAgain
<1>4. CASE Killed \/ PowerFails
  BY <1>4 DEF Killed, PowerFails, Forgotten
<1> QED BY <1>1, <1>2, <1>3, <1>4 DEF TraceNext

LEMMA FilesStep ==
  ASSUME StagesOK, FilesOK, TraceNext
  PROVE  FilesOK'
<1> USE DEF FilesOK, Manifests
<1>1. ASSUME NEW s \in Sessions, FileStep(s)
      PROVE  FilesOK'
  BY <1>1 DEF FileStep, FileCreated, FileSynced, FileRenamed, DirectorySynced, FileFails, Elsewhere,
     InPlace, OnDisk, Content, Step
<1>2. ASSUME NEW s \in Sessions, StartStep(s)
      PROVE  FilesOK'
  BY <1>2 DEF StartStep, StartBegins, StartManifested, StartOpens, TargetUnavailable, LockHeld,
     TargetResolved, StartReturns, StartDropped, Refused, RemovesManifest, fileVars
<1>3. ASSUME NEW s \in Sessions,
             StopStep(s) \/ ActionRecorded(s) \/ ActionUnrecorded(s) \/ Pruned(s)
      PROVE  FilesOK'
  BY <1>3 DEF StopStep, StopBegins, StopRecords, StopCloses, StopReturns, StopAgain, fileVars,
     ActionRecorded, ActionUnrecorded, Pruned
<1>4. CASE Killed \/ PowerFails
  BY <1>4 DEF Killed, PowerFails, Forgotten
<1> QED BY <1>1, <1>2, <1>3, <1>4 DEF TraceNext

\* What a step does to the lines of a trace and to what was reported.
LEMMA LinesStep ==
  ASSUME StagesOK, RecordsOK, RecordInv, TraceNext
  PROVE  RecordsOK' /\ RecordInv'
<1> USE TraceAssumption
<1> USE DEF RecordsOK, RecordInv, Recording, StagesOK, Stages
<1>1. ASSUME NEW s \in Sessions, FileStep(s)
      PROVE  RecordsOK' /\ RecordInv'
  BY <1>1 DEF FileStep, FileCreated, FileSynced, FileRenamed, DirectorySynced, FileFails, Elsewhere,
     InPlace, recordVars, reportVars
<1>2. ASSUME NEW s \in Sessions, StartStep(s)
      PROVE  RecordsOK' /\ RecordInv'
  <2>1. CASE StartBegins(s) \/ StartManifested(s) \/ TargetResolved(s) \/ StartDropped(s)
    BY <2>1 DEF StartBegins, StartManifested, TargetResolved, StartDropped, Enters, recordVars, reportVars
  <2>2. CASE StartOpens(s)
    BY <2>2 DEF StartOpens, Enters, reportVars
  <2>3. CASE TargetUnavailable(s) \/ LockHeld(s)
    BY <2>3 DEF TargetUnavailable, LockHeld, Refused, Enters, reportVars
  <2>4. CASE StartReturns(s)
    <3>1. UNCHANGED recorded
      BY <2>4 DEF StartReturns, Event, Appended, AppendFails, AppendNothing
    <3>2. torn' \in [Sessions -> BOOLEAN]
      BY <2>4 DEF StartReturns, Event, Appended, AppendFails, AppendNothing
    <3> QED BY <2>4, <3>1, <3>2 DEF StartReturns, Enters, reportVars
  <2> QED BY <1>2, <2>1, <2>2, <2>3, <2>4 DEF StartStep
<1>3. ASSUME NEW s \in Sessions, StopStep(s)
      PROVE  RecordsOK' /\ RecordInv'
  <2>1. CASE StopBegins(s) \/ StopReturns(s) \/ StopAgain(s)
    BY <2>1 DEF StopBegins, StopReturns, StopAgain, Enters, recordVars, reportVars
  <2>2. CASE StopRecords(s)
    <3>1. UNCHANGED recorded
      BY <2>2 DEF StopRecords, Event, Appended, AppendFails, AppendNothing
    <3>2. torn' \in [Sessions -> BOOLEAN]
      BY <2>2 DEF StopRecords, Event, Appended, AppendFails, AppendNothing
    <3> QED BY <2>2, <3>1, <3>2 DEF StopRecords, Enters, reportVars
  <2>3. CASE StopCloses(s)
    BY <2>3 DEF StopCloses, Enters, reportVars
  <2> QED BY <1>3, <2>1, <2>2, <2>3 DEF StopStep
<1>4. ASSUME NEW s \in Sessions, ActionRecorded(s) \/ ActionUnrecorded(s)
      PROVE  RecordsOK' /\ RecordInv'
  <2>1. torn' \in [Sessions -> BOOLEAN]
    BY <1>4 DEF ActionRecorded, ActionUnrecorded, Appended, AppendFails, AppendNothing
  <2>2. CASE ActionRecorded(s) /\ recorder[s] = "open"
    BY <2>1, <2>2 DEF ActionRecorded, Recordable, Appended, AppendNothing, Succeeds
  <2>3. CASE ActionRecorded(s) /\ recorder[s] # "open"
    BY <2>1, <2>3 DEF ActionRecorded, Recordable, Appended, AppendNothing, Succeeds
  <2>4. CASE ActionUnrecorded(s)
    BY <2>1, <2>4 DEF ActionUnrecorded, Recordable, AppendFails, Errs
  <2> QED BY <1>4, <2>2, <2>3, <2>4
<1>5. ASSUME NEW s \in Sessions, Pruned(s)
      PROVE  RecordsOK' /\ RecordInv'
  BY <1>5 DEF Pruned, reportVars
<1>6. CASE Killed
  BY <1>6 DEF Killed, Forgotten, reportVars
<1>7. CASE PowerFails
  BY <1>7 DEF PowerFails, Forgotten, reportVars
<1> QED BY <1>1, <1>2, <1>3, <1>4, <1>5, <1>6, <1>7 DEF TraceNext

LEMMA ManifestsStep ==
  ASSUME StagesOK, FilesOK, ManifestInv, TraceNext
  PROVE  ManifestInv'
<1> USE DEF FilesOK, StagesOK, Stages, ManifestInv, WriteFits, NoHalves, PromiseKept,
    NoneWhenRefused, Durable, Whole
<1>1. ASSUME NEW s \in Sessions, FileStep(s)
      PROVE  ManifestInv'
  <2>1. CASE FileCreated(s) \/ FileSynced(s) \/ FileFails(s)
    BY <2>1 DEF FileCreated, FileSynced, FileFails, Elsewhere, Step
  <2>2. CASE FileRenamed(s)
    BY <2>2 DEF FileRenamed, InPlace, OnDisk, Content, Elsewhere, Step
  <2>3. CASE DirectorySynced(s)
    BY <2>3 DEF DirectorySynced, Elsewhere, Step
  <2> QED BY <1>1, <2>1, <2>2, <2>3 DEF FileStep
<1>2. ASSUME NEW s \in Sessions, StartStep(s)
      PROVE  ManifestInv'
  <2>1. CASE StartBegins(s)
    BY <2>1 DEF StartBegins, Enters
  <2>2. CASE StartManifested(s)
    BY <2>2 DEF StartManifested, Written, Enters
  <2>3. CASE StartOpens(s) \/ TargetResolved(s) \/ StartDropped(s)
    BY <2>3 DEF StartOpens, TargetResolved, StartDropped, Enters, fileVars
  <2>4. CASE TargetUnavailable(s) \/ LockHeld(s)
    BY <2>4 DEF TargetUnavailable, LockHeld, Refused, RemovesManifest, Enters
  <2>5. CASE StartReturns(s)
    BY <2>5 DEF StartReturns, Enters, fileVars
  <2> QED BY <1>2, <2>1, <2>2, <2>3, <2>4, <2>5 DEF StartStep
<1>3. ASSUME NEW s \in Sessions, StopStep(s)
      PROVE  ManifestInv'
  <2>1. CASE StopBegins(s) \/ StopRecords(s) \/ StopAgain(s)
    BY <2>1 DEF StopBegins, StopRecords, StopAgain, Enters, fileVars
  <2>2. CASE StopCloses(s) \/ StopReturns(s)
    BY <2>2 DEF StopCloses, StopReturns, Enters
  <2> QED BY <1>3, <2>1, <2>2 DEF StopStep
<1>4. ASSUME NEW s \in Sessions, ActionRecorded(s) \/ ActionUnrecorded(s) \/ Pruned(s)
      PROVE  ManifestInv'
  BY <1>4 DEF ActionRecorded, ActionUnrecorded, Pruned, fileVars
<1>5. CASE Killed
  BY <1>5 DEF Killed, Forgotten
<1>6. CASE PowerFails
  BY <1>6 DEF PowerFails, Forgotten
<1> QED BY <1>1, <1>2, <1>3, <1>4, <1>5, <1>6 DEF TraceNext

LEMMA CrashesStep ==
  ASSUME crashes \in 0..MaxCrashes, TraceNext
  PROVE  crashes' \in 0..MaxCrashes
<1>1. crashes' = crashes \/ (crashes < MaxCrashes /\ crashes' = crashes + 1)
  BY DEF TraceNext, FileStep, FileCreated, FileSynced, FileRenamed, DirectorySynced, FileFails,
     Elsewhere, InPlace, StartStep, StartBegins, StartManifested, StartOpens, TargetUnavailable,
     LockHeld, TargetResolved, StartReturns, StartDropped, Refused, StopStep, StopBegins,
     StopRecords, StopCloses, StopReturns, StopAgain, ActionRecorded, ActionUnrecorded, Pruned,
     Killed, PowerFails, Forgotten
<1> QED BY <1>1, TraceAssumption

-----------------------------------------------------------------------------
TraceInv == TraceTypeOK /\ ManifestInv /\ RecordInv

LEMMA TraceInvStep == TraceInv /\ [TraceNext]_storeVars => TraceInv'
<1>1. ASSUME TraceInv, TraceNext PROVE TraceInv'
  <2>1. StagesOK /\ FilesOK /\ RecordsOK /\ crashes \in 0..MaxCrashes
    BY <1>1, TypesSplit DEF TraceInv
  <2>2. StagesOK' /\ FilesOK' /\ RecordsOK' /\ crashes' \in 0..MaxCrashes
    BY <1>1, <2>1, StagesStep, FilesStep, LinesStep, CrashesStep DEF TraceInv
  <2>3. TraceTypeOK'
    BY <2>2 DEF TraceTypeOK, StagesOK, FilesOK, RecordsOK
  <2> QED BY <1>1, <2>1, <2>3, LinesStep, ManifestsStep DEF TraceInv
<1>2. ASSUME TraceInv, UNCHANGED storeVars PROVE TraceInv'
  BY <1>2 DEF TraceInv, TraceTypeOK, ManifestInv, RecordInv, Recording, WriteFits, NoHalves,
     PromiseKept, NoneWhenRefused, Durable, storeVars, fileVars, recordVars, reportVars
<1> QED BY <1>1, <1>2

LEMMA TraceInvAlways == TraceSpec => []TraceInv
<1>1. TraceInit => TraceInv
  BY TraceTypesInit DEF TraceInv
<1> QED BY <1>1, TraceInvStep, PTL DEF TraceSpec

\* Every variable of the trace store has its type, for any sessions and bounds.
THEOREM TraceTypes == TraceSpec => []TraceTypeOK
<1>1. TraceInv => TraceTypeOK
  BY DEF TraceInv
<1> QED BY <1>1, TraceInvAlways, PTL

\* A manifest is never half a file, the holder of a disclosed token keeps access
\* to the trace, and a refused start leaves no manifest, whatever fails, is
\* killed or loses its power, and whenever.
THEOREM ManifestsStand == TraceSpec => []ManifestsMatchSessions
<1>1. TraceInv => ManifestsMatchSessions
  BY DEF TraceInv, ManifestInv, NoHalves, PromiseKept, NoneWhenRefused, Durable, Whole,
     ManifestsMatchSessions, ManifestWhole, HolderKeepsAccess, RefusedLeavesNoRecord, TraceGet,
     Admits, Parsed
<1> QED BY <1>1, TraceInvAlways, PTL

\* While a required recorder is open, every action that succeeded has its line.
THEOREM SuccessIsRecorded == TraceSpec => []RequiredMeansRecorded
<1>1. TraceInv => RequiredMeansRecorded
  BY DEF TraceInv, RecordInv, Recording, RequiredMeansRecorded
<1> QED BY <1>1, TraceInvAlways, PTL

-----------------------------------------------------------------------------
(* The four parts side by side.  The traces and the hosts take the steps of *)
(* their own specifications, whichever part runs; the authority and the     *)
(* commands share a daemon, so theirs hold of the part that runs.           *)

LEMMA CustodyRunsItsParts == CustodySpec => TraceSpec /\ HostSpec
<1>1. CustodyInit => TraceInit /\ HostInit
  BY DEF CustodyInit
<1>2. [CustodyNext]_custodyVars => [TraceNext]_storeVars /\ [HostNext]_sessionVars
  BY DEF CustodyNext, custodyVars
<1> QED BY <1>1, <1>2, PTL DEF CustodySpec, TraceSpec, HostSpec

\* What the tokens and the commands rest on, in the part that runs.
DaemonFits == (part = "authority" => Agreement) /\ (part = "commands" => CuInv)

LEMMA DaemonFitsInit == CustodyInit => DaemonFits
<1> SUFFICES ASSUME CustodyInit PROVE DaemonFits
  OBVIOUS
<1>1. CASE part = "authority"
  <2>1. files = {} /\ CuInit
    BY <1>1 DEF CustodyInit
  <2>2. AuthorityInit
    BY <2>1 DEF CuInit, AuthorityInit
  <2> QED BY <1>1, <2>2, AgreementInit DEF DaemonFits
<1>2. CASE part # "authority"
  BY <1>2, CuInvInit DEF CustodyInit, DaemonFits
<1> QED BY <1>1, <1>2

LEMMA DaemonFitsStep == DaemonFits /\ [CustodyNext]_custodyVars => DaemonFits'
<1> SUFFICES ASSUME DaemonFits, [CustodyNext]_custodyVars PROVE DaemonFits'
  OBVIOUS
<1>1. part' = part
  BY DEF CustodyNext, custodyVars
<1>2. CASE part = "authority"
  <2>1. [AuthorityNext]_authorityVars
    BY <1>2 DEF CustodyNext, custodyVars, cuVars, authorityVars
  <2> QED BY <1>1, <1>2, <2>1, AgreementStep DEF DaemonFits
<1>3. CASE part = "commands"
  <2>1. [CuNext]_cuVars
    BY <1>3 DEF CustodyNext, custodyVars
  <2> QED BY <1>1, <1>3, <2>1, CuInvStep DEF DaemonFits
<1>4. CASE part \notin {"authority", "commands"}
  BY <1>1, <1>4 DEF DaemonFits
<1> QED BY <1>2, <1>3, <1>4

\* Every variable of what a session leaves on disk, of what the hosts hold, of
\* the tokens and of the commands of cu has its type when its part runs.
THEOREM CustodyIsTyped == CustodySpec => []CustodyTypeOK
<1>1. TraceTypeOK /\ HostTypeOK /\ DaemonFits => CustodyTypeOK
  BY DEF CustodyTypeOK, DaemonFits, Agreement, CuInv
<1>2. CustodySpec => []DaemonFits
  BY DaemonFitsInit, DaemonFitsStep, PTL DEF CustodySpec
<1> QED BY <1>1, <1>2, CustodyRunsItsParts, TraceTypes, HostsAreTyped, PTL

=============================================================================
