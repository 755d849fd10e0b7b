------------------------------- MODULE Frames -------------------------------
(***************************************************************************)
(* How an agent's view of the screen is kept and checked.  An observe      *)
(* stores a frame: the image, where on the desktop it was taken, and a     *)
(* fingerprint.  An act names a frame, and its batch runs only if the      *)
(* screen still looks like it: the frame is looked up, the target window   *)
(* is resolved again, a fingerprint is taken of the place where it is now, *)
(* and the two are compared.  After the batch the stabilizer samples the   *)
(* screen until it is quiet.                                               *)
(*                                                                         *)
(* The frames of every session share one bounded store.  Requests of one   *)
(* session are serialised by its busy lock; a session's stop waits for     *)
(* none of them, so the observes it had queued run on beside the session   *)
(* that comes next.  The screen changes between any two steps.             *)
(***************************************************************************)
EXTENDS Naturals, Sequences

CONSTANTS Viewers,      \* sessions, bound to one and the same window or to none
          NoViewer,     \* no session is active
          StoreLimit,   \* RuntimeConfig::frame_cache_limit
          Required,     \* StabilizerConfig::required_stable_samples
          MaxFrames,    \* bound: frames whose id is minted
          MaxQueued,    \* bound: observes of a session that wait for its lock
          MaxSamples,   \* bound: samples before the stabilizer's max_wait
          MaxChanges    \* bound: changes of the screen

ASSUME FramesAssumption ==
  /\ NoViewer \notin Viewers /\ StoreLimit \in Nat \ {0} /\ Required \in Nat \ {0}
  /\ MaxFrames \in Nat /\ MaxQueued \in Nat /\ MaxSamples \in Nat /\ MaxChanges \in Nat

VARIABLES
  rule,      \* StaleFramePolicy
  scoped,    \* the sessions are bound to a target window
  where,     \* the place of the window on the desktop
  looks,     \* what the window shows
  there,     \* the window exists, with the identity the session was bound to
  changes,   \* how often the screen has changed
  viewing,   \* the active session
  over,      \* the sessions that were stopped
  queued,    \* observes that passed the gate and wait for the busy lock
  doing,     \* what holds a session's busy lock, and how far it has got
  crop,      \* Session::target_bounds
  fresh,     \* the frame that is being taken
  aim,       \* the frame the act refers to, cloned out of the store
  baseline,  \* before_q, the fingerprint an act was judged by, and its region
  samples,   \* the stabilizer's samples, the baseline first
  quiet,     \* stable_samples
  settled,   \* ActResult::stable as the stabilizer reported it
  minted,    \* Runtime::frame_counter
  frame,     \* every frame that was stored, by id
  stored,    \* FrameStore::order: the ids it holds, oldest first
  current    \* Session::current_frame_id, 0 before the first observe

screenVars == <<where, looks, there, changes>>
sessionSet == <<viewing, over, queued>>
lookVars   == <<fresh, aim, baseline>>
settleVars == <<samples, quiet, settled>>
shelfVars  == <<minted, frame, stored, current>>
frameVars  == <<rule, scoped, screenVars, sessionSet, doing, crop, lookVars,
                settleVars, shelfVars>>

FrameIds == 1..MaxFrames
Whole    == 0              \* the region of a capture that is not cropped
Regions  == {Whole, 1, 2}
NoFrame  == [id |-> 0, of |-> NoViewer, at |-> Whole, shows |-> <<>>]
NoPrint  == [at |-> Whole, shows |-> <<>>]
Doings   == {"idle", "refresh", "print", "store", "name", "look", "locate",
             "compare", "run", "settle", "after"}

\* The pixels of a region: the whole desktop, or the window if it is there.
Shown(r) ==
  IF r = Whole THEN <<looks, where>>
  ELSE IF there /\ where = r THEN <<looks>> ELSE <<>>

Pictures == {<<>>} \cup {<<l>> : l \in 1..2} \cup {<<l, w>> : l \in 1..2, w \in 1..2}

\* Whether only the current frame may be acted on, and what the stabilizer says.
Rules == {"strict", "visual_match"}
Settlings == {"none", "stable", "timed_out"}

FramesInit ==
  /\ rule \in Rules /\ scoped \in BOOLEAN
  /\ where = 1 /\ looks = 1 /\ there = TRUE /\ changes = 0
  /\ viewing = NoViewer /\ over = {} /\ queued = [v \in Viewers |-> 0]
  /\ doing = [v \in Viewers |-> "idle"]
  /\ crop = [v \in Viewers |-> Whole]
  /\ fresh = [v \in Viewers |-> NoFrame] /\ aim = [v \in Viewers |-> NoFrame]
  /\ baseline = [v \in Viewers |-> NoPrint]
  /\ samples = [v \in Viewers |-> <<>>]
  /\ quiet = [v \in Viewers |-> 0]
  /\ settled = [v \in Viewers |-> "none"]
  /\ minted = 0 /\ frame = [f \in FrameIds |-> NoFrame]
  /\ stored = <<>>
  /\ current = [v \in Viewers |-> 0]

(***************************************************************************)
(* The screen, and the sessions.                                           *)
(***************************************************************************)
Changed ==
  /\ changes < MaxChanges /\ changes' = changes + 1
  /\ UNCHANGED <<rule, scoped, sessionSet, doing, crop, lookVars, settleVars, shelfVars>>

WindowRedraws ==
  /\ Changed /\ looks' = 3 - looks
  /\ UNCHANGED <<where, there>>

WindowMoves ==
  /\ Changed /\ where' = 3 - where
  /\ UNCHANGED <<looks, there>>

\* It is closed; a window that takes its place has another identity.
WindowCloses ==
  /\ Changed /\ there /\ there' = FALSE
  /\ UNCHANGED <<where, looks>>

\* A session starts, and its target is resolved.
ViewerStarts(v) ==
  /\ viewing = NoViewer /\ v \notin over
  /\ scoped => there
  /\ viewing' = v
  /\ crop' = [crop EXCEPT ![v] = IF scoped THEN where ELSE Whole]
  /\ UNCHANGED <<rule, scoped, screenVars, over, queued, doing, lookVars, settleVars,
                 shelfVars>>

\* A stop waits for no request, and frees the control lock.
ViewerStops(v) ==
  /\ viewing = v /\ viewing' = NoViewer /\ over' = over \cup {v}
  /\ UNCHANGED <<rule, scoped, screenVars, queued, doing, crop, lookVars, settleVars,
                 shelfVars>>

Proceeds(v, from, to) ==
  /\ doing[v] = from
  /\ doing' = [doing EXCEPT ![v] = to]
  /\ UNCHANGED <<rule, scoped, screenVars>>

(***************************************************************************)
(* Observe.                                                                *)
(***************************************************************************)

\* gate_active passes; the request then waits for the busy lock.
ObserveQueued(v) ==
  /\ viewing = v /\ queued[v] < MaxQueued
  /\ queued' = [queued EXCEPT ![v] = queued[v] + 1]
  /\ UNCHANGED <<rule, scoped, screenVars, viewing, over, doing, crop, lookVars,
                 settleVars, shelfVars>>

\* observe_inner consumes an id before it knows that there will be a frame.
Mints(v) ==
  /\ minted < MaxFrames /\ minted' = minted + 1
  /\ fresh' = [fresh EXCEPT ![v] = [NoFrame EXCEPT !.id = minted + 1, !.of = v]]
  /\ UNCHANGED <<frame, stored, current>>

\* It has the busy lock; whether the session is still active is not asked again.
ObserveBegins(v) ==
  /\ queued[v] > 0 /\ queued' = [queued EXCEPT ![v] = queued[v] - 1]
  /\ Proceeds(v, "idle", "refresh") /\ Mints(v)
  /\ UNCHANGED <<viewing, over, crop, aim, baseline, settleVars>>

\* refresh_resolved_target: the window must be there, with the identity the
\* session is bound to, and its bounds become the session's.
Resolves(v) ==
  /\ scoped => there
  /\ crop' = [crop EXCEPT ![v] = IF scoped THEN where ELSE Whole]

ObserveRefreshes(v) ==
  /\ Proceeds(v, "refresh", "print") /\ Resolves(v)
  /\ fresh' = [fresh EXCEPT ![v].at = crop'[v]]
  /\ UNCHANGED <<sessionSet, aim, baseline, settleVars, shelfVars>>

\* The image is captured, and then, from a second capture, the fingerprint that
\* is kept with it.
Prints(v) ==
  /\ Proceeds(v, "print", "store")
  /\ fresh' = [fresh EXCEPT ![v].shows = Shown(fresh[v].at)]
  /\ UNCHANGED <<sessionSet, crop, aim, baseline, settleVars, shelfVars>>

\* A window that cannot be resolved, a capture that fails or has not the size
\* of the crop, a fingerprint that fails: the observe ends without a frame.
ObserveFails(v) ==
  /\ \E d \in {"refresh", "print"} : Proceeds(v, d, "idle")
  /\ fresh' = [fresh EXCEPT ![v] = NoFrame]
  /\ UNCHANGED <<sessionSet, crop, aim, baseline, settleVars, shelfVars>>

\* Mutant: the limit is not enforced.
EvictsNothing(ids) == ids

\* FrameStore::insert and enforce_limit: the oldest frames are dropped.
Evicts(ids) ==
  IF Len(ids) > StoreLimit THEN SubSeq(ids, Len(ids) - StoreLimit + 1, Len(ids)) ELSE ids

Stores(v) ==
  /\ Proceeds(v, "store", "name")
  /\ stored' = Evicts(Append(stored, fresh[v].id))
  /\ frame' = [f \in FrameIds |->
                 IF f = fresh[v].id THEN fresh[v]
                 ELSE IF \E i \in 1..Len(stored') : stored'[i] = f THEN frame[f]
                 ELSE NoFrame]
  /\ UNCHANGED <<sessionSet, crop, lookVars, settleVars, minted, current>>

\* current_frame_id is set after the store's lock was let go.
Names(v) ==
  /\ Proceeds(v, "name", "idle")
  /\ current' = [current EXCEPT ![v] = fresh[v].id]
  /\ fresh' = [fresh EXCEPT ![v] = NoFrame]
  /\ UNCHANGED <<sessionSet, crop, aim, baseline, settleVars, minted, frame, stored>>

\* Inspect takes no busy lock: it refreshes the target beside whatever runs.
Inspects(v) ==
  /\ viewing = v /\ scoped /\ stored # <<>> /\ Resolves(v)
  /\ UNCHANGED <<rule, scoped, screenVars, sessionSet, doing, lookVars, settleVars, shelfVars>>

(***************************************************************************)
(* Act.                                                                    *)
(***************************************************************************)
IsStored(f) == \E i \in 1..Len(stored) : stored[i] = f

\* The frame is looked up by its id alone, and cloned out of the store; an id
\* that is not in it is answered UNKNOWN_FRAME, and nothing has happened.
ActBegins(v) ==
  /\ viewing = v /\ Proceeds(v, "idle", "look")
  /\ \E f \in FrameIds : IsStored(f) /\ aim' = [aim EXCEPT ![v] = frame[f]]
  /\ UNCHANGED <<sessionSet, crop, fresh, baseline, settleVars, shelfVars>>

ActRefreshes(v) ==
  /\ Proceeds(v, "look", "locate") /\ Resolves(v)
  /\ UNCHANGED <<sessionSet, lookVars, settleVars, shelfVars>>

\* The fingerprint is taken where the window is now.
ActPrints(v) ==
  /\ Proceeds(v, "locate", "compare")
  /\ baseline' = [baseline EXCEPT ![v] = [at |-> crop[v], shows |-> Shown(crop[v])]]
  /\ UNCHANGED <<sessionSet, crop, fresh, aim, settleVars, shelfVars>>

\* Mutant: the strict policy forgets to ask for the current frame.
FreshByLook(v) == aim[v].shows = baseline[v].shows

\* StaleFrameChecker::check.
IsFresh(v) ==
  /\ rule = "strict" => aim[v].id = current[v]
  /\ aim[v].shows = baseline[v].shows

ActAccepted(v) ==
  /\ IsFresh(v) /\ Proceeds(v, "compare", "run")
  /\ UNCHANGED <<sessionSet, crop, lookVars, settleVars, shelfVars>>

\* Nothing of a request outlives its answer.
Answered(v, from, to) ==
  /\ Proceeds(v, from, to)
  /\ aim' = [aim EXCEPT ![v] = NoFrame]
  /\ baseline' = [baseline EXCEPT ![v] = NoPrint]
  /\ samples' = [samples EXCEPT ![v] = <<>>]
  /\ quiet' = [quiet EXCEPT ![v] = 0]
  /\ settled' = [settled EXCEPT ![v] = "none"]

\* The target is gone, the screen cannot be read, the frame is stale (or too
\* old), or the action queue ends the batch: the act is answered.
ActRefused(v) ==
  /\ \E d \in {"look", "locate", "compare", "run"} : Answered(v, d, "idle")
  /\ UNCHANGED <<sessionSet, crop, fresh, shelfVars>>

\* The batch is done.  A point of the frame is where the frame was taken; it
\* must be inside the session's bounds, which it may be after a small move too.
\* The stabilizer starts from the fingerprint of before the batch.
ActRuns(v) ==
  /\ viewing = v
  /\ \/ /\ Proceeds(v, "run", "settle")
        /\ samples' = [samples EXCEPT ![v] = <<baseline[v].shows>>]
        /\ UNCHANGED <<quiet, settled>>
     \/ Proceeds(v, "run", "after") /\ UNCHANGED settleVars   \* no wait, or a fixed one
  /\ UNCHANGED <<sessionSet, crop, lookVars, shelfVars>>

LatestOf(s) == s[Len(s)]

\* Mutant: a change does not start the count of quiet samples again.
CountsOn(v, now) == IF now = LatestOf(samples[v]) THEN quiet[v] + 1 ELSE quiet[v]

\* until_stable: how many samples in a row did not differ from the one before.
Counts(v, now) == IF now = LatestOf(samples[v]) THEN quiet[v] + 1 ELSE 0

\* One sample, of the region the act was judged by.
SampleTaken(v) ==
  LET now == Shown(baseline[v].at)
      n   == Counts(v, now)
  IN /\ doing[v] = "settle" /\ viewing = v /\ Len(samples[v]) <= MaxSamples
     /\ samples' = [samples EXCEPT ![v] = Append(samples[v], now)]
     /\ quiet' = [quiet EXCEPT ![v] = n]
     /\ IF n >= Required
        THEN /\ settled' = [settled EXCEPT ![v] = "stable"]
             /\ Proceeds(v, "settle", "after")
        ELSE Proceeds(v, "settle", "settle") /\ UNCHANGED settled
     /\ UNCHANGED <<sessionSet, crop, lookVars, shelfVars>>

\* max_wait has passed.
SettleTimesOut(v) ==
  /\ Proceeds(v, "settle", "after")
  /\ settled' = [settled EXCEPT ![v] = "timed_out"]
  /\ UNCHANGED <<sessionSet, crop, lookVars, samples, quiet, shelfVars>>

\* A stop, a pause or a takeover cancels the wait, or the driver fails.
SettleAborts(v) ==
  /\ Answered(v, "settle", "idle")
  /\ UNCHANGED <<sessionSet, crop, fresh, shelfVars>>

\* The fingerprint of after the batch was compared; the act is answered.
ActReturns(v) ==
  /\ Answered(v, "after", "idle")
  /\ UNCHANGED <<sessionSet, crop, fresh, shelfVars>>

\* return_screenshot: the session is observed again under the same busy lock.
ActObserves(v) ==
  /\ viewing = v /\ Answered(v, "after", "refresh") /\ Mints(v)
  /\ UNCHANGED <<sessionSet, crop>>

ScreenChanges == WindowRedraws \/ WindowMoves \/ WindowCloses

ObserveActs(v) ==
  \/ ObserveQueued(v) \/ ObserveBegins(v) \/ ObserveRefreshes(v)
  \/ Prints(v) \/ ObserveFails(v) \/ Stores(v) \/ Names(v) \/ Inspects(v)

ActSteps(v) ==
  \/ ActBegins(v) \/ ActRefreshes(v) \/ ActPrints(v) \/ ActAccepted(v)
  \/ ActRefused(v) \/ ActRuns(v) \/ SampleTaken(v) \/ SettleTimesOut(v)
  \/ SettleAborts(v) \/ ActReturns(v) \/ ActObserves(v)

FramesNext ==
  \/ ScreenChanges
  \/ \E v \in Viewers : ViewerStarts(v) \/ ViewerStops(v) \/ ObserveActs(v) \/ ActSteps(v)

FramesSpec == FramesInit /\ [][FramesNext]_frameVars

FrameOK ==
  [id : 0..MaxFrames, of : Viewers \cup {NoViewer}, at : Regions, shows : Pictures]

(***************************************************************************)
(* Properties.                                                             *)
(***************************************************************************)

\* Every variable has its type, and the store holds no more than its limit.
FramesTypeOK ==
  /\ rule \in Rules /\ scoped \in BOOLEAN
  /\ where \in 1..2 /\ looks \in 1..2 /\ there \in BOOLEAN /\ changes \in 0..MaxChanges
  /\ viewing \in Viewers \cup {NoViewer} /\ over \subseteq Viewers
  /\ queued \in [Viewers -> 0..MaxQueued] /\ doing \in [Viewers -> Doings]
  /\ crop \in [Viewers -> Regions]
  /\ fresh \in [Viewers -> FrameOK] /\ aim \in [Viewers -> FrameOK]
  /\ baseline \in [Viewers -> [at : Regions, shows : Pictures]]
  /\ samples \in [Viewers -> Seq(Pictures)] /\ quiet \in [Viewers -> 0..Required]
  /\ settled \in [Viewers -> Settlings]
  /\ minted \in 0..MaxFrames /\ frame \in [FrameIds -> FrameOK]
  /\ stored \in Seq(FrameIds) /\ Len(stored) <= StoreLimit
  /\ current \in [Viewers -> 0..MaxFrames]

\* Under the strict policy a batch runs on the session's own newest view: the
\* frame it names was taken by this session, and no observe of the session has
\* put another in its place since, although the frame was looked up several
\* steps before, in a store that every session writes to.
RunsOnNewestView ==
  \A v \in Viewers :
    rule = "strict" /\ doing[v] \in {"run", "settle", "after"} =>
      aim[v].of = v /\ aim[v].id = current[v]

\* "stable" in an act's result means that the last samples were the same as
\* the sample before them, however often the screen changed before.
StableMeansQuiet ==
  \A v \in Viewers :
    settled[v] = "stable" =>
      LET n == Len(samples[v])
      IN n > Required /\ \A i \in (n - Required)..n : samples[v][i] = samples[v][n]

=============================================================================
