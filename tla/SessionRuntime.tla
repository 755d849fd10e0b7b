--------------------------- MODULE SessionRuntime ---------------------------
(***************************************************************************)
(* The session runtime of the daemon (crates/cu-runtime): the lifecycle of *)
(* sessions, the global control lock, the act and observe requests that    *)
(* run under a session, the session-control calls, shutdown, and the Event *)
(* Tap thread that reports real human input.                               *)
(*                                                                         *)
(* Requests run concurrently on a multi-threaded executor and the Event    *)
(* Tap is an OS thread of its own, so an action below is one critical      *)
(* section (one lock acquisition or atomic access, with what commutes with *)
(* it), and every request keeps a program counter.  In particular          *)
(* Session::transition is NOT atomic: it reads the state, stores the new   *)
(* one and updates the flags and the batch tokens under different locks;   *)
(* `stage' says how far each thread is in it.                              *)
(*                                                                         *)
(* Request identifiers are used once.  A request that is refused without   *)
(* changing anything (bad token, wrong state) is not a step.               *)
(***************************************************************************)
EXTENDS Naturals, FiniteSets

CONSTANTS Sessions,        \* ids of the sessions that may be started
          Acts,            \* computer.act requests
          Observes,        \* computer.observe requests
          Calls,           \* session-control requests (pause, ..., stop)
          Main,            \* the thread that runs Runtime::shutdown
          Tap,             \* the Event Tap thread
          None,            \* no session, no request
          MaxActions,      \* bound: actions in one batch
          MaxEvents,       \* bound: real human events
          TakeoverPolicy   \* RuntimeConfig.takeover_policy

Requests == Acts \cup Observes
Stoppers == Calls \cup {Main}
Threads  == Requests \cup Stoppers \cup {Tap}

ASSUME SessionRuntimeAssumption ==
  /\ None \notin Sessions \cup Threads
  /\ Acts \cap Observes = {} /\ Requests \cap Calls = {}
  /\ Main # Tap /\ {Main, Tap} \cap (Requests \cup Calls) = {}
  /\ MaxActions \in Nat \ {0} /\ MaxEvents \in Nat
  /\ TakeoverPolicy \in {"Ignore", "AutoPause", "ImmediateTakeover"}

VARIABLES
  holder,          \* ControlLock.holder
  start,           \* how far session_start has got, per session
  state,           \* Session.state
  paused,          \* Session.paused
  userTakeover,    \* Session.user_takeover
  busy,            \* Session.busy: the request that holds it
  pc, on,          \* per thread: where it is, on which session
  stage, op,       \* per thread: progress in transition(), and for what
  left,            \* actions the batch has yet to run
  token,           \* the batch's cancellation token
  seen,            \* human-event generation read when a click is armed
  heuristic,       \* the batch runs without an authoritative Event Tap
  pendingReal,     \* HumanInputMonitor.pending_real_takeover
  generation,      \* HumanInputMonitor.human_event_generation
  tapActive,       \* the Event Tap delivers events
  shuttingDown,    \* Runtime.shutting_down
  todo,            \* sessions shutdown has yet to stop
  stopped,         \* history: sessions that have been set to Stopped
  late,            \* history: actions the batch posted once cancelled
  after            \* history: actions the batch posted during this takeover

lockVars     == <<holder, start>>
sessionVars  == <<state, paused, userTakeover>>
transVars    == <<stage, op>>
batchVars    == <<left, seen, heuristic>>
humanVars    == <<pendingReal, generation>>
shutdownVars == <<shuttingDown, todo>>
countVars    == <<late, after>>
vars == <<lockVars, sessionVars, busy, pc, on, transVars, batchVars, token,
          humanVars, tapActive, shutdownVars, stopped, countVars>>

SessionStates == {"Active", "Paused", "UserTakeover", "Stopping", "Stopped"}
StartStates   == {"unborn", "opening", "locked", "live", "issued", "orphaned",
                  "rejected"}
Stages        == {"idle", "check", "set", "effects"}
Tokens        == {"none", "live", "cancelled"}
Ops           == {"none", "pause", "resume", "takeover", "release", "stop"}
PCs           == {"unsent", "gated", "queued", "prepare", "loop", "check",
                  "arming", "posting", "posted", "waiting", "settle", "final",
                  "capture", "leave", "done", "cancelling", "closing",
                  "marking", "releasing", "snapshot", "draining", "idle",
                  "hook"}

\* Program points of an act that holds the session's busy lock.
Working  == {"prepare", "loop", "check", "arming", "posting", "posted",
             "waiting", "settle", "final", "capture", "leave"}
\* Sessions the runtime can find in its map.
Inserted == {s \in Sessions : start[s] \in {"live", "issued", "orphaned"}}

Init ==
  /\ holder = None
  /\ start = [s \in Sessions |-> "unborn"]
  /\ state = [s \in Sessions |-> "Active"]
  /\ paused = [s \in Sessions |-> FALSE]
  /\ userTakeover = [s \in Sessions |-> FALSE]
  /\ busy = [s \in Sessions |-> None]
  /\ pc = [p \in Threads |-> IF p = Tap THEN "idle" ELSE "unsent"]
  /\ on = [p \in Threads |-> None]
  /\ op = [p \in Threads |-> "none"]
  /\ stage = [p \in Threads |-> "idle"]
  /\ left = [a \in Acts |-> 0]
  /\ token = [a \in Acts |-> "none"]
  /\ seen = [a \in Acts |-> 0]
  /\ heuristic = [a \in Acts |-> FALSE]
  /\ pendingReal = FALSE
  /\ generation = 0
  /\ tapActive \in BOOLEAN
  /\ shuttingDown = FALSE
  /\ todo = {}
  /\ stopped = {}
  /\ late = [a \in Acts |-> 0]
  /\ after = [a \in Acts |-> 0]

Goto(p, to)       == pc' = [pc EXCEPT ![p] = to]
Step(p, from, to) == pc[p] = from /\ Goto(p, to)

-----------------------------------------------------------------------------
(* Session::transition, run by any thread p on session on[p].              *)

Legal(current, next) ==
  \/ next = "Active" /\ current \in {"Active", "Paused", "UserTakeover"}
  \/ next = "Paused" /\ current = "Active"
  \/ next = "UserTakeover" /\ current \in {"Active", "Paused"}
  \/ next \in {"Stopping", "Stopped"}

\* Session::cancel_in_flight: every registered batch token of s.
Cancelled(s) ==
  [a \in Acts |-> IF on[a] = s /\ token[a] = "live" THEN "cancelled"
                  ELSE token[a]]

\* The state each operation asks for.
Target(name) ==
  CASE name = "pause"    -> "Paused"
    [] name = "takeover" -> "UserTakeover"
    [] name = "stop"     -> "Stopping"
    [] OTHER             -> "Active"

BeginTransition(p, s, name) ==
  /\ stage' = [stage EXCEPT ![p] = "check"]
  /\ op' = [op EXCEPT ![p] = name]
  /\ on' = [on EXCEPT ![p] = s]

\* The thread is done with the session too if the transition was all it did.
EndTransition(p) ==
  /\ stage' = [stage EXCEPT ![p] = "idle"]
  /\ op' = [op EXCEPT ![p] = "none"]
  /\ on' = [on EXCEPT ![p] = IF pc[p] \in {"done", "idle"} THEN None ELSE @]

\* An illegal transition is an error that changes nothing.
TransitionCheck(p) ==
  /\ stage[p] = "check"
  /\ \/ /\ Legal(state[on[p]], Target(op[p]))
        /\ stage' = [stage EXCEPT ![p] = "set"]
        /\ UNCHANGED <<on, op>>
     \/ /\ ~Legal(state[on[p]], Target(op[p]))
        /\ EndTransition(p)
  /\ UNCHANGED <<lockVars, sessionVars, busy, pc, batchVars, token, humanVars,
                 tapActive, shutdownVars, stopped, countVars>>

TransitionSet(p) ==
  /\ stage[p] = "set"
  /\ stage' = [stage EXCEPT ![p] = "effects"]
  /\ state' = [state EXCEPT ![on[p]] = Target(op[p])]
  /\ UNCHANGED <<lockVars, paused, userTakeover, busy, pc, on, op, batchVars,
                 token, humanVars, tapActive, shutdownVars, stopped, countVars>>

\* The flags, and the cancellation of the batches unless the target is Active.
TransitionEffects(p) ==
  LET s == on[p]  next == Target(op[p]) IN
  /\ stage[p] = "effects"
  /\ EndTransition(p)
  /\ paused' = [paused EXCEPT ![s] =
                  next = "Paused" \/ (@ /\ next = "Stopping")]
  /\ userTakeover' = [userTakeover EXCEPT ![s] =
                        next = "UserTakeover" \/ (@ /\ next # "Active")]
  /\ token' = IF next = "Active" THEN token ELSE Cancelled(s)
  /\ after' = [a \in Acts |-> IF next = "Active" /\ on[a] = s THEN 0
                             ELSE after[a]]
  /\ UNCHANGED <<lockVars, state, busy, pc, batchVars, humanVars, tapActive,
                 shutdownVars, stopped, late>>

Transition(p) == TransitionCheck(p) \/ TransitionSet(p) \/ TransitionEffects(p)

-----------------------------------------------------------------------------
(* Runtime::session_start.  The dispatcher has checked shutting_down; then *)
(* the call waits for the driver and the trace before it takes the lock.   *)

StartOpen(s) ==
  /\ ~shuttingDown
  /\ start[s] = "unborn"
  /\ start' = [start EXCEPT ![s] = "opening"]
  /\ UNCHANGED <<holder, sessionVars, busy, pc, on, transVars, batchVars,
                 token, humanVars, tapActive, shutdownVars, stopped, countVars>>

\* Mutant: a session that is being stopped no longer counts as the holder.
LockFreeOnceStopping == holder \notin {s \in Sessions : state[s] # "Stopping"}

\* ControlLock::try_acquire: CONTROL_LOCKED when another session holds it.
LockFree == holder = None

\* A required trace or a target that does not resolve also rejects the start.
StartAcquire(s) ==
  /\ start[s] = "opening"
  /\ \/ /\ LockFree
        /\ holder' = s
        /\ start' = [start EXCEPT ![s] = "locked"]
     \/ /\ holder' = holder
        /\ start' = [start EXCEPT ![s] = "rejected"]
  /\ UNCHANGED <<sessionVars, busy, pc, on, transVars, batchVars, token,
                 humanVars, tapActive, shutdownVars, stopped, countVars>>

StartInsert(s) ==
  /\ start[s] = "locked"
  /\ start' = [start EXCEPT ![s] = "live"]
  /\ UNCHANGED <<holder, sessionVars, busy, pc, on, transVars, batchVars,
                 token, humanVars, tapActive, shutdownVars, stopped, countVars>>

\* The response carries the only copy of the session's tokens.
StartReturn(s) ==
  /\ start[s] = "live"
  /\ start' = [start EXCEPT ![s] = "issued"]
  /\ UNCHANGED <<holder, sessionVars, busy, pc, on, transVars, batchVars,
                 token, humanVars, tapActive, shutdownVars, stopped, countVars>>

\* The request deadline drops the call at one of its awaits and recycles the
\* driver (restart_bridge), which also ends the Event Tap.
StartTimeout(s) ==
  /\ \/ /\ start[s] = "opening"
        /\ start' = [start EXCEPT ![s] = "rejected"]
     \/ /\ start[s] = "live"
        /\ start' = [start EXCEPT ![s] = "orphaned"]
  /\ tapActive' = FALSE
  /\ UNCHANGED <<holder, sessionVars, busy, pc, on, transVars, batchVars,
                 token, humanVars, shutdownVars, stopped, countVars>>

-----------------------------------------------------------------------------
(* Pause, resume, takeover and release: each verifies the token and the    *)
(* state, then runs transition(), which reads the state again.             *)

Addressable(s) == start[s] = "issued" /\ ~shuttingDown

CallTransition(c, s, name) ==
  /\ Addressable(s)
  /\ Step(c, "unsent", "done")
  /\ BeginTransition(c, s, name)
  /\ UNCHANGED <<lockVars, sessionVars, busy, batchVars, token, humanVars,
                 tapActive, shutdownVars, stopped, countVars>>

SessionPause(c, s) ==
  /\ state[s] \notin {"Stopping", "Stopped"}
  /\ CallTransition(c, s, "pause")

SessionResume(c, s) ==
  /\ state[s] = "Paused"
  /\ CallTransition(c, s, "resume")

SessionTakeover(c, s) ==
  /\ state[s] \notin {"Stopping", "Stopped"}
  /\ CallTransition(c, s, "takeover")

SessionRelease(c, s) ==
  /\ state[s] = "UserTakeover"
  /\ CallTransition(c, s, "release")

\* computer.cancel: the checks, a trace event, then every batch of the session
\* or the one that is named.
SessionCancel(c, s) ==
  /\ Addressable(s)
  /\ state[s] \notin {"Stopping", "Stopped"}
  /\ Step(c, "unsent", "cancelling")
  /\ on' = [on EXCEPT ![c] = s]
  /\ UNCHANGED <<lockVars, sessionVars, busy, transVars, batchVars, token,
                 humanVars, tapActive, shutdownVars, stopped, countVars>>

CancelTokens(c) ==
  /\ Step(c, "cancelling", "done")
  /\ on' = [on EXCEPT ![c] = None]
  /\ \/ token' = Cancelled(on[c])
     \/ \E a \in Acts : /\ on[a] = on[c] /\ token[a] = "live"
                        /\ token' = [token EXCEPT ![a] = "cancelled"]
  /\ UNCHANGED <<lockVars, sessionVars, busy, transVars, batchVars, humanVars,
                 tapActive, shutdownVars, stopped, countVars>>

-----------------------------------------------------------------------------
(* Runtime::stop_session, run for session.stop and by shutdown.            *)

Returned(c) == IF c = Main THEN "draining" ELSE "done"

\* Mutant: a stop of a session that is already stopping waits for that stop.
StopSessionWaits(c, s) ==
  \/ /\ state[s] = "Stopped"
     /\ Goto(c, Returned(c))
     /\ UNCHANGED <<on, transVars>>
  \/ /\ state[s] \notin {"Stopping", "Stopped"}
     /\ Goto(c, "closing")
     /\ BeginTransition(c, s, "stop")

\* A stopped session reports Ok at once; one that another caller is stopping
\* is marked stopped here, without waiting for that caller.
StopSession(c, s) ==
  \/ /\ state[s] = "Stopped"
     /\ Goto(c, Returned(c))
     /\ UNCHANGED <<on, transVars>>
  \/ /\ state[s] = "Stopping"
     /\ Goto(c, "marking")
     /\ on' = [on EXCEPT ![c] = s]
     /\ UNCHANGED transVars
  \/ /\ state[s] \notin {"Stopping", "Stopped"}
     /\ Goto(c, "closing")
     /\ BeginTransition(c, s, "stop")

SessionStop(c, s) ==
  /\ Addressable(s)
  /\ pc[c] = "unsent"
  /\ StopSession(c, s)
  /\ UNCHANGED <<lockVars, sessionVars, busy, batchVars, token, humanVars,
                 tapActive, shutdownVars, stopped, countVars>>

\* Overlay hidden, trace closed, manifest stamped: set_state(Stopped).
MarkStopped(c) ==
  /\ pc[c] \in {"closing", "marking"} /\ stage[c] = "idle"
  /\ Goto(c, "releasing")
  /\ state' = [state EXCEPT ![on[c]] = "Stopped"]
  /\ stopped' = stopped \cup {on[c]}
  /\ UNCHANGED <<lockVars, paused, userTakeover, busy, on, transVars,
                 batchVars, token, humanVars, tapActive, shutdownVars, countVars>>

\* Mutants: the lock is cleared whoever holds it; the lock is kept.
ReleasedByAnyone(s) == None
NeverReleased(s)    == holder

\* ControlLock::release: only if this session still holds it.
Released(s) == IF holder = s THEN None ELSE holder

ReleaseLock(c) ==
  /\ Step(c, "releasing", Returned(c))
  /\ holder' = Released(on[c])
  /\ on' = [on EXCEPT ![c] = None]
  /\ UNCHANGED <<start, sessionVars, busy, transVars, batchVars, token,
                 humanVars, tapActive, shutdownVars, stopped, countVars>>

\* The deadline drops a stop while it waits for the overlay or the trace.
StopTimeout(c) ==
  /\ stage[c] = "idle"
  /\ Step(c, "closing", "done")
  /\ on' = [on EXCEPT ![c] = None]
  /\ tapActive' = FALSE
  /\ UNCHANGED <<lockVars, sessionVars, busy, transVars, batchVars,
                 token, humanVars, shutdownVars, stopped, countVars>>

-----------------------------------------------------------------------------
(* Runtime::shutdown.                                                      *)

ShutdownBegin ==
  /\ Step(Main, "unsent", "snapshot")
  /\ shuttingDown' = TRUE
  /\ UNCHANGED <<lockVars, sessionVars, busy, on, transVars, batchVars,
                 token, humanVars, tapActive, todo, stopped, countVars>>

ShutdownSnapshot ==
  /\ Step(Main, "snapshot", "draining")
  /\ todo' = Inserted
  /\ UNCHANGED <<lockVars, sessionVars, busy, on, transVars, batchVars,
                 token, humanVars, tapActive, shuttingDown, stopped, countVars>>

ShutdownStop ==
  \E s \in todo :
    /\ pc[Main] = "draining"
    /\ todo' = todo \ {s}
    /\ StopSession(Main, s)
    /\ UNCHANGED <<lockVars, sessionVars, busy, batchVars, token, humanVars,
                   tapActive, shuttingDown, stopped, countVars>>

\* driver.shutdown: the bridge and the Event Tap go away.
ShutdownDriver ==
  /\ todo = {}
  /\ Step(Main, "draining", "done")
  /\ tapActive' = FALSE
  /\ UNCHANGED <<lockVars, sessionVars, busy, on, transVars, batchVars,
                 token, humanVars, shutdownVars, stopped, countVars>>

-----------------------------------------------------------------------------
(* Requests that use the session: gate, wait for the busy lock, work, and  *)
(* give everything back (BatchScope and the busy guard) however they end.  *)

\* Runtime::gate_active, after the token is verified.
Gate(r, s) ==
  /\ Addressable(s)
  /\ state[s] = "Active"
  /\ pc[r] = "unsent"
  /\ on' = [on EXCEPT ![r] = s]
  /\ UNCHANGED <<lockVars, sessionVars, busy, transVars, batchVars, token,
                 humanVars, tapActive, shutdownVars, stopped, countVars>>

ActGate(a, s) == Gate(a, s) /\ Goto(a, "gated")

\* An observe registers no token: it goes straight to the busy lock.
ObserveGate(o, s) == Gate(o, s) /\ Goto(o, "queued")

\* The guards drop: the busy lock, the batch token, the request's locals.
Reset(f, r, v) == [x \in DOMAIN f |-> IF x = r THEN v ELSE f[x]]

\* Mutant: the busy lock is not given back.
NotUnlocked(r) == busy

Unlocked(r) == [s \in Sessions |-> IF busy[s] = r THEN None ELSE busy[s]]

Finish(r) ==
  /\ Goto(r, "done")
  /\ on' = Reset(on, r, None)
  /\ busy' = Unlocked(r)
  /\ token' = Reset(token, r, "none")
  /\ left' = Reset(left, r, 0)
  /\ seen' = Reset(seen, r, 0)
  /\ heuristic' = Reset(heuristic, r, FALSE)
  /\ late' = Reset(late, r, 0)
  /\ after' = Reset(after, r, 0)

\* begin_batch: a fresh child token, on the session's list of batch tokens.
ActRegister(a) ==
  /\ Step(a, "gated", "queued")
  /\ token' = [token EXCEPT ![a] = "live"]
  /\ \E n \in 1..MaxActions : left' = [left EXCEPT ![a] = n]
  /\ UNCHANGED <<lockVars, sessionVars, busy, on, transVars, seen,
                 heuristic, humanVars, tapActive, shutdownVars, stopped, countVars>>

\* Mutant: the busy lock is not waited for.
NotWaiting(s) == TRUE

\* session.busy can be taken.
NotBusy(s) == busy[s] = None

\* The busy lock is free: cancelled while queued -> CANCELLED; the session no
\* longer holds the control lock -> CONTROL_LOCKED.
ActAdmit(a) ==
  /\ pc[a] = "queued" /\ NotBusy(on[a])
  /\ \/ /\ token[a] = "cancelled" \/ holder # on[a]
        /\ Finish(a)
     \/ /\ token[a] = "live" /\ holder = on[a]
        /\ Goto(a, "prepare")
        /\ busy' = [busy EXCEPT ![on[a]] = a]
        /\ UNCHANGED <<on, batchVars, token, countVars>>
  /\ UNCHANGED <<lockVars, sessionVars, transVars, humanVars, tapActive,
                 shutdownVars, stopped>>

ObserveAdmit(o) ==
  /\ Step(o, "queued", "capture")
  /\ NotBusy(on[o])
  /\ busy' = [busy EXCEPT ![on[o]] = o]
  /\ UNCHANGED <<lockVars, sessionVars, on, transVars, batchVars, token,
                 humanVars, tapActive, shutdownVars, stopped, countVars>>

\* Validation, confirmation, frame lookup, target refresh, stale check and
\* bounds either refuse the batch or let it run.
ActPrepare(a) ==
  /\ pc[a] = "prepare"
  /\ \/ /\ Goto(a, "loop")
        /\ heuristic' = [heuristic EXCEPT ![a] = ~tapActive]
        /\ UNCHANGED <<on, busy, token, left, seen, countVars>>
     \/ Finish(a)
  /\ UNCHANGED <<lockVars, sessionVars, transVars, humanVars, tapActive,
                 shutdownVars, stopped>>

\* consume_real_takeover: swap the flag to false; if it was set, enter
\* UserTakeover and continue at `drained', the rest of the batch cancelled.
Consume(a, drained) ==
  /\ pendingReal
  /\ pendingReal' = FALSE
  /\ Goto(a, drained)
  /\ BeginTransition(a, on[a], "takeover")
  /\ UNCHANGED <<lockVars, sessionVars, busy, batchVars, token, generation,
                 tapActive, shutdownVars, stopped, countVars>>

\* Mutant: the takeover flag is not consulted.
AbortedUnlessTakenOver(s) == paused[s] \/ state[s] \in {"Stopping", "Stopped"}

\* ActionQueue::session_aborted.
Aborted(s) == paused[s] \/ userTakeover[s] \/ state[s] \in {"Stopping", "Stopped"}

\* Mutant: only the session's state halts a batch, not its own token.
HaltedBySession(a) == Aborted(on[a])

Halted(a) == token[a] = "cancelled" \/ Aborted(on[a])

Move(a, to) ==
  /\ Goto(a, to)
  /\ UNCHANGED <<lockVars, sessionVars, busy, on, transVars, batchVars,
                 token, humanVars, tapActive, shutdownVars, stopped, countVars>>

\* Top of the queue's loop: the human first ...
LoopConsume(a) ==
  /\ pc[a] = "loop"
  /\ Consume(a, "settle") \/ (~pendingReal /\ Move(a, "check"))

\* ... then the token and the session; then the guards of this action (policy,
\* focus, resolution, target bounds), which may end the batch.  A click is
\* armed with the current generation; type, key, drag and scroll are posted; a
\* virtual move touches no input device; a wait polls.
LoopCheck(a) ==
  /\ pc[a] = "check"
  /\ \/ Halted(a) /\ Move(a, "settle")
     \/ /\ ~Halted(a)
        /\ \/ \E to \in {"posting", "posted", "waiting", "settle"} : Move(a, to)
           \/ /\ Goto(a, "arming")
              /\ seen' = [seen EXCEPT ![a] = generation]
              /\ UNCHANGED <<lockVars, sessionVars, busy, on, transVars,
                             left, heuristic, token, humanVars, tapActive,
                             shutdownVars, stopped, countVars>>

\* human_grabbed: the token fired or the generation moved since the snapshot.
Grabbed(a) == token[a] = "cancelled" \/ generation # seen[a]

\* The hit-test is back: occluded or grabbed, the click fails without input.
ClickCheck(a) ==
  /\ pc[a] = "arming"
  /\ Goto(a, "posted") \/ (~Grabbed(a) /\ Goto(a, "posting"))
  /\ seen' = [seen EXCEPT ![a] = 0]
  /\ UNCHANGED <<lockVars, sessionVars, busy, on, transVars, left, heuristic,
                 token, humanVars, tapActive, shutdownVars, stopped, countVars>>

\* The driver posts the input.
Post(a) ==
  /\ Step(a, "posting", "posted")
  /\ late' = [late EXCEPT ![a] = IF token[a] = "cancelled" THEN @ + 1 ELSE @]
  /\ after' = [after EXCEPT ![a] = IF userTakeover[on[a]] THEN @ + 1 ELSE @]
  /\ UNCHANGED <<lockVars, sessionVars, busy, on, transVars, batchVars, token,
                 humanVars, tapActive, shutdownVars, stopped>>

\* A wait ends at its deadline or is interrupted, which ends the batch.
WaitPoll(a) ==
  /\ pc[a] = "waiting"
  /\ \/ Consume(a, "settle")
     \/ ~pendingReal /\ Halted(a) /\ Move(a, "settle")
     \/ Move(a, "posted")

\* Mutant: the batch runs one action more than it has.
FollowingOffByOne(a) == IF left[a] > 0 THEN "loop" ELSE "settle"

\* Where the batch goes after the action it has just run.
Following(a) == IF left[a] > 1 THEN "loop" ELSE "settle"

\* The action's report, then its trace event, whose failure fails the batch.
\* Whether the action succeeded does not matter: the loop goes on.
ActNext(a) ==
  /\ pc[a] = "posted"
  /\ \/ /\ left' = [left EXCEPT ![a] = @ - 1]
        /\ Goto(a, Following(a))
        /\ UNCHANGED <<on, busy, token, seen, heuristic, countVars>>
     \/ Finish(a)
  /\ UNCHANGED <<lockVars, sessionVars, transVars, humanVars, tapActive,
                 shutdownVars, stopped>>

\* Without an authoritative Event Tap a pointer jump counts as a grab:
\* apply_takeover obeys the policy, and the rest of the batch is cancelled.
HeuristicGrab(a) ==
  /\ heuristic[a]
  /\ Step(a, "posted", "settle")
  /\ IF TakeoverPolicy = "Ignore"
     THEN UNCHANGED <<on, transVars>>
     ELSE BeginTransition(a, on[a], IF TakeoverPolicy = "AutoPause"
                                    THEN "pause" ELSE "takeover")
  /\ UNCHANGED <<lockVars, sessionVars, busy, batchVars, token, humanVars,
                 tapActive, shutdownVars, stopped, countVars>>

\* The wait policy after the batch: cancelled, taken over, or waited out.
Settle(a) ==
  /\ pc[a] = "settle" /\ stage[a] = "idle"
  /\ \/ Consume(a, "leave")
     \/ Move(a, "final")
     \/ /\ token[a] = "cancelled"
        /\ Move(a, "leave")

\* The closing snapshot, and the screenshot if asked for and still Active.
Final(a) ==
  /\ pc[a] = "final"
  /\ \/ Move(a, "leave")
     \/ state[on[a]] = "Active" /\ Move(a, "capture")

Exit(r) ==
  /\ Finish(r)
  /\ UNCHANGED <<lockVars, sessionVars, transVars, humanVars, tapActive,
                 shutdownVars, stopped>>

\* observe_inner: capture the screen, store the frame, return.
Capture(r) == pc[r] = "capture" /\ Exit(r)
Leave(a)   == pc[a] = "leave" /\ stage[a] = "idle" /\ Exit(a)

\* The request deadline drops the request at an await: the guards release the
\* busy lock and the token, which is not cancelled, and restart_bridge ends
\* the Event Tap together with the bridge.
RequestTimeout(r) ==
  /\ pc[r] \in (Working \cup {"queued"}) \ {"loop", "check"}
  /\ stage[r] = "idle"
  /\ Finish(r)
  /\ tapActive' = FALSE
  /\ UNCHANGED <<lockVars, sessionVars, transVars, humanVars, shutdownVars,
                 stopped>>

-----------------------------------------------------------------------------
(* HumanInputMonitor::record_human_event and the hook it fires, on the     *)
(* Event Tap thread.                                                       *)

HumanEvent ==
  /\ tapActive /\ generation < MaxEvents
  /\ stage[Tap] = "idle"
  /\ Step(Tap, "idle", "hook")
  /\ pendingReal' = TRUE
  /\ generation' = generation + 1
  /\ UNCHANGED <<lockVars, sessionVars, busy, on, transVars, batchVars,
                 token, tapActive, shutdownVars, stopped, countVars>>

\* Mutant: the hook cancels the batches and leaves the rest to the queue.
HumanHookCancels ==
  /\ Step(Tap, "hook", "idle")
  /\ token' = IF holder \in Inserted THEN Cancelled(holder) ELSE token
  /\ UNCHANGED <<lockVars, sessionVars, busy, on, transVars, batchVars,
                 humanVars, tapActive, shutdownVars, stopped, countVars>>

\* The hook cancels the batches of the lock holder and takes the session over;
\* with no holder, or a holder not yet in the map, it does nothing.
HumanHook ==
  /\ Step(Tap, "hook", "idle")
  /\ IF holder \in Inserted
     THEN /\ token' = Cancelled(holder)
          /\ BeginTransition(Tap, holder, "takeover")
     ELSE UNCHANGED <<token, on, transVars>>
  /\ UNCHANGED <<lockVars, sessionVars, busy, batchVars, humanVars,
                 tapActive, shutdownVars, stopped, countVars>>

-----------------------------------------------------------------------------
ActStep(a) ==
  \/ ActRegister(a) \/ ActAdmit(a) \/ ActPrepare(a)
  \/ LoopConsume(a) \/ LoopCheck(a) \/ ClickCheck(a) \/ Post(a)
  \/ WaitPoll(a) \/ ActNext(a) \/ HeuristicGrab(a)
  \/ Settle(a) \/ Final(a) \/ Capture(a) \/ Leave(a)

ObserveStep(o) == ObserveAdmit(o) \/ Capture(o)

StartStep(s) == StartAcquire(s) \/ StartInsert(s) \/ StartReturn(s)

CallStep(c) == MarkStopped(c) \/ ReleaseLock(c) \/ CancelTokens(c)

ShutdownStep == ShutdownSnapshot \/ ShutdownStop \/ ShutdownDriver

Request(c, s) ==
  \/ SessionPause(c, s) \/ SessionResume(c, s) \/ SessionTakeover(c, s)
  \/ SessionRelease(c, s) \/ SessionCancel(c, s) \/ SessionStop(c, s)

Next ==
  \/ \E p \in Threads : Transition(p)
  \/ \E s \in Sessions : StartOpen(s) \/ StartStep(s) \/ StartTimeout(s)
  \/ \E c \in Calls, s \in Sessions : Request(c, s)
  \/ \E c \in Calls : StopTimeout(c)
  \/ \E c \in Stoppers : CallStep(c)
  \/ ShutdownBegin \/ ShutdownStep
  \/ \E a \in Acts, s \in Sessions : ActGate(a, s)
  \/ \E a \in Acts : ActStep(a)
  \/ \E o \in Observes, s \in Sessions : ObserveGate(o, s)
  \/ \E o \in Observes : ObserveStep(o)
  \/ \E r \in Requests : RequestTimeout(r)
  \/ HumanEvent \/ HumanHook

Spec == Init /\ [][Next]_vars

\* The executor runs every task that can go on, and every driver call ends.
\* Nothing obliges a client to send a request, a person to touch the machine,
\* or a deadline to expire.
Fairness ==
  /\ \A p \in Threads : WF_vars(Transition(p))
  /\ \A s \in Sessions : WF_vars(StartStep(s))
  /\ \A c \in Stoppers : WF_vars(CallStep(c))
  /\ WF_vars(ShutdownStep)
  /\ \A a \in Acts : WF_vars(ActStep(a))
  /\ \A o \in Observes : WF_vars(ObserveStep(o))
  /\ WF_vars(HumanHook)

FairSpec == Spec /\ Fairness

-----------------------------------------------------------------------------
(* Properties.                                                             *)

\* The types of the variables, and what ties a program counter to its thread.
TypeOK ==
  /\ holder \in Sessions \cup {None}
  /\ start \in [Sessions -> StartStates]
  /\ state \in [Sessions -> SessionStates]
  /\ paused \in [Sessions -> BOOLEAN]
  /\ userTakeover \in [Sessions -> BOOLEAN]
  /\ busy \in [Sessions -> Requests \cup {None}]
  /\ pc \in [Threads -> PCs]
  /\ on \in [Threads -> Sessions \cup {None}]
  /\ stage \in [Threads -> Stages]
  /\ op \in [Threads -> Ops]
  /\ left \in [Acts -> 0..MaxActions]
  /\ token \in [Acts -> Tokens]
  /\ seen \in [Acts -> Nat]
  /\ heuristic \in [Acts -> BOOLEAN]
  /\ pendingReal \in BOOLEAN
  /\ generation \in Nat
  /\ tapActive \in BOOLEAN
  /\ shuttingDown \in BOOLEAN
  /\ todo \subseteq Sessions
  /\ stopped \subseteq Sessions
  /\ late \in [Acts -> Nat]
  /\ after \in [Acts -> Nat]

\* A session holds the control lock from its start until it is stopped, so no
\* two unstopped sessions exist, whatever starts, stops, repeated stops,
\* deadlines and shutdown do to each other (ControlLock, stop_session).
LeaseHeld ==
  \A s \in Sessions :
    start[s] \in {"locked", "live", "issued", "orphaned"} /\ s \notin stopped
      => holder = s

\* The control lock, seen with the set of stopped sessions, is the lease that
\* ControlLease describes.
Lease == INSTANCE ControlLease WITH owner <- holder, ended <- stopped
ImplementsLease == Lease!Spec

\* Once its token has fired (cancel, pause, takeover, stop, human event) a
\* batch posts at most the one input it was already committed to.
CancelledBatchOverrun == \A a \in Acts : late[a] <= 1

\* While the person has the session, a batch posts at most the one input it was
\* already committed to, also a batch that registered too late to be cancelled
\* by the takeover (session_aborted).
TakeoverOverrun == \A a \in Acts : after[a] <= 1

\* Batches and observations of one session never interleave (Session::busy).
OneRequestWorks ==
  \A r1, r2 \in Requests :
    pc[r1] \in Working /\ pc[r2] \in Working /\ on[r1] = on[r2] => r1 = r2

\* However a request ends, by return, error or dropped future, the busy lock
\* and its place in batch_tokens are gone with it (BatchScope).
NothingLeaks ==
  /\ \A s \in Sessions : busy[s] # None => pc[busy[s]] \in Working
  /\ \A a \in Acts : token[a] # "none" => pc[a] \in Working \cup {"queued"}

\* An act or observe that was let in comes back, whoever else uses the session.
RequestsReturn ==
  \A r \in Requests : pc[r] # "unsent" ~> pc[r] = "done"

\* A stopped session gives the control lock back, also when the call that began
\* the stop was dropped and a second one completes it.
StoppedReleases == \A s \in Sessions : s \in stopped ~> holder # s

\* Shutdown ends, also over sessions that other calls are stopping.
ShutdownCompletes == shuttingDown ~> pc[Main] = "done"

\* A human event while a session holds control takes it from the agent: it
\* leaves Active, or has been stopped, also when no batch is there to notice
\* the event (install_human_takeover_hook).
HumanEventTakesOver ==
  \A s \in Sessions :
    pc[Tap] = "hook" /\ holder = s /\ s \in Inserted
      ~> state[s] # "Active" \/ s \in stopped

=============================================================================
