------------------------------ MODULE EventTap ------------------------------
(***************************************************************************)
(* The monitor of real human input: a native thread that owns a Core       *)
(* Graphics event tap and its run loop, the state the daemon reports, the  *)
(* watchdog in the getter of that state, and the shutdown that joins the   *)
(* thread.                                                                 *)
(*                                                                         *)
(* The daemon starts the monitor once, at boot, and shuts it down in       *)
(* restart_bridge (for every request that ran into its deadline) and at    *)
(* the end.  The driver's contract lets it start again after a shutdown.   *)
(***************************************************************************)
EXTENDS Naturals

CONSTANTS Pollers,     \* threads that read the state
          Stoppers,    \* threads that shut the driver down, once each
          NoStopper,   \* the thread slot is unlocked
          MaxStarts    \* bound: starts of the monitor

ASSUME EventTapAssumption == NoStopper \notin Stoppers /\ MaxStarts \in Nat

VARIABLES
  tapState,   \* EventTapMonitor::state
  stopFlag,   \* EventTapMonitor::stop
  runloop,    \* EventTapMonitor::runloop: the pointer is set
  slot,       \* EventTapMonitor::thread: the slot holds a handle
  slotLock,   \* the stopper inside shutdown, or NoStopper
  late,       \* TAP_START_GRACE has passed since start
  thread,     \* where the tap thread is
  stopped,    \* CFRunLoopStop has reached the running loop
  sink,       \* GLOBAL_SINK: the start that registered it, 0 for none
  starts,     \* how often the monitor was started
  poll,       \* a poller: idle, or about to store Failed
  stopper     \* where each shutdown is

tapVars == <<tapState, stopFlag, runloop, slot, slotLock, late, thread, stopped,
             sink, starts, poll, stopper>>

TapStates == {"starting", "active", "unavailable", "stopped"}
\* preflight: AXIsProcessTrusted; create: inside CGEventTapCreate, from which
\* some versions of macOS never return; publish: the run loop's pointer is
\* stored; sink: the sink; activate: the state; enter: CFRunLoopRun is next.
ThreadPoints == {"none", "preflight", "create", "publish", "sink", "activate", "enter",
                 "running", "leaving", "final", "ended"}
StopPoints == {"idle", "store", "loop", "joining", "done"}

\* Mutant: the state goes out as it is stored.
Raw == "failed"

\* EventTapState::as_str: what the daemon reports for Failed, never "failed".
Unavailable == "unavailable"

TapInit ==
  /\ tapState = "stopped" /\ stopFlag = FALSE /\ runloop = FALSE
  /\ slot = FALSE /\ slotLock = NoStopper /\ late = FALSE
  /\ thread = "none" /\ stopped = FALSE /\ sink = 0 /\ starts = 0
  /\ poll = [p \in Pollers |-> "idle"]
  /\ stopper = [s \in Stoppers |-> "idle"]

-----------------------------------------------------------------------------
(* EventTapMonitor::start.  The lock of the slot keeps it out of shutdown. *)

Start ==
  /\ slotLock = NoStopper /\ ~slot /\ starts < MaxStarts
  /\ starts' = starts + 1 /\ stopFlag' = FALSE /\ late' = FALSE
  /\ \/ /\ tapState' = "starting" /\ slot' = TRUE /\ thread' = "preflight"
        /\ stopped' = FALSE
     \/ /\ tapState' = Unavailable /\ UNCHANGED <<slot, thread, stopped>>   \* no thread
  /\ UNCHANGED <<runloop, slotLock, sink, poll, stopper>>

GracePasses ==
  /\ tapState = "starting" /\ ~late
  /\ late' = TRUE
  /\ UNCHANGED <<tapState, stopFlag, runloop, slot, slotLock, thread, stopped, sink,
                 starts, poll, stopper>>

-----------------------------------------------------------------------------
(* run_tap_thread *)

Goes(from, to) == thread = from /\ thread' = to

\* No trust, no tap, no source or no mode: the thread ends.
ThreadGivesUp(from) ==
  /\ Goes(from, "ended") /\ tapState' = Unavailable
  /\ UNCHANGED <<stopFlag, runloop, slot, slotLock, late, stopped, sink, starts, poll, stopper>>

ThreadUntrusted == ThreadGivesUp("preflight")
CreateFails == ThreadGivesUp("create")

ThreadTrusted ==
  /\ Goes("preflight", "create")
  /\ UNCHANGED <<tapState, stopFlag, runloop, slot, slotLock, late, stopped, sink, starts,
                 poll, stopper>>

ThreadCreates ==
  /\ Goes("create", "publish")
  /\ UNCHANGED <<tapState, stopFlag, runloop, slot, slotLock, late, stopped, sink, starts,
                 poll, stopper>>

ThreadPublishes ==
  /\ Goes("publish", "sink") /\ runloop' = TRUE
  /\ UNCHANGED <<tapState, stopFlag, slot, slotLock, late, stopped, sink, starts, poll, stopper>>

Registered == starts

ThreadRegisters ==
  /\ Goes("sink", "activate") /\ sink' = Registered
  /\ UNCHANGED <<tapState, stopFlag, runloop, slot, slotLock, late, stopped, starts, poll, stopper>>

ThreadActivates ==
  /\ Goes("activate", "enter") /\ tapState' = "active"
  /\ UNCHANGED <<stopFlag, runloop, slot, slotLock, late, stopped, sink, starts, poll, stopper>>

\* A stop that came before the loop ran is lost: CFRunLoopRun begins afresh.
ThreadEnters ==
  /\ Goes("enter", "running") /\ stopped' = FALSE
  /\ UNCHANGED <<tapState, stopFlag, runloop, slot, slotLock, late, sink, starts, poll, stopper>>

ThreadLeaves ==
  /\ Goes("running", "leaving") /\ stopped
  /\ UNCHANGED <<tapState, stopFlag, runloop, slot, slotLock, late, stopped, sink, starts,
                 poll, stopper>>

\* The loop ends of itself when its last source is invalidated.
LoopEnds ==
  /\ Goes("running", "leaving") /\ ~stopped
  /\ UNCHANGED <<tapState, stopFlag, runloop, slot, slotLock, late, stopped, sink, starts,
                 poll, stopper>>

ThreadClears ==
  /\ Goes("leaving", "final") /\ runloop' = FALSE
  /\ UNCHANGED <<tapState, stopFlag, slot, slotLock, late, stopped, sink, starts, poll, stopper>>

\* Mutant: the thread ends without saying so.
EndsActive ==
  /\ Goes("final", "ended")
  /\ UNCHANGED <<tapState, stopFlag, runloop, slot, slotLock, late, stopped, sink, starts, poll,
                 stopper>>

ThreadEnds ==
  /\ Goes("final", "ended")
  /\ tapState' = IF stopFlag THEN "stopped" ELSE Unavailable
  /\ UNCHANGED <<stopFlag, runloop, slot, slotLock, late, stopped, sink, starts, poll, stopper>>

-----------------------------------------------------------------------------
(* EventTapMonitor::state: reads the state under its lock, and under another
   acquisition of the same lock stores Failed. *)

TimedOut == tapState = "starting" /\ late

PollReads(p) ==
  /\ poll[p] = "idle" /\ TimedOut
  /\ poll' = [poll EXCEPT ![p] = "fail"]
  /\ UNCHANGED <<tapState, stopFlag, runloop, slot, slotLock, late, thread, stopped, sink,
                 starts, stopper>>

PollFails(p) ==
  /\ poll[p] = "fail"
  /\ poll' = [poll EXCEPT ![p] = "idle"]
  /\ tapState' = Unavailable
  /\ UNCHANGED <<stopFlag, runloop, slot, slotLock, late, thread, stopped, sink, starts, stopper>>

-----------------------------------------------------------------------------
(* EventTapMonitor::shutdown *)

\* No thread: the state is looked at and stored under two acquisitions of its lock.
StopWithoutThread(s) ==
  /\ stopper[s] = "idle" /\ slotLock = NoStopper /\ ~slot
  /\ IF tapState = Unavailable
       THEN stopper' = [stopper EXCEPT ![s] = "done"] /\ UNCHANGED slotLock
       ELSE stopper' = [stopper EXCEPT ![s] = "store"] /\ slotLock' = s
  /\ UNCHANGED <<tapState, stopFlag, runloop, slot, late, thread, stopped, sink, starts, poll>>

StopStores(s) ==
  /\ stopper[s] = "store"
  /\ stopper' = [stopper EXCEPT ![s] = "done"]
  /\ slotLock' = NoStopper /\ tapState' = "stopped"
  /\ UNCHANGED <<stopFlag, runloop, slot, late, thread, stopped, sink, starts, poll>>

StopBegins(s) ==
  /\ stopper[s] = "idle" /\ slotLock = NoStopper /\ slot
  /\ slotLock' = s
  /\ stopper' = [stopper EXCEPT ![s] = "loop"]
  /\ stopFlag' = TRUE
  /\ UNCHANGED <<tapState, runloop, slot, late, thread, stopped, sink, starts, poll>>

\* Mutant: the run loop is not stopped.
StopsNoLoop(s) ==
  /\ stopper[s] = "loop"
  /\ stopper' = [stopper EXCEPT ![s] = "joining"]
  /\ UNCHANGED <<tapState, stopFlag, runloop, slot, slotLock, late, thread, stopped, sink,
                 starts, poll>>

StopsLoop(s) ==
  /\ stopper[s] = "loop"
  /\ stopper' = [stopper EXCEPT ![s] = "joining"]
  /\ stopped' = (runloop \/ stopped)
  /\ UNCHANGED <<tapState, stopFlag, runloop, slot, slotLock, late, thread, sink, starts, poll>>

Joinable == thread = "ended"

StopJoins(s) ==
  /\ stopper[s] = "joining" /\ Joinable
  /\ stopper' = [stopper EXCEPT ![s] = "done"]
  /\ slot' = FALSE /\ slotLock' = NoStopper /\ tapState' = "stopped" /\ late' = FALSE
  /\ UNCHANGED <<stopFlag, runloop, thread, stopped, sink, starts, poll>>

-----------------------------------------------------------------------------
ThreadStep ==
  \/ ThreadUntrusted \/ ThreadTrusted \/ ThreadPublishes \/ ThreadRegisters
  \/ ThreadActivates \/ ThreadEnters \/ ThreadLeaves \/ ThreadClears \/ ThreadEnds

PollStep(p) == PollReads(p) \/ PollFails(p)
StopStep(s) == StopStores(s) \/ StopsLoop(s) \/ StopJoins(s)

TapNext ==
  \/ Start \/ GracePasses \/ ThreadCreates \/ CreateFails \/ LoopEnds \/ ThreadStep
  \/ \E p \in Pollers : PollStep(p)
  \/ \E s \in Stoppers : StopWithoutThread(s) \/ StopBegins(s) \/ StopStep(s)

\* The threads go on, the clock does, and somebody reads the state (jsonrpc does
\* for every status request).  CGEventTapCreate need not return, and the loop
\* need not end of itself.
TapFairness ==
  /\ WF_tapVars(ThreadStep) /\ WF_tapVars(GracePasses)
  /\ \A p \in Pollers : WF_tapVars(PollStep(p))
  /\ \A s \in Stoppers : WF_tapVars(StopStep(s))

TapSpec == TapInit /\ [][TapNext]_tapVars /\ TapFairness

-----------------------------------------------------------------------------
(* Properties *)

TapTypeOK ==
  /\ tapState \in TapStates /\ stopFlag \in BOOLEAN /\ runloop \in BOOLEAN
  /\ slot \in BOOLEAN /\ slotLock \in Stoppers \cup {NoStopper} /\ late \in BOOLEAN
  /\ thread \in ThreadPoints /\ stopped \in BOOLEAN
  /\ starts \in 0..MaxStarts /\ sink \in 0..MaxStarts
  /\ poll \in [Pollers -> {"idle", "fail"}]
  /\ stopper \in [Stoppers -> StopPoints]

\* What the monitor says of itself is so.  Reported as active, it has a thread
\* that is in its run loop, about to enter it or just out of it, with the sink
\* that the latest start was given: "degraded to the heuristic" is never
\* hidden.  With its slot empty it has no thread left, so that the run loop's
\* pointer, the stop flag and the sink have one user at a time.
ActiveMeansLive == tapState = "active" => thread \in {"enter", "running", "leaving", "final"}
CurrentSink     == tapState = "active" => sink = starts
OneTapThread    == ~slot => thread \in {"none", "ended"}

StateTellsThread == ActiveMeansLive /\ CurrentSink /\ OneTapThread

\* A shutdown that finds the thread in its run loop returns: CFRunLoopStop ends
\* the loop, and nothing the thread still does waits for the stopper.
StopOfRunningReturns ==
  \A s \in Stoppers : stopper[s] = "loop" /\ thread = "running" ~> stopper[s] = "done"

=============================================================================
