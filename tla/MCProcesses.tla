---------------------------- MODULE MCProcesses ----------------------------
(***************************************************************************)
(* Small instances of the parts that live in processes and threads of      *)
(* their own: the Swift bridge, the Event Tap thread, the daemon.  They    *)
(* share no state, so one run checks them as a disjoint sum: the initial   *)
(* state says which part runs, and the others stay as they started, where  *)
(* no action that fairness speaks of is enabled.                           *)
(***************************************************************************)
EXTENDS Bridge, EventTap, DaemonProcess

VARIABLE part   \* the part that runs

processesVars == <<part, bridgeVars, tapVars, daemonVars>>

ProcessesInit ==
  /\ BridgeInit /\ TapInit /\ DaemonInit
  /\ part \in {"bridge", "tap", "daemon"}
  /\ part # "bridge" => clipboard = "empty"
  /\ part # "daemon" => credential = Absent

ProcessesNext ==
  /\ \/ part = "bridge" /\ BridgeNext /\ UNCHANGED <<tapVars, daemonVars>>
     \/ part = "tap" /\ TapNext /\ UNCHANGED <<bridgeVars, daemonVars>>
     \/ part = "daemon" /\ DaemonNext /\ UNCHANGED <<bridgeVars, tapVars>>
  /\ UNCHANGED part

ProcessesSpec ==
  /\ ProcessesInit /\ [][ProcessesNext]_processesVars
  /\ BridgeFairness /\ TapFairness /\ DaemonFairness

\* Every variable of the three parts has its type.
ProcessesTypeOK == BridgeTypeOK /\ TapTypeOK /\ DaemonTypeOK

\* Nobody waits for ever for another thread or process to end: a shutdown of
\* the Event Tap that finds it running, a daemon that was told to stop, and a
\* cu daemon command (EventTapMonitor::shutdown, serve_with, daemon_stop).
StopsReturn == StopOfRunningReturns /\ StopsAndCommandsEnd

=============================================================================
