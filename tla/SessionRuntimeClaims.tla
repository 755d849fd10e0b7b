------------------------ MODULE SessionRuntimeClaims ------------------------
(***************************************************************************)
(* What comments and documents of the repository say of the session        *)
(* runtime and the code does not do: TLC finds a behaviour of              *)
(* SessionRuntime that breaks each of these.                               *)
(***************************************************************************)
EXTENDS SessionRuntime

\* "a plain `resume` can never bypass the human's takeover" (sessions.rs:260).
\* The state a resume checks is not the state it overwrites: the Event Tap
\* thread can set UserTakeover between Session::state and Session::set_state.
ResumeNeverBypassesTakeover ==
  [][\A c \in Calls :
       stage[c] = "set" /\ stage'[c] = "effects" /\ op[c] = "resume"
         => state[on[c]] # "UserTakeover"]_vars

\* "Every session is stopped" by shutdown (runtime.rs:1689).  A session_start
\* that was dispatched before the flag can insert its session after the
\* snapshot of the map was taken.
ShutdownStopsEverySession ==
  pc[Main] = "done" => Inserted \subseteq stopped

=============================================================================
