-------------------------- MODULE MCSessionRuntime --------------------------
(* Small instances of SessionRuntime for TLC. *)
EXTENDS SessionRuntime, TLC

\* Sessions, requests and calls are interchangeable.
MCSymmetry ==
  Permutations(Sessions) \cup Permutations(Acts) \cup Permutations(Calls)

\* For the liveness run: no behaviour has both an event of the human and an
\* observe, neither of which fairness asks for.
OneDisturbance == generation' = 0 \/ \A o \in Observes : pc'[o] = "unsent"

RequestsSpec == Init /\ [][Next /\ OneDisturbance]_vars /\ Fairness

=============================================================================
