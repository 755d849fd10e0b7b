--------------------------- MODULE AuthorityClaims ---------------------------
(***************************************************************************)
(* What the SDK says of a control token, and the daemon does not do.       *)
(***************************************************************************)
EXTENDS Authority

\* "Control includes observation -- the same token satisfies reads, so it
\* fills the observation slot as well" (ensureSessionInner, attach_with_token):
\* a read that presents the session's control token is not refused for it.
ControlIncludesObservation ==
  [][\A c \in Callers :
       Answered(c) /\ request[c].from = "control" /\ request[c].obs = <<request[c].id, "control">> =>
         Verdict(request[c]) # "INVALID_OBSERVATION_TOKEN"]_authorityVars

=============================================================================
