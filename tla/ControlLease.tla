---------------------------- MODULE ControlLease ----------------------------
(***************************************************************************)
(* What the runtime promises about control of the machine: one session at  *)
(* a time owns it, from the moment it is started until it has ended, and   *)
(* nobody else gets it before the owner has ended and given it back.       *)
(* Nothing is said of how sessions are driven, stopped or timed out.       *)
(***************************************************************************)
CONSTANTS Sessions, None

VARIABLES owner,   \* the session in control, or None
          ended    \* the sessions that have been stopped

leaseVars == <<owner, ended>>

Init == owner = None /\ ended = {}

\* A session takes control only when it is free, and never after it ended.
Acquire(s) ==
  /\ owner = None /\ s \notin ended
  /\ owner' = s
  /\ UNCHANGED ended

\* Only the owner can end, and it still owns control when it does.
End(s) ==
  /\ owner = s
  /\ ended' = ended \cup {s}
  /\ UNCHANGED owner

\* Control is given back by a session that has ended.
Release(s) ==
  /\ owner = s /\ s \in ended
  /\ owner' = None
  /\ UNCHANGED ended

Next == \E s \in Sessions : Acquire(s) \/ End(s) \/ Release(s)

Spec == Init /\ [][Next]_leaseVars

=============================================================================
