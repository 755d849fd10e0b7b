----------------------- MODULE MCRequestCancellation -----------------------
(* Small instances of RequestCancellation for TLC. *)
EXTENDS RequestCancellation, TLC

CONSTANTS a1, a2, c1, c2

\* Two clients whose acts have the same request id.
MCConn == (a1 :> c1) @@ (a2 :> c2)
MCId   == (a1 :> 1) @@ (a2 :> 1)

=============================================================================
