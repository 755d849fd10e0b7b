---------------------------- MODULE FramesClaims ----------------------------
(* What a comment and a test of the runtime say of the stale-frame check,  *)
(* and its code does not do.                                               *)
EXTENDS Frames

\* "A moved/resized window changes the crop -> STALE_FRAME" (Runtime::act): a
\* batch of a session bound to a window runs only where its frame was taken.
\* The fingerprint is of the pixels of the crop, wherever it is: a window that
\* was moved and looks the same passes.
MovedIsStale ==
  \A v \in Viewers : scoped /\ doing[v] = "run" => aim[v].at = baseline[v].at

=============================================================================
