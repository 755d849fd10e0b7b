--------------------------- MODULE TargetingClaims ---------------------------
(***************************************************************************)
(* What the repository says of a window's frame and the code does not do.  *)
(***************************************************************************)
EXTENDS Targeting, TLC

MCBoxes == {[x |-> 1, y |-> 1, w |-> 4, h |-> 3], [x |-> -1, y |-> 2, w |-> 4, h |-> 3]}
MCDisplay == [x |-> 0, y |-> 0, w |-> 8, h |-> 6]
MCAsked == {[space |-> "normalized_1000", x |-> 0, y |-> 0, w |-> 1000, h |-> 1000],
              [space |-> "image_pixels", x |-> 0, y |-> 3, w |-> 0, h |-> 0]}

\* A frame that is labelled with a window's bounds shows the window from its
\* left top corner: a coordinate in the screenshot maps straight to the
\* window's bounds on the desktop (runtime.rs, the comment of window_scope in
\* observe_inner).
FrameShowsItsWindow ==
  view # NoView =>
    /\ view.from[1] - (view.box.x - Display.x) * Scale \in -1..1
    /\ view.from[2] - (view.box.y - Display.y) * Scale \in -1..1

=============================================================================
