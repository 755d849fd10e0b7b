------------------------------ MODULE Targeting ------------------------------
(***************************************************************************)
(* How a session is bound to one window, and how the window's place on the *)
(* desktop becomes the pixels an agent sees and the points it aims at.     *)
(*                                                                         *)
(* A start gives any of a bundle id, a pid and a window id; the bridge     *)
(* picks a window, and the rest of its identity is filled in.  Every       *)
(* observe, inspect and act resolves the target again and goes on only if  *)
(* it is the same window.  An observe crops the display to the window and  *)
(* stores where the crop was; an inspect cuts its region down to the       *)
(* window's bounds of now; an act maps its point with the stored place and *)
(* refuses it outside the bounds of now.  The desktop is the user's: it    *)
(* changes between any two steps.                                          *)
(*                                                                         *)
(* Bounds are logical points, a display's pixels are Scale times as many.  *)
(* A global coordinate computed from an image is a fraction of a point: it *)
(* is kept as a multiple of 1/width of the image.                          *)
(***************************************************************************)
EXTENDS Integers

CONSTANTS WindowIds, Pids, Bundles,
          Nothing,      \* a field that is not given, a window that is not there
          Boxes,        \* the bounds a window may have
          Display,      \* the bounds of the display
          Scale,        \* pixels of the display per point
          MaxWidth,     \* observe_max_width, in pixels
          Asked,        \* what inspects and actions ask for; an action has no size
          MaxShuffles   \* bound: changes of the desktop

Spaces == {"normalized_1000", "image_pixels"}

ASSUME TargetingAssumption ==
  /\ Nothing \notin WindowIds \cup Pids \cup Bundles
  /\ \A b \in Boxes \cup {Display} :
       b \in [x : Int, y : Int, w : Nat \ {0}, h : Nat \ {0}]
  /\ Scale \in Nat \ {0} /\ MaxWidth \in Nat /\ MaxShuffles \in Nat
  /\ \A r \in Asked :
       r \in [space : Spaces, x : Int, y : Int, w : Nat, h : Nat]

VARIABLES
  bundle,    \* the bundle id of a process, "unknown" if it has none
  owner,     \* the process that has a window open
  bounds,    \* where a window is
  above,     \* the order of the open windows: <<w, v>> if w is in front of v
  shuffles,  \* how often the desktop has changed
  target,    \* Session::target
  resolved,  \* Session::resolved_target
  tbounds,   \* its bounds when it was last resolved
  meant,     \* the identity the start resolved
  view,      \* the stored frame an agent refers to
  got        \* what the latest inspect or act was given

deskVars   == <<bundle, owner, bounds, above, shuffles>>
scopeVars  == <<target, resolved, tbounds, meant>>
targetVars == <<deskVars, scopeVars, view, got>>

Fields  == [bundle : Bundles \cup {Nothing}, pid : Pids \cup {Nothing},
            window : WindowIds \cup {Nothing}]
NoField == [bundle |-> Nothing, pid |-> Nothing, window |-> Nothing]
NoBox   == [x |-> 0, y |-> 0, w |-> 0, h |-> 0]
NoView  == [box |-> NoBox, width |-> 0, height |-> 0, from |-> <<0, 0>>, span |-> <<0, 0>>]
NoGot   == [area |-> NoBox, unit |-> 1, slack |-> 0, within |-> NoBox]

Open        == {w \in WindowIds : owner[w] # Nothing}
Identity(w) == [bundle |-> bundle[owner[w]], pid |-> owner[w], window |-> w]

\* r puts the windows of s one in front of the other.
Stacks(r, s) ==
  /\ r \subseteq s \X s
  /\ \A w \in s : <<w, w>> \notin r
  /\ \A w, v \in s : w # v => (<<w, v>> \in r) # (<<v, w>> \in r)
  /\ \A u, w, v \in s : <<u, w>> \in r /\ <<w, v>> \in r => <<u, v>> \in r

\* The order of the windows of s alone, and with w in front of them.
Only(s)      == above \cap (s \X s)
Raised(w, s) == Only(s) \cup ({w} \X s)

TargetInit ==
  /\ bundle \in [Pids -> Bundles \cup {"unknown"}]
  /\ owner \in [WindowIds -> Pids \cup {Nothing}]
  /\ bounds \in [WindowIds -> Boxes]
  /\ above \in {r \in SUBSET (Open \X Open) : Stacks(r, Open)}
  /\ shuffles = 0
  /\ target = NoField /\ resolved = NoField /\ tbounds = NoBox /\ meant = NoField
  /\ view = NoView /\ got = NoGot

(***************************************************************************)
(* The desktop.                                                            *)
(***************************************************************************)
Shuffled ==
  /\ shuffles < MaxShuffles /\ shuffles' = shuffles + 1
  /\ UNCHANGED <<scopeVars, view, got>>

WindowRaised(w) ==
  /\ Shuffled /\ w \in Open
  /\ above' = Raised(w, Open \ {w})
  /\ UNCHANGED <<bundle, owner, bounds>>

WindowMoved(w, b) ==
  /\ Shuffled /\ w \in Open /\ bounds' = [bounds EXCEPT ![w] = b]
  /\ UNCHANGED <<bundle, owner, above>>

\* A new window comes up in front; the number of a closed one may return.
WindowOpened(w, p) ==
  /\ Shuffled /\ w \notin Open
  /\ owner' = [owner EXCEPT ![w] = p] /\ above' = Raised(w, Open)
  /\ UNCHANGED <<bundle, bounds>>

WindowClosed(w) ==
  /\ Shuffled /\ w \in Open
  /\ owner' = [owner EXCEPT ![w] = Nothing]
  /\ above' = Only(Open \ {w})
  /\ UNCHANGED <<bundle, bounds>>

\* An application ends with its windows, and its pid goes to another one.
PidRecycled(p, b) ==
  /\ Shuffled /\ bundle' = [bundle EXCEPT ![p] = b]
  /\ owner' = [w \in WindowIds |-> IF owner[w] = p THEN Nothing ELSE owner[w]]
  /\ above' = Only({w \in Open : owner[w] # p})
  /\ UNCHANGED bounds

(***************************************************************************)
(* Resolution.                                                             *)
(***************************************************************************)

\* The windows that answer a target: the one it names, if the other fields agree;
\* else those of its pid, whatever their bundle; else those of its bundle.
Answering(t) ==
  IF t.window # Nothing
  THEN {w \in Open \cap {t.window} : /\ t.pid \in {Nothing, owner[w]}
                                     /\ t.bundle \in {Nothing, bundle[owner[w]]}}
  ELSE IF t.pid # Nothing THEN {w \in Open : owner[w] = t.pid}
  ELSE {w \in Open : bundle[owner[w]] = t.bundle}

\* The one of them that is in front of the others.
Frontmost(s) == {w \in s : \A v \in s : v # w => <<w, v>> \in above}

\* What a target resolves to, if it does: the frontmost window that answers it,
\* unless its owner cannot be identified.
Resolutions(t) ==
  {Identity(w) : w \in {v \in Frontmost(Answering(t)) : bundle[owner[v]] # "unknown"}}

Or(a, b) == IF a # Nothing THEN a ELSE b

\* Backfilled as it would be if the window were left open.
BackfilledButWindow(t, r) ==
  [bundle |-> Or(t.bundle, r.bundle), pid |-> Or(t.pid, r.pid), window |-> t.window]

\* The fields the caller left out are those of the window that was found.
Backfilled(t, r) ==
  [bundle |-> Or(t.bundle, r.bundle), pid |-> Or(t.pid, r.pid),
   window |-> Or(t.window, r.window)]

SessionStarts(t) ==
  /\ resolved = NoField /\ t # NoField
  /\ \E r \in Resolutions(t) :
       /\ resolved' = r /\ meant' = r /\ tbounds' = bounds[r.window]
       /\ target' = Backfilled(t, r)
  /\ UNCHANGED <<deskVars, view, got>>

\* refresh_resolved_target: the identity must be the target's in every field.
Refreshed ==
  /\ resolved # NoField
  /\ \E r \in Resolutions(target) :
       /\ \A f \in {"bundle", "pid", "window"} : target[f] \in {Nothing, r[f]}
       /\ resolved' = r /\ tbounds' = bounds[r.window]
  /\ UNCHANGED <<deskVars, target, meant>>

(***************************************************************************)
(* Geometry.                                                               *)
(***************************************************************************)
Larger(a, b)  == IF a > b THEN a ELSE b
Smaller(a, b) == IF a < b THEN a ELSE b
Clamped(n, lo, hi) == Smaller(Larger(n, lo), hi)

\* n/d to the nearest integer.
Rounded(n, d) == (2 * n + d) \div (2 * d)

\* What a crop of w by h pixels becomes when it is wider than MaxWidth.
OutputSize(w, h) ==
  IF MaxWidth = 0 \/ w <= MaxWidth THEN <<w, h>> ELSE <<MaxWidth, (h * MaxWidth) \div w>>

\* The window's rectangle in pixels of the display, from its left top corner.
CropRegion(b) == [x |-> (b.x - Display.x) * Scale, y |-> (b.y - Display.y) * Scale,
                  w |-> b.w * Scale, h |-> b.h * Scale]

\* captureDisplay: the crop starts inside the display and ends inside it; one
\* that is a pixel or less is the whole display.
Captured(r) ==
  LET cx == Larger(r.x, 0)   cw == Smaller(r.w, Display.w * Scale - cx)
      cy == Larger(r.y, 0)   ch == Smaller(r.h, Display.h * Scale - cy)
  IN  IF cw > 1 /\ ch > 1
      THEN [from |-> <<cx, cy>>, span |-> <<cw, ch>>]
      ELSE [from |-> <<0, 0>>, span |-> <<Display.w * Scale, Display.h * Scale>>]

\* The frame that is stored: where it says it was taken, and what is on it.
FrameOf(box, shot) ==
  LET out == OutputSize(shot.span[1], shot.span[2])
  IN  [box |-> box, width |-> out[1], height |-> out[2],
       from |-> shot.from, span |-> shot.span]

\* An image of another size than the crop's is not the window's.
SizeAsExpected(f, r) ==
  LET out == OutputSize(r.w, r.h)
  IN  out[1] - f.width \in -1..1 /\ out[2] - f.height \in -1..1

\* A pixel's place on the desktop, in units of 1/width; both axes have the
\* horizontal scale.
GlobalX(v, px) == v.box.x * v.width + px * v.box.w
GlobalY(v, py) == v.box.y * v.width + py * v.box.w
PixelX(v, gx)  == Rounded(gx - v.box.x * v.width, v.box.w)
PixelY(v, gy)  == Rounded(gy - v.box.y * v.width, v.box.w)

\* contains_global: the far edges count.
ContainsGlobal(b, unit, gx, gy) == /\ b.x * unit <= gx /\ gx <= (b.x + b.w) * unit
                                   /\ b.y * unit <= gy /\ gy <= (b.y + b.h) * unit

InNormalized(x, y) == x \in 0..1000 /\ y \in 0..1000

\* The pixel of a corner: the far edge of the normalized space is the last
\* pixel, a negative coordinate in pixels becomes 0.
PixelOf(v, space, x, y) ==
  IF space = "normalized_1000"
  THEN <<Clamped(Rounded(x * v.width, 1000), 0, v.width - 1),
         Clamped(Rounded(y * v.height, 1000), 0, v.height - 1)>>
  ELSE <<Larger(x, 0), Larger(y, 0)>>

(***************************************************************************)
(* The session's operations.  Each refreshes the target first: a refresh   *)
(* that fails ends it with nothing changed, and a refresh that succeeds    *)
(* is kept when a later check refuses.                                     *)
(***************************************************************************)
Observe ==
  /\ Refreshed
  /\ LET region == CropRegion(tbounds')
         image  == FrameOf(tbounds', Captured(region))
     IN  view' = IF SizeAsExpected(image, region) THEN image ELSE view
  /\ UNCHANGED got

\* A session without a target stores the display; a frame is found by its id,
\* whichever session took it.
ObserveDisplay ==
  /\ view' = FrameOf(Display, [from |-> <<0, 0>>,
                               span |-> <<Display.w * Scale, Display.h * Scale>>])
  /\ UNCHANGED <<deskVars, scopeVars, got>>

\* The part of region q of frame v that lies in box b, in pixels of v.
Intersected(v, q, b) ==
  LET lo == PixelOf(v, q.space, q.x, q.y)
      hi == PixelOf(v, q.space, q.x + q.w, q.y + q.h)
      gx0 == Larger(GlobalX(v, lo[1]), b.x * v.width)
      gy0 == Larger(GlobalY(v, lo[2]), b.y * v.width)
      gx1 == Smaller(GlobalX(v, hi[1]), (b.x + b.w) * v.width)
      gy1 == Smaller(GlobalY(v, hi[2]), (b.y + b.h) * v.width)
  IN  [meets |-> gx0 < gx1 /\ gy0 < gy1,
       x |-> PixelX(v, gx0), w |-> Larger(PixelX(v, gx1) - PixelX(v, gx0), 1),
       y |-> PixelY(v, gy0), h |-> Larger(PixelY(v, gy1) - PixelY(v, gy0), 1)]

\* The clamp as it would be if it took the window for as large as it was when
\* the frame was captured.
ClampedToOldSize(v, q, b) == Intersected(v, q, [b EXCEPT !.w = v.box.w, !.h = v.box.h])

ClampedToWindow(v, q, b) == Intersected(v, q, b)

\* A region in normalized coordinates must be in range before it is clamped,
\* and its corners on the image after; one in pixels must fit in the image.
RegionFits(v, q, c) ==
  /\ c.meets
  /\ q.space = "normalized_1000" =>
       InNormalized(q.x, q.y) /\ InNormalized(q.x + q.w, q.y + q.h)
  /\ c.x + c.w <= v.width /\ c.y + c.h <= v.height

Inspect(q) ==
  /\ view # NoView /\ Refreshed
  /\ LET c == ClampedToWindow(view, q, tbounds')
     IN  got' = IF RegionFits(view, q, c)
                THEN [area |-> [x |-> GlobalX(view, c.x), y |-> GlobalY(view, c.y),
                                w |-> c.w * view.box.w, h |-> c.h * view.box.w],
                      unit |-> view.width, slack |-> view.box.w, within |-> tbounds']
                ELSE got
  /\ UNCHANGED view

\* One end of an action's movement: to_global, then the session's bounds.
Act(q) ==
  /\ view # NoView /\ q.w = 0 /\ q.h = 0 /\ Refreshed
  /\ LET p == PixelOf(view, q.space, q.x, q.y)
         gx == GlobalX(view, p[1])   gy == GlobalY(view, p[2])
         known == IF q.space = "normalized_1000" THEN InNormalized(q.x, q.y)
                  ELSE q.x \in 0..(view.width - 1) /\ q.y \in 0..(view.height - 1)
     IN  got' = IF known /\ ContainsGlobal(tbounds', view.width, gx, gy)
                THEN [area |-> [x |-> gx, y |-> gy, w |-> 0, h |-> 0],
                      unit |-> view.width, slack |-> 0, within |-> tbounds']
                ELSE got
  /\ UNCHANGED view

TargetNext ==
  \/ \E w \in WindowIds : WindowRaised(w) \/ WindowClosed(w)
  \/ \E w \in WindowIds, b \in Boxes : WindowMoved(w, b)
  \/ \E w \in WindowIds, p \in Pids : WindowOpened(w, p)
  \/ \E p \in Pids, b \in Bundles \cup {"unknown"} : PidRecycled(p, b)
  \/ \E t \in Fields : SessionStarts(t)
  \/ Observe \/ ObserveDisplay
  \/ \E q \in Asked : Inspect(q) \/ Act(q)

TargetSpec == TargetInit /\ [][TargetNext]_targetVars

(***************************************************************************)
(* Properties.                                                             *)
(***************************************************************************)

\* Every variable has its type.
TargetTypeOK ==
  /\ bundle \in [Pids -> Bundles \cup {"unknown"}]
  /\ owner \in [WindowIds -> Pids \cup {Nothing}]
  /\ bounds \in [WindowIds -> Boxes]
  /\ Stacks(above, Open)
  /\ shuffles \in 0..MaxShuffles
  /\ {target, resolved, meant} \subseteq Fields
  /\ tbounds \in Boxes \cup {NoBox} /\ view.box \in Boxes \cup {NoBox, Display}
  /\ view.width \in Nat /\ view.height \in Int
  /\ got.unit \in Nat /\ got.slack \in Nat /\ got.within \in Boxes \cup {NoBox}

\* A session keeps the very window its start resolved: when that window
\* closes, or its number or its process goes to another application, no
\* refresh moves the session to a window that also answers what the caller
\* gave (refresh_resolved_target: "never re-scope").  The bundle it looks for
\* is the caller's: a start with a pid does not compare the bundle given.
NeverRescoped ==
  /\ resolved.window = meant.window /\ resolved.pid = meant.pid
  /\ resolved.bundle \in {meant.bundle, target.bundle}

\* A side from lo on lies between a and z to a pixel, e; beyond the far end of a
\* window that is narrower than a pixel it may be one and a half.
Inside(lo, len, a, z, e) ==
  /\ lo >= a - e
  /\ 2 * (lo + len) <= 2 * z + (IF z - a < e THEN 3 * e ELSE 2 * e)

\* What an inspect returns and what an action touches lies in the window as it
\* is at that moment, to a pixel, whichever frame it refers to and wherever
\* the window has gone since (clamp_region_to_window, resolved_within_bounds).
GivenInsideWindow ==
  LET u == got.unit
      e == got.slack
      b == got.within
  IN  /\ Inside(got.area.x, got.area.w, b.x * u, (b.x + b.w) * u, e)
      /\ Inside(got.area.y, got.area.h, b.y * u, (b.y + b.h) * u, e)

=============================================================================
