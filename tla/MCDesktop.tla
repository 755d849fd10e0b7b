----------------------------- MODULE MCDesktop -----------------------------
(***************************************************************************)
(* Small instances of the three parts that meet the desktop: which window  *)
(* a session is bound to and where its pixels are, how a frame is kept and *)
(* checked, and how the actions of a batch become input.  They share no    *)
(* state here (a batch that runs has passed the checks of Frames, and what *)
(* is under its points is a choice of Actuation), so one run checks them   *)
(* as a disjoint sum: the initial state says which part runs, and the      *)
(* others stay as they started.                                            *)
(***************************************************************************)
EXTENDS Actuation, Frames, Targeting, TLC

VARIABLE part   \* the part that runs

desktopVars == <<part, actuationVars, frameVars, targetVars>>

\* A display of 8 by 6 points, a window well inside it, and a smaller one that
\* is cut off by its left edge.  Crops are wider than MaxWidth pixels, or not.
MCDisplay == [x |-> 0, y |-> 0, w |-> 8, h |-> 6]
MCBoxes == {[x |-> 1, y |-> 1, w |-> 4, h |-> 3], [x |-> -1, y |-> 2, w |-> 3, h |-> 3]}

\* Two regions to inspect and two points to act at.
MCAsked ==
  {[space |-> "normalized_1000", x |-> 0, y |-> 0, w |-> 1000, h |-> 1000],
   [space |-> "image_pixels", x |-> 1, y |-> 1, w |-> 3, h |-> 2],
   [space |-> "normalized_1000", x |-> 1000, y |-> 500, w |-> 0, h |-> 0],
   [space |-> "image_pixels", x |-> 0, y |-> 3, w |-> 0, h |-> 0]}

DesktopInit ==
  /\ ActuationInit /\ FramesInit /\ TargetInit
  /\ part \in {"actuation", "frames", "targeting"}
  /\ part # "actuation" =>
       /\ setting = CHOOSE t \in Settings : TRUE
       /\ ~recent /\ top = "target" /\ front = "target"
  /\ part # "frames" => rule = "strict" /\ scoped
  /\ part # "targeting" =>
       /\ Open = {} /\ \A p \in Pids : bundle[p] = "unknown"
       /\ bounds = [w \in WindowIds |-> CHOOSE b \in Boxes : TRUE]

DesktopNext ==
  /\ \/ part = "actuation" /\ ActuationNext /\ UNCHANGED <<frameVars, targetVars>>
     \/ part = "frames" /\ FramesNext /\ UNCHANGED <<actuationVars, targetVars>>
     \/ part = "targeting" /\ TargetNext /\ UNCHANGED <<actuationVars, frameVars>>
  /\ UNCHANGED part

DesktopSpec == DesktopInit /\ [][DesktopNext]_desktopVars

\* Every variable of the three parts has its type.
DesktopTypeOK == ActuationTypeOK /\ FramesTypeOK /\ TargetTypeOK

\* Sessions are interchangeable.  (So are windows, but that part is small.)
DesktopSymmetry == Permutations(Viewers)

=============================================================================
