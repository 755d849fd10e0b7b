--------------------------- MODULE ActuationProofs ---------------------------
(***************************************************************************)
(* Proofs about Actuation, for a batch of any length, drags and scrolls of *)
(* any number of steps, and any number of human events and window changes: *)
(* at most one gesture after the human's first event, input on the target  *)
(* and the cursor left alone where the session says so, and the button let *)
(* go.                                                                     *)
(*                                                                         *)
(* The argument is about the points of the batch from which a gesture is   *)
(* posted without another look at the token: each is entered by a step     *)
(* that has just looked.                                                   *)
(***************************************************************************)
EXTENDS Actuation, TLAPS

\* The steps of the batch.
BatchStep == BatchHalts \/ BatchFinishes \/ Probe \/ KeysPost \/ KeysRefused
             \/ \E action \in Wire : \E kind \in ToResolved(action) :
                  BatchBegins(kind) \/ BatchRefused(kind)

\* What the human, the windows and the deadline do.
Surroundings == HumanActs \/ WindowsShift \/ Dropped

\* Where the next step posts a gesture whether the token has fired or not.
Committed == {"direct", "pair", "pressing", "clicking", "keys", "paste"}

\* What an action at this point of the driver is.
ActFits ==
  /\ at \in {"grip", "dragging", "dragWait", "release"} => act = "drag"
  /\ at \in {"scrolling", "scrollWait"} => act \in {"scroll", "scrollAt"}
  /\ at \in Kinds => act = at

\* A late gesture was the last: the token has fired, and nothing is committed.
LateWasLast ==
  /\ token <=> generation > 0
  /\ late > 0 => late = 1 /\ token /\ at \notin Committed

\* A late click of a session without physical fallback is stamped on its way out.
LateIsStamped ==
  (/\ setting.policy # "physical_allowed" /\ act \in {"click", "double"}
   /\ late > 0 /\ generation = 1) => at \in {"between", "stamp"} \/ stamp = "newer"

\* The driver is asked to move the real cursor only where that is allowed.
CursorAllowed ==
  at \in {"drag", "scrollAt", "borrow", "warp", "warped", "clicking", "clicked", "restore"}
    => setting.policy = "physical_allowed"

\* Between the look at the windows and the input nothing else is in the way,
\* unless the windows have changed.
LookHolds ==
  /\ seen <= shifts
  /\ setting.scoped /\ shifts = seen =>
       /\ at \in {"emit", "direct", "between", "pair"} => top = "target"
       /\ at \in {"keys", "paste"} => front = "target"

\* The batch that has taken a far cursor for a human is over.
JumpsEnd == at # "ended" => streak < RequiredJumps

\* The types of what is neither the setting, a flag nor a set.
RestTypeOK ==
  /\ act \in Kinds /\ count \in 0..BatchLength
  /\ at \in Points
  /\ verdict \in Verdicts
  /\ snap \in 0..MaxHuman /\ left \in 0..DragSteps
  /\ streak \in 0..RequiredJumps /\ taken \in {"no", "real", "heuristic"}
  /\ generation \in 0..MaxHuman
  /\ cursor \in Places /\ virtual \in Places /\ button \in {"up", "down"}
  /\ top \in Windows /\ front \in Windows /\ shifts \in 0..MaxShifts /\ seen \in 0..MaxShifts
  /\ late \in Nat /\ stamp \in {"older", "newer"}

ActuationInv ==
  /\ ActuationTypeOK /\ JumpsEnd /\ ActFits
  /\ LateWasLast /\ LateIsStamped
  /\ CursorAllowed /\ IsolationKeepsCursor /\ LookHolds /\ InputReachesTarget
  /\ ButtonReleased

-----------------------------------------------------------------------------
LEMMA KindsAre ==
  /\ Kinds = {"click", "double", "move", "keys", "paste", "scroll", "scrollAt", "drag", "wait"}
  /\ \A action \in Wire : ToResolved(action) \subseteq Kinds
BY DEF Kinds, Wire, ToResolved

LEMMA NextSplits ==
  ActuationNext <=> Click \/ Physical \/ Motion \/ BatchStep \/ Surroundings
BY DEF ActuationNext, BatchStep, Surroundings

LEMMA TypesSplit ==
  ActuationTypeOK <=>
    /\ setting \in Settings /\ token \in BOOLEAN /\ recent \in BOOLEAN
    /\ moved \subseteq {"human", "agent"} /\ astray \subseteq {"click", "keys", "paste"}
    /\ RestTypeOK
BY Zenon DEF ActuationTypeOK, RestTypeOK

LEMMA ActuationInvInit == ActuationInit => ActuationInv
<1> SUFFICES ASSUME ActuationInit PROVE ActuationInv
  OBVIOUS
<1>1. ActuationTypeOK
  <2>1. setting \in Settings /\ token \in BOOLEAN /\ recent \in BOOLEAN
    BY Zenon DEF ActuationInit
  <2>2. moved \subseteq {"human", "agent"} /\ astray \subseteq {"click", "keys", "paste"}
    BY DEF ActuationInit
  <2>3. RestTypeOK
    BY KindsAre, ActuationAssumption
       DEF ActuationInit, RestTypeOK, Verdicts, Points, Windows, Places, RequiredJumps
  <2> QED BY <2>1, <2>2, <2>3, TypesSplit
<1>2. JumpsEnd /\ ActFits /\ LateWasLast /\ LateIsStamped
  BY KindsAre DEF ActuationInit, Settings, Committed, JumpsEnd, ActFits, LateWasLast, LateIsStamped,
     RequiredJumps
<1>3. CursorAllowed /\ IsolationKeepsCursor /\ LookHolds /\ InputReachesTarget /\ ButtonReleased
  BY DEF ActuationInit, Settings, CursorAllowed, IsolationKeepsCursor, LookHolds, InputReachesTarget,
     ButtonReleased
<1> QED BY <1>1, <1>2, <1>3 DEF ActuationInv

-----------------------------------------------------------------------------
(* Types. *)

\* The setting is fixed, and the flags are only ever raised.
LEMMA FlagsStep ==
  ASSUME ActuationNext
  PROVE  /\ setting' = setting
         /\ UNCHANGED <<token, recent>> \/ (token' = TRUE /\ recent' = TRUE)
<1> USE DEF QueueOnly, humanVars
<1>1. CASE Click
  BY <1>1 DEF Click, ClickHitTest, ClickDirect, ClickPosts, DoubleContinues, DoublePosts,
     ClickStamps, DirectRefused, PressCheck, Presses, PressAt
<1>2. CASE Physical
  BY <1>2 DEF Physical, BorrowCheck, Warps, WarpCheck, PhysicalClicks, RestoreCheck, Restores
<1>3. CASE Motion
  BY <1>3 DEF Motion, DragMoves, DragPresses, DragStep, DragWaits, DragReleases,
     ScrollMoves, ScrollChunk, ScrollWaits, VirtualMove, Waits, PostOp
<1>4. CASE BatchStep
  BY <1>4 DEF BatchStep, BatchHalts, BatchFinishes, Probe, KeysPost, KeysRefused, BatchBegins, BatchRefused
<1>5. CASE Surroundings
  BY <1>5 DEF Surroundings, HumanActs, WindowsShift, Dropped
<1> QED BY <1>1, <1>2, <1>3, <1>4, <1>5, NextSplits

LEMMA MovedStep ==
  ASSUME ActuationNext
  PROVE  moved' = moved \/ moved' = moved \cup {"human"} \/ moved' = moved \cup {"agent"}
<1> USE DEF QueueOnly, traceVars
<1>1. CASE Click
  BY <1>1 DEF Click, ClickHitTest, ClickDirect, ClickPosts, DoubleContinues, DoublePosts,
     ClickStamps, DirectRefused, PressCheck, Presses, PressAt
<1>2. CASE Physical
  BY <1>2 DEF Physical, BorrowCheck, Warps, WarpCheck, PhysicalClicks, RestoreCheck, Restores
<1>3. CASE Motion
  BY <1>3 DEF Motion, DragMoves, DragPresses, DragStep, DragWaits, DragReleases,
     ScrollMoves, ScrollChunk, ScrollWaits, VirtualMove, Waits, PostOp
<1>4. CASE BatchStep
  BY <1>4 DEF BatchStep, BatchHalts, BatchFinishes, Probe, KeysPost, KeysRefused, BatchBegins, BatchRefused
<1>5. CASE Surroundings
  BY <1>5 DEF Surroundings, HumanActs, WindowsShift, Dropped
<1> QED BY <1>1, <1>2, <1>3, <1>4, <1>5, NextSplits

LEMMA TypesStep ==
  ASSUME RestTypeOK, JumpsEnd, ActuationNext
  PROVE  RestTypeOK' /\ JumpsEnd'
<1> USE KindsAre, ActuationAssumption
<1> USE DEF RestTypeOK, Verdicts, JumpsEnd, Points, Windows, Places, RequiredJumps, Occlusion,
    Goto, Overran, Stamped, Lands, Fails, QueueOnly, Kept, humanVars, deviceVars,
    windowVars, queueVars, traceVars
<1>1. CASE Click
  BY <1>1 DEF Click, ClickHitTest, ClickDirect, ClickPosts, DoubleContinues, DoublePosts,
     ClickStamps, DirectRefused, PressCheck, Presses, PressAt
<1>2. CASE Physical
  BY <1>2 DEF Physical, BorrowCheck, Warps, WarpCheck, PhysicalClicks, RestoreCheck, Restores
<1>3. CASE Motion
  BY <1>3 DEF Motion, DragMoves, DragPresses, DragStep, DragWaits, DragReleases, DragGivesUp,
     ScrollMoves, ScrollChunk, ScrollWaits, VirtualMove, Waits, PostOp
<1>4. CASE BatchStep
  <2>1. CASE BatchHalts \/ BatchFinishes \/ Probe \/ KeysPost \/ KeysRefused
    BY <2>1 DEF BatchHalts, BatchFinishes, Probe, KeysPost, KeysRefused
  <2>2. ASSUME NEW kind \in Kinds, BatchBegins(kind) \/ BatchRefused(kind)
        PROVE  RestTypeOK' /\ JumpsEnd'
    BY <2>2 DEF BatchBegins, Admitted, FrontRead, BatchRefused
  <2> QED BY <1>4, <2>1, <2>2, KindsAre DEF BatchStep
<1>5. CASE Surroundings
  BY <1>5 DEF Surroundings, HumanActs, WindowsShift, Dropped
<1> QED BY <1>1, <1>2, <1>3, <1>4, <1>5, NextSplits

LEMMA ActFitsStep ==
  ASSUME RestTypeOK, ActFits, ActuationNext
  PROVE  ActFits'
<1> USE KindsAre
<1> USE DEF RestTypeOK, Verdicts, ActFits, Points, Goto, Overran, Stamped, Lands, Fails, QueueOnly, Kept, humanVars, deviceVars,
    windowVars, queueVars, traceVars
<1>1. CASE Click
  BY <1>1 DEF Click, ClickHitTest, ClickDirect, ClickPosts, DoubleContinues, DoublePosts,
     ClickStamps, DirectRefused, PressCheck, Presses, PressAt
<1>2. CASE Physical
  BY <1>2 DEF Physical, BorrowCheck, Warps, WarpCheck, PhysicalClicks, RestoreCheck, Restores
<1>3. CASE Motion
  BY <1>3 DEF Motion, DragMoves, DragPresses, DragStep, DragWaits, DragReleases, DragGivesUp,
     ScrollMoves, ScrollChunk, ScrollWaits, VirtualMove, Waits, PostOp
<1>4. CASE BatchStep
  <2>1. CASE BatchHalts \/ BatchFinishes \/ Probe \/ KeysPost \/ KeysRefused
    BY <2>1 DEF BatchHalts, BatchFinishes, Probe, KeysPost, KeysRefused
  <2>2. ASSUME NEW kind \in Kinds, BatchBegins(kind) \/ BatchRefused(kind)
        PROVE  ActFits'
    BY <2>2 DEF BatchBegins, Admitted, FrontRead, BatchRefused
  <2> QED BY <1>4, <2>1, <2>2, KindsAre DEF BatchStep
<1>5. CASE Surroundings
  BY <1>5 DEF Surroundings, HumanActs, WindowsShift, Dropped
<1> QED BY <1>1, <1>2, <1>3, <1>4, <1>5, NextSplits

-----------------------------------------------------------------------------
(* One late gesture. *)

LEMMA LateStep ==
  ASSUME RestTypeOK, ActFits, LateWasLast, ActuationNext
  PROVE  LateWasLast'
<1> USE KindsAre
<1> USE DEF RestTypeOK, Verdicts, ActFits, LateWasLast, Committed, Points, Grabbed, GivenUp,
    Goto, Overran, Stamped, Lands, Fails, QueueOnly, Kept, humanVars, deviceVars,
    windowVars, queueVars, traceVars
<1>1. CASE Click
  BY <1>1 DEF Click, ClickHitTest, ClickDirect, ClickPosts, DoubleContinues, DoublePosts,
     ClickStamps, DirectRefused, PressCheck, Presses, PressAt
<1>2. CASE Physical
  BY <1>2 DEF Physical, BorrowCheck, Warps, WarpCheck, PhysicalClicks, RestoreCheck, Restores
<1>3. CASE Motion
  BY <1>3 DEF Motion, DragMoves, DragPresses, DragStep, DragWaits, DragReleases, DragGivesUp,
     ScrollMoves, ScrollChunk, ScrollWaits, VirtualMove, Waits, PostOp
<1>4. CASE BatchStep
  <2>1. CASE BatchHalts \/ BatchFinishes \/ Probe \/ KeysPost \/ KeysRefused
    BY <2>1 DEF BatchHalts, BatchFinishes, Probe, KeysPost, KeysRefused
  <2>2. ASSUME NEW kind \in Kinds, BatchBegins(kind) \/ BatchRefused(kind)
        PROVE  LateWasLast'
    BY <2>2 DEF BatchBegins, Admitted, FrontRead, BatchRefused
  <2> QED BY <1>4, <2>1, <2>2, KindsAre DEF BatchStep
<1>5. CASE Surroundings
  BY <1>5 DEF Surroundings, HumanActs, WindowsShift, Dropped
<1> QED BY <1>1, <1>2, <1>3, <1>4, <1>5, NextSplits

LEMMA StampedStep ==
  ASSUME RestTypeOK, ActFits, LateWasLast, LateIsStamped, ActuationNext
  PROVE  LateIsStamped'
<1> USE KindsAre, FlagsStep
<1> USE DEF RestTypeOK, Verdicts, ActFits, LateWasLast, LateIsStamped, CursorAllowed, Committed, Points, Grabbed, GivenUp,
    Goto, Overran, Stamped, Lands, Fails, QueueOnly, Kept, humanVars, deviceVars,
    windowVars, queueVars, traceVars
<1>1. CASE Click
  BY <1>1 DEF Click, ClickHitTest, ClickDirect, ClickPosts, DoubleContinues, DoublePosts,
     ClickStamps, DirectRefused, PressCheck, Presses, PressAt
<1>2. CASE Physical
  BY <1>2 DEF Physical, BorrowCheck, Warps, WarpCheck, PhysicalClicks, RestoreCheck, Restores
<1>3. CASE Motion
  BY <1>3 DEF Motion, DragMoves, DragPresses, DragStep, DragWaits, DragReleases, DragGivesUp,
     ScrollMoves, ScrollChunk, ScrollWaits, VirtualMove, Waits, PostOp
<1>4. CASE BatchStep
  <2>1. CASE BatchHalts \/ BatchFinishes \/ Probe \/ KeysPost \/ KeysRefused
    BY <2>1 DEF BatchHalts, BatchFinishes, Probe, KeysPost, KeysRefused
  <2>2. ASSUME NEW kind \in Kinds, BatchBegins(kind) \/ BatchRefused(kind)
        PROVE  LateIsStamped'
    BY <2>2 DEF BatchBegins, Admitted, FrontRead, BatchRefused
  <2> QED BY <1>4, <2>1, <2>2, KindsAre DEF BatchStep
<1>5. CASE Surroundings
  BY <1>5 DEF Surroundings, HumanActs, WindowsShift, Dropped
<1> QED BY <1>1, <1>2, <1>3, <1>4, <1>5, NextSplits

-----------------------------------------------------------------------------
(* Where the input goes. *)

LEMMA CursorStep ==
  ASSUME ActuationTypeOK, CursorAllowed, IsolationKeepsCursor, ActuationNext
  PROVE  CursorAllowed' /\ IsolationKeepsCursor'
<1> USE KindsAre, FlagsStep
<1> USE DEF CursorAllowed, IsolationKeepsCursor, Points, NeedsPhysical, Goto, Overran, Stamped, Lands, Fails, QueueOnly, Kept, humanVars, deviceVars,
    windowVars, queueVars, traceVars
<1>1. CASE Click
  BY <1>1 DEF Click, ClickHitTest, ClickDirect, ClickPosts, DoubleContinues, DoublePosts,
     ClickStamps, DirectRefused, PressCheck, Presses, PressAt
<1>2. CASE Physical
  BY <1>2 DEF Physical, BorrowCheck, Warps, WarpCheck, PhysicalClicks, RestoreCheck, Restores
<1>3. CASE Motion
  BY <1>3 DEF Motion, DragMoves, DragPresses, DragStep, DragWaits, DragReleases, DragGivesUp,
     ScrollMoves, ScrollChunk, ScrollWaits, VirtualMove, Waits, PostOp
<1>4. CASE BatchStep
  <2>1. CASE BatchHalts \/ BatchFinishes \/ Probe \/ KeysPost \/ KeysRefused
    BY <2>1 DEF BatchHalts, BatchFinishes, Probe, KeysPost, KeysRefused
  <2>2. ASSUME NEW kind \in Kinds, BatchBegins(kind) \/ BatchRefused(kind)
        PROVE  CursorAllowed' /\ IsolationKeepsCursor'
    BY <2>2 DEF BatchBegins, Admitted, FrontRead, BatchRefused
  <2> QED BY <1>4, <2>1, <2>2, KindsAre DEF BatchStep
<1>5. CASE Surroundings
  BY <1>5 DEF Surroundings, HumanActs, WindowsShift, Dropped
<1> QED BY <1>1, <1>2, <1>3, <1>4, <1>5, NextSplits

LEMMA LookStep ==
  ASSUME RestTypeOK, ActFits, LookHolds, InputReachesTarget, ActuationNext
  PROVE  LookHolds' /\ InputReachesTarget'
<1> USE KindsAre, FlagsStep
<1> USE DEF RestTypeOK, Verdicts, ActFits, LookHolds, InputReachesTarget, Points, Occlusion, NeedsFocus, Goto, Overran, Stamped, Lands, Fails, QueueOnly, Kept, humanVars, deviceVars,
    windowVars, queueVars, traceVars
<1>1. CASE Click
  BY <1>1 DEF Click, ClickHitTest, ClickDirect, ClickPosts, DoubleContinues, DoublePosts,
     ClickStamps, DirectRefused, PressCheck, Presses, PressAt
<1>2. CASE Physical
  BY <1>2 DEF Physical, BorrowCheck, Warps, WarpCheck, PhysicalClicks, RestoreCheck, Restores
<1>3. CASE Motion
  BY <1>3 DEF Motion, DragMoves, DragPresses, DragStep, DragWaits, DragReleases, DragGivesUp,
     ScrollMoves, ScrollChunk, ScrollWaits, VirtualMove, Waits, PostOp
<1>4. CASE BatchStep
  <2>1. CASE BatchHalts \/ BatchFinishes \/ Probe \/ KeysPost \/ KeysRefused
    BY <2>1 DEF BatchHalts, BatchFinishes, Probe, KeysPost, KeysRefused
  <2>2. ASSUME NEW kind \in Kinds, BatchBegins(kind) \/ BatchRefused(kind)
        PROVE  LookHolds' /\ InputReachesTarget'
    BY <2>2 DEF BatchBegins, Admitted, FrontRead, BatchRefused
  <2> QED BY <1>4, <2>1, <2>2, KindsAre DEF BatchStep
<1>5. CASE Surroundings
  BY <1>5 DEF Surroundings, HumanActs, WindowsShift, Dropped
<1> QED BY <1>1, <1>2, <1>3, <1>4, <1>5, NextSplits

LEMMA ButtonStep ==
  ASSUME RestTypeOK, ButtonReleased, ActuationNext
  PROVE  ButtonReleased'
<1> USE KindsAre
<1> USE DEF RestTypeOK, Verdicts, ButtonReleased, Points, Goto, Overran, Stamped, Lands, Fails, QueueOnly, Kept, humanVars, deviceVars,
    windowVars, queueVars, traceVars
<1>1. CASE Click
  BY <1>1 DEF Click, ClickHitTest, ClickDirect, ClickPosts, DoubleContinues, DoublePosts,
     ClickStamps, DirectRefused, PressCheck, Presses, PressAt
<1>2. CASE Physical
  BY <1>2 DEF Physical, BorrowCheck, Warps, WarpCheck, PhysicalClicks, RestoreCheck, Restores
<1>3. CASE Motion
  BY <1>3 DEF Motion, DragMoves, DragPresses, DragStep, DragWaits, DragReleases, DragGivesUp,
     ScrollMoves, ScrollChunk, ScrollWaits, VirtualMove, Waits, PostOp
<1>4. CASE BatchStep
  <2>1. CASE BatchHalts \/ BatchFinishes \/ Probe \/ KeysPost \/ KeysRefused
    BY <2>1 DEF BatchHalts, BatchFinishes, Probe, KeysPost, KeysRefused
  <2>2. ASSUME NEW kind \in Kinds, BatchBegins(kind) \/ BatchRefused(kind)
        PROVE  ButtonReleased'
    BY <2>2 DEF BatchBegins, Admitted, FrontRead, BatchRefused
  <2> QED BY <1>4, <2>1, <2>2, KindsAre DEF BatchStep
<1>5. CASE Surroundings
  BY <1>5 DEF Surroundings, HumanActs, WindowsShift, Dropped
<1> QED BY <1>1, <1>2, <1>3, <1>4, <1>5, NextSplits

-----------------------------------------------------------------------------
LEMMA ActuationInvStep == ActuationInv /\ [ActuationNext]_actuationVars => ActuationInv'
<1>1. ASSUME ActuationInv, ActuationNext PROVE ActuationInv'
  <2>1. ActuationTypeOK /\ RestTypeOK /\ JumpsEnd /\ ActFits
    BY <1>1, TypesSplit DEF ActuationInv
  <2>2. RestTypeOK' /\ JumpsEnd' /\ ActFits'
    BY <1>1, <2>1, TypesStep, ActFitsStep
  <2>3. LateWasLast' /\ LateIsStamped'
    BY <1>1, <2>1, LateStep, StampedStep DEF ActuationInv
  <2>4. CursorAllowed' /\ IsolationKeepsCursor' /\ LookHolds' /\ InputReachesTarget' /\ ButtonReleased'
    BY <1>1, <2>1, CursorStep, LookStep, ButtonStep DEF ActuationInv
  <2>5. ActuationTypeOK'
    <3>1. setting' \in Settings
      BY <1>1, <2>1, TypesSplit, FlagsStep
    <3>2. token' \in BOOLEAN /\ recent' \in BOOLEAN
      BY Zenon, <1>1, <2>1, TypesSplit, FlagsStep
    <3>3. moved' \subseteq {"human", "agent"}
      BY <1>1, <2>1, TypesSplit, MovedStep
    <3>4. astray' \subseteq {"click", "keys", "paste"}
      BY <2>4 DEF InputReachesTarget
    <3>5. ActuationTypeOK' <=>
            /\ setting' \in Settings /\ token' \in BOOLEAN /\ recent' \in BOOLEAN
            /\ moved' \subseteq {"human", "agent"} /\ astray' \subseteq {"click", "keys", "paste"}
            /\ RestTypeOK'
      BY Zenon DEF ActuationTypeOK, RestTypeOK
    <3> QED BY Zenon, <2>2, <3>1, <3>2, <3>3, <3>4, <3>5
  <2> QED BY <2>2, <2>3, <2>4, <2>5 DEF ActuationInv
<1>2. ASSUME ActuationInv, UNCHANGED actuationVars PROVE ActuationInv'
  <2>1. UNCHANGED <<setting, at, act, count, verdict, snap, left, streak, taken, seen, generation,
                    token, recent, cursor, virtual, button, top, front, shifts, late, moved,
                    astray, stamp>>
    BY <1>2 DEF actuationVars, queueVars, humanVars, deviceVars, windowVars, traceVars
  <2>2. ActuationTypeOK' /\ JumpsEnd' /\ ActFits'
    BY <1>2, <2>1 DEF ActuationInv, ActuationTypeOK, JumpsEnd, ActFits
  <2>3. LateWasLast' /\ LateIsStamped' /\ CursorAllowed'
    BY <1>2, <2>1, Zenon DEF ActuationInv, LateWasLast, LateIsStamped, CursorAllowed
  <2>4. IsolationKeepsCursor' /\ LookHolds' /\ InputReachesTarget' /\ ButtonReleased'
    BY <1>2, <2>1, Zenon
       DEF ActuationInv, IsolationKeepsCursor, LookHolds, InputReachesTarget, ButtonReleased
  <2> QED BY <2>2, <2>3, <2>4 DEF ActuationInv
<1> QED BY <1>1, <1>2

LEMMA ActuationInvAlways == ActuationSpec => []ActuationInv
BY ActuationInvInit, ActuationInvStep, PTL DEF ActuationSpec

\* Every variable of the batch, the machine and the human has its type, for any
\* number of actions, steps of a drag, human events and window changes.
THEOREM ActuationTypes == ActuationSpec => []ActuationTypeOK
<1>1. ActuationInv => ActuationTypeOK
  BY DEF ActuationInv
<1> QED BY <1>1, ActuationInvAlways, PTL

\* After the human's first event the batch posts at most the gesture under way,
\* whatever backend a click has fallen back to and however long a drag is; a
\* late click of a session without physical fallback is stamped after it.
THEOREM OneGestureLate == ActuationSpec => []OneLateGesture
<1>1. ActuationInv => OneLateGesture
  BY TypesSplit DEF ActuationInv, RestTypeOK, LateWasLast, LateIsStamped, OneLateGesture, InputStopMs
<1> QED BY <1>1, ActuationInvAlways, PTL

\* The user's cursor is moved only where the session allows it, and input of a
\* scoped session reaches its target unless the windows changed after the hit
\* test or the focus guard looked.
THEOREM InputOnTarget == ActuationSpec => []InputStaysOnTarget
<1>1. ActuationInv => InputStaysOnTarget
  BY DEF ActuationInv, InputStaysOnTarget
<1> QED BY <1>1, ActuationInvAlways, PTL

\* The button is down only during the drag that pressed it, or when the deadline
\* dropped that drag between two of its steps.
THEOREM DragLetsGo == ActuationSpec => []ButtonReleased
<1>1. ActuationInv => ButtonReleased
  BY DEF ActuationInv
<1> QED BY <1>1, ActuationInvAlways, PTL

=============================================================================
