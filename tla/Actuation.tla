----------------------------- MODULE Actuation -----------------------------
(***************************************************************************)
(* What one batch does to the machine: the gates before an action, the     *)
(* click dispatcher with its three backends, the interruptible drag and    *)
(* scroll of the driver, keyboard input behind the focus guard, and the    *)
(* fallback that takes a far pointer for a human.  SessionRuntime treats   *)
(* all of this as one post; here every check and every post is a step, and *)
(* the human, the window server and the deadline act in between.           *)
(*                                                                         *)
(* A gesture is what is posted without another look at the token: a pair   *)
(* of mouse events, a warp, one drag step, one scroll chunk, a text.       *)
(***************************************************************************)
EXTENDS Naturals

CONSTANTS BatchLength,  \* bound: actions of the batch
          MaxHuman,     \* bound: human events
          MaxShifts,    \* bound: changes of the windows
          DragSteps     \* bound: points of a drag path, chunks of a scroll

ASSUME ActuationAssumption ==
  BatchLength \in Nat /\ MaxHuman \in Nat /\ MaxShifts \in Nat /\ DragSteps \in Nat \ {0}

VARIABLES
  setting,   \* pointer policy, target scope and tap state of the batch
  at, act,   \* where the queue is, and the kind of the action
  count,     \* actions begun
  verdict,   \* occlusion verdict of the click
  snap,      \* generation_before
  left,      \* drag points or scroll chunks still to post
  streak,    \* TakeoverDetector::consecutive_jumps
  taken,     \* why the batch gave the machine up: "no", "real" or "heuristic"
  generation, token, recent,   \* human_event_generation, batch token, idle guard
  cursor, virtual, button,     \* the real cursor, the agent's pointer, the left button
  top, front,                  \* window under the click point; frontmost application
  shifts,    \* history: changes of the windows
  seen,      \* history: shifts when top or front was last read
  late,      \* history: gestures that began after the human's first event
  moved,     \* history: who has moved the real cursor
  astray,    \* history: input that reached another application
  stamp      \* the last synthetic stamp is older or newer than the last human event

humanVars  == <<generation, token, recent>>
deviceVars == <<cursor, virtual, button>>
windowVars == <<top, front, shifts>>
queueVars  == <<at, act, count, verdict, snap, left, streak, taken, seen>>
traceVars  == <<late, moved, astray, stamp>>
actuationVars == <<setting, queueVars, humanVars, deviceVars, windowVars, traceVars>>

\* The actions of a batch, and what the driver is given for each: a scroll with
\* or without a place, a text that is typed or pasted.
Wire == {"click", "double_click", "move", "type", "key", "scroll", "drag", "wait"}

ToResolved(action) ==
  IF action = "double_click" THEN {"double"}
  ELSE IF action = "scroll" THEN {"scrollAt", "scroll"}
  ELSE IF action = "type" THEN {"keys", "paste"}
  ELSE IF action = "key" THEN {"keys"} ELSE {action}

Kinds    == UNION {ToResolved(action) : action \in Wire}
Policies == {"isolated_only", "isolated_preferred", "physical_allowed"}
Settings == [policy : Policies, scoped : BOOLEAN, tap : {"active", "degraded"}]
Windows  == {"target", "other", "none"}
Verdicts == {"clear", "blocked", "none", "unverifiable"}
Places   == {"home", "there", "away"}

\* The virtual pointer starts where the real one is (session_start).
ActuationInit ==
  /\ setting \in Settings
  /\ at = "idle" /\ act = "keys" /\ count = 0
  /\ verdict = "clear" /\ snap = 0 /\ left = 0 /\ streak = 0 /\ taken = "no"
  /\ generation = 0 /\ token = FALSE /\ recent \in BOOLEAN
  /\ cursor = "home" /\ virtual = "home" /\ button = "up"
  /\ top \in Windows /\ front \in {"target", "other"} /\ shifts = 0 /\ seen = 0
  /\ late = 0 /\ moved = {} /\ astray = {} /\ stamp = "older"

-----------------------------------------------------------------------------
(* The surroundings. *)

\* A real event: the tap raises the generation and its hook cancels the batch.
\* Most events move the cursor.
HumanActs ==
  /\ generation < MaxHuman
  /\ generation' = generation + 1 /\ token' = TRUE /\ recent' = TRUE
  /\ stamp' = "older"
  /\ \/ cursor' = "away" /\ moved' = moved \cup {"human"}
     \/ UNCHANGED <<cursor, moved>>
  /\ UNCHANGED <<setting, queueVars, virtual, button, windowVars, late, astray>>

WindowsShift ==
  /\ shifts < MaxShifts /\ shifts' = shifts + 1
  /\ top' \in Windows /\ front' \in {"target", "other"}
  /\ UNCHANGED <<setting, queueVars, humanVars, deviceVars, traceVars>>

\* The deadline drops the request; the queue sleeps in a wait, the driver only
\* between two steps of a drag or two chunks of a scroll.
Dropped ==
  /\ at \in {"wait", "dragWait", "scrollWait"} /\ at' = "dropped"
  /\ UNCHANGED <<setting, act, count, verdict, snap, left, streak, taken, seen, humanVars,
                 deviceVars, windowVars, traceVars>>

-----------------------------------------------------------------------------
(* Building blocks. *)

Goto(l) == at' = l
Grabbed == token \/ generation # snap
Overran == late' = IF generation > 0 THEN late + 1 ELSE late
Stamped == stamp' = "newer"

\* human_to_input_stop_ms: nothing before a human event, zero unless synthetic
\* input was stamped after the last one.
InputStopMs == IF generation = 0 THEN "none" ELSE IF stamp = "newer" THEN "positive" ELSE "zero"

\* post_op: what a mouse operation does to the real cursor and the left button.
\* A scroll wheel event touches neither.
PostOp(op, place) ==
  /\ cursor' = IF op \in {"move", "dragged"} THEN place ELSE cursor
  /\ button' = IF op = "down" THEN "down" ELSE IF op = "up" THEN "up" ELSE button

\* What lands in another application than the session's target.
Lands(window, what) ==
  astray' = IF setting.scoped /\ window # "target" /\ shifts = seen
              THEN astray \cup {what} ELSE astray

\* execute_with_cancel: once the token has fired a click is not posted and a
\* drag, a scroll or a wait goes no further; a text is typed to its end, and a
\* double click has a rule of its own.
GivenUp(kind) == token /\ kind \notin {"double", "keys", "paste"}

QueueOnly == UNCHANGED <<setting, humanVars, deviceVars, windowVars>>
Kept == UNCHANGED <<act, count, streak, taken>>

-----------------------------------------------------------------------------
(* ActionQueue::run: the gates. *)

\* Mutant: a scroll at a point is not counted as physical input.
DragsOnly(kind) == kind = "drag"

NeedsPhysical(kind) == kind \in {"drag", "scrollAt"}

\* The actions whose place has to be inside the target's window.
Located(kind) == kind \in {"click", "double", "move", "drag", "scrollAt"}

\* The flag of a real takeover is consumed, or the token has fired.
BatchHalts ==
  /\ at = "idle" /\ token
  /\ Goto("ended") /\ taken' = IF generation > 0 THEN "real" ELSE taken
  /\ UNCHANGED <<act, count, verdict, snap, left, streak, seen, traceVars>> /\ QueueOnly

\* The pointer policy, a scroll without a location in a scoped session, and
\* coordinates outside the target end the batch before anything is posted.
BatchRefused(kind) ==
  /\ at = "idle" /\ ~token /\ count < BatchLength
  /\ \/ NeedsPhysical(kind) /\ setting.policy # "physical_allowed"
     \/ kind = "scroll" /\ setting.scoped
     \/ Located(kind) /\ setting.scoped
  /\ Goto("ended") /\ act' = kind
  /\ UNCHANGED <<count, verdict, snap, left, streak, taken, seen, traceVars>> /\ QueueOnly

NeedsFocus(kind) == kind \in {"keys", "paste"}

\* active_application: the application in front, or no answer.
FrontRead == {front, "unknown"}

\* The focus guard reads it before every keyboard action.
Admitted(kind) ==
  /\ ~(NeedsPhysical(kind) /\ setting.policy # "physical_allowed")
  /\ ~(kind = "scroll" /\ setting.scoped)
  /\ seen' = shifts
  /\ \E application \in FrontRead :
       IF NeedsFocus(kind) /\ setting.scoped /\ application # "target"
         THEN Goto("ended")
         ELSE Goto(kind)

BatchBegins(kind) ==
  /\ at = "idle" /\ ~token /\ count < BatchLength
  /\ Admitted(kind)
  /\ act' = kind /\ count' = count + 1
  /\ snap' = generation /\ left' = DragSteps
  /\ UNCHANGED <<verdict, streak, taken, traceVars>> /\ QueueOnly

BatchFinishes ==
  /\ at = "idle" /\ count = BatchLength /\ Goto("ended")
  /\ UNCHANGED <<act, count, verdict, snap, left, streak, taken, seen, traceVars>> /\ QueueOnly

-----------------------------------------------------------------------------
(* The click dispatcher. *)

Fails == Goto("probe")

\* Mutant: a window in the way may be taken for the target.
Hopeful(window) == IF setting.scoped /\ window = "other" THEN {"blocked", "clear"} ELSE {"clear"}

\* occlusion_verdict: the window that would get the click, or no answer.
Occlusion(window) ==
  IF ~setting.scoped THEN {"clear"}
  ELSE {"unverifiable", IF window = "target" THEN "clear"
                        ELSE IF window = "other" THEN "blocked" ELSE "none"}

ClickHitTest ==
  /\ at \in {"click", "double"}
  /\ verdict' \in Occlusion(top) /\ seen' = shifts
  /\ \/ verdict' = "clear" /\ Goto("emit")
     \/ verdict' = "blocked" /\ act = "click" /\ Goto("press")
     \/ ~(verdict' = "clear" \/ (verdict' = "blocked" /\ act = "click")) /\ Fails
  /\ Kept /\ UNCHANGED <<snap, left, traceVars>> /\ QueueOnly

\* Two looks at the token, the queue's and the driver's, and then the pair.
ClickDirect ==
  /\ at = "emit"
  /\ IF Grabbed THEN Fails ELSE Goto("direct")
  /\ Kept /\ UNCHANGED <<verdict, snap, left, seen, traceVars>> /\ QueueOnly

ClickPosts ==
  /\ at = "direct" /\ Overran /\ Lands(top, "click")
  /\ IF act = "double" THEN Goto("between") ELSE Goto("stamp")
  /\ Kept /\ UNCHANGED <<verdict, snap, left, seen, moved, stamp>> /\ QueueOnly

\* Mutant: the token is not looked at between the two clicks.
DoubleGoesOn ==
  /\ at = "between" /\ Goto("pair")
  /\ Kept /\ UNCHANGED <<verdict, snap, left, seen, traceVars>> /\ QueueOnly

\* The second pair of a double click is dropped once the token has fired.
DoubleContinues ==
  /\ at = "between"
  /\ IF token THEN Goto("stamp") ELSE Goto("pair")
  /\ Kept /\ UNCHANGED <<verdict, snap, left, seen, traceVars>> /\ QueueOnly

DoublePosts ==
  /\ at = "pair" /\ Overran /\ Lands(top, "click") /\ Goto("stamp")
  /\ Kept /\ UNCHANGED <<verdict, snap, left, seen, moved, stamp>> /\ QueueOnly

\* The stamp comes after the input has landed.
ClickStamps ==
  /\ at = "stamp" /\ Stamped /\ Goto("probe")
  /\ Kept /\ UNCHANGED <<verdict, snap, left, seen, late, moved, astray>> /\ QueueOnly

\* A driver error fails the action.  An unsuccessful answer while nobody has
\* grabbed sends a single click to Accessibility, when the target is known, and
\* never a double one.
DirectRefused ==
  /\ at = "direct"
  /\ \/ Fails
     \/ ~Grabbed /\ act = "double" /\ setting.policy = "physical_allowed" /\ Goto("borrow")
     \/ ~Grabbed /\ act = "click" /\ setting.scoped /\ Goto("press")
  /\ Kept /\ UNCHANGED <<verdict, snap, left, seen, traceVars>> /\ QueueOnly

PressCheck ==
  /\ at = "press"
  /\ IF Grabbed THEN Fails ELSE Goto("pressing")
  /\ Kept /\ UNCHANGED <<verdict, snap, left, seen, traceVars>> /\ QueueOnly

\* press_at: AXPress done, no element there that takes it, or an error (no
\* permission, or the element refuses).
PressAt == {"pressed", "unsupported", "failed"}

\* Only an element that takes no press leads on to the physical fallback, and
\* under occlusion not even that.
Presses ==
  /\ at = "pressing"
  /\ \E answer \in PressAt :
       \/ answer = "pressed" /\ Overran /\ Goto("stamp")
       \/ /\ answer = "unsupported" /\ UNCHANGED late
          /\ IF verdict = "clear" /\ setting.policy = "physical_allowed"
               THEN Goto("borrow") ELSE Fails
       \/ answer = "failed" /\ Fails /\ UNCHANGED late
  /\ Kept /\ UNCHANGED <<verdict, snap, left, seen, moved, astray, stamp>> /\ QueueOnly

-----------------------------------------------------------------------------
(* physical_fallback_click *)

BorrowCheck ==
  /\ at = "borrow"
  /\ snap' = generation
  /\ IF recent \/ token THEN Fails ELSE Goto("warp")
  /\ Kept /\ UNCHANGED <<verdict, left, seen, traceVars>> /\ QueueOnly

\* The stamp, then the driver's look at the token, then the warp.
Warps ==
  /\ at = "warp"
  /\ IF token
       THEN Fails /\ UNCHANGED <<late, moved, cursor>>
       ELSE Goto("warped") /\ Overran /\ moved' = moved \cup {"agent"} /\ cursor' = "there"
  /\ Stamped
  /\ Kept /\ UNCHANGED <<setting, verdict, snap, left, seen, astray, humanVars, virtual, button,
                         windowVars>>

WarpCheck ==
  /\ at = "warped"
  /\ IF Grabbed THEN Fails ELSE Goto("clicking")
  /\ Kept /\ UNCHANGED <<verdict, snap, left, seen, traceVars>> /\ QueueOnly

PhysicalClicks ==
  /\ at = "clicking" /\ Overran /\ Stamped /\ Goto("clicked")
  /\ Kept /\ UNCHANGED <<verdict, snap, left, seen, moved, astray>> /\ QueueOnly

\* The cursor goes home only when no human has touched anything.
RestoreCheck ==
  /\ at = "clicked"
  /\ IF Grabbed THEN Fails ELSE Goto("restore")
  /\ Kept /\ UNCHANGED <<verdict, snap, left, seen, traceVars>> /\ QueueOnly

Restores ==
  /\ at = "restore" /\ Goto("probe")
  /\ IF token
       THEN UNCHANGED <<late, moved, cursor>>
       ELSE Overran /\ moved' = moved \cup {"agent"} /\ cursor' = "home"
  /\ Kept /\ UNCHANGED <<setting, verdict, snap, left, seen, astray, stamp, humanVars, virtual,
                         button, windowVars>>

-----------------------------------------------------------------------------
(* mouse::drag, mouse::scroll and the virtual move. *)

DragMoves ==
  /\ at = "drag" /\ Stamped
  /\ IF GivenUp(act)
       THEN Fails /\ UNCHANGED <<late, moved, cursor, button>>
       ELSE Goto("grip") /\ Overran /\ moved' = moved \cup {"agent"} /\ PostOp("move", "home")
  /\ Kept /\ UNCHANGED <<setting, verdict, snap, left, seen, astray, humanVars, virtual,
                         windowVars>>

DragPresses ==
  /\ at = "grip"
  /\ IF GivenUp(act)
       THEN Fails /\ UNCHANGED <<late, cursor, button>>
       ELSE Goto("dragging") /\ Overran /\ PostOp("down", "home")
  /\ Kept /\ UNCHANGED <<setting, verdict, snap, left, seen, moved, astray, stamp, humanVars,
                         virtual, windowVars>>

\* Mutant: a drag that is given up does not let go of the button.
EndsAtOnce == Goto("probe")

DragGivesUp == Goto("release")

DragStep ==
  /\ at = "dragging"
  /\ \/ left = 0 /\ Goto("release") /\ UNCHANGED <<left, late, cursor, button>>
     \/ left > 0 /\ GivenUp(act) /\ DragGivesUp /\ UNCHANGED <<left, late, cursor, button>>
     \/ /\ left > 0 /\ ~GivenUp(act)
        /\ left' = left - 1 /\ PostOp("dragged", "there") /\ Overran /\ Goto("dragWait")
  /\ Kept /\ UNCHANGED <<setting, verdict, snap, seen, moved, astray, stamp, humanVars, virtual,
                         windowVars>>

DragWaits ==
  /\ at = "dragWait"
  /\ Goto("dragging") \/ (GivenUp(act) /\ DragGivesUp)
  /\ Kept /\ UNCHANGED <<verdict, snap, left, seen, traceVars>> /\ QueueOnly

DragReleases ==
  /\ at = "release" /\ PostOp("up", "there") /\ Goto("probe")
  /\ Kept /\ UNCHANGED <<setting, verdict, snap, left, seen, traceVars, humanVars, virtual,
                         windowVars>>

ScrollMoves ==
  /\ at = "scrollAt" /\ Stamped
  /\ IF GivenUp(act)
       THEN Fails /\ UNCHANGED <<late, moved, cursor, button>>
       ELSE Goto("scrolling") /\ Overran /\ moved' = moved \cup {"agent"} /\ PostOp("move", "there")
  /\ Kept /\ UNCHANGED <<setting, verdict, snap, left, seen, astray, humanVars, virtual,
                         windowVars>>

ScrollChunk ==
  /\ at \in {"scroll", "scrolling"}
  /\ IF GivenUp(act) \/ left = 0
       THEN Fails /\ UNCHANGED <<left, late>>
       ELSE left' = left - 1 /\ Overran /\ Goto("scrollWait")
  /\ IF at = "scroll" THEN Stamped ELSE UNCHANGED stamp
  /\ Kept /\ UNCHANGED <<verdict, snap, seen, moved, astray>> /\ QueueOnly

ScrollWaits ==
  /\ at = "scrollWait"
  /\ Goto("scrolling") \/ (GivenUp(act) /\ Fails)
  /\ Kept /\ UNCHANGED <<verdict, snap, left, seen, traceVars>> /\ QueueOnly

VirtualMove ==
  /\ at = "move" /\ virtual' = "there" /\ Stamped /\ Goto("probe")
  /\ Kept /\ UNCHANGED <<setting, verdict, snap, left, seen, late, moved, astray, humanVars,
                         cursor, button, windowVars>>

\* The queue's own wait; a real event has set the flag before the token fired.
Waits ==
  /\ at = "wait"
  /\ \/ Goto("probe") /\ UNCHANGED taken
     \/ /\ GivenUp("wait") /\ Goto("ended")
        /\ taken' = IF generation > 0 THEN "real" ELSE taken
  /\ UNCHANGED <<act, count, streak, verdict, snap, left, seen, traceVars>> /\ QueueOnly

-----------------------------------------------------------------------------
(* Keyboard input: no look at the token, only the one before the action. *)

KeysPost ==
  /\ at \in {"keys", "paste"} /\ ~GivenUp(act) /\ Stamped /\ Overran /\ Lands(front, act) /\ Goto("probe")
  /\ Kept /\ UNCHANGED <<verdict, snap, left, seen, moved>> /\ QueueOnly

\* An unknown key, two action keys in one combo or none at all, and a clipboard
\* the helper does not set, fail the action before anything is posted and after
\* it was stamped.
KeysRefused ==
  /\ at \in {"keys", "paste"} /\ Stamped /\ Fails
  /\ Kept /\ UNCHANGED <<verdict, snap, left, seen, late, moved, astray>> /\ QueueOnly

-----------------------------------------------------------------------------
(* After the action: the pointer-delta fallback, when the tap is not active.
   It compares the real cursor with the agent's virtual pointer. *)

MovesPointer(kind) == kind \in {"click", "double", "move", "drag", "scrollAt"}
RequiredJumps == 2

Probe ==
  /\ at = "probe"
  /\ IF setting.tap = "active" \/ MovesPointer(act)
       THEN Goto("idle") /\ UNCHANGED <<streak, taken>>
       ELSE LET jumps == IF cursor # virtual THEN streak + 1 ELSE 0
            IN  /\ streak' = jumps
                /\ IF jumps >= RequiredJumps
                     THEN Goto("ended") /\ taken' = "heuristic"
                     ELSE Goto("idle") /\ UNCHANGED taken
  /\ UNCHANGED <<act, count, verdict, snap, left, seen, traceVars>> /\ QueueOnly

-----------------------------------------------------------------------------
Click == ClickHitTest \/ ClickDirect \/ ClickPosts \/ DoubleContinues \/ DoublePosts
         \/ ClickStamps \/ DirectRefused \/ PressCheck \/ Presses
Physical == BorrowCheck \/ Warps \/ WarpCheck \/ PhysicalClicks \/ RestoreCheck \/ Restores
Motion == DragMoves \/ DragPresses \/ DragStep \/ DragWaits \/ DragReleases
          \/ ScrollMoves \/ ScrollChunk \/ ScrollWaits \/ VirtualMove \/ Waits

ActuationNext ==
  \/ BatchHalts \/ BatchFinishes \/ Probe \/ Click \/ Physical \/ Motion \/ KeysPost \/ KeysRefused
  \/ \E action \in Wire : \E kind \in ToResolved(action) : BatchBegins(kind) \/ BatchRefused(kind)
  \/ HumanActs \/ WindowsShift \/ Dropped

\* The queue and the driver go on; nothing is assumed of the human.
ActuationFairness == WF_actuationVars(
  BatchHalts \/ BatchFinishes \/ Probe \/ Click \/ Physical \/ Motion \/ KeysPost \/ KeysRefused)

ActuationSpec == ActuationInit /\ [][ActuationNext]_actuationVars /\ ActuationFairness

-----------------------------------------------------------------------------
(* Properties *)

Points == Kinds \cup {"idle", "emit", "direct", "between", "pair", "stamp", "press", "pressing",
  "borrow", "warp", "warped", "clicking", "clicked", "restore", "grip", "dragging", "dragWait",
  "release", "scrolling", "scrollWait", "probe", "ended", "dropped"}

\* Every variable has its type.
ActuationTypeOK ==
  /\ setting \in Settings /\ act \in Kinds /\ count \in 0..BatchLength
  /\ at \in Points
  /\ verdict \in Verdicts
  /\ snap \in 0..MaxHuman /\ left \in 0..DragSteps
  /\ streak \in 0..RequiredJumps /\ taken \in {"no", "real", "heuristic"}
  /\ generation \in 0..MaxHuman /\ token \in BOOLEAN /\ recent \in BOOLEAN
  /\ cursor \in Places /\ virtual \in Places /\ button \in {"up", "down"}
  /\ top \in Windows /\ front \in Windows /\ shifts \in 0..MaxShifts /\ seen \in 0..MaxShifts
  /\ late \in Nat /\ moved \subseteq {"human", "agent"}
  /\ astray \subseteq {"click", "keys", "paste"} /\ stamp \in {"older", "newer"}

\* After a human's first event at most the gesture already under way is posted:
\* between any two gestures of an action, and between two actions, the token or
\* the generation is looked at again (the comments P0-2, P0-3 and P0-5 of
\* ActionQueue::run and physical_fallback_click).  A click of a session without
\* physical fallback that lands after the event is stamped after it too, so
\* that human_to_input_stop_ms does not read zero.
OneLateGesture ==
  /\ late <= 1
  /\ (/\ setting.policy # "physical_allowed" /\ act \in {"click", "double"}
      /\ at = "probe" /\ late > 0 /\ generation = 1) => InputStopMs = "positive"

\* Only a session that allows it has its user's cursor moved, whichever backend
\* an action falls back to (README, "Pointer isolation").
IsolationKeepsCursor == "agent" \in moved => setting.policy = "physical_allowed"

\* A click reaches the session's target, and so do keys, unless the windows have
\* changed since the hit test or the focus guard looked.
InputReachesTarget == astray = {}

\* The two together: input goes where the session's owner allowed it to go.
InputStaysOnTarget == IsolationKeepsCursor /\ InputReachesTarget

\* The left button is down only while the drag that pressed it goes on, or when
\* the deadline dropped that drag between two of its steps.
ButtonReleased == button = "down" => at \in {"dragging", "dragWait", "release", "dropped"}

=============================================================================
