SPECIFICATION DesktopSpec

CONSTANTS
  BatchLength = 2
  MaxHuman = 2
  MaxShifts = 1
  DragSteps = 2
  Viewers = {v1, v2}
  NoViewer = NoViewer
  StoreLimit = 1
  Required = 2
  MaxFrames = 2
  MaxQueued = 1
  MaxSamples = 3
  MaxChanges = 1
  WindowIds = {w1, w2}
  Pids = {p1, p2}
  Bundles = {b1, b2}
  Nothing = Nothing
  Boxes <- MCBoxes
  Display <- MCDisplay
  Scale = 2
  MaxWidth = 6
  Asked <- MCAsked
  MaxShuffles = 2

SYMMETRY DesktopSymmetry

INVARIANTS
  DesktopTypeOK
  
  InputStaysOnTarget
  ButtonReleased
  RunsOnNewestView
  StableMeansQuiet
  NeverRescoped
  

\* A part may stop for good: actions, frames and changes are bounded.
CHECK_DEADLOCK FALSE
