SPECIFICATION TargetSpec

CONSTANTS
  WindowIds = {w1}
  Pids = {p1}
  Bundles = {b1}
  Nothing = Nothing
  Boxes <- MCBoxes
  Display <- MCDisplay
  Scale = 2
  MaxWidth = 6
  Asked <- MCAsked
  MaxShuffles = 1

INVARIANT FrameShowsItsWindow

CHECK_DEADLOCK FALSE
