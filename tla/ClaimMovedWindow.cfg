SPECIFICATION FramesSpec

CONSTANTS
  Viewers = {v1, v2}
  NoViewer = NoViewer
  StoreLimit = 1
  Required = 2
  MaxFrames = 2
  MaxQueued = 1
  MaxSamples = 3
  MaxChanges = 1

INVARIANTS
  MovedIsStale

\* Frames and changes are bounded, so a run may end with nothing left to do.
CHECK_DEADLOCK FALSE
