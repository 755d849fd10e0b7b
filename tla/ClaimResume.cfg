SPECIFICATION Spec

CONSTANTS
  s1 = s1
  c1 = c1
  c2 = c2
  Sessions = {s1}
  Acts = {}
  Observes = {}
  Calls = {c1, c2}
  Main = Main
  Tap = Tap
  None = None
  MaxActions = 1
  MaxEvents = 1
  TakeoverPolicy = "AutoPause"

PROPERTIES
  ResumeNeverBypassesTakeover

\* Every request is sent once, so a run may end with nothing left to do.
CHECK_DEADLOCK FALSE
