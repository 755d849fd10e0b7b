SPECIFICATION Spec

CONSTANTS
  s1 = s1
  Sessions = {s1}
  Acts = {}
  Observes = {}
  Calls = {}
  Main = Main
  Tap = Tap
  None = None
  MaxActions = 1
  MaxEvents = 0
  TakeoverPolicy = "AutoPause"

INVARIANTS
  ShutdownStopsEverySession

\* Every request is sent once, so a run may end with nothing left to do.
CHECK_DEADLOCK FALSE
