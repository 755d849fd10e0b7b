SPECIFICATION FairSpec

CONSTANTS
  s1 = s1
  s2 = s2
  c1 = c1
  c2 = c2
  Sessions = {s1, s2}
  Acts = {}
  Observes = {}
  Calls = {c1, c2}
  Main = Main
  Tap = Tap
  None = None
  MaxActions = 1
  MaxEvents = 0
  TakeoverPolicy = "AutoPause"

INVARIANTS
  LeaseHeld

PROPERTIES
  ImplementsLease
  StoppedReleases
  

\* Every request is sent once, so a run may end with nothing left to do.
CHECK_DEADLOCK FALSE
