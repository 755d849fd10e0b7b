SPECIFICATION Spec

CONSTANTS
  s1 = s1
  a1 = a1
  a2 = a2
  c1 = c1
  Sessions = {s1}
  Acts = {a1, a2}
  Observes = {}
  Calls = {c1}
  Main = Main
  Tap = Tap
  None = None
  MaxActions = 2
  MaxEvents = 1
  TakeoverPolicy = "AutoPause"

SYMMETRY MCSymmetry

INVARIANTS
  TypeOK
  CancelledBatchOverrun
  TakeoverOverrun
  OneRequestWorks
  NothingLeaks

\* Every request is sent once, so a run may end with nothing left to do.
CHECK_DEADLOCK FALSE
