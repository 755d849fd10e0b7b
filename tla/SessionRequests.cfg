SPECIFICATION RequestsSpec

CONSTANTS
  s1 = s1
  a1 = a1
  o1 = o1
  c1 = c1
  Sessions = {s1}
  Acts = {a1}
  Observes = {o1}
  Calls = {c1}
  Main = Main
  Tap = Tap
  None = None
  MaxActions = 1
  MaxEvents = 1
  TakeoverPolicy = "ImmediateTakeover"

PROPERTIES
  RequestsReturn
  HumanEventTakesOver

\* Every request is sent once, so a run may end with nothing left to do.
CHECK_DEADLOCK FALSE
