SPECIFICATION AuthoritySpec

CONSTANTS
  Ids = {s1}
  Callers = {c1, c2}
  NoneHeld = NoneHeld
  NoToken = NoToken
  SdkVersion = 3
  Versions = {3}
  MaxUpgrades = 0
  MaxHandovers = 1
  MaxInFlight = 1

PROPERTY ControlIncludesObservation

\* The one session may have been used up.
CHECK_DEADLOCK FALSE
