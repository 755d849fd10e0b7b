SPECIFICATION CustodySpec

CONSTANTS
  Sessions = {a, b}
  NoSession = NoSession
  MaxActions = 1
  MaxCrashes = 1
  Hosts = {h}
  Flows = {a, b}
  Tools = {t1}
  Exit = Exit
  Cli = Cli
  Nobody = Nobody
  MaxSessions = 2
  MaxRestarts = 1
  Ids = {a, b}
  Callers = {c, d}
  NoneHeld = NoneHeld
  NoToken = NoToken
  SdkVersion = 3
  Versions = {2, 3}
  MaxUpgrades = 1
  MaxHandovers = 1
  MaxInFlight = 1
  Shells = {c, d}
  Quiet = Quiet
  MaxCommands = 2

\* The parts name what is interchangeable with the same values, to have few
\* permutations: no two of them run together.
SYMMETRY CustodySymmetry

INVARIANTS
  CustodyTypeOK
  ManifestsMatchSessions
  RequiredMeansRecorded
  
  

PROPERTY
  CallsMatchGrants
  CommandsWork

\* A part may stop for good: actions, crashes and sessions are bounded.
CHECK_DEADLOCK FALSE
