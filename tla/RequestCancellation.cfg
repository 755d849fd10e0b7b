SPECIFICATION FairSpec

CONSTANTS
  a1 = a1
  a2 = a2
  c1 = c1
  c2 = c2
  None = None
  Acts = {a1, a2}
  Connections = {c1, c2}
  Conn <- MCConn
  Id <- MCId
  MaxTombstones = 1

INVARIANTS
  TypeOK
  ConfirmedIsCancelled
  SettledOnce
  RegistryMirrorsActs
  EarlyCancelPreventsRun

PROPERTIES
  ImplementsPromise
  EverySettles

\* Every request is sent once, so a run may end with nothing left to do.
CHECK_DEADLOCK FALSE
