SPECIFICATION ProcessesSpec

CONSTANTS
  Callers = {paster, reader}
  Paster = paster
  Processes = {p1, p2}
  NoProcess = NoProcess
  Nobody = Nobody
  MaxRequests = 2
  Pollers = {l1, l2}
  Stoppers = {s1, s2}
  NoStopper = NoStopper
  MaxStarts = 2
  Daemons = {d1, d2}
  Clients = {c1}
  Terminals = {t1}
  Absent = Absent
  Foreign = Foreign
  MaxInflight = 1

INVARIANTS
  ProcessesTypeOK
  HelperInStep
  PasteTypesAndRestores
  StateTellsThread
  ServingIsStoppable

PROPERTIES
  BridgeAnswers
  

\* A part may stop for good: the requests, starts and commands are bounded.
CHECK_DEADLOCK FALSE
