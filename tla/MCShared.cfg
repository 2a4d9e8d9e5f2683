SPECIFICATION SharedSpec
CONSTANTS
  c1 = c1
  c2 = c2
  v1 = v1
  v2 = v2
  a = a
  b = b
  NoCaller = NoCaller
  NoClient = NoClient
  NoViewer = NoViewer
  Callers = {c1, c2}
  MaxConversions = 1
  MaxVersion = 2
  MaxTime = 2
  MaxFaults = 1
  Viewers = {v1, v2}
  Clients = {a, b}
  QueueLimit = 2
  MaxRuns = 2
  MaxOperations = 2
  MaxRequests = 2
  MaxToggles = 1
SYMMETRY Interchangeable
CHECK_DEADLOCK FALSE
INVARIANTS
  PreviewSafe
  ViewersAgree
  CommandsLand
