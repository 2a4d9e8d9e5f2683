SPECIFICATION ServicesSpec
CONSTANTS
  p1 = p1
  s1 = s1
  s2 = s2
  e1 = e1
  MaxAttempts = 1
  MaxPending = 2
  MaxPendingAttempts = 1
  MaxStep = 2
  MaxTokens = 4
  MaxEnrollments = 2
  MaxFaults = 1
  MaxMeddles = 2
  Callers = {p1}
  Sessions = {s1, s2}
  Endpoints = {e1}
  QueueSize = 1
  RetryAttempts = 2
  MaxSubscriptions = 2
  MaxMessages = 2
  MaxIds = 2
  MaxPushFaults = 1
  PaneRoots = {"a"}
  HomeRoot = "home"
  MaxListings = 2
  MaxVersions = 3
  MaxSize = 2
  MaxEntries = 3
  Window = 1
  MaxStream = 1
CHECK_DEADLOCK FALSE
INVARIANTS
  CredentialsHold
  CodeOnce
  PushSafe
  ListingSafe
PROPERTIES
  EnrollmentSteps
  OnlyGoneRemoved
