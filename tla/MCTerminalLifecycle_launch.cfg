SPECIFICATION Spec
CONSTANTS
  local = local
  launch = launch
  r1 = r1
  r2 = r2
  Ids = {local, launch}
  LaunchIds = {launch}
  CwdEmitters = {launch}
  Requests = {r1, r2}
  Limit = 1
  MaxFaults = 1
  MaxCrashes = 1
CONSTRAINT OneInstance
SYMMETRY RequestsAlike
INVARIANTS
  SingleRetirer
  VisibleIsDurable
  WorkerSessionLives
  PromoteFindsLaunch
PROPERTIES
  KeepsRecords
