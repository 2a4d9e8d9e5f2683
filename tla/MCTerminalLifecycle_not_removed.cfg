SPECIFICATION Spec
CONSTANTS
  local = local
  launch = launch
  r1 = r1
  r2 = r2
  Ids = {local}
  LaunchIds = {}
  CwdEmitters = {}
  Requests = {r1}
  Limit = 1
  MaxFaults = 0
  MaxCrashes = 0
INVARIANTS
  RetiredIsRemoved
