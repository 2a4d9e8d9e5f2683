SPECIFICATION LiveSpec
CONSTANTS
  local = local
  launch = launch
  s1 = s1
  s2 = s2
  t1 = t1
  q1 = q1
  p1 = p1
  r1 = r1
  e1 = e1
  NoWrite = NoWrite
  Ids = {local, launch}
  LaunchIds = {launch}
  CwdEmitters = {}
  Requests = {r1}
  Limit = 1
  MaxFaults = 1
  MaxCrashes = 1
PROPERTIES
  ClosedIsCleared
  LeftoversRetired
  EventuallyStored
  CallersReturn
  CloseReturns
