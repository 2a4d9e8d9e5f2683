SPECIFICATION Spec
CONSTANTS
  c1 = c1
  c2 = c2
  c3 = c3
  Contents = {c1, c2}
  Failures = {}
  ConfigWritable = FALSE
  MaxFailures = 0
  MaxCrashes = 0
  MaxEdits = 0
INVARIANTS
  ReadOnlyStarts
