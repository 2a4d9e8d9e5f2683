SPECIFICATION Spec
CONSTANTS
  c1 = c1
  c2 = c2
  c3 = c3
  Contents = {c1, c2, c3}
  Failures = {"prepare", "config", "commit", "commitSync", "restore", "discard"}
  ConfigWritable = TRUE
  MaxFailures = 2
  MaxCrashes = 1
  MaxEdits = 1
SYMMETRY ContentSymmetry
PROPERTIES
  JournalKept
