SPECIFICATION PersistenceSpec
CONSTANTS
  c1 = c1
  c2 = c2
  c3 = c3
  u1 = u1
  u2 = u2
  Contents = {c1, c2}
  Failures = {"prepare", "config", "commit", "discard"}
  ConfigWritable = TRUE
  MaxFailures = 2
  MaxCrashes = 2
  MaxEdits = 0
  Uploads = {u1, u2}
  Files = {"f1"}
  MaxUploadFaults = 1
  Keys = {1, 2, 3}
  MaxStored = 2
  MaxSequence = 3
  MaxMessageFaults = 1
SYMMETRY UploadSymmetry
CHECK_DEADLOCK FALSE
INVARIANTS
  Recoverable
  UploadsSafe
  HistorySafe
PROPERTIES
  KeepsPair
  RecordsOnlyAdvance
