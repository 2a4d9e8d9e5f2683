SPECIFICATION IOSpec
CONSTANTS
  r1 = r1
  r2 = r2
  c1 = c1
  c2 = c2
  s1 = s1
  s2 = s2
  t1 = t1
  t2 = t2
  NoClient = NoClient
  NoWrite = NoWrite
  Clients = {c1, c2}
  Saves = {s1, s2}
  MaxChanges = 3
  MaxErrors = 1
  Observers = {}
  ClientLimit = 1
  QueueLimit = 4
  ByteLimit = 1
  MaxSeq = 2
  MaxExtra = 1
  Terminals = {t1, t2}
  Requests = {r1, r2}
  WriterQueueLimit = 1
  QueueSlots = 1
  PipeLimit = 1
  MaxWrites = 2
CHECK_DEADLOCK FALSE
INVARIANTS
  SessionSafe
  ClientsInStep
  SnapshotsSettle
  AnswersExact
  NoSequenceGap
