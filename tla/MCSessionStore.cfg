SPECIFICATION Spec
SYMMETRY MCSymmetry
CONSTANTS
  c1 = c1
  c2 = c2
  s1 = s1
  s2 = s2
  s3 = s3
  None = None
  Callers = {c1, c2}
  SessionIds = {s1, s2, s3}
  Ids = {1, 2}
  Inputs <- MCInputs
  MaxSessions = 1
  MaxAge = 2
  Keys = {"k"}
  MaxCacheAge = 2
  MaxNow = 3
INVARIANTS
  ReadyMeansMigrated
  RetentionKept
  TablesMatchDocument
  OwnWriteIsSeen
PROPERTIES
  OnlyTheOldGo
  KeepsPromise
