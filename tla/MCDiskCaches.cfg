CONSTANTS
  c1 = c1 c2 = c2 h1 = h1 h2 = h2 w1 = w1 w2 = w2
  Callers = {c1, c2}
  Hashes = {h1, h2}
  Length <- Lengths
  MaxCalls = 5
  MaxCrashes = 1
  Writers = {w1, w2}
  MaxWrites = 4
  MaxStops = 1
  Machines = {"m1", "m2"}
  Files = {"f"}
  Buckets = {"b"}
  Keys = {"k", "l"}
  Workers = {w1, w2}
  ttl_days = 1
  entry_expiry_days = 1
  MaxTime = 3
  MaxLookups = 3
  MaxEdits = 2
  EditsKeepStat = FALSE
SPECIFICATION Spec
CHECK_DEADLOCK FALSE
INVARIANTS DiskFilesAreSound AnswersWereTrue
PROPERTIES CleanupIsUnseen
