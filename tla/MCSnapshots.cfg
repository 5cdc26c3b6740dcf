CONSTANTS
  BeginsWith <- Names
  Dollar <- Refs
  Targets <- Texts
  Paths <- Tracked
  SizeOf <- Sizes
  ChunkSize = 1
  Filters <- Patterns
  MaxEdits = 1
SPECIFICATION Spec
CHECK_DEADLOCK FALSE
INVARIANTS SnapshotsAreTrees DiffsLeadOver OperationsKeepFiles
