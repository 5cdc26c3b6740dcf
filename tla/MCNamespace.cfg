CONSTANTS
  Names = {"a", "b"}
  Manifest <- SmallManifest
  original_dirs <- ListedDirs
  MaxNew = 3
  MaxDepth = 3
  t1 = t1
  t2 = t2
  Threads = {t1, t2}
  PageSize = 3
  MaxCalls = 3
  MaxKitNew = 1
  Serialised = TRUE
  ReadLengths = {1, 3, 5}
  ReadPage = 2
  ChunkSize = 2
  MaxHandles = 2
  Damaged = FALSE
SYMMETRY ThreadSymmetry
SPECIFICATION MCSpec
CHECK_DEADLOCK FALSE
INVARIANTS TreeIsSound ChangesDescribeTree BridgeIsComplete ReadsAreRight
PROPERTIES ChangesAreTold CachedReadsSucceed
