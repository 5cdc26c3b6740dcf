CONSTANTS
  t1 = t1 t2 = t2 f1 = f1 n1 = n1 NoContent = NoContent
  h1 = h1 i1 = i1 c1 = c1 c2 = c2 j1 = j1 j2 = j2 NoKey = NoKey
  Threads = {t1}
  Files = {f1, n1}
  Original <- LargeOriginal
  ChunkSize = 2
  MaxSize = 4
  Ops = {"create", "read", "write", "truncate", "flush", "delete", "remove_new", "clear"}
  WriteSpans <- Spans
  ReadSpans <- Spans
  TruncSizes = {0, 1, 2, 3}
  Gaps = FALSE
  Evictions = "between"
  Faults = {"store", "cache", "room"}
  MaxCalls = 6
  Callers = {c1, c2}
  HashIds = {h1}
  InodeIds = {i1}
  OldInodes = {j1, j2}
SYMMETRY CallerSymmetry
SPECIFICATION AllSpec
INVARIANTS BlocksBelongToFiles PoolsAreConsistent
PROPERTIES ImplementsFileStore EvictionsLoseNothing
