CONSTANTS
  t1 = t1 t2 = t2 f1 = f1 n1 = n1 NoContent = NoContent
  Threads = {t1}
  Files = {n1}
  Original <- LargeOriginal
  ChunkSize = 2
  MaxSize = 2
  Ops = {"create", "write", "flush", "read"}
  WriteSpans <- SmallSpans
  ReadSpans <- SmallSpans
  TruncSizes = {}
  Gaps = FALSE
  Evictions = "between"
  Faults = {}
  MaxCalls = 4
SPECIFICATION FlushSpec
INVARIANT EvictionLosesNothing
