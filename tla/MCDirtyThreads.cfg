CONSTANTS
  t1 = t1 t2 = t2 f1 = f1 n1 = n1 NoContent = NoContent
  Threads = {t1, t2}
  Files = {f1, n1}
  Original <- LargeOriginal
  ChunkSize = 2
  MaxSize = 3
  Ops = {"create", "read", "write", "truncate", "flush", "delete", "remove_new"}
  WriteSpans <- ThreadSpans
  ReadSpans <- ThreadSpans
  TruncSizes = {1}
  Gaps = FALSE
  Evictions = "any"
  Faults = {"cache"}
  MaxCalls = 4
SYMMETRY Symmetry
SPECIFICATION ThreadSpec
INVARIANTS BytesStayInPlace SmallDiskBytesKeepTheirPlace
