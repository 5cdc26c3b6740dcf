CONSTANTS
  t1 = t1 t2 = t2 h1 = h1 h2 = h2 i1 = i1
  Threads = {t1, t2}
  HashIds = {h1, h2}
  InodeIds = {i1}
  Chunks = {0}
  NoKey = NoKey
  MaxSize = 1
  ChunkSize = 1
  DirtySizes = {0, 1}
  Ops = {"acquire", "invalidate", "get", "insert", "modify", "mark_flushed", "mark_needs_flush", "remove_inode", "cancel"}
  MaxCalls = 2
  MaxBlocks = 4
  MaxFetches = 4
SPECIFICATION MCSpec
INVARIANTS TypeOK NoDanglingIndex BlocksAreQueued RefsCountHandles ChargesAndFetchesAreOwed
PROPERTIES CallsReturn
