CONSTANTS
  t1 = t1 t2 = t2 f1 = f1 f2 = f2 f3 = f3 d1 = d1
  Threads = {t1, t2}
  Files = {f1, f2, f3}
  Dirs = {d1}
  Manifest = {f1}
  Owned <- OwnedPaths
  MaxOps = 6
SPECIFICATION Spec
CHECK_DEADLOCK FALSE
INVARIANTS CreationsAreKept ListingsAgree
PROPERTIES CreationsAreRecorded
