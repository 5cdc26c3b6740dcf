CONSTANTS
  a1 = a1 a2 = a2 f1 = f1 c1 = c1 c2 = c2
  Agents = {a1, a2}
  Files = {f1}
  Serves <- Everything
  Initial <- SomeFiles
  MaxMessages = 2
  MaxFaults = 1
  Callers = {c1, c2}
  MaxHandles = 2
SPECIFICATION Spec
INVARIANTS RequestsAreAccounted HandlesAreLive
PROPERTIES RequestsAreAnswered
