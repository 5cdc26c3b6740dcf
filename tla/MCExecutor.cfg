CONSTANTS
  c1 = c1 c2 = c2
  Callers = {c1, c2}
  Calls <- AllCalls
  QueueSize = 1
  Workers = 1
SPECIFICATION FairSpec
INVARIANTS TypeOK NoWorkAfterReturn AnswersAreTrue
PROPERTIES CallsEnd
