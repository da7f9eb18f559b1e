SPECIFICATION FairSpec
CONSTANTS
  Requests = {r1, r2}
  PoolSize = 1
  MaxOverflow = 0
  Served = {"health", "list", "item"}
  MaxStatements = 1
INVARIANT UnavailableOnlyWithExcuse
PROPERTIES
  Answered
  LivenessAnswers200
