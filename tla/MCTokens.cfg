SPECIFICATION MCSpec
CONSTANTS
  c1 = c1
  c2 = c2
  b1 = b1
  b2 = b2
  NoCaller = NoCaller
  Callers = {c1, c2}
  MaxTokens = 3
  TrackerCallers = {c1, c2}
  LogicaTokens = 2
  Bases = {b1, b2}
  MaxLapses = 1
  MaxBoots = 2
  MaxCalls = 3
INVARIANTS SingleFlight RetryIsNewer RefusedNotCached TrackerRetryIsNewer
PROPERTIES SessionsEnd TokenComesBack
\* Softruck makes MaxCalls calls, the process of M7 MaxBoots starts: both may rest.
CHECK_DEADLOCK FALSE
