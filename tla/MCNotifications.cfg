SPECIFICATION MCSpec
CONSTANTS
  v1 = v1
  u1 = u1
  u2 = u2
  r1 = r1
  k1 = k1
  Requests = {r1}
  Consults = {k1}
  MaxSessions = 2
  MaxTotal = 2
  MaxFaults = 1
  Vehicles = {v1}
  Users = {u1, u2}
  MaxEvents = 1
  MaxChanges = 1
  MaxFailures = 2
  MaxCrashes = 2
  MaxUser = 4
  ChunkSize = 2
  MaxConsents = 1
  MarketingFailures = 2
INVARIANTS EveryPushHasRow AuditIsTrue NeverOverstated PushOnceAndDone
PROPERTY JobsEnd
\* The bounds on events and requests are reached: the system rests.
CHECK_DEADLOCK FALSE
