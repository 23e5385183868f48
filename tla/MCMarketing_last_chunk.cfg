SPECIFICATION Spec
CONSTANTS
  MaxUser = 3
  ChunkSize = 2
  MaxChanges = 0
  MaxFailures = 0
INVARIANT OnlyReachedAreSaved
\* One request is made; once it is answered the system rests.
CHECK_DEADLOCK FALSE
