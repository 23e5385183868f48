SPECIFICATION Spec
CONSTANTS
  s1 = s1
  s2 = s2
  Slots = {s1, s2}
  MaxBoletos = 2
  MaxFailures = 1
  SlowRuns = TRUE
INVARIANTS PagoOnlyIfPaid SuspendedIsWatched
PROPERTY WatchedUntilPaid
