SPECIFICATION FairSpec
CONSTANTS
  s1 = s1
  s2 = s2
  Slots = {s1}
  MaxBoletos = 2
  MaxFailures = 1
  SlowRuns = TRUE
PROPERTY PaidIsNoticed
