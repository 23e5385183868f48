SPECIFICATION PartSpec
CONSTANTS
  r1 = r1
  n1 = n1
  n2 = n2
  s1 = s1
  v1 = v1
  v2 = v2
  Requests = {r1}
  Days = {1, 2}
  Installs = {n1, n2}
  Sessions = {s1}
  Versions = {v1, v2}
  RateLimitEnabled = TRUE
  IpMax = 1
  InstallMax = 1
  MaxCount = 1
  MaxSummaries = 2
  MaxFailures = 1
  MaxCrashes = 1
  CutsToDays = FALSE
INVARIANTS RowsAgree CountedOnce PanelAgrees
PROPERTIES AcceptedIsCounted BlockIsLifted
\* A key left without a time to live stops every body at the bound MaxCount.
CHECK_DEADLOCK FALSE
