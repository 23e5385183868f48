SPECIFICATION MCSpec
CONSTANTS
  r1 = r1
  r2 = r2
  v1 = v1
  v2 = v2
  u1 = u1
  u2 = u2
  s1 = s1
  s2 = s2
  k1 = k1
  k2 = k2
  k3 = k3
  f1 = f1
  f2 = f2
  f3 = f3
  a1 = a1
  a2 = a2
  a3 = a3
  b1 = b1
  b2 = b2
  c1 = c1
  c2 = c2
  d1 = d1
  d2 = d2
  NoUser = NoUser
  Requests = {r1, r2}
  Vehicles = {v1, v2}
  Users = {u1, u2}
  RowsOf <- OneOwned
  MaxLost = 1
  Syncs = {s1, s2}
  Chassis = {k1, k2, k3}
  MaxMoves = 3
  MaxFailures = 1
  Callers = {c1, c2}
  Devices = {d1, d2}
  CacheTtl = 1
  MaxInstant = 3
  ProviderMoves = 2
  FileRequests = {f1, f2, f3}
  AccountRequests = {a1, a2, a3}
  Bases <- TwoBases
  MaxAttempts = 2
  Relists = 1
INVARIANTS StatusIsTrue OwnedStaysActive LatestListDecides RightProvider
  FilesMatchRows AccountServesItsOwner
PROPERTY NoAccidentalReset
\* The requests about a file or an account are made once each: all may have ended.
CHECK_DEADLOCK FALSE
