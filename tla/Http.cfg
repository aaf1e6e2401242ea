SPECIFICATION HttpSpec
CONSTANTS
  e1 = e1
  e2 = e2
  r1 = r1
  r2 = r2
  ip1 = ip1
  c1 = c1
  c2 = c2
  v1 = v1
  v2 = v2
  k1 = k1
  k2 = k2
  k3 = k3
  f1 = f1
  f2 = f2
  d1 = d1
  d2 = d2
  Ids = {e1, e2}
  Reqs = {r1, r2}
  Ips = {ip1}
  IpOf <- OneIp
  Conns = {c1, c2}
  AdminVers = {v1, v2}
  MaxEntries = 1
  MaxFail = 2
  Window = 1
  Ttl = 1
  MaxMint = 3
  MaxFaults = 1
  MaxRestarts = 1
  Keys = {k1, k2, k3}
  Rate = 1
  Burst = 3
  IdleTtl = 3
  MaxKeys = 2
  Files = {f1, f2}
  Downloads = {d1, d2}
  MaxUpload = 1
  MaxTotal = 3
  FileTtl = 1
  HardCap = 2
INVARIANTS TypesOK ValidIsCurrent RetiredStaysRetired FailuresBounded StoreIsTrue
PROPERTIES CutConnsEnd ImplementsBucket TouchIsBounded
CHECK_DEADLOCK FALSE
