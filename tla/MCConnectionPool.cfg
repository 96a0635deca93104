SPECIFICATION FairPoolSpec
CONSTANTS
  p1 = p1
  r1 = r1
  c1 = c1
  c2 = c2
  Probe = {p1}
  Query = {r1}
  Connection = {c1, c2}
  Free = Free
  Pool = Pool
  MaxOutages = 2
INVARIANTS
  StaleConnectionsHarmless
PROPERTIES
  ReadinessRecovers
  ProbesNeverHang
