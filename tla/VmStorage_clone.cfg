SPECIFICATION Spec
CONSTANTS
  v1 = v1  d1 = d1  a1 = a1  s1 = s1
  MCNics = {n1}
  None = None
  Vm = {v1, v2}
  Disk = {d1, d2, d3}
  Att = {a1, a2}
  Domain = {s1}
  Nic = {n1, n2}
  Req = {r1}
  Seed <- MCSeed
INVARIANT CloneCopiesNics
CHECK_DEADLOCK FALSE
