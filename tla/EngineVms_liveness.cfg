SPECIFICATION FairSpec
CONSTANTS
  v1 = v1  v2 = v2  v3 = v3
  h1 = h1  h2 = h2  h3 = h3
  c1 = c1  c2 = c2
  n1 = n1  n2 = n2
  None = None
  Vm = {v1, v2}
  Host = {h1}
  Cluster = {c1, c2}
  Name = {n1, n2}
  Req = {r1, r2}
  Power <- MCPower
  Release <- MCRelease
  HostPower <- MCHostPower
  DefaultStatus = "down"
  Seed <- MCDemo
INVARIANT IInv
PROPERTY Answered
