SPECIFICATION Spec
CONSTANTS
  o1 = o1  c1 = c1  a = a
  Obj = {o1, o2}
  Coll = {c1, c2}
  Parent = {p1}
  Value = {a, b}
  None = None
  Generated = Generated
  Req = {r1, r2}
  Seed <- MCSeed
INVARIANTS
  TypeOK
  UndisturbedKeeps
PROPERTY HomeKept
