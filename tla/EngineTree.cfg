SPECIFICATION Spec
CONSTANTS
  d1 = d1  d2 = d2  c1 = c1  h1 = h1  n1 = n1  p1 = p1  s1 = s1  o1 = o1  u1 = u1  r1 = r1  m1 = m1  t1 = t1
  x1 = x1  x2 = x2  old = old  new = new
  None = None
  Unknown = Unknown
  Id = {d1, d2, c1, h1, n1, p1, s1, o1, u1, r1, m1, t1, x1, x2}
  Name = {old, new}
  Blank = Blank
  Note = {Blank, "written"}
  DefaultTag <- MCDefaultTag
  Vm = {w1}
  Req = {R1, R2}
  Seed <- MCSeed
SYMMETRY MCSymmetry
INVARIANTS
  TypeOK
  TreeSound
  NoResidue
  GoneForGood
  TagsTellTheTruth
PROPERTIES
  ScopedWrites
  NamedFieldsOnly
  ImplementsTree
