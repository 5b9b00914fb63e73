SPECIFICATION FairSpec
CONSTANTS
  Req = {r1, r2}
  Token = {t1, t2, t3}
  Issued = {t1}
  None = None
  PoolSize = 1
  Ttl = 1
  MaxTime = 2
INVARIANTS
  TypeOK
  DeadStaysDead
  PoolBalance
PROPERTY Served
