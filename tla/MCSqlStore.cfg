SPECIFICATION Spec
CONSTANTS
  c1 = c1
  c2 = c2
  u1 = u1
  u2 = u2
  e1 = e1
  x1 = x1
  t1 = t1
  Absent = Absent
  Caller = {c1, c2}
  User = {u1, u2}
  Email = {e1}
  Challenge = {x1}
  Token = {t1}
  Dialects = {"postgres", "mysql", "sqlite"}
  PoolSize = 2
  MaxIssued <- Issued
  MaxFaults = 1
INVARIANTS
  TypeOK
  ReportedClaimsHold
  PooledReadsWhole
  SomebodyMoves
PROPERTIES
  ImplementsDirectory
  PoolsImplementStore
  EveryCallAnswered
