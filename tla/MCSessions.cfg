SPECIFICATION Spec
CONSTANTS
  u1 = u1
  u2 = u2
  t1 = t1
  t2 = t2
  t3 = t3
  t4 = t4
  c1 = c1
  c2 = c2
  Null = Null
  Users = {u1, u2}
  TokenIds = {t1, t2, t3, t4}
  RefreshCalls = {c1, c2}
SYMMETRY Symmetry
INVARIANTS
  TypeOK
  ExchangedTokensRevoked
  ReplaysBounded
  RevokedHasCause
PROPERTY
  RevokedForGood
