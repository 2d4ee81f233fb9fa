SPECIFICATION Spec
CONSTANTS
  r1 = r1
  r2 = r2
  r3 = r3
  p1 = p1
  p2 = p2
  p3 = p3
  t1 = t1
  t2 = t2
  ann = ann
  bob = bob
  a = a
  b = b
  None = None
  Requests = {r1, r2}
  PersonaKeys = {p1}
  Tenants = {t1}
  Subjects = {ann}
  SubjectOf <- OneAnn
  Subs = {a}
  SubOf <- SubOfAnn
  TenantOf <- OneT
  IdpLifetimes = {1}
  TokenLifetime = 2
  SessionLifetime = 2
  ZoneOffset <- West
  MaxTime = 0
  MaxFaults = 0
INVARIANT RefreshEndsWithIdpToken
CHECK_DEADLOCK FALSE
