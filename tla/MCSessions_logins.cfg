SPECIFICATION Spec
CONSTANTS
  r1 = r1
  r2 = r2
  r3 = r3
  p1 = p1
  p2 = p2
  p3 = p3
  t1 = t1
  t2 = t2
  ann = ann
  bob = bob
  a = a
  b = b
  None = None
  Requests = {r1, r2, r3}
  PersonaKeys = {p1, p2, p3}
  Tenants = {t1, t2}
  Subjects = {ann, bob}
  SubjectOf <- AnnTwiceAndBob
  Subs = {a, b}
  SubOf <- SubsOfBoth
  TenantOf <- SharedIssuer
  IdpLifetimes = {1}
  TokenLifetime = 2
  SessionLifetime = 2
  ZoneOffset = 0
  MaxTime = 1
  MaxFaults = 0
SYMMETRY LoginSymmetry
INVARIANTS IInv SessionsHavePersonas GrantedTokenWasStored EventIdsIdentify
INVARIANTS ConcurrentLoginsAgree RevokedStaysRevoked SessionHoldsOwnIdpToken RefreshTokenIsOwn
PROPERTIES RenewalKeepsRefreshToken ImplementsRefreshTokens
CHECK_DEADLOCK FALSE
