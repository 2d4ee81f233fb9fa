SPECIFICATION Spec
CONSTANTS
  r1 = r1
  r2 = r2
  iss = iss
  alias = alias
  other = other
  t1 = t1
  t2 = t2
  t3 = t3
  u1 = u1
  u2 = u2
  k1 = k1
  k2 = k2
  ann = ann
  bob = bob
  p1 = p1
  p2 = p2
  usher = usher
  app = app
  usherAdmin = usherAdmin
  appUsherAdmin = appUsherAdmin
  appClientAdmin = appClientAdmin
  suffixUsherAdmin = suffixUsherAdmin
  suffixClientAdmin = suffixClientAdmin
  None = None
  AnyClient = AnyClient
  Requests = {r1, r2}
  Issuers = {iss, alias, other}
  Whitelist = {alias, other}
  AliasOf <- MCAliasOf
  Tenants = {t1, t2, t3}
  IssOf <- MCIssOf
  UriOf <- MCUriOf
  Uris = {u1, u2}
  Keys = {k1, k2}
  Subs = {ann, bob}
  Personas = {p1, p2}
  SubOf <- MCSubOf
  Plain = {p1, p2}
  ClientIds = {usher, app}
  RoleNames = {usherAdmin, appUsherAdmin, appClientAdmin}
  SuffixOf <- MCSuffixOf
  UsherAdmin = usherAdmin
  ClientAdmin = suffixClientAdmin
  Calls <- MCCalls
  Changing <- MCChanging
  Installed <- MCInstalled
  Assignable <- MCAssignable
  MaxFetches = 1
  MaxRotations = 1
  MaxFaults = 1000
INVARIANTS IInv ActsWithRole KeyIsTheIssuers
PROPERTIES HolderIsAdmitted LockoutIsFinal
SYMMETRY MCSymmetry
VIEW MCView
