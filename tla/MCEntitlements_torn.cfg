SPECIFICATION ESpec
CONSTANTS
  r1 = r1
  t1 = t1
  t2 = t2
  c1 = c1
  c2 = c2
  x1 = x1
  y1 = y1
  y2 = y2
  p1 = p1
  p2 = p2
  a = a
  b = b
  n1 = n1
  n2 = n2
  ann = ann
  bob = bob
  home = home
  work = work
  AnyContext = AnyContext
  AnyClient = AnyClient
  None = None
  Requests = {r1}
  Operations = {"createClient", "createRole", "createPermission", "put", "remove", "createPersona"}
  Tenants = {t1}
  ClientKeys = {c1}
  RoleKeys = {x1}
  PermissionKeys = {y1}
  PersonaKeys = {p1}
  ClientIds = {a}
  Names = {n1}
  Subs = {ann}
  Contexts = {home}
  MaxFaults = 0
  TenantOf <- OnlyTenant
  SubjectOf <- OnlyAnn
SYMMETRY KeySymmetry
INVARIANTS AllEntitledGranted
CHECK_DEADLOCK FALSE
