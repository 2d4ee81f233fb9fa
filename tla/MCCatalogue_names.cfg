SPECIFICATION Spec
CONSTANTS
  r1 = r1
  r2 = r2
  r3 = r3
  t1 = t1
  t2 = t2
  c1 = c1
  c2 = c2
  x1 = x1
  x2 = x2
  y1 = y1
  y2 = y2
  p1 = p1
  p2 = p2
  a = a
  b = b
  n1 = n1
  ann = ann
  bob = bob
  None = None
  Requests = {r1, r2}
  Operations = {"createClient", "createPermission"}
  Tenants = {t1}
  ClientKeys = {c1}
  RoleKeys = {x1}
  PermissionKeys = {y1, y2}
  PersonaKeys = {p1}
  ClientIds = {a}
  Names = {n1}
  MaxFaults = 0
  TenantOf <- OneTenant
  SubjectOf <- OneAnn
INVARIANT PermissionNamesUnique
CHECK_DEADLOCK FALSE
