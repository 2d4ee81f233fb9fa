SPECIFICATION Spec
CONSTANTS
  r1 = r1
  r2 = r2
  r3 = r3
  t1 = t1
  t2 = t2
  c1 = c1
  c2 = c2
  x1 = x1
  x2 = x2
  y1 = y1
  y2 = y2
  p1 = p1
  p2 = p2
  a = a
  b = b
  n1 = n1
  ann = ann
  bob = bob
  None = None
  Requests = {r1, r2}
  Operations = {"createClient", "updateClient", "deleteClient", "createRole", "createClientRole", "createPermission", "put", "remove", "createPersona", "deletePersona"}
  Tenants = {t1, t2}
  ClientKeys = {c1, c2}
  RoleKeys = {x1}
  PermissionKeys = {y1}
  PersonaKeys = {p1}
  ClientIds = {a, b}
  Names = {n1}
  MaxFaults = 1
  TenantOf <- OneTenant
  SubjectOf <- OneAnn
SYMMETRY Symmetry
VIEW View
INVARIANTS IInv ClientsHaveTenant NothingOutlivesItsClient LinksRespectScope
CHECK_DEADLOCK FALSE
PROPERTY ImplementsAssignments
