\* The identity columns are bounded: with every key drawn and every row deleted no call changes anything.
SPECIFICATION Spec
CONSTANTS
  t1 = t1
  a = a
  b = b
  role = role
  perm = perm
  group = group
  s1 = s1
  ctx = ctx
  other = other
  c1 = c1
  None = None
  TenantNames = {t1}
  ClientIds = {a, b}
  RoleNames = {role}
  PermissionNames = {perm}
  GroupNames = {group}
  Subjects = {s1}
  Contexts = {ctx, other}
  Callers = {c1}
  MaxKey <- MCMaxKey
INVARIANTS IInv NothingDangles GivenWithinTenant
SYMMETRY NameSymmetry
CHECK_DEADLOCK FALSE
