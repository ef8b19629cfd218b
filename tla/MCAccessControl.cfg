CONSTANTS
  Request = {r1, r2}
  r1 = r1
  r2 = r2
  ann = ann
  berlin = berlin
  troll = troll
  pool = pool
  local = local
  Zone = {berlin, troll}
  Server = {pool, local}
  Absent = Absent
  Torn = Torn
  None = None
  Admin = admin
  User = {ann}
  Roles <- MCRoles
  Lifetime = 2
  NoUser = NoUser
  Scope <- MCScope
SPECIFICATION FairSpec
INVARIANTS TypeOK NtpAsConfigured DateTimeAnswers StaleRolesExpire
PROPERTIES AdministeredByAdmins EveryRequestEnds
CHECK_DEADLOCK FALSE
