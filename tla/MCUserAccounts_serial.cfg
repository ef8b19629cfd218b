CONSTANTS
  Login = {admin, alice}
  Admin = admin
  Password = {default, secret}
  DefaultPassword = default
  RoleSet = {{"admin"}, {"user"}}
  AdminRoles = {"admin"}
  ApiRequest = {r1}
  CliRequest = {c1}
  Serial = TRUE
  Absent = Absent
  NoCall = NoCall
  Null = Null
SPECIFICATION FairSpec
PROPERTIES
  ServesDirectory
  EveryRequestEnds
