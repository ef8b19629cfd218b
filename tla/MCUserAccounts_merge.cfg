CONSTANTS
  Login = {admin, alice}
  Admin = admin
  Password = {default, secret}
  DefaultPassword = default
  RoleSet = {{"admin"}, {"user"}}
  AdminRoles = {"admin"}
  ApiRequest = {r1, r2}
  CliRequest = {}
  Serial = FALSE
  Absent = Absent
  NoCall = NoCall
  Null = Null
SPECIFICATION Spec
PROPERTY UpdateMergesExisting
