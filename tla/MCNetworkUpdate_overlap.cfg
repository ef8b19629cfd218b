CONSTANTS
  Ipv4 <- MCIpv4
  Ipv6 <- MCIpv6
  Rest <- MCRest
  Stored <- MCStored
  Change <- MCChange
  Undefined = Undefined
  ip1 = ip1
  ip2 = ip2
  gw = gw
  dns1 = dns1
  dns2 = dns2
  ip6 = ip6
  gw6 = gw6
  options = options
  Device = {eth0}
  Request = {r1, r2}
  Orderly = FALSE
  Prompt = TRUE
  None = None
SPECIFICATION Spec
PROPERTY ConfirmedOrRolledBack
