-------------------------- MODULE MCNetworkUpdate ---------------------------
(***************************************************************************)
(* NetworkUpdate for TLC: one device, two slots for requests, one stored   *)
(* profile and the requests that differ in what the adapter does: DHCP     *)
(* with and without a DNS server, a static address, IPv6's dhcp, one       *)
(* without prefix.                                                         *)
(***************************************************************************)
EXTENDS NetworkUpdate

CONSTANTS ip1, ip2, gw, dns1, dns2, ip6, gw6, options

MCIpv4 == {ip1, ip2, gw, dns1, dns2}
MCIpv6 == {ip6, gw6}
MCRest == {options}

StaticProfile ==
  [method |-> "manual",
   addresses |-> <<[address |-> ip1, prefix |-> 24], [address |-> ip2, prefix |-> 24]>>,
   gateway |-> gw, dns |-> <<dns1, dns2>>, rest |-> options]

AutoProfile ==
  [method |-> "auto", addresses |-> <<>>, gateway |-> Undefined, dns |-> <<>>,
   rest |-> options]

MCStored == {[ipv4 |-> StaticProfile, ipv6 |-> AutoProfile], [ipv4 |-> AutoProfile, ipv6 |-> AutoProfile]}

Simple(method, address, prefix, gateway, dns) ==
  [method |-> method, address |-> address, prefix |-> prefix, gateway |-> gateway,
   dns |-> dns]

Auto == Simple("auto", Undefined, Undefined, Undefined, Undefined)
AutoWithDns == [Auto EXCEPT !.dns = dns2]
Static4 == Simple("manual", ip2, 0, gw, dns1)
Dhcp6 == Simple("dhcp", ip6, 64, gw6, Undefined)

MCChange ==
  {[ipv4 |-> AutoWithDns, ipv6 |-> Undefined],
   [ipv4 |-> Static4, ipv6 |-> Auto],
   [ipv4 |-> Undefined, ipv6 |-> Dhcp6],
   [ipv4 |-> Auto, ipv6 |-> [Dhcp6 EXCEPT !.prefix = Undefined]]}
=============================================================================
