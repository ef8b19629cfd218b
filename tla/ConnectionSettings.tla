------------------------- MODULE ConnectionSettings -------------------------
(***************************************************************************)
(* The settings of one IP family of a connection, as they travel through   *)
(* the program: the request's simple form, its validation, its translation *)
(* into NetworkManager's form (NetworkService), the change of the stored   *)
(* profile (IpSettingsVariantAdapter) and the translation back.            *)
(*                                                                         *)
(* D-Bus variants are not modelled, a list a profile does not have is the  *)
(* empty list (NetworkManager answers with one), and every property the    *)
(* code does not touch (dns-search, route-data, addr-gen-mode...) is in    *)
(* "rest".                                                                 *)
(***************************************************************************)
EXTENDS Integers, Sequences

CONSTANTS
  Ipv4,        \* addresses, those of the family and those of DNS servers
  Ipv6,
  Rest,        \* values of the properties the code does not touch
  Undefined    \* an optional property that is not there

Ip == Ipv4 \cup Ipv6

ASSUME UndefinedAssumption == Undefined \notin Ip /\ Undefined \notin 0..128

Optional(S) == S \cup {Undefined}

IpSettingsMethods == {"disabled", "auto", "dhcp", "manual", "link-local"}

NetworkAddress == [address : Ip, prefix : 0..128]

\* What NetworkManager stores.
IpSettings ==
  [method : IpSettingsMethods, addresses : Seq(NetworkAddress), gateway : Optional(Ip),
   dns : Seq(Ip), rest : Rest]

\* What a client sends and gets.
SimpleIpSettings ==
  [method : IpSettingsMethods, address : Optional(Ip), prefix : Optional(0..128),
   gateway : Optional(Ip), dns : Optional(Ip)]

\* The requests that pass validation.  The DNS server is not validated.
UpdateIpv4SettingsDto ==
  {s \in SimpleIpSettings :
     /\ s.method \in {"auto", "manual"}
     /\ {s.address, s.gateway} \subseteq Optional(Ipv4)
     /\ s.prefix \in Optional(0..32)}

UpdateIpv6SettingsDto ==
  {s \in SimpleIpSettings :
     /\ s.method \in {"auto", "manual", "dhcp"}
     /\ {s.address, s.gateway} \subseteq Optional(Ipv6)
     /\ s.prefix \in Optional(1..128)}

UpdateNetworkConfigDto ==
  [ipv4 : Optional(UpdateIpv4SettingsDto), ipv6 : Optional(UpdateIpv6SettingsDto)]

-----------------------------------------------------------------------------
(* NetworkService                                                          *)

\* Mutant: the DNS server of a request without a static address is dropped.
ToInternalStaticOnly(ip) ==
  LET static == ip.address # Undefined /\ ip.prefix # Undefined IN
  [method |-> ip.method,
   addresses |-> IF static THEN <<[address |-> ip.address, prefix |-> ip.prefix]>> ELSE <<>>,
   gateway |-> ip.gateway,
   dns |-> IF static /\ ip.dns # Undefined THEN <<ip.dns>> ELSE <<>>]

\* Mutant: an address without a prefix is taken for an address.
ToInternalAddressOnly(ip) ==
  [method |-> ip.method,
   addresses |-> IF ip.address = Undefined THEN <<>>
                 ELSE <<[address |-> ip.address, prefix |-> ip.prefix]>>,
   gateway |-> ip.gateway,
   dns |-> IF ip.dns = Undefined THEN <<>> ELSE <<ip.dns>>]

\* A request without a DNS server asks for none: the list is empty, not absent.
ToInternal(ip) ==
  [method |-> ip.method,
   addresses |-> IF Undefined \in {ip.address, ip.prefix} THEN <<>>
                 ELSE <<[address |-> ip.address, prefix |-> ip.prefix]>>,
   gateway |-> ip.gateway,
   dns |-> IF ip.dns = Undefined THEN <<>> ELSE <<ip.dns>>]

\* Only the first of the addresses and of the DNS servers is shown.
ToSimple(ip) ==
  [method |-> ip.method,
   address |-> IF ip.addresses = <<>> THEN Undefined ELSE Head(ip.addresses).address,
   prefix |-> IF ip.addresses = <<>> THEN Undefined ELSE Head(ip.addresses).prefix,
   gateway |-> ip.gateway,
   dns |-> IF ip.dns = <<>> THEN Undefined ELSE Head(ip.dns)]

-----------------------------------------------------------------------------
(* IpSettingsVariantAdapter                                                *)

\* Mutant: setDHCP leaves the gateway.
SetDHCPKeepGateway(ip) == [ip EXCEPT !.method = "auto", !.addresses = <<>>]

SetDHCP(ip) == [ip EXCEPT !.method = "auto", !.addresses = <<>>, !.gateway = Undefined]

SetManual(ip, changes) ==
  [ip EXCEPT !.method = "manual", !.addresses = changes.addresses,
             !.gateway = changes.gateway]

SetDnsData(ip, dns) == [ip EXCEPT !.dns = dns]

\* applyChanges does not throw.  Every method but auto, dhcp too, is taken for manual.
Accepts(wish) ==
  wish # Undefined /\ wish.method # "auto" =>
    LET changes == ToInternal(wish) IN
    changes.addresses # <<>> /\ changes.gateway # Undefined

\* applyChanges on one family's settings, for a wish it accepts.
ApplyChanges(ip, wish) ==
  IF wish = Undefined THEN ip
  ELSE LET changes == ToInternal(wish)
           named == SetDnsData(ip, changes.dns)
       IN IF changes.method = "auto" THEN SetDHCP(named) ELSE SetManual(named, changes)

-----------------------------------------------------------------------------
\* "some logic to validate rules for invalid setting combinations"
\* (IpSettingsVariantAdapter): a manual configuration has an address, and there is no
\* gateway without one.
Coherent(ip) ==
  ip.addresses = <<>> => ip.method # "manual" /\ ip.gateway = Undefined

\* What the profile shows after a request was granted: what a request for auto or manual
\* asked for, the DNS server of any request, and the rest of the profile as it was.  What
\* becomes of the method dhcp is DhcpIsAutomatic's question (NetworkUpdate).
Grants(wish, old, new) ==
  IF wish = Undefined THEN new = old
  ELSE /\ wish.method = "auto" =>
            ToSimple(new) = [method |-> "auto", address |-> Undefined, prefix |-> Undefined,
                             gateway |-> Undefined, dns |-> wish.dns]
       /\ wish.method = "manual" => ToSimple(new) = wish
       /\ ToSimple(new).dns = wish.dns
       /\ new.rest = old.rest
=============================================================================
