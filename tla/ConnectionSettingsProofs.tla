---------------------- MODULE ConnectionSettingsProofs ----------------------
(***************************************************************************)
(* What a change the adapter accepts does to the settings of a family, for *)
(* every set of addresses.                                                 *)
(***************************************************************************)
EXTENDS ConnectionSettings, TLAPS

\* A validated wish is a simple setting, with the methods the program accepts.
LEMMA WishFields ==
  ASSUME NEW wish \in UpdateIpv4SettingsDto \cup UpdateIpv6SettingsDto
  PROVE  /\ wish \in SimpleIpSettings
         /\ wish.method \in {"auto", "manual", "dhcp"}
         /\ wish.address \in Optional(Ip)
         /\ wish.prefix \in Optional(0..128)
         /\ wish.gateway \in Optional(Ip)
         /\ wish.dns \in Optional(Ip)
  BY DEF UpdateIpv4SettingsDto, UpdateIpv6SettingsDto, SimpleIpSettings

\* The translation of a wish: lists of at most one element.
LEMMA ToInternalTyped ==
  ASSUME NEW wish \in UpdateIpv4SettingsDto \cup UpdateIpv6SettingsDto
  PROVE  /\ ToInternal(wish).method = wish.method
         /\ ToInternal(wish).addresses \in Seq(NetworkAddress)
         /\ ToInternal(wish).gateway \in Optional(Ip)
         /\ ToInternal(wish).dns \in Seq(Ip)
<1>1. wish.dns # Undefined => <<wish.dns>> \in Seq(Ip)
  BY WishFields DEF Optional
<1>2. wish.address # Undefined /\ wish.prefix # Undefined =>
        <<[address |-> wish.address, prefix |-> wish.prefix]>> \in Seq(NetworkAddress)
  <2>1. SUFFICES ASSUME wish.address # Undefined, wish.prefix # Undefined
                 PROVE  [address |-> wish.address, prefix |-> wish.prefix] \in NetworkAddress
    OBVIOUS
  <2>2. wish.address \in Ip /\ wish.prefix \in 0..128
    BY <2>1, WishFields DEF Optional
  <2>3. QED
    BY <2>2 DEF NetworkAddress
<1>3. <<>> \in Seq(Ip) /\ <<>> \in Seq(NetworkAddress)
  OBVIOUS
<1>4. QED
  BY <1>1, <1>2, <1>3, WishFields DEF ToInternal

\* A change gives settings.
LEMMA ApplyChangesTyped ==
  ASSUME NEW ip \in IpSettings,
         NEW wish \in Optional(UpdateIpv4SettingsDto \cup UpdateIpv6SettingsDto)
  PROVE  ApplyChanges(ip, wish) \in IpSettings
<1>1. CASE wish = Undefined
  BY <1>1 DEF ApplyChanges
<1>2. CASE wish # Undefined
  <2> DEFINE changes == ToInternal(wish)
  <2>1. /\ changes.addresses \in Seq(NetworkAddress)
        /\ changes.gateway \in Optional(Ip)
        /\ changes.dns \in Seq(Ip)
    BY <1>2, ToInternalTyped DEF Optional
  <2> HIDE DEF changes
  <2>2. SetDnsData(ip, changes.dns) \in IpSettings
    BY <2>1 DEF SetDnsData, IpSettings
  <2>3. \A named \in IpSettings : SetDHCP(named) \in IpSettings
    <3>1. Undefined \in Optional(Ip) /\ <<>> \in Seq(NetworkAddress)
      BY DEF Optional
    <3>2. QED
      BY <3>1 DEF SetDHCP, IpSettings, IpSettingsMethods
  <2>4. \A named \in IpSettings : SetManual(named, changes) \in IpSettings
    BY <2>1 DEF SetManual, IpSettings, IpSettingsMethods
  <2>5. QED
    BY <1>2, <2>2, <2>3, <2>4 DEF ApplyChanges, changes
<1>3. QED
  BY <1>1, <1>2

\* The settings after a change, property by property.
LEMMA ApplyChangesFields ==
  ASSUME NEW ip \in IpSettings, NEW wish, wish # Undefined
  PROVE  LET changes == ToInternal(wish)
             new == ApplyChanges(ip, wish)
             auto == changes.method = "auto"
         IN /\ new.method = IF auto THEN "auto" ELSE "manual"
            /\ new.addresses = IF auto THEN <<>> ELSE changes.addresses
            /\ new.gateway = IF auto THEN Undefined ELSE changes.gateway
            /\ new.dns = changes.dns
            /\ new.rest = ip.rest
  BY DEF ApplyChanges, SetDnsData, SetDHCP, SetManual, IpSettings

\* A change that is accepted keeps settings coherent: DHCP takes address and gateway
\* away, the manual method comes with both (applyChanges, setDHCP, setManual).
LEMMA ApplyChangesCoherent ==
  ASSUME NEW ip \in IpSettings, NEW wish, Coherent(ip), Accepts(wish)
  PROVE  Coherent(ApplyChanges(ip, wish))
<1>1. CASE wish = Undefined
  BY <1>1 DEF ApplyChanges
<1>2. CASE wish # Undefined
  <2>1. ToInternal(wish).method = wish.method
    BY DEF ToInternal
  <2>2. QED
    BY <1>2, <2>1, ApplyChangesFields DEF Coherent, Accepts
<1>3. QED
  BY <1>1, <1>2

\* A change that is accepted gives the client what it asked for by auto or manual, read
\* back through getActiveConnection, and keeps the rest.
LEMMA ApplyChangesGrants ==
  ASSUME NEW ip \in IpSettings,
         NEW wish \in Optional(UpdateIpv4SettingsDto \cup UpdateIpv6SettingsDto),
         Accepts(wish)
  PROVE  Grants(wish, ip, ApplyChanges(ip, wish))
<1>1. CASE wish = Undefined
  BY <1>1 DEF ApplyChanges, Grants
<1>2. CASE wish # Undefined
  <2> DEFINE changes == ToInternal(wish)
             new == ApplyChanges(ip, wish)
  <2>1. wish \in UpdateIpv4SettingsDto \cup UpdateIpv6SettingsDto
    BY <1>2 DEF Optional
  <2>2. /\ new.method = IF wish.method = "auto" THEN "auto" ELSE "manual"
        /\ new.addresses = IF wish.method = "auto" THEN <<>> ELSE changes.addresses
        /\ new.gateway = IF wish.method = "auto" THEN Undefined ELSE wish.gateway
        /\ new.dns = changes.dns
        /\ new.rest = ip.rest
    BY <1>2, ApplyChangesFields DEF ToInternal
  <2>3. changes.dns = IF wish.dns = Undefined THEN <<>> ELSE <<wish.dns>>
    BY DEF ToInternal
  <2>4. wish.method # "auto" =>
          /\ wish.address # Undefined
          /\ wish.prefix # Undefined
          /\ changes.addresses = <<[address |-> wish.address, prefix |-> wish.prefix]>>
    BY <1>2 DEF Accepts, ToInternal
  <2>5. wish = [method |-> wish.method, address |-> wish.address, prefix |-> wish.prefix,
                gateway |-> wish.gateway, dns |-> wish.dns]
    BY <2>1, WishFields DEF SimpleIpSettings
  <2> HIDE DEF changes, new
  <2>6. (IF new.dns = <<>> THEN Undefined ELSE Head(new.dns)) = wish.dns
    BY <2>2, <2>3
  <2>10. ToSimple(new).dns = wish.dns
    BY <2>6 DEF ToSimple
  <2>7. CASE wish.method = "auto"
    <3>1. ToSimple(new) = [method |-> "auto", address |-> Undefined, prefix |-> Undefined,
                           gateway |-> Undefined, dns |-> wish.dns]
      BY <2>2, <2>6, <2>7 DEF ToSimple
    <3>2. QED
      BY <1>2, <2>2, <2>7, <2>10, <3>1 DEF Grants, new
  <2>8. CASE wish.method # "auto"
    <3>1. ToSimple(new) = [method |-> "manual", address |-> wish.address,
                           prefix |-> wish.prefix, gateway |-> wish.gateway, dns |-> wish.dns]
      <4> DEFINE a == [address |-> wish.address, prefix |-> wish.prefix]
      <4>1. a.address = wish.address /\ a.prefix = wish.prefix
        OBVIOUS
      <4> HIDE DEF a
      <4>2. new.addresses # <<>> /\ Head(new.addresses) = a
        BY <2>2, <2>4, <2>8 DEF a
      <4>3. QED
        BY <2>2, <2>6, <2>8, <4>1, <4>2 DEF ToSimple
    <3>2. wish.method = "manual" => ToSimple(new) = wish
      BY <2>5, <3>1
    <3>3. QED
      BY <1>2, <2>2, <2>8, <2>10, <3>2 DEF Grants, new
  <2>9. QED
    BY <2>7, <2>8
<1>3. QED
  BY <1>1, <1>2
=============================================================================
