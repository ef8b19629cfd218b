------------------------ MODULE AccessControlProofs ------------------------
(***************************************************************************)
(* What holds of AccessControl for any users, roles, tokens, requests and  *)
(* lifetime of a token, and however often the clock is set.                *)
(***************************************************************************)
EXTENDS AccessControl, TLAPS

(***************************************************************************)
(* Types.  A step of a request reads fields of its call: the call must be  *)
(* of the kind the step belongs to.                                        *)
(***************************************************************************)
CallFits(r) ==
  /\ req[r].pc \in {"check", "time", "zone"} => req[r].call \in DateTimeSettings
  /\ req[r].pc \in {"write", "fill", "restart", "switch"} => req[r].call \in NtpSettings
  /\ req[r].pc \in {"write", "fill"} => req[r].call.ntpServer \in Server
  /\ req[r].pc = "user" => req[r].call \in UserSettings
  /\ req[r].pc = "reboot" => req[r].call \in RebootCall

TypeInv == TypeOK /\ \A r \in Request : CallFits(r)

\* The first step of a call is one of its kind.
LEMMA FirstStepFits ==
  ASSUME NEW call \in Call
  PROVE  /\ FirstStep(call) \in {"check", "write", "switch", "user", "reboot"}
         /\ FirstStep(call) = "check" => call \in DateTimeSettings
         /\ FirstStep(call) = "write" => call \in NtpSettings /\ call.ntpServer \in Server
         /\ FirstStep(call) = "switch" => call \in NtpSettings
         /\ FirstStep(call) = "user" => call \in UserSettings
         /\ FirstStep(call) = "reboot" => call \in RebootCall
<1>1. CASE call \in DateTimeSettings
  BY <1>1 DEF FirstStep, DateTimeSettings
<1>2. CASE call \in NtpSettings
  BY <1>2, DateTimeAssumption DEF FirstStep, NtpSettings
<1>3. CASE call \in UserSettings
  BY <1>3 DEF FirstStep, UserSettings
<1>4. CASE call \in RebootCall
  BY <1>4 DEF FirstStep, RebootCall
<1> QED
  BY <1>1, <1>2, <1>3, <1>4 DEF Call

\* The time a login is without a role counts up to the lifetime of a token.
LEMMA LostAfterType ==
  ASSUME TypeOK, NEW us, NEW ticks \in Nat
  PROVE  LostAfter(us, ticks) \in [Login -> [AccessRoles -> 0..Lifetime]]
<1> SUFFICES ASSUME NEW u \in Login, NEW role \in AccessRoles
             PROVE  LostAfter(us, ticks)[u][role] \in 0..Lifetime
  BY DEF LostAfter
<1> lost[u][role] \in 0..Lifetime
  BY DEF TypeOK
<1> QED
  BY AccessAssumption DEF LostAfter

\* What a set clock does to tokens leaves tokens.
LEMMA SetBackType ==
  ASSUME TypeOK, NEW back, SetBackIf(back)
  PROVE  tokens' \subseteq Token
<1>1. CASE ~back
  BY <1>1 DEF SetBackIf, TypeOK
<1>2. CASE back
  <2>1. tokens' = {[t EXCEPT !.setBack = TRUE] : t \in tokens}
    BY <1>2 DEF SetBackIf
  <2>2. ASSUME NEW t \in tokens PROVE [t EXCEPT !.setBack = TRUE] \in Token
    <3>1. t \in [sub : Login, roles : SUBSET AccessRoles, exp : Nat, setBack : BOOLEAN]
      BY DEF TypeOK, Token
    <3> QED
      BY <3>1 DEF Token
  <2> QED
    BY <2>1, <2>2
<1> QED
  BY <1>1, <1>2

\* The roles of a user are roles.
LEMMA RolesInType ==
  ASSUME TypeOK, NEW u \in Login
  PROVE  RolesIn(users, u) \subseteq AccessRoles
  BY AccessAssumption DEF RolesIn, TypeOK, Login, AccessRoles

\* A step of a request to a later step of its kind, or to its end, keeps the types.
LEMMA StepFits ==
  ASSUME TypeInv, NEW r \in Request, NEW pc,
         Goto(r, pc) \/ \E effect \in {"time", "zone", "switch"} : Did(r, effect, pc),
         \/ pc \in {"ok", "failed"}
         \/ req[r].pc = "check" /\ pc = "time"
         \/ req[r].pc = "time" /\ pc = "zone"
         \/ req[r].pc = "write" /\ pc = "fill"
         \/ req[r].pc = "fill" /\ pc = "restart"
         \/ req[r].pc = "restart" /\ pc = "switch"
  PROVE  /\ req' \in [Request -> RequestState]
         /\ \A s \in Request : CallFits(s)'
         /\ \A s \in Request : req'[s].pc \in {"ok", "failed"} \/ Running(s)
                               \/ req'[s] = req[s]
<1>1. req \in [Request -> RequestState]
  BY DEF TypeInv, TypeOK
<1>2. PICK did \in SUBSET {"time", "zone", "switch"} :
        req' = [req EXCEPT ![r] = [req[r] EXCEPT !.pc = pc, !.did = did]]
  <2>1. CASE Goto(r, pc)
    <3>1. req[r] \in RequestState
      BY <1>1
    <3>2. [req[r] EXCEPT !.pc = pc] = [req[r] EXCEPT !.pc = pc, !.did = req[r].did]
      BY <3>1 DEF RequestState
    <3> QED
      BY <2>1, <3>1, <3>2 DEF Goto, RequestState
  <2>2. CASE \E effect \in {"time", "zone", "switch"} : Did(r, effect, pc)
    <3>1. PICK effect \in {"time", "zone", "switch"} : Did(r, effect, pc)
      BY <2>2
    <3>2. req[r].did \cup {effect} \in SUBSET {"time", "zone", "switch"}
      BY <1>1 DEF RequestState
    <3>3. req' = [req EXCEPT ![r] = [req[r] EXCEPT !.pc = pc, !.did = req[r].did \cup {effect}]]
      BY <1>1, <3>1 DEF Did, RequestState
    <3> QED
      BY <3>2, <3>3
  <2> QED
    BY <2>1, <2>2
<1>3. [req[r] EXCEPT !.pc = pc, !.did = did] \in RequestState
  BY <1>1 DEF RequestState
<1>4. req' \in [Request -> RequestState]
  BY <1>1, <1>2, <1>3
<1>5. req'[r].pc = pc /\ req'[r].call = req[r].call
  BY <1>1, <1>2 DEF RequestState
<1>6. \A s \in Request \ {r} : req'[s] = req[s]
  BY <1>1, <1>2
<1>7. CallFits(r)'
  BY <1>5 DEF TypeInv, CallFits
<1>8. \A s \in Request \ {r} : CallFits(s)'
  BY <1>6 DEF TypeInv, CallFits
<1>9. req'[r].pc \in {"ok", "failed"} \/ Running(r)
  BY <1>5 DEF Running
<1> QED
  BY <1>4, <1>6, <1>7, <1>8, <1>9

\* The variables that belong to the access control alone.
AccessTypeOK ==
  /\ users \in [User -> Roles \cup {NoUser}]
  /\ tokens \subseteq Token
  /\ signing \subseteq [sub : Login, roles : SUBSET AccessRoles]
  /\ lost \in [Login -> [AccessRoles -> 0..Lifetime]]
  /\ right \in [Request -> BOOLEAN]
  /\ scope \in Scope

\* Those of DateTime, but for the requests.
DeviceTypeOK ==
  /\ clock \in Nat
  /\ zone \in Zone
  /\ daemon \in [on : BOOLEAN, config : Server \cup {Absent, Torn}]
  /\ job \in BOOLEAN
  /\ file \in Server \cup {Absent, Torn}
  /\ wanted \in BOOLEAN
  /\ broken \subseteq {"server", "switch"}

LEMMA TypeParts ==
  TypeOK <=> AccessTypeOK /\ DeviceTypeOK /\ req \in [Request -> RequestState]
  BY DEF TypeOK, AccessTypeOK, DeviceTypeOK

\* What happens beside a step of DateTime keeps the types of the access control.
LEMMA BesideTypes ==
  ASSUME TypeOK, Beside
  PROVE  AccessTypeOK'
<1>1. tokens' \subseteq Token
  BY SetBackType DEF Beside
<1> QED
  BY <1>1 DEF Beside, TypeOK, AccessTypeOK

\* A step of a request, or the failure of its call, keeps all types.
LEMMA ServeTypes ==
  ASSUME TypeInv, NEW r \in Request, Serve(r)
  PROVE  TypeInv'
<1> USE DEF TypeInv
<1>1. AccessTypeOK'
  BY BesideTypes DEF Serve
<1>2. DeviceTypeOK /\ req \in [Request -> RequestState] /\ CallFits(r)
  BY TypeParts
<1>3. SUFFICES DeviceTypeOK' /\ req' \in [Request -> RequestState]
               /\ \A s \in Request : CallFits(s)'
  BY <1>1, TypeParts DEF TypeOK, AccessTypeOK, DeviceTypeOK
<1>4. CASE CheckNtp(r)
  <2>1. DeviceTypeOK'
    BY <1>2, <1>4 DEF CheckNtp, DeviceTypeOK
  <2> QED
    BY <2>1, <1>4, StepFits DEF CheckNtp, At
<1>5. CASE SetTime(r)
  <2>1. req[r].call.date \in Nat
    BY <1>2, <1>5 DEF SetTime, At, CallFits, DateTimeSettings
  <2>2. DeviceTypeOK'
    BY <1>2, <1>5, <2>1 DEF SetTime, DeviceTypeOK
  <2> QED
    BY <2>2, <1>5, StepFits DEF SetTime, At
<1>6. CASE SetTimezone(r)
  <2>1. req[r].call.timeZone \in Zone
    BY <1>2, <1>6 DEF SetTimezone, At, CallFits, DateTimeSettings
  <2>2. DeviceTypeOK'
    BY <1>2, <1>6, <2>1 DEF SetTimezone, DeviceTypeOK
  <2> QED
    BY <2>2, <1>6, StepFits DEF SetTimezone, At
<1>7. CASE Truncate(r)
  <2>1. DeviceTypeOK'
    BY <1>2, <1>7 DEF Truncate, DeviceTypeOK
  <2> QED
    BY <2>1, <1>7, StepFits DEF Truncate, At
<1>8. CASE WriteServer(r)
  <2>1. req[r].call.ntpServer \in Server
    BY <1>2, <1>8 DEF WriteServer, At, CallFits
  <2>2. DeviceTypeOK'
    BY <1>2, <1>8, <2>1 DEF WriteServer, DeviceTypeOK
  <2> QED
    BY <2>2, <1>8, StepFits DEF WriteServer, At
<1>9. CASE RestartUnit(r)
  <2>1. DeviceTypeOK'
    BY <1>2, <1>9 DEF RestartUnit, DeviceTypeOK
  <2> QED
    BY <2>1, <1>9, StepFits DEF RestartUnit, At
<1>10. CASE SwitchNtp(r)
  <2>1. req[r].call.isNtpEnabled \in BOOLEAN
    BY <1>2, <1>10 DEF SwitchNtp, At, CallFits, NtpSettings
  <2>2. wanted' \in BOOLEAN
    BY <1>10, <2>1 DEF SwitchNtp
  <2>3. daemon' \in [on : BOOLEAN, config : Server \cup {Absent, Torn}] /\ job' \in BOOLEAN
    <3>1. CASE wanted'
      <4>1. UNCHANGED <<daemon, job>> \/ Start
        BY <1>10, <3>1 DEF SwitchNtp
      <4>2. ASSUME Start
            PROVE  daemon' \in [on : BOOLEAN, config : Server \cup {Absent, Torn}]
                   /\ job' \in BOOLEAN
        BY <1>2, <4>2 DEF Start, DeviceTypeOK
      <4> QED
        BY <1>2, <4>1, <4>2 DEF DeviceTypeOK
    <3>2. CASE ~wanted'
      BY <1>2, <1>10, <3>2 DEF SwitchNtp, DeviceTypeOK
    <3> QED
      BY <3>1, <3>2
  <2>4. DeviceTypeOK'
    BY <1>2, <1>10, <2>2, <2>3 DEF SwitchNtp, DeviceTypeOK
  <2> QED
    BY <2>4, <1>10, StepFits DEF SwitchNtp, At
<1>11. CASE CallFails(r)
  <2>1. DeviceTypeOK'
    BY <1>2, <1>11 DEF CallFails, DeviceTypeOK, LeftAt
  <2> QED
    BY <2>1, <1>11, StepFits DEF CallFails
<1> QED
  BY <1>4, <1>5, <1>6, <1>7, <1>8, <1>9, <1>10, <1>11 DEF Serve, Handle

\* A request that is let in is of the type its first step needs.
LEMMA PassTypes ==
  ASSUME TypeInv, NEW r \in Request, NEW t \in tokens, NEW call \in Call, Pass(r, t, call)
  PROVE  TypeInv'
<1> USE DEF TypeInv
<1>1. AccessTypeOK /\ DeviceTypeOK /\ req \in [Request -> RequestState]
  BY TypeParts
<1>2. Rightful(RouteOf(call), t) \in BOOLEAN
  BY <1>1 DEF AccessTypeOK, Token, Rightful, LatelyHeld
<1>3. AccessTypeOK' /\ DeviceTypeOK'
  BY <1>1, <1>2 DEF Pass, AccessTypeOK, DeviceTypeOK
<1>4. [pc |-> FirstStep(call), call |-> call, did |-> {}] \in RequestState
  BY FirstStepFits DEF RequestState
<1>5. req' \in [Request -> RequestState]
  BY <1>1, <1>4 DEF Pass
<1>6. CallFits(r)'
  BY <1>1, FirstStepFits DEF Pass, CallFits
<1>7. \A s \in Request \ {r} : CallFits(s)'
  BY <1>1 DEF Pass, CallFits
<1> QED
  BY <1>3, <1>5, <1>6, <1>7 DEF TypeOK, AccessTypeOK, DeviceTypeOK

\* So does a change of a user.
LEMMA ChangeUserTypes ==
  ASSUME TypeInv, NEW r \in Request, ChangeUser(r)
  PROVE  TypeInv'
<1> USE DEF TypeInv
<1>1. AccessTypeOK /\ DeviceTypeOK /\ req \in [Request -> RequestState]
  BY TypeParts
<1>2. req[r].call.login \in User /\ req[r].call.roles \in Roles \cup {NoUser}
  BY DEF ChangeUser, At, CallFits, UserSettings
<1>3. users' \in [User -> Roles \cup {NoUser}]
  BY <1>1, <1>2 DEF ChangeUser, AccessTypeOK
<1>4. lost' \in [Login -> [AccessRoles -> 0..Lifetime]]
  BY LostAfterType DEF ChangeUser
<1>5. AccessTypeOK' /\ DeviceTypeOK'
  BY <1>1, <1>3, <1>4 DEF ChangeUser, AccessTypeOK, DeviceTypeOK
<1>6. req' \in [Request -> RequestState] /\ \A s \in Request : CallFits(s)'
  BY StepFits DEF ChangeUser
<1> QED
  BY <1>5, <1>6 DEF TypeOK, AccessTypeOK, DeviceTypeOK

\* And what the device does by itself.
LEMMA DeviceTypes ==
  ASSUME TypeInv, Device
  PROVE  TypeInv'
<1> USE DEF TypeInv
<1>1. DeviceTypeOK /\ req' = req /\ AccessTypeOK'
  BY TypeParts, BesideTypes DEF Device, RunJob, Synchronise
<1>2. scope.days \in Nat
  BY ScopeAssumption DEF TypeOK
<1>3. CASE RunJob
  BY <1>1, <1>3 DEF RunJob, Start, TypeOK, AccessTypeOK, DeviceTypeOK, CallFits
<1>4. CASE \E time \in 0..scope.days : Synchronise(time)
  BY <1>1, <1>2, <1>4 DEF Synchronise, TypeOK, AccessTypeOK, DeviceTypeOK, CallFits
<1> QED
  BY <1>3, <1>4 DEF Device

\* A restarted server has no requests.
LEMMA IdleFits ==
  ASSUME req' = [r \in Request |-> Idle]
  PROVE  req' \in [Request -> RequestState] /\ \A r \in Request : CallFits(r)'
<1>1. Idle \in RequestState
  BY DEF Idle, RequestState
<1>2. \A r \in Request : req'[r].pc = "idle"
  BY DEF Idle
<1> QED
  BY <1>1, <1>2 DEF CallFits

LEMMA CrashTypes ==
  ASSUME TypeInv, Crash
  PROVE  TypeInv'
<1>1. AccessTypeOK /\ DeviceTypeOK
  BY TypeParts DEF TypeInv
<1>2. AccessTypeOK'
  BY <1>1 DEF Crash, AccessTypeOK
<1>3. \A r \in Request : LeftAt(req[r].pc) \subseteq {"server", "switch"}
  BY DEF LeftAt
<1>4. DeviceTypeOK'
  BY <1>1, <1>3 DEF Crash, TimeCrash, DeviceTypeOK
<1> QED
  BY <1>2, <1>4, IdleFits DEF Crash, TimeCrash, TypeInv, TypeOK, AccessTypeOK, DeviceTypeOK

LEMMA RestartTypes ==
  ASSUME TypeInv, NEW r \in Request, NEW time \in Nat, Restart(r, time)
  PROVE  TypeInv'
<1>1. AccessTypeOK /\ DeviceTypeOK /\ TypeOK
  BY TypeParts DEF TypeInv
<1>2. tokens' \subseteq Token
  BY <1>1, SetBackType DEF Restart
<1>3. AccessTypeOK'
  BY <1>1, <1>2 DEF Restart, AccessTypeOK
<1>4. DeviceTypeOK'
  BY <1>1 DEF Restart, Reboot, DeviceTypeOK
<1> QED
  BY <1>3, <1>4, IdleFits DEF Restart, Reboot, TypeInv, TypeOK, AccessTypeOK, DeviceTypeOK

\* No user is there at first, and no request.
LEMMA InitTypes == Init => TypeInv
<1> SUFFICES ASSUME Init PROVE TypeInv
  OBVIOUS
<1>1. req \in [Request -> RequestState] /\ \A r \in Request : CallFits(r)
  <2>1. Idle \in RequestState
    BY DEF Idle, RequestState
  <2>2. req = [r \in Request |-> Idle]
    BY DEF Init, TimeInit
  <2>3. \A r \in Request : req[r].pc = "idle"
    BY <2>2 DEF Idle
  <2> QED
    BY <2>1, <2>2, <2>3 DEF CallFits
<1>2. DeviceTypeOK
  BY DEF Init, TimeInit, DeviceTypeOK
<1>3. lost \in [Login -> [AccessRoles -> 0..Lifetime]]
  BY AccessAssumption DEF Init
<1>4. AccessTypeOK
  BY <1>3 DEF Init, AccessTypeOK
<1> QED
  BY <1>1, <1>2, <1>4, TypeParts DEF TypeInv

\* Each step keeps the types.
LEMMA NextTypes == TypeInv /\ [Next]_vars => TypeInv'
<1> SUFFICES ASSUME TypeInv, [Next]_vars PROVE TypeInv'
  OBVIOUS
<1>1. AccessTypeOK /\ DeviceTypeOK /\ TypeOK
  BY TypeParts DEF TypeInv
<1>2. /\ scope.days \in Nat /\ scope.logins \subseteq Login
      /\ scope.calls \subseteq Call /\ scope.requests \subseteq Request
  BY <1>1, ScopeAssumption DEF TypeOK
<1>3. ASSUME NEW u \in scope.logins, LoginRead(u) PROVE TypeInv'
  <2>1. [sub |-> u, roles |-> RolesIn(users, u)] \in [sub : Login, roles : SUBSET AccessRoles]
    BY <1>1, <1>2, RolesInType
  <2>2. signing' \subseteq [sub : Login, roles : SUBSET AccessRoles]
    BY <1>1, <1>3, <2>1 DEF LoginRead, AccessTypeOK
  <2> QED
    BY <1>3, <2>2 DEF LoginRead, timeVars, TypeInv, TypeOK, CallFits
<1>4. ASSUME NEW login \in signing, LoginSign(login) PROVE TypeInv'
  <2>1. login.sub \in Login /\ login.roles \in SUBSET AccessRoles
    BY <1>1 DEF AccessTypeOK
  <2>2. Expiry \in Nat
    BY <1>1, AccessAssumption DEF Expiry, DeviceTypeOK
  <2>3. [sub |-> login.sub, roles |-> login.roles, exp |-> Expiry, setBack |-> FALSE] \in Token
    BY <2>1, <2>2 DEF Token
  <2>4. tokens' \subseteq Token
    BY <1>1, <1>4, <2>3 DEF LoginSign, AccessTypeOK
  <2> QED
    BY <1>4, <2>4 DEF LoginSign, timeVars, TypeInv, TypeOK, CallFits
<1>5. ASSUME NEW login \in signing, LoginFails(login) PROVE TypeInv'
  BY <1>5 DEF LoginFails, timeVars, TypeInv, TypeOK, CallFits
<1>6. ASSUME NEW r \in scope.requests, NEW t \in tokens, NEW call \in scope.calls,
             Pass(r, t, call)
      PROVE  TypeInv'
  BY <1>2, <1>6, PassTypes
<1>7. ASSUME NEW r \in Request, ChangeUser(r) PROVE TypeInv'
  BY <1>7, ChangeUserTypes
<1>8. ASSUME NEW r \in Request, Serve(r) PROVE TypeInv'
  BY <1>8, ServeTypes
<1>9. CASE Tick
  <2>1. lost' \in [Login -> [AccessRoles -> 0..Lifetime]]
    BY <1>1, <1>9, LostAfterType DEF Tick
  <2>2. clock' \in Nat
    BY <1>1, <1>9 DEF Tick, DeviceTypeOK
  <2> QED
    BY <1>9, <2>1, <2>2 DEF Tick, TypeInv, TypeOK, CallFits
<1>10. CASE Device
  BY <1>10, DeviceTypes
<1>11. CASE Crash
  BY <1>11, CrashTypes
<1>12. ASSUME NEW r \in Request, NEW time \in 0..scope.days, Restart(r, time) PROVE TypeInv'
  BY <1>2, <1>12, RestartTypes
<1>13. CASE UNCHANGED vars
  BY <1>13 DEF vars, accessVars, timeVars, TypeInv, TypeOK, CallFits
<1> QED
  BY <1>3, <1>4, <1>5, <1>6, <1>7, <1>8, <1>9, <1>10, <1>11, <1>12, <1>13 DEF Next

\* The variables have their types in every reachable state, and each step of a request
\* reads a call of its own kind.  (AuthenticationGuard, DateTimeService)
THEOREM AccessTypes == Spec => []TypeOK
<1>1. TypeInv => TypeOK
  BY DEF TypeInv
<1> QED
  BY <1>1, InitTypes, NextTypes, PTL DEF Spec

(***************************************************************************)
(* Stale roles.  A token outlasts a role it carries by what is left of its *)
(* lifetime: as long as nobody sets the clock back, its expiry and the     *)
(* time its login is without the role do not run apart.                    *)
(***************************************************************************)
HeldNotLost == \A u \in Login : \A role \in RolesIn(users, u) : lost[u][role] = 0

\* The roles a login is about to be given were withdrawn in this tick, if at all.
SigningFresh == \A login \in signing : \A role \in login.roles : lost[login.sub][role] = 0

TokensLag ==
  \A t \in tokens : ~t.setBack =>
    \A role \in t.roles : t.exp + lost[t.sub][role] <= clock + Lifetime

LagInv == TypeInv /\ HeldNotLost /\ SigningFresh /\ TokensLag

\* With these, a route is open by a role the login lately had.
LEMMA OpenRightly ==
  ASSUME LagInv, NEW t \in tokens, NEW route, ~route.public, CanActivate(route, t)
  PROVE  Rightful(route, t)
<1>1. CASE t.sub = Admin \/ t.setBack
  BY <1>1 DEF Rightful
<1>2. CASE ~(t.sub = Admin \/ t.setBack)
  <2>1. PICK role \in t.roles \cap ({"admin"} \cup route.handler \cup route.class) : TRUE
    BY <1>2 DEF CanActivate, UserAuthorized
  <2>2. t.exp \in Nat /\ t.sub \in Login /\ role \in AccessRoles /\ t.setBack \in BOOLEAN
    BY DEF LagInv, TypeInv, TypeOK, Token
  <2>3. lost[t.sub][role] \in Nat /\ clock \in Nat /\ Lifetime \in Nat
    BY <2>2, AccessAssumption DEF LagInv, TypeInv, TypeOK
  <2>4. t.exp + lost[t.sub][role] <= clock + Lifetime
    BY <1>2, <2>1 DEF LagInv, TokensLag
  <2>5. clock < t.exp
    BY DEF CanActivate, Verified
  <2>6. lost[t.sub][role] < Lifetime
    BY <2>2, <2>3, <2>4, <2>5
  <2> QED
    BY <2>1, <2>6 DEF Rightful, LatelyHeld
<1> QED
  BY <1>1, <1>2

\* The count of the ticks without a role is reset by the role alone.
LEMMA LostAfterCounts ==
  ASSUME TypeOK, NEW us, NEW ticks \in Nat, NEW u \in Login, NEW role \in AccessRoles
  PROVE  /\ LostAfter(us, ticks)[u][role] \in Nat
         /\ LostAfter(us, ticks)[u][role] <= lost[u][role] + ticks
         /\ role \in RolesIn(us, u) => LostAfter(us, ticks)[u][role] = 0
<1>1. lost[u][role] \in 0..Lifetime /\ Lifetime \in Nat
  BY AccessAssumption DEF TypeOK
<1> QED
  BY <1>1 DEF LostAfter

\* Where only the clock moves, and the tokens it was set back under are marked, tokens lag.
LEMMA SetBackLags ==
  ASSUME LagInv, clock' \in Nat, SetBackIf(clock' < clock), lost' = lost
  PROVE  TokensLag'
<1>1. CASE clock' < clock
  <2>1. tokens' = {[t EXCEPT !.setBack = TRUE] : t \in tokens}
    BY <1>1 DEF SetBackIf
  <2>2. \A t \in tokens : [t EXCEPT !.setBack = TRUE].setBack
    BY DEF LagInv, TypeInv, TypeOK, Token
  <2> QED
    BY <2>1, <2>2 DEF TokensLag
<1>2. CASE ~(clock' < clock)
  <2>1. tokens' = tokens
    BY <1>2 DEF SetBackIf
  <2> SUFFICES ASSUME NEW t \in tokens, ~t.setBack, NEW role \in t.roles
               PROVE  t.exp + lost[t.sub][role] <= clock' + Lifetime
    BY <2>1 DEF TokensLag
  <2>2. t.exp \in Nat /\ lost[t.sub][role] \in Nat
    BY AccessAssumption DEF LagInv, TypeInv, TypeOK, Token
  <2>3. t.exp + lost[t.sub][role] <= clock + Lifetime
    BY DEF LagInv, TokensLag
  <2>4. clock \in Nat /\ clock <= clock' /\ Lifetime \in Nat
    BY <1>2, AccessAssumption DEF LagInv, TypeInv, TypeOK
  <2> QED
    BY <2>2, <2>3, <2>4
<1> QED
  BY <1>1, <1>2

LEMMA LoginSignLags ==
  ASSUME LagInv, NEW login \in signing, LoginSign(login)
  PROVE  SigningFresh' /\ TokensLag'
<1>1. SigningFresh'
  BY DEF LoginSign, LagInv, SigningFresh
<1> DEFINE new == [sub |-> login.sub, roles |-> login.roles, exp |-> Expiry, setBack |-> FALSE]
<1>2. clock \in Nat /\ Lifetime \in Nat /\ clock' = clock
  BY AccessAssumption DEF LoginSign, timeVars, LagInv, TypeInv, TypeOK
<1>3. \A role \in new.roles : new.exp + lost[new.sub][role] <= clock + Lifetime
  BY <1>2 DEF LagInv, SigningFresh, Expiry
<1>4. tokens' = tokens \cup {new} /\ lost' = lost
  BY DEF LoginSign
<1> QED
  BY <1>1, <1>2, <1>3, <1>4 DEF LagInv, TokensLag

LEMMA ChangeUserLags ==
  ASSUME LagInv, NEW r \in Request, ChangeUser(r)
  PROVE  HeldNotLost' /\ SigningFresh' /\ TokensLag'
<1>1. /\ lost' = LostAfter(users', 0)
      /\ UNCHANGED <<tokens, signing, clock>>
      /\ TypeOK
  BY DEF ChangeUser, LagInv, TypeInv
<1>2. TypeInv'
  BY ChangeUserTypes DEF LagInv
<1>3. users' \in [User -> Roles \cup {NoUser}]
  BY <1>2 DEF TypeInv, TypeOK
<1>4. HeldNotLost'
  <2> SUFFICES ASSUME NEW u \in Login, NEW role \in RolesIn(users', u)
               PROVE  lost'[u][role] = 0
    BY DEF HeldNotLost
  <2>1. role \in AccessRoles
    BY <1>3, AccessAssumption DEF RolesIn, Login, AccessRoles
  <2> QED
    BY <1>1, <2>1, LostAfterCounts
<1>5. SigningFresh'
  <2> SUFFICES ASSUME NEW login \in signing, NEW role \in login.roles
               PROVE  lost'[login.sub][role] = 0
    BY <1>1 DEF SigningFresh
  <2>1. login.sub \in Login /\ role \in AccessRoles
    BY <1>1 DEF TypeOK
  <2>2. lost[login.sub][role] = 0
    BY DEF LagInv, SigningFresh
  <2> QED
    BY <1>1, <2>1, <2>2, LostAfterCounts
<1>6. TokensLag'
  <2> SUFFICES ASSUME NEW t \in tokens, ~t.setBack, NEW role \in t.roles
               PROVE  t.exp + lost'[t.sub][role] <= clock + Lifetime
    BY <1>1 DEF TokensLag
  <2>1. t.exp \in Nat /\ t.sub \in Login /\ role \in AccessRoles
    BY <1>1 DEF TypeOK, Token
  <2>2. t.exp + lost[t.sub][role] <= clock + Lifetime
    BY DEF LagInv, TokensLag
  <2>3. lost'[t.sub][role] \in Nat /\ lost'[t.sub][role] <= lost[t.sub][role] + 0
    BY <1>1, <2>1, LostAfterCounts
  <2>4. clock \in Nat /\ Lifetime \in Nat /\ lost[t.sub][role] \in Nat
    BY <1>1, <2>1, AccessAssumption DEF TypeOK
  <2> QED
    BY <2>1, <2>2, <2>3, <2>4
<1> QED
  BY <1>4, <1>5, <1>6

LEMMA TickLags ==
  ASSUME LagInv, Tick
  PROVE  HeldNotLost' /\ SigningFresh' /\ TokensLag'
<1>1. /\ lost' = LostAfter(users, 1)
      /\ clock' = clock + 1
      /\ signing' = {}
      /\ UNCHANGED <<tokens, users>>
      /\ TypeOK
  BY DEF Tick, LagInv, TypeInv
<1>2. HeldNotLost'
  <2> SUFFICES ASSUME NEW u \in Login, NEW role \in RolesIn(users, u)
               PROVE  lost'[u][role] = 0
    BY <1>1 DEF HeldNotLost
  <2>1. role \in AccessRoles
    BY <1>1, RolesInType
  <2> QED
    BY <1>1, <2>1, LostAfterCounts
<1>3. SigningFresh'
  BY <1>1 DEF SigningFresh
<1>4. TokensLag'
  <2> SUFFICES ASSUME NEW t \in tokens, ~t.setBack, NEW role \in t.roles
               PROVE  t.exp + lost'[t.sub][role] <= clock + 1 + Lifetime
    BY <1>1 DEF TokensLag
  <2>1. t.exp \in Nat /\ t.sub \in Login /\ role \in AccessRoles
    BY <1>1 DEF TypeOK, Token
  <2>2. t.exp + lost[t.sub][role] <= clock + Lifetime
    BY DEF LagInv, TokensLag
  <2>3. lost'[t.sub][role] \in Nat /\ lost'[t.sub][role] <= lost[t.sub][role] + 1
    BY <1>1, <2>1, LostAfterCounts
  <2>4. clock \in Nat /\ Lifetime \in Nat /\ lost[t.sub][role] \in Nat
    BY <1>1, <2>1, AccessAssumption DEF TypeOK
  <2> QED
    BY <2>1, <2>2, <2>3, <2>4
<1> QED
  BY <1>2, <1>3, <1>4

LEMMA InitLags == Init => LagInv
<1> SUFFICES ASSUME Init PROVE LagInv
  OBVIOUS
<1>1. TypeInv
  BY InitTypes
<1>2. HeldNotLost
  <2> SUFFICES ASSUME NEW u \in Login, NEW role \in RolesIn(users, u)
               PROVE  lost[u][role] = 0
    BY DEF HeldNotLost
  <2>1. role \in AccessRoles
    BY <1>1, RolesInType DEF TypeInv
  <2> QED
    BY <2>1 DEF Init
<1> QED
  BY <1>1, <1>2 DEF Init, LagInv, SigningFresh, TokensLag

LEMMA NextLags == LagInv /\ [Next]_vars => LagInv'
<1> SUFFICES ASSUME LagInv, [Next]_vars PROVE LagInv'
  OBVIOUS
<1>1. TypeInv'
  BY NextTypes DEF LagInv
<1>2. TypeOK /\ clock' \in Nat
  BY <1>1 DEF LagInv, TypeInv, TypeOK
<1> SUFFICES HeldNotLost' /\ SigningFresh' /\ TokensLag'
  BY <1>1 DEF LagInv
<1>3. ASSUME NEW u \in scope.logins, LoginRead(u)
      PROVE  HeldNotLost' /\ SigningFresh' /\ TokensLag'
  <2>1. u \in Login
    BY <1>2, ScopeAssumption DEF TypeOK
  <2>2. \A role \in RolesIn(users, u) : lost[u][role] = 0
    BY <2>1 DEF LagInv, HeldNotLost
  <2>3. SigningFresh'
    BY <1>3, <2>2 DEF LoginRead, LagInv, SigningFresh
  <2> QED
    BY <1>3, <2>3 DEF LoginRead, timeVars, LagInv, HeldNotLost, TokensLag
<1>4. ASSUME NEW login \in signing, LoginSign(login)
      PROVE  HeldNotLost' /\ SigningFresh' /\ TokensLag'
  BY <1>4, LoginSignLags DEF LoginSign, LagInv, HeldNotLost
<1>5. ASSUME NEW login \in signing, LoginFails(login)
      PROVE  HeldNotLost' /\ SigningFresh' /\ TokensLag'
  BY <1>5 DEF LoginFails, timeVars, LagInv, HeldNotLost, SigningFresh, TokensLag
<1>6. ASSUME NEW r \in scope.requests, NEW t \in tokens, NEW call \in scope.calls,
             Pass(r, t, call)
      PROVE  HeldNotLost' /\ SigningFresh' /\ TokensLag'
  BY <1>6 DEF Pass, LagInv, HeldNotLost, SigningFresh, TokensLag
<1>7. ASSUME NEW r \in Request, ChangeUser(r)
      PROVE  HeldNotLost' /\ SigningFresh' /\ TokensLag'
  BY <1>7, ChangeUserLags
<1>8. ASSUME Beside
      PROVE  HeldNotLost' /\ SigningFresh' /\ TokensLag'
  BY <1>2, <1>8, SetBackLags DEF Beside, LagInv, HeldNotLost, SigningFresh
<1>9. CASE Tick
  BY <1>9, TickLags
<1>10. CASE Crash
  BY <1>10 DEF Crash, TimeCrash, LagInv, HeldNotLost, SigningFresh, TokensLag
<1>11. ASSUME NEW r \in Request, NEW time, Restart(r, time)
       PROVE  HeldNotLost' /\ SigningFresh' /\ TokensLag'
  BY <1>2, <1>11, SetBackLags DEF Restart, LagInv, HeldNotLost, SigningFresh
<1>12. CASE UNCHANGED vars
  BY <1>12 DEF vars, accessVars, timeVars, LagInv, HeldNotLost, SigningFresh, TokensLag
<1> QED
  BY <1>3, <1>4, <1>5, <1>6, <1>7, <1>8, <1>9, <1>10, <1>11, <1>12 DEF Next, Serve, Device

\* A role that was withdrawn opens no route for longer than a token lives, unless the clock
\* was set back: for any roles, routes, number of tokens and lifetime.
\* (AuthenticationGuard, AuthenticationService.login)
THEOREM StaleRolesLapse == Spec => []StaleRolesExpire
<1>1. LagInv => StaleRolesExpire
  BY OpenRightly DEF StaleRolesExpire
<1> QED
  BY <1>1, InitLags, NextLags, PTL DEF Spec

(***************************************************************************)
(* Administration.  A request that runs was let in by right.               *)
(***************************************************************************)
RightInv == LagInv /\ \A r \in Request : Running(r) => right[r]

\* A step of a request starts no other.
LEMMA ServeRuns ==
  ASSUME TypeInv, NEW r \in Request, Serve(r) \/ ChangeUser(r)
  PROVE  (\A s \in Request : Running(s)' => Running(s)) /\ right' = right
<1>1. \A s \in Request : req'[s].pc \in {"ok", "failed"} \/ Running(s) \/ req'[s] = req[s]
  <2>1. CASE ChangeUser(r)
    BY <2>1, StepFits DEF ChangeUser
  <2>2. CASE CheckNtp(r)
    BY <2>2, StepFits DEF CheckNtp, At
  <2>3. CASE SetTime(r)
    BY <2>3, StepFits DEF SetTime, At
  <2>4. CASE SetTimezone(r)
    BY <2>4, StepFits DEF SetTimezone, At
  <2>5. CASE Truncate(r)
    BY <2>5, StepFits DEF Truncate, At
  <2>6. CASE WriteServer(r)
    BY <2>6, StepFits DEF WriteServer, At
  <2>7. CASE RestartUnit(r)
    BY <2>7, StepFits DEF RestartUnit, At
  <2>8. CASE SwitchNtp(r)
    BY <2>8, StepFits DEF SwitchNtp, At
  <2>9. CASE CallFails(r)
    BY <2>9, StepFits DEF CallFails
  <2> QED
    BY <2>1, <2>2, <2>3, <2>4, <2>5, <2>6, <2>7, <2>8, <2>9 DEF Serve, Handle
<1> QED
  BY <1>1 DEF Running, Serve, Beside, ChangeUser

LEMMA NextRight == RightInv /\ [Next]_vars => RightInv'
<1> SUFFICES ASSUME RightInv, [Next]_vars PROVE RightInv'
  OBVIOUS
<1>1. LagInv' /\ TypeInv /\ TypeOK
  BY NextLags DEF RightInv, LagInv, TypeInv
<1> SUFFICES \A s \in Request : Running(s)' => right'[s]
  BY <1>1 DEF RightInv
<1>2. ASSUME NEW r \in scope.requests, NEW t \in tokens, NEW call \in scope.calls,
             Pass(r, t, call)
      PROVE  \A s \in Request : Running(s)' => right'[s]
  <2>1. ~RouteOf(call).public
    <3>1. call \in Call
      BY <1>1, ScopeAssumption DEF TypeOK
    <3>2. call.kind \in {"date", "ntp", "user", "reboot"}
      BY <3>1 DEF Call, DateTimeSettings, NtpSettings, UserSettings, RebootCall
    <3> QED
      BY <3>2 DEF RouteOf, DateTimeRoutes, UserRoutes, DeviceAdminRoutes, AdminsOnly, For
  <2>2. Rightful(RouteOf(call), t)
    BY <1>2, <2>1, OpenRightly DEF Pass, RightInv
  <2>3. right \in [Request -> BOOLEAN] /\ req \in [Request -> RequestState]
    BY <1>1 DEF TypeOK
  <2>4. \A s \in Request : s = r \/ (req'[s] = req[s] /\ right'[s] = right[s])
    BY <1>2, <2>3 DEF Pass
  <2>5. r \in Request => right'[r] = TRUE
    BY <1>2, <2>2, <2>3 DEF Pass
  <2> QED
    BY <2>4, <2>5 DEF Running, RightInv
<1>3. ASSUME NEW r \in Request, ChangeUser(r) \/ Serve(r)
      PROVE  \A s \in Request : Running(s)' => right'[s]
  BY <1>1, <1>3, ServeRuns DEF RightInv
<1>4. CASE UNCHANGED <<req, right>>
  BY <1>4 DEF Running, RightInv
<1>5. CASE req' = [s \in Request |-> Idle]
  BY <1>5 DEF Running, Idle
<1>6. ASSUME NEW u \in scope.logins, LoginRead(u) PROVE UNCHANGED <<req, right>>
  BY <1>6 DEF LoginRead, timeVars
<1>7. ASSUME NEW login \in signing, LoginSign(login) \/ LoginFails(login)
      PROVE  UNCHANGED <<req, right>>
  BY <1>7 DEF LoginSign, LoginFails, timeVars
<1>8. Tick \/ Device \/ UNCHANGED vars => UNCHANGED <<req, right>>
  BY DEF Tick, Device, RunJob, Synchronise, Beside, vars, accessVars, timeVars
<1>9. Crash => req' = [s \in Request |-> Idle]
  BY DEF Crash, TimeCrash
<1>10. ASSUME NEW r \in Request, NEW time, Restart(r, time)
       PROVE  req' = [s \in Request |-> Idle]
  BY <1>10 DEF Restart, Reboot
<1> QED
  BY <1>2, <1>3, <1>4, <1>5, <1>6, <1>7, <1>8, <1>9, <1>10 DEF Next

\* A step of a request that runs makes a difference to it.
LEMMA RightSteps ==
  ASSUME RightInv, NEW r \in Request, Running(r), NEW pc, pc # req[r].pc,
         Goto(r, pc) \/ \E effect \in {"time", "zone", "switch"} : Did(r, effect, pc)
  PROVE  req'[r] # req[r] /\ right[r]
<1>1. req \in [Request -> RequestState]
  BY DEF RightInv, LagInv, TypeInv, TypeOK
<1>2. req'[r].pc = pc
  BY <1>1 DEF Goto, Did, RequestState
<1> QED
  BY <1>2 DEF RightInv

\* Users, zone, NTP server and switch change at a step of a request whose login was the
\* admin, or held the admin role less than a token's lifetime before it was let in.
\* (UserController, DateTimeController, AuthenticationGuard)
THEOREM OnlyAdminsAdminister == Spec => AdministeredByAdmins
<1> DEFINE Administered == <<users, zone, file, wanted>>
           ByRight == \E r \in Request : req'[r] # req[r] /\ right[r]
<1>1. Init => RightInv
  BY InitLags DEF Init, TimeInit, Idle, Running, RightInv
<1>2. RightInv /\ [Next]_vars => [Administered' # Administered => ByRight]_vars
  <2> SUFFICES ASSUME RightInv, Next, Administered' # Administered
               PROVE  ByRight
    OBVIOUS
  <2>1. ASSUME NEW r \in Request, ChangeUser(r) PROVE ByRight
    BY <2>1, RightSteps DEF ChangeUser, At, Running
  <2>2. ASSUME NEW r \in Request, Serve(r) PROVE ByRight
    <3>1. CASE SetTimezone(r)
      BY <3>1, RightSteps DEF SetTimezone, At, Running
    <3>2. CASE Truncate(r)
      BY <3>2, RightSteps DEF Truncate, At, Running
    <3>3. CASE WriteServer(r)
      BY <3>3, RightSteps DEF WriteServer, At, Running
    <3>4. CASE SwitchNtp(r)
      BY <3>4, RightSteps DEF SwitchNtp, At, Running
    <3>5. CheckNtp(r) \/ SetTime(r) \/ RestartUnit(r) \/ CallFails(r)
            => UNCHANGED <<zone, file, wanted>>
      BY DEF CheckNtp, SetTime, RestartUnit, CallFails
    <3>6. UNCHANGED users
      BY <2>2 DEF Serve, Beside
    <3> QED
      BY <2>2, <3>1, <3>2, <3>3, <3>4, <3>5, <3>6 DEF Serve, Handle
  <2>3. ASSUME NEW u \in scope.logins, LoginRead(u) PROVE FALSE
    BY <2>3 DEF LoginRead, timeVars
  <2>4. ASSUME NEW login \in signing, LoginSign(login) \/ LoginFails(login) PROVE FALSE
    BY <2>4 DEF LoginSign, LoginFails, timeVars
  <2>5. ASSUME NEW r \in scope.requests, NEW t \in tokens, NEW call \in scope.calls,
               Pass(r, t, call)
        PROVE  FALSE
    BY <2>5 DEF Pass
  <2>6. ~(Tick \/ Device \/ Crash)
    BY DEF Tick, Device, RunJob, Synchronise, Beside, Crash, TimeCrash
  <2>7. ASSUME NEW r \in Request, NEW time, Restart(r, time) PROVE FALSE
    BY <2>7 DEF Restart, Reboot
  <2> QED
    BY <2>1, <2>2, <2>3, <2>4, <2>5, <2>6, <2>7 DEF Next
<1> QED
  BY <1>1, <1>2, NextRight, PTL DEF Spec, AdministeredByAdmins
=============================================================================
