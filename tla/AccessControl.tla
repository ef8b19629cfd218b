---------------------------- MODULE AccessControl ----------------------------
(***************************************************************************)
(* Who may do what: the guard of every route, the roles the controllers    *)
(* ask for, the tokens a login issues, and the requests an administrator   *)
(* sends, those to DateTime among them.                                    *)
(*                                                                         *)
(* The guard decides by the token alone: the roles in it are those the     *)
(* login had when it was issued, and it expires by the clock of the        *)
(* device, which the same API sets.  A token is a record of what the guard *)
(* reads and of whether the clock was set back since it was issued: no     *)
(* other token passes verification.                                        *)
(*                                                                         *)
(* A tick of the clock is longer than the check of a password.             *)
(***************************************************************************)
EXTENDS DateTime, FiniteSets

CONSTANTS
  Admin,       \* ADMIN_USER_NAME
  User,        \* the other logins
  Roles,       \* the sets of roles users are given; null is none to the guard
  Lifetime,    \* JWT_EXPIRE, in ticks
  NoUser,      \* there is no user of that login
  Scope        \* bounds of a behaviour: its calls, who logs in, how many tokens, the last
               \* tick, and the requests there are at a time

AccessRoles == {"admin", "user", "read-only"}

ASSUME AccessAssumption ==
  /\ Admin \notin User
  /\ Roles \subseteq SUBSET AccessRoles
  /\ Lifetime \in Nat
  /\ NoUser \notin Roles

VARIABLES
  users,       \* the roles of each user
  tokens,      \* the tokens that were issued
  signing,     \* the logins between the read of the user and the signature
  lost,        \* for how many ticks (Lifetime at most) a login is without a role
  right,       \* of each request: its login held the role it was let in by, or lately did
  scope

accessVars == <<users, tokens, signing, lost, right, scope>>
vars == <<accessVars, timeVars>>

Login == User \cup {Admin}

\* PUT, PATCH and DELETE /authentication/user.
UserSettings == [kind : {"user"}, login : User, roles : Roles \cup {NoUser}]

RebootCall == [kind : {"reboot"}]

Call == DateTimeSettings \cup NtpSettings \cup UserSettings \cup RebootCall

ASSUME ScopeAssumption ==
  \A s \in Scope : s.calls \subseteq Call /\ s.logins \subseteq Login /\ s.days \in Nat
                     /\ s.requests \subseteq Request

Token == [sub : Login, roles : SUBSET AccessRoles, exp : Nat, setBack : BOOLEAN]

-----------------------------------------------------------------------------
(* The decorators of the routes                                            *)

\* A route is public, or for the roles of its handler and of its controller.
Public == [public |-> TRUE, handler |-> {}, class |-> {}]
For(handler, class) == [public |-> FALSE, handler |-> handler, class |-> class]
AdminsOnly == For({}, {})

AuthenticationRoutes ==
  [login |-> Public, updatePassword |-> AdminsOnly, resetAdminPassword |-> Public]
UserRoutes ==
  [getUser |-> AdminsOnly, createUser |-> AdminsOnly, updateUser |-> AdminsOnly,
   deleteUser |-> AdminsOnly]
DeviceRoutes ==
  [getMetaData |-> For({"read-only"}, {"user"}), setMetaData |-> For({}, {"user"}),
   getPackages |-> For({}, {"user"})]
DeviceStatusRoutes ==
  [getStatus |-> For({}, {"read-only"}), getMetrics |-> For({}, {"read-only"})]
NetworkRoutes ==
  [getInterfaces |-> For({"user"}, {}), getInterface |-> For({"user"}, {}),
   updateInterface |-> AdminsOnly, commit |-> AdminsOnly]
DateTimeRoutes ==
  [getDateTimeInfo |-> For({"user"}, {}), getAvailableTimezones |-> For({"user"}, {}),
   updateDateTime |-> AdminsOnly, updateNtpSettings |-> AdminsOnly]
DeviceConfigRoutes ==
  [getSupportedConfigurations |-> AdminsOnly, getConfigurationStatus |-> AdminsOnly,
   updateConfiguration |-> AdminsOnly]
DeviceAdminRoutes == [reboot |-> AdminsOnly, generateSosReport |-> AdminsOnly]
SyslogRoutes == [getSyslog |-> AdminsOnly]
OpenApiRoutes == [getSpec |-> Public]
AuthorizationTestRoutes ==
  [getPublic |-> Public, getAdmin |-> AdminsOnly, getUser |-> For({"user"}, {}),
   getReadOnly |-> For({"read-only"}, {}),
   getReadOnlyAndUser |-> For({"read-only", "user"}, {})]
AuthorizationTestRoutes2 ==
  [getAdmin |-> For({}, {"user"}), getReadOnly |-> For({"read-only"}, {"user"})]

RoutesOf(controller) == {controller[h] : h \in DOMAIN controller}

Route ==
  UNION {RoutesOf(AuthenticationRoutes), RoutesOf(UserRoutes), RoutesOf(DeviceRoutes),
         RoutesOf(DeviceStatusRoutes), RoutesOf(NetworkRoutes), RoutesOf(DateTimeRoutes),
         RoutesOf(DeviceConfigRoutes), RoutesOf(DeviceAdminRoutes), RoutesOf(SyslogRoutes),
         RoutesOf(OpenApiRoutes), RoutesOf(AuthorizationTestRoutes),
         RoutesOf(AuthorizationTestRoutes2)}

\* The route of a call this module follows into its handler.
RouteOf(call) ==
  CASE call.kind = "date" -> DateTimeRoutes.updateDateTime
    [] call.kind = "ntp" -> DateTimeRoutes.updateNtpSettings
    [] call.kind = "user" -> UserRoutes.updateUser
    [] call.kind = "reboot" -> DeviceAdminRoutes.reboot

-----------------------------------------------------------------------------
(* AuthenticationGuard                                                     *)

\* Mutant: the expiry of a token is not verified.
VerifiedForEver(t) == t \in tokens

\* jwtService.verifyAsync
Verified(t) == t \in tokens /\ clock < t.exp

\* Mutant: a route without roles is open to every login.
UserAuthorizedByDefault(route, t) ==
  \/ t.sub = Admin
  \/ "admin" \in t.roles
  \/ route.handler \cup route.class = {}
  \/ (route.handler \cup route.class) \cap t.roles # {}

UserAuthorized(route, t) ==
  \/ t.sub = Admin
  \/ "admin" \in t.roles
  \/ (route.handler \cup route.class) \cap t.roles # {}

CanActivate(route, t) == route.public \/ (Verified(t) /\ UserAuthorized(route, t))

\* The login held the role by which it passes less than the lifetime of a token ago.
LatelyHeld(route, t) ==
  \E role \in t.roles \cap ({"admin"} \cup route.handler \cup route.class) :
    lost[t.sub][role] < Lifetime

Rightful(route, t) == t.sub = Admin \/ t.setBack \/ LatelyHeld(route, t)

-----------------------------------------------------------------------------
RolesIn(us, u) == IF u = Admin THEN {"admin"} ELSE IF us[u] = NoUser THEN {} ELSE us[u]

Init ==
  /\ TimeInit
  /\ users = [u \in User |-> NoUser]
  /\ tokens = {}
  /\ signing = {}
  /\ lost = [u \in Login |-> [role \in AccessRoles |->
                                IF role \in RolesIn(users, u) THEN 0 ELSE Lifetime]]
  /\ right = [r \in Request |-> FALSE]
  /\ scope \in Scope

LostAfter(us, ticks) ==
  [u \in Login |-> [role \in AccessRoles |->
     IF role \in RolesIn(us, u) THEN 0
     ELSE IF lost[u][role] + ticks < Lifetime THEN lost[u][role] + ticks ELSE Lifetime]]

\* What a set clock does to the tokens there are.
SetBackIf(back) ==
  tokens' = IF back THEN {[t EXCEPT !.setBack = TRUE] : t \in tokens} ELSE tokens

\* The user is read, its password about to be compared.
LoginRead(u) ==
  /\ u \in User => users[u] # NoUser
  /\ Cardinality(tokens) + Cardinality(signing) < scope.tokens
  /\ signing' = signing \cup {[sub |-> u, roles |-> RolesIn(users, u)]}
  /\ UNCHANGED <<users, tokens, lost, right, scope, timeVars>>

\* signAsync
Expiry == clock + Lifetime

\* The password was right: the token has the roles that were read.
LoginSign(login) ==
  /\ signing' = signing \ {login}
  /\ tokens' = tokens \cup {[sub |-> login.sub, roles |-> login.roles,
                             exp |-> Expiry, setBack |-> FALSE]}
  /\ UNCHANGED <<users, lost, right, scope, timeVars>>

LoginFails(login) ==
  /\ signing' = signing \ {login}
  /\ UNCHANGED <<users, tokens, lost, right, scope, timeVars>>

\* A request is let in to its handler.
Pass(r, t, call) ==
  /\ ~Running(r)
  /\ CanActivate(RouteOf(call), t)
  /\ right' = [right EXCEPT ![r] = Rightful(RouteOf(call), t)]
  /\ req' = [req EXCEPT ![r] =
       [pc |-> FirstStep(call), call |-> call, did |-> {}]]
  /\ UNCHANGED <<users, tokens, signing, lost, scope, clock, zone, daemon, job, file,
                 wanted, broken>>

\* Users are created, changed and removed (UserAccounts has the steps of it).
ChangeUser(r) ==
  /\ At(r, "user")
  /\ users' = [users EXCEPT ![req[r].call.login] = req[r].call.roles]
  /\ Goto(r, "ok")
  /\ lost' = LostAfter(users', 0)
  /\ UNCHANGED <<tokens, signing, right, scope, clock, zone, daemon, job, file, wanted,
                 broken>>

\* Time passes.
Tick ==
  /\ clock < scope.days
  /\ signing = {}
  /\ clock' = clock + 1
  /\ lost' = LostAfter(users, 1)
  /\ UNCHANGED <<users, tokens, signing, right, scope, zone, daemon, job, file, req,
                 wanted, broken>>

Beside == SetBackIf(clock' < clock) /\ UNCHANGED <<users, signing, lost, right, scope>>

Serve(r) == (Handle(r) \/ CallFails(r)) /\ Beside

Device == (RunJob \/ \E time \in 0..scope.days : Synchronise(time)) /\ Beside

\* The API server ends.  The secret of its tokens is in its environment: they stay valid.
Crash ==
  /\ TimeCrash
  /\ signing' = {}
  /\ UNCHANGED <<users, tokens, lost, right, scope>>

\* The device is restarted.
Restart(r, time) ==
  /\ Reboot(r, time)
  /\ SetBackIf(clock' < clock)
  /\ signing' = {}
  /\ UNCHANGED <<users, lost, right, scope>>

Next ==
  \/ \E u \in scope.logins : LoginRead(u)
  \/ \E login \in signing : LoginSign(login) \/ LoginFails(login)
  \/ \E r \in scope.requests, t \in tokens, call \in scope.calls : Pass(r, t, call)
  \/ \E r \in Request : ChangeUser(r) \/ Serve(r)
  \/ Tick
  \/ Device
  \/ Crash
  \/ \E r \in Request, time \in 0..scope.days : Restart(r, time)

Spec == Init /\ [][Next]_vars

\* Every request goes on: the calls it makes are answered, well or not.
FairSpec == Spec /\ \A r \in Request : WF_vars(ChangeUser(r) \/ Serve(r))

-----------------------------------------------------------------------------
(* What is right                                                           *)

RequestState ==
  [pc : {"idle", "check", "time", "zone", "write", "fill", "restart", "switch", "user",
         "reboot", "ok", "failed"},
   call : Call \cup {None}, did : SUBSET {"time", "zone", "switch"}]

TypeOK ==
  /\ clock \in Nat
  /\ zone \in Zone
  /\ daemon \in [on : BOOLEAN, config : Server \cup {Absent, Torn}]
  /\ job \in BOOLEAN
  /\ file \in Server \cup {Absent, Torn}
  /\ req \in [Request -> RequestState]
  /\ wanted \in BOOLEAN
  /\ broken \subseteq {"server", "switch"}
  /\ users \in [User -> Roles \cup {NoUser}]
  /\ tokens \subseteq Token
  /\ signing \subseteq [sub : Login, roles : SUBSET AccessRoles]
  /\ lost \in [Login -> [AccessRoles -> 0..Lifetime]]
  /\ right \in [Request -> BOOLEAN]
  /\ scope \in Scope

\* Roles that were withdrawn, of a login that was removed, or that another user of the
\* same login never had, open no route for longer than a token lives, unless the clock
\* was set back since the token was issued.  (AuthenticationGuard reads the roles in the
\* token; login reads the user before it compares the password.)
StaleRolesExpire ==
  \A t \in tokens, route \in Route :
    ~route.public /\ CanActivate(route, t) => Rightful(route, t)

\* Users, the time zone, the NTP server and its switch change only at a step of a request
\* whose login was the admin or held the admin role less than a token's lifetime before
\* it was let in (unless the clock was set back).
AdministeredByAdmins ==
  [][<<users, zone, file, wanted>>' # <<users, zone, file, wanted>> =>
       \E r \in Request : req'[r] # req[r] /\ right[r]]_vars

\* Every request that was let in is answered, or the server ended.
EveryRequestEnds == \A r \in Request : Running(r) ~> ~Running(r)
=============================================================================
