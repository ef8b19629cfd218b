---------------------------- MODULE UserAccounts ----------------------------
(***************************************************************************)
(* Users and their passwords: UserRepository, UserService and              *)
(* AuthenticationService over the user store, as the API server and the    *)
(* command line run them.                                                  *)
(*                                                                         *)
(* A request is modelled from the moment its handler is entered, the       *)
(* guard and the validation pipe being behind it.  Its steps are the       *)
(* pieces of code between two awaits that give the event loop back: the    *)
(* password comparison and the hashing (a thread of the pool), and the     *)
(* commit of a write.  An await on a promise that is already settled       *)
(* (UserRepository.getByLogin) does not let another request run in         *)
(* between, so a repository call reads and queues its write in one step.   *)
(*                                                                         *)
(* A password stands for its hash: comparePasswords succeeds exactly for   *)
(* the password that was hashed.  Descriptions and time stamps, which no   *)
(* decision reads, are left out.                                           *)
(***************************************************************************)
EXTENDS Sequences

CONSTANTS
  Login, Admin,               \* Admin is ADMIN_USER_NAME
  Password, DefaultPassword,  \* DefaultPassword is printed on the device
  RoleSet, AdminRoles,        \* sets of roles a user may have; AdminRoles is ['admin']
  ApiRequest, CliRequest,     \* slots for requests of the server, of the command line
  Serial,                     \* TRUE: no request arrives while another is being served
  Absent, NoCall,
  Null                        \* the roles of a user whose update sent null for them

Request == ApiRequest \cup CliRequest

UserData == [password : Password, roles : RoleSet \cup {Null}]

Process == {"api", "cli"}
ProcessOf(r) == IF r \in CliRequest THEN "cli" ELSE "api"

VARIABLES
  db, queue,  \* the user store
  pc,         \* where each request is: idle, start, compare, hash, commit, or its answer
  call,       \* the parameters of the request
  user,       \* the user the authentication read, for as long as it is used
  held        \* history: the passwords each login has rightfully been given

vars == <<db, queue, pc, call, user, held>>

Store == INSTANCE LmdbStore WITH Key <- Login, Value <- UserData, Writer <- Request

-----------------------------------------------------------------------------
(* Calls.  UserDto requires roles; UpdateUserDto makes every field         *)
(* optional, {} standing for "roles not given", and what is optional may   *)
(* be null too.  The DTOs of the server refuse the reserved login as the   *)
(* services do; the command line has no DTO between its options and the    *)
(* services.                                                               *)

AuthenticationCall ==
  [op : {"login"}, login : Login, password : Password] \cup
  [op : {"updatePassword"}, login : Login, password : Password, newPassword : Password]

ResetCall == [op : {"resetAdminPassword"}, login : {Admin}, newPassword : {DefaultPassword}]

CreateCall == [op : {"create"}, login : Login, password : Password, roles : RoleSet]

UpdateCall == [op : {"update"}, login : Login, roles : RoleSet \cup {{}, Null}]

RemoveCall == [op : {"remove"}, login : Login]

CreateAdminCall ==
  [op : {"createAdmin"}, login : {Admin}, password : {DefaultPassword}, roles : {AdminRoles}]

ApiCall == AuthenticationCall \cup ResetCall \cup CreateCall \cup UpdateCall \cup RemoveCall
CliCall == ResetCall \cup CreateCall \cup RemoveCall \cup CreateAdminCall
Call == ApiCall \cup CliCall

ASSUME UserAssumption ==
  /\ ApiRequest \cap CliRequest = {}
  /\ Admin \in Login
  /\ DefaultPassword \in Password
  /\ AdminRoles \in RoleSet
  /\ {} \notin RoleSet
  /\ Null \notin RoleSet \cup {{}}
  /\ Absent \notin UserData
  /\ NoCall \notin Call
  /\ Serial \in BOOLEAN

PC == {"idle", "start", "compare", "hash", "commit", "ok", "refused", "error"}

TypeOK ==
  /\ Store!LmdbTypeOK
  /\ pc \in [Request -> PC]
  /\ call \in [Request -> Call \cup {NoCall}]
  /\ user \in [Request -> UserData \cup {Absent}]
  /\ held \in [Login -> SUBSET Password]

\* The store as earlier runs of the program may have left it.
Init ==
  /\ db \in [Login -> UserData \cup {Absent}]
  /\ db[Admin] # Absent => db[Admin].roles = AdminRoles
  /\ queue = [p \in Process |-> << >>]
  /\ pc = [r \in Request |-> "idle"]
  /\ call = [r \in Request |-> NoCall]
  /\ user = [r \in Request |-> Absent]
  /\ held = [l \in Login |-> IF db[l] = Absent THEN {} ELSE {db[l].password}]

-----------------------------------------------------------------------------
Goto(r, s) == pc' = [pc EXCEPT ![r] = s]

\* The request gets its answer without a write.
Reply(r, a) ==
  /\ Goto(r, a)
  /\ UNCHANGED <<db, queue, call, user, held>>

\* Mutant: the promise of the put is not awaited.
WriteNotAwaited(r, v) ==
  /\ Store!Enqueue(ProcessOf(r), call[r].login, v, r)
  /\ Goto(r, "ok")
  /\ UNCHANGED <<db, call, user, held>>

\* The request queues a write of its login and awaits the commit.
Write(r, v) ==
  /\ Store!Enqueue(ProcessOf(r), call[r].login, v, r)
  /\ Goto(r, "commit")
  /\ UNCHANGED <<db, call, user, held>>

InService(r) == pc[r] \in {"start", "compare", "hash", "commit"}

Arrive(r, c) ==
  /\ ~InService(r)
  /\ Serial => \A s \in Request : ~InService(s)
  /\ call' = [call EXCEPT ![r] = c]
  /\ Goto(r, "start")
  /\ UNCHANGED <<db, queue, user, held>>

\* Mutant: create without doesExist.
CreateUnchecked(r, data) == Write(r, data)

\* UserRepository.create
Create(r, data) ==
  IF Store!Exists(call[r].login) THEN Reply(r, "error") ELSE Write(r, data)

\* UserRepository.update, merged being the user it reads with the given fields replaced.
Update(r, merged) ==
  IF ~Store!Exists(call[r].login) THEN Reply(r, "error") ELSE Write(r, merged)

Stored(r) == db[call[r].login]

-----------------------------------------------------------------------------
(* AuthenticationService                                                   *)

\* Mutant: an unknown user is never answered.
ReadUserSilent(r) ==
  /\ pc[r] = "start"
  /\ call[r].op \in {"login", "updatePassword"}
  /\ Store!Exists(call[r].login)
  /\ user' = [user EXCEPT ![r] = db[call[r].login]]
  /\ Goto(r, "compare")
  /\ UNCHANGED <<db, queue, call, held>>

\* login and updatePassword read the user (getUserOrThrow) and start the comparison.
ReadUser(r) ==
  /\ pc[r] = "start"
  /\ call[r].op \in {"login", "updatePassword"}
  /\ IF ~Store!Exists(call[r].login)
     THEN Reply(r, "refused")
     ELSE /\ user' = [user EXCEPT ![r] = db[call[r].login]]
          /\ Goto(r, "compare")
          /\ UNCHANGED <<db, queue, call, held>>

\* Mutant: the result of comparePasswords is not looked at.
ComparedUnchecked(r) ==
  /\ pc[r] = "compare"
  /\ Goto(r, IF call[r].op = "login" THEN "ok" ELSE "hash")
  /\ user' = [user EXCEPT ![r] = Absent]
  /\ UNCHANGED <<db, queue, call, held>>

\* The comparison with the hash read before is back (getAuthenticatedUserOrThrow).
Compared(r) ==
  /\ pc[r] = "compare"
  /\ Goto(r, IF user[r].password # call[r].password THEN "refused"
             ELSE IF call[r].op = "login" THEN "ok" ELSE "hash")
  /\ user' = [user EXCEPT ![r] = Absent]
  /\ UNCHANGED <<db, queue, call, held>>

\* resetAdminPassword reads the settings: the reset may be disabled, and the
\* settings may never have been initialised.
ResetAdmin(r) ==
  /\ pc[r] = "start"
  /\ call[r].op = "resetAdminPassword"
  /\ \E s \in {"hash", "refused", "error"} : Reply(r, s)

\* updateUserPassword: the new hash is there, the repository merges it.
StorePassword(r) ==
  /\ pc[r] = "hash"
  /\ call[r].op \in {"updatePassword", "resetAdminPassword"}
  /\ Update(r, [Stored(r) EXCEPT !.password = call[r].newPassword])

\* The serial number the default password is made of cannot be read.
DefaultPasswordFails(r) ==
  /\ pc[r] = "hash"
  /\ call[r].op \in {"resetAdminPassword", "createAdmin"}
  /\ Reply(r, "error")

-----------------------------------------------------------------------------
(* UserService                                                             *)

StartCreate(r) ==
  /\ pc[r] = "start"
  /\ \/ call[r].op = "createAdmin" /\ Reply(r, "hash")
     \/ /\ call[r].op = "create"
        /\ Reply(r, IF call[r].login = Admin THEN "refused" ELSE "hash")

StoreUser(r) ==
  /\ pc[r] = "hash"
  /\ call[r].op \in {"create", "createAdmin"}
  /\ Create(r, [password |-> call[r].password, roles |-> call[r].roles])

\* Mutant: a field that was not given overwrites the stored one.
UpdateUserAllFields(r) ==
  /\ pc[r] = "start"
  /\ call[r].op = "update"
  /\ IF call[r].login = Admin
     THEN Reply(r, "refused")
     ELSE Update(r, [Stored(r) EXCEPT !.roles = call[r].roles])

\* Only what is undefined counts as not given: null is stored.
UpdateUser(r) ==
  /\ pc[r] = "start"
  /\ call[r].op = "update"
  /\ IF call[r].login = Admin
     THEN Reply(r, "refused")
     ELSE Update(r, IF call[r].roles = {} THEN Stored(r)
                    ELSE [Stored(r) EXCEPT !.roles = call[r].roles])

\* Mutant: remove without the check for the reserved login.
RemoveUserUnchecked(r) ==
  /\ pc[r] = "start"
  /\ call[r].op = "remove"
  /\ IF ~Store!Exists(call[r].login) THEN Reply(r, "error") ELSE Write(r, Absent)

RemoveUser(r) ==
  /\ pc[r] = "start"
  /\ call[r].op = "remove"
  /\ IF call[r].login = Admin THEN Reply(r, "refused")
     ELSE IF ~Store!Exists(call[r].login) THEN Reply(r, "error")
     ELSE Write(r, Absent)

-----------------------------------------------------------------------------
(* The store settles the promise a request awaits.                         *)

\* May the request of this write give its login the password it writes?  The
\* administrator may, and so may who has shown a password the login rightfully had.
Rightful(w) ==
  \/ call[w.by].op \in {"create", "createAdmin", "resetAdminPassword"}
  \/ call[w.by].op = "updatePassword" /\ call[w.by].password \in held[w.key]

Commit(p) ==
  LET w == Head(queue[p]) IN
  /\ Store!CommitHead(p)
  /\ Goto(w.by, "ok")
  /\ held' = IF w.value # Absent /\ Rightful(w)
             THEN [held EXCEPT ![w.key] = @ \cup {w.value.password}]
             ELSE held
  /\ UNCHANGED <<call, user>>

CommitFails(p) ==
  /\ Store!DropHead(p)
  /\ Goto(Head(queue[p]).by, "error")
  /\ UNCHANGED <<call, user, held>>

\* The server or the command ends, killed or by process.exit.
Crash(p) ==
  /\ Store!DropQueue(p)
  /\ pc' = [r \in Request |-> IF ProcessOf(r) = p THEN "idle" ELSE pc[r]]
  /\ call' = [r \in Request |-> IF ProcessOf(r) = p THEN NoCall ELSE call[r]]
  /\ user' = [r \in Request |-> IF ProcessOf(r) = p THEN Absent ELSE user[r]]
  /\ UNCHANGED held

Serve(r) ==
  \/ ReadUser(r) \/ Compared(r) \/ ResetAdmin(r) \/ StorePassword(r)
  \/ DefaultPasswordFails(r) \/ StartCreate(r) \/ StoreUser(r)
  \/ UpdateUser(r) \/ RemoveUser(r)

Next ==
  \/ \E r \in ApiRequest, c \in ApiCall : Arrive(r, c)
  \/ \E r \in CliRequest, c \in CliCall : Arrive(r, c)
  \/ \E r \in Request : Serve(r)
  \/ \E p \in Process : Commit(p) \/ CommitFails(p) \/ Crash(p)

Spec == Init /\ [][Next]_vars

\* The event loop runs what is ready, the thread pool finishes its jobs and LMDB
\* commits after its delay; no request need arrive, nothing need fail.
FairSpec ==
  /\ Spec
  /\ \A r \in Request : WF_vars(Serve(r))
  /\ \A p \in Process : WF_vars(Commit(p))

-----------------------------------------------------------------------------
(* Properties                                                              *)

\* Once there is an admin user, no sequence of requests of the server and of the
\* command line, however they interleave, crash or fail, removes it or changes its
\* roles (UserService refuses the login; every other write merges what it read).
AdminKept ==
  [][db[Admin] # Absent => db'[Admin] # Absent /\ db'[Admin].roles = AdminRoles]_vars

\* Exactly the requests that await a commit have a write queued, one each, at their own
\* process: none is answered before its write is committed, none awaits in vain.
EveryWriteAwaited ==
  /\ \A r \in Request : pc[r] = "commit" =>
       \E i \in DOMAIN queue[ProcessOf(r)] : queue[ProcessOf(r)][i].by = r
  /\ \A p \in Process : \A i \in DOMAIN queue[p] :
       /\ pc[queue[p][i].by] = "commit"
       /\ ProcessOf(queue[p][i].by) = p
       /\ queue[p][i].key = call[queue[p][i].by].login
       /\ \A j \in DOMAIN queue[p] : queue[p][j].by = queue[p][i].by => j = i

\* A stored password was given by the administrator, or by someone who had shown a
\* password the login rightfully had: stale reads and late writes of concurrent updates
\* may bring an older password back, never a foreign one.
PasswordsRightful ==
  \A l \in Login : db[l] # Absent => db[l].password \in held[l]

\* login and updatePassword succeed only for a password the login rightfully had, though
\* the comparison runs on a copy read earlier.
AnswersRightful ==
  \A r \in Request :
    pc[r] = "ok" /\ call[r].op \in {"login", "updatePassword"} =>
      call[r].password \in held[call[r].login]

\* Every request is answered, if its process does not end before.
EveryRequestEnds == \A r \in Request : InService(r) ~> ~InService(r)

\* Served one at a time, requests take effect as the directory specifies, through
\* crashes and failing commits.
Directory == INSTANCE UserDirectory WITH
  users <- db,
  status <- [r \in Request |-> IF InService(r) THEN "serving" ELSE pc[r]]

ServesDirectory == Directory!Spec

\* "Update the user with the provided login and merge data with existing data"
\* (UserRepository.update): the commit of a password change leaves the roles alone.
UpdateMergesExisting ==
  [][\A p \in Process :
       Commit(p) /\ call[Head(queue[p]).by].op \in {"updatePassword", "resetAdminPassword"} =>
         LET l == Head(queue[p]).key IN
         db[l] # Absent /\ db'[l].roles = db[l].roles]_vars

\* "Roles of the user", an array of one at least (UserDto): no user who has roles is left
\* without any.
UsersKeepRoles ==
  [][\A l \in Login : Absent \notin {db[l], db'[l]} /\ db[l].roles \in RoleSet =>
                      db'[l].roles \in RoleSet]_vars

\* "should throw an error if user with this login already exists"
\* (user-repository.spec.ts): the commit of a created user replaces no other user.
CreateNeverOverwrites ==
  [][\A p \in Process :
       Commit(p) /\ call[Head(queue[p]).by].op \in {"create", "createAdmin"} =>
         db[Head(queue[p]).key] = Absent]_vars
=============================================================================
