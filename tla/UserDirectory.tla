--------------------------- MODULE UserDirectory ----------------------------
(***************************************************************************)
(* What the user administration promises its callers: a directory of users *)
(* in which every request takes effect in a single step, on the users as   *)
(* they are at that step.  UserAccounts is the detailed specification.     *)
(***************************************************************************)
CONSTANTS
  Login, Admin, Password, DefaultPassword, RoleSet, AdminRoles, Absent, Null,
  Request,       \* slots for the requests being handled
  Call,          \* the calls a request may carry
  NoCall         \* a slot that has not been used

VARIABLES
  users,    \* login -> [password, roles], or Absent
  call,     \* what each slot's request asks for
  status    \* idle, serving, or the answer of the last request of the slot

dirVars == <<users, call, status>>

Init ==
  /\ users \in [Login -> [password : Password, roles : RoleSet \cup {Null}] \cup {Absent}]
  /\ users[Admin] # Absent => users[Admin].roles = AdminRoles
  /\ call = [r \in Request |-> NoCall]
  /\ status = [r \in Request |-> "idle"]

Answer(r, a) == status' = [status EXCEPT ![r] = a]

Submit(r, c) ==
  /\ status[r] # "serving"
  /\ call' = [call EXCEPT ![r] = c]
  /\ Answer(r, "serving")
  /\ UNCHANGED users

Known(c) == users[c.login] # Absent

Authenticated(c) == Known(c) /\ users[c.login].password = c.password

Reserved(c) == c.op \in {"create", "update", "remove"} /\ c.login = Admin

\* The login a successful call concerns and what the directory then holds for it.
Stored(c) ==
  CASE c.op \in {"create", "createAdmin"} ->
         [password |-> c.password, roles |-> c.roles]
    [] c.op \in {"updatePassword", "resetAdminPassword"} ->
         [users[c.login] EXCEPT !.password = c.newPassword]
    [] c.op = "update" ->
         [users[c.login] EXCEPT !.roles = IF c.roles = {} THEN @ ELSE c.roles]
    [] c.op = "remove" -> Absent

Refuse(r) ==
  LET c == call[r] IN
  /\ status[r] = "serving"
  /\ \/ c.op \in {"login", "updatePassword"} /\ ~Authenticated(c)
     \/ c.op = "resetAdminPassword"
     \/ Reserved(c)
  /\ Answer(r, "refused")
  /\ UNCHANGED <<users, call>>

LoginOk(r) ==
  /\ status[r] = "serving"
  /\ call[r].op = "login" /\ Authenticated(call[r])
  /\ Answer(r, "ok")
  /\ UNCHANGED <<users, call>>

Store(r) ==
  LET c == call[r] IN
  /\ status[r] = "serving"
  /\ \/ c.op \in {"create", "createAdmin"} /\ ~Reserved(c) /\ ~Known(c)
     \/ c.op = "updatePassword" /\ Authenticated(c)
     \/ c.op = "resetAdminPassword" /\ Known(c)
     \/ c.op \in {"update", "remove"} /\ ~Reserved(c) /\ Known(c)
  /\ users' = [users EXCEPT ![c.login] = Stored(c)]
  /\ Answer(r, "ok")
  /\ UNCHANGED call

\* A request may fail, and then it has changed nothing.
Fail(r) ==
  /\ status[r] = "serving"
  /\ call[r].op # "login"
  /\ Answer(r, "error")
  /\ UNCHANGED <<users, call>>

\* A process ends: its slots forget their requests, the directory keeps its users.
Forget(R) ==
  /\ status' = [r \in Request |-> IF r \in R THEN "idle" ELSE status[r]]
  /\ call' = [r \in Request |-> IF r \in R THEN NoCall ELSE call[r]]
  /\ UNCHANGED users

Next ==
  \/ \E r \in Request :
       \/ \E c \in Call : Submit(r, c)
       \/ Refuse(r) \/ LoginOk(r) \/ Store(r) \/ Fail(r)
  \/ \E R \in SUBSET Request : Forget(R)

Spec == Init /\ [][Next]_dirVars
=============================================================================
