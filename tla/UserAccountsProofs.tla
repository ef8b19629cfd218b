------------------------- MODULE UserAccountsProofs -------------------------
(***************************************************************************)
(* Proofs about UserAccounts, for every set of logins, passwords, roles    *)
(* and slots; the theorems about requests served one at a time assume it.  *)
(***************************************************************************)
EXTENDS UserAccounts, Naturals, TLAPS

-----------------------------------------------------------------------------
(* Type correctness                                                        *)

\* TypeOK is not inductive: a request that is being served has parameters, and one
\* whose password is being compared has read a user.
ServedInv ==
  \A r \in Request :
    /\ InService(r) => call[r] \in Call
    /\ pc[r] = "compare" =>
         user[r] \in UserData /\ call[r] \in AuthenticationCall
    /\ pc[r] = "hash" =>
         call[r].op \in {"updatePassword", "resetAdminPassword", "create", "createAdmin"}

TInv == TypeOK /\ ServedInv

\* Which parameters a call has, by its operation.
LEMMA CallFields ==
  ASSUME NEW c \in Call
  PROVE  /\ c.login \in Login
         /\ c.op \in {"login", "updatePassword"} =>
              c \in AuthenticationCall /\ c.password \in Password
         /\ c.op \in {"updatePassword", "resetAdminPassword"} => c.newPassword \in Password
         /\ c.op \in {"create", "createAdmin"} =>
              [password |-> c.password, roles |-> c.roles] \in UserData
         /\ c.op = "update" => c.roles \in RoleSet \cup {{}, Null}
         /\ c.op \in {"resetAdminPassword", "createAdmin"} => c.login = Admin
         /\ c.op = "createAdmin" => c.roles = AdminRoles
  BY UserAssumption DEF Call, ApiCall, CliCall, AuthenticationCall, ResetCall, CreateCall,
     UpdateCall, RemoveCall, CreateAdminCall, UserData

\* An answer without a write preserves the types.
LEMMA ReplyTyped ==
  ASSUME TInv, NEW r \in Request, NEW a \in PC, Reply(r, a),
         InService(r), a \notin {"compare"},
         a = "hash" => call[r].op \in
           {"updatePassword", "resetAdminPassword", "create", "createAdmin"}
  PROVE  TInv'
  BY DEF TInv, TypeOK, ServedInv, Reply, Goto, InService, PC, Store!LmdbTypeOK, Store!Write

\* Queueing a user or a removal preserves the types.
LEMMA WriteTyped ==
  ASSUME TInv, NEW r \in Request, NEW v \in UserData \cup {Absent}, Write(r, v), InService(r)
  PROVE  TInv'
<1> USE DEF TInv, TypeOK, ServedInv, InService, PC
<1>1. ProcessOf(r) \in Process
  BY DEF ProcessOf, Process
<1>2. [key |-> call[r].login, value |-> v, by |-> r] \in Store!Write
  BY CallFields DEF Store!Write
<1>3. queue' \in [Process -> Seq(Store!Write)]
  BY <1>1, <1>2 DEF Write, Store!Enqueue, Store!LmdbTypeOK
<1>4. QED
  BY <1>3 DEF Write, Goto, Store!LmdbTypeOK

LEMMA StoredTyped ==
  ASSUME TInv, NEW r \in Request, InService(r), Store!Exists(call[r].login)
  PROVE  Stored(r) \in UserData
  BY CallFields DEF TInv, TypeOK, ServedInv, Store!Exists, Store!LmdbTypeOK, Stored

LEMMA UpdateTyped ==
  ASSUME TInv, NEW r \in Request, NEW v, Update(r, v), InService(r),
         Store!Exists(call[r].login) => v \in UserData
  PROVE  TInv'
  BY ReplyTyped, WriteTyped DEF Update, PC

LEMMA TypeInit == Init => TInv
  BY UserAssumption DEF Init, TInv, TypeOK, ServedInv, InService, PC, Store!LmdbTypeOK, UserData

LEMMA TypeStep == TInv /\ [Next]_vars => TInv'
<1> SUFFICES ASSUME TInv, [Next]_vars
             PROVE  TInv'
  OBVIOUS
<1>1. ASSUME NEW r \in Request, NEW c \in Call, Arrive(r, c)
      PROVE  TInv'
  BY <1>1 DEF Arrive, Goto, InService, PC, TInv, TypeOK, ServedInv, Store!LmdbTypeOK
<1>2. ASSUME NEW r \in Request, Serve(r)
      PROVE  TInv'
  <2>1. CASE ReadUser(r)
    <3>1. CASE ~Store!Exists(call[r].login)
      BY <2>1, <3>1, ReplyTyped DEF ReadUser, InService, PC
    <3>2. CASE Store!Exists(call[r].login)
      <4>1. call[r] \in AuthenticationCall /\ db[call[r].login] \in UserData
        BY <2>1, <3>2, CallFields, StoredTyped
        DEF ReadUser, InService, TInv, ServedInv, Stored
      <4>2. QED
        BY <2>1, <3>2, <4>1
        DEF ReadUser, Goto, InService, PC, TInv, TypeOK, ServedInv, Store!LmdbTypeOK
    <3>3. QED
      BY <3>1, <3>2
  <2>2. CASE Compared(r)
    <3>1. call[r].op \in {"login", "updatePassword"}
      BY <2>2 DEF Compared, TInv, ServedInv, AuthenticationCall
    <3>2. QED
      BY <2>2, <3>1
      DEF Compared, Goto, InService, PC, TInv, TypeOK, ServedInv, Store!LmdbTypeOK
  <2>3. CASE ResetAdmin(r)
    BY <2>3, ReplyTyped DEF ResetAdmin, InService, PC
  <2>4. CASE StorePassword(r)
    <3>1. InService(r) /\ call[r].newPassword \in Password
      BY <2>4, CallFields DEF StorePassword, InService, TInv, ServedInv
    <3>2. Store!Exists(call[r].login) =>
            [Stored(r) EXCEPT !.password = call[r].newPassword] \in UserData
      BY <3>1, StoredTyped DEF UserData
    <3>3. QED
      BY <2>4, <3>1, <3>2, UpdateTyped DEF StorePassword
  <2>5. CASE DefaultPasswordFails(r)
    BY <2>5, ReplyTyped DEF DefaultPasswordFails, InService, PC
  <2>6. CASE StartCreate(r)
    BY <2>6, ReplyTyped DEF StartCreate, InService, PC
  <2>7. CASE StoreUser(r)
    <3>1. InService(r) /\ [password |-> call[r].password, roles |-> call[r].roles] \in UserData
      BY <2>7, CallFields DEF StoreUser, InService, TInv, ServedInv
    <3>2. QED
      BY <2>7, <3>1, ReplyTyped, WriteTyped DEF StoreUser, Create, PC
  <2>8. CASE UpdateUser(r)
    <3>1. InService(r) /\ call[r].roles \in RoleSet \cup {{}, Null}
      BY <2>8, CallFields DEF UpdateUser, InService, TInv, ServedInv
    <3>2. CASE call[r].login = Admin
      BY <2>8, <3>1, <3>2, ReplyTyped DEF UpdateUser, PC
    <3>3. CASE call[r].login # Admin
      <4> DEFINE merged == IF call[r].roles = {} THEN Stored(r)
                           ELSE [Stored(r) EXCEPT !.roles = call[r].roles]
      <4>1. Store!Exists(call[r].login) => merged \in UserData
        BY <3>1, StoredTyped DEF UserData
      <4>2. Update(r, merged)
        BY <2>8, <3>3 DEF UpdateUser
      <4>3. QED
        BY <3>1, <4>1, <4>2, UpdateTyped
    <3>4. QED
      BY <3>2, <3>3
  <2>9. CASE RemoveUser(r)
    BY <2>9, ReplyTyped, WriteTyped DEF RemoveUser, InService, PC
  <2>10. QED
    BY <1>2, <2>1, <2>2, <2>3, <2>4, <2>5, <2>6, <2>7, <2>8, <2>9 DEF Serve
<1>3. ASSUME NEW p \in Process, Commit(p)
      PROVE  TInv'
  <2> DEFINE w == Head(queue[p])
  <2>1. w \in Store!Write /\ Tail(queue[p]) \in Seq(Store!Write)
    BY <1>3 DEF Commit, Store!CommitHead, TInv, TypeOK, Store!LmdbTypeOK
  <2>2. Store!LmdbTypeOK'
    BY <1>3, <2>1 DEF Commit, Store!CommitHead, TInv, TypeOK, Store!LmdbTypeOK, Store!Write
  <2>3. held' \in [Login -> SUBSET Password]
    BY <1>3, <2>1 DEF Commit, TInv, TypeOK, Store!Write, UserData
  <2>4. QED
    BY <1>3, <2>1, <2>2, <2>3
    DEF Commit, Goto, TInv, TypeOK, ServedInv, InService, PC, Store!Write
<1>4. ASSUME NEW p \in Process, CommitFails(p)
      PROVE  TInv'
  <2>1. Head(queue[p]) \in Store!Write /\ Tail(queue[p]) \in Seq(Store!Write)
    BY <1>4 DEF CommitFails, Store!DropHead, TInv, TypeOK, Store!LmdbTypeOK
  <2>2. QED
    BY <1>4, <2>1
    DEF CommitFails, Store!DropHead, Goto, TInv, TypeOK, ServedInv, InService, PC,
        Store!LmdbTypeOK, Store!Write
<1>5. ASSUME NEW p \in Process, Crash(p)
      PROVE  TInv'
  BY <1>5 DEF Crash, Store!DropQueue, TInv, TypeOK, ServedInv, InService, PC, Store!LmdbTypeOK
<1>6. CASE UNCHANGED vars
  BY <1>6 DEF vars, TInv, TypeOK, ServedInv, InService, Store!LmdbTypeOK
<1>7. QED
  BY <1>1, <1>2, <1>3, <1>4, <1>5, <1>6 DEF Next, Request, Call

LEMMA TypeInvariant == Spec => []TInv
  BY TypeInit, TypeStep, PTL DEF Spec

\* The variables keep their types, whatever the requests, failures and crashes.
THEOREM TypeCorrect == Spec => []TypeOK
  BY TypeInvariant, PTL DEF TInv

-----------------------------------------------------------------------------
(* The admin user is kept                                                  *)

\* Writes that leave an admin user behind.
KeepingWrite ==
  {w \in Store!Write : w.key = Admin => w.value # Absent /\ w.value.roles = AdminRoles}

\* AdminKept speaks of the database alone; it is inductive only with what is queued for
\* it, and with the check UserService.create makes before it hashes the password.
AdminInv ==
  /\ db[Admin] # Absent => db[Admin].roles = AdminRoles
  /\ queue \in [Process -> Seq(KeepingWrite)]
  /\ \A r \in Request : pc[r] = "hash" /\ call[r].op = "create" => call[r].login # Admin

LEMMA ReplyKeepsAdmin ==
  ASSUME AdminInv, NEW r \in Request, NEW a, Reply(r, a), TInv,
         a = "hash" /\ call[r].op = "create" => call[r].login # Admin
  PROVE  AdminInv'
  BY DEF AdminInv, Reply, Goto, TInv, TypeOK

LEMMA WriteKeepsAdmin ==
  ASSUME AdminInv, TInv, NEW r \in Request, InService(r),
         NEW v \in UserData \cup {Absent}, Write(r, v),
         call[r].login = Admin => v # Absent /\ v.roles = AdminRoles
  PROVE  AdminInv'
<1>1. [key |-> call[r].login, value |-> v, by |-> r] \in KeepingWrite
  BY CallFields DEF KeepingWrite, Store!Write, TInv, ServedInv
<1>2. queue' \in [Process -> Seq(KeepingWrite)]
  BY <1>1 DEF AdminInv, Write, Store!Enqueue, ProcessOf, Process
<1>3. QED
  BY <1>2 DEF AdminInv, Write, Goto, TInv, TypeOK

LEMMA AdminInit == Init => AdminInv
  BY DEF Init, AdminInv

LEMMA AdminStep == TInv /\ AdminInv /\ [Next]_vars => AdminInv'
<1> SUFFICES ASSUME TInv, AdminInv, [Next]_vars
             PROVE  AdminInv'
  OBVIOUS
<1>1. ASSUME NEW r \in Request, NEW c, Arrive(r, c)
      PROVE  AdminInv'
  BY <1>1 DEF Arrive, Goto, AdminInv, TInv, TypeOK
<1>2. ASSUME NEW r \in Request, Serve(r)
      PROVE  AdminInv'
  <2>1. CASE ReadUser(r)
    BY <2>1, ReplyKeepsAdmin DEF ReadUser, AdminInv, Goto, TInv, TypeOK
  <2>2. CASE Compared(r)
    BY <2>2 DEF Compared, Goto, AdminInv, TInv, TypeOK, ServedInv, AuthenticationCall
  <2>3. CASE ResetAdmin(r)
    BY <2>3, ReplyKeepsAdmin DEF ResetAdmin
  <2>4. CASE StorePassword(r)
    <3>1. InService(r) /\ call[r].newPassword \in Password
      BY <2>4, CallFields DEF StorePassword, InService, TInv, ServedInv
    <3>2. CASE ~Store!Exists(call[r].login)
      BY <2>4, <3>2, ReplyKeepsAdmin DEF StorePassword, Update
    <3>3. CASE Store!Exists(call[r].login)
      <4> DEFINE new == [Stored(r) EXCEPT !.password = call[r].newPassword]
      <4>1. new \in UserData /\ new.roles = Stored(r).roles
        BY <3>1, <3>3, StoredTyped DEF UserData
      <4>2. call[r].login = Admin => new.roles = AdminRoles
        BY <3>3, <4>1 DEF AdminInv, Stored, Store!Exists
      <4>3. Write(r, new)
        BY <2>4, <3>3 DEF StorePassword, Update
      <4>4. new # Absent
        BY <4>1, UserAssumption
      <4>5. QED
        BY <3>1, <4>1, <4>2, <4>3, <4>4, WriteKeepsAdmin
    <3>4. QED
      BY <3>2, <3>3
  <2>5. CASE DefaultPasswordFails(r)
    BY <2>5, ReplyKeepsAdmin DEF DefaultPasswordFails
  <2>6. CASE StartCreate(r)
    BY <2>6, ReplyKeepsAdmin DEF StartCreate
  <2>7. CASE StoreUser(r)
    <3> DEFINE new == [password |-> call[r].password, roles |-> call[r].roles]
    <3>1. InService(r) /\ call[r] \in Call /\ new \in UserData /\ new # Absent
      BY <2>7, CallFields, UserAssumption DEF StoreUser, InService, TInv, ServedInv
    <3>2. call[r].login = Admin => new.roles = AdminRoles
      BY <2>7, <3>1, CallFields DEF StoreUser, AdminInv
    <3>3. QED
      BY <2>7, <3>1, <3>2, ReplyKeepsAdmin, WriteKeepsAdmin DEF StoreUser, Create
  <2>8. CASE UpdateUser(r)
    <3>1. InService(r) /\ call[r].roles \in RoleSet \cup {{}, Null}
      BY <2>8, CallFields DEF UpdateUser, InService, TInv, ServedInv
    <3> DEFINE merged == IF call[r].roles = {} THEN Stored(r)
                         ELSE [Stored(r) EXCEPT !.roles = call[r].roles]
    <3>2. Store!Exists(call[r].login) => merged \in UserData
      BY <3>1, StoredTyped DEF UserData
    <3>3. call[r].login # Admin => Update(r, merged)
      BY <2>8 DEF UpdateUser
    <3>4. QED
      BY <2>8, <3>1, <3>2, <3>3, ReplyKeepsAdmin, WriteKeepsAdmin DEF UpdateUser, Update
  <2>9. CASE RemoveUser(r)
    BY <2>9, ReplyKeepsAdmin, WriteKeepsAdmin DEF RemoveUser, InService
  <2>10. QED
    BY <1>2, <2>1, <2>2, <2>3, <2>4, <2>5, <2>6, <2>7, <2>8, <2>9 DEF Serve
<1>3. ASSUME NEW p \in Process, Commit(p)
      PROVE  AdminInv'
  <2>1. Head(queue[p]) \in KeepingWrite /\ Tail(queue[p]) \in Seq(KeepingWrite)
    BY <1>3 DEF Commit, Store!CommitHead, AdminInv
  <2>2. QED
    BY <1>3, <2>1, UserAssumption
    DEF Commit, Store!CommitHead, Goto, AdminInv, KeepingWrite, Store!Write, TInv, TypeOK,
        Store!LmdbTypeOK
<1>4. ASSUME NEW p \in Process, CommitFails(p)
      PROVE  AdminInv'
  <2>1. Tail(queue[p]) \in Seq(KeepingWrite)
    BY <1>4 DEF CommitFails, Store!DropHead, AdminInv
  <2>2. QED
    BY <1>4, <2>1 DEF CommitFails, Store!DropHead, Goto, AdminInv, TInv, TypeOK
<1>5. ASSUME NEW p \in Process, Crash(p)
      PROVE  AdminInv'
  BY <1>5 DEF Crash, Store!DropQueue, AdminInv, TInv, TypeOK
<1>6. CASE UNCHANGED vars
  BY <1>6 DEF vars, AdminInv
<1>7. QED
  BY <1>1, <1>2, <1>3, <1>4, <1>5, <1>6 DEF Next, Request

\* An admin user, once committed, is never removed and never loses its roles, however the
\* requests of the server and of the command line interleave, fail or are cut off.
THEOREM AdminIsKept == Spec => AdminKept
<1> DEFINE Kept == db[Admin] # Absent => db'[Admin] # Absent /\ db'[Admin].roles = AdminRoles
<1>1. TInv /\ AdminInv /\ [Next]_vars => [Kept]_vars
  <2> SUFFICES ASSUME TInv, AdminInv, [Next]_vars, AdminInv', db[Admin] # Absent
               PROVE  db'[Admin] # Absent \/ UNCHANGED vars
    BY AdminStep DEF AdminInv
  <2>1. ASSUME NEW p \in Process, Commit(p)
        PROVE  db'[Admin] # Absent
    <3>1. Head(queue[p]) \in KeepingWrite
      BY <2>1 DEF Commit, Store!CommitHead, AdminInv
    <3>2. QED
      BY <2>1, <3>1, UserAssumption
      DEF Commit, Store!CommitHead, KeepingWrite, TInv, TypeOK, Store!LmdbTypeOK
  <2>2. ASSUME NEW r \in Request, Serve(r)
        PROVE  UNCHANGED db
    BY <2>2
    DEF Serve, ReadUser, Compared, ResetAdmin, StorePassword, DefaultPasswordFails,
        StartCreate, StoreUser, UpdateUser, RemoveUser, Create, Update, Reply, Write
  <2>3. ASSUME NEW p \in Process, CommitFails(p) \/ Crash(p)
        PROVE  UNCHANGED db
    BY <2>3 DEF CommitFails, Crash, Store!DropHead, Store!DropQueue
  <2>4. ASSUME NEW r \in Request, NEW c, Arrive(r, c)
        PROVE  UNCHANGED db
    BY <2>4 DEF Arrive
  <2>5. QED
    BY <2>1, <2>2, <2>3, <2>4 DEF Next, Request
<1>2. QED
  BY <1>1, AdminInit, AdminStep, TypeInvariant, PTL DEF Spec, AdminKept

-----------------------------------------------------------------------------
(* Every queued write is awaited by exactly one request                    *)

LEMMA AppendElements ==
  ASSUME NEW S, NEW s \in Seq(S), NEW x \in S
  PROVE  /\ \A i \in DOMAIN Append(s, x) :
              \/ i \in DOMAIN s /\ Append(s, x)[i] = s[i]
              \/ i = Len(s) + 1 /\ i \notin DOMAIN s /\ Append(s, x)[i] = x
         /\ \A i \in DOMAIN s : i \in DOMAIN Append(s, x) /\ Append(s, x)[i] = s[i]
         /\ Len(s) + 1 \in DOMAIN Append(s, x) /\ Append(s, x)[Len(s) + 1] = x
  OBVIOUS

LEMMA TailElements ==
  ASSUME NEW S, NEW s \in Seq(S), s # << >>
  PROVE  /\ 1 \in DOMAIN s /\ Head(s) = s[1]
         /\ DOMAIN s \subseteq Nat /\ DOMAIN Tail(s) \subseteq Nat
         /\ \A i \in DOMAIN Tail(s) : i + 1 \in DOMAIN s /\ Tail(s)[i] = s[i + 1] /\ i + 1 # 1
         /\ \A i \in DOMAIN s : i # 1 => i - 1 \in DOMAIN Tail(s) /\ Tail(s)[i - 1] = s[i]
  OBVIOUS

\* The part of EveryWriteAwaited that concerns one queued write, and the other part.
Awaited(p, i) ==
  /\ pc[queue[p][i].by] = "commit"
  /\ ProcessOf(queue[p][i].by) = p
  /\ queue[p][i].key = call[queue[p][i].by].login
  /\ \A j \in DOMAIN queue[p] : queue[p][j].by = queue[p][i].by => j = i

Queued(r) == \E i \in DOMAIN queue[ProcessOf(r)] : queue[ProcessOf(r)][i].by = r

LEMMA AwaitedParts ==
  /\ EveryWriteAwaited <=>
       /\ \A r \in Request : pc[r] = "commit" => Queued(r)
       /\ \A p \in Process : \A i \in DOMAIN queue[p] : Awaited(p, i)
  /\ \A r \in Request : ProcessOf(r) \in Process
  BY DEF EveryWriteAwaited, Awaited, Queued, ProcessOf, Process

LEMMA QueueTyped ==
  ASSUME TInv
  PROVE  /\ queue \in [Process -> Seq(Store!Write)]
         /\ pc \in [Request -> PC]
         /\ \A p \in Process : \A i \in DOMAIN queue[p] : queue[p][i] \in Store!Write
         /\ \A p \in Process : \A i \in DOMAIN queue[p] : queue[p][i].by \in Request
<1>1. queue \in [Process -> Seq(Store!Write)] /\ pc \in [Request -> PC]
  BY DEF TInv, TypeOK, Store!LmdbTypeOK
<1>2. ASSUME NEW p \in Process, NEW i \in DOMAIN queue[p]
      PROVE  queue[p][i] \in Store!Write
  BY <1>1
<1>3. QED
  BY <1>1, <1>2 DEF Store!Write

LEMMA ReplyAwaited ==
  ASSUME EveryWriteAwaited, TInv, NEW r \in Request, NEW a, Reply(r, a),
         pc[r] # "commit", a # "commit"
  PROVE  EveryWriteAwaited'
  BY QueueTyped DEF EveryWriteAwaited, Reply, Goto

LEMMA WriteAwaited ==
  ASSUME EveryWriteAwaited, TInv, NEW r \in Request, InService(r), pc[r] # "commit",
         NEW v \in UserData \cup {Absent}, Write(r, v)
  PROVE  EveryWriteAwaited'
<1> DEFINE P == ProcessOf(r)
           x == [key |-> call[r].login, value |-> v, by |-> r]
           s == queue[P]
           n == Len(s) + 1
<1>1. P \in Process /\ \A q \in Request : ProcessOf(q) \in Process
  BY AwaitedParts
<1>2. x \in Store!Write
  BY CallFields DEF Store!Write, TInv, ServedInv
<1>3. s \in Seq(Store!Write) /\ queue \in [Process -> Seq(Store!Write)]
  BY <1>1, QueueTyped
<1>4. /\ \A i \in DOMAIN Append(s, x) :
           \/ i \in DOMAIN s /\ Append(s, x)[i] = s[i]
           \/ i = n /\ i \notin DOMAIN s /\ Append(s, x)[i] = x
      /\ \A i \in DOMAIN s : i \in DOMAIN Append(s, x) /\ Append(s, x)[i] = s[i]
      /\ n \in DOMAIN Append(s, x) /\ Append(s, x)[n] = x
  BY <1>2, <1>3, AppendElements
<1>5. queue'[P] = Append(s, x) /\ \A p \in Process : p # P => queue'[p] = queue[p]
  BY <1>1, <1>3 DEF Write, Store!Enqueue
<1>6. \A p \in Process : \A i \in DOMAIN queue[p] :
        queue[p][i].by \in Request /\ queue[p][i].by # r
  BY QueueTyped DEF EveryWriteAwaited
<1>7. pc' = [pc EXCEPT ![r] = "commit"] /\ call' = call /\ pc \in [Request -> PC]
  BY QueueTyped DEF Write, Goto
<1> HIDE DEF P, x, s, n
<1>8. ASSUME NEW q \in Request, pc'[q] = "commit"
      PROVE  Queued(q)'
  <2>1. CASE q = r
    BY <2>1, <1>4, <1>5 DEF Queued, P, x
  <2>2. CASE q # r
    <3>1. PICK i \in DOMAIN queue[ProcessOf(q)] : queue[ProcessOf(q)][i].by = q
      BY <2>2, <1>7, <1>8 DEF EveryWriteAwaited
    <3>2. /\ i \in DOMAIN queue'[ProcessOf(q)]
          /\ queue'[ProcessOf(q)][i] = queue[ProcessOf(q)][i]
      BY <3>1, <1>1, <1>4, <1>5 DEF s
    <3>3. QED
      BY <3>1, <3>2 DEF Queued
  <2>3. QED
    BY <2>1, <2>2
<1>9. ASSUME NEW p \in Process, NEW i \in DOMAIN queue'[p]
      PROVE  Awaited(p, i)'
  <2>1. CASE p # P
    <3>1. queue'[p] = queue[p] /\ Awaited(p, i)
      BY <2>1, <1>5, <1>9, AwaitedParts
    <3>2. queue[p][i].by \in Request /\ queue[p][i].by # r
      BY <3>1, <1>6, <1>9
    <3>3. QED
      BY <3>1, <3>2, <1>7 DEF Awaited
  <2>2. CASE p = P /\ i \in DOMAIN s /\ queue'[p][i] = s[i]
    <3>1. Awaited(p, i) /\ queue[p][i].by \in Request /\ queue[p][i].by # r
      BY <2>2, <1>6, AwaitedParts DEF s
    <3>2. ASSUME NEW j \in DOMAIN queue'[p], queue'[p][j].by = queue'[p][i].by
          PROVE  j = i
      <4>1. j \in DOMAIN s /\ queue'[p][j] = s[j]
        BY <2>2, <3>1, <3>2, <1>4, <1>5 DEF s, x
      <4>2. QED
        BY <2>2, <3>1, <3>2, <4>1 DEF Awaited, s
    <3>3. QED
      BY <2>2, <3>1, <3>2, <1>7 DEF Awaited, s
  <2>3. CASE p = P /\ i = n /\ queue'[p][i] = x
    <3>1. \A j \in DOMAIN queue'[p] : queue'[p][j].by = r => j = i
      BY <2>3, <1>1, <1>4, <1>5, <1>6 DEF s
    <3>2. QED
      BY <2>3, <3>1, <1>7 DEF Awaited, P, x
  <2>4. QED
    BY <2>1, <2>2, <2>3, <1>4, <1>5
<1>10. QED
  BY <1>8, <1>9 DEF EveryWriteAwaited, Awaited, Queued

\* The oldest write of p leaves the queue, its request is answered.
LEMMA SettledAwaited ==
  ASSUME EveryWriteAwaited, TInv, NEW p \in Process, queue[p] # << >>, NEW a, a # "commit",
         queue' = [queue EXCEPT ![p] = Tail(@)], Goto(Head(queue[p]).by, a), call' = call
  PROVE  EveryWriteAwaited'
<1> DEFINE s == queue[p]
           t == Tail(s)
           r == Head(s).by
<1>1. s \in Seq(Store!Write) /\ queue \in [Process -> Seq(Store!Write)]
  BY QueueTyped
<1>2. /\ 1 \in DOMAIN s /\ Head(s) = s[1]
      /\ DOMAIN s \subseteq Nat /\ DOMAIN t \subseteq Nat
      /\ \A i \in DOMAIN t : i + 1 \in DOMAIN s /\ t[i] = s[i + 1] /\ i + 1 # 1
      /\ \A i \in DOMAIN s : i # 1 => i - 1 \in DOMAIN t /\ t[i - 1] = s[i]
  BY <1>1, TailElements
<1>3. queue'[p] = t /\ \A q \in Process : q # p => queue'[q] = queue[q]
  BY <1>1
<1>4. \A q \in Process : \A i \in DOMAIN queue[q] : queue[q][i].by \in Request
  BY QueueTyped
<1>5. r \in Request /\ ProcessOf(r) = p
  BY <1>2, <1>4 DEF EveryWriteAwaited
<1>6. pc' = [pc EXCEPT ![r] = a] /\ pc \in [Request -> PC]
  BY QueueTyped DEF Goto
<1>7. \A i \in DOMAIN s : s[i].by = r => i = 1
  BY <1>2 DEF EveryWriteAwaited
<1> HIDE DEF s, t, r
<1>8. ASSUME NEW q \in Process, NEW i \in DOMAIN queue[q], queue[q][i].by = r
      PROVE  q = p /\ i = 1
  BY <1>5, <1>7, <1>8 DEF EveryWriteAwaited, s
<1>9. ASSUME NEW q \in Request, pc'[q] = "commit"
      PROVE  Queued(q)'
  <2>1. q # r /\ pc[q] = "commit" /\ ProcessOf(q) \in Process
    BY <1>5, <1>6, <1>9, AwaitedParts
  <2>2. PICK i \in DOMAIN queue[ProcessOf(q)] : queue[ProcessOf(q)][i].by = q
    BY <2>1 DEF EveryWriteAwaited
  <2>3. CASE ProcessOf(q) # p
    BY <2>1, <2>2, <2>3, <1>3 DEF Queued
  <2>4. CASE ProcessOf(q) = p
    <3>1. i # 1
      BY <2>1, <2>2, <2>4, <1>2 DEF r, s
    <3>2. i - 1 \in DOMAIN queue'[p] /\ queue'[p][i - 1].by = q
      BY <2>2, <2>4, <3>1, <1>2, <1>3 DEF s
    <3>3. QED
      BY <2>4, <3>2 DEF Queued
  <2>5. QED
    BY <2>3, <2>4
<1>10. ASSUME NEW q \in Process, NEW i \in DOMAIN queue'[q]
       PROVE  Awaited(q, i)'
  <2>1. CASE q # p
    <3>1. queue'[q] = queue[q] /\ Awaited(q, i)
      BY <2>1, <1>3, <1>10, AwaitedParts
    <3>2. queue[q][i].by \in Request /\ queue[q][i].by # r
      BY <2>1, <3>1, <1>4, <1>8, <1>10
    <3>3. QED
      BY <3>1, <3>2, <1>6 DEF Awaited
  <2>2. CASE q = p
    <3>1. i \in DOMAIN t /\ i \in Nat /\ i + 1 \in DOMAIN s /\ queue'[q][i] = s[i + 1]
      BY <2>2, <1>2, <1>3, <1>10
    <3>2. s[i + 1].by \in Request /\ s[i + 1].by # r /\ Awaited(p, i + 1)
      BY <3>1, <1>2, <1>4, <1>7, AwaitedParts DEF s
    <3>3. ASSUME NEW j \in DOMAIN queue'[q], queue'[q][j].by = queue'[q][i].by
          PROVE  j = i
      <4>1. j \in Nat /\ j + 1 \in DOMAIN s /\ queue'[q][j] = s[j + 1]
        BY <2>2, <1>2, <1>3, <3>3
      <4>2. j + 1 = i + 1
        BY <3>1, <3>2, <3>3, <4>1 DEF Awaited, s
      <4>3. QED
        BY <3>1, <4>1, <4>2
    <3>4. QED
      BY <2>2, <3>1, <3>2, <3>3, <1>6 DEF Awaited, s
  <2>3. QED
    BY <2>1, <2>2
<1>11. QED
  BY <1>9, <1>10 DEF EveryWriteAwaited, Awaited, Queued

\* What a step of a request may do to the other variables.
LEMMA ServeShape ==
  ASSUME TInv, NEW r \in Request, Serve(r)
  PROVE  /\ InService(r) /\ pc[r] # "commit" /\ call[r] \in Call
         /\ \/ \E a \in {"hash", "refused", "error"} :
                 /\ Reply(r, a)
                 /\ pc[r] # "compare"
                 /\ a = "hash" => call[r].op \in {"resetAdminPassword", "create", "createAdmin"}
            \/ /\ Store!Exists(call[r].login)
               /\ Goto(r, "compare") /\ user' = [user EXCEPT ![r] = db[call[r].login]]
               /\ UNCHANGED <<db, queue, call, held>>
            \/ Compared(r)
            \/ /\ call[r].op \in
                    {"updatePassword", "resetAdminPassword", "create", "createAdmin"}
               /\ pc[r] = "hash"
               /\ \E v \in UserData :
                    /\ Write(r, v)
                    /\ v.password = IF call[r].op \in {"updatePassword", "resetAdminPassword"}
                                    THEN call[r].newPassword ELSE call[r].password
            \/ /\ call[r].op = "update"
               /\ Store!Exists(call[r].login)
               /\ \E v \in UserData : Write(r, v) /\ v.password = Stored(r).password
            \/ call[r].op = "remove" /\ Write(r, Absent)
<1>1. InService(r) /\ pc[r] # "commit" /\ call[r] \in Call
  BY DEF TInv, ServedInv, InService, Serve, ReadUser, Compared, ResetAdmin, StorePassword,
     DefaultPasswordFails, StartCreate, StoreUser, UpdateUser, RemoveUser
<1>2. CASE ReadUser(r) \/ Compared(r) \/ ResetAdmin(r) \/ DefaultPasswordFails(r)
           \/ StartCreate(r) \/ RemoveUser(r)
  BY <1>1, <1>2 DEF ReadUser, ResetAdmin, DefaultPasswordFails, StartCreate, RemoveUser
<1>3. CASE StorePassword(r)
  <2>1. call[r].newPassword \in Password
    BY <1>1, <1>3, CallFields DEF StorePassword
  <2>2. Store!Exists(call[r].login) =>
          /\ [Stored(r) EXCEPT !.password = call[r].newPassword] \in UserData
          /\ [Stored(r) EXCEPT !.password = call[r].newPassword].password = call[r].newPassword
    BY <1>1, <2>1, StoredTyped DEF UserData
  <2>3. QED
    BY <1>1, <1>3, <2>2 DEF StorePassword, Update
<1>4. CASE StoreUser(r)
  BY <1>1, <1>4, CallFields DEF StoreUser, Create
<1>5. CASE UpdateUser(r)
  <2> DEFINE merged == IF call[r].roles = {} THEN Stored(r)
                       ELSE [Stored(r) EXCEPT !.roles = call[r].roles]
  <2>1. call[r].roles \in RoleSet \cup {{}, Null}
    BY <1>1, <1>5, CallFields DEF UpdateUser
  <2>2. Store!Exists(call[r].login) =>
          merged \in UserData /\ merged.password = Stored(r).password
    BY <1>1, <2>1, StoredTyped DEF UserData
  <2>3. call[r].login # Admin => Update(r, merged)
    BY <1>5 DEF UpdateUser
  <2>4. QED
    BY <1>1, <1>5, <2>2, <2>3 DEF UpdateUser, Update
<1>6. QED
  BY <1>1, <1>2, <1>3, <1>4, <1>5 DEF Serve

LEMMA AwaitedStep == TInv /\ EveryWriteAwaited /\ [Next]_vars => EveryWriteAwaited'
<1> SUFFICES ASSUME TInv, EveryWriteAwaited, [Next]_vars
             PROVE  EveryWriteAwaited'
  OBVIOUS
<1>1. ASSUME NEW r \in Request, NEW c, Arrive(r, c)
      PROVE  EveryWriteAwaited'
  BY <1>1, QueueTyped DEF Arrive, Goto, InService, EveryWriteAwaited, TInv, TypeOK
<1>2. ASSUME NEW r \in Request, Serve(r)
      PROVE  EveryWriteAwaited'
  <2>1. CASE Goto(r, "compare") /\ UNCHANGED <<db, queue, call, held>>
    <3>1. pc[r] # "commit"
      BY <1>2, ServeShape
    <3>2. pc' = [pc EXCEPT ![r] = "compare"] /\ pc \in [Request -> PC]
      BY <2>1, QueueTyped DEF Goto
    <3>3. /\ \A q \in Request : pc'[q] = "commit" <=> pc[q] = "commit"
          /\ queue' = queue /\ call' = call
      BY <2>1, <3>1, <3>2
    <3>4. \A p \in Process : \A i \in DOMAIN queue[p] : queue[p][i].by \in Request
      BY QueueTyped
    <3>5. QED
      BY <3>3, <3>4 DEF EveryWriteAwaited
  <2>2. CASE Compared(r)
    BY <2>2, QueueTyped DEF Compared, Goto, EveryWriteAwaited
  <2>3. CASE \E v \in UserData \cup {Absent} : Write(r, v)
    BY <1>2, <2>3, ServeShape, WriteAwaited
  <2>4. CASE \E a \in {"hash", "refused", "error"} : Reply(r, a)
    BY <1>2, <2>4, ServeShape, ReplyAwaited
  <2>5. QED
    BY <1>2, <2>1, <2>2, <2>3, <2>4, ServeShape
<1>3. ASSUME NEW p \in Process, Commit(p) \/ CommitFails(p)
      PROVE  EveryWriteAwaited'
  BY <1>3, SettledAwaited DEF Commit, CommitFails, Store!CommitHead, Store!DropHead
<1>4. ASSUME NEW p \in Process, Crash(p)
      PROVE  EveryWriteAwaited'
  BY <1>4, QueueTyped, AwaitedParts DEF Crash, Store!DropQueue, EveryWriteAwaited
<1>5. CASE UNCHANGED vars
  BY <1>5 DEF vars, EveryWriteAwaited
<1>6. QED
  BY <1>1, <1>2, <1>3, <1>4, <1>5 DEF Next, Request

\* No request is answered before its write is committed, and none awaits a commit that
\* cannot come, with any number of requests, processes' crashes and failing commits.
THEOREM WritesAreAwaited == Spec => []EveryWriteAwaited
<1>1. Init => EveryWriteAwaited
  BY DEF Init, EveryWriteAwaited
<1>2. QED
  BY <1>1, AwaitedStep, TypeInvariant, PTL DEF Spec

-----------------------------------------------------------------------------
(* Passwords are rightful                                                  *)

\* A queued write is entitled to its password already, or will be when it commits.
WillBeRightful(w) == w.value # Absent => w.value.password \in held[w.key] \/ Rightful(w)

\* What PasswordsRightful and AnswersRightful rest on: the copies of passwords that
\* requests carry across their awaits, and the passwords they have shown.
RightfulInv ==
  /\ PasswordsRightful
  /\ \A p \in Process : \A i \in DOMAIN queue[p] : WillBeRightful(queue[p][i])
  /\ \A r \in Request :
       /\ pc[r] = "ok" => call[r] \in Call
       /\ pc[r] = "compare" => user[r].password \in held[call[r].login]
       /\ pc[r] \in {"hash", "commit"} /\ call[r].op \in {"login", "updatePassword"} =>
            call[r].password \in held[call[r].login]
  /\ AnswersRightful

LEMMA RightfulInit == Init => RightfulInv
  BY DEF Init, RightfulInv, PasswordsRightful, AnswersRightful

\* A request that queues nothing and carries only passwords the login rightfully had.
LEMMA GotoRightful ==
  ASSUME RightfulInv, EveryWriteAwaited, TInv, NEW r \in Request, NEW a \in PC, Goto(r, a),
         InService(r), pc[r] # "commit",
         UNCHANGED <<db, queue, call, held>>,
         \A q \in Request : q # r => user'[q] = user[q],
         a = "compare" => user'[r].password \in held[call[r].login],
         a \in {"hash", "commit"} /\ call[r].op \in {"login", "updatePassword"} =>
           call[r].password \in held[call[r].login],
         a = "ok" /\ call[r].op \in {"login", "updatePassword"} =>
           call[r].password \in held[call[r].login]
  PROVE  RightfulInv'
<1>1. pc' = [pc EXCEPT ![r] = a] /\ pc \in [Request -> PC]
  BY QueueTyped DEF Goto
<1>2. PasswordsRightful'
  BY DEF RightfulInv, PasswordsRightful
<1>3. \A p \in Process : \A i \in DOMAIN queue'[p] : WillBeRightful(queue[p][i])'
  BY DEF RightfulInv, WillBeRightful, Rightful
<1>4. ASSUME NEW q \in Request
      PROVE  /\ pc'[q] = "ok" => call[q] \in Call
             /\ pc'[q] = "compare" => user'[q].password \in held[call[q].login]
             /\ pc'[q] \in {"hash", "commit"} /\ call[q].op \in {"login", "updatePassword"} =>
                  call[q].password \in held[call[q].login]
             /\ pc'[q] = "ok" /\ call[q].op \in {"login", "updatePassword"} =>
                  call[q].password \in held[call[q].login]
  <2>1. CASE q = r
    BY <1>1, <2>1 DEF TInv, ServedInv
  <2>2. CASE q # r
    BY <1>1, <2>2 DEF RightfulInv, AnswersRightful
  <2>3. QED
    BY <2>1, <2>2
<1>5. QED
  BY <1>2, <1>3, <1>4 DEF RightfulInv, AnswersRightful

\* A request queues a write that is entitled to its password.
LEMMA WriteRightful ==
  ASSUME RightfulInv, TInv, NEW r \in Request, InService(r), pc[r] # "commit",
         NEW v \in UserData \cup {Absent}, Write(r, v),
         \/ v = Absent
         \/ v.password \in held[call[r].login]
         \/ call[r].op \in {"create", "createAdmin", "resetAdminPassword", "updatePassword"},
         call[r].op \in {"login", "updatePassword"} => pc[r] = "hash"
  PROVE  RightfulInv'
<1> DEFINE P == ProcessOf(r)
           x == [key |-> call[r].login, value |-> v, by |-> r]
<1>1. P \in Process
  BY AwaitedParts
<1>2. x \in Store!Write
  BY CallFields DEF Store!Write, TInv, ServedInv
<1>3. queue[P] \in Seq(Store!Write) /\ queue \in [Process -> Seq(Store!Write)]
  BY <1>1, QueueTyped
<1>4. \A i \in DOMAIN Append(queue[P], x) :
        \/ i \in DOMAIN queue[P] /\ Append(queue[P], x)[i] = queue[P][i]
        \/ Append(queue[P], x)[i] = x
  BY <1>2, <1>3, AppendElements
<1>5. queue'[P] = Append(queue[P], x) /\ \A p \in Process : p # P => queue'[p] = queue[p]
  BY <1>1, <1>3 DEF Write, Store!Enqueue
<1>6. pc' = [pc EXCEPT ![r] = "commit"] /\ pc \in [Request -> PC]
  BY QueueTyped DEF Write, Goto
<1>7. UNCHANGED <<db, call, user, held>>
  BY DEF Write
<1>8. call[r].op \in {"login", "updatePassword"} => call[r].password \in held[call[r].login]
  BY DEF RightfulInv
<1>9. WillBeRightful(x)
  BY <1>8 DEF WillBeRightful, Rightful
<1> HIDE DEF P, x
<1>10. ASSUME NEW p \in Process, NEW i \in DOMAIN queue'[p]
       PROVE  WillBeRightful(queue'[p][i])
  <2>1. queue'[p][i] = x \/ (i \in DOMAIN queue[p] /\ queue'[p][i] = queue[p][i])
    BY <1>4, <1>5, <1>10
  <2>2. QED
    BY <2>1, <1>9, <1>10 DEF RightfulInv
<1>11. \A p \in Process : \A i \in DOMAIN queue'[p] : WillBeRightful(queue[p][i])'
  BY <1>7, <1>10 DEF WillBeRightful, Rightful
<1>12. \A q \in Request :
         /\ pc'[q] = "ok" => call[q] \in Call
         /\ pc'[q] = "compare" => user[q].password \in held[call[q].login]
         /\ pc'[q] \in {"hash", "commit"} /\ call[q].op \in {"login", "updatePassword"} =>
              call[q].password \in held[call[q].login]
         /\ pc'[q] = "ok" /\ call[q].op \in {"login", "updatePassword"} =>
              call[q].password \in held[call[q].login]
  BY <1>6, <1>8 DEF RightfulInv, AnswersRightful
<1>13. QED
  BY <1>7, <1>11, <1>12 DEF RightfulInv, AnswersRightful, PasswordsRightful

\* When the oldest write leaves the queue, those that stay were queued before.
LEMMA TailKept ==
  ASSUME TInv, NEW p \in Process, queue[p] # << >>,
         queue' = [queue EXCEPT ![p] = Tail(@)], NEW q \in Process, NEW i \in DOMAIN queue'[q]
  PROVE  \E j \in DOMAIN queue[q] : queue'[q][i] = queue[q][j]
<1>1. queue[p] \in Seq(Store!Write) /\ queue \in [Process -> Seq(Store!Write)]
  BY QueueTyped
<1>2. \A j \in DOMAIN Tail(queue[p]) :
        j + 1 \in DOMAIN queue[p] /\ Tail(queue[p])[j] = queue[p][j + 1]
  BY <1>1, TailElements
<1>3. queue'[q] = IF q = p THEN Tail(queue[p]) ELSE queue[q]
  BY <1>1
<1>4. QED
  BY <1>2, <1>3

\* More passwords are rightful, the queued writes stay the ones they were.
LEMMA QueueRightful ==
  ASSUME RightfulInv, TInv, \A l \in Login : held[l] \subseteq held'[l], call' = call,
         NEW p \in Process, queue[p] # << >>, queue' = [queue EXCEPT ![p] = Tail(@)],
         NEW q \in Process, NEW i \in DOMAIN queue'[q]
  PROVE  WillBeRightful(queue[q][i])'
<1>1. PICK j \in DOMAIN queue[q] : queue'[q][i] = queue[q][j]
  BY TailKept
<1>2. queue[q][j].key \in Login
  BY QueueTyped DEF Store!Write
<1>3. WillBeRightful(queue[q][j])
  BY DEF RightfulInv
<1>4. QED
  BY <1>1, <1>2, <1>3 DEF WillBeRightful, Rightful

LEMMA CommitRightful ==
  ASSUME RightfulInv, EveryWriteAwaited, TInv, NEW p \in Process, Commit(p)
  PROVE  RightfulInv'
<1> DEFINE w == Head(queue[p])
           r == w.by
<1>1. /\ queue[p] # << >>
      /\ db' = [db EXCEPT ![w.key] = w.value]
      /\ queue' = [queue EXCEPT ![p] = Tail(@)]
      /\ Goto(r, "ok")
      /\ held' = IF w.value # Absent /\ Rightful(w)
                 THEN [held EXCEPT ![w.key] = @ \cup {w.value.password}]
                 ELSE held
      /\ call' = call /\ user' = user
  BY DEF Commit, Store!CommitHead
<1>2. 1 \in DOMAIN queue[p] /\ w = queue[p][1]
  BY <1>1, QueueTyped, TailElements
<1>3. w \in Store!Write /\ w.key \in Login /\ r \in Request /\ WillBeRightful(w)
  BY <1>2, QueueTyped DEF RightfulInv, Store!Write
<1>4. pc[r] = "commit" /\ w.key = call[r].login
  BY <1>2 DEF EveryWriteAwaited
<1>5. /\ db \in [Login -> UserData \cup {Absent}]
      /\ held \in [Login -> SUBSET Password]
      /\ pc \in [Request -> PC] /\ pc' = [pc EXCEPT ![r] = "ok"]
  BY <1>1 DEF TInv, TypeOK, Store!LmdbTypeOK, Goto
<1> HIDE DEF w, r
<1>6. \A l \in Login : held[l] \subseteq held'[l]
  BY <1>1, <1>5
<1>7. w.value # Absent => w.value.password \in held'[w.key]
  BY <1>1, <1>3, <1>5 DEF WillBeRightful
<1>8. PasswordsRightful'
  BY <1>1, <1>3, <1>5, <1>6, <1>7 DEF RightfulInv, PasswordsRightful
<1>9. \A q \in Process : \A i \in DOMAIN queue'[q] : WillBeRightful(queue[q][i])'
  BY <1>1, <1>6, QueueRightful
<1>10. \A q \in Request : InService(q) \/ pc[q] = "ok" => call[q].login \in Login
  BY CallFields DEF TInv, ServedInv, RightfulInv
<1>11. \A q \in Request :
         /\ pc'[q] = "ok" => call[q] \in Call
         /\ pc'[q] = "compare" => user[q].password \in held'[call[q].login]
         /\ pc'[q] \in {"hash", "commit"} /\ call[q].op \in {"login", "updatePassword"} =>
              call[q].password \in held'[call[q].login]
         /\ pc'[q] = "ok" /\ call[q].op \in {"login", "updatePassword"} =>
              call[q].password \in held'[call[q].login]
  <2> TAKE q \in Request
  <2>1. CASE q = r
    BY <2>1, <1>3, <1>4, <1>5, <1>6, <1>10 DEF RightfulInv, TInv, ServedInv, InService
  <2>2. CASE q # r
    BY <2>2, <1>3, <1>5, <1>6, <1>10 DEF RightfulInv, AnswersRightful, InService
  <2>3. QED
    BY <2>1, <2>2
<1>12. QED
  BY <1>1, <1>8, <1>9, <1>11 DEF RightfulInv, AnswersRightful

LEMMA RightfulStep ==
  TInv /\ EveryWriteAwaited /\ RightfulInv /\ [Next]_vars => RightfulInv'
<1> SUFFICES ASSUME TInv, EveryWriteAwaited, RightfulInv, [Next]_vars
             PROVE  RightfulInv'
  OBVIOUS
<1>1. ASSUME NEW r \in Request, NEW c \in Call, Arrive(r, c)
      PROVE  RightfulInv'
  <2>1. pc' = [pc EXCEPT ![r] = "start"] /\ pc \in [Request -> PC]
    BY <1>1, QueueTyped DEF Arrive, Goto
  <2>2. \A q \in Request : q # r => call'[q] = call[q]
    BY <1>1 DEF Arrive, TInv, TypeOK
  <2>3. UNCHANGED <<db, queue, user, held>>
    BY <1>1 DEF Arrive
  <2>4. \A p \in Process : \A i \in DOMAIN queue[p] :
          queue[p][i].by \in Request /\ queue[p][i].by # r
    BY <1>1, QueueTyped DEF Arrive, InService, EveryWriteAwaited
  <2>5. \A p \in Process : \A i \in DOMAIN queue'[p] : WillBeRightful(queue[p][i])'
    BY <2>2, <2>3, <2>4 DEF RightfulInv, WillBeRightful, Rightful
  <2>6. QED
    BY <2>1, <2>2, <2>3, <2>5 DEF RightfulInv, AnswersRightful, PasswordsRightful
<1>2. ASSUME NEW r \in Request, Serve(r)
      PROVE  RightfulInv'
  <2>1. InService(r) /\ pc[r] # "commit" /\ call[r] \in Call /\ call[r].login \in Login
    BY <1>2, ServeShape, CallFields
  <2>2. ASSUME NEW a \in {"hash", "refused", "error"}, Reply(r, a),
               a = "hash" => call[r].op \in {"resetAdminPassword", "create", "createAdmin"}
        PROVE  RightfulInv'
    BY <2>1, <2>2, GotoRightful DEF Reply, PC
  <2>3. CASE /\ Store!Exists(call[r].login)
             /\ Goto(r, "compare") /\ user' = [user EXCEPT ![r] = db[call[r].login]]
             /\ UNCHANGED <<db, queue, call, held>>
    <3>1. user'[r].password \in held[call[r].login]
      BY <2>1, <2>3 DEF RightfulInv, PasswordsRightful, Store!Exists, TInv, TypeOK
    <3>2. \A q \in Request : q # r => user'[q] = user[q]
      BY <2>3 DEF TInv, TypeOK
    <3>3. QED
      BY <2>1, <2>3, <3>1, <3>2, GotoRightful DEF PC
  <2>4. CASE Compared(r)
    <3>1. pc[r] = "compare" /\ user[r].password \in held[call[r].login]
      BY <2>4 DEF Compared, RightfulInv
    <3>2. \A q \in Request : q # r => user'[q] = user[q]
      BY <2>4 DEF Compared, TInv, TypeOK
    <3>3. QED
      BY <2>1, <2>4, <3>1, <3>2, GotoRightful DEF Compared, PC
  <2>5. ASSUME NEW v \in UserData, Write(r, v), pc[r] = "hash",
               call[r].op \in {"updatePassword", "resetAdminPassword", "create", "createAdmin"}
        PROVE  RightfulInv'
    BY <2>1, <2>5, WriteRightful
  <2>6. ASSUME NEW v \in UserData, Write(r, v), v.password = Stored(r).password,
               call[r].op = "update", Store!Exists(call[r].login)
        PROVE  RightfulInv'
    <3>1. v.password \in held[call[r].login]
      BY <2>1, <2>6 DEF RightfulInv, PasswordsRightful, Stored, Store!Exists
    <3>2. call[r].op \notin {"login", "updatePassword"}
      BY <2>6
    <3>3. QED
      BY <2>1, <2>6, <3>1, <3>2, WriteRightful
  <2>7. CASE call[r].op = "remove" /\ Write(r, Absent)
    BY <2>1, <2>7, WriteRightful
  <2>8. QED
    BY <1>2, <2>2, <2>3, <2>4, <2>5, <2>6, <2>7, ServeShape
<1>3. ASSUME NEW p \in Process, Commit(p)
      PROVE  RightfulInv'
  BY <1>3, CommitRightful
<1>4. ASSUME NEW p \in Process, CommitFails(p)
      PROVE  RightfulInv'
  <2>1. /\ queue[p] # << >> /\ queue' = [queue EXCEPT ![p] = Tail(@)]
        /\ UNCHANGED <<db, call, user, held>>
        /\ Goto(Head(queue[p]).by, "error")
    BY <1>4 DEF CommitFails, Store!DropHead
  <2>2. \A q \in Process : \A i \in DOMAIN queue'[q] : WillBeRightful(queue[q][i])'
    BY <2>1, QueueRightful
  <2>3. \A q \in Request : pc'[q] = pc[q] \/ pc'[q] = "error"
    BY <2>1, QueueTyped DEF Goto
  <2>4. QED
    BY <2>1, <2>2, <2>3 DEF RightfulInv, AnswersRightful, PasswordsRightful
<1>5. ASSUME NEW p \in Process, Crash(p)
      PROVE  RightfulInv'
  <2>1. \A q \in Process : (q = p /\ queue'[q] = << >>) \/ (q # p /\ queue'[q] = queue[q])
    BY <1>5, QueueTyped DEF Crash, Store!DropQueue
  <2>2. \A q \in Request :
          IF ProcessOf(q) = p THEN pc'[q] = "idle"
          ELSE pc'[q] = pc[q] /\ call'[q] = call[q] /\ user'[q] = user[q]
    BY <1>5 DEF Crash
  <2>3. UNCHANGED <<db, held>>
    BY <1>5 DEF Crash, Store!DropQueue
  <2>4. ASSUME NEW q \in Process, NEW i \in DOMAIN queue'[q]
        PROVE  WillBeRightful(queue[q][i])'
    <3>1. q # p /\ queue'[q] = queue[q]
      BY <2>1, <2>4
    <3>2. call'[queue[q][i].by] = call[queue[q][i].by]
      BY <2>2, <2>4, <3>1, QueueTyped DEF EveryWriteAwaited
    <3>3. QED
      BY <2>3, <2>4, <3>1, <3>2 DEF RightfulInv, WillBeRightful, Rightful
  <2>5. QED
    BY <2>2, <2>3, <2>4 DEF RightfulInv, AnswersRightful, PasswordsRightful
<1>6. CASE UNCHANGED vars
  BY <1>6 DEF vars, RightfulInv, AnswersRightful, PasswordsRightful, WillBeRightful, Rightful
<1>7. QED
  BY <1>1, <1>2, <1>3, <1>4, <1>5, <1>6 DEF Next, Request, Call

LEMMA RightfulInvariant == Spec => []RightfulInv
<1>1. Init => EveryWriteAwaited
  BY DEF Init, EveryWriteAwaited
<1>2. QED
  BY <1>1, AwaitedStep, TypeInit, TypeStep, RightfulInit, RightfulStep, PTL DEF Spec

\* A stored password was given by the administrator or by who had shown a rightful one,
\* whatever stale reads and late writes concurrent requests perform.
THEOREM StoredPasswordsAreRightful == Spec => []PasswordsRightful
<1>1. RightfulInv => PasswordsRightful
  BY DEF RightfulInv
<1>2. QED
  BY <1>1, RightfulInvariant, PTL

\* login and updatePassword succeed only for a password the login rightfully had.
THEOREM AnswersAreRightful == Spec => []AnswersRightful
<1>1. RightfulInv => AnswersRightful
  BY DEF RightfulInv
<1>2. QED
  BY <1>1, RightfulInvariant, PTL

-----------------------------------------------------------------------------
(* Served one at a time, requests take effect as the directory specifies   *)

\* The status of the directory's requests.
Status == [r \in Request |-> IF InService(r) THEN "serving" ELSE pc[r]]

\* The directory would answer a request by storing v for its login now.
Allowed(r, v) ==
  LET c == call[r] IN
  /\ \/ c.op \in {"create", "createAdmin"} /\ ~Directory!Reserved(c) /\ ~Directory!Known(c)
     \/ c.op = "updatePassword" /\ Directory!Authenticated(c)
     \/ c.op = "resetAdminPassword" /\ Directory!Known(c)
     \/ c.op \in {"update", "remove"} /\ ~Directory!Reserved(c) /\ Directory!Known(c)
  /\ v = Directory!Stored(c)

\* The directory may refuse a request now.
Refusable(c) ==
  \/ c.op \in {"login", "updatePassword"} /\ ~Directory!Authenticated(c)
  \/ c.op = "resetAdminPassword"
  \/ Directory!Reserved(c)

Alone == \A r, s \in Request : InService(r) /\ InService(s) => r = s

\* What the checks of a request found is still so when it goes on.
FoundInv ==
  \A r \in Request :
    /\ pc[r] = "compare" => Store!Exists(call[r].login) /\ user[r] = db[call[r].login]
    /\ pc[r] = "hash" /\ call[r].op = "updatePassword" => Directory!Authenticated(call[r])
    /\ pc[r] = "hash" /\ call[r].op = "create" => call[r].login # Admin

QueueAllowed ==
  \A p \in Process : \A i \in DOMAIN queue[p] : Allowed(queue[p][i].by, queue[p][i].value)

\* With one request in service at a time, what it read before an await and what it has
\* queued are what the directory holds and would store at that moment.
SerialInv == Alone /\ FoundInv /\ QueueAllowed

\* What a step of a request in service does, told in the terms of the directory.
LEMMA SerialShape ==
  ASSUME TInv, SerialInv, NEW r \in Request, Serve(r)
  PROVE  \/ /\ Reply(r, "hash")
            /\ call[r].op \in {"resetAdminPassword", "create", "createAdmin"}
            /\ call[r].op = "create" => call[r].login # Admin
         \/ Reply(r, "refused") /\ Refusable(call[r])
         \/ Reply(r, "error") /\ call[r].op # "login"
         \/ /\ Store!Exists(call[r].login)
            /\ Goto(r, "compare") /\ user' = [user EXCEPT ![r] = db[call[r].login]]
            /\ UNCHANGED <<db, queue, call, held>>
         \/ Compared(r)
         \/ \E v \in UserData \cup {Absent} : Write(r, v) /\ Allowed(r, v)
<1>1. InService(r) /\ call[r] \in Call
  BY ServeShape
<1>2. CASE ReadUser(r)
  BY <1>2 DEF ReadUser, Refusable, Directory!Authenticated, Directory!Known, Store!Exists
<1>3. CASE Compared(r)
  BY <1>3
<1>4. CASE ResetAdmin(r)
  BY <1>4 DEF ResetAdmin, Refusable
<1>5. CASE StorePassword(r)
  <2> DEFINE v == [Stored(r) EXCEPT !.password = call[r].newPassword]
  <2>1. pc[r] = "hash" /\ call[r].op \in {"updatePassword", "resetAdminPassword"}
    BY <1>5 DEF StorePassword
  <2>2. Update(r, v)
    BY <1>5 DEF StorePassword
  <2>3. v = Directory!Stored(call[r])
    BY <2>1 DEF Directory!Stored, Stored
  <2>4. Store!Exists(call[r].login) => v \in UserData
    BY <1>1, <2>1, StoredTyped, CallFields DEF UserData
  <2>5. Store!Exists(call[r].login) => Allowed(r, v)
    <3>1. call[r].op = "updatePassword" => Directory!Authenticated(call[r])
      BY <2>1 DEF SerialInv, FoundInv
    <3>2. Store!Exists(call[r].login) => Directory!Known(call[r])
      BY DEF Store!Exists, Directory!Known
    <3> HIDE DEF v
    <3>3. QED
      BY <2>1, <2>3, <3>1, <3>2 DEF Allowed
  <2> HIDE DEF v
  <2>6. QED
    BY <2>1, <2>2, <2>4, <2>5 DEF Update
<1>6. CASE DefaultPasswordFails(r)
  BY <1>6 DEF DefaultPasswordFails
<1>7. CASE StartCreate(r)
  BY <1>7 DEF StartCreate, Refusable, Directory!Reserved
<1>8. CASE StoreUser(r)
  <2> DEFINE v == [password |-> call[r].password, roles |-> call[r].roles]
  <2>1. /\ pc[r] = "hash" /\ call[r].op \in {"create", "createAdmin"}
        /\ Create(r, v)
    BY <1>8 DEF StoreUser
  <2>2. v = Directory!Stored(call[r]) /\ v \in UserData
    BY <1>1, <2>1, CallFields DEF Directory!Stored
  <2>3. ~Directory!Reserved(call[r])
    BY <2>1 DEF SerialInv, FoundInv, Directory!Reserved
  <2>4. Store!Exists(call[r].login) <=> Directory!Known(call[r])
    BY DEF Store!Exists, Directory!Known
  <2> HIDE DEF v
  <2>5. ~Store!Exists(call[r].login) => Allowed(r, v)
    BY <2>1, <2>2, <2>3, <2>4 DEF Allowed
  <2>6. QED
    BY <2>1, <2>2, <2>5 DEF Create
<1>9. CASE UpdateUser(r)
  <2> DEFINE v == IF call[r].roles = {} THEN Stored(r)
                  ELSE [Stored(r) EXCEPT !.roles = call[r].roles]
  <2>1. call[r].op = "update"
    BY <1>9 DEF UpdateUser
  <2>2. CASE call[r].login = Admin
    BY <1>9, <2>1, <2>2 DEF UpdateUser, Refusable, Directory!Reserved
  <2>3. CASE call[r].login # Admin
    <3>1. Update(r, v)
      BY <1>9, <2>3 DEF UpdateUser
    <3>2. Store!Exists(call[r].login) => Stored(r) \in UserData
      BY <1>1, StoredTyped
    <3>3. call[r].roles \in RoleSet \cup {{}, Null}
      BY <1>1, <2>1, CallFields
    <3>4. Store!Exists(call[r].login) => v \in UserData
      BY <3>2, <3>3 DEF UserData
    <3>5. Store!Exists(call[r].login) => v = Directory!Stored(call[r])
      <4>1. Directory!Stored(call[r]) =
              [Stored(r) EXCEPT !.roles = IF call[r].roles = {} THEN Stored(r).roles
                                          ELSE call[r].roles]
        BY <2>1 DEF Directory!Stored, Stored
      <4>2. QED
        BY <3>2, <4>1 DEF UserData
    <3>6. ~Directory!Reserved(call[r])
      BY <2>3 DEF Directory!Reserved
    <3>7. Store!Exists(call[r].login) <=> Directory!Known(call[r])
      BY DEF Store!Exists, Directory!Known
    <3> HIDE DEF v
    <3>8. Store!Exists(call[r].login) => Allowed(r, v)
      BY <2>1, <3>5, <3>6, <3>7 DEF Allowed
    <3>9. QED
      BY <2>1, <3>1, <3>4, <3>8 DEF Update
  <2>4. QED
    BY <2>2, <2>3
<1>10. CASE RemoveUser(r)
  <2>1. call[r].op = "remove"
    BY <1>10 DEF RemoveUser
  <2>2. CASE call[r].login = Admin
    BY <1>10, <2>1, <2>2 DEF RemoveUser, Refusable, Directory!Reserved
  <2>3. CASE call[r].login # Admin
    <3>1. Absent = Directory!Stored(call[r])
      BY <2>1 DEF Directory!Stored
    <3>2. Store!Exists(call[r].login) => Allowed(r, Absent)
      BY <2>1, <2>3, <3>1
      DEF Allowed, Directory!Reserved, Store!Exists, Directory!Known
    <3>3. QED
      BY <1>10, <2>1, <2>3, <3>2 DEF RemoveUser
  <2>4. QED
    BY <2>2, <2>3
<1>11. QED
  BY <1>2, <1>3, <1>4, <1>5, <1>6, <1>7, <1>8, <1>9, <1>10 DEF Serve

LEMMA SerialInit == Init => SerialInv
  BY DEF Init, SerialInv, Alone, FoundInv, QueueAllowed, InService, Process

\* A queued write is the only one, and its request the only one in service.
LEMMA QueuedAlone ==
  ASSUME TInv, SerialInv, EveryWriteAwaited, NEW p \in Process, NEW i \in DOMAIN queue[p]
  PROVE  /\ queue[p][i].by \in Request
         /\ pc[queue[p][i].by] = "commit"
         /\ \A q \in Request : InService(q) => q = queue[p][i].by
         /\ \A q \in Process : \A j \in DOMAIN queue[q] : q = p /\ j = i
<1>1. \A q \in Process : \A j \in DOMAIN queue[q] : queue[q][j].by \in Request
  BY QueueTyped
<1>2. \A q \in Process : \A j \in DOMAIN queue[q] : Awaited(q, j)
  BY AwaitedParts
<1>3. \A q \in Process : \A j \in DOMAIN queue[q] : InService(queue[q][j].by)
  BY <1>2 DEF Awaited, InService
<1>4. \A q \in Process : \A j \in DOMAIN queue[q] : queue[q][j].by = queue[p][i].by
  BY <1>1, <1>3 DEF SerialInv, Alone
<1>5. \A q \in Process : \A j \in DOMAIN queue[q] : q = p
  BY <1>2, <1>4 DEF Awaited
<1>6. QED
  BY <1>1, <1>2, <1>3, <1>4, <1>5 DEF Awaited, SerialInv, Alone

\* What the directory allows depends on the database and the call alone.
LEMMA AllowedStays ==
  ASSUME NEW r \in Request, NEW v, Allowed(r, v), db' = db, call'[r] = call[r]
  PROVE  Allowed(r, v)'
  BY DEF Allowed, Directory!Reserved, Directory!Known, Directory!Authenticated,
     Directory!Stored

\* Nothing stays queued, and nothing in service, when the write of a request is settled.
LEMMA SettledSerial ==
  ASSUME TInv, SerialInv, EveryWriteAwaited, NEW p \in Process, queue[p] # << >>,
         queue' = [queue EXCEPT ![p] = Tail(@)], NEW a \in {"ok", "error"},
         Goto(Head(queue[p]).by, a)
  PROVE  SerialInv'
<1>1. queue[p] \in Seq(Store!Write) /\ queue \in [Process -> Seq(Store!Write)]
  BY QueueTyped
<1>2. /\ 1 \in DOMAIN queue[p] /\ Head(queue[p]) = queue[p][1]
      /\ \A i \in DOMAIN Tail(queue[p]) : i + 1 \in DOMAIN queue[p] /\ i + 1 # 1
  BY <1>1, TailElements
<1> DEFINE r == queue[p][1].by
<1>3. /\ r \in Request
      /\ \A q \in Request : InService(q) => q = r
      /\ \A q \in Process : \A j \in DOMAIN queue[q] : q = p /\ j = 1
  BY <1>2, QueuedAlone
<1>4. pc' = [pc EXCEPT ![r] = a] /\ pc \in [Request -> PC]
  BY <1>2, QueueTyped DEF Goto
<1>5. \A q \in Request : ~InService(q)'
  <2>1. ASSUME NEW q \in Request, q = r
        PROVE  pc'[q] = a
    BY <1>3, <1>4, <2>1
  <2>2. ASSUME NEW q \in Request, q # r
        PROVE  pc'[q] = pc[q]
    BY <1>3, <1>4, <2>2
  <2> HIDE DEF r
  <2>3. QED
    BY <2>1, <2>2, <1>3 DEF InService
<1>6. \A q \in Process : queue'[q] = IF q = p THEN Tail(queue[p]) ELSE queue[q]
  BY <1>1
<1>7. \A q \in Process : \A j \in DOMAIN queue'[q] : FALSE
  BY <1>2, <1>3, <1>6
<1>8. QED
  BY <1>5, <1>7 DEF SerialInv, Alone, FoundInv, QueueAllowed, InService

LEMMA SerialStep ==
  ASSUME Serial
  PROVE  TInv /\ EveryWriteAwaited /\ SerialInv /\ [Next]_vars => SerialInv'
<1> SUFFICES ASSUME TInv, EveryWriteAwaited, SerialInv, [Next]_vars
             PROVE  SerialInv'
  OBVIOUS
<1>1. ASSUME NEW r \in Request, NEW c, Arrive(r, c)
      PROVE  SerialInv'
  <2>1. pc' = [pc EXCEPT ![r] = "start"] /\ pc \in [Request -> PC]
    BY <1>1, QueueTyped DEF Arrive, Goto
  <2>2. \A q \in Request : ~InService(q)
    BY <1>1 DEF Arrive
  <2>3. \A q \in Request : InService(q)' => q = r /\ pc'[q] = "start"
    BY <2>1, <2>2 DEF InService
  <2>4. \A p \in Process : \A i \in DOMAIN queue[p] : FALSE
    BY <2>2, QueuedAlone DEF InService
  <2>5. queue' = queue
    BY <1>1 DEF Arrive
  <2>6. QED
    BY <2>3, <2>4, <2>5 DEF SerialInv, Alone, FoundInv, QueueAllowed, InService
<1>2. ASSUME NEW r \in Request, Serve(r)
      PROVE  SerialInv'
  <2>1. InService(r) /\ pc[r] # "commit" /\ pc \in [Request -> PC]
    BY <1>2, ServeShape, QueueTyped
  <2>2. \A p \in Process : \A i \in DOMAIN queue[p] : FALSE
    BY <2>1, QueuedAlone
  <2>3. \A q \in Request : q # r => ~InService(q)
    BY <2>1 DEF SerialInv, Alone
  <2>4. ASSUME NEW a, Goto(r, a), call' = call, queue' = queue,
               a = "compare" =>
                 (Store!Exists(call[r].login))' /\ user'[r] = db'[call[r].login],
               a = "hash" /\ call[r].op = "updatePassword" =>
                 Directory!Authenticated(call[r])',
               a = "hash" /\ call[r].op = "create" => call[r].login # Admin
        PROVE  SerialInv'
    <3>1. pc'[r] = a /\ \A q \in Request : q # r => pc'[q] = pc[q]
      BY <2>1, <2>4 DEF Goto
    <3>2. \A q \in Request : InService(q)' => q = r
      BY <2>3, <3>1 DEF InService
    <3>3. FoundInv'
      BY <2>4, <3>1, <3>2 DEF FoundInv, InService
    <3>4. QED
      BY <2>2, <2>4, <3>2, <3>3 DEF SerialInv, Alone, QueueAllowed
  <2>5. ASSUME NEW a \in {"refused", "error"}, Reply(r, a)
        PROVE  SerialInv'
    BY <2>4, <2>5 DEF Reply
  <2>6. CASE /\ Reply(r, "hash")
             /\ call[r].op \in {"resetAdminPassword", "create", "createAdmin"}
             /\ call[r].op = "create" => call[r].login # Admin
    BY <2>4, <2>6 DEF Reply
  <2>7. CASE /\ Store!Exists(call[r].login)
             /\ Goto(r, "compare") /\ user' = [user EXCEPT ![r] = db[call[r].login]]
             /\ UNCHANGED <<db, queue, call, held>>
    <3>1. user'[r] = db'[call[r].login] /\ (Store!Exists(call[r].login))'
      BY <2>7 DEF Store!Exists, TInv, TypeOK
    <3>2. QED
      BY <2>4, <2>7, <3>1
  <2>8. CASE Compared(r)
    <3> DEFINE a == IF user[r].password # call[r].password THEN "refused"
                    ELSE IF call[r].op = "login" THEN "ok" ELSE "hash"
    <3>1. Goto(r, a) /\ UNCHANGED <<db, queue, call, held>>
      BY <2>8 DEF Compared
    <3>2. /\ Store!Exists(call[r].login) /\ user[r] = db[call[r].login]
          /\ call[r].op \in {"login", "updatePassword"}
      BY <2>8 DEF Compared, SerialInv, FoundInv, TInv, ServedInv, AuthenticationCall
    <3>3. a = "hash" => Directory!Authenticated(call[r])
      BY <3>2 DEF Directory!Authenticated, Directory!Known, Store!Exists
    <3>4. a = "hash" => Directory!Authenticated(call[r])'
      BY <3>1, <3>3 DEF Directory!Authenticated, Directory!Known
    <3>5. a # "compare" /\ (a = "hash" => call[r].op # "create")
      BY <3>2
    <3> HIDE DEF a
    <3>6. QED
      BY <2>4, <3>1, <3>4, <3>5
  <2>9. ASSUME NEW v \in UserData \cup {Absent}, Write(r, v), Allowed(r, v)
        PROVE  SerialInv'
    <3> DEFINE P == ProcessOf(r)
               x == [key |-> call[r].login, value |-> v, by |-> r]
    <3>1. P \in Process /\ queue \in [Process -> Seq(Store!Write)]
      BY AwaitedParts, QueueTyped
    <3>2. x \in Store!Write
      BY <2>1, CallFields DEF Store!Write, TInv, ServedInv
    <3>3. queue'[P] = Append(queue[P], x) /\ \A p \in Process : p # P => queue'[p] = queue[p]
      BY <2>9, <3>1 DEF Write, Store!Enqueue
    <3>4. \A i \in DOMAIN Append(queue[P], x) :
            i \in DOMAIN queue[P] \/ Append(queue[P], x)[i] = x
      BY <3>1, <3>2, AppendElements
    <3>5. x.by = r /\ x.value = v
      OBVIOUS
    <3> HIDE DEF P, x
    <3>6. \A p \in Process : \A i \in DOMAIN queue'[p] :
            queue'[p][i].by = r /\ queue'[p][i].value = v
      BY <2>2, <3>1, <3>3, <3>4, <3>5
    <3>7. Allowed(r, v)'
      BY <2>9, AllowedStays DEF Write
    <3>8. QueueAllowed'
      BY <3>6, <3>7 DEF QueueAllowed
    <3>9. pc'[r] = "commit" /\ \A q \in Request : q # r => pc'[q] = pc[q]
      BY <2>1, <2>9 DEF Write, Goto
    <3>10. \A q \in Request : InService(q)' => q = r
      BY <2>3, <3>9 DEF InService
    <3>11. QED
      BY <3>8, <3>9, <3>10 DEF SerialInv, Alone, FoundInv, InService
  <2>10. QED
    BY <1>2, <2>5, <2>6, <2>7, <2>8, <2>9, SerialShape
<1>3. ASSUME NEW p \in Process, Commit(p) \/ CommitFails(p)
      PROVE  SerialInv'
  BY <1>3, SettledSerial DEF Commit, CommitFails, Store!CommitHead, Store!DropHead
<1>4. ASSUME NEW p \in Process, Crash(p)
      PROVE  SerialInv'
  <2>1. \A q \in Process : (q = p /\ queue'[q] = << >>) \/ (q # p /\ queue'[q] = queue[q])
    BY <1>4, QueueTyped DEF Crash, Store!DropQueue
  <2>2. \A q \in Request :
          IF ProcessOf(q) = p THEN pc'[q] = "idle"
          ELSE pc'[q] = pc[q] /\ call'[q] = call[q] /\ user'[q] = user[q]
    BY <1>4 DEF Crash
  <2>3. db' = db
    BY <1>4 DEF Crash, Store!DropQueue
  <2>4. Alone'
    BY <2>2 DEF SerialInv, Alone, InService
  <2>5. FoundInv'
    BY <2>2, <2>3
    DEF SerialInv, FoundInv, Store!Exists, Directory!Authenticated, Directory!Known
  <2>6. ASSUME NEW q \in Process, NEW i \in DOMAIN queue'[q]
        PROVE  Allowed(queue[q][i].by, queue[q][i].value)'
    <3>1. q # p /\ queue'[q] = queue[q]
      BY <2>1, <2>6
    <3>2. queue[q][i].by \in Request /\ ProcessOf(queue[q][i].by) = q
      BY <2>6, <3>1, QueueTyped, AwaitedParts DEF Awaited
    <3>3. call'[queue[q][i].by] = call[queue[q][i].by]
      BY <2>2, <3>1, <3>2
    <3>4. Allowed(queue[q][i].by, queue[q][i].value)
      BY <2>6, <3>1 DEF SerialInv, QueueAllowed
    <3>5. PICK b, v : b = queue[q][i].by /\ v = queue[q][i].value
      OBVIOUS
    <3>6. Allowed(b, v)'
      BY <2>3, <3>2, <3>3, <3>4, <3>5, AllowedStays
    <3>7. queue'[q][i].by = b /\ queue'[q][i].value = v
      BY <3>1, <3>5
    <3>8. QED
      BY <3>6, <3>7
  <2>7. QED
    BY <2>4, <2>5, <2>6 DEF SerialInv, QueueAllowed
<1>5. CASE UNCHANGED vars
  <2>1. UNCHANGED <<db, queue, pc, call, user>>
    BY <1>5 DEF vars
  <2>2. Alone' /\ FoundInv'
    BY <2>1
    DEF SerialInv, Alone, FoundInv, InService, Store!Exists, Directory!Authenticated,
        Directory!Known
  <2>3. ASSUME NEW p \in Process, NEW i \in DOMAIN queue'[p]
        PROVE  Allowed(queue[p][i].by, queue[p][i].value)'
    <3>1. PICK b, v : b = queue[p][i].by /\ v = queue[p][i].value
      OBVIOUS
    <3>2. Allowed(b, v) /\ b \in Request
      BY <2>1, <2>3, <3>1, QueueTyped DEF SerialInv, QueueAllowed
    <3>3. Allowed(b, v)'
      BY <2>1, <3>2, AllowedStays
    <3>4. QED
      BY <2>1, <3>1, <3>3
  <2>4. QED
    BY <2>2, <2>3 DEF SerialInv, QueueAllowed
<1>6. QED
  BY <1>1, <1>2, <1>3, <1>4, <1>5 DEF Next, Request

LEMMA SerialInvariant ==
  ASSUME Serial
  PROVE  Spec => [](TInv /\ EveryWriteAwaited /\ SerialInv)
<1>1. Init => EveryWriteAwaited
  BY DEF Init, EveryWriteAwaited
<1>2. QED
  BY <1>1, TypeInit, TypeStep, AwaitedStep, SerialInit, SerialStep, PTL DEF Spec

\* A request in service goes to another place of its handler, or is answered.
LEMMA StatusMoves ==
  ASSUME TInv, NEW r \in Request, NEW a, Goto(r, a)
  PROVE  /\ InService(r) /\ a \in {"start", "compare", "hash", "commit"} =>
              Status' = Status
         /\ a \notin {"start", "compare", "hash", "commit"} =>
              Status' = [Status EXCEPT ![r] = a]
         /\ a = "start" => Status' = [Status EXCEPT ![r] = "serving"]
         /\ InService(r) => Status[r] = "serving"
         /\ ~InService(r) => Status[r] # "serving"
<1>1. pc' = [pc EXCEPT ![r] = a] /\ pc \in [Request -> PC]
  BY QueueTyped DEF Goto
<1>2. /\ pc'[r] = a
      /\ \A q \in Request : q # r => pc'[q] = pc[q]
      /\ pc[r] \in PC
  BY <1>1
<1>3. QED
  BY <1>2 DEF Status, InService, PC

LEMMA DirectoryInit == Init => Directory!Init
  BY DEF Init, Directory!Init, InService, UserData

LEMMA DirectoryNext ==
  ASSUME Serial
  PROVE  TInv /\ EveryWriteAwaited /\ SerialInv /\ [Next]_vars =>
           [Directory!Next]_(Directory!dirVars)
<1> SUFFICES ASSUME TInv, EveryWriteAwaited, SerialInv, [Next]_vars
             PROVE  Directory!Next \/ UNCHANGED Directory!dirVars
  OBVIOUS
<1>1. ASSUME NEW r \in Request, NEW c \in Call, Arrive(r, c)
      PROVE  Directory!Submit(r, c)
  <2>1. ~InService(r) /\ Goto(r, "start")
    BY <1>1 DEF Arrive
  <2>2. Status[r] # "serving" /\ Status' = [Status EXCEPT ![r] = "serving"]
    BY <2>1, StatusMoves
  <2>3. call' = [call EXCEPT ![r] = c] /\ db' = db
    BY <1>1 DEF Arrive
  <2>4. QED
    BY <2>2, <2>3 DEF Directory!Submit, Directory!Answer, Status
<1>2. ASSUME NEW r \in Request, Serve(r)
      PROVE  \/ Directory!Refuse(r) \/ Directory!LoginOk(r) \/ Directory!Fail(r)
             \/ UNCHANGED Directory!dirVars
  <2>1. InService(r)
    BY <1>2, ServeShape
  <2>2. CASE Reply(r, "refused") /\ Refusable(call[r])
    <3>1. Status[r] = "serving" /\ Status' = [Status EXCEPT ![r] = "refused"]
      BY <2>1, <2>2, StatusMoves DEF Reply
    <3>2. QED
      BY <2>2, <3>1 DEF Directory!Refuse, Directory!Answer, Status, Refusable, Reply
  <2>3. CASE Reply(r, "error") /\ call[r].op # "login"
    <3>1. Status[r] = "serving" /\ Status' = [Status EXCEPT ![r] = "error"]
      BY <2>1, <2>3, StatusMoves DEF Reply
    <3>2. QED
      BY <2>3, <3>1 DEF Directory!Fail, Directory!Answer, Status, Reply
  <2>4. ASSUME NEW a \in {"compare", "hash", "commit"}, Goto(r, a), UNCHANGED <<db, call>>
        PROVE  UNCHANGED Directory!dirVars
    <3>1. Status' = Status
      BY <2>1, <2>4, StatusMoves
    <3>2. QED
      BY <2>4, <3>1 DEF Directory!dirVars, Status
  <2>5. CASE Compared(r)
    <3>1. /\ user[r] = db[call[r].login] /\ Store!Exists(call[r].login)
          /\ call[r].op \in {"login", "updatePassword"}
      BY <2>5 DEF Compared, SerialInv, FoundInv, TInv, ServedInv, AuthenticationCall
    <3>2. Directory!Authenticated(call[r]) <=> user[r].password = call[r].password
      BY <3>1 DEF Directory!Authenticated, Directory!Known, Store!Exists
    <3>3. UNCHANGED <<db, call>>
      BY <2>5 DEF Compared
    <3>4. CASE user[r].password # call[r].password
      <4>1. Goto(r, "refused")
        BY <2>5, <3>4 DEF Compared
      <4>2. Status[r] = "serving" /\ Status' = [Status EXCEPT ![r] = "refused"]
        BY <2>1, <4>1, StatusMoves
      <4>3. QED
        BY <3>1, <3>2, <3>3, <3>4, <4>2 DEF Directory!Refuse, Directory!Answer, Status
    <3>5. CASE user[r].password = call[r].password /\ call[r].op = "login"
      <4>1. Goto(r, "ok")
        BY <2>5, <3>5 DEF Compared
      <4>2. Status[r] = "serving" /\ Status' = [Status EXCEPT ![r] = "ok"]
        BY <2>1, <4>1, StatusMoves
      <4>3. QED
        BY <3>2, <3>3, <3>5, <4>2 DEF Directory!LoginOk, Directory!Answer, Status
    <3>6. CASE user[r].password = call[r].password /\ call[r].op # "login"
      <4>1. Goto(r, "hash")
        BY <2>5, <3>6 DEF Compared
      <4>2. QED
        BY <2>4, <3>3, <4>1
    <3>7. QED
      BY <3>4, <3>5, <3>6
  <2>6. QED
    BY <1>2, <2>2, <2>3, <2>4, <2>5, SerialShape DEF Reply, Write
<1>3. ASSUME NEW p \in Process, Commit(p) \/ CommitFails(p)
      PROVE  \E r \in Request : Directory!Store(r) \/ Directory!Fail(r)
  <2> DEFINE w == Head(queue[p])
  <2>1. queue[p] # << >> /\ queue[p] \in Seq(Store!Write)
    BY <1>3, QueueTyped DEF Commit, CommitFails, Store!CommitHead, Store!DropHead
  <2>2. 1 \in DOMAIN queue[p] /\ w = queue[p][1]
    BY <2>1, TailElements
  <2>3. PICK r \in Request : r = w.by
    BY <2>2, QueueTyped
  <2>4. pc[r] = "commit" /\ w.key = call[r].login /\ Allowed(r, w.value)
    BY <2>2, <2>3, QueueTyped, AwaitedParts DEF Awaited, SerialInv, QueueAllowed
  <2>5. Commit(p) => db' = [db EXCEPT ![w.key] = w.value] /\ Goto(r, "ok") /\ call' = call
    BY <2>3 DEF Commit, Store!CommitHead
  <2>6. CommitFails(p) => db' = db /\ Goto(r, "error") /\ call' = call
    BY <2>3 DEF CommitFails, Store!DropHead
  <2> HIDE DEF w
  <2>7. InService(r)
    BY <2>4 DEF InService
  <2>8. CASE Commit(p)
    <3>1. Status[r] = "serving" /\ Status' = [Status EXCEPT ![r] = "ok"]
      BY <2>5, <2>7, <2>8, StatusMoves
    <3>2. Directory!Store(r)
      BY <2>4, <2>5, <2>8, <3>1 DEF Directory!Store, Directory!Answer, Status, Allowed
    <3>3. QED
      BY <3>2
  <2>9. CASE CommitFails(p)
    <3>1. Status[r] = "serving" /\ Status' = [Status EXCEPT ![r] = "error"]
      BY <2>6, <2>7, <2>9, StatusMoves
    <3>2. call[r].op # "login"
      BY <2>4 DEF Allowed
    <3>3. Directory!Fail(r)
      BY <2>6, <2>9, <3>1, <3>2 DEF Directory!Fail, Directory!Answer, Status
    <3>4. QED
      BY <3>3
  <2>10. QED
    BY <1>3, <2>8, <2>9
<1>4. ASSUME NEW p \in Process, Crash(p)
      PROVE  \E R \in SUBSET Request : Directory!Forget(R)
  <2> DEFINE R == {r \in Request : ProcessOf(r) = p}
  <2>1. Status' = [r \in Request |-> IF r \in R THEN "idle" ELSE Status[r]]
    BY <1>4 DEF Crash, Status, InService
  <2>2. call' = [r \in Request |-> IF r \in R THEN NoCall ELSE call[r]]
    BY <1>4 DEF Crash
  <2>3. db' = db
    BY <1>4 DEF Crash, Store!DropQueue
  <2>4. R \in SUBSET Request
    OBVIOUS
  <2> HIDE DEF R
  <2>5. Directory!Forget(R)
    BY <2>1, <2>2, <2>3 DEF Directory!Forget, Status
  <2>6. QED
    BY <2>4, <2>5
<1>5. CASE UNCHANGED vars
  BY <1>5 DEF vars, Directory!dirVars, InService
<1>6. ASSUME NEW r \in Request
      PROVE  /\ \A c \in Call : Directory!Submit(r, c) => Directory!Next
             /\ Directory!Refuse(r) => Directory!Next
             /\ Directory!LoginOk(r) => Directory!Next
             /\ Directory!Store(r) => Directory!Next
             /\ Directory!Fail(r) => Directory!Next
  BY <1>6 DEF Directory!Next
<1>7. ASSUME NEW R \in SUBSET Request, Directory!Forget(R)
      PROVE  Directory!Next
  BY <1>7 DEF Directory!Next
<1>8. QED
  BY <1>1, <1>2, <1>3, <1>4, <1>5, <1>6, <1>7 DEF Next, Request, Call

\* When requests are served one at a time, every one of them takes effect in one step, as
\* the directory of users promises, through failing commits and processes that end.
THEOREM RequestsServeTheDirectory ==
  ASSUME Serial
  PROVE  Spec => ServesDirectory
  BY SerialInvariant, DirectoryInit, DirectoryNext, PTL DEF Spec, ServesDirectory, Directory!Spec

\* When a write commits, the directory allows exactly this write.
LEMMA CommitAllowed ==
  ASSUME TInv, EveryWriteAwaited, SerialInv, NEW p \in Process, Commit(p)
  PROVE  LET w == Head(queue[p]) IN
         /\ w.by \in Request /\ w.key = call[w.by].login /\ w.key \in Login
         /\ db' = [db EXCEPT ![w.key] = w.value]
         /\ Allowed(w.by, w.value)
<1>1. queue[p] # << >> /\ queue[p] \in Seq(Store!Write)
  BY QueueTyped DEF Commit, Store!CommitHead
<1>2. 1 \in DOMAIN queue[p] /\ Head(queue[p]) = queue[p][1]
  BY <1>1, TailElements
<1>3. queue[p][1] \in Store!Write
  BY <1>2, QueueTyped
<1>4. QED
  BY <1>2, <1>3, QueueTyped, AwaitedParts
  DEF Awaited, SerialInv, QueueAllowed, Commit, Store!CommitHead, Store!Write

\* What the concurrent runs refute holds when requests come one at a time: a password
\* change is merged into the user as stored, and leaves the roles alone.
THEOREM SerialUpdatesMerge ==
  ASSUME Serial
  PROVE  Spec => UpdateMergesExisting
<1>1. ASSUME TInv, EveryWriteAwaited, SerialInv, NEW p \in Process, Commit(p),
             call[Head(queue[p]).by].op \in {"updatePassword", "resetAdminPassword"}
      PROVE  LET l == Head(queue[p]).key IN db[l] # Absent /\ db'[l].roles = db[l].roles
  <2> DEFINE w == Head(queue[p])
             c == call[w.by]
  <2>1. /\ w.key = c.login /\ w.key \in Login
        /\ db' = [db EXCEPT ![w.key] = w.value]
        /\ Allowed(w.by, w.value)
    BY <1>1, CommitAllowed
  <2>2. c.op \in {"updatePassword", "resetAdminPassword"}
    BY <1>1
  <2> HIDE DEF w
  <2>3. db[w.key] # Absent
    BY <2>1, <2>2 DEF Allowed, Directory!Authenticated, Directory!Known
  <2>4. w.value = [db[w.key] EXCEPT !.password = c.newPassword]
    BY <2>1, <2>2 DEF Allowed, Directory!Stored
  <2>5. db \in [Login -> UserData \cup {Absent}]
    BY <1>1 DEF TInv, TypeOK, Store!LmdbTypeOK
  <2>6. db[w.key] \in UserData
    BY <2>1, <2>3, <2>5
  <2>7. w.value.roles = db[w.key].roles
    BY <2>4, <2>6 DEF UserData
  <2>8. db'[w.key].roles = db[w.key].roles
    BY <2>1, <2>5, <2>7
  <2>9. QED
    BY <2>3, <2>8 DEF w
<1> DEFINE Merges ==
      \A p \in Process :
        Commit(p) /\ call[Head(queue[p]).by].op \in {"updatePassword", "resetAdminPassword"} =>
          LET l == Head(queue[p]).key IN db[l] # Absent /\ db'[l].roles = db[l].roles
<1>2. TInv /\ EveryWriteAwaited /\ SerialInv => [Merges]_vars
  BY <1>1
<1>3. QED
  BY <1>2, SerialInvariant, PTL DEF UpdateMergesExisting

\* And a creation replaces no other user.
THEOREM SerialCreatesAreNew ==
  ASSUME Serial
  PROVE  Spec => CreateNeverOverwrites
<1>1. ASSUME TInv, EveryWriteAwaited, SerialInv, NEW p \in Process, Commit(p),
             call[Head(queue[p]).by].op \in {"create", "createAdmin"}
      PROVE  db[Head(queue[p]).key] = Absent
  <2> DEFINE w == Head(queue[p])
  <2>1. w.key = call[w.by].login /\ Allowed(w.by, w.value)
    BY <1>1, CommitAllowed
  <2>2. call[w.by].op \in {"create", "createAdmin"}
    BY <1>1
  <2> HIDE DEF w
  <2>3. db[w.key] = Absent
    BY <2>1, <2>2 DEF Allowed, Directory!Known
  <2>4. QED
    BY <2>3 DEF w
<1> DEFINE New ==
      \A p \in Process :
        Commit(p) /\ call[Head(queue[p]).by].op \in {"create", "createAdmin"} =>
          db[Head(queue[p]).key] = Absent
<1>2. TInv /\ EveryWriteAwaited /\ SerialInv => [New]_vars
  BY <1>1
<1>3. QED
  BY <1>2, SerialInvariant, PTL DEF CreateNeverOverwrites
=============================================================================
