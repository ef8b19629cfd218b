--------------------------- MODULE SettingsProofs ---------------------------
(***************************************************************************)
(* What holds of Settings for any keys, fields, requests and commands.     *)
(***************************************************************************)
EXTENDS Settings, TLAPS

\* What a value of key k may be: the metadata have fields, other settings their default.
ValueOf(k) == IF k = Metadata THEN Fields ELSE {Default}

\* A queued write is of the type of its key and awaited by one request, that of a reset
\* for the key it has to reset next.
Awaited(p, i) ==
  LET w == queue[p][i] IN
  /\ w.value \in ValueOf(w.key)
  /\ pc[w.by] = "commit"
  /\ ProcessOf(w.by) = p
  /\ call[w.by].op = "reset" => todo[w.by] # << >>
  /\ \A j \in DOMAIN queue[p] : queue[p][j].by = w.by => j = i

QueueInv == \A p \in Process : \A i \in DOMAIN queue[p] : Awaited(p, i)

\* What is cached, and what requests in service are about.
ServedInv ==
  /\ \A p \in Process, k \in Key : cache[p][k] \in ValueOf(k) \cup {Absent}
  /\ \A r \in Request : InService(r) => call[r] \in Call
  /\ \A r \in Request : pc[r] = "start" => call[r].op # "reset"

TInv == TypeOK /\ ServedInv /\ QueueInv

LEMMA DefaultTyped == \A k \in Key : DefaultOf(k) \in ValueOf(k)
  BY DEF DefaultOf, ValueOf, Fields

\* A value of key k is a value, is not Absent, and is Default just when k is not Metadata.
LEMMA ValueTyped ==
  ASSUME NEW k \in Key, NEW v \in ValueOf(k)
  PROVE  v \in Value /\ v # Absent /\ (v = Default <=> k # Metadata)
  BY SettingsAssumption DEF ValueOf, Value

\* The converse, for a committed value.
LEMMA CommittedTyped ==
  ASSUME TypeOK, NEW k \in Key
  PROVE  db[k] \in ValueOf(k) \cup {Absent}
  BY DEF TypeOK, Store!LmdbTypeOK, ValueOf, Value

LEMMA ProcessTyped == \A r \in Request : ProcessOf(r) \in Process
  BY DEF ProcessOf, Process

LEMMA QueueTyped ==
  ASSUME TInv, NEW p \in Process, NEW i \in DOMAIN queue[p]
  PROVE  /\ Awaited(p, i) /\ i \in Nat
         /\ queue[p][i] \in Store!Write /\ queue[p][i].by \in Request
<1>1. queue[p] \in Seq(Store!Write)
  BY DEF TInv, TypeOK, Store!LmdbTypeOK
<1>2. queue[p][i] \in Store!Write /\ i \in Nat
  BY <1>1
<1>3. queue[p][i].by \in Request
  BY <1>2 DEF Store!Write
<1>4. Awaited(p, i)
  BY DEF TInv, QueueInv
<1> QED
  BY <1>2, <1>3, <1>4

\* A step of a request that awaits no commit, and that leaves the queues alone.
LEMMA QueueKept ==
  ASSUME TInv, NEW r \in Request, pc[r] # "commit", UNCHANGED queue,
         \A q \in Request \ {r} : pc'[q] = pc[q] /\ call'[q] = call[q] /\ todo'[q] = todo[q]
  PROVE  QueueInv'
<1> SUFFICES ASSUME NEW p \in Process, NEW i \in DOMAIN queue[p]
             PROVE  Awaited(p, i)'
  BY DEF QueueInv
<1>1. Awaited(p, i) /\ queue[p][i].by \in Request
  BY QueueTyped
<1>2. queue[p][i].by # r
  BY <1>1 DEF Awaited
<1> QED
  BY <1>1, <1>2 DEF Awaited

\* A request is answered without a write.
LEMMA ReplyTyped ==
  ASSUME TInv, NEW r \in Request, NEW a \in {"ok", "refused", "error"}, Reply(r, a),
         pc[r] # "commit"
  PROVE  TInv'
<1>1. QueueInv'
  BY QueueKept DEF Reply, Goto, TInv, TypeOK
<1> QED
  BY <1>1 DEF TInv, TypeOK, ServedInv, Reply, Goto, InService, Store!LmdbTypeOK, Store!Write

\* A value of key k is put.
LEMMA PutTyped ==
  ASSUME TInv, NEW r \in Request, NEW k \in Key, NEW v \in ValueOf(k),
         InService(r), pc[r] # "commit", call[r].op = "reset" => todo[r] # << >>, Put(r, k, v)
  PROVE  TInv'
<1> DEFINE w == [key |-> k, value |-> v, by |-> r]
           p == ProcessOf(r)
<1>1. v \in Value /\ v # Absent /\ p \in Process
  BY ValueTyped, ProcessTyped
<1>2. w \in Store!Write
  BY <1>1 DEF Store!Write
<1>3. queue' = [queue EXCEPT ![p] = Append(queue[p], w)]
  BY DEF Put, Store!Enqueue
<1>4. queue[p] \in Seq(Store!Write) /\ queue \in [Process -> Seq(Store!Write)]
  BY <1>1 DEF TInv, TypeOK, Store!LmdbTypeOK
<1>a. Append(queue[p], w) \in Seq(Store!Write)
  BY <1>2, <1>4
<1>5. queue' \in [Process -> Seq(Store!Write)]
  BY <1>a, <1>3, <1>4
<1>b. /\ \A i \in DOMAIN queue[p] : Append(queue[p], w)[i] = queue[p][i]
      /\ \A i \in DOMAIN Append(queue[p], w) : i \notin DOMAIN queue[p] => i = Len(queue[p]) + 1
      /\ Append(queue[p], w)[Len(queue[p]) + 1] = w
  BY <1>2, <1>4
<1>c. \A q \in Process : \A i \in DOMAIN queue[q] :
        Awaited(q, i) /\ queue[q][i].by \in Request /\ queue[q][i].by # r
  BY QueueTyped DEF Awaited
<1>6. QueueInv'
  <2> SUFFICES ASSUME NEW q \in Process, NEW i \in DOMAIN queue'[q]
               PROVE  Awaited(q, i)'
    BY DEF QueueInv
  <2>0. pc' = [pc EXCEPT ![r] = "commit"] /\ call' = call /\ todo' = todo
        /\ pc \in [Request -> {"idle", "start", "reset", "commit", "ok", "refused", "error"}]
    BY DEF Put, Goto, TInv, TypeOK
  <2>1. CASE q # p
    <3>1. queue'[q] = queue[q]
      BY <2>1, <1>3, <1>4
    <3> QED
      BY <2>0, <3>1, <1>c DEF Awaited
  <2>2. CASE q = p /\ i \in DOMAIN queue[p]
    <3>1. queue'[q] = Append(queue[p], w) /\ queue'[q][i] = queue[p][i]
      BY <2>2, <1>1, <1>3, <1>4, <1>b
    <3>2. \A j \in DOMAIN queue'[q] : queue'[q][j].by = queue[p][i].by => j = i
      <4> SUFFICES ASSUME NEW j \in DOMAIN queue'[q], queue'[q][j].by = queue[p][i].by
                   PROVE  j = i
        OBVIOUS
      <4>1. j \in DOMAIN queue[p]
        BY <2>2, <3>1, <1>b, <1>c, <1>1
      <4> QED
        BY <4>1, <2>2, <3>1, <1>b, <1>c, <1>1 DEF Awaited
    <3> QED
      BY <2>0, <2>2, <3>1, <3>2, <1>c, <1>1 DEF Awaited
  <2>3. CASE q = p /\ i \notin DOMAIN queue[p]
    <3>1. queue'[q] = Append(queue[p], w) /\ queue'[q][i] = w /\ i = Len(queue[p]) + 1
      BY <2>3, <1>1, <1>3, <1>4, <1>b
    <3>2. \A j \in DOMAIN queue'[q] : queue'[q][j].by = r => j = i
      BY <3>1, <1>1, <1>b, <1>c
    <3> QED
      BY <2>0, <2>3, <3>1, <3>2 DEF Awaited
  <2> QED
    BY <2>1, <2>2, <2>3
<1>7. /\ cache' \in [Process -> [Key -> Value \cup {Absent}]]
      /\ \A q \in Process, j \in Key : cache'[q][j] \in ValueOf(j) \cup {Absent}
  BY <1>1 DEF Put, TInv, TypeOK, ServedInv
<1>8. latest' \in Value \cup {Absent}
  BY <1>1 DEF Put, TInv, TypeOK
<1> QED
  BY <1>5, <1>6, <1>7, <1>8 DEF Put, Goto, TInv, TypeOK, ServedInv, InService, Store!LmdbTypeOK

LEMMA TypeInit == Init => TInv
  BY SettingsAssumption DEF Init, TInv, TypeOK, ServedInv, QueueInv, InService,
     Store!LmdbTypeOK, ValueOf, Value

\* Merging a received DTO into metadata gives metadata.
LEMMA MergedTyped ==
  ASSUME TInv, NEW c \in UpdateCall, Seen("api", Metadata) # Absent
  PROVE  Merged(Seen("api", Metadata), Received(c.given)) \in ValueOf(Metadata)
<1>1. Received(c.given) \in Fields
  BY DEF UpdateCall, Received, Fields
<1> QED
  BY <1>1 DEF Merged, ValueOf, Fields

LEMMA CallFields ==
  ASSUME NEW c \in Call
  PROVE  /\ c.op = "update" => c \in UpdateCall
         /\ c.op = "reset" => c \in ResetCall /\ c.keys \in Seq(Key)
<1>1. KeyOrder \in Seq(Key) /\ <<Auth>> \in Seq(Key)
  BY SettingsAssumption
<1>2. c \in ReadCall \/ c \in UpdateCall \/ c \in ResetCall
  BY DEF Call
<1> QED
  BY <1>1, <1>2 DEF ReadCall, UpdateCall, ResetCall

\* The oldest write of p leaves its queue, and its request stops waiting.
LEMMA TailTyped ==
  ASSUME TInv, NEW p \in Process, queue[p] # << >>,
         queue' = [queue EXCEPT ![p] = Tail(@)],
         \A q \in Request \ {Head(queue[p]).by} :
           pc'[q] = pc[q] /\ call'[q] = call[q] /\ todo'[q] = todo[q]
  PROVE  /\ Head(queue[p]) \in Store!Write
         /\ Head(queue[p]) = queue[p][1] /\ Awaited(p, 1)
         /\ queue' \in [Process -> Seq(Store!Write)]
         /\ QueueInv'
<1>1. queue[p] \in Seq(Store!Write) /\ queue \in [Process -> Seq(Store!Write)]
  BY DEF TInv, TypeOK, Store!LmdbTypeOK
<1>2. \A i \in DOMAIN Tail(queue[p]) :
        i \in Nat /\ i + 1 \in DOMAIN queue[p] /\ i + 1 # 1 /\ Tail(queue[p])[i] = queue[p][i + 1]
  BY <1>1
<1>3. 1 \in DOMAIN queue[p] /\ Head(queue[p]) = queue[p][1]
  BY <1>1
<1>4. \A q \in Process : \A i \in DOMAIN queue[q] : Awaited(q, i) /\ queue[q][i].by \in Request
  BY QueueTyped
<1>5. QueueInv'
  <2> SUFFICES ASSUME NEW q \in Process, NEW i \in DOMAIN queue'[q]
               PROVE  Awaited(q, i)'
    BY DEF QueueInv
  <2>1. CASE q # p
    <3>1. queue'[q] = queue[q]
      BY <2>1, <1>1
    <3>2. Awaited(q, i) /\ queue[q][i].by \in Request /\ Awaited(p, 1)
      BY <3>1, <1>3, <1>4
    <3>3. queue[q][i].by # queue[p][1].by
      BY <2>1, <3>2 DEF Awaited
    <3>4. LET b == queue[q][i].by IN
          pc'[b] = pc[b] /\ call'[b] = call[b] /\ todo'[b] = todo[b]
      BY <3>2, <3>3, <1>3
    <3> QED
      BY <3>1, <3>2, <3>4 DEF Awaited
  <2>2. CASE q = p
    <3>1. queue'[q] = Tail(queue[p]) /\ i \in DOMAIN Tail(queue[p])
      BY <2>2, <1>1
    <3>2. /\ i \in Nat /\ i + 1 \in DOMAIN queue[p] /\ i + 1 # 1
          /\ queue'[q][i] = queue[p][i + 1]
      BY <3>1, <1>2
    <3>3. Awaited(p, i + 1) /\ queue[p][i + 1].by \in Request /\ Awaited(p, 1)
      BY <3>2, <1>3, <1>4
    <3>4. queue[p][i + 1].by # queue[p][1].by
      BY <3>2, <3>3, <1>3 DEF Awaited
    <3>5. \A j \in DOMAIN queue'[q] : queue'[q][j].by = queue'[q][i].by => j = i
      <4> SUFFICES ASSUME NEW j \in DOMAIN queue'[q], queue'[q][j].by = queue'[q][i].by
                   PROVE  j = i
        OBVIOUS
      <4>1. j \in Nat /\ j + 1 \in DOMAIN queue[p] /\ queue'[q][j] = queue[p][j + 1]
        BY <3>1, <1>2
      <4>2. j + 1 = i + 1
        BY <4>1, <3>2, <3>3 DEF Awaited
      <4> QED
        BY <4>1, <4>2, <3>2
    <3>6. LET b == queue[p][i + 1].by IN
          pc'[b] = pc[b] /\ call'[b] = call[b] /\ todo'[b] = todo[b]
      BY <3>3, <3>4, <1>3
    <3> QED
      BY <2>2, <3>2, <3>3, <3>5, <3>6 DEF Awaited
  <2> QED
    BY <2>1, <2>2
<1>6. Tail(queue[p]) \in Seq(Store!Write)
  BY <1>1
<1> QED
  BY <1>1, <1>3, <1>4, <1>5, <1>6

LEMMA TypeStep == TInv /\ [Next]_vars => TInv'
<1> SUFFICES ASSUME TInv, [Next]_vars PROVE TInv'
  OBVIOUS
<1>1. ASSUME NEW r \in Request, NEW c \in Call, Submit(r, c) PROVE TInv'
  <2>1. c.op = "reset" => c.keys \in Seq(Key)
    BY CallFields
  <2>2. QueueInv'
    BY <1>1, QueueKept DEF Submit, Goto, InService, TInv, TypeOK
  <2> QED
    BY <1>1, <2>1, <2>2 DEF Submit, Goto, TInv, TypeOK, ServedInv, InService, Store!LmdbTypeOK
<1>2. ASSUME NEW r \in Request, Get(r) PROVE TInv'
  <2>1. CASE Seen("api", Metadata) = Absent
    BY <1>2, <2>1, ReplyTyped DEF Get
  <2>2. CASE Seen("api", Metadata) # Absent
    <3>1. "api" \in Process /\ Metadata \in Key
      BY SettingsAssumption DEF Process
    <3>2. Seen("api", Metadata) \in ValueOf(Metadata)
      BY <2>2, <3>1, CommittedTyped DEF Seen, TInv, ServedInv
    <3>3. Seen("api", Metadata) \in Value
      BY <3>1, <3>2, ValueTyped
    <3>4. /\ cache' = [cache EXCEPT !["api"][Metadata] = Seen("api", Metadata)]
          /\ UNCHANGED <<db, queue, call, todo, resets, latest>>
          /\ pc' = [pc EXCEPT ![r] = "ok"]
          /\ pc[r] = "start"
      BY <1>2, <2>2 DEF Get, Goto
    <3>5. QueueInv'
      BY <3>4, QueueKept DEF TInv, TypeOK
    <3> QED
      BY <3>1, <3>2, <3>3, <3>4, <3>5 DEF TInv, TypeOK, ServedInv, InService, Store!LmdbTypeOK
  <2> QED
    BY <2>1, <2>2
<1>3. ASSUME NEW r \in Request, Update(r) PROVE TInv'
  <2>1. CASE Seen("api", Metadata) = Absent
    BY <1>3, <2>1, ReplyTyped DEF Update
  <2>2. CASE Seen("api", Metadata) # Absent
    <3>1. InService(r) /\ call[r] \in UpdateCall
      BY <1>3, CallFields DEF Update, InService, TInv, ServedInv
    <3>2. Merged(Seen("api", Metadata), Received(call[r].given)) \in ValueOf(Metadata)
      BY <2>2, <3>1, MergedTyped
    <3> QED
      BY <1>3, <2>2, <3>1, <3>2, PutTyped, SettingsAssumption DEF Update
  <2> QED
    BY <2>1, <2>2
<1>4. ASSUME NEW r \in Request, Reset(r) PROVE TInv'
  <2>1. CASE todo[r] = << >> \/ (Store!Exists(Head(todo[r])) /\ ~call[r].force)
    BY <1>4, <2>1, ReplyTyped DEF Reset
  <2>2. CASE ~(todo[r] = << >> \/ (Store!Exists(Head(todo[r])) /\ ~call[r].force))
    <3>1. Head(todo[r]) \in Key /\ InService(r)
      BY <1>4, <2>2 DEF Reset, InService, TInv, TypeOK
    <3> QED
      BY <1>4, <2>2, <3>1, PutTyped, DefaultTyped DEF Reset
  <2> QED
    BY <2>1, <2>2
<1>5. ASSUME NEW p \in Process, Commit(p) PROVE TInv'
  <2> DEFINE w == Head(queue[p])
  <2>1. /\ queue[p] # << >>
        /\ db' = [db EXCEPT ![w.key] = w.value]
        /\ queue' = [queue EXCEPT ![p] = Tail(@)]
    BY <1>5 DEF Commit, Store!CommitHead
  <2>2. /\ pc' = [pc EXCEPT ![w.by] = IF call[w.by].op = "reset" THEN "reset" ELSE "ok"]
        /\ todo' = IF call[w.by].op = "reset" THEN [todo EXCEPT ![w.by] = Tail(@)] ELSE todo
        /\ UNCHANGED <<cache, call>>
        /\ latest' \in Value \cup {Absent}
        /\ resets' = [resets EXCEPT ![w.by] = IF w.value = DefaultOf(w.key) THEN @ \cup {w.key} ELSE @]
    BY <1>5 DEF Commit, Goto, TInv, TypeOK
  <2>3. \A q \in Request \ {w.by} : pc'[q] = pc[q] /\ call'[q] = call[q] /\ todo'[q] = todo[q]
    BY <2>2 DEF TInv, TypeOK
  <2>4. w \in Store!Write /\ w = queue[p][1] /\ Awaited(p, 1)
        /\ queue' \in [Process -> Seq(Store!Write)] /\ QueueInv'
    BY <2>1, <2>3, TailTyped
  <2>5. w.key \in Key /\ w.by \in Request
    BY <2>4 DEF Store!Write
  <2>6. w.value \in Value /\ w.value # Absent /\ (w.value = Default <=> w.key # Metadata)
    BY <2>4, <2>5, ValueTyped DEF Awaited
  <2>7. db' \in [Key -> Value \cup {Absent}]
        /\ \A k \in Key : db'[k] # Absent => (db'[k] = Default <=> k # Metadata)
    BY <2>1, <2>5, <2>6 DEF TInv, TypeOK, Store!LmdbTypeOK
  <2>8. InService(w.by) /\ (call[w.by].op = "reset" => todo[w.by] # << >>)
    BY <2>4 DEF Awaited, InService
  <2>9. todo' \in [Request -> Seq(Key)]
    <3>1. CASE call[w.by].op # "reset"
      BY <2>2, <3>1 DEF TInv, TypeOK
    <3>2. CASE call[w.by].op = "reset"
      <4>1. todo[w.by] \in Seq(Key) /\ todo[w.by] # << >>
        BY <2>5, <2>8, <3>2 DEF TInv, TypeOK
      <4>2. Tail(todo[w.by]) \in Seq(Key)
        BY <4>1
      <4> QED
        BY <2>2, <3>2, <4>2 DEF TInv, TypeOK
    <3> QED
      BY <3>1, <3>2
  <2>10. resets' \in [Request -> SUBSET Key]
    BY <2>2, <2>5 DEF TInv, TypeOK
  <2> QED
    BY <2>2, <2>4, <2>5, <2>7, <2>8, <2>9, <2>10
    DEF TInv, TypeOK, ServedInv, InService, Store!LmdbTypeOK
<1>6. ASSUME NEW p \in Process, CommitFails(p) PROVE TInv'
  <2> DEFINE w == Head(queue[p])
  <2>1. /\ queue[p] # << >> /\ queue' = [queue EXCEPT ![p] = Tail(@)]
        /\ pc' = [pc EXCEPT ![w.by] = "error"]
        /\ UNCHANGED <<db, cache, call, todo, resets>>
        /\ latest' \in Value \cup {Absent}
    BY <1>6 DEF CommitFails, Goto, Store!DropHead, TInv, TypeOK
  <2>2. \A q \in Request \ {w.by} : pc'[q] = pc[q] /\ call'[q] = call[q] /\ todo'[q] = todo[q]
    BY <2>1 DEF TInv, TypeOK
  <2>3. queue' \in [Process -> Seq(Store!Write)] /\ QueueInv'
    BY <2>1, <2>2, TailTyped
  <2> QED
    BY <2>1, <2>3 DEF TInv, TypeOK, ServedInv, InService, Store!LmdbTypeOK
<1>7. ASSUME NEW p \in Process, NEW k \in Key, Evict(p, k) PROVE TInv'
  <2>1. QueueInv'
    BY <1>7 DEF Evict, TInv, QueueInv, Awaited
  <2> QED
    BY <1>7, <2>1 DEF Evict, TInv, TypeOK, ServedInv, InService, Store!LmdbTypeOK
<1>8. ASSUME NEW p \in Process, Crash(p) PROVE TInv'
  <2>1. queue' = [queue EXCEPT ![p] = << >>] /\ queue \in [Process -> Seq(Store!Write)]
    BY <1>8 DEF Crash, Store!DropQueue, TInv, TypeOK, Store!LmdbTypeOK
  <2>2. QueueInv'
    <3> SUFFICES ASSUME NEW q \in Process, NEW i \in DOMAIN queue'[q] PROVE Awaited(q, i)'
      BY DEF QueueInv
    <3>1. q # p /\ queue'[q] = queue[q]
      BY <2>1
    <3>2. Awaited(q, i) /\ queue[q][i].by \in Request
      BY <3>1, QueueTyped
    <3> QED
      BY <1>8, <3>1, <3>2 DEF Crash, Awaited
  <2> QED
    BY <1>8, <2>1, <2>2 DEF Crash, Store!DropQueue, TInv, TypeOK, ServedInv, InService, Store!LmdbTypeOK
<1>9. CASE UNCHANGED vars
  <2>1. QueueInv'
    BY <1>9 DEF vars, TInv, QueueInv, Awaited
  <2> QED
    BY <1>9, <2>1 DEF vars, TInv, TypeOK, ServedInv, InService, Store!LmdbTypeOK
<1> QED
  BY <1>1, <1>2, <1>3, <1>4, <1>5, <1>6, <1>7, <1>8, <1>9 DEF Next, Serve, Request, Call

LEMMA TypeInvariant == Spec => []TInv
  BY TypeInit, TypeStep, PTL DEF Spec

\* Every variable keeps its type, and settings that are stored are what their key says:
\* fields for the metadata, the default for all others.
THEOREM SettingsTypes == Spec => []TypeOK
<1>1. TInv => TypeOK
  BY DEF TInv
<1> QED
  BY <1>1, TypeInvariant, PTL

-----------------------------------------------------------------------------
(* The server updates and commands reset.                                  *)

OpInv ==
  /\ \A r \in ApiRequest : InService(r) => call[r].op # "reset" /\ pc[r] # "reset"
  /\ \A r \in CliRequest : InService(r) => call[r].op = "reset"

\* What the server has read or has queued, it found: it only ever updates.
FoundInv ==
  /\ cache["api"][Metadata] # Absent => db[Metadata] # Absent
  /\ \A i \in DOMAIN queue["api"] : queue["api"][i].key = Metadata /\ db[Metadata] # Absent

KInv == OpInv /\ FoundInv

\* A command awaits every write of its process.
LEMMA CommandAwaits ==
  ASSUME TInv, NEW c \in CliRequest, queue[c] # << >>
  PROVE  pc[c] = "commit" /\ queue[c][1].by = c /\ Tail(queue[c]) = << >>
<1>1. c \in Process /\ c # "api"
  BY SettingsAssumption DEF Process
<1>2. queue[c] \in Seq(Store!Write)
  BY <1>1 DEF TInv, TypeOK, Store!LmdbTypeOK
<1>3. \A i \in DOMAIN queue[c] : Awaited(c, i) /\ queue[c][i].by = c
  BY <1>1, QueueTyped DEF Awaited, ProcessOf
<1>4. 1 \in DOMAIN queue[c]
  BY <1>2
<1>5. \A i \in DOMAIN queue[c] : i = 1
  BY <1>3, <1>4 DEF Awaited
<1>6. Len(queue[c]) = 1
  <2>1. Len(queue[c]) \in Nat /\ DOMAIN queue[c] = 1 .. Len(queue[c])
    BY <1>2
  <2>2. Len(queue[c]) \in DOMAIN queue[c]
    BY <2>1, <1>4
  <2> QED
    BY <2>2, <1>5
<1> QED
  BY <1>2, <1>3, <1>4, <1>6 DEF Awaited

LEMMA Slots ==
  /\ "api" \in Process /\ "api" \notin CliRequest /\ CliRequest \subseteq Process
  /\ Metadata \in Key /\ ApiRequest \cap CliRequest = {}
  /\ \A r \in ApiRequest : ProcessOf(r) = "api"
  /\ \A r \in CliRequest : ProcessOf(r) = r
  BY SettingsAssumption DEF Process, ProcessOf

LEMMA Typed ==
  ASSUME TInv
  PROVE  /\ db \in [Key -> Value \cup {Absent}] /\ queue \in [Process -> Seq(Store!Write)]
         /\ pc \in [Request -> {"idle", "start", "reset", "commit", "ok", "refused", "error"}]
         /\ call \in [Request -> Call \cup {NoCall}]
         /\ cache \in [Process -> [Key -> Value \cup {Absent}]]
         /\ todo \in [Request -> Seq(Key)]
         /\ resets \in [Request -> SUBSET Key]
  BY DEF TInv, TypeOK, Store!LmdbTypeOK

\* A put appends one write to the queue of its process.
LEMMA Pushed ==
  ASSUME TInv, NEW r \in Request, NEW k \in Key, NEW v \in ValueOf(k), Put(r, k, v)
  PROVE  LET p == ProcessOf(r)
             w == [key |-> k, value |-> v, by |-> r] IN
         /\ \A i \in DOMAIN queue'[p] :
              \/ i \in DOMAIN queue[p] /\ queue'[p][i] = queue[p][i]
              \/ queue'[p][i] = w
         /\ queue'[p] # << >> /\ queue'[p][Len(queue'[p])] = w
         /\ queue[p] = << >> => queue'[p][1] = w
         /\ \A q \in Process \ {p} : queue'[q] = queue[q]
         /\ cache'[p][k] = v
         /\ \A q \in Process \ {p} : cache'[q] = cache[q]
         /\ pc' = [pc EXCEPT ![r] = "commit"]
         /\ latest' = IF p = "api" THEN v ELSE latest
         /\ UNCHANGED <<db, call, todo, resets>>
<1> DEFINE w == [key |-> k, value |-> v, by |-> r]
           p == ProcessOf(r)
<1>1. p \in Process /\ w \in Store!Write
  BY ProcessTyped, ValueTyped DEF Store!Write
<1>2. /\ queue' = [queue EXCEPT ![p] = Append(queue[p], w)]
      /\ cache' = [cache EXCEPT ![p][k] = v]
  BY DEF Put, Store!Enqueue
<1>3. queue[p] \in Seq(Store!Write) /\ queue'[p] = Append(queue[p], w)
  BY <1>1, <1>2, Typed
<1>4. /\ \A i \in DOMAIN Append(queue[p], w) :
           \/ i \in DOMAIN queue[p] /\ Append(queue[p], w)[i] = queue[p][i]
           \/ Append(queue[p], w)[i] = w
      /\ Append(queue[p], w) # << >>
      /\ Append(queue[p], w)[Len(Append(queue[p], w))] = w
  BY <1>1, <1>3
<1>5. queue[p] = << >> => Append(queue[p], w)[1] = w
  BY <1>1
<1>6. /\ \A q \in Process \ {p} : queue'[q] = queue[q] /\ cache'[q] = cache[q]
      /\ cache'[p][k] = v
  BY <1>1, <1>2, Typed
<1> QED
  BY <1>3, <1>4, <1>5, <1>6 DEF Put, Goto

\* The oldest write leaves the queue of its process.
LEMMA Popped ==
  ASSUME TInv, NEW p \in Process, queue[p] # << >>, queue' = [queue EXCEPT ![p] = Tail(@)]
  PROVE  LET w == Head(queue[p]) IN
         /\ 1 \in DOMAIN queue[p] /\ w = queue[p][1] /\ Awaited(p, 1)
         /\ w \in Store!Write /\ w.key \in Key /\ w.by \in Request
         /\ w.value \in ValueOf(w.key) /\ w.value # Absent
         /\ queue'[p] = Tail(queue[p])
         /\ \A i \in DOMAIN queue'[p] :
              i + 1 \in DOMAIN queue[p] /\ queue'[p][i] = queue[p][i + 1]
         /\ \A q \in Process \ {p} : queue'[q] = queue[q]
<1>1. queue[p] \in Seq(Store!Write) /\ queue'[p] = Tail(queue[p])
  BY Typed
<1>2. 1 \in DOMAIN queue[p] /\ Head(queue[p]) = queue[p][1]
  BY <1>1
<1>3. \A i \in DOMAIN Tail(queue[p]) :
        i + 1 \in DOMAIN queue[p] /\ Tail(queue[p])[i] = queue[p][i + 1]
  BY <1>1
<1>4. Awaited(p, 1) /\ queue[p][1] \in Store!Write /\ queue[p][1].by \in Request
  BY <1>2, QueueTyped
<1>5. queue[p][1].key \in Key /\ queue[p][1].value \in ValueOf(queue[p][1].key)
  BY <1>4 DEF Awaited, Store!Write
<1>6. queue[p][1].value # Absent
  BY <1>5, ValueTyped
<1>7. \A q \in Process \ {p} : queue'[q] = queue[q]
  BY Typed
<1> QED
  BY <1>1, <1>2, <1>3, <1>4, <1>5, <1>6, <1>7

\* What a request does when it goes on.
Replies(r) ==
  /\ pc[r] # "commit"
  /\ \E a \in {"ok", "refused", "error"} :
       Reply(r, a) /\ (a = "ok" => todo[r] = << >>)

Loads(r) ==
  /\ r \in ApiRequest /\ pc[r] = "start" /\ Seen("api", Metadata) # Absent
  /\ cache' = [cache EXCEPT !["api"][Metadata] = Seen("api", Metadata)]
  /\ pc' = [pc EXCEPT ![r] = "ok"]
  /\ UNCHANGED <<db, queue, call, todo, resets, latest>>

PutsUpdate(r) ==
  /\ r \in ApiRequest /\ pc[r] = "start" /\ Seen("api", Metadata) # Absent
  /\ \E v \in ValueOf(Metadata) : Put(r, Metadata, v)

PutsDefault(r) ==
  LET k == Head(todo[r]) IN
  /\ r \in CliRequest /\ pc[r] = "reset" /\ todo[r] # << >> /\ k \in Key
  /\ call[r].force \/ db[k] = Absent
  /\ Put(r, k, DefaultOf(k))

LEMMA ServeSteps ==
  ASSUME TInv, OpInv, NEW r \in Request, Serve(r)
  PROVE  Replies(r) \/ Loads(r) \/ PutsUpdate(r) \/ PutsDefault(r)
<1>1. pc[r] = "start" => r \in ApiRequest
  BY Slots DEF OpInv, InService, Request, TInv, ServedInv
<1>2. pc[r] = "reset" => r \in CliRequest
  BY DEF OpInv, InService, Request
<1>3. CASE Get(r)
  <2>1. CASE Seen("api", Metadata) = Absent
    BY <1>3, <2>1 DEF Get, Replies
  <2>2. CASE Seen("api", Metadata) # Absent
    BY <1>1, <1>3, <2>2 DEF Get, Goto, Loads
  <2> QED
    BY <2>1, <2>2
<1>4. CASE Update(r)
  <2>1. CASE Seen("api", Metadata) = Absent
    BY <1>4, <2>1 DEF Update, Replies
  <2>2. CASE Seen("api", Metadata) # Absent
    <3>1. call[r] \in UpdateCall
      BY <1>4, CallFields DEF Update, InService, TInv, ServedInv
    <3>2. Merged(Seen("api", Metadata), Received(call[r].given)) \in ValueOf(Metadata)
      BY <2>2, <3>1, MergedTyped
    <3> QED
      BY <1>1, <1>4, <2>2, <3>2 DEF Update, PutsUpdate
  <2> QED
    BY <2>1, <2>2
<1>5. CASE Reset(r)
  <2>1. CASE todo[r] = << >> \/ (Store!Exists(Head(todo[r])) /\ ~call[r].force)
    BY <1>5, <2>1 DEF Reset, Replies
  <2>2. CASE ~(todo[r] = << >> \/ (Store!Exists(Head(todo[r])) /\ ~call[r].force))
    <3>1. todo[r] \in Seq(Key) /\ todo[r] # << >>
      BY <2>2, Typed
    <3>2. Head(todo[r]) \in Key
      BY <3>1
    <3> QED
      BY <1>2, <1>5, <2>2, <3>1, <3>2 DEF Reset, PutsDefault, Store!Exists
  <2> QED
    BY <2>1, <2>2
<1> QED
  BY <1>3, <1>4, <1>5 DEF Serve

LEMMA OpStep == TInv /\ OpInv /\ [Next]_vars => OpInv'
<1> SUFFICES ASSUME TInv, OpInv, [Next]_vars PROVE OpInv'
  OBVIOUS
<1> USE Typed, Slots DEF OpInv, InService, Request
<1>1. ASSUME NEW r \in ApiRequest, NEW c \in ReadCall \cup UpdateCall, Submit(r, c)
      PROVE  OpInv'
  BY <1>1 DEF Submit, Goto, ReadCall, UpdateCall
<1>2. ASSUME NEW r \in CliRequest, NEW c \in ResetCall, Submit(r, c) PROVE OpInv'
  BY <1>2 DEF Submit, Goto, ResetCall
<1>3. ASSUME NEW r \in Request, Serve(r) PROVE OpInv'
  <2>1. CASE Replies(r)
    BY <2>1 DEF Replies, Reply, Goto
  <2>2. CASE Loads(r)
    BY <2>2 DEF Loads
  <2>3. CASE PutsUpdate(r)
    BY <2>3 DEF PutsUpdate, Put, Goto
  <2>4. CASE PutsDefault(r)
    BY <2>4 DEF PutsDefault, Put, Goto
  <2> QED
    BY <1>3, <2>1, <2>2, <2>3, <2>4, ServeSteps
<1>4. ASSUME NEW p \in Process, Commit(p) PROVE OpInv'
  <2>1. /\ Head(queue[p]).by \in Request /\ pc[Head(queue[p]).by] = "commit"
        /\ pc' = [pc EXCEPT ![Head(queue[p]).by] =
                    IF call[Head(queue[p]).by].op = "reset" THEN "reset" ELSE "ok"]
        /\ call' = call
    BY <1>4, Popped DEF Commit, Store!CommitHead, Goto, Awaited
  <2> QED
    BY <2>1
<1>5. ASSUME NEW p \in Process, CommitFails(p) PROVE OpInv'
  BY <1>5 DEF CommitFails, Goto
<1>6. ASSUME NEW p \in Process, NEW k \in Key, Evict(p, k) PROVE OpInv'
  BY <1>6 DEF Evict
<1>7. ASSUME NEW p \in Process, Crash(p) PROVE OpInv'
  BY <1>7 DEF Crash
<1>8. CASE UNCHANGED vars
  BY <1>8 DEF vars
<1> QED
  BY <1>1, <1>2, <1>3, <1>4, <1>5, <1>6, <1>7, <1>8 DEF Next

LEMMA FoundStep == TInv /\ OpInv /\ FoundInv /\ [Next]_vars => FoundInv'
<1> SUFFICES ASSUME TInv, OpInv, FoundInv, [Next]_vars PROVE FoundInv'
  OBVIOUS
<1>1. ASSUME NEW r \in Request, NEW c \in Call, Submit(r, c) PROVE FoundInv'
  BY <1>1 DEF Submit, FoundInv
<1>2. ASSUME NEW r \in Request, Serve(r) PROVE FoundInv'
  <2>1. CASE Replies(r)
    BY <2>1 DEF Replies, Reply, FoundInv
  <2>2. CASE Loads(r)
    BY <2>2 DEF Loads, Seen, FoundInv
  <2>3. CASE PutsUpdate(r)
    <3>1. PICK v \in ValueOf(Metadata) : Put(r, Metadata, v)
      BY <2>3 DEF PutsUpdate
    <3>2. ProcessOf(r) = "api" /\ db[Metadata] # Absent
      BY <2>3, Slots DEF PutsUpdate, Seen, FoundInv
    <3> DEFINE w == [key |-> Metadata, value |-> v, by |-> r]
    <3>3. /\ \A i \in DOMAIN queue'["api"] :
               \/ i \in DOMAIN queue["api"] /\ queue'["api"][i] = queue["api"][i]
               \/ queue'["api"][i] = w
          /\ db' = db
      BY <3>1, <3>2, Pushed, Slots
    <3>4. w.key = Metadata
      OBVIOUS
    <3> HIDE DEF w
    <3> QED
      BY <3>2, <3>3, <3>4 DEF FoundInv
  <2>4. CASE PutsDefault(r)
    <3>1. ProcessOf(r) \in Process /\ ProcessOf(r) # "api"
      BY <2>4, Slots DEF PutsDefault
    <3>2. queue'["api"] = queue["api"] /\ cache'["api"] = cache["api"] /\ db' = db
      BY <2>4, <3>1, Slots, Pushed, DefaultTyped DEF PutsDefault
    <3> QED
      BY <3>2 DEF FoundInv
  <2> QED
    BY <1>2, <2>1, <2>2, <2>3, <2>4, ServeSteps
<1>3. ASSUME NEW p \in Process, queue[p] # << >>, queue' = [queue EXCEPT ![p] = Tail(@)],
             db[Metadata] # Absent => db'[Metadata] # Absent, cache' = cache
      PROVE  FoundInv'
  <2>1. \A i \in DOMAIN queue'["api"] : \E j \in DOMAIN queue["api"] :
          queue'["api"][i] = queue["api"][j]
    <3>1. CASE p = "api"
      BY <1>3, <3>1, Popped
    <3>2. CASE p # "api"
      BY <1>3, <3>2, Popped, Slots
    <3> QED
      BY <3>1, <3>2
  <2> QED
    BY <1>3, <2>1 DEF FoundInv
<1>4. ASSUME NEW p \in Process, Commit(p) PROVE FoundInv'
  <2>1. /\ queue[p] # << >> /\ queue' = [queue EXCEPT ![p] = Tail(@)] /\ cache' = cache
        /\ db' = [db EXCEPT ![Head(queue[p]).key] = Head(queue[p]).value]
    BY <1>4 DEF Commit, Store!CommitHead
  <2>2. db[Metadata] # Absent => db'[Metadata] # Absent
    BY <2>1, Popped, Typed, Slots
  <2> QED
    BY <1>3, <2>1, <2>2
<1>5. ASSUME NEW p \in Process, CommitFails(p) PROVE FoundInv'
  BY <1>3, <1>5 DEF CommitFails, Store!DropHead
<1>6. ASSUME NEW p \in Process, NEW k \in Key, Evict(p, k) PROVE FoundInv'
  <2>1. cache'["api"][Metadata] \in {cache["api"][Metadata], Absent}
    BY <1>6, Slots, Typed DEF Evict
  <2> QED
    BY <1>6, <2>1 DEF Evict, FoundInv
<1>7. ASSUME NEW p \in Process, Crash(p) PROVE FoundInv'
  <2>1. /\ queue' = [queue EXCEPT ![p] = << >>] /\ db' = db
        /\ cache' = [cache EXCEPT ![p] = [k \in Key |-> Absent]]
    BY <1>7 DEF Crash, Store!DropQueue
  <2>2. CASE p = "api"
    BY <2>1, <2>2, Slots, Typed DEF FoundInv
  <2>3. CASE p # "api"
    BY <2>1, <2>3, Slots, Typed DEF FoundInv
  <2> QED
    BY <2>2, <2>3
<1>8. CASE UNCHANGED vars
  BY <1>8 DEF vars, FoundInv
<1> QED
  BY <1>1, <1>2, <1>4, <1>5, <1>6, <1>7, <1>8 DEF Next, Request, Call

LEMMA KInvariant == Spec => [](TInv /\ KInv)
<1>1. Init => KInv
  BY Slots DEF Init, KInv, OpInv, FoundInv, InService, Request
<1>2. TInv /\ KInv /\ [Next]_vars => KInv'
  BY OpStep, FoundStep DEF KInv
<1> QED
  BY <1>1, <1>2, TypeInvariant, PTL DEF Spec

-----------------------------------------------------------------------------
(* The server reads its own writes.  While latest is known, it is what was *)
(* queued last, or what is committed if nothing is queued; the cache has   *)
(* it, and may forget it only when it is committed.                        *)

LatestInv ==
  latest # Absent =>
    IF queue["api"] = << >>
    THEN db[Metadata] = latest /\ cache["api"][Metadata] \in {latest, Absent}
    ELSE /\ cache["api"][Metadata] = latest
         /\ queue["api"][Len(queue["api"])].value = latest

LEMMA LatestStep == TInv /\ KInv /\ LatestInv /\ [Next]_vars => LatestInv'
<1> SUFFICES ASSUME TInv, KInv, LatestInv, [Next]_vars PROVE LatestInv'
  OBVIOUS
<1>1. ASSUME NEW r \in Request, NEW c \in Call, Submit(r, c) PROVE LatestInv'
  BY <1>1 DEF Submit, LatestInv
<1>2. ASSUME NEW r \in Request, Serve(r) PROVE LatestInv'
  <2>1. CASE Replies(r)
    BY <2>1 DEF Replies, Reply, LatestInv
  <2>2. CASE Loads(r)
    BY <2>2, Slots, Typed DEF Loads, Seen, LatestInv
  <2>3. CASE PutsUpdate(r)
    <3>1. PICK v \in ValueOf(Metadata) : Put(r, Metadata, v)
      BY <2>3 DEF PutsUpdate
    <3>2. ProcessOf(r) = "api"
      BY <2>3, Slots DEF PutsUpdate
    <3> DEFINE w == [key |-> Metadata, value |-> v, by |-> r]
    <3>3. /\ queue'["api"] # << >> /\ queue'["api"][Len(queue'["api"])] = w
          /\ cache'["api"][Metadata] = v /\ latest' = v
      BY <3>1, <3>2, Pushed, Slots
    <3>4. w.value = v
      OBVIOUS
    <3> HIDE DEF w
    <3> QED
      BY <3>3, <3>4 DEF LatestInv
  <2>4. CASE PutsDefault(r)
    <3>1. ProcessOf(r) \in Process /\ ProcessOf(r) # "api"
      BY <2>4, Slots DEF PutsDefault
    <3>2. /\ queue'["api"] = queue["api"] /\ cache'["api"] = cache["api"]
          /\ db' = db /\ latest' = latest
      BY <2>4, <3>1, Slots, Pushed, DefaultTyped DEF PutsDefault
    <3> QED
      BY <3>2 DEF LatestInv
  <2> QED
    BY <1>2, <2>1, <2>2, <2>3, <2>4, ServeSteps DEF KInv
<1>3. ASSUME NEW p \in Process, Commit(p) PROVE LatestInv'
  <2> DEFINE w == Head(queue[p])
  <2>1. /\ queue[p] # << >> /\ queue' = [queue EXCEPT ![p] = Tail(@)] /\ cache' = cache
        /\ db' = [db EXCEPT ![w.key] = w.value]
        /\ latest' = IF p # "api" /\ w.key = Metadata THEN Absent ELSE latest
    BY <1>3 DEF Commit, Store!CommitHead
  <2>2. CASE p = "api"
    <3>1. w.key = Metadata /\ db'[Metadata] = w.value /\ queue'["api"] = Tail(queue["api"])
      BY <2>1, <2>2, Popped, Typed, Slots DEF KInv, FoundInv
    <3>2. queue["api"] \in Seq(Store!Write)
      BY Typed, Slots
    <3>3. CASE Tail(queue["api"]) = << >>
      <4>1. Len(queue["api"]) \in Nat \ {0} /\ Len(Tail(queue["api"])) = Len(queue["api"]) - 1
        BY <2>1, <2>2, <3>2
      <4>2. Len(Tail(queue["api"])) = 0
        <5>1. Len(<< >>) = 0
          OBVIOUS
        <5> QED
          BY <3>3, <5>1, Zenon
      <4>3. Len(queue["api"]) = 1
        BY <4>1, <4>2
      <4>4. w = queue["api"][Len(queue["api"])]
        BY <2>1, <2>2, <3>2, <4>3
      <4> QED
        BY <2>1, <2>2, <3>1, <3>3, <4>4 DEF LatestInv
    <3>4. CASE Tail(queue["api"]) # << >>
      <4>1. Tail(queue["api"])[Len(Tail(queue["api"]))] = queue["api"][Len(queue["api"])]
        BY <2>1, <2>2, <3>2, <3>4
      <4> QED
        BY <2>1, <2>2, <3>1, <3>4, <4>1 DEF LatestInv
    <3> QED
      BY <3>3, <3>4
  <2>3. CASE p # "api"
    <3>1. queue'["api"] = queue["api"]
      BY <2>1, <2>3, Popped, Slots
    <3>2. latest' # Absent => db'[Metadata] = db[Metadata]
      BY <2>1, <2>3, Popped, Typed, Slots
    <3> QED
      BY <2>1, <3>1, <3>2 DEF LatestInv
  <2> QED
    BY <2>2, <2>3
<1>4. ASSUME NEW p \in Process, CommitFails(p) PROVE LatestInv'
  <2>1. /\ queue[p] # << >> /\ queue' = [queue EXCEPT ![p] = Tail(@)]
        /\ cache' = cache /\ db' = db /\ latest' = IF p = "api" THEN Absent ELSE latest
    BY <1>4 DEF CommitFails, Store!DropHead
  <2>2. p # "api" => queue'["api"] = queue["api"]
    BY <2>1, Popped, Slots
  <2> QED
    BY <2>1, <2>2 DEF LatestInv
<1>5. ASSUME NEW p \in Process, NEW k \in Key, Evict(p, k) PROVE LatestInv'
  <2>1. cache'["api"][Metadata] \in {cache["api"][Metadata], Absent}
    BY <1>5, Slots, Typed DEF Evict
  <2>2. queue["api"] # << >> => cache'["api"][Metadata] = cache["api"][Metadata]
    <3>1. queue["api"] # << >> => 1 \in DOMAIN queue["api"]
      BY Typed, Slots
    <3>2. queue["api"] # << >> => ~(p = "api" /\ k = Metadata)
      BY <1>5, <3>1 DEF Evict, KInv, FoundInv
    <3> QED
      BY <1>5, <3>2, Slots, Typed DEF Evict
  <2> QED
    BY <1>5, <2>1, <2>2 DEF Evict, LatestInv
<1>6. ASSUME NEW p \in Process, Crash(p) PROVE LatestInv'
  <2>1. /\ queue' = [queue EXCEPT ![p] = << >>] /\ db' = db
        /\ cache' = [cache EXCEPT ![p] = [k \in Key |-> Absent]]
        /\ latest' = IF p = "api" THEN Absent ELSE latest
    BY <1>6 DEF Crash, Store!DropQueue
  <2>2. p # "api" => queue'["api"] = queue["api"] /\ cache'["api"] = cache["api"]
    BY <2>1, Slots, Typed
  <2> QED
    BY <2>1, <2>2 DEF LatestInv
<1>7. CASE UNCHANGED vars
  BY <1>7 DEF vars, LatestInv
<1> QED
  BY <1>1, <1>2, <1>3, <1>4, <1>5, <1>6, <1>7 DEF Next, Request, Call

\* Until a command resets the metadata or a commit fails, the server reads what it has
\* put last, whatever is committed, evicted or queued by then.
THEOREM ServerReadsItsOwnWrites == Spec => []ServerReadsItsWrites
<1>1. Init => LatestInv
  BY DEF Init, LatestInv
<1>2. LatestInv => ServerReadsItsWrites
  BY DEF LatestInv, ServerReadsItsWrites, Seen
<1> QED
  BY <1>1, <1>2, KInvariant, LatestStep, PTL DEF Spec

-----------------------------------------------------------------------------
(* An unforced reset changes nothing that is there.  It needs commands to  *)
(* run one at a time: two resets that both find a key absent would have    *)
(* the second commit over the first.                                       *)

OneCommand == \A c, d \in CliRequest : c = d

\* Between its check and its commit, the key of an unforced reset stays absent.
CheckedInv ==
  \A c \in CliRequest :
    queue[c] # << >> /\ ~call[c].force => db[queue[c][1].key] = Absent

\* An update of the server leaves the commands alone.
LEMMA UpdateOfServer ==
  ASSUME TInv, NEW r \in Request, PutsUpdate(r)
  PROVE  /\ \A c \in CliRequest : queue'[c] = queue[c] /\ pc'[c] = pc[c]
         /\ UNCHANGED <<db, call, todo, resets>>
<1>1. PICK v \in ValueOf(Metadata) : Put(r, Metadata, v)
  BY DEF PutsUpdate
<1>2. ProcessOf(r) = "api" /\ r \in ApiRequest
  BY Slots DEF PutsUpdate
<1>3. /\ \A q \in Process \ {"api"} : queue'[q] = queue[q]
      /\ pc' = [pc EXCEPT ![r] = "commit"]
      /\ UNCHANGED <<db, call, todo, resets>>
  BY <1>1, <1>2, Pushed, Slots
<1>4. \A c \in CliRequest : c \in Process \ {"api"} /\ c \in Request /\ c # r
  BY <1>2, Slots DEF Request
<1>5. \A c \in CliRequest : pc'[c] = pc[c]
  BY <1>3, <1>4, Typed
<1> QED
  BY <1>3, <1>4, <1>5

LEMMA CheckedStep ==
  ASSUME OneCommand
  PROVE  TInv /\ KInv /\ CheckedInv /\ [Next]_vars => CheckedInv'
<1> SUFFICES ASSUME TInv, KInv, CheckedInv, [Next]_vars PROVE CheckedInv'
  OBVIOUS
\* A request moves on without a write; a command does so while it has none queued.
<1>1. ASSUME NEW r \in Request, pc[r] # "commit", UNCHANGED <<db, queue>>,
             \A q \in Request \ {r} : call'[q] = call[q]
      PROVE  CheckedInv'
  <2> SUFFICES ASSUME NEW c \in CliRequest, queue[c] # << >>, ~call'[c].force
               PROVE  db[queue[c][1].key] = Absent
    BY <1>1 DEF CheckedInv
  <2>1. c # r
    BY <1>1, CommandAwaits
  <2>2. call'[c] = call[c]
    BY <1>1, <2>1 DEF Request
  <2> QED
    BY <2>2 DEF CheckedInv
<1>2. ASSUME NEW r \in Request, NEW c \in Call, Submit(r, c) PROVE CheckedInv'
  BY <1>1, <1>2, Typed DEF Submit, InService
<1>3. ASSUME NEW r \in Request, Serve(r) PROVE CheckedInv'
  <2>1. CASE Replies(r)
    BY <1>1, <2>1 DEF Replies, Reply
  <2>2. CASE Loads(r)
    BY <1>1, <2>2 DEF Loads
  <2>3. CASE PutsUpdate(r)
    BY <2>3, UpdateOfServer DEF CheckedInv
  <2>4. CASE PutsDefault(r)
    <3>1. r \in CliRequest /\ ProcessOf(r) = r /\ queue[r] = << >>
      BY <2>4, Slots, CommandAwaits DEF PutsDefault
    <3>2. /\ queue'[r][1] = [key |-> Head(todo[r]), value |-> DefaultOf(Head(todo[r])), by |-> r]
          /\ UNCHANGED <<db, call>>
      BY <2>4, <3>1, Pushed, DefaultTyped DEF PutsDefault
    <3> QED
      BY <2>4, <3>1, <3>2 DEF PutsDefault, OneCommand, CheckedInv
  <2> QED
    BY <1>3, <2>1, <2>2, <2>3, <2>4, ServeSteps DEF KInv
\* A command has one write queued at most, so that a pop empties its queue.
<1>4. ASSUME NEW p \in Process, queue[p] # << >>, queue' = [queue EXCEPT ![p] = Tail(@)],
             NEW c \in CliRequest
      PROVE  queue'[c] = IF c = p THEN << >> ELSE queue[c]
  <2>1. c \in Process
    BY Slots
  <2>2. CASE c = p
    <3>1. queue[c] # << >> /\ queue'[c] = Tail(queue[c])
      BY <1>4, <2>2, Popped
    <3> QED
      BY <2>2, <3>1, CommandAwaits
  <2>3. CASE c # p
    BY <1>4, <2>1, <2>3, Popped
  <2> QED
    BY <2>2, <2>3
<1>5. ASSUME NEW p \in Process, Commit(p) PROVE CheckedInv'
  <2> DEFINE w == Head(queue[p])
  <2>1. /\ queue[p] # << >> /\ queue' = [queue EXCEPT ![p] = Tail(@)] /\ call' = call
        /\ db' = [db EXCEPT ![w.key] = w.value]
    BY <1>5 DEF Commit, Store!CommitHead
  <2>2. CASE p = "api"
    <3>1. w.key = Metadata /\ db[Metadata] # Absent
      BY <2>1, <2>2, Popped DEF KInv, FoundInv
    <3> SUFFICES ASSUME NEW c \in CliRequest, queue[c] # << >>, ~call[c].force
                 PROVE  db'[queue[c][1].key] = Absent
      BY <1>4, <2>1, <2>2, Slots DEF CheckedInv
    <3>2. queue[c] \in Seq(Store!Write) /\ 1 \in DOMAIN queue[c]
      <4>1. queue[c] \in Seq(Store!Write)
        BY Slots, Typed
      <4> QED
        BY <4>1
    <3>3. queue[c][1].key \in Key /\ db[queue[c][1].key] = Absent
      BY <3>2, Slots, QueueTyped DEF Store!Write, CheckedInv
    <3> QED
      BY <2>1, <3>1, <3>3, Typed
  <2>3. CASE p \in CliRequest
    BY <1>4, <2>1, <2>3 DEF OneCommand, CheckedInv
  <2> QED
    BY <2>2, <2>3 DEF Process
<1>6. ASSUME NEW p \in Process, CommitFails(p) PROVE CheckedInv'
  <2>1. /\ queue[p] # << >> /\ queue' = [queue EXCEPT ![p] = Tail(@)]
        /\ UNCHANGED <<db, call>>
    BY <1>6 DEF CommitFails, Store!DropHead
  <2>2. \A c \in CliRequest : queue'[c] \in {<< >>, queue[c]}
    BY <1>4, <2>1
  <2> QED
    BY <2>1, <2>2 DEF CheckedInv
<1>7. ASSUME NEW p \in Process, NEW k \in Key, Evict(p, k) PROVE CheckedInv'
  BY <1>7 DEF Evict, CheckedInv
<1>8. ASSUME NEW p \in Process, Crash(p) PROVE CheckedInv'
  <2>1. /\ queue' = [queue EXCEPT ![p] = << >>] /\ db' = db
        /\ call' = [r \in Request |-> IF ProcessOf(r) = p THEN NoCall ELSE call[r]]
    BY <1>8 DEF Crash, Store!DropQueue
  <2>2. ASSUME NEW c \in CliRequest
        PROVE  /\ c = p => queue'[c] = << >>
               /\ c # p => queue'[c] = queue[c] /\ call'[c] = call[c]
    BY <2>1, <2>2, Slots, Typed DEF Request
  <2> QED
    BY <2>1, <2>2 DEF CheckedInv
<1>9. CASE UNCHANGED vars
  BY <1>9 DEF vars, CheckedInv
<1> QED
  BY <1>2, <1>3, <1>5, <1>6, <1>7, <1>8, <1>9 DEF Next, Request, Call

\* Without --force no reset changes settings that are there, if commands run one at a time.
THEOREM UnforcedResets ==
  ASSUME OneCommand
  PROVE  Spec => UnforcedKeeps
<1>1. Init => CheckedInv
  BY Slots DEF Init, CheckedInv
<1>2. TInv /\ CheckedInv /\ [Next]_vars =>
        [\A p \in CliRequest :
           Commit(p) /\ ~call[p].force => db[Head(queue[p]).key] = Absent]_vars
  <2> SUFFICES ASSUME TInv, CheckedInv, NEW p \in CliRequest, Commit(p), ~call[p].force
               PROVE  db[Head(queue[p]).key] = Absent
    OBVIOUS
  <2>1. queue[p] # << >> /\ p \in Process
    BY DEF Commit, Store!CommitHead, Process
  <2>2. Head(queue[p]) = queue[p][1]
    BY <2>1 DEF TInv, TypeOK, Store!LmdbTypeOK
  <2> QED
    BY <2>1, <2>2 DEF CheckedInv
<1> QED
  BY <1>1, <1>2, KInvariant, CheckedStep, PTL DEF Spec, UnforcedKeeps

-----------------------------------------------------------------------------
(* A reset that is answered is complete.  What a reset has still to do is  *)
(* the end of its keys, it has committed the defaults of the keys before,  *)
(* and nothing that is stored is ever removed.                             *)

Done(r) == Len(call[r].keys) - Len(todo[r])

Progress(r) ==
  /\ call[r] \in ResetCall
  /\ Done(r) \in Nat
  /\ \A i \in 1 .. Done(r) : call[r].keys[i] \in resets[r] /\ db[call[r].keys[i]] # Absent
  /\ \A i \in DOMAIN todo[r] : todo[r][i] = call[r].keys[Done(r) + i]
  /\ pc[r] = "ok" => todo[r] = << >>
  /\ \A i \in DOMAIN queue[r] :
       queue[r][i].key = Head(todo[r]) /\ queue[r][i].value = DefaultOf(Head(todo[r]))

ProgressInv == \A r \in CliRequest : pc[r] \in {"reset", "commit", "ok"} => Progress(r)

\* Settings that are stored stay.
LEMMA StoredStays ==
  ASSUME TInv, NEW p \in Process, Commit(p)
  PROVE  \A k \in Key : db[k] # Absent => db'[k] # Absent
  BY Popped, Typed DEF Commit, Store!CommitHead

\* The keys of a reset.
LEMMA KeysTyped ==
  ASSUME NEW c \in ResetCall
  PROVE  c.op = "reset" /\ c.keys \in Seq(Key)
<1>1. KeyOrder \in Seq(Key) /\ <<Auth>> \in Seq(Key)
  BY SettingsAssumption
<1> QED
  BY <1>1 DEF ResetCall

\* A command whose own state is as before goes on as before.
LEMMA ProgressKept ==
  ASSUME TInv, NEW r \in CliRequest, Progress(r), call'[r] = call[r], todo'[r] = todo[r],
         \A k \in Key : db[k] # Absent => db'[k] # Absent,
         pc'[r] = "ok" => todo[r] = << >>,
         resets'[r] = resets[r],
         \A i \in DOMAIN queue'[r] :
           queue'[r][i].key = Head(todo[r]) /\ queue'[r][i].value = DefaultOf(Head(todo[r]))
  PROVE  Progress(r)'
<1>1. call[r].keys \in Seq(Key) /\ todo[r] \in Seq(Key)
  BY KeysTyped, Typed DEF Progress, Request
<1>2. \A i \in 1 .. Done(r) : i \in DOMAIN call[r].keys
  <2>1. Done(r) \in Nat /\ Len(todo[r]) \in Nat /\ Len(call[r].keys) \in Nat
    BY <1>1 DEF Progress
  <2>2. Done(r) <= Len(call[r].keys)
    <3>1. \A k, l \in Nat : k - l <= k
      OBVIOUS
    <3> QED
      BY <2>1, <3>1, Zenon DEF Done
  <2> QED
    BY <1>1, <2>1, <2>2
<1>3. \A i \in 1 .. Done(r) : call[r].keys[i] \in Key
  BY <1>1, <1>2
<1>4. Done(r)' = Done(r)
  BY DEF Done
<1> QED
  BY <1>3, <1>4 DEF Progress

LEMMA ProgressStep == TInv /\ KInv /\ ProgressInv /\ [Next]_vars => ProgressInv'
<1> SUFFICES ASSUME TInv, KInv, ProgressInv, [Next]_vars, NEW r \in CliRequest,
                    pc'[r] \in {"reset", "commit", "ok"}
             PROVE  Progress(r)'
  BY DEF ProgressInv
<1>0. r \in Request /\ r \in Process /\ ProcessOf(r) = r
  BY Slots DEF Request
\* A step that leaves the command alone.
<1>1. ASSUME UNCHANGED <<pc[r], call[r], todo[r], resets[r], queue[r]>>,
             \A k \in Key : db[k] # Absent => db'[k] # Absent
      PROVE  Progress(r)'
  <2>1. Progress(r)
    BY <1>1 DEF ProgressInv
  <2> QED
    BY <1>1, <2>1, ProgressKept DEF Progress
<1>2. ASSUME NEW s \in Request, NEW c \in Call, Submit(s, c),
             s = r => c \in ResetCall /\ pc[r] = "idle"
      PROVE  Progress(r)'
  <2>1. CASE s # r
    BY <1>0, <1>1, <1>2, <2>1, Typed DEF Submit, Goto
  <2>2. CASE s = r
    <3>1. call'[r] = c /\ c \in ResetCall /\ c.keys \in Seq(Key) /\ todo'[r] = c.keys
          /\ pc'[r] = "reset" /\ queue' = queue
      BY <1>0, <1>2, <2>2, KeysTyped, Typed DEF Submit, Goto
    <3>2. queue[r] = << >>
      BY <1>2, <2>2, CommandAwaits
    <3>3. Done(r)' = 0
      BY <3>1 DEF Done
    <3> QED
      BY <3>1, <3>2, <3>3 DEF Progress
  <2> QED
    BY <2>1, <2>2
<1>3. ASSUME NEW s \in Request, Serve(s) PROVE Progress(r)'
  <2>1. CASE Replies(s)
    <3>1. PICK a \in {"ok", "refused", "error"} : Reply(s, a) /\ (a = "ok" => todo[s] = << >>)
      BY <2>1 DEF Replies
    <3>2. CASE s # r
      BY <1>0, <1>1, <3>1, <3>2, Typed DEF Reply, Goto
    <3>3. CASE s = r
      <4>1. pc'[r] = a /\ UNCHANGED <<db, queue, call, todo, resets>>
        BY <1>0, <3>1, <3>3, Typed DEF Reply, Goto
      <4>2. pc[r] = "reset"
        BY <1>0, <1>3, <2>1, <3>3, Slots
        DEF KInv, OpInv, InService, Replies, Serve, Get, Update, Reset, TInv, ServedInv
      <4>3. Progress(r)
        BY <4>2 DEF ProgressInv
      <4> QED
        BY <3>1, <3>3, <4>1, <4>3, ProgressKept DEF Progress
    <3> QED
      BY <3>2, <3>3
  <2>2. CASE Loads(s)
    BY <1>0, <1>1, <2>2, Slots, Typed DEF Loads
  <2>3. CASE PutsUpdate(s)
    BY <1>1, <2>3, UpdateOfServer
  <2>4. CASE PutsDefault(s)
    <3> DEFINE w == [key |-> Head(todo[s]), value |-> DefaultOf(Head(todo[s])), by |-> s]
    <3>1. s \in CliRequest /\ ProcessOf(s) = s /\ s \in Process
      BY <2>4, Slots DEF PutsDefault
    <3>2. /\ \A i \in DOMAIN queue'[s] :
               (i \in DOMAIN queue[s] /\ queue'[s][i] = queue[s][i]) \/ queue'[s][i] = w
          /\ \A q \in Process \ {s} : queue'[q] = queue[q]
          /\ pc' = [pc EXCEPT ![s] = "commit"] /\ UNCHANGED <<db, call, todo, resets>>
      BY <2>4, <3>1, Pushed, DefaultTyped DEF PutsDefault
    <3>3. CASE s # r
      BY <1>0, <1>1, <3>2, <3>3, Typed
    <3>4. CASE s = r
      <4>1. pc[r] = "reset"
        BY <2>4, <3>4 DEF PutsDefault
      <4>2. Progress(r)
        BY <4>1 DEF ProgressInv
      <4>3. w.key = Head(todo[r]) /\ w.value = DefaultOf(Head(todo[r]))
        BY <3>4
      <4> HIDE DEF w
      <4>4. \A i \in DOMAIN queue'[r] :
              queue'[r][i].key = Head(todo[r]) /\ queue'[r][i].value = DefaultOf(Head(todo[r]))
        BY <3>2, <3>4, <4>2, <4>3 DEF Progress
      <4>5. pc'[r] = "commit"
        BY <1>0, <3>2, <3>4, Typed
      <4> QED
        BY <3>2, <4>2, <4>4, <4>5, ProgressKept
    <3> QED
      BY <3>3, <3>4
  <2> QED
    BY <1>3, <2>1, <2>2, <2>3, <2>4, ServeSteps DEF KInv
<1>4. ASSUME NEW p \in Process, Commit(p) PROVE Progress(r)'
  <2> DEFINE w == Head(queue[p])
  <2>1. /\ queue[p] # << >> /\ queue' = [queue EXCEPT ![p] = Tail(@)]
        /\ db' = [db EXCEPT ![w.key] = w.value] /\ call' = call
        /\ pc' = [pc EXCEPT ![w.by] = IF call[w.by].op = "reset" THEN "reset" ELSE "ok"]
        /\ todo' = IF call[w.by].op = "reset" THEN [todo EXCEPT ![w.by] = Tail(@)] ELSE todo
        /\ resets' = [resets EXCEPT ![w.by] = IF w.value = DefaultOf(w.key) THEN @ \cup {w.key} ELSE @]
    BY <1>4 DEF Commit, Goto, Store!CommitHead
  <2>2. w.by \in Request /\ pc[w.by] = "commit" /\ ProcessOf(w.by) = p
        /\ w.key \in Key /\ w.value # Absent /\ w = queue[p][1] /\ 1 \in DOMAIN queue[p]
    BY <2>1, Popped DEF Awaited
  <2>3. CASE p # r
    <3>1. UNCHANGED <<pc[r], call[r], todo[r], resets[r], queue[r]>>
      BY <1>0, <2>1, <2>2, <2>3, Popped, Typed
    <3> QED
      BY <1>1, <1>4, <3>1, StoredStays
  <2>4. CASE p = r
    <3>1. w.by = r /\ queue'[r] = << >>
      BY <1>0, <2>1, <2>2, <2>4, CommandAwaits, Typed
    <3>2. Progress(r) /\ call[r].op = "reset"
      BY <2>2, <3>1, KeysTyped DEF ProgressInv, Progress
    <3>3. /\ w.key = Head(todo[r]) /\ w.value = DefaultOf(w.key) /\ todo[r] # << >> /\ todo[r] \in Seq(Key)
          /\ call[r].keys \in Seq(Key)
      <4>1. w.key = Head(todo[r]) /\ w.value = DefaultOf(w.key)
        BY <2>2, <2>4, <3>2 DEF Progress
      <4>2. todo[r] # << >>
        BY <2>1, <2>4, <3>1, <3>2, Popped DEF Awaited
      <4>3. call[r].keys \in Seq(Key)
        BY <3>2, KeysTyped DEF Progress
      <4> QED
        BY <1>0, <4>1, <4>2, <4>3, Typed
    <3>4. /\ pc'[r] = "reset" /\ todo'[r] = Tail(todo[r]) /\ call'[r] = call[r]
          /\ db'[Head(todo[r])] # Absent
          /\ resets[r] \subseteq resets'[r] /\ Head(todo[r]) \in resets'[r]
      BY <1>0, <2>1, <2>2, <3>1, <3>2, <3>3, Typed
    <3>5. Done(r)' = Done(r) + 1 /\ Done(r) \in Nat
      <4>1. Len(Tail(todo[r])) = Len(todo[r]) - 1 /\ Len(todo[r]) \in Nat
        BY <3>3
      <4>2. Len(call[r].keys) \in Nat
        BY <3>3
      <4>3. Done(r) \in Nat /\ Done(r) = Len(call[r].keys) - Len(todo[r])
        BY <3>2 DEF Done, Progress
      <4>4. Done(r)' = Len(call[r].keys) - Len(Tail(todo[r]))
        BY <3>4 DEF Done
      <4>5. \A k, l \in Nat : k - (l - 1) = (k - l) + 1
        OBVIOUS
      <4>6. Done(r)' = Len(call[r].keys) - (Len(todo[r]) - 1)
        BY <4>1, <4>4, Zenon
      <4> QED
        BY <4>1, <4>2, <4>3, <4>5, <4>6, Zenon
    <3>6. /\ Head(todo[r]) = call[r].keys[Done(r) + 1]
          /\ \A i \in DOMAIN Tail(todo[r]) :
               Tail(todo[r])[i] = call[r].keys[Done(r) + 1 + i]
      <4>1. 1 \in DOMAIN todo[r] /\ Head(todo[r]) = todo[r][1]
        BY <3>3
      <4>2. \A i \in DOMAIN Tail(todo[r]) : i \in Nat /\ i + 1 \in DOMAIN todo[r]
              /\ Tail(todo[r])[i] = todo[r][i + 1]
        BY <3>3
      <4>3. \A i \in Nat : Done(r) + (i + 1) = Done(r) + 1 + i
        BY <3>5
      <4> QED
        BY <3>2, <4>1, <4>2, <4>3 DEF Progress
    <3>7. \A i \in 1 .. Done(r)' : call[r].keys[i] \in resets'[r] /\ db'[call[r].keys[i]] # Absent
      <4> SUFFICES ASSUME NEW i \in 1 .. Done(r) + 1
                   PROVE  call[r].keys[i] \in resets'[r] /\ db'[call[r].keys[i]] # Absent
        BY <3>5
      <4>1. CASE i = Done(r) + 1
        BY <3>4, <3>6, <4>1
      <4>2. CASE i \in 1 .. Done(r)
        <5>1. i \in DOMAIN call[r].keys
          BY <3>3, <3>5, <4>2 DEF Done
        <5>2. call[r].keys[i] \in Key /\ db[call[r].keys[i]] # Absent
          BY <3>2, <3>3, <4>2, <5>1 DEF Progress
        <5>3. call[r].keys[i] \in resets'[r]
          BY <3>2, <3>4, <4>2 DEF Progress
        <5> QED
          BY <1>4, <5>2, <5>3, StoredStays
      <4> QED
        BY <3>5, <4>1, <4>2
    <3> QED
      BY <3>1, <3>2, <3>4, <3>5, <3>6, <3>7 DEF Progress
  <2> QED
    BY <2>3, <2>4
<1>5. ASSUME NEW p \in Process, CommitFails(p) PROVE Progress(r)'
  <2>1. /\ queue[p] # << >> /\ queue' = [queue EXCEPT ![p] = Tail(@)]
        /\ pc' = [pc EXCEPT ![Head(queue[p]).by] = "error"]
        /\ UNCHANGED <<db, call, todo, resets>>
    BY <1>5 DEF CommitFails, Goto, Store!DropHead
  <2>2. Head(queue[p]).by \in Request /\ ProcessOf(Head(queue[p]).by) = p
        /\ Head(queue[p]) = queue[p][1]
    BY <2>1, Popped DEF Awaited
  <2>3. p # r
    BY <1>0, <2>1, <2>2, CommandAwaits, Typed
  <2>4. UNCHANGED <<pc[r], call[r], todo[r], resets[r], queue[r]>>
    BY <1>0, <2>1, <2>2, <2>3, Popped, Typed
  <2> QED
    BY <1>1, <2>1, <2>4
<1>6. ASSUME NEW p \in Process, NEW k \in Key, Evict(p, k) PROVE Progress(r)'
  BY <1>1, <1>6 DEF Evict
<1>7. ASSUME NEW p \in Process, Crash(p) PROVE Progress(r)'
  <2>1. p # r
    BY <1>0, <1>7 DEF Crash
  <2>2. UNCHANGED <<pc[r], call[r], todo[r], resets[r], queue[r], db>>
    BY <1>0, <1>7, <2>1, Typed DEF Crash, Store!DropQueue
  <2> QED
    BY <1>1, <2>2
<1>8. CASE UNCHANGED vars
  BY <1>1, <1>8 DEF vars
<1>9. ASSUME NEW s \in ApiRequest, NEW c \in ReadCall \cup UpdateCall, Submit(s, c)
      PROVE  Progress(r)'
  BY <1>2, <1>9, Slots DEF Request, Call
<1>10. ASSUME NEW s \in CliRequest, NEW c \in ResetCall, pc[s] = "idle" /\ Submit(s, c)
       PROVE  Progress(r)'
  BY <1>2, <1>10 DEF Request, Call
<1> QED
  BY <1>3, <1>4, <1>5, <1>6, <1>7, <1>8, <1>9, <1>10 DEF Next

\* A reset that is answered success has committed the default of each of its keys, forced
\* or not, and whatever crashed, failed or was updated in between, however many commands
\* run at once.
THEOREM ResetsAreComplete == Spec => []ResetIsComplete
<1>1. Init => ProgressInv
  BY DEF Init, ProgressInv, Request
<1>2. TInv /\ ProgressInv => ResetIsComplete
  <2> SUFFICES ASSUME TInv, ProgressInv, NEW r \in CliRequest, pc[r] = "ok",
                      NEW i \in DOMAIN call[r].keys
               PROVE  call[r].keys[i] \in resets[r] /\ db[call[r].keys[i]] # Absent
    BY DEF ResetIsComplete
  <2>1. Progress(r) /\ todo[r] = << >>
    BY DEF ProgressInv, Progress
  <2>2. call[r].keys \in Seq(Key)
    BY <2>1, KeysTyped DEF Progress
  <2>3. Len(todo[r]) = 0
    <3>1. Len(<< >>) = 0
      OBVIOUS
    <3> QED
      BY <2>1, <3>1, Zenon
  <2>4. Done(r) = Len(call[r].keys)
    BY <2>2, <2>3 DEF Done
  <2>5. i \in 1 .. Done(r)
    BY <2>2, <2>4
  <2> QED
    BY <2>1, <2>5 DEF Progress
<1> QED
  BY <1>1, <1>2, KInvariant, ProgressStep, PTL DEF Spec
=============================================================================
