------------------------------ MODULE Settings ------------------------------
(***************************************************************************)
(* The settings of the device: SettingsRepository, MaintenanceService, the *)
(* reset commands and DeviceService over a cached LMDB store.              *)
(*                                                                         *)
(* The store is opened with cache: true: a process reads its own queued    *)
(* writes, and goes on reading what it has cached when another process     *)
(* writes.  Repository calls read and queue their write without giving the *)
(* event loop back in between; only the commit is awaited.                 *)
(*                                                                         *)
(* Only the metadata can be edited; all other settings are reset as a      *)
(* whole, to defaults that differ from nothing.  Every command of the      *)
(* command line is a process, and serves one request.                      *)
(***************************************************************************)
EXTENDS Naturals, Sequences

CONSTANTS
  Key, Metadata,          \* the settings; Metadata is one of them
  KeyOrder,               \* Object.keys(DEFAULT_SETTINGS)
  Auth,                   \* the settings reset-defaults resets
  Field, Data, Unset,     \* of the metadata; Unset is undefined
  Same,                   \* a field the client does not send
  Default,                \* the default of settings that are not edited
  ApiRequest, CliRequest, \* slots for requests of the server; commands
  Absent, NoCall

Request == ApiRequest \cup CliRequest
Process == {"api"} \cup CliRequest
ProcessOf(r) == IF r \in CliRequest THEN r ELSE "api"

Fields == [Field -> Data \cup {Unset}]
Value == Fields \cup {Default}

\* Mutant: every key gets the same defaults.
DefaultOfAny(k) == Default

\* DEFAULT_SETTINGS: there are no default metadata.
DefaultOf(k) == IF k = Metadata THEN [f \in Field |-> Unset] ELSE Default

VARIABLES
  db, queue,  \* the settings store
  cache,      \* per process and key: the cached value, or Absent
  pc,         \* per request: idle, start, reset, commit, or its answer
  call,       \* per request: its parameters
  todo,       \* per request: the keys a reset has still to reset
  resets,     \* history: per request, the keys it has reset, committed
  latest      \* history: the metadata the server last put, while that is what it must read

vars == <<db, queue, cache, pc, call, todo, resets, latest>>

Store == INSTANCE LmdbStore WITH Writer <- Request

ReadCall == [op : {"get"}]
UpdateCall == [op : {"update"}, given : [Field -> Data \cup {Same}]]
ResetCall == [op : {"reset"}, keys : {KeyOrder, <<Auth>>}, force : BOOLEAN]
Call == ReadCall \cup UpdateCall \cup ResetCall

ASSUME SettingsAssumption ==
  /\ {Metadata, Auth} \subseteq Key
  /\ Auth # Metadata
  /\ KeyOrder \in Seq(Key)
  /\ \A k \in Key : \E i \in DOMAIN KeyOrder : KeyOrder[i] = k
  /\ ApiRequest \cap CliRequest = {} /\ "api" \notin CliRequest
  /\ Unset \notin Data /\ Same \notin Data
  /\ Default \notin Fields
  /\ Absent \notin Value /\ NoCall \notin Call

TypeOK ==
  /\ Store!LmdbTypeOK
  /\ cache \in [Process -> [Key -> Value \cup {Absent}]]
  /\ pc \in [Request -> {"idle", "start", "reset", "commit", "ok", "refused", "error"}]
  /\ call \in [Request -> Call \cup {NoCall}]
  /\ todo \in [Request -> Seq(Key)]
  /\ resets \in [Request -> SUBSET Key]
  /\ latest \in Value \cup {Absent}
  /\ \A k \in Key : db[k] # Absent => (db[k] = Default <=> k # Metadata)

\* Settings that were never initialised are absent.
Init ==
  /\ db \in [Key -> Value \cup {Absent}]
  /\ \A k \in Key : db[k] # Absent => (db[k] = Default <=> k # Metadata)
  /\ queue = [p \in Process |-> << >>]
  /\ cache = [p \in Process |-> [k \in Key |-> Absent]]
  /\ pc = [r \in Request |-> "idle"]
  /\ call = [r \in Request |-> NoCall]
  /\ todo = [r \in Request |-> << >>]
  /\ resets = [r \in Request |-> {}]
  /\ latest = Absent

-----------------------------------------------------------------------------
(* SettingsRepository                                                      *)

\* What process p reads: its cached value, which it may have put itself, or the committed.
Seen(p, k) == IF cache[p][k] # Absent THEN cache[p][k] ELSE db[k]

Goto(r, s) == pc' = [pc EXCEPT ![r] = s]

Reply(r, a) ==
  /\ Goto(r, a)
  /\ UNCHANGED <<db, queue, cache, call, todo, resets, latest>>

\* Mutant: the store is opened without a cache.
PutUncached(r, k, v) ==
  /\ Store!Enqueue(ProcessOf(r), k, v, r)
  /\ latest' = IF ProcessOf(r) = "api" THEN v ELSE latest
  /\ Goto(r, "commit")
  /\ UNCHANGED <<db, cache, call, todo, resets>>

\* The write is queued, the process reads it from now on, the request awaits the commit.
Put(r, k, v) ==
  /\ Store!Enqueue(ProcessOf(r), k, v, r)
  /\ cache' = [cache EXCEPT ![ProcessOf(r)][k] = v]
  /\ latest' = IF ProcessOf(r) = "api" THEN v ELSE latest
  /\ Goto(r, "commit")
  /\ UNCHANGED <<db, call, todo, resets>>

\* { ...currentValue, ...data }: data replaces every field it has.
Merged(current, data) ==
  [f \in Field |-> IF f \in DOMAIN data THEN data[f] ELSE current[f]]

\* The DeviceMetadataDto of a request.  The compiler's target is ESNext, so an instance
\* has all the fields its class declares, undefined where the client sent none.
Received(given) == [f \in Field |-> IF given[f] = Same THEN Unset ELSE given[f]]

-----------------------------------------------------------------------------
(* Requests                                                                *)

InService(r) == pc[r] \in {"start", "reset", "commit"}

Submit(r, c) ==
  /\ ~InService(r)
  /\ call' = [call EXCEPT ![r] = c]
  /\ todo' = [todo EXCEPT ![r] = IF c.op = "reset" THEN c.keys ELSE << >>]
  /\ resets' = [resets EXCEPT ![r] = {}]
  /\ Goto(r, IF c.op = "reset" THEN "reset" ELSE "start")
  /\ UNCHANGED <<db, queue, cache, latest>>

\* getMetaData: get throws when the settings were never initialised.
Get(r) ==
  /\ pc[r] = "start"
  /\ call[r].op = "get"
  /\ IF Seen("api", Metadata) = Absent
     THEN Reply(r, "error")
     ELSE /\ cache' = [cache EXCEPT !["api"][Metadata] = Seen("api", Metadata)]
          /\ Goto(r, "ok")
          /\ UNCHANGED <<db, queue, call, todo, resets, latest>>

\* Mutant: an update initialises the settings.
UpdateUninitialised(r) ==
  /\ pc[r] = "start"
  /\ call[r].op = "update"
  /\ Put(r, Metadata, Received(call[r].given))

\* setMetaData: update reads with get.
Update(r) ==
  /\ pc[r] = "start"
  /\ call[r].op = "update"
  /\ IF Seen("api", Metadata) = Absent
     THEN Reply(r, "error")
     ELSE Put(r, Metadata, Merged(Seen("api", Metadata), Received(call[r].given)))

\* Mutant: a key that has settings is passed over, forced or not.
ResetPassesOver(r) ==
  /\ pc[r] = "reset"
  /\ IF todo[r] = << >> THEN Reply(r, "ok")
     ELSE IF Store!Exists(Head(todo[r]))
     THEN /\ todo' = [todo EXCEPT ![r] = Tail(@)]
          /\ UNCHANGED <<db, queue, cache, pc, call, resets, latest>>
     ELSE Put(r, Head(todo[r]), DefaultOf(Head(todo[r])))

\* resetAllSettingsToDefaults and reset-defaults, one key at a time: refused at the first
\* key that has settings, unless forced.
Reset(r) ==
  /\ pc[r] = "reset"
  /\ IF todo[r] = << >> THEN Reply(r, "ok")
     ELSE IF Store!Exists(Head(todo[r])) /\ ~call[r].force THEN Reply(r, "refused")
     ELSE Put(r, Head(todo[r]), DefaultOf(Head(todo[r])))

-----------------------------------------------------------------------------
(* The store                                                               *)

\* Mutant: a reset goes on with the same key.
CommitRepeats(p) ==
  LET w == Head(queue[p])
      r == w.by IN
  /\ Store!CommitHead(p)
  /\ Goto(r, IF call[r].op = "reset" THEN "reset" ELSE "ok")
  /\ latest' = IF p # "api" /\ w.key = Metadata THEN Absent ELSE latest
  /\ UNCHANGED <<cache, call, todo, resets>>

\* A reset goes on with its next key.
Commit(p) ==
  LET w == Head(queue[p])
      r == w.by IN
  /\ Store!CommitHead(p)
  /\ IF call[r].op = "reset"
     THEN Goto(r, "reset") /\ todo' = [todo EXCEPT ![r] = Tail(@)]
     ELSE Goto(r, "ok") /\ UNCHANGED todo
  /\ resets' = [resets EXCEPT ![r] = IF w.value = DefaultOf(w.key) THEN @ \cup {w.key} ELSE @]
  /\ latest' = IF p # "api" /\ w.key = Metadata THEN Absent ELSE latest
  /\ UNCHANGED <<cache, call>>

CommitFails(p) ==
  /\ Store!DropHead(p)
  /\ Goto(Head(queue[p]).by, "error")
  /\ latest' = IF p = "api" THEN Absent ELSE latest
  /\ UNCHANGED <<cache, call, todo, resets>>

\* The cache gives up an entry, unless its write is not committed yet.
Evict(p, k) ==
  /\ cache[p][k] # Absent
  /\ \A i \in DOMAIN queue[p] : queue[p][i].key # k
  /\ cache' = [cache EXCEPT ![p][k] = Absent]
  /\ UNCHANGED <<db, queue, pc, call, todo, resets, latest>>

\* The process ends: the server is stopped, a command is killed or is done.
Crash(p) ==
  /\ Store!DropQueue(p)
  /\ cache' = [cache EXCEPT ![p] = [k \in Key |-> Absent]]
  /\ pc' = [r \in Request |-> IF ProcessOf(r) = p THEN "idle" ELSE pc[r]]
  /\ call' = [r \in Request |-> IF ProcessOf(r) = p THEN NoCall ELSE call[r]]
  /\ todo' = [r \in Request |-> IF ProcessOf(r) = p THEN << >> ELSE todo[r]]
  /\ resets' = [r \in Request |-> IF ProcessOf(r) = p THEN {} ELSE resets[r]]
  /\ latest' = IF p = "api" THEN Absent ELSE latest

Serve(r) == Get(r) \/ Update(r) \/ Reset(r)

Next ==
  \/ \E r \in ApiRequest, c \in ReadCall \cup UpdateCall : Submit(r, c)
  \/ \E r \in CliRequest, c \in ResetCall : pc[r] = "idle" /\ Submit(r, c)
  \/ \E r \in Request : Serve(r)
  \/ \E p \in Process : Commit(p) \/ CommitFails(p) \/ Crash(p) \/ \E k \in Key : Evict(p, k)

Spec == Init /\ [][Next]_vars

\* The event loop runs what is ready and LMDB commits after its delay.
FairSpec ==
  /\ Spec
  /\ \A r \in Request : WF_vars(Serve(r))
  /\ \A p \in Process : WF_vars(Commit(p))

-----------------------------------------------------------------------------
(* Properties                                                              *)

\* Until a command resets the metadata or a commit fails, the server reads what it put
\* last, committed or not: overlapping updates build on each other, unlike those of users.
ServerReadsItsWrites == latest # Absent => Seen("api", Metadata) = latest

\* "Reset settings to default, even if they are not empty" is what --force is for
\* (ResetAllDefaults): without it no reset changes settings that are there, though the
\* check and the commit are a commit delay apart and the server updates in between.
UnforcedKeeps ==
  [][\A p \in CliRequest :
       Commit(p) /\ ~call[p].force => db[Head(queue[p]).key] = Absent]_vars

\* A reset that is answered has itself committed the default of each of its keys since it
\* was called, forced over settings that were there or not, and whatever failed, crashed
\* or was updated in between; and none of them has gone since (MaintenanceService).
ResetIsComplete ==
  \A r \in CliRequest : pc[r] = "ok" =>
    \A i \in DOMAIN call[r].keys :
      call[r].keys[i] \in resets[r] /\ db[call[r].keys[i]] # Absent

\* Every request is answered, if its process does not end before.
EveryRequestEnds == \A r \in Request : InService(r) ~> ~InService(r)

\* "Provided data will be merged with data already present" (SettingsRepository.update):
\* a field the client did not send keeps its value.
UpdateKeepsOtherFields ==
  [][\A r \in ApiRequest : Update(r) /\ pc'[r] = "commit" =>
       \A f \in Field : call[r].given[f] = Same =>
         Seen("api", Metadata)'[f] = Seen("api", Metadata)[f]]_vars
=============================================================================
