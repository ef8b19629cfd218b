----------------------------- MODULE LmdbStore ------------------------------
(***************************************************************************)
(* The LMDB database the datastore module opens in LmbdStorageProvider,    *)
(* seen from the repositories that use it.                                 *)
(*                                                                         *)
(* A put or remove only queues the write: the provider opens the database  *)
(* with commitDelay: 100, and the promise the repository awaits is settled *)
(* when the write is committed.  Each operating-system process (the API    *)
(* server, a CLI command) has a queue of its own on the same file.  A      *)
(* store opened with cache: false, as the user store is, reads the         *)
(* committed data and so does not see a write that is still queued.        *)
(*                                                                         *)
(* LMDB itself is not part of this repository: the module is modelled from *)
(* how the repositories use it.  LMDB commits queued writes in batches, in *)
(* the order they were queued; committing them one at a time allows every  *)
(* such grouping.                                                          *)
(***************************************************************************)
EXTENDS Sequences

CONSTANTS
  Key,       \* keys of the store
  Value,     \* values of the store
  Absent,    \* what a read of an unknown key returns (undefined), no Value
  Process,   \* operating-system processes that have opened the file
  Writer     \* who awaits the promise of a write

VARIABLES
  db,        \* committed data
  queue      \* per process: writes not yet committed, oldest first

lmdbVars == <<db, queue>>

\* A queued put (a value) or remove (Absent), and who awaits it.
Write == [key : Key, value : Value \cup {Absent}, by : Writer]

LmdbTypeOK ==
  /\ db \in [Key -> Value \cup {Absent}]
  /\ queue \in [Process -> Seq(Write)]

Exists(k) == db[k] # Absent

Enqueue(p, k, v, r) ==
  queue' = [queue EXCEPT ![p] = Append(@, [key |-> k, value |-> v, by |-> r])]

\* The oldest queued write of process p reaches the database.
CommitHead(p) ==
  /\ queue[p] # << >>
  /\ db' = [db EXCEPT ![Head(queue[p]).key] = Head(queue[p]).value]
  /\ queue' = [queue EXCEPT ![p] = Tail(@)]

\* The transaction of the oldest queued write fails (disk or map full).
DropHead(p) ==
  /\ queue[p] # << >>
  /\ queue' = [queue EXCEPT ![p] = Tail(@)]
  /\ UNCHANGED db

\* The process ends: what it had queued is gone, what is committed stays.
DropQueue(p) ==
  /\ queue' = [queue EXCEPT ![p] = << >>]
  /\ UNCHANGED db
=============================================================================
