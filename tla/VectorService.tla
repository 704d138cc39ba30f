--------------------------- MODULE VectorService ---------------------------
(***************************************************************************)
(* The S3 Vectors half of marila: the HTTP handlers that change state      *)
(* (crates/vectors/src/control_plane.rs), the DuckDB state store they call *)
(* (crates/core/src/duckdb_store.rs), the object store they mirror every   *)
(* vector into (crates/storage/src/s3_store.rs) and the replay of those    *)
(* snapshots at boot (crates/vectors/src/rehydrate.rs).                    *)
(*                                                                         *)
(* A handler is a sequence of awaits.  Between two awaits other handlers   *)
(* run, so a handler is a program counter per slot and each action is what *)
(* happens between two points where another handler, a crash or a lost     *)
(* connection can get in.  A call to the state store runs under the        *)
(* connection's mutex; its SQL statements autocommit one by one, so a call *)
(* of several statements is several actions that hold the mutex: no other  *)
(* call sees its middle, but a crash can stop there.                       *)
(*                                                                         *)
(* Abstracted: names, vectors and metadata are opaque; a vector is known   *)
(* by its length only.  Reads, which change nothing, are left              *)
(* out.  One listing page holds every snapshot of an index.  DuckDB        *)
(* refuses to change the rows of a table whose HNSW index it cannot load.  *)
(***************************************************************************)
EXTENDS Integers, Sequences

CONSTANTS
  Buckets,      \* vector bucket names
  Indexes,      \* index names
  Keys,         \* vector keys
  Vecs,         \* vector values (data and metadata together)
  Dims,         \* the dimensions an index may declare
  DimOf,        \* DimOf[v]: the length of the vector v
  Tables,       \* DuckDB identifiers of backing tables
  TableOf,      \* TableOf[p]: the backing table of the pair p
  Slots,        \* requests that can be in flight together
  Requests,     \* the requests clients send
  MaxRequests,  \* bound: requests sent
  MaxFaults,    \* bound: failed object-store calls and lost connections
  MaxCrashes,   \* bound: process exits, with or without losing the database
  MayLackVss,   \* TRUE iff a boot may fail to load the vss extension
  MayLoseDb,    \* TRUE iff an exit may lose the .duckdb file
  NoDim, NoVec, NoSlot, NoRequest

Pairs == Buckets \X Indexes
Write == [key : Keys, vec : Vecs]

Ops == {"CreateVectorBucket", "DeleteVectorBucket", "CreateIndex",
        "DeleteIndex", "PutVectors", "DeleteVectors"}

\* A request names an index and its bucket (the bucket operations use the
\* bucket only), CreateIndex a dimension, PutVectors a batch of writes and
\* DeleteVectors a set of keys.
Request == [op : Ops, at : Pairs, dim : Dims, batch : Seq(Write), drop : SUBSET Keys]

ASSUME ConstantsAssumption ==
  /\ DimOf \in [Vecs -> Dims]
  /\ TableOf \in [Pairs -> Tables]
  /\ Requests \subseteq Request
  /\ \A q \in Requests : /\ (q.op = "PutVectors" => q.batch # <<>>)
                          /\ (q.op = "DeleteVectors" => q.drop # {})
  /\ MaxRequests \in Nat /\ MaxFaults \in Nat /\ MaxCrashes \in Nat
  /\ MayLackVss \in BOOLEAN /\ MayLoseDb \in BOOLEAN
  /\ NoDim \notin Dims /\ NoVec \notin Vecs /\ NoSlot \notin Slots
  /\ NoRequest \notin Request

VARIABLES
  \* the DuckDB file
  bucketRow,  \* buckets with a row in state.vector_buckets
  indexRow,   \* indexRow[p]: declared dimension of the row of p, or NoDim
  tableDim,   \* tableDim[t]: width of table t's vec column, NoDim if no table
  hnsw,       \* tables that have an HNSW index
  tableRows,  \* tableRows[t][k]: the vector stored under k in table t, or NoVec
  \* the object store
  s3Bucket,   \* buckets that exist
  object,     \* object[p][k]: the snapshot <index>/<key>.json, or NoVec
  \* the process
  mutex,      \* slot whose multi-statement store call holds the connection
  vss,        \* the vss extension is loaded
  phase,      \* "up", "down", or "boot": replaying snapshots, not yet serving
  walk,       \* boot: the pairs still to be listed
  replay,     \* boot: the listed snapshots still to be put back
  \* the handlers
  pc,         \* pc[s]: where the handler in slot s is
  req,        \* req[s]: the request it serves, or NoRequest
  pos,        \* pos[s]: position of the put loop in the batch
  keys,       \* keys[s]: snapshots the delete loop has still to drop
  reply,      \* reply[s]: how the request ended
  \* bounds and history
  torn,       \* pairs whose row a crash left without the table just due for it
  raced,      \* pairs made while a delete of their bucket was past its count
  spared,     \* spared[s]: snapshots the delete in slot s failed to drop, or
              \* that another handler wrote again behind it
  skipped,    \* boot: the snapshots that could not be fetched
  spent       \* requests, faults and crashes so far

dbVars   == <<bucketRow, indexRow, tableDim, hnsw, tableRows>>
s3Vars   == <<s3Bucket, object>>
procVars == <<vss, phase, walk, replay>>
slotVars == <<pc, req, pos, keys, reply>>
history  == <<torn, raced, spared, skipped>>
vars     == <<dbVars, s3Vars, procVars, slotVars, mutex, history, spent>>

-----------------------------------------------------------------------------
(* Program counters.                                                       *)

\* Waiting for a state-store call.
StorePc == {"insert_bucket", "count", "delete_bucket_row", "insert_index",
            "delete_index_row", "lookup", "delete_rows"}
\* Inside a store call of several statements, holding the mutex.
HoldPc == {"create_table", "create_hnsw", "rollback", "drop_table", "upsert"}
\* Waiting for the object store.
S3Pc == {"ensure_bucket", "delete_s3_bucket", "snapshot", "list_snapshots",
         "drop_snapshots"}
PC == {"idle", "done"} \cup StorePc \cup HoldPc \cup S3Pc

Replies == {"none", "ok", "NotFound", "Conflict", "Validation", "Internal"}

FirstPc == [CreateVectorBucket |-> "insert_bucket",
            DeleteVectorBucket |-> "count",
            CreateIndex        |-> "insert_index",
            DeleteIndex        |-> "delete_index_row",
            PutVectors         |-> "snapshot",
            DeleteVectors      |-> "delete_rows"]

Bucket(s) == req[s].at[1]
Pair(s)   == req[s].at
Table(s)  == TableOf[req[s].at]
Item(s)   == req[s].batch[pos[s]]

EmptyTable == [k \in Keys |-> NoVec]

\* A process that could not load vss cannot change a table with an HNSW index.
Writable(t) == vss \/ t \notin hnsw

\* Nothing in the object-store bucket.
EmptyBucket(b) == \A p \in Pairs : p[1] = b => object[p] = EmptyTable

Goto(s, l) == pc' = [pc EXCEPT ![s] = l]

\* The handler returns: the response is on its way to the client.
Finish(s, r) == /\ Goto(s, "done")
                /\ reply' = [reply EXCEPT ![s] = r]

\* One of the bounded failures happens.
Spend(what) == spent' = [spent EXCEPT ![what] = @ + 1]
Fault == /\ spent.faults < MaxFaults
         /\ Spend("faults")

\* Mutant of Unlock: the guard is leaked.
Leak == UNCHANGED mutex
\* The store call drops the connection's guard.
Unlock == mutex' = NoSlot

\* Mutant of Upserted: INSERT OR IGNORE.
InsertedOnce(t, k, v) ==
  IF tableRows[t][k] = NoVec THEN [tableRows EXCEPT ![t][k] = v] ELSE tableRows
\* INSERT OR REPLACE of one row.
Upserted(t, k, v) == [tableRows EXCEPT ![t][k] = v]

\* Mutant of Listed: a listing of several pages read as if it had one.
FirstPage(p) ==
  LET found == {k \in Keys : object[p][k] # NoVec} IN
  IF found = {} THEN {} ELSE {CHOOSE k \in found : TRUE}
\* The snapshots under an index's prefix, all pages of the listing.
Listed(p) == {k \in Keys : object[p][k] # NoVec}

-----------------------------------------------------------------------------
(* A fresh installation: both stores empty, the server not started.        *)

Init ==
  /\ bucketRow = {}
  /\ indexRow = [p \in Pairs |-> NoDim]
  /\ tableDim = [t \in Tables |-> NoDim]
  /\ hnsw = {}
  /\ tableRows = [t \in Tables |-> EmptyTable]
  /\ s3Bucket = {}
  /\ object = [p \in Pairs |-> EmptyTable]
  /\ mutex = NoSlot
  /\ vss = FALSE
  /\ phase = "down"
  /\ walk = {}
  /\ replay = {}
  /\ pc = [s \in Slots |-> "idle"]
  /\ req = [s \in Slots |-> NoRequest]
  /\ pos = [s \in Slots |-> 1]
  /\ keys = [s \in Slots |-> {}]
  /\ reply = [s \in Slots |-> "none"]
  /\ torn = {} /\ raced = {} /\ skipped = {}
  /\ spared = [s \in Slots |-> {}]
  /\ spent = [requests |-> 0, faults |-> 0, crashes |-> 0]

-----------------------------------------------------------------------------
(* Requests in and responses out.                                          *)

\* A request that passed validation reaches its handler.
Receive(s) ==
  /\ phase = "up"
  /\ pc[s] = "idle"
  /\ spent.requests < MaxRequests
  /\ \E q \in Requests :
       /\ req' = [req EXCEPT ![s] = q]
       /\ Goto(s, FirstPc[q.op])
  /\ Spend("requests")
  /\ UNCHANGED <<dbVars, s3Vars, procVars, mutex, pos, keys, reply, history>>

\* Mutant of Free: the batch position counted from zero.
FreeFromZero(s) ==
  /\ Goto(s, "idle")
  /\ req' = [req EXCEPT ![s] = NoRequest]
  /\ pos' = [pos EXCEPT ![s] = 0]
  /\ keys' = [keys EXCEPT ![s] = {}]
  /\ spared' = [spared EXCEPT ![s] = {}]
  /\ reply' = [reply EXCEPT ![s] = "none"]

\* The slot is free again: the response was sent, or there is none to send.
Free(s) ==
  /\ Goto(s, "idle")
  /\ req' = [req EXCEPT ![s] = NoRequest]
  /\ pos' = [pos EXCEPT ![s] = 1]
  /\ keys' = [keys EXCEPT ![s] = {}]
  /\ spared' = [spared EXCEPT ![s] = {}]
  /\ reply' = [reply EXCEPT ![s] = "none"]

Deliver(s) ==
  /\ pc[s] = "done"
  /\ Free(s)
  /\ UNCHANGED <<dbVars, s3Vars, procVars, mutex, torn, raced, skipped, spent>>

\* The client goes away and the handler is dropped at the await it is
\* suspended in.  A blocking store call is not dropped: it ends first.  At
\* "lookup" the snapshot in flight was written but its answer never read.
Disconnect(s) ==
  /\ pc[s] \in S3Pc \cup {"lookup"}
  /\ Fault
  /\ Free(s)
  /\ UNCHANGED <<dbVars, s3Vars, procVars, mutex, torn, raced, skipped>>

-----------------------------------------------------------------------------
(* CreateVectorBucket.                                                     *)

InsertBucketRow(s) ==
  /\ pc[s] = "insert_bucket"
  /\ mutex = NoSlot
  /\ \/ /\ Bucket(s) \in bucketRow
        /\ Finish(s, "Conflict")
        /\ UNCHANGED bucketRow
     \/ /\ Bucket(s) \notin bucketRow
        /\ bucketRow' = bucketRow \cup {Bucket(s)}
        /\ Goto(s, "ensure_bucket")
        /\ UNCHANGED reply
  /\ UNCHANGED <<indexRow, tableDim, hnsw, tableRows, s3Vars, procVars, mutex,
                 req, pos, keys, history, spent>>

EnsureBucket(s) ==
  /\ pc[s] = "ensure_bucket"
  /\ \/ /\ s3Bucket' = s3Bucket \cup {Bucket(s)}
        /\ Finish(s, "ok")
        /\ UNCHANGED spent
     \/ /\ Fault
        /\ s3Bucket' \in {s3Bucket, s3Bucket \cup {Bucket(s)}}
        /\ Finish(s, "Internal")
  /\ UNCHANGED <<dbVars, object, procVars, mutex, req, pos, keys, history>>

-----------------------------------------------------------------------------
(* DeleteVectorBucket: count, delete the row, delete the S3 bucket.        *)

\* Mutant of AnyIndex: no emptiness check.
NeverAnyIndex(b) == FALSE
AnyIndex(b) == \E i \in Indexes : indexRow[<<b, i>>] # NoDim

CountIndexes(s) ==
  /\ pc[s] = "count"
  /\ mutex = NoSlot
  /\ \/ /\ AnyIndex(Bucket(s))
        /\ Finish(s, "Conflict")
     \/ /\ ~AnyIndex(Bucket(s))
        /\ Goto(s, "delete_bucket_row")
        /\ UNCHANGED reply
  /\ UNCHANGED <<dbVars, s3Vars, procVars, mutex, req, pos, keys, history, spent>>

\* Mutant of DeleteBucketRow: the count of deleted rows is not looked at.
DeleteBucketRowUnchecked(s) ==
  /\ pc[s] = "delete_bucket_row"
  /\ mutex = NoSlot
  /\ bucketRow' = bucketRow \ {Bucket(s)}
  /\ Goto(s, "delete_s3_bucket")
  /\ UNCHANGED <<indexRow, tableDim, hnsw, tableRows, s3Vars, procVars, mutex,
                 req, pos, keys, reply, history, spent>>

DeleteBucketRow(s) ==
  /\ pc[s] = "delete_bucket_row"
  /\ mutex = NoSlot
  /\ \/ /\ Bucket(s) \notin bucketRow
        /\ Finish(s, "NotFound")
        /\ UNCHANGED bucketRow
     \/ /\ Bucket(s) \in bucketRow
        /\ bucketRow' = bucketRow \ {Bucket(s)}
        /\ Goto(s, "delete_s3_bucket")
        /\ UNCHANGED reply
  /\ UNCHANGED <<indexRow, tableDim, hnsw, tableRows, s3Vars, procVars, mutex,
                 req, pos, keys, history, spent>>

\* S3 refuses to delete a bucket that holds objects; an absent one is fine.
DeleteS3Bucket(s) ==
  /\ pc[s] = "delete_s3_bucket"
  /\ \/ /\ EmptyBucket(Bucket(s))
        /\ s3Bucket' = s3Bucket \ {Bucket(s)}
        /\ Finish(s, "ok")
        /\ UNCHANGED spent
     \/ /\ ~EmptyBucket(Bucket(s))
        /\ Finish(s, "Internal")
        /\ UNCHANGED <<s3Bucket, spent>>
     \/ /\ Fault
        /\ \/ UNCHANGED s3Bucket
           \/ EmptyBucket(Bucket(s)) /\ s3Bucket' = s3Bucket \ {Bucket(s)}
        /\ Finish(s, "Internal")
  /\ UNCHANGED <<dbVars, object, procVars, mutex, req, pos, keys, history>>

-----------------------------------------------------------------------------
(* CreateIndex: row, backing table, HNSW index; the row is undone if one   *)
(* of the two DDL statements fails.                                        *)

\* A DeleteVectorBucket counted no index in b and has still to delete the row.
BeingDeleted(b) == \E s \in Slots : pc[s] = "delete_bucket_row" /\ Bucket(s) = b

InsertIndexRow(s) ==
  /\ pc[s] = "insert_index"
  /\ mutex = NoSlot
  /\ \/ /\ Bucket(s) \notin bucketRow
        /\ Finish(s, "NotFound")
        /\ UNCHANGED <<indexRow, mutex, raced>>
     \/ /\ Bucket(s) \in bucketRow
        /\ indexRow[Pair(s)] # NoDim
        /\ Finish(s, "Conflict")
        /\ UNCHANGED <<indexRow, mutex, raced>>
     \/ /\ Bucket(s) \in bucketRow
        /\ indexRow[Pair(s)] = NoDim
        /\ indexRow' = [indexRow EXCEPT ![Pair(s)] = req[s].dim]
        /\ raced' = IF BeingDeleted(Bucket(s)) THEN raced \cup {Pair(s)}
                                               ELSE raced \ {Pair(s)}
        /\ mutex' = s
        /\ Goto(s, "create_table")
        /\ UNCHANGED reply
  /\ UNCHANGED <<bucketRow, tableDim, hnsw, tableRows, s3Vars, procVars,
                 req, pos, keys, torn, spared, skipped, spent>>

\* Mutant of TableExists: CREATE TABLE IF NOT EXISTS.
TableTolerated(s) == FALSE
TableExists(s) == tableDim[Table(s)] # NoDim

CreateTable(s) ==
  /\ pc[s] = "create_table"
  /\ mutex = s
  /\ \/ /\ TableExists(s)
        /\ Goto(s, "rollback")
        /\ UNCHANGED tableDim
     \/ /\ ~TableExists(s)
        /\ tableDim' = [tableDim EXCEPT ![Table(s)] = req[s].dim]
        /\ Goto(s, "create_hnsw")
  /\ UNCHANGED <<bucketRow, indexRow, hnsw, tableRows, s3Vars, procVars, mutex,
                 req, pos, keys, reply, history, spent>>

CreateHnsw(s) ==
  /\ pc[s] = "create_hnsw"
  /\ mutex = s
  /\ \/ /\ ~vss
        /\ Goto(s, "rollback")
        /\ UNCHANGED <<hnsw, mutex, reply>>
     \/ /\ vss
        /\ hnsw' = hnsw \cup {Table(s)}
        /\ Unlock
        /\ Finish(s, "ok")
  /\ UNCHANGED <<bucketRow, indexRow, tableDim, tableRows, s3Vars, procVars,
                 req, pos, keys, history, spent>>

\* Mutant of UndoRow: the DDL's error is returned and the row stays.
KeepRow(s) == UNCHANGED indexRow
UndoRow(s) == indexRow' = [indexRow EXCEPT ![Pair(s)] = NoDim]

\* Only the row is undone: a table made before the HNSW index failed stays.
RollbackIndexRow(s) ==
  /\ pc[s] = "rollback"
  /\ mutex = s
  /\ UndoRow(s)
  /\ Unlock
  /\ Finish(s, "Internal")
  /\ UNCHANGED <<bucketRow, tableDim, hnsw, tableRows, s3Vars, procVars,
                 req, pos, keys, history, spent>>

-----------------------------------------------------------------------------
(* DeleteIndex: row, backing table, then the snapshots one by one.         *)

DeleteIndexRow(s) ==
  /\ pc[s] = "delete_index_row"
  /\ mutex = NoSlot
  /\ \/ /\ indexRow[Pair(s)] = NoDim
        /\ Finish(s, "NotFound")
        /\ UNCHANGED <<indexRow, mutex, torn>>
     \/ /\ indexRow[Pair(s)] # NoDim
        /\ indexRow' = [indexRow EXCEPT ![Pair(s)] = NoDim]
        /\ torn' = torn \ {Pair(s)}
        /\ mutex' = s
        /\ Goto(s, "drop_table")
        /\ UNCHANGED reply
  /\ UNCHANGED <<bucketRow, tableDim, hnsw, tableRows, s3Vars, procVars,
                 req, pos, keys, raced, spared, skipped, spent>>

\* Mutant of Drop: the row alone is deleted.
DropNothing(s) == UNCHANGED <<tableDim, hnsw, tableRows>>
Drop(s) == /\ tableDim' = [tableDim EXCEPT ![Table(s)] = NoDim]
           /\ hnsw' = hnsw \ {Table(s)}
           /\ tableRows' = [tableRows EXCEPT ![Table(s)] = EmptyTable]

DropTable(s) ==
  /\ pc[s] = "drop_table"
  /\ mutex = s
  /\ Drop(s)
  /\ Unlock
  /\ Goto(s, "list_snapshots")
  /\ UNCHANGED <<bucketRow, indexRow, s3Vars, procVars,
                 req, pos, keys, reply, history, spent>>

\* purge_index_snapshots lists; an error ends the purge, not the request.
ListSnapshots(s) ==
  /\ pc[s] = "list_snapshots"
  /\ \/ /\ Bucket(s) \in s3Bucket
        /\ Listed(Pair(s)) # {}
        /\ keys' = [keys EXCEPT ![s] = Listed(Pair(s))]
        /\ Goto(s, "drop_snapshots")
        /\ UNCHANGED <<reply, spared, spent>>
     \/ /\ Bucket(s) \notin s3Bucket \/ Listed(Pair(s)) = {}
        /\ Finish(s, "ok")
        /\ UNCHANGED <<keys, spared, spent>>
     \/ /\ Fault
        /\ Finish(s, "ok")
        /\ spared' = [spared EXCEPT ![s] = Keys]
        /\ UNCHANGED keys
  /\ UNCHANGED <<dbVars, s3Vars, procVars, mutex, req, pos, torn, raced, skipped>>

\* The loop of purge_index_snapshots and of delete_vectors: one object is
\* deleted; a failure is logged and the loop goes on.
DropSnapshot(s) ==
  /\ pc[s] = "drop_snapshots"
  /\ \E k \in keys[s] :
       /\ \/ /\ object' = [object EXCEPT ![Pair(s)][k] = NoVec]
             /\ UNCHANGED <<spared, spent>>
          \/ /\ Fault
             /\ spared' = [spared EXCEPT ![s] = @ \cup {k}]
             /\ UNCHANGED object
       /\ keys' = [keys EXCEPT ![s] = @ \ {k}]
       /\ IF keys[s] = {k}
            THEN Finish(s, "ok")
            ELSE UNCHANGED <<pc, reply>>
  /\ UNCHANGED <<dbVars, s3Bucket, procVars, mutex, req, pos, torn, raced, skipped>>

-----------------------------------------------------------------------------
(* PutVectors: every snapshot first, then the rows in one store call.      *)

AtLastItem(s) == pos[s] = Len(req[s].batch)

\* The deletes that are past key k of index p: what is written there now they
\* will not drop.
Past(z, p, k) == /\ pc[z] \in {"drop_snapshots", "done"}
                 /\ Pair(z) = p
                 /\ k \notin keys[z]
Spare(p, k) ==
  spared' = [z \in Slots |-> IF req[z] # NoRequest /\ Past(z, p, k) THEN spared[z] \cup {k}
                                                                   ELSE spared[z]]

\* Mutant of WriteSnapshot: the loop ends after the first item.
WriteFirstSnapshot(s) ==
  /\ pc[s] = "snapshot"
  /\ \/ /\ Bucket(s) \in s3Bucket
        /\ object' = [object EXCEPT ![Pair(s)][Item(s).key] = Item(s).vec]
        /\ Spare(Pair(s), Item(s).key)
        /\ Goto(s, "lookup")
        /\ UNCHANGED reply
     \/ /\ Bucket(s) \notin s3Bucket
        /\ Finish(s, "Internal")
        /\ UNCHANGED <<object, spared>>
  /\ UNCHANGED <<dbVars, s3Bucket, procVars, mutex, req, pos, keys,
                 torn, raced, skipped, spent>>

WriteSnapshot(s) ==
  LET Put == /\ object' = [object EXCEPT ![Pair(s)][Item(s).key] = Item(s).vec]
             /\ Spare(Pair(s), Item(s).key) IN
  /\ pc[s] = "snapshot"
  /\ \/ /\ Bucket(s) \in s3Bucket
        /\ Put
        /\ IF AtLastItem(s)
             THEN Goto(s, "lookup") /\ pos' = [pos EXCEPT ![s] = 1]
             ELSE UNCHANGED pc /\ pos' = [pos EXCEPT ![s] = @ + 1]
        /\ UNCHANGED <<reply, spent>>
     \/ /\ Bucket(s) \notin s3Bucket
        /\ Finish(s, "Internal")
        /\ UNCHANGED <<object, pos, spared, spent>>
     \/ /\ Bucket(s) \in s3Bucket
        /\ Fault
        /\ Put \/ UNCHANGED <<object, spared>>
        /\ Finish(s, "Internal")
        /\ UNCHANGED pos
  /\ UNCHANGED <<dbVars, s3Bucket, procVars, mutex, req, keys, torn, raced, skipped>>

\* Mutant of Fits: no dimension check.
FitsUnchecked(s, dim) == TRUE
Fits(s, dim) == \A n \in DOMAIN req[s].batch : DimOf[req[s].batch[n].vec] = dim

LookupIndex(s) ==
  LET dim == indexRow[Pair(s)] IN
  /\ pc[s] = "lookup"
  /\ mutex = NoSlot
  /\ \/ /\ dim = NoDim
        /\ Finish(s, "NotFound")
        /\ UNCHANGED mutex
     \/ /\ dim # NoDim
        /\ ~Fits(s, dim)
        /\ Finish(s, "Validation")
        /\ UNCHANGED mutex
     \/ /\ dim # NoDim
        /\ Fits(s, dim)
        /\ mutex' = s
        /\ Goto(s, "upsert")
        /\ UNCHANGED reply
  /\ UNCHANGED <<dbVars, s3Vars, procVars, req, pos, keys, history, spent>>

\* The INSERT fails if the table is missing, its column has another width, or
\* its HNSW index cannot be loaded.
UpsertRow(s) ==
  /\ pc[s] = "upsert"
  /\ mutex = s
  /\ \/ /\ tableDim[Table(s)] = indexRow[Pair(s)]
        /\ Writable(Table(s))
        /\ tableRows' = Upserted(Table(s), Item(s).key, Item(s).vec)
        /\ IF AtLastItem(s)
             THEN Finish(s, "ok") /\ Unlock /\ UNCHANGED pos
             ELSE /\ pos' = [pos EXCEPT ![s] = @ + 1]
                  /\ UNCHANGED <<pc, reply, mutex>>
     \/ /\ \/ tableDim[Table(s)] # indexRow[Pair(s)]
           \/ ~Writable(Table(s))
        /\ Unlock
        /\ Finish(s, "Internal")
        /\ UNCHANGED <<tableRows, pos>>
  /\ UNCHANGED <<bucketRow, indexRow, tableDim, hnsw, s3Vars, procVars,
                 req, keys, history, spent>>

-----------------------------------------------------------------------------
(* DeleteVectors: the rows, then the snapshots.                            *)

DeleteRows(s) ==
  /\ pc[s] = "delete_rows"
  /\ mutex = NoSlot
  /\ \/ /\ indexRow[Pair(s)] = NoDim
        /\ Finish(s, "NotFound")
        /\ UNCHANGED <<tableRows, keys>>
     \/ /\ indexRow[Pair(s)] # NoDim
        /\ tableDim[Table(s)] = NoDim \/ ~Writable(Table(s))
        /\ Finish(s, "Internal")
        /\ UNCHANGED <<tableRows, keys>>
     \/ /\ indexRow[Pair(s)] # NoDim
        /\ tableDim[Table(s)] # NoDim
        /\ Writable(Table(s))
        /\ tableRows' = [tableRows EXCEPT ![Table(s)] =
                           [k \in Keys |-> IF k \in req[s].drop THEN NoVec ELSE @[k]]]
        /\ keys' = [keys EXCEPT ![s] = req[s].drop]
        /\ Goto(s, "drop_snapshots")
        /\ UNCHANGED reply
  /\ UNCHANGED <<bucketRow, indexRow, tableDim, hnsw, s3Vars, procVars, mutex,
                 req, pos, history, spent>>

-----------------------------------------------------------------------------
(* Process exit and boot.                                                  *)

\* A kill, a forced exit or a power cut.  Statements already committed stay;
\* the .duckdb file itself may be lost, the object store is not.
Crash ==
  /\ phase # "down"
  /\ spent.crashes < MaxCrashes
  /\ Spend("crashes")
  /\ phase' = "down"
  /\ vss' = FALSE /\ walk' = {} /\ replay' = {}
  /\ mutex' = NoSlot
  /\ pc' = [s \in Slots |-> "idle"]
  /\ req' = [s \in Slots |-> NoRequest]
  /\ pos' = [s \in Slots |-> 1]
  /\ keys' = [s \in Slots |-> {}]
  /\ reply' = [s \in Slots |-> "none"]
  /\ spared' = [s \in Slots |-> {}]
  /\ skipped' = {}
  /\ \/ /\ torn' = torn \cup
                     {Pair(s) : s \in {z \in Slots : pc[z] \in {"create_table", "rollback"}}}
        /\ UNCHANGED <<dbVars, raced>>
     \/ /\ MayLoseDb
        /\ bucketRow' = {}
        /\ indexRow' = [p \in Pairs |-> NoDim]
        /\ tableDim' = [t \in Tables |-> NoDim]
        /\ hnsw' = {}
        /\ tableRows' = [t \in Tables |-> EmptyTable]
        /\ torn' = {} /\ raced' = {}
  /\ UNCHANGED s3Vars

\* The indexes rehydrate walks: those listed under a listed bucket.
Known == {p \in Pairs : p[1] \in bucketRow /\ indexRow[p] # NoDim}

\* Open the database, migrate (the tables are there or are created empty),
\* try to load vss, and start the replay.
Open ==
  /\ phase = "down"
  /\ phase' = "boot"
  /\ vss' \in IF MayLackVss THEN BOOLEAN ELSE {TRUE}
  /\ walk' = Known
  /\ UNCHANGED <<dbVars, s3Vars, replay, slotVars, mutex, history, spent>>

\* Mutant of AbortReplay: the error ends the process.
AbortBoot == walk' = {} /\ phase' = "down" /\ skipped' = {}
AbortReplay == walk' = {} /\ phase' = "up" /\ skipped' = {}

\* List one index's snapshots.  An error ends the whole pass and the server
\* starts serving.  Pairs come in name order, which is any order here.
ListForReplay(p) ==
  /\ phase = "boot"
  /\ replay = {}
  /\ p \in walk
  /\ \/ /\ p[1] \in s3Bucket
        /\ walk' = walk \ {p}
        /\ replay' = {p} \X Listed(p)
        /\ UNCHANGED <<phase, skipped, spent>>
     \/ /\ \/ p[1] \notin s3Bucket /\ UNCHANGED spent
           \/ Fault
        /\ AbortReplay
        /\ UNCHANGED replay
  /\ UNCHANGED <<dbVars, s3Vars, vss, slotVars, mutex, torn, raced, spared>>

\* Fetch one snapshot and put it through put_vectors; whatever goes wrong,
\* the snapshot is skipped.
ReplaySnapshot(p, k) ==
  /\ phase = "boot"
  /\ <<p, k>> \in replay
  /\ replay' = replay \ {<<p, k>>}
  /\ \/ /\ DimOf[object[p][k]] = indexRow[p]
        /\ tableDim[TableOf[p]] = indexRow[p]
        /\ Writable(TableOf[p])
        /\ tableRows' = Upserted(TableOf[p], k, object[p][k])
        /\ UNCHANGED <<skipped, spent>>
     \/ /\ \/ DimOf[object[p][k]] # indexRow[p]
           \/ tableDim[TableOf[p]] # indexRow[p]
           \/ ~Writable(TableOf[p])
        /\ UNCHANGED <<tableRows, skipped, spent>>
     \/ /\ Fault
        /\ skipped' = skipped \cup {<<p, k>>}
        /\ UNCHANGED tableRows
  /\ UNCHANGED <<bucketRow, indexRow, tableDim, hnsw, s3Vars, vss, phase, walk,
                 slotVars, mutex, torn, raced, spared>>

Serve ==
  /\ phase = "boot"
  /\ walk = {} /\ replay = {}
  /\ phase' = "up"
  /\ skipped' = {}
  /\ UNCHANGED <<dbVars, s3Vars, vss, walk, replay, slotVars, mutex,
                 torn, raced, spared, spent>>

-----------------------------------------------------------------------------

\* The next step of the handler in slot s.
Step(s) ==
  \/ InsertBucketRow(s) \/ EnsureBucket(s)
  \/ CountIndexes(s) \/ DeleteBucketRow(s) \/ DeleteS3Bucket(s)
  \/ InsertIndexRow(s) \/ CreateTable(s) \/ CreateHnsw(s) \/ RollbackIndexRow(s)
  \/ DeleteIndexRow(s) \/ DropTable(s) \/ ListSnapshots(s) \/ DropSnapshot(s)
  \/ WriteSnapshot(s) \/ LookupIndex(s) \/ UpsertRow(s)
  \/ DeleteRows(s)
  \/ Deliver(s)

\* The next step of the boot sequence.
Boot == \/ Open
        \/ \E p \in Pairs : ListForReplay(p)
        \/ \E p \in Pairs, k \in Keys : ReplaySnapshot(p, k)
        \/ Serve

\* The server has answered everything and waits for its next connection.
Quiet == /\ phase = "up"
         /\ \A s \in Slots : pc[s] = "idle"
         /\ UNCHANGED vars

Next == \/ \E s \in Slots : Receive(s) \/ Step(s) \/ Disconnect(s)
        \/ Boot
        \/ Crash
        \/ Quiet

Spec == Init /\ [][Next]_vars

\* The runtime polls every handler whose await is over, and a process that
\* was started gets through its boot.  Clients, faults and crashes owe nothing.
FairSpec == Spec /\ WF_vars(Boot) /\ \A s \in Slots : WF_vars(Step(s))
-----------------------------------------------------------------------------
(* Properties.                                                             *)

\* Every variable holds a value of its kind.
DbTypes ==
  /\ bucketRow \subseteq Buckets
  /\ indexRow \in [Pairs -> Dims \cup {NoDim}]
  /\ tableDim \in [Tables -> Dims \cup {NoDim}]
  /\ hnsw \subseteq Tables
  /\ tableRows \in [Tables -> [Keys -> Vecs \cup {NoVec}]]

S3Types ==
  /\ s3Bucket \subseteq Buckets
  /\ object \in [Pairs -> [Keys -> Vecs \cup {NoVec}]]

ProcessTypes ==
  /\ mutex \in Slots \cup {NoSlot}
  /\ vss \in BOOLEAN
  /\ phase \in {"down", "boot", "up"}
  /\ walk \subseteq Pairs
  /\ replay \subseteq Pairs \X Keys

SlotTypes ==
  /\ pc \in [Slots -> PC]
  /\ req \in [Slots -> Requests \cup {NoRequest}]
  /\ pos \in [Slots -> Nat \ {0}]
  /\ keys \in [Slots -> SUBSET Keys]
  /\ reply \in [Slots -> Replies]

HistoryTypes ==
  /\ torn \subseteq Pairs
  /\ raced \subseteq Pairs
  /\ spared \in [Slots -> SUBSET Keys]
  /\ skipped \subseteq Pairs \X Keys
  /\ spent \in [requests : 0..MaxRequests, faults : 0..MaxFaults, crashes : 0..MaxCrashes]

TypeOK == DbTypes /\ S3Types /\ ProcessTypes /\ SlotTypes /\ HistoryTypes

HasIndex(p) == indexRow[p] # NoDim
\* A store call is between inserting p's row and giving it a table.
Making(p) == \E s \in Slots : pc[s] \in {"create_table", "rollback"} /\ Pair(s) = p

\* An index row that no crash left half made has its backing table, as wide
\* as the row says: what every data-plane call on the index relies on.
OwnTable ==
  \A p \in Pairs : HasIndex(p) /\ p \notin torn /\ ~Making(p)
                     => tableDim[TableOf[p]] = indexRow[p]

\* Every stored vector is as long as its table's column, through deletes,
\* re-creations with another dimension and boot replays.
RowsFit ==
  \A t \in Tables, k \in Keys :
     tableRows[t][k] # NoVec => DimOf[tableRows[t][k]] = tableDim[t]

\* No two indexes share a backing table, although two names may map to one.
OneOwner ==
  \A p, q \in Pairs : /\ HasIndex(p) /\ HasIndex(q)
                       /\ ~Making(p) /\ ~Making(q)
                       /\ TableOf[p] = TableOf[q]
                       => p = q

\* Between store calls a backing table belongs to an index: a failed
\* CreateIndex or a DeleteIndex leaves none behind to block the name.
NoStrayTable ==
  mutex = NoSlot =>
    \A t \in Tables : tableDim[t] # NoDim
                       => \E p \in Pairs : TableOf[p] = t /\ HasIndex(p)

\* An index lives in a bucket that exists, except one that was made in the
\* moment between DeleteVectorBucket's emptiness check and its row delete: with
\* any number of requests in flight that is the only way to lose the bucket of
\* an index.
IndexHasBucket ==
  \A p \in Pairs : HasIndex(p) => p[1] \in bucketRow \/ p \in raced

\* Every vector of an index has a snapshot in the object store, the copy a
\* lost or damaged database is rebuilt from.
RowHasSnapshot ==
  \A p \in Pairs, k \in Keys :
     HasIndex(p) /\ tableRows[TableOf[p]][k] # NoVec => object[p][k] # NoVec

\* What PutVectors acknowledged is in the database and in the object store,
\* the last write of a key when the batch has several.
PutIsDurable ==
  \A s \in Slots : pc[s] = "done" /\ req[s].op = "PutVectors" /\ reply[s] = "ok" =>
    \A n \in DOMAIN req[s].batch :
      LET w == req[s].batch[n] IN
      (\A m \in DOMAIN req[s].batch : m > n => req[s].batch[m].key # w.key)
        => /\ tableRows[Table(s)][w.key] = w.vec
           /\ object[Pair(s)][w.key] = w.vec

\* What a delete acknowledged is gone from the object store too, so that no
\* later boot brings it back: all but the snapshots whose own deletion, or the
\* listing before it, failed, and those another request wrote again after the
\* delete was done with them.
DeletesAreFinal ==
  \A s \in Slots : pc[s] = "done" /\ reply[s] = "ok" =>
    /\ (req[s].op = "DeleteVectors" =>
          \A k \in req[s].drop \ spared[s] : object[Pair(s)][k] = NoVec)
    /\ (req[s].op = "DeleteIndex" =>
          \A k \in Keys \ spared[s] : object[Pair(s)][k] = NoVec)

\* What can be put back of index p is: its table holds what the snapshots that
\* fit it say, but for those in lost.
Replayed(p, lost) ==
  \A k \in Keys : /\ object[p][k] # NoVec
                   /\ DimOf[object[p][k]] = indexRow[p]
                   /\ <<p, k>> \notin lost
                   => tableRows[TableOf[p]][k] = object[p][k]

\* When the server starts serving, every index whose snapshots were walked
\* holds all of them but the ones that could not be fetched, however often
\* boot was cut short before, if its table can be written by this process.
Recovered ==
  [][phase = "boot" /\ phase' = "up" =>
       \A p \in (Known \ walk) \ torn :
         Writable(TableOf[p]) => Replayed(p, skipped)]_vars

\* Every request that reaches a handler is answered or its connection lost.
Answered == \A s \in Slots : pc[s] # "idle" ~> pc[s] = "idle"

\* A started process gets to serve, whatever the stores hold.
Boots == phase = "down" ~> phase = "up"
=============================================================================
