---------------------------- MODULE TableService ----------------------------
(***************************************************************************)
(* The S3 Tables half of marila: a table bucket is an object-store bucket, *)
(* a Lakekeeper warehouse and a row of state.table_buckets that holds the  *)
(* warehouse's id (crates/tables/src/control_plane.rs, lakekeeper.rs);     *)
(* namespaces and tables live in Lakekeeper only and are reached through   *)
(* that id (namespace_handlers.rs, table_handlers.rs).                     *)
(*                                                                         *)
(* Three stores and no transaction between them: a handler is a program    *)
(* counter per slot, with one action per call of a store.  Lakekeeper is   *)
(* modelled by the answers marila reads: a warehouse name is taken once,   *)
(* deleting a table leaves a purge task, and a warehouse with a purge task *)
(* refuses to be deleted.                                                  *)
(*                                                                         *)
(* Abstracted: ARNs, schemas, locations and version tokens, and what a     *)
(* read tells beyond whether the thing asked for is there.                 *)
(***************************************************************************)
EXTENDS Integers, FiniteSets

CONSTANTS
  Buckets,        \* table bucket names
  Namespaces,     \* namespace names
  TableNames,     \* table names
  Slots,          \* requests that can be in flight together
  Requests,       \* the requests clients send
  MaxWarehouses,  \* bound: warehouses Lakekeeper mints
  MaxRequests,    \* bound: requests sent
  MaxFaults,      \* bound: failed calls and lost connections
  MaxCrashes,     \* bound: process exits
  NoName, NoId, NoRequest

Ids == 1..MaxWarehouses
BucketOps  == {"CreateTableBucket", "DeleteTableBucket", "GetTableBucket", "ListTableBuckets"}
\* What each catalog operation asks Lakekeeper about.
OfBucket    == {"CreateNamespace", "ListNamespaces"}
OfNamespace == {"GetNamespace", "DeleteNamespace", "CreateTable", "ListTables"}
OfTable     == {"GetTable", "DeleteTable"}
CatalogOps  == OfBucket \cup OfNamespace \cup OfTable
Request == [op : BucketOps \cup CatalogOps, bucket : Buckets, ns : Namespaces, table : TableNames]

ASSUME TableConstants ==
  /\ Requests \subseteq Request
  /\ MaxWarehouses \in Nat /\ MaxRequests \in Nat
  /\ MaxFaults \in Nat /\ MaxCrashes \in Nat
  /\ NoName \notin Buckets /\ NoId \notin Ids /\ NoRequest \notin Request

VARIABLES
  row,        \* row[b]: the warehouse id in the row of b, or NoId
  s3Bucket,   \* object-store buckets that exist
  warehouse,  \* warehouse[w]: the name warehouse w has in Lakekeeper, or NoName
  minted,     \* warehouse ids handed out so far
  namespaces, \* namespaces[w]: the namespaces of warehouse w
  tables,     \* tables[w]: its <<namespace, table>> pairs
  purging,    \* warehouses with unfinished purge tasks
  pc, req,    \* the handlers: where each is and the request it serves
  id,         \* id[s]: the warehouse id the handler holds, or NoId
  reply,      \* reply[s]: how the request ended
  dropped,    \* history: the warehouses a DeleteTableBucket asked to be dropped
  missed,     \* history: missed[s]: what s asks for was missing meanwhile
  overtaken,  \* history: the warehouses whose row went in place of another's
  spent       \* requests, faults and crashes so far

lake  == <<warehouse, minted, namespaces, tables, purging>>
slots == <<pc, req, id, reply>>
vars  == <<row, s3Bucket, lake, slots, dropped, missed, overtaken, spent>>

FirstPc(q) == CASE q.op = "CreateTableBucket" -> "ensure_bucket"
                [] q.op = "DeleteTableBucket" -> "get_row"
                [] q.op \in {"GetTableBucket", "ListTableBuckets"} -> "read_row"
                [] OTHER                      -> "resolve"
PC == {"idle", "ensure_bucket", "create_warehouse", "insert_row", "undo",
       "get_row", "delete_warehouse", "delete_row", "read_row", "resolve", "catalog",
       "done"}
Replies == {"none", "ok", "NotFound", "Conflict", "Internal"}

Bucket(s)    == req[s].bucket
Goto(s, l)   == pc' = [pc EXCEPT ![s] = l]
Answer(s, r) == reply' = [reply EXCEPT ![s] = r]
Finish(s, r) == Goto(s, "done") /\ Answer(s, r)
Spend(what)  == spent' = [spent EXCEPT ![what] = @ + 1]
Fault        == spent.faults < MaxFaults /\ Spend("faults")

Init ==
  /\ row = [b \in Buckets |-> NoId]
  /\ s3Bucket = {}
  /\ warehouse = [w \in Ids |-> NoName]
  /\ minted = 0
  /\ namespaces = [w \in Ids |-> {}]
  /\ tables = [w \in Ids |-> {}]
  /\ purging = {}
  /\ pc = [s \in Slots |-> "idle"]
  /\ req = [s \in Slots |-> NoRequest]
  /\ id = [s \in Slots |-> NoId]
  /\ reply = [s \in Slots |-> "none"]
  /\ dropped = {}
  /\ missed = [s \in Slots |-> FALSE]
  /\ overtaken = {}
  /\ spent = [requests |-> 0, faults |-> 0, crashes |-> 0]

-----------------------------------------------------------------------------
(* Requests in, responses out, and the ways a handler is lost.             *)

Receive(s) ==
  /\ pc[s] = "idle"
  /\ spent.requests < MaxRequests
  /\ \E q \in Requests : /\ req' = [req EXCEPT ![s] = q]
                         /\ Goto(s, FirstPc(q))
  /\ Spend("requests")
  /\ UNCHANGED <<row, s3Bucket, lake, id, reply, dropped>>

Free(s) ==
  /\ Goto(s, "idle")
  /\ req' = [req EXCEPT ![s] = NoRequest]
  /\ id' = [id EXCEPT ![s] = NoId]
  /\ reply' = [reply EXCEPT ![s] = "none"]

Deliver(s) ==
  /\ pc[s] = "done"
  /\ Free(s)
  /\ UNCHANGED <<row, s3Bucket, lake, dropped, spent>>

\* The client goes away: the handler is dropped between two calls.
Disconnect(s) ==
  /\ pc[s] \notin {"idle", "done"}
  /\ Fault
  /\ Free(s)
  /\ UNCHANGED <<row, s3Bucket, lake, dropped>>

\* The process exits and starts again; all three stores outlive it.
Crash ==
  /\ spent.crashes < MaxCrashes
  /\ Spend("crashes")
  /\ pc' = [s \in Slots |-> "idle"]
  /\ req' = [s \in Slots |-> NoRequest]
  /\ id' = [s \in Slots |-> NoId]
  /\ reply' = [s \in Slots |-> "none"]
  /\ UNCHANGED <<row, s3Bucket, lake, dropped>>

-----------------------------------------------------------------------------
(* CreateTableBucket: bucket, warehouse, row; the warehouse is undone if   *)
(* the row cannot be inserted.                                             *)

EnsureBucket(s) ==
  /\ pc[s] = "ensure_bucket"
  /\ \/ /\ s3Bucket' = s3Bucket \cup {Bucket(s)}
        /\ Goto(s, "create_warehouse")
        /\ UNCHANGED <<reply, spent>>
     \/ /\ Fault
        /\ s3Bucket' \in {s3Bucket, s3Bucket \cup {Bucket(s)}}
        /\ Finish(s, "Internal")
  /\ UNCHANGED <<row, lake, req, id, dropped>>

\* Lakekeeper makes a warehouse named b and hands out its id.
Mint(b) == /\ minted' = minted + 1
           /\ warehouse' = [warehouse EXCEPT ![minted'] = b]

Holders(b) == {w \in Ids : warehouse[w] = b}

\* Mutant of CreateWarehouse: a taken name is looked up and its id used, as
\* the comment on the conflict arm has it.
CreateOrLookUp(s) ==
  /\ pc[s] = "create_warehouse"
  /\ \/ /\ Holders(Bucket(s)) = {}
        /\ minted < MaxWarehouses
        /\ Mint(Bucket(s))
        /\ id' = [id EXCEPT ![s] = minted']
     \/ /\ \E w \in Holders(Bucket(s)) : id' = [id EXCEPT ![s] = w]
        /\ UNCHANGED <<minted, warehouse>>
  /\ Goto(s, "insert_row")
  /\ UNCHANGED <<row, s3Bucket, namespaces, tables, purging, req, reply, dropped, spent>>

\* A taken name is Lakekeeper's 409, which the handler turns into a 500.
CreateWarehouse(s) ==
  /\ pc[s] = "create_warehouse"
  /\ \/ /\ Holders(Bucket(s)) # {}
        /\ Finish(s, "Internal")
        /\ UNCHANGED <<minted, warehouse, id, spent>>
     \/ /\ Holders(Bucket(s)) = {}
        /\ minted < MaxWarehouses
        /\ Mint(Bucket(s))
        /\ id' = [id EXCEPT ![s] = minted']
        /\ Goto(s, "insert_row")
        /\ UNCHANGED <<reply, spent>>
     \/ /\ Fault
        /\ \/ UNCHANGED <<minted, warehouse>>
           \/ Holders(Bucket(s)) = {} /\ minted < MaxWarehouses /\ Mint(Bucket(s))
        /\ Finish(s, "Internal")
        /\ UNCHANGED id
  /\ UNCHANGED <<row, s3Bucket, namespaces, tables, purging, req, dropped>>

\* Mutant of InsertRow: INSERT OR IGNORE.
InsertOrIgnore(s) ==
  /\ pc[s] = "insert_row"
  /\ row' = [row EXCEPT ![Bucket(s)] = IF @ = NoId THEN id[s] ELSE @]
  /\ Finish(s, "ok")
  /\ UNCHANGED <<s3Bucket, lake, req, id, dropped, spent>>

\* A taken name and a failed statement both call for the rollback.
InsertRow(s) ==
  /\ pc[s] = "insert_row"
  /\ \/ /\ row[Bucket(s)] = NoId
        /\ row' = [row EXCEPT ![Bucket(s)] = id[s]]
        /\ Finish(s, "ok")
        /\ UNCHANGED spent
     \/ /\ \/ row[Bucket(s)] # NoId /\ Answer(s, "Conflict") /\ UNCHANGED spent
           \/ Fault /\ Answer(s, "Internal")
        /\ Goto(s, "undo")
        /\ UNCHANGED row
  /\ UNCHANGED <<s3Bucket, lake, req, id, dropped>>

\* Lakekeeper deletes warehouse w with all it holds, unless a purge of one of
\* its tables is unfinished; an absent warehouse is fine.
Remove(w) ==
  IF w \in purging
    THEN UNCHANGED <<warehouse, namespaces, tables>>
    ELSE /\ warehouse' = [warehouse EXCEPT ![w] = NoName]
         /\ namespaces' = [namespaces EXCEPT ![w] = {}]
         /\ tables' = [tables EXCEPT ![w] = {}]

\* Mutant of UndoWarehouse: the error is answered without the rollback.
AnswerOnly(s) ==
  /\ pc[s] = "undo"
  /\ Goto(s, "done")
  /\ UNCHANGED <<row, s3Bucket, lake, req, id, reply, dropped, spent>>

\* The answer to the rollback's delete is not looked at.
UndoWarehouse(s) ==
  /\ pc[s] = "undo"
  /\ \/ Remove(id[s]) /\ UNCHANGED spent
     \/ Fault /\ UNCHANGED <<warehouse, namespaces, tables>>
  /\ Goto(s, "done")
  /\ UNCHANGED <<row, s3Bucket, minted, purging, req, id, reply, dropped>>

-----------------------------------------------------------------------------
(* DeleteTableBucket: row looked up, warehouse deleted, row deleted.       *)

\* The handlers that need the warehouse id read it from the bucket's row.
LookUp(s, next) ==
  \/ /\ row[Bucket(s)] = NoId
     /\ Finish(s, "NotFound")
     /\ UNCHANGED <<id, spent>>
  \/ /\ row[Bucket(s)] # NoId
     /\ id' = [id EXCEPT ![s] = row[Bucket(s)]]
     /\ Goto(s, next)
     /\ UNCHANGED <<reply, spent>>
  \/ /\ Fault
     /\ Finish(s, "Internal")
     /\ UNCHANGED id

\* Mutant of GetRow: a missing row read as one with an empty id.
GetAnyRow(s) ==
  /\ pc[s] = "get_row"
  /\ id' = [id EXCEPT ![s] = row[Bucket(s)]]
  /\ Goto(s, "delete_warehouse")
  /\ UNCHANGED <<row, s3Bucket, lake, req, reply, dropped, spent>>

GetRow(s) ==
  /\ pc[s] = "get_row"
  /\ LookUp(s, "delete_warehouse")
  /\ UNCHANGED <<row, s3Bucket, lake, req, dropped>>

\* Mutant of DeleteWarehouse: a 404 is an error.
DeleteKnownWarehouse(s) ==
  /\ pc[s] = "delete_warehouse"
  /\ dropped' = dropped \cup {id[s]}
  /\ IF warehouse[id[s]] = NoName
       THEN Finish(s, "Internal") /\ UNCHANGED <<warehouse, namespaces, tables>>
       ELSE Remove(id[s]) /\ Goto(s, "delete_row") /\ UNCHANGED reply
  /\ UNCHANGED <<row, s3Bucket, minted, purging, req, id, spent>>

\* A 404 and the 409 of unfinished purges both count as deleted.
DeleteWarehouse(s) ==
  /\ pc[s] = "delete_warehouse"
  /\ dropped' = dropped \cup {id[s]}
  /\ \/ /\ Remove(id[s])
        /\ Goto(s, "delete_row")
        /\ UNCHANGED <<reply, spent>>
     \/ /\ Fault
        /\ Remove(id[s]) \/ UNCHANGED <<warehouse, namespaces, tables>>
        /\ Finish(s, "Internal")
  /\ UNCHANGED <<row, s3Bucket, minted, purging, req, id>>

\* The row goes by name, whatever id it holds by now.
DeleteRow(s) ==
  /\ pc[s] = "delete_row"
  /\ \/ /\ row[Bucket(s)] # NoId
        /\ row' = [row EXCEPT ![Bucket(s)] = NoId]
        /\ Finish(s, "ok")
        /\ UNCHANGED spent
     \/ /\ row[Bucket(s)] = NoId
        /\ Finish(s, "NotFound")
        /\ UNCHANGED <<row, spent>>
     \/ /\ Fault
        /\ Finish(s, "Internal")
        /\ UNCHANGED row
  /\ UNCHANGED <<s3Bucket, lake, req, id, dropped>>

-----------------------------------------------------------------------------
(* Namespaces and tables: the id is resolved, then Lakekeeper is called.   *)

\* GetTableBucket is the row and nothing else, ListTableBuckets all rows.
ReadRow(s) ==
  /\ pc[s] = "read_row"
  /\ \/ /\ Finish(s, IF req[s].op = "GetTableBucket" /\ row[Bucket(s)] = NoId THEN "NotFound" ELSE "ok")
        /\ UNCHANGED spent
     \/ Fault /\ Finish(s, "Internal")
  /\ UNCHANGED <<row, s3Bucket, lake, req, id, dropped>>

Resolve(s) ==
  /\ pc[s] = "resolve"
  /\ LookUp(s, "catalog")
  /\ UNCHANGED <<row, s3Bucket, lake, req, dropped>>

\* What handler s asks Lakekeeper about.
Namespace(s)    == req[s].ns
TableName(s)    == <<req[s].ns, req[s].table>>
NamespacesOf(s) == namespaces[id[s]]
TablesOf(s)     == tables[id[s]]
Asks(s, op)     == pc[s] = "catalog" /\ req[s].op = op

\* Lakekeeper's answer to each call; a warehouse that is gone has no namespace.
CreateNamespaceAnswer(s) ==
  CASE warehouse[id[s]] = NoName -> "NotFound"
    [] Namespace(s) \in NamespacesOf(s) -> "Conflict"
    [] OTHER -> "ok"
DeleteNamespaceAnswer(s) ==
  CASE Namespace(s) \notin NamespacesOf(s) -> "NotFound"
    [] \E t \in TableNames : <<Namespace(s), t>> \in TablesOf(s) -> "Internal"
    [] OTHER -> "ok"
CreateTableAnswer(s) ==
  CASE Namespace(s) \notin NamespacesOf(s) -> "NotFound"
    [] TableName(s) \in TablesOf(s) -> "Conflict"
    [] OTHER -> "ok"
DeleteTableAnswer(s) == IF TableName(s) \in TablesOf(s) THEN "ok" ELSE "NotFound"
ReadAnswer(s) ==
  CASE req[s].op \in OfBucket    -> IF warehouse[id[s]] # NoName THEN "ok" ELSE "NotFound"
    [] req[s].op \in OfNamespace -> IF Namespace(s) \in NamespacesOf(s) THEN "ok" ELSE "NotFound"
    [] req[s].op \in OfTable     -> IF TableName(s) \in TablesOf(s) THEN "ok" ELSE "NotFound"

\* Mutant of Call: an answer that was lost is told as a 404.
CallOrNotFound(s, answer, N, T, P) ==
  LET Effect == /\ namespaces' = [namespaces EXCEPT ![id[s]] = N]
                /\ tables' = [tables EXCEPT ![id[s]] = T]
                /\ purging' = P
      None == UNCHANGED <<namespaces, tables, purging>>
  IN
  /\ \/ /\ IF answer = "ok" THEN Effect ELSE None
        /\ Finish(s, answer)
        /\ UNCHANGED spent
     \/ /\ Fault
        /\ None \/ (answer = "ok" /\ Effect)
        /\ Finish(s, "NotFound")
  /\ UNCHANGED <<row, s3Bucket, warehouse, minted, req, id, dropped>>

\* The call: with the answer "ok" the warehouse holds N and T afterwards; a
\* fault loses the answer, the effect or both.
Call(s, answer, N, T, P) ==
  LET Effect == /\ namespaces' = [namespaces EXCEPT ![id[s]] = N]
                /\ tables' = [tables EXCEPT ![id[s]] = T]
                /\ purging' = P
      None == UNCHANGED <<namespaces, tables, purging>>
  IN
  /\ \/ /\ IF answer = "ok" THEN Effect ELSE None
        /\ Finish(s, answer)
        /\ UNCHANGED spent
     \/ /\ Fault
        /\ None \/ (answer = "ok" /\ Effect)
        /\ Finish(s, "Internal")
  /\ UNCHANGED <<row, s3Bucket, warehouse, minted, req, id, dropped>>

CreateNamespace(s) ==
  /\ Asks(s, "CreateNamespace")
  /\ Call(s, CreateNamespaceAnswer(s), NamespacesOf(s) \cup {Namespace(s)}, TablesOf(s), purging)

DeleteNamespace(s) ==
  /\ Asks(s, "DeleteNamespace")
  /\ Call(s, DeleteNamespaceAnswer(s), NamespacesOf(s) \ {Namespace(s)}, TablesOf(s), purging)

CreateTable(s) ==
  /\ Asks(s, "CreateTable")
  /\ Call(s, CreateTableAnswer(s), NamespacesOf(s), TablesOf(s) \cup {TableName(s)}, purging)

\* The data of the table is purged later.
DeleteTable(s) ==
  /\ Asks(s, "DeleteTable")
  /\ Call(s, DeleteTableAnswer(s), NamespacesOf(s), TablesOf(s) \ {TableName(s)},
          purging \cup {id[s]})

\* ListNamespaces, GetNamespace, ListTables, GetTable and the like.
ReadCatalog(s) ==
  /\ \E op \in {"ListNamespaces", "GetNamespace", "ListTables", "GetTable"} : Asks(s, op)
  /\ Call(s, ReadAnswer(s), NamespacesOf(s), TablesOf(s), purging)

\* Lakekeeper's background worker finishes the purges of a warehouse.
FinishPurge(w) ==
  /\ w \in purging
  /\ purging' = purging \ {w}
  /\ UNCHANGED <<row, s3Bucket, warehouse, minted, namespaces, tables, slots, dropped, spent>>

-----------------------------------------------------------------------------

Step(s) == \/ EnsureBucket(s) \/ CreateWarehouse(s) \/ InsertRow(s) \/ UndoWarehouse(s)
           \/ GetRow(s) \/ DeleteWarehouse(s) \/ DeleteRow(s)
           \/ ReadRow(s) \/ Resolve(s) \/ ReadCatalog(s)
           \/ CreateNamespace(s) \/ DeleteNamespace(s) \/ CreateTable(s) \/ DeleteTable(s)
           \/ Deliver(s)

\* Every request is answered and the server waits for the next one.
Quiet == /\ \A s \in Slots : pc[s] = "idle"
         /\ UNCHANGED <<row, s3Bucket, lake, slots, dropped, spent>>

\* The bucket s asks for has no row or its warehouse is gone, or the namespace
\* or the table it names is not in that warehouse.
Missing(s) ==
  LET w == row[Bucket(s)] IN
  \/ w = NoId
  \/ /\ req[s].op \in CatalogOps
     /\ \/ warehouse[w] = NoName
        \/ req[s].op \in OfNamespace /\ Namespace(s) \notin namespaces[w]
        \/ req[s].op \in OfTable /\ TableName(s) \notin tables[w]

\* A deletion takes a row that points at another warehouse than the one it read.
Overtaken(s) == /\ pc[s] = "delete_row" /\ row[Bucket(s)] \notin {NoId, id[s]}
                /\ pc'[s] = "done"

\* History: after each step, was anything missing since its request came in?
Watch ==
  /\ missed' = [s \in Slots |-> pc'[s] # "idle" /\ (missed[s] \/ (Missing(s))')]
  /\ overtaken' = overtaken \cup {w \in Ids : \E s \in Slots : Overtaken(s) /\ w = row[Bucket(s)]}

Next == /\ \/ \E s \in Slots : Receive(s) \/ Step(s) \/ Disconnect(s)
           \/ \E w \in Ids : FinishPurge(w)
           \/ Crash
           \/ Quiet
        /\ Watch

Spec == Init /\ [][Next]_vars

-----------------------------------------------------------------------------
(* Properties.                                                             *)

\* Every variable holds a value of its kind.
TypeOK ==
  /\ row \in [Buckets -> Ids \cup {NoId}]
  /\ s3Bucket \subseteq Buckets
  /\ warehouse \in [Ids -> Buckets \cup {NoName}]
  /\ minted \in 0..MaxWarehouses
  /\ namespaces \in [Ids -> SUBSET Namespaces]
  /\ tables \in [Ids -> SUBSET (Namespaces \X TableNames)]
  /\ purging \subseteq Ids
  /\ pc \in [Slots -> PC]
  /\ req \in [Slots -> Requests \cup {NoRequest}]
  /\ id \in [Slots -> Ids \cup {NoId}]
  /\ reply \in [Slots -> Replies]
  /\ dropped \subseteq Ids
  /\ missed \in [Slots -> BOOLEAN]
  /\ overtaken \subseteq Ids
  /\ spent \in [requests : 0..MaxRequests, faults : 0..MaxFaults, crashes : 0..MaxCrashes]

\* The warehouse a row points at exists and has the bucket's name, unless a
\* DeleteTableBucket asked for it to be dropped: the rollback of one
\* CreateTableBucket never takes the warehouse of another.
RowBacked == \A b \in Buckets :
  row[b] # NoId /\ row[b] \notin dropped => warehouse[row[b]] = b

\* When a CreateTableBucket succeeds all three stores have the bucket, and the
\* row names the warehouse this handler made: no concurrent create or delete
\* took it in between.
CreatedIsUsable ==
  [][\A s \in Slots :
       pc[s] # "done" /\ pc'[s] = "done" /\ reply'[s] = "ok" /\ req[s].op = "CreateTableBucket"
         => /\ row'[Bucket(s)] = id[s]
            /\ warehouse'[id[s]] = Bucket(s)
            /\ Bucket(s) \in s3Bucket']_vars

\* As long as no call fails a DeleteTableBucket completes or finds nothing,
\* however far an earlier one got before the process died and whatever another
\* one does meanwhile.
DeleteRecovers ==
  spent.faults = 0 =>
    \A s \in Slots : pc[s] = "done" /\ req[s].op = "DeleteTableBucket"
                       => reply[s] \in {"ok", "NotFound"}

\* What a handler calls not found was not there at a moment while it ran, also
\* when it asked with the id of a warehouse that its bucket no longer has.
NotFoundIsTrue ==
  \A s \in Slots : pc[s] = "done" /\ reply[s] = "NotFound" => missed[s]

\* A warehouse that no row points at is one a create is about to use, or is left
\* over for one of four reasons: a failed or dropped call, a process exit, a
\* deletion that accepted the 409 of an unfinished purge, and a deletion that
\* took by name the row of a bucket made since.  There is no fifth way for a
\* name to be blocked: the rollback of a create leaves nothing.
LeftoversKnown ==
  spent.faults = 0 /\ spent.crashes = 0 =>
    \A w \in Ids : warehouse[w] # NoName =>
      \/ row[warehouse[w]] = w
      \/ \E s \in Slots : pc[s] \in {"insert_row", "undo"} /\ id[s] = w
      \/ w \in dropped \cup overtaken

\* While both stores are healthy a CreateTableBucket of a name that has no row
\* is not blocked by a warehouse that is left over.
FreshNameCreates ==
  \A s \in Slots : pc[s] = "done" /\ req[s].op = "CreateTableBucket" /\ reply[s] = "Internal"
                     => row[Bucket(s)] # NoId
=============================================================================
