------------------------ MODULE TableService_proofs ------------------------
(***************************************************************************)
(* TableService keeps its types, a rollback never takes the warehouse of   *)
(* another bucket, a bucket that was created is usable, a delete completes *)
(* and what is called not found was missing; a warehouse that no row names *)
(* is in the hands of its create, or a fault or a delete left it behind;   *)
(* and the service implements TableApi: for every set of names, slots and  *)
(* requests and every bound on warehouses, requests, faults and crashes.   *)
(***************************************************************************)
EXTENDS TableServiceApi, TLAPS

\* A busy slot has a request, its handler is at a place of its operation, it
\* holds a warehouse id where it is about to use one, and a rollback ends in an
\* error.
Placed ==
  \A s \in Slots :
    /\ pc[s] # "idle" => req[s] \in Requests
    /\ pc[s] \in {"ensure_bucket", "create_warehouse", "insert_row", "undo"}
         => req[s].op = "CreateTableBucket"
    /\ pc[s] \in {"get_row", "delete_warehouse", "delete_row"}
         => req[s].op = "DeleteTableBucket"
    /\ pc[s] = "read_row" => req[s].op \in {"GetTableBucket", "ListTableBuckets"}
    /\ pc[s] \in {"resolve", "catalog"} => req[s].op \in CatalogOps
    /\ pc[s] \in {"insert_row", "undo", "delete_warehouse", "catalog"} => id[s] \in Ids
    /\ pc[s] = "undo" => reply[s] \in {"Conflict", "Internal"}

TypeInv == TypeOK /\ Placed

\* A CreateTableBucket that has a warehouse and no row for it yet.
Fresh(s) == pc[s] \in {"insert_row", "undo"}

\* A warehouse id that was not handed out is nobody's.
Unminted ==
  /\ \A b \in Buckets : row[b] # NoId => row[b] <= minted
  /\ \A w \in dropped : w <= minted
  /\ \A s \in Slots : pc[s] \in {"insert_row", "undo", "delete_warehouse"} => id[s] <= minted

\* A fresh warehouse has the bucket's name and its handler alone knows it.
FreshIsOwn ==
  \A s \in Slots : Fresh(s) =>
    /\ warehouse[id[s]] = Bucket(s)
    /\ id[s] \notin dropped
    /\ \A b \in Buckets : row[b] # id[s]
    /\ \A z \in Slots : Fresh(z) \/ pc[z] = "delete_warehouse" => z = s \/ id[z] # id[s]

BackedInv == TypeInv /\ Unminted /\ FreshIsOwn /\ RowBacked

\* Past its first step a CreateTableBucket has its object-store bucket.
Ensured == \A s \in Slots : pc[s] = "create_warehouse" \/ Fresh(s) => Bucket(s) \in s3Bucket

\* A warehouse id that is no longer the bucket's was, when the row was deleted.
StaleIsMissed ==
  \A s \in Slots : pc[s] = "catalog" /\ row[Bucket(s)] # id[s] => missed[s]
-----------------------------------------------------------------------------

\* What a busy handler's request says.
LEMMA RequestFacts ==
  ASSUME TypeInv, NEW s \in Slots, pc[s] # "idle"
  PROVE  /\ req[s] \in Requests
         /\ Bucket(s) \in Buckets
         /\ Namespace(s) \in Namespaces
         /\ TableName(s) \in Namespaces \X TableNames
         /\ req[s].op \in BucketOps \cup CatalogOps
<1>1. req[s] \in Requests
  BY DEF TypeInv, Placed
<1>2. req[s] \in Request
  BY <1>1, TableConstants
<1> QED
  BY <1>1, <1>2 DEF Request, Bucket, Namespace, TableName

\* A call of the catalog.
CatalogStep(s) == \/ ReadCatalog(s) \/ CreateNamespace(s) \/ DeleteNamespace(s)
                  \/ CreateTable(s) \/ DeleteTable(s)

\* What the catalog calls not found is not there.
Absent(s) ==
  \/ warehouse[id[s]] = NoName
  \/ req[s].op \in OfNamespace /\ Namespace(s) \notin NamespacesOf(s)
  \/ req[s].op \in OfTable /\ TableName(s) \notin TablesOf(s)

\* A call of the catalog answers, and changes nothing if it finds nothing.
LEMMA CallFacts ==
  ASSUME TypeInv, NEW s \in Slots, CatalogStep(s)
  PROVE  /\ pc[s] = "catalog"
         /\ UNCHANGED <<row, s3Bucket, warehouse, minted, req, id, dropped>>
         /\ namespaces' \in [Ids -> SUBSET Namespaces]
         /\ tables' \in [Ids -> SUBSET (Namespaces \X TableNames)]
         /\ purging' \subseteq Ids
         /\ UNCHANGED spent \/ Fault
         /\ \E r \in Replies \ {"none"} :
              /\ Finish(s, r)
              /\ r = "NotFound" => Absent(s) /\ UNCHANGED <<namespaces, tables>>
<1> USE DEF TypeInv, TypeOK, Placed
<1>1. pc[s] = "catalog" /\ id[s] \in Ids
  BY DEF CatalogStep, ReadCatalog, CreateNamespace, DeleteNamespace, CreateTable, DeleteTable, Asks
<1>2. /\ Namespace(s) \in Namespaces /\ TableName(s) \in Namespaces \X TableNames
      /\ NamespacesOf(s) \subseteq Namespaces /\ TablesOf(s) \subseteq Namespaces \X TableNames
  BY <1>1, RequestFacts DEF NamespacesOf, TablesOf
<1>3. ASSUME NEW answer \in Replies \ {"none"}, NEW N \in SUBSET Namespaces,
             NEW T \in SUBSET (Namespaces \X TableNames), NEW P \in SUBSET Ids,
             answer = "NotFound" => Absent(s), Call(s, answer, N, T, P)
      PROVE  /\ UNCHANGED <<row, s3Bucket, warehouse, minted, req, id, dropped>>
             /\ namespaces' \in [Ids -> SUBSET Namespaces]
             /\ tables' \in [Ids -> SUBSET (Namespaces \X TableNames)]
             /\ purging' \subseteq Ids
             /\ UNCHANGED spent \/ Fault
             /\ \E r \in Replies \ {"none"} :
                  /\ Finish(s, r)
                  /\ r = "NotFound" => Absent(s) /\ UNCHANGED <<namespaces, tables>>
  <2>1. /\ UNCHANGED <<row, s3Bucket, warehouse, minted, req, id, dropped>>
        /\ UNCHANGED spent \/ Fault
    BY <1>3 DEF Call
  <2>2. /\ namespaces' = namespaces \/ namespaces' = [namespaces EXCEPT ![id[s]] = N]
        /\ tables' = tables \/ tables' = [tables EXCEPT ![id[s]] = T]
        /\ purging' = purging \/ purging' = P
    BY <1>3 DEF Call
  <2>3. \E r \in Replies \ {"none"} :
           /\ Finish(s, r)
           /\ r = "NotFound" => Absent(s) /\ UNCHANGED <<namespaces, tables>>
    BY <1>3 DEF Call, Replies
  <2> QED
    BY <1>1, <2>1, <2>2, <2>3
<1>4. CASE ReadCatalog(s)
  <2>1. req[s].op \in {"ListNamespaces", "GetNamespace", "ListTables", "GetTable"}
    BY <1>4 DEF ReadCatalog, Asks
  <2>2. ReadAnswer(s) \in Replies \ {"none"} /\ (ReadAnswer(s) = "NotFound" => Absent(s))
    BY <2>1 DEF ReadAnswer, Absent, Replies, OfBucket, OfNamespace, OfTable
  <2> QED
    BY <1>1, <1>2, <1>3, <1>4, <2>2 DEF ReadCatalog
<1>5. CASE CreateNamespace(s)
  <2>1. /\ CreateNamespaceAnswer(s) \in Replies \ {"none"}
        /\ CreateNamespaceAnswer(s) = "NotFound" => Absent(s)
    BY DEF CreateNamespaceAnswer, Absent, Replies
  <2> QED
    BY <1>1, <1>2, <1>3, <1>5, <2>1 DEF CreateNamespace
<1>6. CASE DeleteNamespace(s)
  <2>1. /\ DeleteNamespaceAnswer(s) \in Replies \ {"none"}
        /\ DeleteNamespaceAnswer(s) = "NotFound" => Absent(s)
    BY <1>6 DEF DeleteNamespaceAnswer, Absent, Replies, OfNamespace, DeleteNamespace, Asks
  <2> QED
    BY <1>1, <1>2, <1>3, <1>6, <2>1 DEF DeleteNamespace
<1>7. CASE CreateTable(s)
  <2>1. /\ CreateTableAnswer(s) \in Replies \ {"none"}
        /\ CreateTableAnswer(s) = "NotFound" => Absent(s)
    BY <1>7 DEF CreateTableAnswer, Absent, Replies, OfNamespace, CreateTable, Asks
  <2> QED
    BY <1>1, <1>2, <1>3, <1>7, <2>1 DEF CreateTable
<1>8. CASE DeleteTable(s)
  <2>1. /\ DeleteTableAnswer(s) \in Replies \ {"none"}
        /\ DeleteTableAnswer(s) = "NotFound" => Absent(s)
    BY <1>8 DEF DeleteTableAnswer, Absent, Replies, OfTable, DeleteTable, Asks
  <2>2. /\ NamespacesOf(s) \in SUBSET Namespaces
        /\ TablesOf(s) \ {TableName(s)} \in SUBSET (Namespaces \X TableNames)
        /\ purging \cup {id[s]} \in SUBSET Ids
    BY <1>1, <1>2
  <2>3. Call(s, DeleteTableAnswer(s), NamespacesOf(s), TablesOf(s) \ {TableName(s)},
             purging \cup {id[s]})
    BY <1>8 DEF DeleteTable
  <2> HIDE DEF TypeInv, TypeOK, Placed
  <2> QED
    BY <1>1, <1>3, <2>1, <2>2, <2>3, Zenon
<1> QED
  BY <1>1, <1>4, <1>5, <1>6, <1>7, <1>8 DEF CatalogStep

\* A fresh installation is well typed, nothing in flight.
LEMMA TypeInit == Init => TypeInv
BY TableConstants DEF Init, TypeInv, TypeOK, Placed, PC, Replies

\* No step of a handler, of the catalog's worker or of a crash breaks the types
\* or takes a handler out of its operation.
LEMMA TypeStep == TypeInv /\ [Next]_vars => TypeInv'
<1> SUFFICES ASSUME TypeInv, [Next]_vars PROVE TypeInv'
  OBVIOUS
<1> USE TableConstants DEF TypeInv, TypeOK, Goto, Answer, Finish, Free, Spend, Fault, lake, PC, Replies
<1>1. ASSUME NEW s \in Slots, Receive(s), Watch PROVE TypeInv'
  <2>1. PICK q \in Requests : req' = [req EXCEPT ![s] = q] /\ Goto(s, FirstPc(q))
    BY <1>1 DEF Receive
  <2>2. /\ FirstPc(q) \in {"ensure_bucket", "get_row", "read_row", "resolve"}
        /\ FirstPc(q) = "ensure_bucket" => q.op = "CreateTableBucket"
        /\ FirstPc(q) = "get_row" => q.op = "DeleteTableBucket"
        /\ FirstPc(q) = "read_row" => q.op \in {"GetTableBucket", "ListTableBuckets"}
        /\ FirstPc(q) = "resolve" => q.op \in CatalogOps
    BY DEF FirstPc, Request, BucketOps
  <2>3. TypeOK'
    BY <1>1, <2>1, <2>2 DEF Receive, Watch
  <2>4. Placed'
    BY <1>1, <2>1, <2>2 DEF Receive, Placed
  <2> QED
    BY <2>3, <2>4
<1>2. ASSUME NEW s \in Slots, Deliver(s), Watch PROVE TypeInv'
  <2>1. TypeOK'
    BY <1>2 DEF Deliver, Watch
  <2>2. Placed'
    BY <1>2 DEF Deliver, Placed
  <2> QED
    BY <2>1, <2>2
<1>3. ASSUME NEW s \in Slots, Disconnect(s), Watch PROVE TypeInv'
  <2>1. TypeOK'
    BY <1>3 DEF Disconnect, Watch
  <2>2. Placed'
    BY <1>3 DEF Disconnect, Placed
  <2> QED
    BY <2>1, <2>2
<1>4. ASSUME Crash, Watch PROVE TypeInv'
  <2>1. TypeOK'
    BY <1>4 DEF Crash, Watch
  <2>2. Placed'
    BY <1>4 DEF Crash, Placed
  <2> QED
    BY <2>1, <2>2
<1>5. ASSUME NEW s \in Slots, EnsureBucket(s), Watch PROVE TypeInv'
  <2>1. Bucket(s) \in Buckets
    BY <1>5, RequestFacts DEF EnsureBucket
  <2>2. TypeOK'
    BY <1>5, <2>1 DEF EnsureBucket, Watch
  <2>3. Placed'
    BY <1>5 DEF EnsureBucket, Placed
  <2> QED
    BY <2>2, <2>3
<1>6. ASSUME NEW s \in Slots, CreateWarehouse(s), Watch PROVE TypeInv'
  <2>1. Bucket(s) \in Buckets
    BY <1>6, RequestFacts DEF CreateWarehouse
  <2>2. minted < MaxWarehouses => minted + 1 \in Ids
    BY DEF Ids
  <2>3. TypeOK'
    BY <1>6, <2>1, <2>2 DEF CreateWarehouse, Mint, Watch
  <2>4. Placed'
    BY <1>6, <2>2 DEF CreateWarehouse, Mint, Placed
  <2> QED
    BY <2>3, <2>4
<1>7. ASSUME NEW s \in Slots, InsertRow(s), Watch PROVE TypeInv'
  <2>1. Bucket(s) \in Buckets /\ id[s] \in Ids
    BY <1>7, RequestFacts DEF InsertRow, Placed
  <2>2. TypeOK'
    BY <1>7, <2>1 DEF InsertRow, Watch
  <2>3. Placed'
    BY <1>7 DEF InsertRow, Placed
  <2> QED
    BY <2>2, <2>3
<1>8. ASSUME NEW s \in Slots, UndoWarehouse(s), Watch PROVE TypeInv'
  <2>1. TypeOK'
    BY <1>8 DEF UndoWarehouse, Remove, Watch
  <2>2. Placed'
    BY <1>8 DEF UndoWarehouse, Placed
  <2> QED
    BY <2>1, <2>2
<1>9. ASSUME NEW s \in Slots, GetRow(s), Watch PROVE TypeInv'
  <2>1. Bucket(s) \in Buckets
    BY <1>9, RequestFacts DEF GetRow
  <2>2. TypeOK'
    BY <1>9, <2>1 DEF GetRow, LookUp, Watch
  <2>3. Placed'
    BY <1>9, <2>1 DEF GetRow, LookUp, Placed
  <2> QED
    BY <2>2, <2>3
<1>10. ASSUME NEW s \in Slots, DeleteWarehouse(s), Watch PROVE TypeInv'
  <2>1. id[s] \in Ids
    BY <1>10 DEF DeleteWarehouse, Placed
  <2>2. TypeOK'
    BY <1>10, <2>1 DEF DeleteWarehouse, Remove, Watch
  <2>3. Placed'
    BY <1>10 DEF DeleteWarehouse, Placed
  <2> QED
    BY <2>2, <2>3
<1>11. ASSUME NEW s \in Slots, DeleteRow(s), Watch PROVE TypeInv'
  <2>1. TypeOK'
    BY <1>11 DEF DeleteRow, Watch
  <2>2. Placed'
    BY <1>11 DEF DeleteRow, Placed
  <2> QED
    BY <2>1, <2>2
<1>12. ASSUME NEW s \in Slots, ReadRow(s), Watch PROVE TypeInv'
  <2>1. TypeOK'
    BY <1>12 DEF ReadRow, Watch
  <2>2. Placed'
    BY <1>12 DEF ReadRow, Placed
  <2> QED
    BY <2>1, <2>2
<1>13. ASSUME NEW s \in Slots, Resolve(s), Watch PROVE TypeInv'
  <2>1. Bucket(s) \in Buckets
    BY <1>13, RequestFacts DEF Resolve
  <2>2. TypeOK'
    BY <1>13, <2>1 DEF Resolve, LookUp, Watch
  <2>3. Placed'
    BY <1>13, <2>1 DEF Resolve, LookUp, Placed
  <2> QED
    BY <2>2, <2>3
<1>14. ASSUME NEW s \in Slots, CatalogStep(s), Watch PROVE TypeInv'
  <2>1. TypeOK'
    BY <1>14, CallFacts DEF Watch
  <2>2. Placed'
    BY <1>14, CallFacts DEF Placed
  <2> QED
    BY <2>1, <2>2
<1>15. ASSUME NEW w \in Ids, FinishPurge(w), Watch PROVE TypeInv'
  <2>1. TypeOK'
    BY <1>15 DEF FinishPurge, slots, Watch
  <2>2. Placed'
    BY <1>15 DEF FinishPurge, slots, Placed
  <2> QED
    BY <2>1, <2>2
<1>16. ASSUME Quiet, Watch PROVE TypeInv'
  <2>1. TypeOK'
    BY <1>16 DEF Quiet, slots, Watch
  <2>2. Placed'
    BY <1>16 DEF Quiet, slots, Placed
  <2> QED
    BY <2>1, <2>2
<1>17. CASE UNCHANGED vars
  BY <1>17 DEF vars, slots, Placed
<1> QED
  BY <1>1, <1>2, <1>3, <1>4, <1>5, <1>6, <1>7, <1>8, <1>9, <1>10, <1>11, <1>12, <1>13,
     <1>14, <1>15, <1>16, <1>17
     DEF Next, Step, CatalogStep

-----------------------------------------------------------------------------
(* Who has which warehouse.                                                *)

LEMMA BackedInit == Init => Unminted /\ FreshIsOwn /\ RowBacked
BY TableConstants DEF Init, Unminted, FreshIsOwn, Fresh, RowBacked

\* What depends on the rows, the warehouses and the ids of handlers that are
\* about to use one stays when those do, and none gets to such a place.
LEMMA BackedFrame ==
  ASSUME BackedInv, minted' \in Nat, minted <= minted',
         UNCHANGED <<row, warehouse, dropped>>,
         \A s \in Slots : pc'[s] \in {"insert_row", "undo", "delete_warehouse"} =>
           pc'[s] = pc[s] /\ id'[s] = id[s] /\ req'[s] = req[s]
  PROVE  Unminted' /\ FreshIsOwn' /\ RowBacked'
<1> USE DEF BackedInv, TypeInv, TypeOK, Placed, Ids
<1>1. Unminted'
  BY TableConstants DEF Unminted
<1>2. FreshIsOwn'
  BY DEF FreshIsOwn, Fresh, Bucket
<1>3. RowBacked'
  BY DEF RowBacked
<1> QED
  BY <1>1, <1>2, <1>3

\* Every warehouse that is handed out is new, a rollback takes the one its
\* handler made, and a delete the one it read from the row.
LEMMA BackedStep ==
  BackedInv /\ [Next]_vars => Unminted' /\ FreshIsOwn' /\ RowBacked'
<1> SUFFICES ASSUME BackedInv, [Next]_vars PROVE Unminted' /\ FreshIsOwn' /\ RowBacked'
  OBVIOUS
<1> USE TableConstants DEF BackedInv, TypeInv, TypeOK, Goto, Answer, Finish, Free, Spend, Fault, lake, Ids
<1>0. ASSUME NEW s \in Slots, NEW p, p \notin {"insert_row", "undo", "delete_warehouse"},
             pc' = [pc EXCEPT ![s] = p],
             \A z \in Slots : z # s => id'[z] = id[z] /\ req'[z] = req[z],
             UNCHANGED <<row, warehouse, minted, dropped>>
      PROVE  Unminted' /\ FreshIsOwn' /\ RowBacked'
  <2>1. \A z \in Slots : pc'[z] = IF z = s THEN p ELSE pc[z]
    BY <1>0
  <2> QED
    BY <1>0, <2>1, BackedFrame
<1>1. ASSUME NEW s \in Slots, Receive(s) PROVE Unminted' /\ FreshIsOwn' /\ RowBacked'
  <2>1. PICK q \in Requests : req' = [req EXCEPT ![s] = q] /\ Goto(s, FirstPc(q))
    BY <1>1 DEF Receive
  <2>2. FirstPc(q) \in {"ensure_bucket", "get_row", "read_row", "resolve"}
    BY DEF FirstPc, Request, BucketOps
  <2>3. UNCHANGED <<row, warehouse, minted, id, dropped>>
    BY <1>1 DEF Receive
  <2> QED
    BY <1>0, <2>1, <2>2, <2>3
<1>2. ASSUME NEW s \in Slots,
             \/ Deliver(s) \/ Disconnect(s) \/ EnsureBucket(s) \/ ReadRow(s) \/ Resolve(s)
      PROVE  Unminted' /\ FreshIsOwn' /\ RowBacked'
  <2>1. UNCHANGED <<row, warehouse, minted, dropped>>
    BY <1>2 DEF Deliver, Disconnect, EnsureBucket, ReadRow, Resolve
  <2>2. \A z \in Slots : z # s => id'[z] = id[z] /\ req'[z] = req[z]
    BY <1>2 DEF Deliver, Disconnect, EnsureBucket, ReadRow, Resolve, LookUp
  <2>3. \E p \in {"idle", "create_warehouse", "done", "catalog"} : pc' = [pc EXCEPT ![s] = p]
    BY <1>2 DEF Deliver, Disconnect, EnsureBucket, ReadRow, Resolve, LookUp
  <2> QED
    BY <1>0, <2>1, <2>2, <2>3
<1>3. ASSUME Crash PROVE Unminted' /\ FreshIsOwn' /\ RowBacked'
  BY <1>3, BackedFrame DEF Crash
<1>4. ASSUME NEW s \in Slots, CatalogStep(s) PROVE Unminted' /\ FreshIsOwn' /\ RowBacked'
  <2>1. /\ UNCHANGED <<row, warehouse, minted, req, id, dropped>>
        /\ pc' = [pc EXCEPT ![s] = "done"]
    BY <1>4, CallFacts
  <2> QED
    BY <2>1, BackedFrame
<1>5. ASSUME NEW w \in Ids, FinishPurge(w) PROVE Unminted' /\ FreshIsOwn' /\ RowBacked'
  BY <1>5, BackedFrame DEF FinishPurge, slots
<1>6. ASSUME Quiet \/ UNCHANGED vars PROVE Unminted' /\ FreshIsOwn' /\ RowBacked'
  BY <1>6, BackedFrame DEF Quiet, vars, slots
<1>7. ASSUME NEW s \in Slots, CreateWarehouse(s) PROVE Unminted' /\ FreshIsOwn' /\ RowBacked'
  <2>1. CASE UNCHANGED <<minted, warehouse>> /\ Finish(s, "Internal")
    BY <1>7, <2>1, BackedFrame DEF CreateWarehouse
  <2>2. CASE minted < MaxWarehouses /\ Mint(Bucket(s))
    <3>1. /\ minted' = minted + 1 /\ minted' \in Ids
          /\ warehouse' = [warehouse EXCEPT ![minted'] = Bucket(s)]
          /\ UNCHANGED <<row, req, dropped>>
      BY <1>7, <2>2 DEF CreateWarehouse, Mint
    <3>2. /\ \A z \in Slots : z # s => pc'[z] = pc[z] /\ id'[z] = id[z]
          /\ pc'[s] = "insert_row" => id'[s] = minted'
          /\ pc'[s] \in {"insert_row", "done"}
      BY <1>7, <2>2 DEF CreateWarehouse, Mint
    <3>3. \A w \in Ids : w <= minted => w # minted' /\ warehouse'[w] = warehouse[w] /\ w <= minted'
      BY <3>1
    <3>4. Unminted'
      <4>1. \A z \in Slots : pc'[z] \in {"insert_row", "undo", "delete_warehouse"} => id'[z] <= minted'
        BY <3>1, <3>2, <3>3 DEF Unminted, Placed
      <4>2. \A b \in Buckets : row'[b] # NoId => row'[b] <= minted'
        BY <3>1, <3>3 DEF Unminted
      <4>3. \A w \in dropped' : w <= minted'
        BY <3>1, <3>3 DEF Unminted
      <4> QED
        BY <4>1, <4>2, <4>3 DEF Unminted
    <3>5. FreshIsOwn'
      <4>1. ASSUME NEW z \in Slots, z # s, Fresh(z)' \/ pc'[z] = "delete_warehouse"
            PROVE  /\ id'[z] = id[z] /\ pc'[z] = pc[z] /\ id[z] \in Ids /\ id[z] <= minted
                   /\ warehouse'[id[z]] = warehouse[id[z]] /\ id[z] # minted'
        BY <3>1, <3>2, <3>3, <4>1 DEF Fresh, Unminted, Placed
      <4>2. ASSUME Fresh(s)'
            PROVE  /\ id'[s] = minted' /\ warehouse'[id'[s]] = Bucket(s)'
                   /\ id'[s] \notin dropped' /\ \A b \in Buckets : row'[b] # id'[s]
        BY <3>1, <3>2, <3>3, <4>2 DEF Fresh, Bucket, Unminted
      <4>3. ASSUME NEW z \in Slots, z # s, Fresh(z)'
            PROVE  /\ warehouse'[id'[z]] = Bucket(z)'
                   /\ id'[z] \notin dropped' /\ \A b \in Buckets : row'[b] # id'[z]
        BY <3>1, <4>1, <4>3 DEF Fresh, FreshIsOwn, Bucket
      <4>4. ASSUME NEW z \in Slots, Fresh(z)', NEW y \in Slots, Fresh(y)' \/ pc'[y] = "delete_warehouse"
            PROVE  y = z \/ id'[y] # id'[z]
        <5>1. CASE z = s
          BY <3>2, <4>1, <4>2, <4>4, <5>1
        <5>2. CASE y = s
          BY <3>2, <4>1, <4>2, <4>4, <5>2 DEF Fresh
        <5>3. CASE z # s /\ y # s
          BY <4>1, <4>4, <5>3 DEF Fresh, FreshIsOwn
        <5> QED
          BY <5>1, <5>2, <5>3
      <4> QED
        BY <4>2, <4>3, <4>4 DEF FreshIsOwn
    <3>6. RowBacked'
      BY <3>1, <3>3 DEF RowBacked, Unminted
    <3> QED
      BY <3>4, <3>5, <3>6
  <2> QED
    BY <1>7, <2>1, <2>2 DEF CreateWarehouse
<1>8. ASSUME NEW s \in Slots, InsertRow(s) PROVE Unminted' /\ FreshIsOwn' /\ RowBacked'
  <2>1. Bucket(s) \in Buckets /\ id[s] \in Ids /\ id[s] <= minted
    BY <1>8, RequestFacts DEF InsertRow, Placed, Unminted
  <2>2. CASE row' = [row EXCEPT ![Bucket(s)] = id[s]] /\ Finish(s, "ok")
    <3>1. Unminted'
      BY <1>8, <2>1, <2>2 DEF InsertRow, Unminted
    <3>2. FreshIsOwn'
      BY <1>8, <2>1, <2>2 DEF InsertRow, FreshIsOwn, Fresh, Bucket
    <3>3. RowBacked'
      BY <1>8, <2>1, <2>2 DEF InsertRow, FreshIsOwn, Fresh, RowBacked
    <3> QED
      BY <3>1, <3>2, <3>3
  <2>3. CASE Goto(s, "undo") /\ UNCHANGED row
    <3>1. Unminted'
      BY <1>8, <2>1, <2>3 DEF InsertRow, Unminted
    <3>2. FreshIsOwn'
      BY <1>8, <2>3 DEF InsertRow, FreshIsOwn, Fresh, Bucket
    <3>3. RowBacked'
      BY <1>8, <2>3 DEF InsertRow, RowBacked
    <3> QED
      BY <3>1, <3>2, <3>3
  <2> QED
    BY <1>8, <2>2, <2>3 DEF InsertRow
<1>9. ASSUME NEW s \in Slots, UndoWarehouse(s) PROVE Unminted' /\ FreshIsOwn' /\ RowBacked'
  <2>1. /\ UNCHANGED <<row, minted, dropped, id, req>>
        /\ pc[s] = "undo" /\ pc' = [pc EXCEPT ![s] = "done"]
        /\ warehouse' = warehouse \/ warehouse' = [warehouse EXCEPT ![id[s]] = NoName]
    BY <1>9 DEF UndoWarehouse, Remove
  <2>2. \A w \in Ids : w # id[s] => warehouse'[w] = warehouse[w]
    BY <2>1
  <2>3. Unminted'
    BY <2>1 DEF Unminted
  <2>4. FreshIsOwn'
    BY <2>1, <2>2 DEF FreshIsOwn, Fresh, Bucket, Placed
  <2>5. RowBacked'
    BY <2>1, <2>2 DEF FreshIsOwn, Fresh, RowBacked
  <2> QED
    BY <2>3, <2>4, <2>5
<1>10. ASSUME NEW s \in Slots, GetRow(s) PROVE Unminted' /\ FreshIsOwn' /\ RowBacked'
  <2>1. Bucket(s) \in Buckets
    BY <1>10, RequestFacts DEF GetRow
  <2>2. Unminted'
    BY <1>10, <2>1 DEF GetRow, LookUp, Unminted
  <2>3. FreshIsOwn'
    <3>1. /\ UNCHANGED <<row, warehouse, req, dropped>>
          /\ \A z \in Slots : z # s => pc'[z] = pc[z] /\ id'[z] = id[z]
          /\ pc'[s] = "done" \/ (pc'[s] = "delete_warehouse" /\ id'[s] = row[Bucket(s)])
      BY <1>10 DEF GetRow, LookUp
    <3>2. ASSUME NEW z \in Slots, Fresh(z)'
          PROVE  z # s /\ Fresh(z) /\ id'[z] = id[z] /\ Bucket(z)' = Bucket(z)
      BY <3>1, <3>2 DEF Fresh, Bucket
    <3>3. ASSUME NEW z \in Slots, Fresh(z)', NEW y \in Slots, Fresh(y)' \/ pc'[y] = "delete_warehouse"
          PROVE  y = z \/ id'[y] # id'[z]
      BY <2>1, <3>1, <3>2, <3>3 DEF FreshIsOwn, Fresh
    <3> QED
      BY <3>1, <3>2, <3>3 DEF FreshIsOwn
  <2>4. RowBacked'
    BY <1>10 DEF GetRow, RowBacked
  <2> QED
    BY <2>2, <2>3, <2>4
<1>11. ASSUME NEW s \in Slots, DeleteWarehouse(s) PROVE Unminted' /\ FreshIsOwn' /\ RowBacked'
  <2>1. /\ UNCHANGED <<row, minted, id, req>>
        /\ dropped' = dropped \cup {id[s]}
        /\ pc[s] = "delete_warehouse" /\ id[s] \in Ids
        /\ pc'[s] \in {"delete_row", "done"} /\ \A z \in Slots : z # s => pc'[z] = pc[z]
        /\ warehouse' = warehouse \/ warehouse' = [warehouse EXCEPT ![id[s]] = NoName]
    BY <1>11 DEF DeleteWarehouse, Remove, Placed
  <2>2. \A w \in Ids : w # id[s] => warehouse'[w] = warehouse[w]
    BY <2>1
  <2>3. Unminted'
    BY <2>1 DEF Unminted
  <2>4. FreshIsOwn'
    BY <2>1, <2>2 DEF FreshIsOwn, Fresh, Bucket, Placed
  <2>5. RowBacked'
    BY <2>1, <2>2 DEF RowBacked
  <2> QED
    BY <2>3, <2>4, <2>5
<1>12. ASSUME NEW s \in Slots, DeleteRow(s) PROVE Unminted' /\ FreshIsOwn' /\ RowBacked'
  <2>1. /\ UNCHANGED <<minted, id, req, dropped, warehouse>>
        /\ \A b \in Buckets : row'[b] = row[b] \/ row'[b] = NoId
        /\ pc' = [pc EXCEPT ![s] = "done"]
    BY <1>12 DEF DeleteRow
  <2>2. Unminted'
    BY <2>1 DEF Unminted
  <2>3. FreshIsOwn'
    BY <2>1 DEF FreshIsOwn, Fresh, Bucket, Placed
  <2>4. RowBacked'
    BY <2>1 DEF RowBacked
  <2> QED
    BY <2>2, <2>3, <2>4
<1> QED
  BY <1>1, <1>2, <1>3, <1>4, <1>5, <1>6, <1>7, <1>8, <1>9, <1>10, <1>11, <1>12
     DEF Next, Step, CatalogStep

-----------------------------------------------------------------------------
(* What an answer says.                                                    *)

LEMMA EnsuredInit == Init => Ensured
BY DEF Init, Ensured, Fresh

\* Nothing takes an object-store bucket away.
LEMMA EnsuredStep == TypeInv /\ Ensured /\ [Next]_vars => Ensured'
<1> SUFFICES ASSUME TypeInv, Ensured, [Next]_vars PROVE Ensured'
  OBVIOUS
<1> USE DEF TypeInv, TypeOK, Goto, Answer, Finish, Free, Spend, Fault, lake, slots, Ensured, Fresh, Bucket
<1>1. ASSUME NEW s \in Slots, Receive(s) PROVE Ensured'
  <2>1. PICK q \in Requests : req' = [req EXCEPT ![s] = q] /\ Goto(s, FirstPc(q))
    BY <1>1 DEF Receive
  <2>2. FirstPc(q) \in {"ensure_bucket", "get_row", "read_row", "resolve"}
    BY DEF FirstPc
  <2> QED
    BY <1>1, <2>1, <2>2 DEF Receive
<1>2. ASSUME NEW s \in Slots,
             \/ Deliver(s) \/ Disconnect(s) \/ EnsureBucket(s) \/ ReadRow(s) \/ Resolve(s)
             \/ CreateWarehouse(s) \/ InsertRow(s) \/ UndoWarehouse(s) \/ GetRow(s)
             \/ DeleteWarehouse(s) \/ DeleteRow(s)
      PROVE  Ensured'
  BY <1>2 DEF Deliver, Disconnect, EnsureBucket, ReadRow, Resolve, LookUp, CreateWarehouse,
              InsertRow, UndoWarehouse, GetRow, DeleteWarehouse, DeleteRow
<1>3. ASSUME Crash PROVE Ensured'
  BY <1>3 DEF Crash
<1>4. ASSUME NEW s \in Slots, CatalogStep(s) PROVE Ensured'
  BY <1>4, CallFacts
<1>5. ASSUME NEW w \in Ids, FinishPurge(w) PROVE Ensured'
  BY <1>5 DEF FinishPurge
<1>6. ASSUME Quiet \/ UNCHANGED vars PROVE Ensured'
  BY <1>6 DEF Quiet, vars
<1> QED
  BY <1>1, <1>2, <1>3, <1>4, <1>5, <1>6 DEF Next, Step, CatalogStep

\* A handler that ends at this step is at the last place of its operation.
LEMMA Endings ==
  ASSUME TypeInv, [Next]_vars, NEW s \in Slots, pc[s] # "done", pc'[s] = "done"
  PROVE  \/ EnsureBucket(s) \/ CreateWarehouse(s) \/ InsertRow(s) \/ UndoWarehouse(s)
         \/ GetRow(s) \/ DeleteWarehouse(s) \/ DeleteRow(s)
         \/ ReadRow(s) \/ Resolve(s) \/ CatalogStep(s)
<1> USE DEF TypeInv, TypeOK, Goto, Answer, Finish, Free, slots
<1>1. ASSUME NEW z \in Slots, Receive(z) PROVE FALSE
  <2>1. PICK q \in Requests : Goto(z, FirstPc(q))
    BY <1>1 DEF Receive
  <2> QED
    BY <2>1 DEF FirstPc
<1>2. ASSUME NEW z \in Slots, Deliver(z) \/ Disconnect(z) PROVE FALSE
  BY <1>2 DEF Deliver, Disconnect
<1>3. ASSUME NEW z \in Slots, z # s, Step(z) PROVE FALSE
  <2>1. CASE CatalogStep(z)
    BY <1>3, <2>1, CallFacts
  <2>2. CASE \/ EnsureBucket(z) \/ ReadRow(z) \/ Resolve(z)
             \/ CreateWarehouse(z) \/ InsertRow(z) \/ UndoWarehouse(z) \/ GetRow(z)
             \/ DeleteWarehouse(z) \/ DeleteRow(z)
    BY <1>3, <2>2 DEF EnsureBucket, ReadRow, Resolve, LookUp, CreateWarehouse,
              InsertRow, UndoWarehouse, GetRow, DeleteWarehouse, DeleteRow
  <2> QED
    BY <1>2, <1>3, <2>1, <2>2 DEF Step, CatalogStep
<1>4. ASSUME Crash \/ Quiet \/ UNCHANGED vars \/ \E w \in Ids : FinishPurge(w) PROVE FALSE
  BY <1>4 DEF Crash, Quiet, vars, FinishPurge
<1> QED
  BY <1>1, <1>2, <1>3, <1>4 DEF Next, Step, CatalogStep

\* The calls of a handler, but for the catalog's.
Calls(s) ==
  \/ EnsureBucket(s) \/ ReadRow(s) \/ Resolve(s) \/ CreateWarehouse(s) \/ InsertRow(s)
  \/ UndoWarehouse(s) \/ GetRow(s) \/ DeleteWarehouse(s) \/ DeleteRow(s)

\* A handler that is where it was, at its end or at its catalog call, is as it was.
LEMMA Stays ==
  ASSUME TypeInv, [Next]_vars, NEW s \in Slots, pc'[s] = pc[s], pc[s] \in {"done", "catalog"}
  PROVE  req'[s] = req[s] /\ reply'[s] = reply[s] /\ id'[s] = id[s]
<1> USE DEF TypeInv, TypeOK, Goto, Answer, Finish, Free, slots
<1>1. ASSUME NEW z \in Slots, Receive(z) \/ Deliver(z) \/ Disconnect(z)
      PROVE  req'[s] = req[s] /\ reply'[s] = reply[s] /\ id'[s] = id[s]
  BY <1>1 DEF Receive, Deliver, Disconnect
<1>2. ASSUME NEW z \in Slots, Calls(z)
      PROVE  req'[s] = req[s] /\ reply'[s] = reply[s] /\ id'[s] = id[s]
  BY <1>2 DEF Calls, EnsureBucket, ReadRow, Resolve, LookUp, CreateWarehouse,
              InsertRow, UndoWarehouse, GetRow, DeleteWarehouse, DeleteRow
<1>3. ASSUME NEW z \in Slots, CatalogStep(z)
      PROVE  req'[s] = req[s] /\ reply'[s] = reply[s] /\ id'[s] = id[s]
  BY <1>3, CallFacts
<1>4. ASSUME Crash \/ Quiet \/ UNCHANGED vars \/ \E w \in Ids : FinishPurge(w)
      PROVE  req'[s] = req[s] /\ reply'[s] = reply[s] /\ id'[s] = id[s]
  BY <1>4 DEF Crash, Quiet, vars, FinishPurge
<1> QED
  BY <1>1, <1>2, <1>3, <1>4 DEF Next, Step, CatalogStep, Calls

\* A handler gets to the catalog with the id it has just read.
LEMMA Resolved ==
  ASSUME TypeInv, [Next]_vars, NEW s \in Slots, pc[s] # "catalog", pc'[s] = "catalog"
  PROVE  row'[Bucket(s)'] = id'[s]
<1> USE DEF TypeInv, TypeOK, Goto, Answer, Finish, Free, slots
<1>1. ASSUME NEW z \in Slots, Receive(z) \/ Deliver(z) \/ Disconnect(z) PROVE FALSE
  BY <1>1 DEF Receive, Deliver, Disconnect, FirstPc
<1>2. ASSUME NEW z \in Slots, Calls(z) PROVE Resolve(s)
  BY <1>2 DEF Calls, EnsureBucket, ReadRow, Resolve, LookUp, CreateWarehouse,
              InsertRow, UndoWarehouse, GetRow, DeleteWarehouse, DeleteRow
<1>3. ASSUME NEW z \in Slots, CatalogStep(z) PROVE FALSE
  BY <1>3, CallFacts
<1>4. ASSUME Crash \/ Quiet \/ UNCHANGED vars \/ \E w \in Ids : FinishPurge(w) PROVE FALSE
  BY <1>4 DEF Crash, Quiet, vars, FinishPurge
<1>5. Resolve(s)
  BY <1>1, <1>2, <1>3, <1>4 DEF Next, Step, CatalogStep, Calls
<1> QED
  BY <1>5 DEF Resolve, LookUp, Bucket

\* A row never changes from one warehouse to another in one step.
LEMMA RowSteps ==
  ASSUME TypeInv, [Next]_vars, NEW b \in Buckets
  PROVE  row'[b] = row[b] \/ row[b] = NoId \/ row'[b] = NoId
<1> USE DEF TypeInv, TypeOK, slots
<1>1. ASSUME NEW z \in Slots, Receive(z) \/ Deliver(z) \/ Disconnect(z) PROVE row' = row
  BY <1>1 DEF Receive, Deliver, Disconnect
<1>2. ASSUME NEW z \in Slots, Calls(z)
      PROVE  row'[b] = row[b] \/ row[b] = NoId \/ row'[b] = NoId
  BY <1>2 DEF Calls, EnsureBucket, ReadRow, Resolve, CreateWarehouse,
              InsertRow, UndoWarehouse, GetRow, DeleteWarehouse, DeleteRow
<1>3. ASSUME NEW z \in Slots, CatalogStep(z) PROVE row' = row
  BY <1>3, CallFacts
<1>4. ASSUME Crash \/ Quiet \/ UNCHANGED vars \/ \E w \in Ids : FinishPurge(w) PROVE row' = row
  BY <1>4 DEF Crash, Quiet, vars, FinishPurge
<1> QED
  BY <1>1, <1>2, <1>3, <1>4 DEF Next, Step, CatalogStep, Calls

\* What was missing stays noted while the request is in flight, and what is
\* missing now is noted.
LEMMA Watches ==
  ASSUME TypeInv, [Next]_vars, NEW s \in Slots, pc'[s] # "idle"
  PROVE  /\ missed[s] => missed'[s]
         /\ pc'[s] # pc[s] \/ row' # row => ((Missing(s))' => missed'[s])
BY DEF Next, Watch, vars, slots

\* A warehouse id that has gone stale at a catalog call was missed.
LEMMA StaleStep ==
  TypeInv /\ TypeInv' /\ StaleIsMissed /\ [Next]_vars => StaleIsMissed'
<1> SUFFICES ASSUME TypeInv, TypeInv', StaleIsMissed, [Next]_vars, NEW s \in Slots,
                    pc'[s] = "catalog", row'[Bucket(s)'] # id'[s]
             PROVE  missed'[s]
  BY DEF StaleIsMissed
<1>1. pc[s] = "catalog"
  BY Resolved
<1>2. req'[s] = req[s] /\ id'[s] = id[s] /\ Bucket(s)' = Bucket(s)
  BY <1>1, Stays DEF Bucket
<1>3. Bucket(s) \in Buckets /\ id[s] \in Ids /\ id[s] # NoId
  BY <1>1, RequestFacts, TableConstants DEF TypeInv, Placed
<1>4. CASE row[Bucket(s)] # id[s]
  BY <1>1, <1>4, Watches DEF StaleIsMissed
<1>5. CASE row[Bucket(s)] = id[s]
  <2>1. row'[Bucket(s)] = NoId /\ row' # row
    BY <1>2, <1>3, <1>5, RowSteps
  <2>2. (Missing(s))'
    BY <1>2, <2>1 DEF Missing
  <2> QED
    BY <2>1, <2>2, Watches
<1> QED
  BY <1>4, <1>5

\* What a call of the catalog does not find is missing, or its id is stale.
LEMMA AbsentIsMissing ==
  ASSUME TypeInv, NEW s \in Slots, CatalogStep(s), reply'[s] = "NotFound",
         row[Bucket(s)] = id[s]
  PROVE  (Missing(s))'
<1> USE DEF TypeInv, TypeOK
<1>1. /\ pc[s] = "catalog"
      /\ UNCHANGED <<row, warehouse, req, id, namespaces, tables>>
      /\ Absent(s)
  BY CallFacts DEF Finish, Answer
<1>2. req[s].op \in CatalogOps
  BY <1>1 DEF Placed
<1> QED
  BY <1>1, <1>2 DEF Absent, Missing, Bucket, Namespace, TableName, NamespacesOf, TablesOf

\* An answer NotFound is given only to what was missing.
LEMMA NotFoundStep ==
  TypeInv /\ StaleIsMissed /\ NotFoundIsTrue /\ [Next]_vars => NotFoundIsTrue'
<1> SUFFICES ASSUME TypeInv, StaleIsMissed, NotFoundIsTrue, [Next]_vars, NEW s \in Slots,
                    pc'[s] = "done", reply'[s] = "NotFound"
             PROVE  missed'[s]
  BY DEF NotFoundIsTrue
<1> USE DEF TypeInv, TypeOK, Finish, Answer, Goto
<1>1. CASE pc[s] = "done"
  BY <1>1, Stays, Watches DEF NotFoundIsTrue
<1>2. CASE pc[s] # "done"
  <2>1. CASE CatalogStep(s)
    <3>1. pc[s] = "catalog"
      BY <2>1, CallFacts
    <3>2. CASE row[Bucket(s)] = id[s]
      BY <1>2, <2>1, <3>2, AbsentIsMissing, Watches
    <3>3. CASE row[Bucket(s)] # id[s]
      BY <3>1, <3>3, Watches DEF StaleIsMissed
    <3> QED
      BY <3>2, <3>3
  <2>2. CASE GetRow(s) \/ Resolve(s) \/ ReadRow(s) \/ DeleteRow(s)
    <3>1. row'[Bucket(s)'] = NoId
      BY <1>2, <2>2 DEF GetRow, Resolve, ReadRow, DeleteRow, LookUp, Fault, Bucket
    <3>2. (Missing(s))'
      BY <3>1 DEF Missing
    <3> QED
      BY <1>2, <3>2, Watches
  <2>3. CASE \/ EnsureBucket(s) \/ CreateWarehouse(s) \/ InsertRow(s) \/ UndoWarehouse(s)
             \/ DeleteWarehouse(s)
    BY <1>2, <2>3 DEF EnsureBucket, CreateWarehouse, InsertRow, UndoWarehouse, DeleteWarehouse, Placed
  <2> QED
    BY <1>2, <2>1, <2>2, <2>3, Endings
<1> QED
  BY <1>1, <1>2

\* A handler of DeleteTableBucket ends with success or NotFound, or at a fault.
LEMMA RecoverStep == TypeInv /\ DeleteRecovers /\ [Next]_vars => DeleteRecovers'
<1> SUFFICES ASSUME TypeInv, DeleteRecovers, [Next]_vars, spent'.faults = 0, NEW s \in Slots,
                    pc'[s] = "done", req'[s].op = "DeleteTableBucket"
             PROVE  reply'[s] \in {"ok", "NotFound"}
  BY DEF DeleteRecovers
<1> USE DEF TypeInv, TypeOK, Finish, Answer, Goto
<1>1. spent.faults = 0 /\ ~Fault
  <2>1. ~Fault
    BY DEF Fault, Spend
  <2> QED
    BY <2>1, CallFacts DEF Next, Step, CatalogStep, Receive, Deliver, Disconnect, Crash, Quiet, FinishPurge,
       EnsureBucket, CreateWarehouse, InsertRow, UndoWarehouse, GetRow, DeleteWarehouse,
       DeleteRow, ReadRow, Resolve, LookUp, Spend, vars
<1>2. CASE pc[s] = "done"
  BY <1>1, <1>2, Stays DEF DeleteRecovers
<1>3. CASE pc[s] # "done"
  <2>1. CASE GetRow(s) \/ DeleteWarehouse(s) \/ DeleteRow(s)
    BY <1>1, <1>3, <2>1 DEF GetRow, LookUp, DeleteWarehouse, DeleteRow
  <2>2. CASE \/ EnsureBucket(s) \/ CreateWarehouse(s) \/ InsertRow(s) \/ UndoWarehouse(s)
             \/ ReadRow(s) \/ Resolve(s)
    BY <2>2 DEF Placed, EnsureBucket, CreateWarehouse, InsertRow, UndoWarehouse, ReadRow, Resolve,
                CatalogOps, OfBucket, OfNamespace, OfTable
  <2>3. CASE CatalogStep(s)
    BY <2>3, CallFacts DEF Placed, CatalogOps, OfBucket, OfNamespace, OfTable
  <2> QED
    BY <1>3, <2>1, <2>2, <2>3, Endings
<1> QED
  BY <1>2, <1>3

\* The step with which a CreateTableBucket succeeds gives the bucket its row.
LEMMA UsableStep ==
  ASSUME BackedInv, Ensured, [Next]_vars, NEW s \in Slots,
         pc[s] # "done", pc'[s] = "done", reply'[s] = "ok", req[s].op = "CreateTableBucket"
  PROVE  /\ row'[Bucket(s)] = id[s]
         /\ warehouse'[id[s]] = Bucket(s)
         /\ Bucket(s) \in s3Bucket'
<1> USE DEF BackedInv, TypeInv, TypeOK, Finish, Answer, Goto
<1>1. CASE InsertRow(s)
  <2>1. Bucket(s) \in Buckets
    BY <1>1, RequestFacts DEF InsertRow
  <2> QED
    BY <1>1, <2>1 DEF InsertRow, FreshIsOwn, Fresh, Ensured, lake
<1>2. CASE EnsureBucket(s) \/ CreateWarehouse(s) \/ UndoWarehouse(s)
  BY <1>2 DEF EnsureBucket, CreateWarehouse, UndoWarehouse, Placed
<1>3. CASE GetRow(s) \/ DeleteWarehouse(s) \/ DeleteRow(s) \/ ReadRow(s) \/ Resolve(s)
  BY <1>3 DEF Placed, GetRow, DeleteWarehouse, DeleteRow, ReadRow, Resolve,
              CatalogOps, OfBucket, OfNamespace, OfTable
<1>4. CASE CatalogStep(s)
  BY <1>4, CallFacts DEF Placed, CatalogOps, OfBucket, OfNamespace, OfTable
<1> QED
  BY <1>1, <1>2, <1>3, <1>4, Endings

-----------------------------------------------------------------------------
(* The warehouses that requests hold, and those that are left over.        *)

\* A request that is about a warehouse, of a deletion or of the catalog.
Holding(s) == pc[s] \in {"delete_warehouse", "delete_row", "catalog"}

\* A held warehouse was handed out, has the bucket's name until a deletion asks
\* for it to be dropped, and was asked for before its row goes.
HeldKnown ==
  \A s \in Slots : Holding(s) =>
    /\ id[s] \in Ids /\ id[s] <= minted
    /\ id[s] \notin dropped => warehouse[id[s]] = Bucket(s)
    /\ pc[s] = "delete_row" => id[s] \in dropped

\* Nobody holds a warehouse that has no row yet.
FreshUnseen == \A s, z \in Slots : Fresh(s) /\ Holding(z) => id[z] # id[s]

\* What is gone or was never handed out is empty.
GoneIsEmpty ==
  \A w \in Ids : /\ w > minted => warehouse[w] = NoName /\ w \notin purging
                 /\ warehouse[w] = NoName => namespaces[w] = {} /\ tables[w] = {}

\* A warehouse that has no row yet is empty, and nothing of it is being purged.
FreshIsEmpty ==
  \A s \in Slots : Fresh(s) =>
    namespaces[id[s]] = {} /\ tables[id[s]] = {} /\ id[s] \notin purging

HeldInv == HeldKnown /\ FreshUnseen /\ GoneIsEmpty /\ FreshIsEmpty

\* A call of the catalog touches the warehouse it holds and no other.
LEMMA CallTouches ==
  ASSUME TypeInv, NEW s \in Slots, CatalogStep(s)
  PROVE  /\ \A w \in Ids : w # id[s] => namespaces'[w] = namespaces[w] /\ tables'[w] = tables[w]
         /\ warehouse[id[s]] = NoName /\ namespaces[id[s]] = {} /\ tables[id[s]] = {}
              => namespaces'[id[s]] = {} /\ tables'[id[s]] = {}
         /\ purging' \subseteq purging \cup {id[s]}
<1>1. pc[s] = "catalog" /\ id[s] \in Ids
  BY CallFacts DEF TypeInv, Placed
<1>2. namespaces \in [Ids -> SUBSET Namespaces] /\ tables \in [Ids -> SUBSET (Namespaces \X TableNames)]
  BY DEF TypeInv, TypeOK
<1>3. ASSUME NEW answer, NEW N, NEW T, NEW P, P \subseteq purging \cup {id[s]},
             Call(s, answer, N, T, P),
             warehouse[id[s]] = NoName /\ namespaces[id[s]] = {} /\ tables[id[s]] = {} /\ answer = "ok"
               => N = {} /\ T = {}
      PROVE  /\ \A w \in Ids : w # id[s] => namespaces'[w] = namespaces[w] /\ tables'[w] = tables[w]
             /\ warehouse[id[s]] = NoName /\ namespaces[id[s]] = {} /\ tables[id[s]] = {}
                  => namespaces'[id[s]] = {} /\ tables'[id[s]] = {}
             /\ purging' \subseteq purging \cup {id[s]}
  <2>1. \/ UNCHANGED <<namespaces, tables, purging>>
        \/ /\ answer = "ok"
           /\ namespaces' = [namespaces EXCEPT ![id[s]] = N]
           /\ tables' = [tables EXCEPT ![id[s]] = T]
           /\ purging' = P
    BY <1>3 DEF Call
  <2> QED
    BY <1>1, <1>2, <1>3, <2>1
<1>4. CASE ReadCatalog(s)
  BY <1>3, <1>4 DEF ReadCatalog, NamespacesOf, TablesOf
<1>5. CASE CreateNamespace(s)
  BY <1>3, <1>5 DEF CreateNamespace, CreateNamespaceAnswer, NamespacesOf, TablesOf
<1>6. CASE DeleteNamespace(s)
  BY <1>3, <1>6 DEF DeleteNamespace, NamespacesOf, TablesOf
<1>7. CASE CreateTable(s)
  BY <1>3, <1>7 DEF CreateTable, CreateTableAnswer, NamespacesOf, TablesOf
<1>8. CASE DeleteTable(s)
  BY <1>3, <1>8 DEF DeleteTable, NamespacesOf, TablesOf
<1> QED
  BY <1>4, <1>5, <1>6, <1>7, <1>8 DEF CatalogStep

LEMMA HeldInit == Init => HeldInv
BY TableConstants DEF Init, HeldInv, HeldKnown, FreshUnseen, GoneIsEmpty, FreshIsEmpty, Fresh, Holding

\* Steps that leave warehouses and catalogs alone, and after which no handler has
\* a warehouse in another way than before.
LEMMA HeldFrame ==
  ASSUME BackedInv, HeldInv, UNCHANGED <<warehouse, minted, namespaces, tables, dropped>>,
         purging' \subseteq purging,
         \A s \in Slots : pc'[s] \in {"insert_row", "undo", "delete_warehouse", "delete_row", "catalog"} =>
           pc'[s] = pc[s] /\ id'[s] = id[s] /\ req'[s] = req[s]
  PROVE  HeldInv'
<1> USE DEF HeldInv
<1>1. HeldKnown'
  BY DEF HeldKnown, Holding, Bucket
<1>2. FreshUnseen'
  BY DEF FreshUnseen, Holding, Fresh
<1>3. GoneIsEmpty'
  BY DEF GoneIsEmpty
<1>4. FreshIsEmpty'
  BY DEF FreshIsEmpty, Fresh
<1> QED
  BY <1>1, <1>2, <1>3, <1>4

\* A handler gets a warehouse from a row, a row gets it from the handler that
\* made it, and only a request that holds it puts something into it.
LEMMA HeldStep ==
  ASSUME BackedInv, HeldInv, [Next]_vars
  PROVE  HeldInv'
<1> USE TableConstants DEF BackedInv, TypeInv, TypeOK, Goto, Answer, Finish, Free, Spend, Fault, lake
<1>1. ASSUME NEW s \in Slots, Receive(s) PROVE HeldInv'
  <2>1. PICK q \in Requests : req' = [req EXCEPT ![s] = q] /\ Goto(s, FirstPc(q))
    BY <1>1 DEF Receive
  <2>2. FirstPc(q) \in {"ensure_bucket", "get_row", "read_row", "resolve"}
    BY DEF FirstPc
  <2> QED
    BY <1>1, <2>1, <2>2, HeldFrame DEF Receive
<1>2. ASSUME NEW s \in Slots, Deliver(s) \/ Disconnect(s) \/ EnsureBucket(s) \/ ReadRow(s) \/ DeleteRow(s)
      PROVE  HeldInv'
  BY <1>2, HeldFrame DEF Deliver, Disconnect, EnsureBucket, ReadRow, DeleteRow
<1>3. ASSUME Crash PROVE HeldInv'
  BY <1>3, HeldFrame DEF Crash
<1>4. ASSUME NEW w \in Ids, FinishPurge(w) PROVE HeldInv'
  BY <1>4, HeldFrame DEF FinishPurge, slots
<1>5. ASSUME Quiet \/ UNCHANGED vars PROVE HeldInv'
  BY <1>5, HeldFrame DEF Quiet, vars, slots
<1>6. ASSUME NEW s \in Slots, CatalogStep(s) PROVE HeldInv'
  <2>1. /\ UNCHANGED <<warehouse, minted, req, id, dropped>>
        /\ pc' = [pc EXCEPT ![s] = "done"] /\ pc[s] = "catalog"
    BY <1>6, CallFacts
  <2>2. Holding(s) /\ id[s] \in Ids /\ id[s] <= minted
    BY <2>1 DEF Holding, HeldInv, HeldKnown
  <2>3. HeldKnown'
    BY <2>1 DEF HeldInv, HeldKnown, Holding, Bucket
  <2>4. FreshUnseen'
    BY <2>1 DEF HeldInv, FreshUnseen, Holding, Fresh
  <2>5. GoneIsEmpty'
    <3>1. ASSUME NEW w \in Ids
          PROVE  /\ w > minted => warehouse[w] = NoName /\ w \notin purging'
                 /\ warehouse[w] = NoName => namespaces'[w] = {} /\ tables'[w] = {}
      <4>1. minted \in Nat /\ w \in Nat /\ id[s] \in Nat
        BY <2>2 DEF Ids
      <4>2. /\ w > minted => warehouse[w] = NoName /\ w \notin purging /\ w # id[s]
            /\ warehouse[w] = NoName => namespaces[w] = {} /\ tables[w] = {}
        BY <2>2, <4>1 DEF HeldInv, GoneIsEmpty
      <4>3. purging' \subseteq purging \cup {id[s]}
        BY <1>6, CallTouches
      <4>4. CASE w = id[s]
        BY <1>6, <4>2, <4>4, CallTouches
      <4>5. CASE w # id[s]
        BY <1>6, <4>2, <4>3, <4>5, CallTouches
      <4> QED
        BY <4>4, <4>5
    <3> QED
      BY <2>1, <3>1 DEF GoneIsEmpty
  <2>6. FreshIsEmpty'
    <3>1. ASSUME NEW z \in Slots, Fresh(z)'
          PROVE  Fresh(z) /\ id'[z] = id[z] /\ id[z] \in Ids /\ id[z] # id[s]
      BY <2>1, <2>2, <3>1 DEF Fresh, HeldInv, FreshUnseen, Placed
    <3> QED
      BY <1>6, <3>1, CallTouches DEF HeldInv, FreshIsEmpty
  <2> QED
    BY <2>3, <2>4, <2>5, <2>6 DEF HeldInv
<1>7. ASSUME NEW s \in Slots, CreateWarehouse(s) PROVE HeldInv'
  <2>1. CASE UNCHANGED <<minted, warehouse>> /\ Finish(s, "Internal")
    BY <1>7, <2>1, HeldFrame DEF CreateWarehouse
  <2>2. CASE minted < MaxWarehouses /\ Mint(Bucket(s))
    <3>1. /\ minted' = minted + 1 /\ minted' \in Ids
          /\ warehouse' = [warehouse EXCEPT ![minted'] = Bucket(s)]
          /\ UNCHANGED <<req, dropped, namespaces, tables, purging>>
      BY <1>7, <2>2 DEF CreateWarehouse, Mint, Ids
    <3>2. /\ \A z \in Slots : z # s => pc'[z] = pc[z] /\ id'[z] = id[z]
          /\ pc'[s] = "insert_row" => id'[s] = minted'
          /\ pc'[s] \in {"insert_row", "done"}
      BY <1>7, <2>2 DEF CreateWarehouse, Mint
    <3>3. \A w \in Ids : /\ w <= minted => w # minted' /\ warehouse'[w] = warehouse[w] /\ w <= minted'
                         /\ w > minted' => w > minted /\ warehouse'[w] = warehouse[w]
      BY <3>1 DEF Ids
    <3>4. namespaces[minted'] = {} /\ tables[minted'] = {} /\ minted' \notin purging
      BY <3>1 DEF HeldInv, GoneIsEmpty, Ids
    <3>5. ASSUME NEW z \in Slots, Holding(z)'
          PROVE  /\ Holding(z) /\ pc'[z] = pc[z] /\ id'[z] = id[z] /\ Bucket(z)' = Bucket(z)
                 /\ id[z] \in Ids /\ id[z] <= minted
      BY <3>1, <3>2, <3>5 DEF Holding, Bucket, HeldInv, HeldKnown
    <3>6. ASSUME NEW z \in Slots, Fresh(z)', z # s
          PROVE  Fresh(z) /\ id'[z] = id[z] /\ id[z] \in Ids
      BY <3>2, <3>6 DEF Fresh, Placed
    <3>7. HeldKnown'
      BY <3>1, <3>3, <3>5 DEF HeldInv, HeldKnown
    <3>8. FreshUnseen'
      <4>1. ASSUME NEW y \in Slots, NEW z \in Slots, Fresh(y)', Holding(z)'
            PROVE  id'[z] # id'[y]
        <5>1. CASE y = s
          BY <3>2, <3>3, <3>5, <4>1, <5>1 DEF Fresh
        <5>2. CASE y # s
          BY <3>5, <3>6, <4>1, <5>2 DEF HeldInv, FreshUnseen
        <5> QED
          BY <5>1, <5>2
      <4> QED
        BY <4>1 DEF FreshUnseen
    <3>9. GoneIsEmpty'
      BY <3>1, <3>3, <3>4 DEF HeldInv, GoneIsEmpty
    <3>10. FreshIsEmpty'
      <4>1. ASSUME NEW z \in Slots, Fresh(z)'
            PROVE  namespaces[id'[z]] = {} /\ tables[id'[z]] = {} /\ id'[z] \notin purging
        BY <3>2, <3>4, <3>6, <4>1 DEF Fresh, HeldInv, FreshIsEmpty
      <4> QED
        BY <3>1, <4>1 DEF FreshIsEmpty
    <3> QED
      BY <3>7, <3>8, <3>9, <3>10 DEF HeldInv
  <2> QED
    BY <1>7, <2>1, <2>2 DEF CreateWarehouse
<1>8. ASSUME NEW s \in Slots, InsertRow(s) PROVE HeldInv'
  <2>1. /\ UNCHANGED <<warehouse, minted, namespaces, tables, purging, dropped, id, req>>
        /\ \A z \in Slots : Fresh(z)' => Fresh(z)
        /\ \A z \in Slots : Holding(z)' => Holding(z) /\ pc'[z] = pc[z]
    BY <1>8 DEF InsertRow, Fresh, Holding
  <2> QED
    BY <2>1 DEF HeldInv, HeldKnown, FreshUnseen, GoneIsEmpty, FreshIsEmpty, Bucket
<1>9. ASSUME NEW s \in Slots, UndoWarehouse(s) PROVE HeldInv'
  <2>1. /\ UNCHANGED <<minted, dropped, purging, id, req>>
        /\ pc[s] = "undo" /\ pc' = [pc EXCEPT ![s] = "done"] /\ Fresh(s) /\ id[s] \in Ids
        /\ warehouse' = warehouse \/ warehouse' = [warehouse EXCEPT ![id[s]] = NoName]
    BY <1>9 DEF UndoWarehouse, Remove, Fresh, Placed
  <2>2. UNCHANGED <<namespaces, tables>>
    <3>1. \/ UNCHANGED <<namespaces, tables>>
          \/ /\ namespaces' = [namespaces EXCEPT ![id[s]] = {}]
             /\ tables' = [tables EXCEPT ![id[s]] = {}]
      BY <1>9 DEF UndoWarehouse, Remove
    <3>2. namespaces[id[s]] = {} /\ tables[id[s]] = {}
      BY <2>1 DEF HeldInv, FreshIsEmpty
    <3>3. namespaces = [namespaces EXCEPT ![id[s]] = {}]
      BY <2>1, <3>2
    <3>4. tables = [tables EXCEPT ![id[s]] = {}]
      BY <2>1, <3>2
    <3> QED
      BY <3>1, <3>3, <3>4
  <2>3. \A z \in Slots : Holding(z)' => Holding(z) /\ pc'[z] = pc[z] /\ warehouse'[id[z]] = warehouse[id[z]]
    BY <2>1 DEF Holding, HeldInv, HeldKnown, FreshUnseen
  <2>4. \A z \in Slots : Fresh(z)' => Fresh(z)
    BY <2>1 DEF Fresh
  <2>5. HeldKnown'
    BY <2>1, <2>3 DEF HeldInv, HeldKnown, Bucket
  <2>6. FreshUnseen'
    BY <2>1, <2>3, <2>4 DEF HeldInv, FreshUnseen
  <2>7. GoneIsEmpty'
    BY <2>1, <2>2 DEF HeldInv, GoneIsEmpty, FreshIsEmpty
  <2>8. FreshIsEmpty'
    BY <2>1, <2>2, <2>4 DEF HeldInv, FreshIsEmpty
  <2> QED
    BY <2>5, <2>6, <2>7, <2>8 DEF HeldInv
<1>10. ASSUME NEW s \in Slots, GetRow(s) \/ Resolve(s) PROVE HeldInv'
  <2>1. Bucket(s) \in Buckets
    BY <1>10, RequestFacts DEF GetRow, Resolve
  <2>2. /\ UNCHANGED <<row, warehouse, minted, namespaces, tables, purging, dropped, req>>
        /\ \A z \in Slots : z # s => pc'[z] = pc[z] /\ id'[z] = id[z]
        /\ \/ pc'[s] = "done"
           \/ /\ pc'[s] \in {"delete_warehouse", "catalog"}
              /\ id'[s] = row[Bucket(s)] /\ row[Bucket(s)] # NoId
    BY <1>10 DEF GetRow, Resolve, LookUp
  <2>3. \A z \in Slots : Fresh(z)' => Fresh(z) /\ z # s /\ id'[z] = id[z]
    BY <2>2 DEF Fresh
  <2>4. HeldKnown'
    <3>1. ASSUME Holding(s)'
          PROVE  /\ id'[s] \in Ids /\ id'[s] <= minted
                 /\ id'[s] \notin dropped => warehouse[id'[s]] = Bucket(s)
                 /\ pc'[s] # "delete_row"
      BY <2>1, <2>2, <3>1 DEF Holding, Unminted, RowBacked
    <3> QED
      BY <2>2, <3>1 DEF HeldInv, HeldKnown, Holding, Bucket
  <2>5. FreshUnseen'
    <3>1. \A z \in Slots : Fresh(z)' /\ Holding(s)' => id'[s] # id'[z]
      BY <2>1, <2>2, <2>3 DEF FreshIsOwn, Holding
    <3> QED
      BY <2>2, <2>3, <3>1 DEF HeldInv, FreshUnseen, Holding
  <2>6. GoneIsEmpty' /\ FreshIsEmpty'
    BY <2>2, <2>3 DEF HeldInv, GoneIsEmpty, FreshIsEmpty
  <2> QED
    BY <2>4, <2>5, <2>6 DEF HeldInv
<1>11. ASSUME NEW s \in Slots, DeleteWarehouse(s) PROVE HeldInv'
  <2>1. /\ UNCHANGED <<minted, purging, id, req>>
        /\ dropped' = dropped \cup {id[s]}
        /\ pc[s] = "delete_warehouse" /\ Holding(s) /\ id[s] \in Ids
        /\ pc' = [pc EXCEPT ![s] = "delete_row"] \/ pc' = [pc EXCEPT ![s] = "done"]
        /\ \/ UNCHANGED <<warehouse, namespaces, tables>>
           \/ /\ warehouse' = [warehouse EXCEPT ![id[s]] = NoName]
              /\ namespaces' = [namespaces EXCEPT ![id[s]] = {}]
              /\ tables' = [tables EXCEPT ![id[s]] = {}]
    BY <1>11 DEF DeleteWarehouse, Remove, Holding, Placed
  <2>2. \A w \in Ids : w # id[s] =>
          warehouse'[w] = warehouse[w] /\ namespaces'[w] = namespaces[w] /\ tables'[w] = tables[w]
    BY <2>1
  <2>3. \A z \in Slots : /\ Holding(z)' => Holding(z)
                         /\ pc'[z] = "delete_row" => z = s \/ pc[z] = "delete_row"
                         /\ Fresh(z)' => Fresh(z) /\ id[z] \in Ids
    BY <2>1 DEF Holding, Fresh, Placed
  <2>4. HeldKnown'
    BY <2>1, <2>2, <2>3 DEF HeldInv, HeldKnown, Bucket
  <2>5. FreshUnseen'
    BY <2>1, <2>3 DEF HeldInv, FreshUnseen
  <2>6. GoneIsEmpty'
    BY <2>1, <2>2 DEF HeldInv, GoneIsEmpty
  <2>7. FreshIsEmpty'
    BY <2>1, <2>2, <2>3 DEF HeldInv, FreshIsEmpty, FreshUnseen
  <2> QED
    BY <2>4, <2>5, <2>6, <2>7 DEF HeldInv
<1> QED
  BY <1>1, <1>2, <1>3, <1>4, <1>5, <1>6, <1>7, <1>8, <1>9, <1>10, <1>11
     DEF Next, Step, CatalogStep

-----------------------------------------------------------------------------
(* The table service implements the store of TableApi.                     *)

\* What a client sees of the others stays when one handler moves.
LEMMA OnlyOne ==
  ASSUME NEW s \in Slots,
         \A z \in Slots : z # s => pc'[z] = pc[z] /\ reply'[z] = reply[z] /\ id'[z] = id[z]
  PROVE  /\ \A st : Stage(s)' = st => Api!Become(s, st)
         /\ Held(s)' = NoId => Api!LetGo(s)
         /\ Held(s)' = Held(s) => UNCHANGED [z \in Slots |-> Held(z)]
         /\ Stage(s)' = Stage(s) => UNCHANGED [z \in Slots |-> Stage(z)]
<1>1. \A z \in Slots : z # s => Stage(z)' = Stage(z) /\ Held(z)' = Held(z)
  BY DEF Stage, Held
<1>2. \A st : Stage(s)' = st => Api!Become(s, st)
  BY <1>1 DEF Api!Become
<1>3. Held(s)' = NoId => Api!LetGo(s)
  BY <1>1 DEF Api!LetGo
<1>4. Held(s)' = Held(s) => UNCHANGED [z \in Slots |-> Held(z)]
  BY <1>1
<1>5. Stage(s)' = Stage(s) => UNCHANGED [z \in Slots |-> Stage(z)]
  BY <1>1
<1> QED
  BY <1>2, <1>3, <1>4, <1>5

\* A handler that gives its answer lets go of what it held.
LEMMA Answers ==
  ASSUME TypeInv, NEW s \in Slots, NEW r, Finish(s, r), UNCHANGED id
  PROVE  /\ Api!Become(s, r)
         /\ Api!LetGo(s)
         /\ Held(s) = NoId => UNCHANGED [z \in Slots |-> Held(z)]
<1>1. /\ Stage(s)' = r /\ Held(s)' = NoId
      /\ \A z \in Slots : z # s => pc'[z] = pc[z] /\ reply'[z] = reply[z] /\ id'[z] = id[z]
  BY DEF TypeInv, TypeOK, Finish, Answer, Goto, Stage, Held
<1> QED
  BY <1>1, OnlyOne

\* The warehouses that deletions took are the same if no dropped one changes.
LEMMA SameClosed ==
  ASSUME UNCHANGED dropped, \A w \in dropped : warehouse'[w] = warehouse[w]
  PROVE  UNCHANGED Closed
BY DEF Closed

\* A step of which a client sees nothing.
LEMMA Unseen ==
  ASSUME UNCHANGED <<row, Closed, namespaces, tables, req>>,
         UNCHANGED [z \in Slots |-> Held(z)], UNCHANGED [z \in Slots |-> Stage(z)]
  PROVE  UNCHANGED Api!vars
BY DEF Api!vars, Api!db, Api!catalog

\* A refusal that is justified.
LEMMA Refuses ==
  ASSUME TypeInv, NEW s \in Slots, NEW r \in {"NotFound", "Conflict", "Internal"},
         Stage(s) \in {"asked", "open", "emptied"}, Api!Justified(s, r),
         Finish(s, r), UNCHANGED <<row, namespaces, tables, req, id, dropped>>,
         \A w \in dropped : warehouse'[w] = warehouse[w]
  PROVE  Api!Next
<1>1. Api!Refuse(s, r)
  BY Answers, SameClosed DEF Api!Refuse, Api!db, Api!catalog
<1> QED
  BY <1>1 DEF Api!Next

\* A request that comes in is asked.
LEMMA ReceiveAsks ==
  ASSUME TypeInv, NEW s \in Slots, Receive(s)
  PROVE  Api!Next
<1> USE DEF TypeInv, TypeOK
<1>1. PICK q \in Requests : req' = [req EXCEPT ![s] = q] /\ Goto(s, FirstPc(q))
  BY DEF Receive
<1>2. FirstPc(q) \in {"ensure_bucket", "get_row", "read_row", "resolve"}
  BY DEF FirstPc
<1>3. /\ Stage(s) = "free" /\ Stage(s)' = "asked" /\ Held(s) = NoId /\ Held(s)' = NoId
      /\ \A z \in Slots : z # s => pc'[z] = pc[z] /\ reply'[z] = reply[z] /\ id'[z] = id[z]
  BY <1>1, <1>2 DEF Receive, Stage, Held, Goto
<1>4. UNCHANGED <<row, Closed, namespaces, tables>>
  BY SameClosed DEF Receive, lake
<1>5. Api!Ask(s)
  BY <1>1, <1>3, <1>4, OnlyOne DEF Api!Ask, Api!db, Api!catalog
<1> QED
  BY <1>5 DEF Api!Next

\* A client that has its answer, and one that goes away, leaves.
LEMMA FreeLeaves ==
  ASSUME TypeInv, NEW s \in Slots, Deliver(s) \/ Disconnect(s)
  PROVE  Api!Next
<1> USE DEF TypeInv, TypeOK
<1>1. /\ UNCHANGED <<row, lake, dropped>> /\ Free(s) /\ pc[s] # "idle"
  BY DEF Deliver, Disconnect
<1>2. Stage(s) # "free"
  BY <1>1 DEF Stage, Replies
<1>3. /\ Stage(s)' = "free" /\ Held(s)' = NoId
      /\ \A z \in Slots : z # s => pc'[z] = pc[z] /\ reply'[z] = reply[z] /\ id'[z] = id[z]
      /\ req' = [req EXCEPT ![s] = NoRequest]
  BY <1>1 DEF Free, Goto, Stage, Held
<1>4. UNCHANGED <<row, Closed, namespaces, tables>>
  BY <1>1, SameClosed DEF lake
<1>5. Api!Leave(s)
  BY <1>2, <1>3, <1>4, OnlyOne DEF Api!Leave, Api!db, Api!catalog
<1> QED
  BY <1>5 DEF Api!Next

\* A crash frees every slot and nothing else.
LEMMA CrashDies ==
  ASSUME TypeInv, Crash
  PROVE  Api!Next
<1>1. \A s \in Slots : Stage(s)' = "free" /\ Held(s)' = NoId
  BY DEF Crash, Stage, Held
<1>2. UNCHANGED <<row, Closed, namespaces, tables>>
  BY SameClosed DEF Crash, lake
<1>3. req' = [s \in Slots |-> NoRequest]
  BY DEF Crash
<1>4. Api!Die
  BY <1>1, <1>2, <1>3 DEF Api!Die, Api!db, Api!catalog
<1> QED
  BY <1>4 DEF Api!Next

\* Until its row is in, a create is not seen, however it ends.
LEMMA CreateRefines ==
  ASSUME BackedInv, HeldInv, NEW s \in Slots,
         EnsureBucket(s) \/ CreateWarehouse(s) \/ UndoWarehouse(s)
  PROVE  Api!Next \/ UNCHANGED Api!vars
<1> USE DEF BackedInv, TypeInv, TypeOK
<1>1. req[s].op = "CreateTableBucket"
  BY DEF Placed, EnsureBucket, CreateWarehouse, UndoWarehouse
<1>2. UNCHANGED <<row, req, dropped>>
  BY DEF EnsureBucket, CreateWarehouse, UndoWarehouse
<1>3. UNCHANGED <<namespaces, tables>> /\ \A w \in dropped : warehouse'[w] = warehouse[w]
  <2>1. CASE EnsureBucket(s)
    BY <2>1 DEF EnsureBucket, lake
  <2>2. CASE CreateWarehouse(s)
    <3>1. UNCHANGED <<namespaces, tables>>
      BY <2>2 DEF CreateWarehouse
    <3>2. warehouse' = warehouse \/ warehouse' = [warehouse EXCEPT ![minted + 1] = Bucket(s)]
      BY <2>2 DEF CreateWarehouse, Mint
    <3>3. \A w \in dropped : w \in Ids /\ w # minted + 1
      BY DEF Unminted, Ids
    <3> QED
      BY <3>1, <3>2, <3>3
  <2>3. CASE UndoWarehouse(s)
    <3>1. /\ Fresh(s) /\ id[s] \in Ids
          /\ \/ UNCHANGED <<warehouse, namespaces, tables>>
             \/ /\ warehouse' = [warehouse EXCEPT ![id[s]] = NoName]
                /\ namespaces' = [namespaces EXCEPT ![id[s]] = {}]
                /\ tables' = [tables EXCEPT ![id[s]] = {}]
      BY <2>3 DEF UndoWarehouse, Remove, Fresh, Placed
    <3>2. namespaces[id[s]] = {} /\ tables[id[s]] = {} /\ id[s] \notin dropped
      BY <3>1 DEF HeldInv, FreshIsEmpty, FreshIsOwn
    <3>3. namespaces = [namespaces EXCEPT ![id[s]] = {}]
      BY <3>1, <3>2
    <3>4. tables = [tables EXCEPT ![id[s]] = {}]
      BY <3>1, <3>2
    <3>5. \A w \in dropped : w \in Ids /\ w # id[s]
      BY <3>2
    <3> QED
      BY <3>1, <3>3, <3>4, <3>5
  <2> QED
    BY <2>1, <2>2, <2>3
<1>4. UNCHANGED Closed
  BY <1>2, <1>3, SameClosed
<1>5. CASE UndoWarehouse(s)
  <2>1. /\ Stage(s) = reply[s] /\ Stage(s)' = reply[s] /\ Held(s) = NoId /\ Held(s)' = NoId
        /\ \A z \in Slots : z # s => pc'[z] = pc[z] /\ reply'[z] = reply[z] /\ id'[z] = id[z]
    BY <1>5 DEF UndoWarehouse, Finish, Answer, Goto, Stage, Held
  <2> QED
    BY <1>2, <1>3, <1>4, <2>1, OnlyOne, Unseen
<1>6. CASE EnsureBucket(s) \/ CreateWarehouse(s)
  <2>1. Stage(s) = "asked" /\ Held(s) = NoId
    BY <1>6 DEF EnsureBucket, CreateWarehouse, Stage, Held
  <2>2. CASE Finish(s, "Internal") /\ UNCHANGED id
    <3>1. Api!Justified(s, "Internal")
      BY <1>1 DEF Api!Justified
    <3> QED
      BY <1>2, <1>3, <2>1, <2>2, <3>1, Refuses
  <2>3. CASE /\ Goto(s, "create_warehouse") \/ Goto(s, "insert_row")
             /\ UNCHANGED reply /\ \A z \in Slots : z # s => id'[z] = id[z]
    <3>1. /\ Stage(s)' = "asked" /\ Held(s)' = NoId
          /\ \A z \in Slots : z # s => pc'[z] = pc[z] /\ reply'[z] = reply[z] /\ id'[z] = id[z]
      BY <2>3 DEF Goto, Stage, Held
    <3> QED
      BY <1>2, <1>3, <1>4, <2>1, <3>1, OnlyOne, Unseen
  <2>4. CASE EnsureBucket(s)
    BY <2>2, <2>3, <2>4 DEF EnsureBucket
  <2>5. CASE CreateWarehouse(s)
    BY <2>2, <2>3, <2>5 DEF CreateWarehouse
  <2> QED
    BY <1>6, <2>4, <2>5
<1> QED
  BY <1>5, <1>6

\* A row that is inserted is a life nobody has seen; a row that is there refuses.
LEMMA InsertRefines ==
  ASSUME BackedInv, HeldInv, NEW s \in Slots, InsertRow(s)
  PROVE  Api!Next
<1> USE DEF BackedInv, TypeInv, TypeOK
<1>1. /\ req[s].op = "CreateTableBucket" /\ Stage(s) = "asked" /\ Held(s) = NoId
      /\ Fresh(s) /\ id[s] \in Ids
  BY DEF Placed, InsertRow, Stage, Held, Fresh
<1>2. UNCHANGED <<Closed, namespaces, tables, req, id>>
  BY SameClosed DEF InsertRow, lake
<1>3. CASE row[Bucket(s)] = NoId /\ row' = [row EXCEPT ![Bucket(s)] = id[s]] /\ Finish(s, "ok")
  <2>1. Api!Unused(id[s])
    <3>1. id[s] \notin Closed /\ namespaces[id[s]] = {} /\ tables[id[s]] = {}
      BY <1>1 DEF Closed, FreshIsOwn, HeldInv, FreshIsEmpty
    <3>2. \A b \in Buckets : row[b] # id[s]
      BY <1>1 DEF FreshIsOwn
    <3>3. \A z \in Slots : Held(z) # id[s]
      BY <1>1, TableConstants DEF Held, Holding, HeldInv, FreshUnseen
    <3> QED
      BY <3>1, <3>2, <3>3 DEF Api!Unused
  <2>2. Api!CreateTableBucket(s)
    BY <1>1, <1>2, <1>3, <2>1, Answers DEF Api!CreateTableBucket, Api!Bucket, Api!catalog, Bucket
  <2> QED
    BY <2>2 DEF Api!Next
<1>4. ASSUME NEW r \in {"Conflict", "Internal"}, Answer(s, r), Goto(s, "undo"), UNCHANGED row,
             r = "Conflict" => row[Bucket(s)] # NoId
      PROVE  Api!Next
  <2>1. /\ Stage(s)' = r /\ Held(s)' = NoId
        /\ \A z \in Slots : z # s => pc'[z] = pc[z] /\ reply'[z] = reply[z] /\ id'[z] = id[z]
    BY <1>2, <1>4 DEF Answer, Goto, Stage, Held
  <2>2. Api!Justified(s, r)
    BY <1>1, <1>4 DEF Api!Justified, Api!Bucket, Bucket
  <2>3. Api!Refuse(s, r)
    BY <1>1, <1>2, <1>4, <2>1, <2>2, OnlyOne DEF Api!Refuse, Api!db, Api!catalog
  <2> QED
    BY <2>3 DEF Api!Next
<1> QED
  BY <1>3, <1>4 DEF InsertRow

\* A handler that reads the row of its bucket opens the life it is in.
LEMMA LookUpRefines ==
  ASSUME TypeInv, NEW s \in Slots, GetRow(s) \/ Resolve(s)
  PROVE  Api!Next
<1> USE DEF TypeInv, TypeOK
<1>1. /\ req[s].op \in CatalogOps \cup {"DeleteTableBucket"} /\ Stage(s) = "asked"
      /\ UNCHANGED <<row, lake, req, dropped>>
  BY DEF GetRow, Resolve, Placed, Stage
<1>2. UNCHANGED <<Closed, namespaces, tables>>
  BY <1>1, SameClosed DEF lake
<1>3. CASE row[Bucket(s)] = NoId /\ Finish(s, "NotFound") /\ UNCHANGED id
  <2>1. Api!Justified(s, "NotFound")
    BY <1>1, <1>3 DEF Api!Justified, Api!Bucket, Bucket, CatalogOps, OfBucket, OfNamespace, OfTable
  <2> QED
    BY <1>1, <1>3, <2>1, Refuses DEF lake
<1>4. CASE /\ row[Bucket(s)] # NoId /\ id' = [id EXCEPT ![s] = row[Bucket(s)]]
           /\ Goto(s, "delete_warehouse") \/ Goto(s, "catalog")
           /\ UNCHANGED reply
  <2>1. /\ Stage(s)' = "open" /\ Held(s)' = row[Bucket(s)]
        /\ \A z \in Slots : z # s => pc'[z] = pc[z] /\ reply'[z] = reply[z] /\ id'[z] = id[z]
    BY <1>4 DEF Goto, Stage, Held
  <2>2. [z \in Slots |-> Held(z)]' = [[z \in Slots |-> Held(z)] EXCEPT ![s] = row[Bucket(s)]]
    BY <2>1 DEF Held
  <2>3. req[s].op \in Api!CatalogOps \cup {"DeleteTableBucket"}
    BY <1>1 DEF CatalogOps, OfBucket, OfNamespace, OfTable,
                Api!CatalogOps, Api!OfBucket, Api!OfNamespace, Api!OfTable
  <2>4. Api!Become(s, "open")
    BY <2>1, OnlyOne
  <2>5. Api!Open(s)
    BY <1>1, <1>2, <1>4, <2>2, <2>3, <2>4 DEF Api!Open, Api!Bucket, Api!db, Api!catalog, Bucket
  <2> QED
    BY <2>5 DEF Api!Next
<1>5. CASE Finish(s, "Internal") /\ UNCHANGED id
  <2>1. Api!Justified(s, "Internal")
    BY DEF Api!Justified
  <2> QED
    BY <1>1, <1>5, <2>1, Refuses DEF lake
<1> QED
  BY <1>3, <1>4, <1>5 DEF GetRow, Resolve, LookUp

\* A deletion empties the catalog it holds, or lets the purges go on.
LEMMA DeleteWarehouseRefines ==
  ASSUME BackedInv, HeldInv, NEW s \in Slots, DeleteWarehouse(s)
  PROVE  Api!Next
<1> USE DEF BackedInv, TypeInv, TypeOK
<1>1. /\ req[s].op = "DeleteTableBucket" /\ Stage(s) = "open" /\ Held(s) = id[s] /\ id[s] \in Ids
      /\ UNCHANGED <<row, req, id>> /\ dropped' = dropped \cup {id[s]}
  BY DEF DeleteWarehouse, Placed, Stage, Held
<1>2. \/ /\ Closed' = Closed \cup {Held(s)}
         /\ namespaces' = [namespaces EXCEPT ![Held(s)] = {}]
         /\ tables' = [tables EXCEPT ![Held(s)] = {}]
      \/ UNCHANGED <<Closed, namespaces, tables>>
  <2>1. CASE /\ warehouse' = [warehouse EXCEPT ![id[s]] = NoName]
             /\ namespaces' = [namespaces EXCEPT ![id[s]] = {}]
             /\ tables' = [tables EXCEPT ![id[s]] = {}]
    <3>1. Closed' = Closed \cup {id[s]}
      BY <1>1, <2>1 DEF Closed
    <3> QED
      BY <1>1, <2>1, <3>1
  <2>2. CASE UNCHANGED <<warehouse, namespaces, tables>>
    <3>1. CASE warehouse[id[s]] # NoName
      BY <1>1, <2>2, <3>1 DEF Closed
    <3>2. CASE warehouse[id[s]] = NoName
      <4>1. Closed' = Closed \cup {id[s]}
        BY <1>1, <2>2, <3>2 DEF Closed
      <4>2. namespaces[id[s]] = {} /\ tables[id[s]] = {}
        BY <1>1, <3>2 DEF HeldInv, GoneIsEmpty
      <4>3. namespaces = [namespaces EXCEPT ![id[s]] = {}]
        BY <1>1, <4>2
      <4>4. tables = [tables EXCEPT ![id[s]] = {}]
        BY <1>1, <4>2
      <4> QED
        BY <1>1, <2>2, <4>1, <4>3, <4>4
    <3> QED
      BY <3>1, <3>2
  <2> QED
    BY <2>1, <2>2 DEF DeleteWarehouse, Remove
<1>3. \/ Api!Become(s, "emptied") /\ UNCHANGED [z \in Slots |-> Held(z)]
      \/ Api!Become(s, "Internal") /\ Api!LetGo(s)
  <2>1. CASE Finish(s, "Internal")
    BY <1>1, <2>1, Answers
  <2>2. CASE Goto(s, "delete_row") /\ UNCHANGED reply
    <3>1. /\ Stage(s)' = "emptied" /\ Held(s)' = Held(s)
          /\ \A z \in Slots : z # s => pc'[z] = pc[z] /\ reply'[z] = reply[z] /\ id'[z] = id[z]
      BY <1>1, <2>2 DEF Goto, Stage, Held
    <3> QED
      BY <3>1, OnlyOne
  <2> QED
    BY <2>1, <2>2 DEF DeleteWarehouse
<1>4. Api!EmptyCatalog(s)
  BY <1>1, <1>2, <1>3 DEF Api!EmptyCatalog, Api!catalog
<1> QED
  BY <1>4 DEF Api!Next

\* The row of the name goes, or none is there.
LEMMA DeleteRowRefines ==
  ASSUME TypeInv, NEW s \in Slots, DeleteRow(s)
  PROVE  Api!Next
<1> USE DEF TypeInv, TypeOK
<1>1. /\ req[s].op = "DeleteTableBucket" /\ Stage(s) = "emptied"
      /\ UNCHANGED <<lake, req, id, dropped>>
  BY DEF DeleteRow, Placed, Stage
<1>2. UNCHANGED <<Closed, namespaces, tables>>
  BY <1>1, SameClosed DEF lake
<1>3. CASE row[Bucket(s)] # NoId /\ row' = [row EXCEPT ![Bucket(s)] = NoId] /\ Finish(s, "ok")
  <2>1. Api!DeleteTableBucket(s)
    BY <1>1, <1>2, <1>3, Answers DEF Api!DeleteTableBucket, Api!Bucket, Api!catalog, Bucket
  <2> QED
    BY <2>1 DEF Api!Next
<1>4. CASE row[Bucket(s)] = NoId /\ Finish(s, "NotFound") /\ UNCHANGED row
  <2>1. Api!Justified(s, "NotFound")
    BY <1>1, <1>4 DEF Api!Justified, Api!Bucket, Bucket
  <2> QED
    BY <1>1, <1>4, <2>1, Refuses DEF lake
<1>5. CASE Finish(s, "Internal") /\ UNCHANGED row
  <2>1. Api!Justified(s, "Internal")
    BY DEF Api!Justified
  <2> QED
    BY <1>1, <1>5, <2>1, Refuses DEF lake
<1> QED
  BY <1>3, <1>4, <1>5 DEF DeleteRow

\* GetTableBucket and ListTableBuckets tell the rows as they are.
LEMMA ReadRowRefines ==
  ASSUME TypeInv, NEW s \in Slots, ReadRow(s)
  PROVE  Api!Next
<1> USE DEF TypeInv, TypeOK
<1>1. /\ req[s].op \in {"GetTableBucket", "ListTableBuckets"} /\ Stage(s) = "asked" /\ Held(s) = NoId
      /\ UNCHANGED <<row, lake, req, id, dropped>>
  BY DEF ReadRow, Placed, Stage, Held
<1>2. UNCHANGED <<Closed, namespaces, tables>>
  BY <1>1, SameClosed DEF lake
<1>3. CASE req[s].op = "GetTableBucket" /\ row[Bucket(s)] = NoId /\ Finish(s, "NotFound")
  <2>1. Finish(s, "NotFound")
    BY <1>3
  <2>2. Api!Justified(s, "NotFound")
    BY <1>1, <1>3 DEF Api!Justified, Api!Bucket, Bucket
  <2> QED
    BY <1>1, <2>1, <2>2, Refuses DEF lake
<1>4. CASE ~(req[s].op = "GetTableBucket" /\ row[Bucket(s)] = NoId) /\ Finish(s, "ok")
  <2>1. Finish(s, "ok")
    BY <1>4
  <2>2. Api!ReadBucket(s)
    BY <1>1, <1>2, <1>4, <2>1, Answers DEF Api!ReadBucket, Api!Bucket, Api!db, Api!catalog, Bucket
  <2> QED
    BY <2>2 DEF Api!Next
<1>5. CASE Finish(s, "Internal")
  <2>1. Api!Justified(s, "Internal")
    BY DEF Api!Justified
  <2> QED
    BY <1>1, <1>5, <2>1, Refuses DEF lake
<1> QED
  BY <1>3, <1>4, <1>5 DEF ReadRow

\* A call of the catalog does what was asked for or tells why it did not; either
\* may be told as an error.
LEMMA CallRefines ==
  ASSUME TypeInv, NEW s \in Slots, pc[s] = "catalog", req[s].op \in CatalogOps,
         UNCHANGED <<row, warehouse, req, id, dropped>>,
         \/ /\ Api!Does(s) /\ ~Api!Absent(s) /\ ~Api!Taken(s)
            /\ Finish(s, "ok") \/ Finish(s, "Internal")
         \/ /\ UNCHANGED <<namespaces, tables>>
            /\ \/ Finish(s, "Internal")
               \/ Api!Absent(s) /\ Finish(s, "NotFound")
               \/ Api!Taken(s) /\ Finish(s, "Conflict")
  PROVE  Api!Next
<1>1. /\ Stage(s) = "open" /\ Api!Justified(s, "Internal")
      /\ Api!Absent(s) => Api!Justified(s, "NotFound")
      /\ Api!Taken(s) => Api!Justified(s, "Conflict")
  BY DEF Stage, Api!Justified
<1>2. UNCHANGED Closed
  BY SameClosed
<1>3. CASE /\ Api!Does(s) /\ ~Api!Absent(s) /\ ~Api!Taken(s)
           /\ Finish(s, "ok") \/ Finish(s, "Internal")
  <2>1. req[s].op \in Api!CatalogOps
    BY DEF CatalogOps, OfBucket, OfNamespace, OfTable,
           Api!CatalogOps, Api!OfBucket, Api!OfNamespace, Api!OfTable
  <2>2. /\ Api!LetGo(s)
        /\ Api!Become(s, "ok") \/ Api!Become(s, "Internal")
    BY <1>3, Answers
  <2>3. Api!Catalog(s)
    BY <1>1, <1>2, <1>3, <2>1, <2>2 DEF Api!Catalog
  <2> QED
    BY <2>3 DEF Api!Next
<1>4. CASE /\ UNCHANGED <<namespaces, tables>>
           /\ \/ Finish(s, "Internal")
              \/ Api!Absent(s) /\ Finish(s, "NotFound")
              \/ Api!Taken(s) /\ Finish(s, "Conflict")
  BY <1>1, <1>4, Refuses
<1> QED
  BY <1>3, <1>4

\* Each request of the catalog is one call of it.
LEMMA CatalogRefines ==
  ASSUME BackedInv, HeldInv, NEW s \in Slots, CatalogStep(s)
  PROVE  Api!Next
<1>0. TypeInv
  BY DEF BackedInv
<1> USE DEF BackedInv, TypeInv, TypeOK
<1>1. /\ pc[s] = "catalog" /\ req[s].op \in CatalogOps /\ id[s] \in Ids
      /\ Stage(s) = "open" /\ Held(s) = id[s] /\ Bucket(s) \in Buckets
  <2>1. pc[s] = "catalog" /\ Bucket(s) \in Buckets
    BY CallFacts, RequestFacts
  <2> QED
    BY <2>1 DEF Placed, Stage, Held
<1>2. /\ Api!NamespacesOf(s) = NamespacesOf(s) /\ Api!TablesOf(s) = TablesOf(s)
      /\ Api!Ns(s) = Namespace(s) /\ Api!Table(s) = TableName(s)
  BY <1>1 DEF Api!NamespacesOf, Api!TablesOf, Api!Ns, Api!Table,
              NamespacesOf, TablesOf, Namespace, TableName
<1>3. id[s] \in Closed <=> warehouse[id[s]] = NoName
  BY <1>1, TableConstants DEF Closed, HeldInv, HeldKnown, Holding
<1>4. Api!Absent(s) <=> \/ req[s].op \in OfBucket /\ warehouse[id[s]] = NoName
                        \/ req[s].op \in OfNamespace /\ Namespace(s) \notin NamespacesOf(s)
                        \/ req[s].op \in OfTable /\ TableName(s) \notin TablesOf(s)
  BY <1>1, <1>2, <1>3 DEF Api!Absent, Api!OfBucket, Api!OfNamespace, Api!OfTable,
                          OfBucket, OfNamespace, OfTable
<1>5. Api!Taken(s) <=> \/ req[s].op = "CreateNamespace" /\ Namespace(s) \in NamespacesOf(s)
                       \/ req[s].op = "CreateTable" /\ TableName(s) \in TablesOf(s)
  BY <1>2 DEF Api!Taken
<1>6. /\ namespaces = [namespaces EXCEPT ![id[s]] = NamespacesOf(s)]
      /\ tables = [tables EXCEPT ![id[s]] = TablesOf(s)]
  BY <1>1 DEF NamespacesOf, TablesOf
<1>8. CASE ReadCatalog(s)
  <2>1. req[s].op \in {"ListNamespaces", "GetNamespace", "ListTables", "GetTable"}
    BY <1>8 DEF ReadCatalog, Asks
  <2>2. /\ ReadAnswer(s) \in {"ok", "NotFound"}
        /\ ReadAnswer(s) = "NotFound" => Api!Absent(s)
        /\ ReadAnswer(s) = "ok" => ~Api!Absent(s) /\ ~Api!Taken(s)
    BY <1>4, <1>5, <2>1 DEF ReadAnswer, OfBucket, OfNamespace, OfTable
  <2>3. UNCHANGED <<namespaces, tables>> => Api!Does(s)
    BY <2>1 DEF Api!Does, Api!catalog
  <2>4. Call(s, ReadAnswer(s), NamespacesOf(s), TablesOf(s), purging)
    BY <1>8 DEF ReadCatalog
  <2>5. /\ UNCHANGED <<row, warehouse, req, id, dropped>>
        /\ \/ /\ ReadAnswer(s) = "ok"
              /\ Finish(s, "ok") \/ Finish(s, "Internal")
              /\ namespaces' = [namespaces EXCEPT ![id[s]] = NamespacesOf(s)]
              /\ tables' = [tables EXCEPT ![id[s]] = TablesOf(s)]
           \/ /\ UNCHANGED <<namespaces, tables>>
              /\ \/ Finish(s, "Internal")
                 \/ ReadAnswer(s) # "ok" /\ Finish(s, ReadAnswer(s))
    BY <2>4 DEF Call
  <2> HIDE DEF BackedInv, TypeInv, TypeOK
  <2>6. CASE /\ UNCHANGED <<namespaces, tables>>
             /\ \/ Finish(s, "Internal")
                \/ ReadAnswer(s) # "ok" /\ Finish(s, ReadAnswer(s))
    BY <1>0, <1>1, <2>2, <2>5, <2>6, CallRefines
  <2>7. CASE /\ ReadAnswer(s) = "ok"
             /\ Finish(s, "ok") \/ Finish(s, "Internal")
             /\ namespaces' = [namespaces EXCEPT ![id[s]] = NamespacesOf(s)]
             /\ tables' = [tables EXCEPT ![id[s]] = TablesOf(s)]
    <3>1. Api!Does(s)
      BY <1>6, <2>2, <2>3, <2>7
    <3>2. ~Api!Absent(s) /\ ~Api!Taken(s)
      BY <2>2, <2>7
    <3>3. UNCHANGED <<row, warehouse, req, id, dropped>>
      BY <2>5
    <3> QED
      BY <1>0, <1>1, <2>7, <3>1, <3>2, <3>3, CallRefines
  <2> QED
    BY <2>5, <2>6, <2>7
<1>9. CASE CreateNamespace(s)
  <2>1. req[s].op = "CreateNamespace"
    BY <1>9 DEF CreateNamespace, Asks
  <2>2. /\ CreateNamespaceAnswer(s) \in {"ok", "NotFound", "Conflict"}
        /\ CreateNamespaceAnswer(s) = "NotFound" => Api!Absent(s)
        /\ CreateNamespaceAnswer(s) = "Conflict" => Api!Taken(s)
        /\ CreateNamespaceAnswer(s) = "ok" => ~Api!Absent(s) /\ ~Api!Taken(s)
    BY <1>4, <1>5, <2>1 DEF CreateNamespaceAnswer, OfBucket, OfNamespace, OfTable
  <2>3. /\ namespaces' = [namespaces EXCEPT ![id[s]] = NamespacesOf(s) \cup {Namespace(s)}]
        /\ UNCHANGED tables
        => Api!Does(s)
    BY <1>1, <1>2, <2>1 DEF Api!Does
  <2>4. Call(s, CreateNamespaceAnswer(s), NamespacesOf(s) \cup {Namespace(s)}, TablesOf(s), purging)
    BY <1>9 DEF CreateNamespace
  <2>5. /\ UNCHANGED <<row, warehouse, req, id, dropped>>
        /\ \/ /\ CreateNamespaceAnswer(s) = "ok"
              /\ Finish(s, "ok") \/ Finish(s, "Internal")
              /\ namespaces' = [namespaces EXCEPT ![id[s]] = NamespacesOf(s) \cup {Namespace(s)}]
              /\ tables' = [tables EXCEPT ![id[s]] = TablesOf(s)]
           \/ /\ UNCHANGED <<namespaces, tables>>
              /\ \/ Finish(s, "Internal")
                 \/ CreateNamespaceAnswer(s) # "ok" /\ Finish(s, CreateNamespaceAnswer(s))
    BY <2>4 DEF Call
  <2> HIDE DEF BackedInv, TypeInv, TypeOK
  <2>6. CASE /\ UNCHANGED <<namespaces, tables>>
             /\ \/ Finish(s, "Internal")
                \/ CreateNamespaceAnswer(s) # "ok" /\ Finish(s, CreateNamespaceAnswer(s))
    BY <1>0, <1>1, <2>2, <2>5, <2>6, CallRefines
  <2>7. CASE /\ CreateNamespaceAnswer(s) = "ok"
             /\ Finish(s, "ok") \/ Finish(s, "Internal")
             /\ namespaces' = [namespaces EXCEPT ![id[s]] = NamespacesOf(s) \cup {Namespace(s)}]
             /\ tables' = [tables EXCEPT ![id[s]] = TablesOf(s)]
    <3>1. Api!Does(s)
      BY <1>6, <2>2, <2>3, <2>7
    <3>2. ~Api!Absent(s) /\ ~Api!Taken(s)
      BY <2>2, <2>7
    <3>3. UNCHANGED <<row, warehouse, req, id, dropped>>
      BY <2>5
    <3> QED
      BY <1>0, <1>1, <2>7, <3>1, <3>2, <3>3, CallRefines
  <2> QED
    BY <2>5, <2>6, <2>7
<1>10. CASE DeleteNamespace(s)
  <2>1. req[s].op = "DeleteNamespace"
    BY <1>10 DEF DeleteNamespace, Asks
  <2>2. /\ DeleteNamespaceAnswer(s) \in {"ok", "NotFound", "Internal"}
        /\ DeleteNamespaceAnswer(s) = "NotFound" => Api!Absent(s)
        /\ DeleteNamespaceAnswer(s) = "ok" =>
             /\ ~Api!Absent(s) /\ ~Api!Taken(s)
             /\ \A t \in TableNames : <<Namespace(s), t>> \notin TablesOf(s)
    BY <1>4, <1>5, <2>1 DEF DeleteNamespaceAnswer, OfBucket, OfNamespace, OfTable
  <2>3. /\ namespaces' = [namespaces EXCEPT ![id[s]] = NamespacesOf(s) \ {Namespace(s)}]
        /\ UNCHANGED tables
        /\ \A t \in TableNames : <<Namespace(s), t>> \notin TablesOf(s)
        => Api!Does(s)
    BY <1>1, <1>2, <2>1 DEF Api!Does
  <2>4. Call(s, DeleteNamespaceAnswer(s), NamespacesOf(s) \ {Namespace(s)}, TablesOf(s), purging)
    BY <1>10 DEF DeleteNamespace
  <2>5. /\ UNCHANGED <<row, warehouse, req, id, dropped>>
        /\ \/ /\ DeleteNamespaceAnswer(s) = "ok"
              /\ Finish(s, "ok") \/ Finish(s, "Internal")
              /\ namespaces' = [namespaces EXCEPT ![id[s]] = NamespacesOf(s) \ {Namespace(s)}]
              /\ tables' = [tables EXCEPT ![id[s]] = TablesOf(s)]
           \/ /\ UNCHANGED <<namespaces, tables>>
              /\ \/ Finish(s, "Internal")
                 \/ DeleteNamespaceAnswer(s) # "ok" /\ Finish(s, DeleteNamespaceAnswer(s))
    BY <2>4 DEF Call
  <2> HIDE DEF BackedInv, TypeInv, TypeOK
  <2>6. CASE /\ UNCHANGED <<namespaces, tables>>
             /\ \/ Finish(s, "Internal")
                \/ DeleteNamespaceAnswer(s) # "ok" /\ Finish(s, DeleteNamespaceAnswer(s))
    BY <1>0, <1>1, <2>2, <2>5, <2>6, CallRefines
  <2>7. CASE /\ DeleteNamespaceAnswer(s) = "ok"
             /\ Finish(s, "ok") \/ Finish(s, "Internal")
             /\ namespaces' = [namespaces EXCEPT ![id[s]] = NamespacesOf(s) \ {Namespace(s)}]
             /\ tables' = [tables EXCEPT ![id[s]] = TablesOf(s)]
    <3>1. Api!Does(s)
      BY <1>6, <2>2, <2>3, <2>7
    <3>2. ~Api!Absent(s) /\ ~Api!Taken(s)
      BY <2>2, <2>7
    <3>3. UNCHANGED <<row, warehouse, req, id, dropped>>
      BY <2>5
    <3> QED
      BY <1>0, <1>1, <2>7, <3>1, <3>2, <3>3, CallRefines
  <2> QED
    BY <2>5, <2>6, <2>7
<1>11. CASE CreateTable(s)
  <2>1. req[s].op = "CreateTable"
    BY <1>11 DEF CreateTable, Asks
  <2>2. /\ CreateTableAnswer(s) \in {"ok", "NotFound", "Conflict"}
        /\ CreateTableAnswer(s) = "NotFound" => Api!Absent(s)
        /\ CreateTableAnswer(s) = "Conflict" => Api!Taken(s)
        /\ CreateTableAnswer(s) = "ok" => ~Api!Absent(s) /\ ~Api!Taken(s)
    BY <1>4, <1>5, <2>1 DEF CreateTableAnswer, OfBucket, OfNamespace, OfTable
  <2>3. /\ UNCHANGED namespaces
        /\ tables' = [tables EXCEPT ![id[s]] = TablesOf(s) \cup {TableName(s)}]
        => Api!Does(s)
    BY <1>1, <1>2, <2>1 DEF Api!Does
  <2>4. Call(s, CreateTableAnswer(s), NamespacesOf(s), TablesOf(s) \cup {TableName(s)}, purging)
    BY <1>11 DEF CreateTable
  <2>5. /\ UNCHANGED <<row, warehouse, req, id, dropped>>
        /\ \/ /\ CreateTableAnswer(s) = "ok"
              /\ Finish(s, "ok") \/ Finish(s, "Internal")
              /\ namespaces' = [namespaces EXCEPT ![id[s]] = NamespacesOf(s)]
              /\ tables' = [tables EXCEPT ![id[s]] = TablesOf(s) \cup {TableName(s)}]
           \/ /\ UNCHANGED <<namespaces, tables>>
              /\ \/ Finish(s, "Internal")
                 \/ CreateTableAnswer(s) # "ok" /\ Finish(s, CreateTableAnswer(s))
    BY <2>4 DEF Call
  <2> HIDE DEF BackedInv, TypeInv, TypeOK
  <2>6. CASE /\ UNCHANGED <<namespaces, tables>>
             /\ \/ Finish(s, "Internal")
                \/ CreateTableAnswer(s) # "ok" /\ Finish(s, CreateTableAnswer(s))
    BY <1>0, <1>1, <2>2, <2>5, <2>6, CallRefines
  <2>7. CASE /\ CreateTableAnswer(s) = "ok"
             /\ Finish(s, "ok") \/ Finish(s, "Internal")
             /\ namespaces' = [namespaces EXCEPT ![id[s]] = NamespacesOf(s)]
             /\ tables' = [tables EXCEPT ![id[s]] = TablesOf(s) \cup {TableName(s)}]
    <3>1. Api!Does(s)
      BY <1>6, <2>2, <2>3, <2>7
    <3>2. ~Api!Absent(s) /\ ~Api!Taken(s)
      BY <2>2, <2>7
    <3>3. UNCHANGED <<row, warehouse, req, id, dropped>>
      BY <2>5
    <3> QED
      BY <1>0, <1>1, <2>7, <3>1, <3>2, <3>3, CallRefines
  <2> QED
    BY <2>5, <2>6, <2>7
<1>12. CASE DeleteTable(s)
  <2>1. req[s].op = "DeleteTable"
    BY <1>12 DEF DeleteTable, Asks
  <2>2. /\ DeleteTableAnswer(s) \in {"ok", "NotFound"}
        /\ DeleteTableAnswer(s) = "NotFound" => Api!Absent(s)
        /\ DeleteTableAnswer(s) = "ok" => ~Api!Absent(s) /\ ~Api!Taken(s)
    BY <1>4, <1>5, <2>1 DEF DeleteTableAnswer, OfBucket, OfNamespace, OfTable
  <2>3. /\ UNCHANGED namespaces
        /\ tables' = [tables EXCEPT ![id[s]] = TablesOf(s) \ {TableName(s)}]
        => Api!Does(s)
    BY <1>1, <1>2, <2>1 DEF Api!Does
  <2>4. Call(s, DeleteTableAnswer(s), NamespacesOf(s), TablesOf(s) \ {TableName(s)},
             purging \cup {id[s]})
    BY <1>12 DEF DeleteTable
  <2>5. /\ UNCHANGED <<row, warehouse, req, id, dropped>>
        /\ \/ /\ DeleteTableAnswer(s) = "ok"
              /\ Finish(s, "ok") \/ Finish(s, "Internal")
              /\ namespaces' = [namespaces EXCEPT ![id[s]] = NamespacesOf(s)]
              /\ tables' = [tables EXCEPT ![id[s]] = TablesOf(s) \ {TableName(s)}]
           \/ /\ UNCHANGED <<namespaces, tables>>
              /\ \/ Finish(s, "Internal")
                 \/ DeleteTableAnswer(s) # "ok" /\ Finish(s, DeleteTableAnswer(s))
    BY <2>4 DEF Call
  <2> HIDE DEF BackedInv, TypeInv, TypeOK
  <2>6. CASE /\ UNCHANGED <<namespaces, tables>>
             /\ \/ Finish(s, "Internal")
                \/ DeleteTableAnswer(s) # "ok" /\ Finish(s, DeleteTableAnswer(s))
    BY <1>0, <1>1, <2>2, <2>5, <2>6, CallRefines
  <2>7. CASE /\ DeleteTableAnswer(s) = "ok"
             /\ Finish(s, "ok") \/ Finish(s, "Internal")
             /\ namespaces' = [namespaces EXCEPT ![id[s]] = NamespacesOf(s)]
             /\ tables' = [tables EXCEPT ![id[s]] = TablesOf(s) \ {TableName(s)}]
    <3>1. Api!Does(s)
      BY <1>6, <2>2, <2>3, <2>7
    <3>2. ~Api!Absent(s) /\ ~Api!Taken(s)
      BY <2>2, <2>7
    <3>3. UNCHANGED <<row, warehouse, req, id, dropped>>
      BY <2>5
    <3> QED
      BY <1>0, <1>1, <2>7, <3>1, <3>2, <3>3, CallRefines
  <2> QED
    BY <2>5, <2>6, <2>7
<1> QED
  BY <1>8, <1>9, <1>10, <1>11, <1>12 DEF CatalogStep

LEMMA RefineInit == Init => Api!Init
<1> SUFFICES ASSUME Init PROVE Api!Init
  OBVIOUS
<1>1. \A s \in Slots : Stage(s) = "free" /\ Held(s) = NoId
  BY DEF Init, Stage, Held
<1>2. Closed = {}
  BY DEF Init, Closed
<1> QED
  BY <1>1, <1>2 DEF Init, Api!Init

\* Every step of the service is a step of the store, or one no client sees.
LEMMA RefineStep ==
  ASSUME BackedInv, HeldInv, [Next]_vars
  PROVE  [Api!Next]_(Api!vars)
<1>1. ASSUME NEW s \in Slots, Receive(s) \/ Deliver(s) \/ Disconnect(s) PROVE Api!Next
  BY <1>1, ReceiveAsks, FreeLeaves DEF BackedInv
<1>2. ASSUME NEW s \in Slots, EnsureBucket(s) \/ CreateWarehouse(s) \/ UndoWarehouse(s)
      PROVE  Api!Next \/ UNCHANGED Api!vars
  BY <1>2, CreateRefines
<1>3. ASSUME NEW s \in Slots,
             \/ InsertRow(s) \/ GetRow(s) \/ Resolve(s) \/ DeleteWarehouse(s) \/ DeleteRow(s)
             \/ ReadRow(s)
      PROVE  Api!Next
  BY <1>3, InsertRefines, LookUpRefines, DeleteWarehouseRefines, DeleteRowRefines, ReadRowRefines
     DEF BackedInv
<1>4. ASSUME NEW s \in Slots, CatalogStep(s) PROVE Api!Next
  BY <1>4, CatalogRefines
<1>5. ASSUME Crash PROVE Api!Next
  BY <1>5, CrashDies DEF BackedInv
<1>6. ASSUME Quiet \/ UNCHANGED vars \/ \E w \in Ids : FinishPurge(w)
      PROVE  UNCHANGED Api!vars
  <2>1. UNCHANGED <<row, warehouse, dropped, namespaces, tables, req, pc, reply, id>>
    BY <1>6 DEF Quiet, vars, lake, slots, FinishPurge
  <2>2. \A z \in Slots : Stage(z)' = Stage(z) /\ Held(z)' = Held(z)
    BY <2>1 DEF Stage, Held
  <2>3. UNCHANGED Closed
    BY <2>1, SameClosed
  <2> QED
    BY <2>1, <2>2, <2>3, Unseen
<1> QED
  BY <1>1, <1>2, <1>3, <1>4, <1>5, <1>6 DEF Next, Step, CatalogStep

-----------------------------------------------------------------------------
(* What is left over.                                                      *)

\* A warehouse that exists has its row, a create that is about to use it, or a
\* reason.
Claimed(w) ==
  \/ row[warehouse[w]] = w
  \/ \E s \in Slots : Fresh(s) /\ id[s] = w
  \/ w \in dropped \cup overtaken

\* A warehouse keeps its claim in a step that leaves the rows and the warehouses
\* and in which no handler abandons the one it made.
LEMMA ClaimFrame ==
  ASSUME NEW w \in Ids, warehouse'[w] = warehouse[w], warehouse[w] # NoName => Claimed(w),
         dropped \subseteq dropped', overtaken \subseteq overtaken', UNCHANGED row,
         \A s \in Slots : Fresh(s) => Fresh(s)' /\ id'[s] = id[s]
  PROVE  warehouse'[w] # NoName => Claimed(w)'
BY DEF Claimed

\* While no call fails and no process dies, a row is taken by its own deletion
\* or is overtaken, and a create ends with its row or without its warehouse.
LEMMA ClaimStep ==
  ASSUME BackedInv, HeldInv, LeftoversKnown, [Next]_vars
  PROVE  LeftoversKnown'
<1> SUFFICES ASSUME spent'.faults = 0, spent'.crashes = 0, NEW w \in Ids, warehouse'[w] # NoName
             PROVE  Claimed(w)'
  BY DEF LeftoversKnown, Claimed, Fresh
<1> USE DEF BackedInv, TypeInv, TypeOK, Goto, Answer, Finish, lake, slots
<1>1. spent.faults = 0 /\ spent.crashes = 0 /\ ~Fault /\ ~Crash
  <2>1. ~Fault /\ ~Crash
    BY DEF Fault, Spend, Crash
  <2> QED
    BY <2>1, CallFacts DEF Next, Step, CatalogStep, Receive, Deliver, Disconnect, Quiet, FinishPurge,
       EnsureBucket, CreateWarehouse, InsertRow, UndoWarehouse, GetRow, DeleteWarehouse,
       DeleteRow, ReadRow, Resolve, LookUp, Spend, vars
<1>2. warehouse[w] # NoName => Claimed(w)
  BY <1>1 DEF LeftoversKnown, Claimed, Fresh
<1>3. overtaken \subseteq overtaken'
  BY DEF Next, Watch, vars
<1>4. ASSUME NEW s \in Slots, Receive(s) PROVE Claimed(w)'
  <2>1. PICK q \in Requests : Goto(s, FirstPc(q))
    BY <1>4 DEF Receive
  <2> QED
    BY <1>2, <1>3, <1>4, <2>1, ClaimFrame DEF Receive, Fresh
<1>5. ASSUME NEW s \in Slots,
             Deliver(s) \/ EnsureBucket(s) \/ GetRow(s) \/ Resolve(s) \/ ReadRow(s)
      PROVE  Claimed(w)'
  <2>1. UNCHANGED <<row, warehouse, dropped>>
    BY <1>5 DEF Deliver, EnsureBucket, GetRow, Resolve, ReadRow
  <2>2. \A z \in Slots : Fresh(z) => Fresh(z)' /\ id'[z] = id[z]
    BY <1>5 DEF Deliver, EnsureBucket, GetRow, Resolve, LookUp, ReadRow, Free, Fresh
  <2> QED
    BY <1>2, <1>3, <2>1, <2>2, ClaimFrame
<1>6. ASSUME NEW s \in Slots, CatalogStep(s) PROVE Claimed(w)'
  <2>1. /\ UNCHANGED <<row, warehouse, dropped, id>>
        /\ pc[s] = "catalog" /\ pc' = [pc EXCEPT ![s] = "done"]
    BY <1>6, CallFacts
  <2> QED
    BY <1>2, <1>3, <2>1, ClaimFrame DEF Fresh
<1>7. ASSUME Quiet \/ UNCHANGED vars \/ \E p \in Ids : FinishPurge(p) PROVE Claimed(w)'
  BY <1>2, <1>3, <1>7, ClaimFrame DEF Quiet, vars, FinishPurge, Fresh
<1>8. ASSUME NEW s \in Slots, CreateWarehouse(s) PROVE Claimed(w)'
  <2>1. UNCHANGED <<row, dropped>>
    BY <1>8 DEF CreateWarehouse
  <2>2. \A z \in Slots : Fresh(z) => Fresh(z)' /\ id'[z] = id[z]
    BY <1>8 DEF CreateWarehouse, Fresh
  <2>3. CASE warehouse'[w] = warehouse[w]
    BY <1>2, <1>3, <2>1, <2>2, <2>3, ClaimFrame
  <2>4. CASE warehouse'[w] # warehouse[w]
    BY <1>1, <1>8, <2>4 DEF CreateWarehouse, Mint, Claimed, Fresh
  <2> QED
    BY <2>3, <2>4
<1>9. ASSUME NEW s \in Slots, InsertRow(s) PROVE Claimed(w)'
  <2>1. UNCHANGED <<warehouse, dropped, id>> /\ Fresh(s) /\ Bucket(s) \in Buckets
    BY <1>9, RequestFacts DEF InsertRow, Fresh
  <2>2. CASE row' = row
    <3>1. pc'[s] = "undo" \/ id[s] = NoId
      BY <1>9, <2>1, <2>2 DEF InsertRow
    <3>2. \A z \in Slots : Fresh(z) => Fresh(z)' /\ id'[z] = id[z]
      BY <1>9, <2>1, <3>1, TableConstants DEF InsertRow, Fresh, Placed
    <3> QED
      BY <1>2, <1>3, <2>1, <2>2, <3>2, ClaimFrame
  <2>3. CASE row' # row
    <3>1. row[Bucket(s)] = NoId /\ row' = [row EXCEPT ![Bucket(s)] = id[s]]
      BY <1>9, <2>3 DEF InsertRow
    <3>2. CASE w = id[s]
      BY <2>1, <3>1, <3>2 DEF Claimed, FreshIsOwn
    <3>3. CASE w # id[s]
      <4>1. CASE row[warehouse[w]] = w
        BY <2>1, <3>1, <4>1, TableConstants DEF Claimed
      <4>2. CASE \E z \in Slots : Fresh(z) /\ id[z] = w
        <5>1. PICK z \in Slots : Fresh(z) /\ id[z] = w
          BY <4>2
        <5>2. Fresh(z)' /\ id'[z] = w
          BY <1>9, <2>1, <3>3, <5>1 DEF InsertRow, Fresh
        <5> QED
          BY <5>2 DEF Claimed
      <4>3. CASE w \in dropped \cup overtaken
        BY <1>3, <2>1, <4>3 DEF Claimed
      <4> QED
        BY <1>2, <2>1, <4>1, <4>2, <4>3 DEF Claimed
    <3> QED
      BY <3>2, <3>3
  <2> QED
    BY <2>2, <2>3
<1>10. ASSUME NEW s \in Slots, UndoWarehouse(s) PROVE Claimed(w)'
  <2>1. /\ UNCHANGED <<row, dropped, id>> /\ Fresh(s) /\ id[s] \in Ids
        /\ pc' = [pc EXCEPT ![s] = "done"]
        /\ warehouse' = [warehouse EXCEPT ![id[s]] = NoName]
    BY <1>1, <1>10 DEF UndoWarehouse, Remove, Fresh, Placed, HeldInv, FreshIsEmpty
  <2>2. w # id[s] /\ warehouse'[w] = warehouse[w]
    BY <2>1
  <2> QED
    BY <1>2, <1>3, <2>1, <2>2 DEF Claimed, Fresh
<1>11. ASSUME NEW s \in Slots, DeleteWarehouse(s) PROVE Claimed(w)'
  <2>1. /\ UNCHANGED <<row, id>> /\ dropped \subseteq dropped' /\ id[s] \in Ids
        /\ warehouse' = warehouse \/ warehouse' = [warehouse EXCEPT ![id[s]] = NoName]
    BY <1>11 DEF DeleteWarehouse, Remove, Placed
  <2>2. warehouse'[w] = warehouse[w]
    BY <2>1
  <2>3. \A z \in Slots : Fresh(z) => Fresh(z)' /\ id'[z] = id[z]
    BY <1>11 DEF DeleteWarehouse, Fresh
  <2> QED
    BY <1>2, <1>3, <2>1, <2>2, <2>3, ClaimFrame
<1>12. ASSUME NEW s \in Slots, DeleteRow(s) PROVE Claimed(w)'
  <2>1. /\ UNCHANGED <<warehouse, dropped, id, req>> /\ pc[s] = "delete_row" /\ id[s] \in dropped
        /\ pc' = [pc EXCEPT ![s] = "done"]
        /\ row' = row \/ row' = [row EXCEPT ![Bucket(s)] = NoId]
    BY <1>12 DEF DeleteRow, HeldInv, HeldKnown, Holding
  <2>2. \A z \in Slots : Fresh(z) => Fresh(z)' /\ id'[z] = id[z]
    BY <2>1 DEF Fresh
  <2>3. CASE row[warehouse[w]] = w
    <3>1. CASE row'[warehouse[w]] = w
      BY <2>1, <3>1 DEF Claimed
    <3>2. CASE row'[warehouse[w]] # w
      <4>1. row[Bucket(s)] = w /\ w # NoId
        BY <2>1, <2>3, <3>2, TableConstants
      <4>2. CASE w = id[s]
        BY <2>1, <4>2 DEF Claimed
      <4>3. CASE w # id[s]
        <5>1. Overtaken(s)
          BY <2>1, <4>1, <4>3 DEF Overtaken
        <5>2. Watch
          BY <2>1 DEF Next, vars
        <5>3. w \in overtaken'
          BY <4>1, <5>1, <5>2 DEF Watch
        <5> QED
          BY <5>3 DEF Claimed
      <4> QED
        BY <4>2, <4>3
    <3> QED
      BY <3>1, <3>2
  <2>4. CASE \E z \in Slots : Fresh(z) /\ id[z] = w
    BY <2>2, <2>4 DEF Claimed
  <2>5. CASE w \in dropped \cup overtaken
    BY <1>3, <2>1, <2>5 DEF Claimed
  <2> QED
    BY <1>2, <2>1, <2>3, <2>4, <2>5 DEF Claimed
<1>13. ASSUME NEW s \in Slots, Disconnect(s) PROVE FALSE
  BY <1>1, <1>13 DEF Disconnect
<1> QED
  BY <1>1, <1>4, <1>5, <1>6, <1>7, <1>8, <1>9, <1>10, <1>11, <1>12, <1>13
     DEF Next, Step, CatalogStep

-----------------------------------------------------------------------------
(* The theorems.                                                           *)

\* Every variable of the table service keeps its type.
THEOREM TypeCorrect == Spec => []TypeOK
<1>1. TypeInv => TypeOK
  BY DEF TypeInv
<1> QED
  BY TypeInit, TypeStep, <1>1, PTL DEF Spec

LEMMA AlwaysBacked == Spec => [](BackedInv /\ Ensured)
<1>1. Init => BackedInv /\ Ensured
  BY TypeInit, BackedInit, EnsuredInit DEF BackedInv
<1>2. BackedInv /\ Ensured /\ [Next]_vars => (BackedInv /\ Ensured)'
  BY TypeStep, BackedStep, EnsuredStep DEF BackedInv
<1> QED
  BY <1>1, <1>2, PTL DEF Spec

\* The rollback of one CreateTableBucket never takes the warehouse of another
\* bucket's row: a row points at a warehouse with its name, unless a
\* DeleteTableBucket asked for that to be dropped.
THEOREM RowsAreBacked == Spec => []RowBacked
<1>1. BackedInv => RowBacked
  BY DEF BackedInv
<1> QED
  BY AlwaysBacked, <1>1, PTL

\* A CreateTableBucket that succeeds leaves the bucket in all three stores, and
\* the row names the warehouse this handler made.
THEOREM CreatesAreUsable == Spec => CreatedIsUsable
<1>1. BackedInv /\ Ensured /\ [Next]_vars =>
        [\A s \in Slots :
           pc[s] # "done" /\ pc'[s] = "done" /\ reply'[s] = "ok" /\ req[s].op = "CreateTableBucket"
             => /\ row'[Bucket(s)] = id[s]
                /\ warehouse'[id[s]] = Bucket(s)
                /\ Bucket(s) \in s3Bucket']_vars
  BY UsableStep
<1> QED
  BY AlwaysBacked, <1>1, PTL DEF Spec, CreatedIsUsable

\* While no call fails a DeleteTableBucket completes or finds nothing, however
\* far an earlier one got and whatever others do meanwhile.
THEOREM DeletesRecover == Spec => []DeleteRecovers
<1>1. Init => DeleteRecovers
  BY DEF Init, DeleteRecovers
<1> QED
  BY TypeInit, TypeStep, RecoverStep, <1>1, PTL DEF Spec

\* What a handler calls not found was not there at a moment while it ran, also
\* with a warehouse id that had gone stale.
THEOREM NotFoundIsHonest == Spec => []NotFoundIsTrue
<1>1. Init => StaleIsMissed /\ NotFoundIsTrue
  BY DEF Init, StaleIsMissed, NotFoundIsTrue
<1> QED
  BY TypeInit, TypeStep, StaleStep, NotFoundStep, <1>1, PTL DEF Spec

LEMMA AlwaysHeld == Spec => [](BackedInv /\ HeldInv)
<1>1. Init => BackedInv /\ HeldInv
  BY TypeInit, BackedInit, HeldInit DEF BackedInv
<1>2. BackedInv /\ HeldInv /\ [Next]_vars => (BackedInv /\ HeldInv)'
  BY TypeStep, BackedStep, HeldStep DEF BackedInv
<1> QED
  BY <1>1, <1>2, PTL DEF Spec

\* While no call fails and no process dies, a warehouse without a row is about to
\* get one, or was kept back by an unfinished purge, or lost its row to a deletion
\* that had read another's: the rollback of a create leaves nothing behind.
THEOREM LeftoversAreKnown == Spec => []LeftoversKnown
<1>1. Init => LeftoversKnown
  BY DEF Init, LeftoversKnown
<1>2. BackedInv /\ HeldInv /\ LeftoversKnown /\ [Next]_vars => LeftoversKnown'
  BY ClaimStep
<1> QED
  BY AlwaysHeld, <1>1, <1>2, PTL DEF Spec

\* The table service is the store of TableApi: lives of buckets that begin empty
\* and unseen, requests that act in one step on the life they opened, refusals
\* that were true and changed nothing.
THEOREM TableServiceImplementsApi == Spec => Implements
<1>1. Init => Api!Init
  BY RefineInit
<1>2. BackedInv /\ HeldInv /\ [Next]_vars => [Api!Next]_(Api!vars)
  BY RefineStep
<1> QED
  BY AlwaysHeld, <1>1, <1>2, PTL DEF Spec, Implements, Api!Spec

=============================================================================
