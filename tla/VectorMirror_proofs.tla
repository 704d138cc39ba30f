------------------------ MODULE VectorMirror_proofs ------------------------
(***************************************************************************)
(* How the database and its mirror in the object store keep together in    *)
(* VectorService.  For any number of handlers, failures, crashes and       *)
(* boots: an index keeps its bucket unless it was made while the bucket    *)
(* was being deleted, an acknowledged delete leaves no snapshot but those  *)
(* it failed to drop or that were written behind it, and a boot puts back  *)
(* what it could fetch.  And what one handler at a time is needed for: a   *)
(* stored vector has its snapshot, an acknowledged put is stored twice.    *)
(***************************************************************************)
EXTENDS VectorService_proofs

\* No two requests are ever in flight together.
OneHandler == \A s, z \in Slots : s = z

-----------------------------------------------------------------------------
(* An index has its bucket.                                                *)

\* Between the emptiness check of DeleteVectorBucket and the delete of the
\* row, the bucket has no index but those made since.
BucketKept ==
  /\ IndexHasBucket
  /\ \A s \in Slots : pc[s] = "delete_bucket_row" =>
       \A p \in Pairs : HasIndex(p) /\ p[1] = Bucket(s) => p \in raced

\* A step that leaves the rows alone and reaches no delete keeps it.
LEMMA BucketKeptFrame ==
  ASSUME BucketKept, UNCHANGED <<bucketRow, indexRow, raced>>,
         \A z \in Slots : pc'[z] = "delete_bucket_row" => pc'[z] = pc[z] /\ req'[z] = req[z]
  PROVE  BucketKept'
BY DEF BucketKept, IndexHasBucket, HasIndex, Bucket

\* No handler deletes the row of a bucket that has an index made before the
\* count, whatever the others do in between.
LEMMA BucketKeptStep == TypeInv /\ BucketKept /\ [Next]_vars => BucketKept'
<1> SUFFICES ASSUME TypeInv, BucketKept, [Next]_vars PROVE BucketKept'
  OBVIOUS
<1> USE ConstantsAssumption
    DEF TypeInv, TypeOK, Goto, Finish, Free, Unlock, dbVars, s3Vars, slotVars, history, vars
<1>1. ASSUME NEW s \in Slots, Receive(s) PROVE BucketKept'
  <2>1. PICK q \in Requests : req' = [req EXCEPT ![s] = q] /\ Goto(s, FirstPc[q.op])
    BY <1>1 DEF Receive
  <2>2. FirstPc[q.op] # "delete_bucket_row"
    BY DEF Request, FirstPc, Ops
  <2> QED
    BY <1>1, <2>1, <2>2, BucketKeptFrame DEF Receive, SlotTypes
<1>2. ASSUME NEW s \in Slots,
             \/ EnsureBucket(s) \/ DeleteS3Bucket(s) \/ CreateTable(s) \/ CreateHnsw(s)
             \/ DropTable(s) \/ Deliver(s) \/ Disconnect(s)
      PROVE  BucketKept'
  <2>1. UNCHANGED <<bucketRow, indexRow, raced>>
    BY <1>2 DEF EnsureBucket, DeleteS3Bucket, CreateTable, CreateHnsw, DropTable, Deliver, Disconnect
  <2>2. \A z \in Slots : pc'[z] = "delete_bucket_row" => pc'[z] = pc[z] /\ req'[z] = req[z]
    BY <1>2 DEF SlotTypes, EnsureBucket, DeleteS3Bucket, CreateTable, CreateHnsw,
                DropTable, Deliver, Disconnect
  <2> QED
    BY <2>1, <2>2, BucketKeptFrame
<1>3. ASSUME NEW s \in Slots,
             \/ ListSnapshots(s) \/ DropSnapshot(s) \/ WriteSnapshot(s)
             \/ LookupIndex(s) \/ UpsertRow(s) \/ DeleteRows(s)
      PROVE  BucketKept'
  <2>1. UNCHANGED <<bucketRow, indexRow, raced>>
    BY <1>3 DEF ListSnapshots, DropSnapshot, WriteSnapshot, LookupIndex, UpsertRow, DeleteRows
  <2>2. \A z \in Slots : pc'[z] = "delete_bucket_row" => pc'[z] = pc[z] /\ req'[z] = req[z]
    BY <1>3 DEF SlotTypes, ListSnapshots, DropSnapshot, WriteSnapshot, LookupIndex,
                UpsertRow, DeleteRows
  <2> QED
    BY <2>1, <2>2, BucketKeptFrame
<1>4. ASSUME NEW s \in Slots, InsertBucketRow(s) PROVE BucketKept'
  <2>1. /\ UNCHANGED <<indexRow, raced, req>>
        /\ bucketRow \subseteq bucketRow'
        /\ \A z \in Slots : pc'[z] = "delete_bucket_row" => pc'[z] = pc[z]
    BY <1>4 DEF InsertBucketRow, SlotTypes
  <2> QED
    BY <2>1 DEF BucketKept, IndexHasBucket, HasIndex, Bucket
<1>5. ASSUME NEW s \in Slots, CountIndexes(s) PROVE BucketKept'
  <2>1. UNCHANGED <<bucketRow, indexRow, raced, req>>
    BY <1>5 DEF CountIndexes
  <2>2. pc'[s] = "delete_bucket_row" => ~AnyIndex(Bucket(s))
    BY <1>5 DEF CountIndexes, SlotTypes
  <2>3. pc'[s] = "delete_bucket_row" => \A p \in Pairs : HasIndex(p) => p[1] # Bucket(s)
    BY <2>2 DEF AnyIndex, HasIndex, Pairs
  <2>4. \A z \in Slots : z # s => pc'[z] = pc[z]
    BY <1>5 DEF CountIndexes, SlotTypes
  <2> QED
    BY <2>1, <2>3, <2>4 DEF BucketKept, IndexHasBucket, HasIndex, Bucket
<1>6. ASSUME NEW s \in Slots, DeleteBucketRow(s) PROVE BucketKept'
  <2>1. \A p \in Pairs : HasIndex(p) /\ p[1] = Bucket(s) => p \in raced
    BY <1>6 DEF DeleteBucketRow, BucketKept
  <2>2. /\ UNCHANGED <<indexRow, raced, req>>
        /\ bucketRow \ {Bucket(s)} \subseteq bucketRow'
        /\ \A z \in Slots : pc'[z] = "delete_bucket_row" => pc'[z] = pc[z]
    BY <1>6 DEF DeleteBucketRow, SlotTypes
  <2> QED
    BY <2>1, <2>2 DEF BucketKept, IndexHasBucket, HasIndex, Bucket
<1>7. ASSUME NEW s \in Slots, InsertIndexRow(s) PROVE BucketKept'
  <2>1. /\ Pair(s) \in Pairs /\ Pair(s)[1] = Bucket(s)
        /\ UNCHANGED <<bucketRow, req>>
        /\ \A z \in Slots : pc'[z] = "delete_bucket_row" => pc'[z] = pc[z]
    BY <1>7, RequestFacts DEF InsertIndexRow, SlotTypes, Pair, Bucket
  <2>2. CASE UNCHANGED <<indexRow, raced>>
    BY <2>1, <2>2 DEF BucketKept, IndexHasBucket, HasIndex, Bucket
  <2>3. CASE /\ Bucket(s) \in bucketRow
             /\ indexRow' = [indexRow EXCEPT ![Pair(s)] = req[s].dim]
             /\ raced' = IF BeingDeleted(Bucket(s)) THEN raced \cup {Pair(s)}
                                                    ELSE raced \ {Pair(s)}
    <3>1. \A p \in Pairs : p # Pair(s) => /\ indexRow'[p] = indexRow[p]
                                          /\ p \in raced' <=> p \in raced
      BY <2>1, <2>3 DEF DbTypes
    <3>2. ASSUME NEW z \in Slots, pc[z] = "delete_bucket_row", Bucket(z) = Bucket(s)
          PROVE  Pair(s) \in raced'
      BY <2>3, <3>2 DEF BeingDeleted
    <3>3. IndexHasBucket'
      BY <2>1, <2>3, <3>1 DEF BucketKept, IndexHasBucket, HasIndex
    <3>4. ASSUME NEW z \in Slots, pc'[z] = "delete_bucket_row",
                 NEW p \in Pairs, indexRow'[p] # NoDim, p[1] = Bucket(z)
          PROVE  p \in raced'
      BY <2>1, <3>1, <3>2, <3>4 DEF BucketKept, HasIndex
    <3> QED
      BY <2>1, <3>3, <3>4 DEF BucketKept, HasIndex, Bucket
  <2> QED
    BY <1>7, <2>2, <2>3 DEF InsertIndexRow
<1>8. ASSUME NEW s \in Slots, RollbackIndexRow(s) \/ DeleteIndexRow(s) PROVE BucketKept'
  <2>1. /\ Pair(s) \in Pairs /\ UNCHANGED <<bucketRow, raced, req>>
        /\ \A z \in Slots : pc'[z] = "delete_bucket_row" => pc'[z] = pc[z]
    BY <1>8, RequestFacts DEF RollbackIndexRow, DeleteIndexRow, SlotTypes
  <2>2. \A p \in Pairs : indexRow'[p] # NoDim => indexRow[p] # NoDim
    BY <1>8, <2>1 DEF RollbackIndexRow, DeleteIndexRow, UndoRow, DbTypes
  <2> QED
    BY <2>1, <2>2 DEF BucketKept, IndexHasBucket, HasIndex, Bucket
<1>9. ASSUME Crash PROVE BucketKept'
  BY <1>9 DEF Crash, BucketKept, IndexHasBucket, HasIndex
<1>10. ASSUME \/ Open \/ Serve \/ UNCHANGED vars
              \/ \E p \in Pairs : ListForReplay(p)
              \/ \E p \in Pairs, k \in Keys : ReplaySnapshot(p, k)
       PROVE  BucketKept'
  <2>1. UNCHANGED <<bucketRow, indexRow, raced, pc, req>>
    BY <1>10 DEF Open, Serve, ListForReplay, ReplaySnapshot
  <2> QED
    BY <2>1, BucketKeptFrame
<1> QED
  BY <1>1, <1>2, <1>3, <1>4, <1>5, <1>6, <1>7, <1>8, <1>9, <1>10 DEF Next, Step, Boot, Quiet

\* Whatever fails, crashes or runs in between, no bucket is deleted under an
\* index unless the index was made between the emptiness check and the delete.
THEOREM IndexesKeepBuckets == Spec => []IndexHasBucket
<1> DEFINE KeptInv == TypeInv /\ BucketKept
<1>1. Init => KeptInv
  BY TypeInit DEF Init, BucketKept, IndexHasBucket, HasIndex
<1>2. KeptInv /\ [Next]_vars => KeptInv'
  BY TypeStep, BucketKeptStep
<1>3. KeptInv => IndexHasBucket
  BY DEF BucketKept
<1> HIDE DEF KeptInv
<1> QED
  BY <1>1, <1>2, <1>3, PTL DEF Spec

-----------------------------------------------------------------------------
(* A stored vector has its snapshot.                                       *)

\* Every row of a table has a snapshot under the pair the table is named
\* after, whether or not the index still exists.
Mirrored ==
  \A p \in Pairs, k \in Keys :
     tableRows[TableOf[p]][k] # NoVec => object[p][k] # NoVec

\* A purge deletes only snapshots whose rows are gone already.
Purging ==
  \A s \in Slots :
    /\ pc[s] = "list_snapshots" => tableRows[Table(s)] = EmptyTable
    /\ pc[s] = "drop_snapshots" => \A k \in keys[s] : tableRows[Table(s)][k] = NoVec

\* A put stores only rows whose snapshots are written already.
Snapped ==
  \A s \in Slots :
    /\ pc[s] = "snapshot" =>
         \A n \in 1..(pos[s] - 1) : object[Pair(s)][req[s].batch[n].key] # NoVec
    /\ pc[s] \in {"lookup", "upsert"} =>
         \A n \in DOMAIN req[s].batch : object[Pair(s)][req[s].batch[n].key] # NoVec

MirrorKept == Mirrored /\ Purging /\ Snapped

\* A step that leaves rows and objects alone and moves no handler into or
\* along a purge or a put keeps the mirror.
LEMMA MirrorFrame ==
  ASSUME MirrorKept, UNCHANGED <<tableRows, object>>,
         \A z \in Slots : pc'[z] \in {"list_snapshots", "drop_snapshots", "snapshot", "lookup", "upsert"}
           => /\ pc'[z] = pc[z] /\ req'[z] = req[z]
              /\ keys'[z] = keys[z] /\ pos'[z] = pos[z]
  PROVE  MirrorKept'
BY DEF MirrorKept, Mirrored, Purging, Snapped, Pair, Table

\* Alone, no handler removes a snapshot before its row or stores a row before
\* its snapshot.
LEMMA MirrorStep ==
  OneHandler /\ NamesApart /\ TypeInv /\ MirrorKept /\ [Next]_vars => MirrorKept'
<1> SUFFICES ASSUME OneHandler, NamesApart, TypeInv, MirrorKept, [Next]_vars PROVE MirrorKept'
  OBVIOUS
<1> USE ConstantsAssumption
    DEF TypeInv, TypeOK, Goto, Finish, Free, Unlock, dbVars, s3Vars, slotVars, vars
<1>1. ASSUME NEW s \in Slots, Receive(s) PROVE MirrorKept'
  <2>1. PICK q \in Requests : req' = [req EXCEPT ![s] = q] /\ Goto(s, FirstPc[q.op])
    BY <1>1 DEF Receive
  <2>2. FirstPc[q.op] \notin {"list_snapshots", "drop_snapshots", "lookup", "upsert"}
    BY DEF Request, FirstPc, Ops
  <2>3. pos[s] = 1 /\ UNCHANGED <<tableRows, object, pos>>
    BY <1>1 DEF Receive, Working
  <2>4. \A z \in Slots : z = s
    BY DEF OneHandler
  <2>5. Mirrored' /\ Purging'
    BY <2>1, <2>2, <2>3, <2>4 DEF MirrorKept, Mirrored, Purging, SlotTypes
  <2>6. Snapped'
    BY <2>1, <2>2, <2>3, <2>4 DEF Snapped, SlotTypes
  <2> QED
    BY <2>5, <2>6 DEF MirrorKept
<1>2. ASSUME NEW s \in Slots,
             \/ InsertBucketRow(s) \/ EnsureBucket(s) \/ CountIndexes(s) \/ DeleteBucketRow(s)
             \/ DeleteS3Bucket(s) \/ Deliver(s) \/ Disconnect(s)
      PROVE  MirrorKept'
  <2>1. UNCHANGED <<tableRows, object>>
    BY <1>2 DEF InsertBucketRow, EnsureBucket, CountIndexes, DeleteBucketRow, DeleteS3Bucket,
                Deliver, Disconnect
  <2>2. /\ pc'[s] \notin {"list_snapshots", "drop_snapshots", "snapshot", "lookup", "upsert"}
        /\ \A z \in Slots : z = s
    BY <1>2 DEF OneHandler, SlotTypes, InsertBucketRow, EnsureBucket, CountIndexes,
                DeleteBucketRow, DeleteS3Bucket, Deliver, Disconnect
  <2> QED
    BY <2>1, <2>2, MirrorFrame
<1>3. ASSUME NEW s \in Slots,
             \/ InsertIndexRow(s) \/ CreateTable(s) \/ CreateHnsw(s) \/ RollbackIndexRow(s)
             \/ DeleteIndexRow(s)
      PROVE  MirrorKept'
  <2>1. UNCHANGED <<tableRows, object>>
    BY <1>3 DEF InsertIndexRow, CreateTable, CreateHnsw, RollbackIndexRow, DeleteIndexRow
  <2>2. /\ pc'[s] \notin {"list_snapshots", "drop_snapshots", "snapshot", "lookup", "upsert"}
        /\ \A z \in Slots : z = s
    BY <1>3 DEF OneHandler, SlotTypes, InsertIndexRow, CreateTable, CreateHnsw,
                RollbackIndexRow, DeleteIndexRow
  <2> QED
    BY <2>1, <2>2, MirrorFrame
<1>4. ASSUME NEW s \in Slots, DropTable(s) PROVE MirrorKept'
  <2>1. Table(s) \in Tables /\ UNCHANGED <<req, object>>
    BY <1>4, RequestFacts DEF DropTable
  <2>2. tableRows' = [tableRows EXCEPT ![Table(s)] = EmptyTable]
    BY <1>4 DEF DropTable, Drop
  <2>3. Mirrored'
    BY <2>1, <2>2 DEF MirrorKept, Mirrored, DbTypes, EmptyTable
  <2>4. pc'[s] = "list_snapshots" /\ \A z \in Slots : z = s
    BY <1>4 DEF DropTable, OneHandler, SlotTypes
  <2>5. Purging' /\ Snapped'
    BY <2>1, <2>2, <2>4 DEF Purging, Snapped, DbTypes, Table
  <2> QED
    BY <2>3, <2>5 DEF MirrorKept
<1>5. ASSUME NEW s \in Slots, ListSnapshots(s) PROVE MirrorKept'
  <2>1. UNCHANGED <<tableRows, object, req>> /\ \A z \in Slots : z = s
    BY <1>5 DEF ListSnapshots, OneHandler
  <2>2. tableRows[Table(s)] = EmptyTable
    BY <1>5 DEF ListSnapshots, MirrorKept, Purging
  <2>3. pc'[s] \in {"drop_snapshots", "done"} /\ keys'[s] \subseteq Keys
    BY <1>5 DEF ListSnapshots, SlotTypes, Listed
  <2>4. Purging' /\ Snapped'
    BY <2>1, <2>2, <2>3 DEF Purging, Snapped, EmptyTable, Table
  <2> QED
    BY <2>1, <2>4 DEF MirrorKept, Mirrored
<1>6. ASSUME NEW s \in Slots, DropSnapshot(s) PROVE MirrorKept'
  <2>1. Pair(s) \in Pairs /\ UNCHANGED <<tableRows, req>> /\ \A z \in Slots : z = s
    BY <1>6, RequestFacts DEF DropSnapshot, OneHandler
  <2>2. PICK k \in keys[s] :
          /\ object' = [object EXCEPT ![Pair(s)][k] = NoVec] \/ UNCHANGED object
          /\ keys' = [keys EXCEPT ![s] = @ \ {k}]
          /\ pc'[s] \in {"drop_snapshots", "done"}
    BY <1>6 DEF DropSnapshot, SlotTypes
  <2>3. \A j \in keys[s] : tableRows[TableOf[Pair(s)]][j] = NoVec
    BY <1>6 DEF DropSnapshot, MirrorKept, Purging, Table, Pair
  <2>4. Mirrored'
    BY <2>1, <2>2, <2>3 DEF MirrorKept, Mirrored, S3Types, SlotTypes
  <2>5. Purging' /\ Snapped'
    BY <2>1, <2>2, <2>3 DEF Purging, Snapped, SlotTypes, Table, Pair
  <2> QED
    BY <2>4, <2>5 DEF MirrorKept
<1>7. ASSUME NEW s \in Slots, WriteSnapshot(s) PROVE MirrorKept'
  <2>1. /\ Pair(s) \in Pairs /\ Item(s).key \in Keys /\ Item(s).vec \in Vecs
        /\ req[s].batch \in Seq(Write)
    BY <1>7, RequestFacts, ItemFacts DEF WriteSnapshot
  <2>2. /\ UNCHANGED <<tableRows, req>>
        /\ \A z \in Slots : z = s
        /\ pos[s] \in 1..Len(req[s].batch)
    BY <1>7 DEF WriteSnapshot, OneHandler, Working
  <2>3. object' \in {object, [object EXCEPT ![Pair(s)][Item(s).key] = Item(s).vec]}
    BY <1>7 DEF WriteSnapshot
  <2>4. \A p \in Pairs, k \in Keys : object[p][k] # NoVec => object'[p][k] # NoVec
    <3>1. object \in [Pairs -> [Keys -> Vecs \cup {NoVec}]]
      BY DEF S3Types
    <3>2. \A p \in Pairs, k \in Keys :
            object'[p][k] \in {object[p][k], Item(s).vec}
      BY <2>1, <2>3, <3>1
    <3> QED
      BY <2>1, <3>2
  <2>5. pc'[s] \in {"snapshot", "lookup"} => object'[Pair(s)][Item(s).key] # NoVec
    BY <1>7, <2>1 DEF WriteSnapshot, S3Types, SlotTypes
  <2>6. \A n \in 1..(pos[s] - 1) : object'[Pair(s)][req[s].batch[n].key] # NoVec
    <3>1. \A n \in 1..(pos[s] - 1) : req[s].batch[n] \in Write
      BY <2>1, <2>2
    <3> QED
      BY <1>7, <2>1, <2>4, <3>1 DEF WriteSnapshot, MirrorKept, Snapped, Write
  <2>7. Snapped'
    <3>1. CASE pc'[s] = "snapshot"
      <4>1. pos'[s] = pos[s] + 1
        BY <1>7, <3>1 DEF WriteSnapshot, SlotTypes
      <4>2. \A n \in 1..(pos'[s] - 1) : n \in 1..(pos[s] - 1) \/ n = pos[s]
        BY <2>2, <4>1
      <4>3. \A n \in 1..(pos'[s] - 1) : object'[Pair(s)][req[s].batch[n].key] # NoVec
        BY <2>5, <2>6, <3>1, <4>2 DEF Item
      <4> QED
        BY <2>2, <3>1, <4>3 DEF Snapped, Pair
    <3>2. CASE pc'[s] = "lookup"
      <4>1. pos[s] = Len(req[s].batch)
        BY <1>7, <3>2 DEF WriteSnapshot, AtLastItem, SlotTypes
      <4>2. \A n \in DOMAIN req[s].batch : n \in 1..(pos[s] - 1) \/ n = pos[s]
        BY <2>1, <2>2, <4>1
      <4>3. \A n \in DOMAIN req[s].batch : object'[Pair(s)][req[s].batch[n].key] # NoVec
        BY <2>5, <2>6, <3>2, <4>2 DEF Item
      <4> QED
        BY <2>2, <3>2, <4>3 DEF Snapped, Pair
    <3>3. pc'[s] \in {"snapshot", "lookup", "done"}
      BY <1>7 DEF WriteSnapshot, SlotTypes
    <3> QED
      BY <2>2, <3>1, <3>2, <3>3 DEF Snapped
  <2>8. Mirrored' /\ Purging'
    BY <1>7, <2>2, <2>4 DEF WriteSnapshot, MirrorKept, Mirrored, Purging, SlotTypes
  <2> QED
    BY <2>7, <2>8 DEF MirrorKept
<1>8. ASSUME NEW s \in Slots, LookupIndex(s) PROVE MirrorKept'
  <2>1. /\ UNCHANGED <<tableRows, object, req>>
        /\ \A z \in Slots : z = s
        /\ pc[s] = "lookup" /\ pc'[s] \in {"upsert", "done"}
    BY <1>8 DEF LookupIndex, OneHandler, SlotTypes
  <2> QED
    BY <2>1 DEF MirrorKept, Mirrored, Purging, Snapped, Pair
<1>9. ASSUME NEW s \in Slots, UpsertRow(s) PROVE MirrorKept'
  <2>1. /\ Pair(s) \in Pairs /\ Table(s) \in Tables
        /\ Item(s).key \in Keys
        /\ req[s].batch \in Seq(Write)
    BY <1>9, RequestFacts, ItemFacts DEF UpsertRow
  <2>2. /\ UNCHANGED <<object, req>>
        /\ \A z \in Slots : z = s
        /\ pos[s] \in DOMAIN req[s].batch
        /\ pc[s] = "upsert" /\ pc'[s] \in {"upsert", "done"}
    BY <1>9, <2>1 DEF UpsertRow, OneHandler, Working, SlotTypes
  <2>3. object[Pair(s)][Item(s).key] # NoVec
    BY <2>2 DEF MirrorKept, Snapped, Item
  <2>4. tableRows' \in {tableRows, Upserted(Table(s), Item(s).key, Item(s).vec)}
    BY <1>9 DEF UpsertRow
  <2>5. \A p \in Pairs, k \in Keys :
           \/ tableRows'[TableOf[p]][k] = tableRows[TableOf[p]][k]
           \/ p = Pair(s) /\ k = Item(s).key
    BY <2>1, <2>4 DEF Upserted, NamesApart, DbTypes, Table, Pair
  <2>6. Mirrored'
    BY <2>2, <2>3, <2>5 DEF MirrorKept, Mirrored
  <2> QED
    BY <2>2, <2>6 DEF MirrorKept, Purging, Snapped, Pair
<1>10. ASSUME NEW s \in Slots, DeleteRows(s) PROVE MirrorKept'
  <2>1. Table(s) \in Tables /\ UNCHANGED <<object, req>> /\ \A z \in Slots : z = s
    BY <1>10, RequestFacts DEF DeleteRows, OneHandler
  <2>2. \A t \in Tables, k \in Keys : tableRows'[t][k] \in {tableRows[t][k], NoVec}
    BY <1>10 DEF DeleteRows, DbTypes
  <2>3. Mirrored'
    BY <2>1, <2>2 DEF MirrorKept, Mirrored
  <2>4. pc'[s] \in {"done", "drop_snapshots"}
    BY <1>10 DEF DeleteRows, SlotTypes
  <2>5. pc'[s] = "drop_snapshots" =>
          \A k \in keys'[s] : k \in Keys => tableRows'[Table(s)][k] = NoVec
    BY <1>10, <2>1 DEF DeleteRows, SlotTypes, DbTypes
  <2>6. keys'[s] \subseteq Keys
    BY <1>10, RequestFacts DEF DeleteRows, SlotTypes
  <2>7. Purging' /\ Snapped'
    BY <2>1, <2>4, <2>5, <2>6 DEF Purging, Snapped, Table
  <2> QED
    BY <2>3, <2>7 DEF MirrorKept
<1>11. ASSUME Crash PROVE MirrorKept'
  BY <1>11 DEF Crash, MirrorKept, Mirrored, Purging, Snapped, EmptyTable
<1>12. ASSUME \/ Open \/ Serve \/ UNCHANGED vars
              \/ \E p \in Pairs : ListForReplay(p)
       PROVE  MirrorKept'
  <2>1. UNCHANGED <<tableRows, object, pc, req, keys, pos>>
    BY <1>12 DEF Open, Serve, ListForReplay
  <2> QED
    BY <2>1, MirrorFrame
<1>13. ASSUME NEW p \in Pairs, NEW k \in Keys, ReplaySnapshot(p, k) PROVE MirrorKept'
  <2>1. /\ object[p][k] # NoVec
        /\ \A z \in Slots : pc[z] = "idle"
        /\ UNCHANGED <<object, pc>>
    BY <1>13 DEF ReplaySnapshot, Asleep
  <2>2. tableRows' \in {tableRows, Upserted(TableOf[p], k, object[p][k])}
    BY <1>13 DEF ReplaySnapshot
  <2>3. \A q \in Pairs, j \in Keys :
           tableRows'[TableOf[q]][j] = tableRows[TableOf[q]][j] \/ (q = p /\ j = k)
    BY <2>2 DEF Upserted, NamesApart, DbTypes
  <2>4. Mirrored'
    BY <2>1, <2>3 DEF MirrorKept, Mirrored
  <2> QED
    BY <2>1, <2>4 DEF MirrorKept, Purging, Snapped
<1> QED
  BY <1>1, <1>2, <1>3, <1>4, <1>5, <1>6, <1>7, <1>8, <1>9, <1>10, <1>11, <1>12, <1>13
     DEF Next, Step, Boot, Quiet

\* With one handler at a time and table identifiers apart, the object store
\* holds a snapshot of every vector of every index: what a lost database is
\* rebuilt from is complete after any failures, crashes and boots.
THEOREM RowsHaveSnapshots == OneHandler /\ NamesApart => (Spec => []RowHasSnapshot)
<1> SUFFICES ASSUME OneHandler, NamesApart PROVE Spec => []RowHasSnapshot
  OBVIOUS
<1> DEFINE MirrorInv == TypeInv /\ MirrorKept
<1>1. Init => MirrorInv
  BY TypeInit, ConstantsAssumption
     DEF Init, MirrorKept, Mirrored, Purging, Snapped, EmptyTable, Pairs
<1>2. MirrorInv /\ [Next]_vars => MirrorInv'
  BY TypeStep, MirrorStep
<1>3. MirrorInv => RowHasSnapshot
  BY DEF MirrorKept, Mirrored, RowHasSnapshot
<1> HIDE DEF MirrorInv
<1> QED
  BY <1>1, <1>2, <1>3, PTL DEF Spec

-----------------------------------------------------------------------------
(* Which request a handler is at work on.                                  *)

\* The operation whose handler the program counter is in.
Serving ==
  \A s \in Slots :
    /\ pc[s] \in {"insert_bucket", "ensure_bucket"} => req[s].op = "CreateVectorBucket"
    /\ pc[s] \in {"count", "delete_bucket_row", "delete_s3_bucket"} =>
         req[s].op = "DeleteVectorBucket"
    /\ pc[s] \in {"insert_index", "create_table", "create_hnsw", "rollback"} =>
         req[s].op = "CreateIndex"
    /\ pc[s] \in {"delete_index_row", "drop_table", "list_snapshots"} =>
         req[s].op = "DeleteIndex"
    /\ pc[s] \in {"snapshot", "lookup", "upsert"} => req[s].op = "PutVectors"
    /\ pc[s] = "delete_rows" => req[s].op = "DeleteVectors"
    /\ pc[s] = "drop_snapshots" => req[s].op \in {"DeleteIndex", "DeleteVectors"}

\* A handler never goes over to another operation's code.
LEMMA ServingStep == TypeInv /\ Serving /\ [Next]_vars => Serving'
<1> SUFFICES ASSUME TypeInv, Serving, [Next]_vars PROVE Serving'
  OBVIOUS
<1> USE DEF TypeInv, TypeOK, Goto, Finish, Free, slotVars, vars, Serving
<1>1. ASSUME NEW s \in Slots, Receive(s) PROVE Serving'
  <2>1. PICK q \in Requests : req' = [req EXCEPT ![s] = q] /\ Goto(s, FirstPc[q.op])
    BY <1>1 DEF Receive
  <2>2. q.op \in Ops
    BY ConstantsAssumption DEF Request
  <2> QED
    BY <2>1, <2>2 DEF FirstPc, Ops, SlotTypes
<1>2. ASSUME NEW s \in Slots,
             \/ InsertBucketRow(s) \/ EnsureBucket(s) \/ CountIndexes(s) \/ DeleteBucketRow(s)
             \/ DeleteS3Bucket(s) \/ Deliver(s) \/ Disconnect(s)
      PROVE  Serving'
  BY <1>2 DEF SlotTypes, InsertBucketRow, EnsureBucket, CountIndexes, DeleteBucketRow,
              DeleteS3Bucket, Deliver, Disconnect
<1>3. ASSUME NEW s \in Slots,
             \/ InsertIndexRow(s) \/ CreateTable(s) \/ CreateHnsw(s) \/ RollbackIndexRow(s)
             \/ DeleteIndexRow(s)
      PROVE  Serving'
  BY <1>3 DEF SlotTypes, InsertIndexRow, CreateTable, CreateHnsw, RollbackIndexRow, DeleteIndexRow
<1>4. ASSUME NEW s \in Slots,
             DropTable(s) \/ ListSnapshots(s) \/ DropSnapshot(s) \/ DeleteRows(s)
      PROVE  Serving'
  BY <1>4 DEF SlotTypes, DropTable, ListSnapshots, DropSnapshot, DeleteRows
<1>5. ASSUME NEW s \in Slots, WriteSnapshot(s) \/ LookupIndex(s) \/ UpsertRow(s)
      PROVE  Serving'
  BY <1>5 DEF SlotTypes, WriteSnapshot, LookupIndex, UpsertRow
<1>6. ASSUME Crash PROVE Serving'
  BY <1>6 DEF Crash
<1>7. ASSUME \/ Open \/ Serve \/ UNCHANGED vars
             \/ \E p \in Pairs : ListForReplay(p)
             \/ \E p \in Pairs, k \in Keys : ReplaySnapshot(p, k)
      PROVE  Serving'
  BY <1>7 DEF Open, Serve, ListForReplay, ReplaySnapshot
<1> QED
  BY <1>1, <1>2, <1>3, <1>4, <1>5, <1>6, <1>7 DEF Next, Step, Boot, Quiet

-----------------------------------------------------------------------------
(* An acknowledged put is stored twice.                                    *)

\* row holds the first m writes of the batch, the last one of each key.
LastOf(batch, n, m) == \A j \in 1..m : j > n => batch[j].key # batch[n].key
Holds(row, batch, m) ==
  \A n \in 1..m : LastOf(batch, n, m) => row[batch[n].key] = batch[n].vec

Acked(s) == pc[s] = "done" /\ req[s].op = "PutVectors" /\ reply[s] = "ok"

\* A put's snapshots are written in order, then its rows.
PutKept ==
  \A s \in Slots :
    /\ pc[s] = "snapshot" => Holds(object[Pair(s)], req[s].batch, pos[s] - 1)
    /\ pc[s] \in {"lookup", "upsert"} \/ Acked(s) =>
         Holds(object[Pair(s)], req[s].batch, Len(req[s].batch))
    /\ pc[s] = "lookup" => pos[s] = 1
    /\ pc[s] = "upsert" => Holds(tableRows[Table(s)], req[s].batch, pos[s] - 1)
    /\ Acked(s) => Holds(tableRows[Table(s)], req[s].batch, Len(req[s].batch))

\* Storing the m-th write makes the first m of the first m - 1.
LEMMA HoldsOneMore ==
  ASSUME NEW batch \in Seq(Write), NEW row \in [Keys -> Vecs \cup {NoVec}],
         NEW m \in 1..Len(batch), Holds(row, batch, m - 1)
  PROVE  Holds([row EXCEPT ![batch[m].key] = batch[m].vec], batch, m)
<1> SUFFICES ASSUME NEW n \in 1..m, LastOf(batch, n, m)
             PROVE  [row EXCEPT ![batch[m].key] = batch[m].vec][batch[n].key] = batch[n].vec
  BY DEF Holds
<1>1. batch[n] \in Write /\ batch[n].key \in Keys
  <2>1. n \in 1..Len(batch)
    OBVIOUS
  <2>2. batch[n] \in Write
    BY <2>1
  <2> QED
    BY <2>2 DEF Write
<1>2. CASE n = m
  BY <1>1, <1>2
<1>3. CASE n # m
  <2>1. n \in 1..(m - 1) /\ LastOf(batch, n, m - 1) /\ batch[n].key # batch[m].key
    BY <1>3 DEF LastOf
  <2> QED
    BY <1>1, <2>1 DEF Holds
<1> QED
  BY <1>2, <1>3

\* Alone, no handler undoes what a put in progress or just acknowledged wrote.
LEMMA PutStep == OneHandler /\ TypeInv /\ Serving /\ PutKept /\ [Next]_vars => PutKept'
<1> SUFFICES ASSUME OneHandler, TypeInv, Serving, PutKept, [Next]_vars PROVE PutKept'
  OBVIOUS
<1> USE ConstantsAssumption
    DEF TypeInv, TypeOK, Goto, Finish, Free, Unlock, dbVars, s3Vars, slotVars, vars
\* A step that ends out of every put, with none acknowledged.
<1>0. ASSUME NEW s \in Slots, \A z \in Slots : z = s,
             pc'[s] \notin {"snapshot", "lookup", "upsert"},
             ~(pc'[s] = "done" /\ req'[s].op = "PutVectors" /\ reply'[s] = "ok")
      PROVE  PutKept'
  BY <1>0 DEF PutKept, Acked
<1>1. ASSUME NEW s \in Slots, Receive(s) PROVE PutKept'
  <2>1. PICK q \in Requests : req' = [req EXCEPT ![s] = q] /\ Goto(s, FirstPc[q.op])
    BY <1>1 DEF Receive
  <2>2. FirstPc[q.op] \notin {"lookup", "upsert", "done"}
    BY DEF Request, FirstPc, Ops
  <2>3. pos'[s] - 1 = 0 /\ pc'[s] = FirstPc[q.op]
    BY <1>1, <2>1 DEF Receive, Working, SlotTypes
  <2>4. \A z \in Slots : z = s
    BY DEF OneHandler
  <2> QED
    BY <2>2, <2>3, <2>4 DEF PutKept, Acked, Holds
<1>2. ASSUME NEW s \in Slots,
             \/ InsertBucketRow(s) \/ EnsureBucket(s) \/ CountIndexes(s) \/ DeleteBucketRow(s)
             \/ DeleteS3Bucket(s) \/ Deliver(s) \/ Disconnect(s)
      PROVE  PutKept'
  <2>1. /\ pc'[s] \notin {"snapshot", "lookup", "upsert"}
        /\ ~(pc'[s] = "done" /\ req'[s].op = "PutVectors" /\ reply'[s] = "ok")
        /\ \A z \in Slots : z = s
    BY <1>2 DEF SlotTypes, Serving, OneHandler, InsertBucketRow, EnsureBucket, CountIndexes,
                DeleteBucketRow, DeleteS3Bucket, Deliver, Disconnect
  <2> QED
    BY <2>1, <1>0
<1>3. ASSUME NEW s \in Slots,
             \/ InsertIndexRow(s) \/ CreateTable(s) \/ CreateHnsw(s) \/ RollbackIndexRow(s)
             \/ DeleteIndexRow(s)
      PROVE  PutKept'
  <2>1. /\ pc'[s] \notin {"snapshot", "lookup", "upsert"}
        /\ ~(pc'[s] = "done" /\ req'[s].op = "PutVectors" /\ reply'[s] = "ok")
        /\ \A z \in Slots : z = s
    BY <1>3 DEF SlotTypes, Serving, OneHandler, InsertIndexRow, CreateTable, CreateHnsw,
                RollbackIndexRow, DeleteIndexRow
  <2> QED
    BY <2>1, <1>0
<1>4. ASSUME NEW s \in Slots,
             DropTable(s) \/ ListSnapshots(s) \/ DropSnapshot(s) \/ DeleteRows(s)
      PROVE  PutKept'
  <2>1. /\ pc'[s] \notin {"snapshot", "lookup", "upsert"}
        /\ ~(pc'[s] = "done" /\ req'[s].op = "PutVectors" /\ reply'[s] = "ok")
        /\ \A z \in Slots : z = s
    BY <1>4 DEF SlotTypes, Serving, OneHandler, DropTable, ListSnapshots, DropSnapshot, DeleteRows
  <2> QED
    BY <2>1, <1>0
<1>5. ASSUME NEW s \in Slots, WriteSnapshot(s) PROVE PutKept'
  <2>1. /\ Pair(s) \in Pairs /\ req[s].batch \in Seq(Write)
        /\ pos[s] \in 1..Len(req[s].batch)
        /\ object[Pair(s)] \in [Keys -> Vecs \cup {NoVec}]
    BY <1>5, RequestFacts DEF WriteSnapshot, Working, S3Types
  <2>2. /\ Holds(object[Pair(s)], req[s].batch, pos[s] - 1)
        /\ UNCHANGED req /\ \A z \in Slots : z = s
    BY <1>5 DEF WriteSnapshot, PutKept, OneHandler
  <2>3. CASE pc'[s] \in {"snapshot", "lookup"}
    <3>1. object' = [object EXCEPT ![Pair(s)][Item(s).key] = Item(s).vec]
      BY <1>5, <2>3 DEF WriteSnapshot, SlotTypes
    <3>2. object'[Pair(s)] = [object[Pair(s)] EXCEPT ![req[s].batch[pos[s]].key] = req[s].batch[pos[s]].vec]
      BY <2>1, <3>1 DEF S3Types, Item
    <3>3. Holds(object'[Pair(s)], req[s].batch, pos[s])
      <4>1. Holds([object[Pair(s)] EXCEPT ![req[s].batch[pos[s]].key] = req[s].batch[pos[s]].vec],
                  req[s].batch, pos[s])
        BY <2>1, <2>2, HoldsOneMore
      <4> QED
        BY <3>2, <4>1
    <3>4. IF AtLastItem(s) THEN pc'[s] = "lookup" /\ pos'[s] = 1
                            ELSE pc'[s] = "snapshot" /\ pos'[s] = pos[s] + 1
      BY <1>5, <2>3 DEF WriteSnapshot, SlotTypes
    <3>5. CASE pc'[s] = "snapshot"
      <4>1. pos'[s] - 1 = pos[s]
        BY <2>1, <3>4, <3>5
      <4> QED
        BY <2>2, <3>3, <3>5, <4>1 DEF PutKept, Acked, Pair
    <3>6. CASE pc'[s] = "lookup"
      <4>1. pos[s] = Len(req[s].batch) /\ pos'[s] = 1
        BY <3>4, <3>6 DEF AtLastItem
      <4> QED
        BY <2>2, <3>3, <3>6, <4>1 DEF PutKept, Acked, Pair
    <3> QED
      BY <2>3, <3>5, <3>6
  <2>4. CASE pc'[s] \notin {"snapshot", "lookup"}
    <3>1. pc'[s] = "done" /\ reply'[s] = "Internal"
      BY <1>5, <2>4 DEF WriteSnapshot, SlotTypes
    <3> QED
      BY <2>2, <3>1, <1>0
  <2> QED
    BY <2>3, <2>4
<1>6. ASSUME NEW s \in Slots, LookupIndex(s) PROVE PutKept'
  <2>1. CASE pc'[s] = "upsert"
    <3>1. /\ pos[s] = 1 /\ UNCHANGED <<object, req, pos>>
          /\ Holds(object[Pair(s)], req[s].batch, Len(req[s].batch))
      BY <1>6 DEF LookupIndex, PutKept
    <3>2. Holds(tableRows'[Table(s)], req[s].batch, pos[s] - 1)
      BY <3>1 DEF Holds
    <3> QED
      BY <2>1, <3>1, <3>2 DEF PutKept, OneHandler, Acked, Pair, Table
  <2>2. CASE pc'[s] # "upsert"
    <3>1. pc'[s] = "done" /\ reply'[s] # "ok"
      BY <1>6, <2>2 DEF LookupIndex, SlotTypes
    <3> QED
      BY <3>1, <1>0 DEF OneHandler
  <2> QED
    BY <2>1, <2>2
<1>7. ASSUME NEW s \in Slots, UpsertRow(s) PROVE PutKept'
  <2>1. /\ Table(s) \in Tables /\ req[s].batch \in Seq(Write)
        /\ pos[s] \in 1..Len(req[s].batch)
        /\ tableRows[Table(s)] \in [Keys -> Vecs \cup {NoVec}]
    BY <1>7, RequestFacts DEF UpsertRow, Working, DbTypes
  <2>2. /\ Holds(tableRows[Table(s)], req[s].batch, pos[s] - 1)
        /\ Holds(object[Pair(s)], req[s].batch, Len(req[s].batch))
        /\ UNCHANGED <<req, object>> /\ \A z \in Slots : z = s
    BY <1>7 DEF UpsertRow, PutKept, OneHandler
  <2>3. CASE tableDim[Table(s)] = indexRow[Pair(s)] /\ Writable(Table(s))
    <3>1. tableRows' = [tableRows EXCEPT ![Table(s)][Item(s).key] = Item(s).vec]
      BY <1>7, <2>3 DEF UpsertRow, Upserted
    <3>2. tableRows'[Table(s)] = [tableRows[Table(s)] EXCEPT ![req[s].batch[pos[s]].key] = req[s].batch[pos[s]].vec]
      BY <2>1, <3>1 DEF DbTypes, Item
    <3>3. Holds(tableRows'[Table(s)], req[s].batch, pos[s])
      <4>1. Holds([tableRows[Table(s)] EXCEPT ![req[s].batch[pos[s]].key] = req[s].batch[pos[s]].vec],
                  req[s].batch, pos[s])
        BY <2>1, <2>2, HoldsOneMore
      <4> QED
        BY <3>2, <4>1
    <3>4. IF AtLastItem(s) THEN pc'[s] = "done"
                            ELSE pc'[s] = "upsert" /\ pos'[s] = pos[s] + 1
      BY <1>7, <2>3 DEF UpsertRow, SlotTypes
    <3>5. CASE AtLastItem(s)
      <4>1. pc'[s] = "done" /\ pos[s] = Len(req[s].batch)
        BY <3>4, <3>5 DEF AtLastItem
      <4> QED
        BY <2>2, <3>3, <4>1 DEF PutKept, Acked, Pair, Table
    <3>6. CASE ~AtLastItem(s)
      <4>1. pc'[s] = "upsert" /\ pos'[s] - 1 = pos[s]
        BY <2>1, <3>4, <3>6
      <4> QED
        BY <2>2, <3>3, <4>1 DEF PutKept, Acked, Pair, Table
    <3> QED
      BY <3>5, <3>6
  <2>4. CASE ~(tableDim[Table(s)] = indexRow[Pair(s)] /\ Writable(Table(s)))
    <3>1. pc'[s] = "done" /\ reply'[s] = "Internal"
      BY <1>7, <2>4 DEF UpsertRow, SlotTypes
    <3> QED
      BY <2>2, <3>1, <1>0
  <2> QED
    BY <2>3, <2>4
<1>8. ASSUME Crash PROVE PutKept'
  BY <1>8 DEF Crash, PutKept, Acked
<1>9. ASSUME \/ Open \/ Serve
             \/ \E p \in Pairs : ListForReplay(p)
             \/ \E p \in Pairs, k \in Keys : ReplaySnapshot(p, k)
      PROVE  PutKept'
  <2>1. UNCHANGED pc /\ \A s \in Slots : pc[s] = "idle"
    BY <1>9 DEF Open, Serve, ListForReplay, ReplaySnapshot, Asleep
  <2> QED
    BY <2>1 DEF PutKept, Acked
<1>10. ASSUME UNCHANGED vars PROVE PutKept'
  BY <1>10 DEF PutKept, Acked, Pair, Table
<1> QED
  BY <1>1, <1>2, <1>3, <1>4, <1>5, <1>6, <1>7, <1>8, <1>9, <1>10 DEF Next, Step, Boot, Quiet

\* With one handler at a time an acknowledged put is in the database and in
\* the object store, the last write of a key if the batch has several.
THEOREM PutsAreDurable == OneHandler => (Spec => []PutIsDurable)
<1> SUFFICES ASSUME OneHandler PROVE Spec => []PutIsDurable
  OBVIOUS
<1> DEFINE PutInv == TypeInv /\ Serving /\ PutKept
<1>1. Init => PutInv
  BY TypeInit DEF Init, Serving, PutKept, Acked
<1>2. PutInv /\ [Next]_vars => PutInv'
  BY TypeStep, ServingStep, PutStep
<1>3. PutInv => PutIsDurable
  <2> SUFFICES ASSUME PutInv, NEW s \in Slots, Acked(s), NEW n \in DOMAIN req[s].batch,
                      \A m \in DOMAIN req[s].batch :
                         m > n => req[s].batch[m].key # req[s].batch[n].key
               PROVE  /\ tableRows[Table(s)][req[s].batch[n].key] = req[s].batch[n].vec
                      /\ object[Pair(s)][req[s].batch[n].key] = req[s].batch[n].vec
    BY DEF PutIsDurable, Acked
  <2>1. DOMAIN req[s].batch = 1..Len(req[s].batch)
    BY RequestFacts DEF Acked
  <2>2. LastOf(req[s].batch, n, Len(req[s].batch))
    BY <2>1 DEF LastOf
  <2> QED
    BY <2>1, <2>2 DEF PutKept, Holds
<1> HIDE DEF PutInv
<1> QED
  BY <1>1, <1>2, <1>3, PTL DEF Spec

-----------------------------------------------------------------------------
(* An acknowledged delete is final.                                        *)

\* Objects live in buckets that exist.
Homed == \A p \in Pairs : p[1] \notin s3Bucket => object[p] = EmptyTable

\* The keys the request in s is to delete, all or those it names, have no
\* snapshot, except those left and those spared.
Cleared(s, left) ==
  \A k \in Keys \ (left \cup spared[s]) :
     \/ req[s].op = "DeleteIndex"
     \/ req[s].op = "DeleteVectors" /\ k \in req[s].drop
     => object[Pair(s)][k] = NoVec

\* What a delete in slot s has done so far, and what it has left to do.
DeleteIn(s) ==
  /\ pc[s] = "drop_snapshots" => Cleared(s, keys[s])
  /\ pc[s] # "drop_snapshots" => keys[s] = {}
  /\ pc[s] = "done" /\ reply[s] = "ok" => Cleared(s, {})

DeleteKept == \A s \in Slots : DeleteIn(s)

\* No step writes an object without its bucket or deletes a bucket with one.
LEMMA HomedStep == TypeInv /\ Homed /\ [Next]_vars => Homed'
<1> SUFFICES ASSUME TypeInv, Homed, [Next]_vars PROVE Homed'
  OBVIOUS
<1> USE DEF TypeInv, TypeOK, s3Vars, vars, Homed
<1>1. ASSUME NEW s \in Slots, EnsureBucket(s) PROVE Homed'
  BY <1>1 DEF EnsureBucket
<1>2. ASSUME NEW s \in Slots, DeleteS3Bucket(s) PROVE Homed'
  BY <1>2 DEF DeleteS3Bucket, EmptyBucket
<1>3. ASSUME NEW s \in Slots, DropSnapshot(s) PROVE Homed'
  <2>1. Pair(s) \in Pairs
    BY <1>3, RequestFacts DEF DropSnapshot
  <2>2. PICK k \in Keys : object' \in {object, [object EXCEPT ![Pair(s)][k] = NoVec]}
    BY <1>3 DEF DropSnapshot, SlotTypes
  <2>3. \A p \in Pairs : object[p] = EmptyTable => object'[p] = EmptyTable
    BY <2>1, <2>2 DEF S3Types, EmptyTable
  <2> QED
    BY <1>3, <2>3 DEF DropSnapshot
<1>4. ASSUME NEW s \in Slots, WriteSnapshot(s) PROVE Homed'
  <2>1. Pair(s) \in Pairs
    BY <1>4, RequestFacts DEF WriteSnapshot
  <2> QED
    BY <1>4, <2>1 DEF WriteSnapshot, S3Types, Bucket, Pair
<1>5. ASSUME NEW s \in Slots,
             \/ Receive(s) \/ Deliver(s) \/ Disconnect(s)
             \/ InsertBucketRow(s) \/ CountIndexes(s) \/ DeleteBucketRow(s)
             \/ InsertIndexRow(s) \/ CreateTable(s) \/ CreateHnsw(s) \/ RollbackIndexRow(s)
             \/ DeleteIndexRow(s) \/ DropTable(s) \/ ListSnapshots(s)
             \/ LookupIndex(s) \/ UpsertRow(s) \/ DeleteRows(s)
      PROVE  Homed'
  BY <1>5 DEF Receive, Deliver, Disconnect, InsertBucketRow, CountIndexes, DeleteBucketRow,
              InsertIndexRow, CreateTable, CreateHnsw, RollbackIndexRow, DeleteIndexRow,
              DropTable, ListSnapshots, LookupIndex, UpsertRow, DeleteRows
<1>6. ASSUME \/ Crash \/ Open \/ Serve \/ UNCHANGED vars
             \/ \E p \in Pairs : ListForReplay(p)
             \/ \E p \in Pairs, k \in Keys : ReplaySnapshot(p, k)
      PROVE  Homed'
  BY <1>6 DEF Crash, Open, Serve, ListForReplay, ReplaySnapshot
<1> QED
  BY <1>1, <1>2, <1>3, <1>4, <1>5, <1>6 DEF Next, Step, Boot, Quiet

\* A slot keeps what its delete has done when others only remove snapshots,
\* or write ones it has still to drop or that are then called spared.
LEMMA DeleteInFrame ==
  ASSUME NEW z \in Slots, DeleteIn(z),
         pc'[z] = pc[z], req'[z] = req[z], keys'[z] = keys[z], reply'[z] = reply[z],
         spared[z] \subseteq spared'[z],
         pc[z] \in {"drop_snapshots", "done"} =>
           \A k \in Keys : \/ object'[Pair(z)][k] \in {object[Pair(z)][k], NoVec}
                           \/ k \in keys[z] \cup spared'[z]
  PROVE  DeleteIn(z)'
BY DEF DeleteIn, Cleared, Pair

\* A handler that is at no purge and acknowledges no delete has nothing to keep.
LEMMA DeleteInOther ==
  ASSUME NEW s \in Slots, pc'[s] # "drop_snapshots", keys'[s] = {},
         pc'[s] = "done" => \/ reply'[s] # "ok"
                            \/ req'[s].op \notin {"DeleteIndex", "DeleteVectors"}
  PROVE  DeleteIn(s)'
BY DEF DeleteIn, Cleared

\* A delete leaves no snapshot it was to remove but those it spared.
LEMMA DeleteStep == TypeInv /\ Serving /\ Homed /\ DeleteKept /\ [Next]_vars => DeleteKept'
<1> SUFFICES ASSUME TypeInv, Serving, Homed, DeleteKept, [Next]_vars PROVE DeleteKept'
  OBVIOUS
<1> USE ConstantsAssumption
    DEF TypeInv, TypeOK, Goto, Finish, Free, dbVars, s3Vars, slotVars, history, vars
\* A step of one handler that writes no snapshot.
<1>0. ASSUME NEW s \in Slots, DeleteIn(s)',
             \A z \in Slots : z # s => /\ pc'[z] = pc[z] /\ req'[z] = req[z]
                                       /\ keys'[z] = keys[z] /\ reply'[z] = reply[z]
                                       /\ spared[z] \subseteq spared'[z],
             \A p \in Pairs, k \in Keys : object'[p][k] \in {object[p][k], NoVec}
      PROVE  DeleteKept'
  <2> SUFFICES ASSUME NEW z \in Slots, z # s PROVE DeleteIn(z)'
    BY <1>0 DEF DeleteKept
  <2>1. DeleteIn(z)
    BY DEF DeleteKept
  <2>2. pc[z] # "idle" => Pair(z) \in Pairs
    BY RequestFacts
  <2> QED
    BY <1>0, <2>1, <2>2, DeleteInFrame
<1>1. ASSUME NEW s \in Slots, Receive(s) PROVE DeleteKept'
  <2>1. PICK q \in Requests : req' = [req EXCEPT ![s] = q] /\ Goto(s, FirstPc[q.op])
    BY <1>1 DEF Receive
  <2>2. FirstPc[q.op] \notin {"drop_snapshots", "done"}
    BY DEF Request, FirstPc, Ops
  <2>3. keys[s] = {} /\ UNCHANGED <<keys, reply, spared, object>>
    BY <1>1 DEF Receive, DeleteKept, DeleteIn
  <2>4. DeleteIn(s)'
    BY <2>1, <2>2, <2>3, DeleteInOther DEF SlotTypes
  <2> QED
    BY <2>1, <2>3, <2>4, <1>0 DEF SlotTypes
<1>2. ASSUME NEW s \in Slots,
             \/ InsertBucketRow(s) \/ EnsureBucket(s) \/ CountIndexes(s) \/ DeleteBucketRow(s)
             \/ DeleteS3Bucket(s)
      PROVE  DeleteKept'
  <2>1. keys[s] = {} /\ UNCHANGED <<keys, spared, object, req>>
    BY <1>2 DEF DeleteKept, DeleteIn, InsertBucketRow, EnsureBucket, CountIndexes,
                DeleteBucketRow, DeleteS3Bucket
  <2>2. /\ pc'[s] # "drop_snapshots"
        /\ pc'[s] = "done" => req'[s].op \notin {"DeleteIndex", "DeleteVectors"}
        /\ \A z \in Slots : z # s => pc'[z] = pc[z] /\ reply'[z] = reply[z]
    BY <1>2 DEF SlotTypes, Serving, InsertBucketRow, EnsureBucket, CountIndexes,
                DeleteBucketRow, DeleteS3Bucket
  <2> QED
    BY <2>1, <2>2, <1>0, DeleteInOther
<1>3. ASSUME NEW s \in Slots, Deliver(s) \/ Disconnect(s) PROVE DeleteKept'
  <2>1. pc'[s] = "idle" /\ keys'[s] = {} /\ UNCHANGED object
    BY <1>3 DEF Deliver, Disconnect, SlotTypes
  <2>2. \A z \in Slots : z # s => /\ pc'[z] = pc[z] /\ req'[z] = req[z]
                                  /\ keys'[z] = keys[z] /\ reply'[z] = reply[z]
                                  /\ spared'[z] = spared[z]
    BY <1>3 DEF Deliver, Disconnect, SlotTypes, HistoryTypes
  <2> QED
    BY <2>1, <2>2, <1>0, DeleteInOther
<1>4. ASSUME NEW s \in Slots,
             \/ InsertIndexRow(s) \/ CreateTable(s) \/ CreateHnsw(s) \/ RollbackIndexRow(s)
             \/ LookupIndex(s) \/ UpsertRow(s)
      PROVE  DeleteKept'
  <2>1. keys[s] = {} /\ UNCHANGED <<keys, spared, object, req>>
    BY <1>4 DEF DeleteKept, DeleteIn, InsertIndexRow, CreateTable, CreateHnsw,
                RollbackIndexRow, LookupIndex, UpsertRow
  <2>2. /\ pc'[s] # "drop_snapshots"
        /\ pc'[s] = "done" => req'[s].op \notin {"DeleteIndex", "DeleteVectors"}
        /\ \A z \in Slots : z # s => pc'[z] = pc[z] /\ reply'[z] = reply[z]
    BY <1>4 DEF SlotTypes, Serving, InsertIndexRow, CreateTable, CreateHnsw,
                RollbackIndexRow, LookupIndex, UpsertRow
  <2> QED
    BY <2>1, <2>2, <1>0, DeleteInOther
<1>5. ASSUME NEW s \in Slots, WriteSnapshot(s) PROVE DeleteKept'
  <2>1. /\ Pair(s) \in Pairs /\ Item(s).key \in Keys
        /\ keys[s] = {} /\ UNCHANGED <<keys, req>>
    BY <1>5, RequestFacts, ItemFacts DEF WriteSnapshot, DeleteKept, DeleteIn
  <2>2. /\ pc'[s] # "drop_snapshots"
        /\ pc'[s] = "done" => req'[s].op \notin {"DeleteIndex", "DeleteVectors"}
        /\ \A z \in Slots : z # s => pc'[z] = pc[z] /\ reply'[z] = reply[z]
    BY <1>5 DEF SlotTypes, Serving, WriteSnapshot
  <2>3. DeleteIn(s)'
    BY <2>1, <2>2, DeleteInOther
  <2>4. CASE UNCHANGED <<object, spared>>
    BY <2>1, <2>2, <2>3, <2>4, <1>0
  <2>5. CASE /\ object' = [object EXCEPT ![Pair(s)][Item(s).key] = Item(s).vec]
             /\ Spare(Pair(s), Item(s).key)
    <3>1. ASSUME NEW z \in Slots, z # s PROVE DeleteIn(z)'
      <4>1. DeleteIn(z) /\ spared[z] \subseteq spared'[z]
        BY <2>5 DEF DeleteKept, Spare
      <4>2. ASSUME pc[z] \in {"drop_snapshots", "done"}, NEW k \in Keys
            PROVE  \/ object'[Pair(z)][k] = object[Pair(z)][k]
                   \/ k \in keys[z] \cup spared'[z]
        <5>1. Pair(z) \in Pairs /\ req[z] # NoRequest
          BY <4>2, RequestFacts
        <5>2. CASE Pair(z) = Pair(s) /\ k = Item(s).key
          BY <2>5, <4>2, <5>1, <5>2 DEF Spare, Past
        <5>3. CASE ~(Pair(z) = Pair(s) /\ k = Item(s).key)
          BY <2>1, <2>5, <5>1, <5>3 DEF S3Types
        <5> QED
          BY <5>2, <5>3
      <4> QED
        BY <2>1, <2>2, <3>1, <4>1, <4>2, DeleteInFrame
    <3> QED
      BY <2>3, <3>1 DEF DeleteKept
  <2> QED
    BY <1>5, <2>4, <2>5 DEF WriteSnapshot
<1>6. ASSUME NEW s \in Slots, DeleteIndexRow(s) \/ DropTable(s) PROVE DeleteKept'
  <2>1. keys[s] = {} /\ UNCHANGED <<keys, spared, object, req>>
    BY <1>6 DEF DeleteKept, DeleteIn, DeleteIndexRow, DropTable
  <2>2. /\ pc'[s] # "drop_snapshots"
        /\ pc'[s] = "done" => reply'[s] # "ok"
        /\ \A z \in Slots : z # s => pc'[z] = pc[z] /\ reply'[z] = reply[z]
    BY <1>6 DEF SlotTypes, DeleteIndexRow, DropTable
  <2> QED
    BY <2>1, <2>2, <1>0, DeleteInOther
<1>7. ASSUME NEW s \in Slots, ListSnapshots(s) PROVE DeleteKept'
  <2>1. Pair(s) \in Pairs /\ keys[s] = {} /\ UNCHANGED <<object, req>>
    BY <1>7, RequestFacts DEF ListSnapshots, DeleteKept, DeleteIn
  <2>2. \A k \in Keys \ Listed(Pair(s)) : object[Pair(s)][k] = NoVec
    BY DEF Listed
  <2>3. Bucket(s) \notin s3Bucket => \A k \in Keys : object[Pair(s)][k] = NoVec
    BY <2>1 DEF Homed, Bucket, Pair, EmptyTable
  <2>4. Pair(s)' = Pair(s)
    BY <2>1 DEF Pair
  <2>5. ASSUME pc'[s] = "drop_snapshots", keys'[s] = Listed(Pair(s)) PROVE DeleteIn(s)'
    <3>1. ASSUME NEW j \in Keys \ (keys'[s] \cup spared'[s]) PROVE object'[Pair(s)][j] = NoVec
      BY <2>1, <2>2, <2>5, <3>1
    <3>2. Cleared(s, keys[s])'
      BY <2>1, <2>4, <3>1 DEF Cleared
    <3> QED
      BY <2>5, <3>2 DEF DeleteIn
  <2>6. ASSUME pc'[s] = "done", keys'[s] = {},
               Bucket(s) \notin s3Bucket \/ Listed(Pair(s)) = {} \/ spared'[s] = Keys
        PROVE  DeleteIn(s)'
    <3>1. ASSUME NEW j \in Keys \ spared'[s] PROVE object'[Pair(s)][j] = NoVec
      <4>1. CASE Bucket(s) \notin s3Bucket
        BY <2>1, <2>3, <4>1
      <4>2. CASE Listed(Pair(s)) = {}
        BY <2>1, <2>2, <4>2
      <4>3. CASE spared'[s] = Keys
        BY <4>3
      <4> QED
        BY <2>6, <4>1, <4>2, <4>3
    <3>2. Cleared(s, {})'
      BY <2>1, <2>4, <3>1 DEF Cleared
    <3> QED
      BY <2>6, <3>2 DEF DeleteIn
  <2>7. DeleteIn(s)'
    <3>1. CASE /\ keys' = [keys EXCEPT ![s] = Listed(Pair(s))]
               /\ Goto(s, "drop_snapshots")
      BY <2>5, <3>1 DEF Goto, SlotTypes
    <3>2. CASE /\ Bucket(s) \notin s3Bucket \/ Listed(Pair(s)) = {}
               /\ Finish(s, "ok") /\ UNCHANGED keys
      BY <2>1, <2>6, <3>2 DEF Finish, Goto, SlotTypes
    <3>3. CASE /\ Finish(s, "ok") /\ UNCHANGED keys
               /\ spared' = [spared EXCEPT ![s] = Keys]
      BY <2>1, <2>6, <3>3 DEF Finish, Goto, SlotTypes, HistoryTypes
    <3> QED
      BY <1>7, <3>1, <3>2, <3>3 DEF ListSnapshots
  <2>8. \A z \in Slots : z # s => /\ pc'[z] = pc[z] /\ keys'[z] = keys[z]
                                  /\ reply'[z] = reply[z] /\ spared'[z] = spared[z]
    BY <1>7 DEF ListSnapshots, SlotTypes, HistoryTypes
  <2> QED
    BY <2>1, <2>7, <2>8, <1>0
<1>8. ASSUME NEW s \in Slots, DropSnapshot(s) PROVE DeleteKept'
  <2>1. Pair(s) \in Pairs /\ UNCHANGED req /\ Cleared(s, keys[s])
    BY <1>8, RequestFacts DEF DropSnapshot, DeleteKept, DeleteIn
  <2>2. PICK k \in keys[s] :
          /\ \/ object' = [object EXCEPT ![Pair(s)][k] = NoVec] /\ UNCHANGED spared
             \/ spared' = [spared EXCEPT ![s] = @ \cup {k}] /\ UNCHANGED object
          /\ keys' = [keys EXCEPT ![s] = @ \ {k}]
          /\ IF keys[s] = {k} THEN Finish(s, "ok") ELSE UNCHANGED <<pc, reply>>
    BY <1>8 DEF DropSnapshot
  <2>3. k \in Keys /\ keys'[s] = keys[s] \ {k}
    BY <2>2 DEF SlotTypes
  <2>4. /\ \A p \in Pairs, j \in Keys : object'[p][j] \in {object[p][j], NoVec}
        /\ k \in spared'[s] \/ object'[Pair(s)][k] = NoVec
        /\ \A z \in Slots : spared[z] \subseteq spared'[z]
    <3>1. CASE object' = [object EXCEPT ![Pair(s)][k] = NoVec] /\ UNCHANGED spared
      BY <2>1, <2>3, <3>1 DEF S3Types
    <3>2. CASE spared' = [spared EXCEPT ![s] = @ \cup {k}] /\ UNCHANGED object
      BY <3>2 DEF HistoryTypes
    <3> QED
      BY <2>2, <3>1, <3>2
  <2>5. Cleared(s, keys[s])'
    <3> SUFFICES ASSUME NEW j \in Keys, j \notin keys'[s], j \notin spared'[s],
                        \/ req[s].op = "DeleteIndex"
                        \/ req[s].op = "DeleteVectors" /\ j \in req[s].drop
                 PROVE  object'[Pair(s)][j] = NoVec
      BY <2>1 DEF Cleared, Pair
    <3>1. CASE j = k
      BY <2>4, <3>1
    <3>2. CASE j # k
      BY <2>1, <2>3, <2>4, <3>2 DEF Cleared
    <3> QED
      BY <3>1, <3>2
  <2>6. \/ pc'[s] = "done" /\ keys'[s] = {}
        \/ pc'[s] = "drop_snapshots"
    BY <1>8, <2>2, <2>3 DEF DropSnapshot, SlotTypes
  <2>7. DeleteIn(s)'
    BY <2>5, <2>6 DEF DeleteIn
  <2>8. \A z \in Slots : z # s => pc'[z] = pc[z] /\ keys'[z] = keys[z] /\ reply'[z] = reply[z]
    BY <2>2 DEF SlotTypes
  <2> QED
    BY <2>1, <2>4, <2>7, <2>8, <1>0
<1>9. ASSUME NEW s \in Slots, DeleteRows(s) PROVE DeleteKept'
  <2>1. keys[s] = {} /\ UNCHANGED <<spared, object, req>>
    BY <1>9 DEF DeleteRows, DeleteKept, DeleteIn
  <2>2. \A z \in Slots : z # s => pc'[z] = pc[z] /\ keys'[z] = keys[z] /\ reply'[z] = reply[z]
    BY <1>9 DEF DeleteRows, SlotTypes
  <2>3. CASE pc'[s] = "drop_snapshots"
    <3>1. keys'[s] = req[s].drop /\ req[s].op = "DeleteVectors"
      BY <1>9, <2>3 DEF DeleteRows, SlotTypes, Serving
    <3>2. DeleteIn(s)'
      BY <2>1, <2>3, <3>1 DEF DeleteIn, Cleared
    <3> QED
      BY <2>1, <2>2, <3>2, <1>0
  <2>4. CASE pc'[s] # "drop_snapshots"
    <3>1. pc'[s] = "done" /\ reply'[s] # "ok" /\ keys'[s] = {}
      BY <1>9, <2>1, <2>4 DEF DeleteRows, SlotTypes
    <3>2. DeleteIn(s)'
      BY <3>1, DeleteInOther
    <3> QED
      BY <2>1, <2>2, <3>2, <1>0
  <2> QED
    BY <2>3, <2>4
<1>10. ASSUME Crash PROVE DeleteKept'
  BY <1>10 DEF Crash, DeleteKept, DeleteIn
<1>11. ASSUME \/ Open \/ Serve \/ UNCHANGED vars
              \/ \E p \in Pairs : ListForReplay(p)
              \/ \E p \in Pairs, k \in Keys : ReplaySnapshot(p, k)
       PROVE  DeleteKept'
  <2>1. UNCHANGED <<object, pc, req, keys, reply, spared>>
    BY <1>11 DEF Open, Serve, ListForReplay, ReplaySnapshot
  <2> QED
    BY <2>1 DEF DeleteKept, DeleteIn, Cleared, Pair
<1> QED
  BY <1>1, <1>2, <1>3, <1>4, <1>5, <1>6, <1>7, <1>8, <1>9, <1>10, <1>11
     DEF Next, Step, Boot, Quiet

\* An acknowledged DeleteVectors or DeleteIndex leaves no snapshot for a later
\* boot to bring back, but one whose own deletion or listing failed or that
\* another request wrote after the delete was done with it.
THEOREM AckedDeletesAreFinal == Spec => []DeletesAreFinal
<1> DEFINE DeleteInv == TypeInv /\ Serving /\ Homed /\ DeleteKept
<1>1. Init => DeleteInv
  BY TypeInit DEF Init, Serving, Homed, DeleteKept, DeleteIn
<1>2. DeleteInv /\ [Next]_vars => DeleteInv'
  BY TypeStep, ServingStep, HomedStep, DeleteStep
<1>3. DeleteInv => DeletesAreFinal
  <2> SUFFICES ASSUME DeleteInv, NEW s \in Slots, pc[s] = "done", reply[s] = "ok"
               PROVE  /\ req[s].op = "DeleteVectors" =>
                           \A k \in req[s].drop \ spared[s] : object[Pair(s)][k] = NoVec
                      /\ req[s].op = "DeleteIndex" =>
                           \A k \in Keys \ spared[s] : object[Pair(s)][k] = NoVec
    BY DEF DeletesAreFinal
  <2>1. req[s].drop \subseteq Keys
    BY RequestFacts
  <2>2. Cleared(s, {})
    BY DEF DeleteKept, DeleteIn
  <2> QED
    BY <2>1, <2>2 DEF Cleared
<1> HIDE DEF DeleteInv
<1> QED
  BY <1>1, <1>2, <1>3, PTL DEF Spec

-----------------------------------------------------------------------------
(* A boot that serves has put back what it walked.                         *)

\* During the replay, a snapshot of a walked index that fits is in its table,
\* still to be replayed or skipped, if the table can be written.
Replaying ==
  phase = "boot" =>
    \A p \in (Known \ walk) \ torn, k \in Keys :
       /\ Writable(TableOf[p])
       /\ object[p][k] # NoVec
       /\ DimOf[object[p][k]] = indexRow[p]
       => \/ <<p, k>> \in replay \cup skipped
          \/ tableRows[TableOf[p]][k] = object[p][k]

\* While the process is down or boots no handler runs, and the only index
\* without its table is one a crash left so.
LEMMA BootFacts ==
  ASSUME OwnerInv, phase # "up", NEW p \in Known, p \notin torn
  PROVE  /\ p \in Pairs
         /\ tableDim[TableOf[p]] = indexRow[p]
BY DEF OwnerInv, TableInv, TypeInv, Asleep, OwnTable, HasIndex, Making, Known

\* No step of a boot forgets a snapshot it could fetch.
LEMMA ReplayStep ==
  NamesApart /\ OwnerInv /\ Replaying /\ [Next]_vars => Replaying'
<1> SUFFICES ASSUME NamesApart, OwnerInv, Replaying, [Next]_vars,
                    phase' = "boot"
             PROVE  Replaying'
  BY DEF Replaying
<1> USE ConstantsAssumption DEF dbVars, s3Vars, procVars, slotVars, history, vars
<1>0. TypeInv
  BY DEF OwnerInv, TableInv
<1>1. ASSUME Open PROVE Replaying'
  BY <1>1 DEF Open, Replaying, Known
<1>2. ASSUME NEW p \in Pairs, ListForReplay(p) PROVE Replaying'
  <2>1. /\ phase = "boot" /\ replay = {}
        /\ walk' = walk \ {p} /\ replay' = {p} \X Listed(p)
        /\ UNCHANGED <<bucketRow, indexRow, tableRows, object, torn, skipped, hnsw, vss>>
    BY <1>2, ConstantsAssumption DEF ListForReplay, AbortReplay
  <2>2. Known' = Known /\ \A t \in Tables : Writable(t)' <=> Writable(t)
    BY <2>1 DEF Known, Writable
  <2>3. ASSUME NEW k \in Keys, object[p][k] # NoVec PROVE <<p, k>> \in replay'
    BY <2>1, <2>3 DEF Listed
  <2>4. \A q \in Known : q \in Pairs /\ TableOf[q] \in Tables
    BY DEF Known
  <2>5. ASSUME NEW q \in (Known \ walk') \ torn, NEW k \in Keys, Writable(TableOf[q]),
               object[q][k] # NoVec, DimOf[object[q][k]] = indexRow[q]
        PROVE  <<q, k>> \in replay' \cup skipped \/ tableRows[TableOf[q]][k] = object[q][k]
    BY <2>1, <2>3, <2>5 DEF Replaying
  <2> QED
    BY <2>1, <2>2, <2>4, <2>5 DEF Replaying
<1>3. ASSUME NEW p \in Pairs, NEW k \in Keys, ReplaySnapshot(p, k) PROVE Replaying'
  <2>1. /\ phase = "boot" /\ replay' = replay \ {<<p, k>>} /\ skipped \subseteq skipped'
        /\ UNCHANGED <<bucketRow, indexRow, object, walk, torn, hnsw, vss>>
    BY <1>3 DEF ReplaySnapshot
  <2>2. Known' = Known /\ \A q \in Pairs : Writable(TableOf[q])' <=> Writable(TableOf[q])
    BY <2>1 DEF Known, Writable
  <2>3. /\ tableRows \in [Tables -> [Keys -> Vecs \cup {NoVec}]]
        /\ TableOf[p] \in Tables
    BY <1>0 DEF TypeInv, TypeOK, DbTypes
  <2>4. \A q \in Pairs, j \in Keys :
           \/ q = p /\ j = k
           \/ tableRows'[TableOf[q]][j] = tableRows[TableOf[q]][j]
    BY <1>3, <2>3 DEF ReplaySnapshot, Upserted, NamesApart
  <2>5. ASSUME p \in Known, p \notin torn, DimOf[object[p][k]] = indexRow[p], Writable(TableOf[p])
        PROVE  <<p, k>> \in skipped' \/ tableRows'[TableOf[p]][k] = object[p][k]
    <3>1. tableDim[TableOf[p]] = indexRow[p]
      BY <2>1, <2>5, BootFacts
    <3>2. CASE skipped' = skipped \cup {<<p, k>>}
      BY <3>2
    <3>3. CASE tableRows' = Upserted(TableOf[p], k, object[p][k])
      BY <2>3, <3>3 DEF Upserted
    <3> QED
      BY <1>3, <2>5, <3>1, <3>2, <3>3 DEF ReplaySnapshot
  <2>6. ASSUME NEW q \in (Known \ walk) \ torn, NEW j \in Keys, Writable(TableOf[q]),
               object[q][j] # NoVec, DimOf[object[q][j]] = indexRow[q]
        PROVE  <<q, j>> \in replay' \cup skipped' \/ tableRows'[TableOf[q]][j] = object[q][j]
    <3>1. CASE q = p /\ j = k
      BY <2>5, <2>6, <3>1
    <3>2. CASE ~(q = p /\ j = k)
      <4>1. q \in Pairs
        BY DEF Known
      <4>2. <<q, j>> \in replay \cup skipped \/ tableRows[TableOf[q]][j] = object[q][j]
        BY <2>1, <2>6 DEF Replaying
      <4> QED
        BY <2>1, <2>4, <3>2, <4>1, <4>2
    <3> QED
      BY <3>1, <3>2
  <2>7. \A q \in Known : q \in Pairs
    BY DEF Known
  <2> QED
    BY <2>1, <2>2, <2>6, <2>7 DEF Replaying
<1>4. ASSUME UNCHANGED vars PROVE Replaying'
  BY <1>4 DEF Replaying, Known, Writable
<1>5. ASSUME Crash \/ Serve PROVE FALSE
  BY <1>5 DEF Crash, Serve
<1>6. ASSUME NEW s \in Slots, Receive(s) \/ Step(s) \/ Disconnect(s) PROVE FALSE
  <2>1. phase = "boot"
    BY <1>6 DEF Receive, Step, Disconnect, InsertBucketRow, EnsureBucket, CountIndexes,
                DeleteBucketRow, DeleteS3Bucket, InsertIndexRow, CreateTable, CreateHnsw,
                RollbackIndexRow, DeleteIndexRow, DropTable, ListSnapshots, DropSnapshot,
                WriteSnapshot, LookupIndex, UpsertRow, DeleteRows, Deliver
  <2>2. pc[s] = "idle"
    BY <1>0, <2>1 DEF TypeInv, Asleep
  <2> QED
    BY <1>6, <2>1, <2>2
       DEF Receive, Step, Disconnect, S3Pc, InsertBucketRow, EnsureBucket, CountIndexes,
           DeleteBucketRow, DeleteS3Bucket, InsertIndexRow, CreateTable, CreateHnsw,
           RollbackIndexRow, DeleteIndexRow, DropTable, ListSnapshots, DropSnapshot,
           WriteSnapshot, LookupIndex, UpsertRow, DeleteRows, Deliver
<1> QED
  BY <1>1, <1>2, <1>3, <1>4, <1>5, <1>6 DEF Next, Boot, Quiet

\* When table identifiers are apart, a process that starts to serve has put
\* back every fitting snapshot it could fetch of every index its boot walked,
\* except of an index a crash left without its table or, without vss, one
\* whose table has an HNSW index.
THEOREM BootsRecover == NamesApart => (Spec => Recovered)
<1> SUFFICES ASSUME NamesApart PROVE Spec => Recovered
  OBVIOUS
<1> DEFINE BootInv == OwnerInv /\ Replaying
<1> DEFINE Serves == phase = "boot" /\ phase' = "up" =>
                       \A p \in (Known \ walk) \ torn :
                         Writable(TableOf[p]) => Replayed(p, skipped)
<1>1. Init => BootInv
  BY TypeInit, TableInit DEF OwnerInv, TableInv, Init, Replaying
<1>2. BootInv /\ [Next]_vars => BootInv'
  BY TypeStep, TableStep, OwnerStep, ReplayStep DEF OwnerInv, TableInv
<1>3. BootInv /\ [Next]_vars => [Serves]_vars
  <2> SUFFICES ASSUME BootInv, [Next]_vars, phase = "boot", phase' = "up",
                      NEW p \in (Known \ walk) \ torn, Writable(TableOf[p])
               PROVE  Replayed(p, skipped)
    OBVIOUS
  <2>1. replay = {}
    <3>1. ASSUME NEW s \in Slots, Receive(s) \/ Step(s) \/ Disconnect(s) PROVE FALSE
      BY <3>1
         DEF Receive, Step, Disconnect, S3Pc, InsertBucketRow, EnsureBucket, CountIndexes,
             DeleteBucketRow, DeleteS3Bucket, InsertIndexRow, CreateTable, CreateHnsw,
             RollbackIndexRow, DeleteIndexRow, DropTable, ListSnapshots, DropSnapshot,
             WriteSnapshot, LookupIndex, UpsertRow, DeleteRows, Deliver, procVars
    <3> QED
      BY <3>1 DEF Next, Boot, Quiet, Crash, Open, Serve, ListForReplay, ReplaySnapshot,
                  vars, procVars
  <2> QED
    BY <2>1 DEF Replaying, Replayed
<1> HIDE DEF BootInv
<1>4. Spec => [][Serves]_vars
  BY <1>1, <1>2, <1>3, PTL DEF Spec
<1> QED
  BY <1>4 DEF Recovered
=============================================================================
