------------------------ MODULE VectorOwners_proofs ------------------------
(***************************************************************************)
(* Index names that become one table identifier do not disturb each other  *)
(* in VectorService: as long as no crash stops a store call half way and   *)
(* the vss extension loads, a backing table belongs to exactly one index,  *)
(* for every map from names to identifiers, every number of handlers in    *)
(* flight and any object-store failures.                                   *)
(***************************************************************************)
EXTENDS VectorService_proofs

\* No store call is cut short and no CREATE INDEX fails for want of vss.
Sound == MaxCrashes = 0 /\ ~MayLackVss

-----------------------------------------------------------------------------

\* No crash has happened, and a serving process has vss.
Intact == /\ torn = {}
          /\ phase # "down" => vss
          /\ \A s \in Slots : pc[s] # "idle" => phase = "up"

\* A finished index is alone in its table: a second one of the same table
\* never gets past its CREATE TABLE.
Owned ==
  \A p \in Pairs : HasIndex(p) /\ ~Making(p)
     => /\ tableDim[TableOf[p]] # NoDim
        /\ \A q \in Pairs : HasIndex(q) /\ ~Making(q) /\ TableOf[q] = TableOf[p] => q = p

\* A table belongs to a finished index, or is about to be dropped.
Claimed ==
  \A t \in Tables : tableDim[t] # NoDim =>
     \/ \E p \in Pairs : TableOf[p] = t /\ HasIndex(p) /\ ~Making(p)
     \/ \E s \in Slots : pc[s] = "drop_table" /\ Table(s) = t

\* What CreateIndex and DeleteIndex rely on in the middle of their store call.
Midway ==
  \A s \in Slots :
    /\ pc[s] \in {"create_table", "rollback"} => indexRow[Pair(s)] # NoDim
    /\ pc[s] = "rollback" => tableDim[Table(s)] # NoDim
    /\ pc[s] = "drop_table" => \A p \in Pairs : HasIndex(p) => TableOf[p] # Table(s)

OwnersKept == Intact /\ Owned /\ Claimed /\ Midway

\* A step that leaves rows and tables alone and neither enters nor leaves the
\* middle of a store call on them keeps the owners.
LEMMA OwnersFrame ==
  ASSUME OwnersKept, Intact', UNCHANGED <<indexRow, tableDim>>,
         \A z \in Slots : pc[z] \in {"create_table", "rollback", "drop_table"}
                           \/ pc'[z] \in {"create_table", "rollback", "drop_table"}
                            => pc'[z] = pc[z] /\ req'[z] = req[z]
  PROVE  OwnersKept'
<1>1. \A p \in Pairs : Making(p)' <=> Making(p)
  BY DEF Making, Pair
<1>2. Owned'
  BY <1>1 DEF OwnersKept, Owned, HasIndex
<1>3. Claimed'
  BY <1>1 DEF OwnersKept, Claimed, HasIndex, Table
<1>4. Midway'
  BY DEF OwnersKept, Midway, HasIndex, Pair, Table
<1> QED
  BY <1>2, <1>3, <1>4 DEF OwnersKept

\* No crash, and vss stays loaded.
LEMMA IntactStep == Sound /\ TypeInv /\ Intact /\ [Next]_vars => Intact'
<1> SUFFICES ASSUME Sound, TypeInv, Intact, [Next]_vars PROVE Intact'
  OBVIOUS
<1> USE DEF TypeInv, TypeOK, Intact, Goto, Finish, Free, dbVars, s3Vars, procVars, slotVars, history, vars
<1>1. ASSUME NEW s \in Slots, Receive(s) \/ Deliver(s) \/ Disconnect(s) PROVE Intact'
  BY <1>1 DEF Receive, Deliver, Disconnect, S3Pc, SlotTypes
<1>2. ASSUME NEW s \in Slots,
             \/ InsertBucketRow(s) \/ EnsureBucket(s) \/ CountIndexes(s) \/ DeleteBucketRow(s)
             \/ DeleteS3Bucket(s)
      PROVE  Intact'
  BY <1>2 DEF SlotTypes, InsertBucketRow, EnsureBucket, CountIndexes, DeleteBucketRow, DeleteS3Bucket
<1>3. ASSUME NEW s \in Slots,
             \/ InsertIndexRow(s) \/ CreateTable(s) \/ CreateHnsw(s) \/ RollbackIndexRow(s)
      PROVE  Intact'
  BY <1>3 DEF SlotTypes, InsertIndexRow, CreateTable, CreateHnsw, RollbackIndexRow
<1>4. ASSUME NEW s \in Slots,
             \/ DeleteIndexRow(s) \/ DropTable(s) \/ ListSnapshots(s) \/ DropSnapshot(s)
             \/ DeleteRows(s)
      PROVE  Intact'
  BY <1>4 DEF SlotTypes, DeleteIndexRow, DropTable, ListSnapshots, DropSnapshot, DeleteRows
<1>5. ASSUME NEW s \in Slots, WriteSnapshot(s) \/ LookupIndex(s) \/ UpsertRow(s)
      PROVE  Intact'
  BY <1>5 DEF SlotTypes, WriteSnapshot, LookupIndex, UpsertRow
<1>6. ASSUME Crash PROVE FALSE
  BY <1>6, ConstantsAssumption DEF Crash, Sound, HistoryTypes
<1>7. ASSUME \/ Open \/ Serve \/ UNCHANGED vars
             \/ \E p \in Pairs : ListForReplay(p)
             \/ \E p \in Pairs, k \in Keys : ReplaySnapshot(p, k)
      PROVE  Intact'
  BY <1>7, ConstantsAssumption
     DEF Open, Serve, ListForReplay, AbortReplay, ReplaySnapshot, Sound, Asleep
<1> QED
  BY <1>1, <1>2, <1>3, <1>4, <1>5, <1>6, <1>7 DEF Next, Step, Boot, Quiet

\* No CreateIndex takes, and no DeleteIndex drops, a table of another index.
LEMMA OwnersStep == Sound /\ TypeInv /\ OwnersKept /\ [Next]_vars => OwnersKept'
<1> SUFFICES ASSUME Sound, TypeInv, OwnersKept, [Next]_vars PROVE OwnersKept'
  OBVIOUS
<1>0. Intact'
  BY IntactStep DEF OwnersKept
<1> USE ConstantsAssumption
    DEF TypeInv, TypeOK, Goto, Finish, Free, Unlock, dbVars, s3Vars, slotVars, history, vars
<1>1. ASSUME NEW s \in Slots, Receive(s) PROVE OwnersKept'
  <2>1. PICK q \in Requests : req' = [req EXCEPT ![s] = q] /\ Goto(s, FirstPc[q.op])
    BY <1>1 DEF Receive
  <2>2. FirstPc[q.op] \notin {"create_table", "rollback", "drop_table"}
    BY DEF Request, FirstPc, Ops
  <2>3. UNCHANGED <<indexRow, tableDim>> /\ pc[s] = "idle"
    BY <1>1 DEF Receive
  <2> QED
    BY <1>0, <2>1, <2>2, <2>3, OwnersFrame DEF SlotTypes
<1>2. ASSUME NEW s \in Slots,
             \/ InsertBucketRow(s) \/ EnsureBucket(s) \/ CountIndexes(s) \/ DeleteBucketRow(s)
             \/ DeleteS3Bucket(s) \/ Deliver(s) \/ Disconnect(s)
      PROVE  OwnersKept'
  <2>1. UNCHANGED <<indexRow, tableDim>>
    BY <1>2 DEF InsertBucketRow, EnsureBucket, CountIndexes, DeleteBucketRow, DeleteS3Bucket,
                Deliver, Disconnect
  <2>2. /\ pc[s] \notin {"create_table", "rollback", "drop_table"}
        /\ pc'[s] \notin {"create_table", "rollback", "drop_table"}
        /\ \A z \in Slots \ {s} : pc'[z] = pc[z] /\ req'[z] = req[z]
    BY <1>2 DEF SlotTypes, S3Pc, InsertBucketRow, EnsureBucket, CountIndexes,
                DeleteBucketRow, DeleteS3Bucket, Deliver, Disconnect
  <2> QED
    BY <1>0, <2>1, <2>2, OwnersFrame
<1>3. ASSUME NEW s \in Slots,
             \/ ListSnapshots(s) \/ DropSnapshot(s) \/ WriteSnapshot(s) \/ LookupIndex(s)
             \/ UpsertRow(s) \/ DeleteRows(s)
      PROVE  OwnersKept'
  <2>1. UNCHANGED <<indexRow, tableDim>>
    BY <1>3 DEF ListSnapshots, DropSnapshot, WriteSnapshot, LookupIndex, UpsertRow, DeleteRows
  <2>2. /\ pc[s] \notin {"create_table", "rollback", "drop_table"}
        /\ pc'[s] \notin {"create_table", "rollback", "drop_table"}
        /\ \A z \in Slots \ {s} : pc'[z] = pc[z] /\ req'[z] = req[z]
    BY <1>3 DEF SlotTypes, ListSnapshots, DropSnapshot, WriteSnapshot, LookupIndex,
                UpsertRow, DeleteRows
  <2> QED
    BY <1>0, <2>1, <2>2, OwnersFrame
<1>4. ASSUME NEW s \in Slots, CreateHnsw(s) PROVE OwnersKept'
  <2>1. vss
    BY <1>4 DEF CreateHnsw, OwnersKept, Intact
  <2>2. /\ UNCHANGED <<indexRow, tableDim, req>>
        /\ pc[s] = "create_hnsw" /\ pc' = [pc EXCEPT ![s] = "done"]
    BY <1>4, <2>1 DEF CreateHnsw
  <2> QED
    BY <1>0, <2>2, OwnersFrame DEF SlotTypes
<1>5. ASSUME NEW s \in Slots, InsertIndexRow(s) PROVE OwnersKept'
  <2>1. Pair(s) \in Pairs /\ Table(s) \in Tables /\ req[s].dim \in Dims
    BY <1>5, RequestFacts DEF InsertIndexRow
  <2>2. CASE pc'[s] # "create_table"
    <3>1. /\ UNCHANGED <<indexRow, tableDim, req>>
          /\ pc[s] = "insert_index" /\ pc' = [pc EXCEPT ![s] = "done"]
      BY <1>5, <2>2 DEF InsertIndexRow, SlotTypes
    <3> QED
      BY <1>0, <3>1, OwnersFrame DEF SlotTypes
  <2>3. CASE pc'[s] = "create_table"
    <3>1. /\ indexRow[Pair(s)] = NoDim
          /\ indexRow' = [indexRow EXCEPT ![Pair(s)] = req[s].dim]
          /\ pc' = [pc EXCEPT ![s] = "create_table"]
          /\ UNCHANGED <<tableDim, req>>
      BY <1>5, <2>3 DEF InsertIndexRow, SlotTypes
    <3>2. \A z \in Slots : z # s => pc[z] \notin HoldPc
      BY <1>5, OthersOut DEF InsertIndexRow
    <3>3. \A p \in Pairs : IF p = Pair(s) THEN Making(p)' /\ ~HasIndex(p)
                                           ELSE (Making(p)' <=> Making(p)) /\ (HasIndex(p)' <=> HasIndex(p))
      BY <1>5, <2>1, <3>1 DEF InsertIndexRow, Making, HasIndex, Pair, SlotTypes, DbTypes
    <3>4. Owned'
      BY <3>1, <3>3 DEF OwnersKept, Owned
    <3>5. Claimed'
      BY <1>5, <2>1, <3>1, <3>3 DEF InsertIndexRow, OwnersKept, Claimed, Table, SlotTypes
    <3>6. Midway'
      BY <2>1, <3>1, <3>2 DEF Midway, HoldPc, Pair, SlotTypes, DbTypes
    <3> QED
      BY <1>0, <3>4, <3>5, <3>6 DEF OwnersKept
  <2> QED
    BY <2>2, <2>3
<1>6. ASSUME NEW s \in Slots, CreateTable(s) PROVE OwnersKept'
  <2>1. Pair(s) \in Pairs /\ Table(s) \in Tables /\ req[s].dim \in Dims
    BY <1>6, RequestFacts DEF CreateTable
  <2>2. \A z \in Slots : z # s => pc[z] \notin HoldPc
    BY <1>6, OthersOut DEF CreateTable
  <2>3. CASE TableExists(s)
    <3>1. /\ UNCHANGED <<indexRow, tableDim, req>>
          /\ pc[s] = "create_table" /\ pc' = [pc EXCEPT ![s] = "rollback"]
      BY <1>6, <2>3 DEF CreateTable
    <3>2. \A p \in Pairs : (Making(p)' <=> Making(p)) /\ (HasIndex(p)' <=> HasIndex(p))
      BY <3>1 DEF Making, HasIndex, Pair, SlotTypes
    <3>3. Owned' /\ Claimed'
      BY <3>1, <3>2 DEF OwnersKept, Owned, Claimed, Table, SlotTypes
    <3>4. Midway'
      BY <2>2, <2>3, <3>1 DEF OwnersKept, Midway, TableExists, HoldPc, Pair, Table, SlotTypes
    <3> QED
      BY <1>0, <3>3, <3>4 DEF OwnersKept
  <2>4. CASE ~TableExists(s)
    <3>1. /\ UNCHANGED <<indexRow, req>>
          /\ tableDim' = [tableDim EXCEPT ![Table(s)] = req[s].dim]
          /\ pc[s] = "create_table" /\ pc' = [pc EXCEPT ![s] = "create_hnsw"]
      BY <1>6, <2>4 DEF CreateTable
    <3>2. HasIndex(Pair(s)) /\ \A p \in Pairs : HasIndex(p)' <=> HasIndex(p)
      BY <3>1 DEF OwnersKept, Midway, HasIndex
    <3>3. \A p \in Pairs : ~Making(p)' /\ (Making(p) => p = Pair(s))
      BY <2>2, <3>1 DEF Making, HoldPc, SlotTypes
    <3>4. \A p \in Pairs : HasIndex(p) /\ p # Pair(s) => TableOf[p] # Table(s)
      BY <2>4, <3>3 DEF OwnersKept, Owned, TableExists
    <3>5. Owned'
      BY <2>1, <3>1, <3>2, <3>3, <3>4 DEF OwnersKept, Owned, DbTypes, Table, Pair
    <3>6. Claimed'
      BY <2>1, <2>2, <3>1, <3>2, <3>3 DEF OwnersKept, Claimed, DbTypes, Table, Pair, HoldPc
    <3>7. Midway'
      BY <2>2, <3>1 DEF Midway, HoldPc, SlotTypes
    <3> QED
      BY <1>0, <3>5, <3>6, <3>7 DEF OwnersKept
  <2> QED
    BY <2>3, <2>4
<1>7. ASSUME NEW s \in Slots, RollbackIndexRow(s) PROVE OwnersKept'
  <2>1. Pair(s) \in Pairs /\ Table(s) \in Tables
    BY <1>7, RequestFacts DEF RollbackIndexRow
  <2>2. \A z \in Slots : z # s => pc[z] \notin HoldPc
    BY <1>7, OthersOut DEF RollbackIndexRow
  <2>3. /\ indexRow' = [indexRow EXCEPT ![Pair(s)] = NoDim]
        /\ pc[s] = "rollback" /\ pc' = [pc EXCEPT ![s] = "done"]
        /\ UNCHANGED <<tableDim, req>>
    BY <1>7 DEF RollbackIndexRow, UndoRow
  <2>4. \A p \in Pairs : ~Making(p)' /\ (Making(p) <=> p = Pair(s))
    BY <2>2, <2>3 DEF Making, HoldPc, SlotTypes
  <2>5. \A p \in Pairs : HasIndex(p)' <=> HasIndex(p) /\ ~Making(p)
    BY <2>1, <2>3, <2>4 DEF HasIndex, DbTypes
  <2>6. Owned'
    BY <2>3, <2>4, <2>5 DEF OwnersKept, Owned
  <2>7. Claimed'
    BY <2>2, <2>3, <2>4, <2>5 DEF OwnersKept, Claimed, HoldPc
  <2>8. Midway'
    BY <2>2, <2>3 DEF Midway, HoldPc, SlotTypes
  <2> QED
    BY <1>0, <2>6, <2>7, <2>8 DEF OwnersKept
<1>8. ASSUME NEW s \in Slots, DeleteIndexRow(s) PROVE OwnersKept'
  <2>1. Pair(s) \in Pairs /\ Table(s) \in Tables
    BY <1>8, RequestFacts DEF DeleteIndexRow
  <2>2. CASE pc'[s] # "drop_table"
    <3>1. /\ UNCHANGED <<indexRow, tableDim, req>>
          /\ pc[s] = "delete_index_row" /\ pc' = [pc EXCEPT ![s] = "done"]
      BY <1>8, <2>2 DEF DeleteIndexRow, SlotTypes
    <3> QED
      BY <1>0, <3>1, OwnersFrame DEF SlotTypes
  <2>3. CASE pc'[s] = "drop_table"
    <3>1. /\ indexRow[Pair(s)] # NoDim
          /\ indexRow' = [indexRow EXCEPT ![Pair(s)] = NoDim]
          /\ pc' = [pc EXCEPT ![s] = "drop_table"]
          /\ UNCHANGED <<tableDim, req>>
          /\ pc[s] = "delete_index_row"
      BY <1>8, <2>3 DEF DeleteIndexRow, SlotTypes
    <3>2. \A z \in Slots : pc[z] \notin HoldPc
      BY <1>8, <3>1, OthersOut DEF DeleteIndexRow, HoldPc
    <3>3. \A p \in Pairs : ~Making(p) /\ ~Making(p)'
      BY <3>1, <3>2 DEF Making, HoldPc, SlotTypes
    <3>4. \A p \in Pairs : HasIndex(p)' <=> HasIndex(p) /\ p # Pair(s)
      BY <2>1, <3>1 DEF HasIndex, DbTypes
    <3>5. Owned'
      BY <3>1, <3>3, <3>4 DEF OwnersKept, Owned
    <3>6. Claimed'
      BY <2>1, <3>1, <3>2, <3>3, <3>4 DEF OwnersKept, Claimed, HoldPc, Table, Pair, SlotTypes
    <3>7. \A p \in Pairs : HasIndex(p)' => TableOf[p] # Table(s)
      BY <2>1, <3>1, <3>3, <3>4 DEF OwnersKept, Owned, HasIndex, Table, Pair
    <3>8. Midway'
      BY <3>1, <3>2, <3>7 DEF Midway, HoldPc, Table, SlotTypes
    <3> QED
      BY <1>0, <3>5, <3>6, <3>8 DEF OwnersKept
  <2> QED
    BY <2>2, <2>3
<1>9. ASSUME NEW s \in Slots, DropTable(s) PROVE OwnersKept'
  <2>1. Table(s) \in Tables
    BY <1>9, RequestFacts DEF DropTable
  <2>2. \A z \in Slots : z # s => pc[z] \notin HoldPc
    BY <1>9, OthersOut DEF DropTable
  <2>3. /\ tableDim' = [tableDim EXCEPT ![Table(s)] = NoDim]
        /\ pc[s] = "drop_table" /\ pc' = [pc EXCEPT ![s] = "list_snapshots"]
        /\ UNCHANGED <<indexRow, req>>
    BY <1>9 DEF DropTable, Drop
  <2>4. \A p \in Pairs : HasIndex(p) => TableOf[p] # Table(s)
    BY <2>3 DEF OwnersKept, Midway
  <2>5. \A p \in Pairs : ~Making(p) /\ ~Making(p)' /\ (HasIndex(p)' <=> HasIndex(p))
    BY <2>2, <2>3 DEF Making, HasIndex, HoldPc, SlotTypes
  <2>6. Owned'
    BY <2>1, <2>3, <2>4, <2>5 DEF OwnersKept, Owned, DbTypes
  <2>7. Claimed'
    BY <2>1, <2>2, <2>3, <2>5 DEF OwnersKept, Claimed, DbTypes, HoldPc
  <2>8. Midway'
    BY <2>2, <2>3 DEF Midway, HoldPc, SlotTypes
  <2> QED
    BY <1>0, <2>6, <2>7, <2>8 DEF OwnersKept
<1>10. ASSUME Crash PROVE FALSE
  BY <1>10, ConstantsAssumption DEF Crash, Sound, HistoryTypes
<1>11. ASSUME \/ Open \/ Serve \/ UNCHANGED vars
              \/ \E p \in Pairs : ListForReplay(p)
              \/ \E p \in Pairs, k \in Keys : ReplaySnapshot(p, k)
       PROVE  OwnersKept'
  <2>1. UNCHANGED <<indexRow, tableDim, pc, req>>
    BY <1>11 DEF Open, Serve, ListForReplay, ReplaySnapshot
  <2> QED
    BY <1>0, <2>1, OwnersFrame
<1> QED
  BY <1>1, <1>2, <1>3, <1>4, <1>5, <1>6, <1>7, <1>8, <1>9, <1>10, <1>11
     DEF Next, Step, Boot, Quiet

\* A fresh installation has no index and no table.
LEMMA OwnersInit == Init => TypeInv /\ OwnersKept
BY TypeInit, ConstantsAssumption
   DEF Init, OwnersKept, Intact, Owned, Claimed, Midway, HasIndex

\* Two indexes whose names become one identifier never share a table: the
\* second CreateIndex fails at its CREATE TABLE and undoes its own row only.
THEOREM TablesHaveOneOwner == Sound => (Spec => []OneOwner)
<1> SUFFICES ASSUME Sound PROVE Spec => []OneOwner
  OBVIOUS
<1> DEFINE OwnersInv == TypeInv /\ OwnersKept
<1>1. OwnersInv /\ [Next]_vars => OwnersInv'
  BY TypeStep, OwnersStep
<1>2. OwnersInv => OneOwner
  BY DEF OwnersKept, Owned, OneOwner
<1> HIDE DEF OwnersInv
<1>3. Init => OwnersInv
  BY OwnersInit DEF OwnersInv
<1> QED
  BY <1>1, <1>2, <1>3, PTL DEF Spec

\* Between store calls every backing table has its index: neither a refused
\* CreateIndex nor a DeleteIndex leaves a table that would block the name.
THEOREM TablesAreClaimed == Sound => (Spec => []NoStrayTable)
<1> SUFFICES ASSUME Sound PROVE Spec => []NoStrayTable
  OBVIOUS
<1> DEFINE OwnersInv == TypeInv /\ OwnersKept
<1>1. OwnersInv /\ [Next]_vars => OwnersInv'
  BY TypeStep, OwnersStep
<1>2. OwnersInv => NoStrayTable
  <2> SUFFICES ASSUME OwnersInv, mutex = NoSlot PROVE NoStrayTable
    BY DEF NoStrayTable
  <2>1. \A s \in Slots : pc[s] # "drop_table"
    BY ConstantsAssumption DEF TypeInv, Alone, HoldPc
  <2> QED
    BY <2>1 DEF OwnersKept, Claimed, NoStrayTable
<1> HIDE DEF OwnersInv
<1>3. Init => OwnersInv
  BY OwnersInit DEF OwnersInv
<1> QED
  BY <1>1, <1>2, <1>3, PTL DEF Spec
=============================================================================
