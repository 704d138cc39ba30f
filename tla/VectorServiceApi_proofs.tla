---------------------- MODULE VectorServiceApi_proofs ----------------------
(***************************************************************************)
(* VectorService implements VectorApi, when no two indexes share a table   *)
(* identifier: for every set of names, slots and requests and every bound  *)
(* on requests, faults and crashes.                                        *)
(***************************************************************************)
EXTENDS VectorServiceApi, VectorService_proofs

\* A handler is at a place of its operation, and a put starts at its first row.
Handling ==
  \A s \in Slots :
    /\ pc[s] \in {"insert_bucket", "ensure_bucket"} => req[s].op = "CreateVectorBucket"
    /\ pc[s] \in {"count", "delete_bucket_row", "delete_s3_bucket"} => req[s].op = "DeleteVectorBucket"
    /\ pc[s] \in {"insert_index", "create_table", "create_hnsw", "rollback"} => req[s].op = "CreateIndex"
    /\ pc[s] \in {"delete_index_row", "drop_table", "list_snapshots"} => req[s].op = "DeleteIndex"
    /\ pc[s] \in {"snapshot", "lookup", "upsert"} => req[s].op = "PutVectors"
    /\ pc[s] = "delete_rows" => req[s].op = "DeleteVectors"
    /\ pc[s] = "drop_snapshots" => req[s].op \in {"DeleteIndex", "DeleteVectors"}
    /\ pc[s] = "lookup" => pos[s] = 1

\* The rows of the indexes that are seen, as they are now.
View == [p \in Pairs |-> IF seenDim[p] = NoDim THEN EmptyTable ELSE tableRows[TableOf[p]]]

Creating == {"create_table", "create_hnsw", "rollback"}

\* Inside of the put of slot s: what it has written so far is on top of what is
\* seen, and it has written nothing if its table does not fit or cannot be written.
Putting(s) ==
  /\ seenDim = indexRow
  /\ \A p \in Pairs : p # Pair(s) => seenRows[p] = View[p]
  /\ Api!After(req[s].batch, pos[s] - 1, seenRows[Pair(s)], tableRows[Table(s)])
  /\ pos[s] # 1 => tableDim[Table(s)] = indexRow[Pair(s)] /\ Writable(Table(s))

\* What is seen while slot s is inside of a store call.
Inside(s) ==
  /\ pc[s] \in Creating => /\ indexRow = [seenDim EXCEPT ![Pair(s)] = req[s].dim]
                           /\ seenDim[Pair(s)] = NoDim
                           /\ Bucket(s) \in bucketRow
  /\ pc[s] = "create_hnsw" => tableRows[Table(s)] = EmptyTable
  /\ pc[s] = "drop_table" => /\ indexRow = [seenDim EXCEPT ![Pair(s)] = NoDim]
                             /\ seenDim[Pair(s)] # NoDim
  /\ pc[s] = "upsert" => Putting(s)

\* What is seen, between store calls and inside of each.
SeenInv ==
  /\ seenDim \in [Pairs -> Dims \cup {NoDim}]
  /\ seenRows \in [Pairs -> [Keys -> Vecs \cup {NoVec}]]
  /\ mutex = NoSlot => seenDim = indexRow
  /\ (\A s \in Slots : pc[s] # "upsert") => seenRows = View
  /\ \A s \in Slots : Inside(s)

ApiInv == OwnerInv /\ Handling /\ SeenInv
-----------------------------------------------------------------------------
(* What moves a request, and what does not.                                *)

\* The stage of the slot that moves is the new one, all others stay.
LEMMA OnlyStage ==
  ASSUME NEW s \in Slots, NEW st, Stage(s)' = st,
         \A z \in Slots : z # s => pc'[z] = pc[z] /\ reply'[z] = reply[z]
  PROVE  Api!Become(s, st)
<1>1. \A z \in Slots : z # s => Stage(z)' = Stage(z)
  BY DEF Stage
<1> QED
  BY <1>1 DEF Api!Become

\* A handler that returns gives its answer.
LEMMA FinishStage ==
  ASSUME SlotTypes, NEW s \in Slots, NEW r, Finish(s, r)
  PROVE  Api!Become(s, r)
<1>1. Stage(s)' = r
  BY DEF Stage, Finish, Goto, SlotTypes, Landed
<1>2. \A z \in Slots : z # s => pc'[z] = pc[z] /\ reply'[z] = reply[z]
  BY DEF Finish, Goto, SlotTypes
<1> QED
  BY <1>1, <1>2, OnlyStage

\* A handler that has changed its rows is landed.
LEMMA LandStage ==
  ASSUME SlotTypes, NEW s \in Slots, NEW l \in Landed, Goto(s, l), UNCHANGED reply
  PROVE  Api!Become(s, "landed")
<1>1. Stage(s)' = "landed"
  BY DEF Stage, Goto, SlotTypes, Landed
<1>2. \A z \in Slots : z # s => pc'[z] = pc[z] /\ reply'[z] = reply[z]
  BY DEF Goto, SlotTypes
<1> QED
  BY <1>1, <1>2, OnlyStage

\* A slot that is freed is free.
LEMMA FreeStage ==
  ASSUME SlotTypes, NEW s \in Slots, Free(s)
  PROVE  Api!Become(s, "free")
<1>1. Stage(s)' = "free"
  BY DEF Stage, Free, Goto, SlotTypes, Landed
<1>2. \A z \in Slots : z # s => pc'[z] = pc[z] /\ reply'[z] = reply[z]
  BY DEF Free, Goto, SlotTypes
<1> QED
  BY <1>1, <1>2, OnlyStage

\* A handler between two calls that neither answer nor land moves nothing.
LEMMA SameStage ==
  ASSUME SlotTypes, NEW s \in Slots, NEW l, Goto(s, l), UNCHANGED reply,
         pc[s] \notin {"idle", "done"}, l \notin {"idle", "done"},
         pc[s] \in Landed <=> l \in Landed
  PROVE  UNCHANGED [z \in Slots |-> Stage(z)]
<1>1. \A z \in Slots : Stage(z)' = Stage(z)
  BY DEF Stage, Goto, SlotTypes
<1> QED
  BY <1>1

\* The service changed nothing a client can see.
LEMMA Stutters ==
  ASSUME UNCHANGED <<bucketRow, seenDim, seenRows, req>>,
         (phase' = "up") <=> (phase = "up"),
         UNCHANGED [z \in Slots |-> Stage(z)]
  PROVE  UNCHANGED Api!vars
<1>1. UNCHANGED (phase = "up")
  OBVIOUS
<1> QED
  BY <1>1 DEF Api!vars, Api!db

\* An answer with a reason.
LEMMA Refuses ==
  ASSUME SlotTypes, NEW s \in Slots, NEW r \in Api!Refusals, Stage(s) = "asked",
         Api!Justified(s, r), Finish(s, r),
         UNCHANGED <<bucketRow, seenDim, seenRows, req, phase>>
  PROVE  Api!Next
<1>1. Api!Refuse(s, r)
  BY FinishStage DEF Api!Refuse, Api!db
<1> QED
  BY <1>1 DEF Api!Next

\* The answer to what has landed.
LEMMA Confirms ==
  ASSUME SlotTypes, NEW s \in Slots, NEW r, Stage(s) = "landed", Finish(s, r),
         r = "ok" \/ (r = "Internal" /\ req[s].op \in Api!BucketOps),
         UNCHANGED <<bucketRow, seenDim, seenRows, req, phase>>
  PROVE  Api!Next
<1>1. Api!Confirm(s)
  BY FinishStage DEF Api!Confirm, Api!db
<1> QED
  BY <1>1 DEF Api!Next

LEMMA ConfirmsOk ==
  ASSUME SlotTypes, NEW s \in Slots, Stage(s) = "landed", Finish(s, "ok"),
         UNCHANGED <<bucketRow, seenDim, seenRows, req, phase>>
  PROVE  Api!Next
<1>1. Api!Confirm(s)
  BY FinishStage DEF Api!Confirm, Api!db
<1> QED
  BY <1>1 DEF Api!Next

\* The database as it is seen stays when nothing of it changes, the connection
\* stays as it is and nobody gets into a store call.
LEMMA SeenFrame ==
  ASSUME ApiInv, OwnerInv', See,
         UNCHANGED <<indexRow, tableDim, tableRows, mutex>>,
         bucketRow' = bucketRow \/ mutex = NoSlot \/ bucketRow \subseteq bucketRow',
         mutex = NoSlot \/ UNCHANGED <<hnsw, vss>>,
         \A z \in Slots : pc'[z] \in HoldPc => /\ pc'[z] = pc[z]
                                               /\ req'[z] = req[z]
                                               /\ pos'[z] = pos[z]
  PROVE  UNCHANGED <<seenDim, seenRows>> /\ SeenInv'
<1>1. mutex = NoSlot => \A s \in Slots : pc[s] # "upsert"
  BY ConstantsAssumption DEF ApiInv, OwnerInv, TableInv, TypeInv, Alone, HoldPc
<1>2. Visible' = Visible
  BY DEF Visible
<1>3. mutex = NoSlot => seenDim = indexRow /\ seenRows = Visible
  BY <1>1 DEF ApiInv, SeenInv, View, Visible
<1>4. UNCHANGED <<seenDim, seenRows>>
  BY <1>2, <1>3 DEF See, seen
<1>5. View' = View
  BY <1>4 DEF View
<1>6. ASSUME NEW s \in Slots, pc'[s] \in HoldPc
      PROVE  /\ Pair(s)' = Pair(s) /\ Bucket(s)' = Bucket(s) /\ Table(s)' = Table(s)
             /\ Bucket(s) \in bucketRow => Bucket(s) \in bucketRow'
             /\ Putting(s) => Putting(s)'
  <2>1. pc'[s] = pc[s] /\ req'[s] = req[s] /\ pos'[s] = pos[s]
    BY <1>6
  <2>2. mutex # NoSlot
    BY <2>1, <1>6, ConstantsAssumption DEF ApiInv, OwnerInv, TableInv, TypeInv, Alone
  <2>3. Pair(s)' = Pair(s) /\ Bucket(s)' = Bucket(s) /\ Table(s)' = Table(s)
    BY <2>1 DEF Pair, Bucket, Table
  <2>4. Putting(s) => Putting(s)'
    BY <2>1, <2>2, <2>3, <1>4, <1>5 DEF Putting, Writable, Api!After
  <2>5. Bucket(s) \in bucketRow => Bucket(s) \in bucketRow'
    BY <2>2
  <2> QED
    BY <2>3, <2>4, <2>5
<1>7. (\A s \in Slots : pc'[s] # "upsert") => seenRows' = View'
  <2>1. CASE mutex = NoSlot
    BY <2>1, <1>1, <1>4, <1>5 DEF ApiInv, SeenInv
  <2>2. CASE mutex # NoSlot
    <3>1. PICK z \in Slots : mutex = z
      BY <2>2 DEF ApiInv, OwnerInv, TableInv, TypeInv, TypeOK, ProcessTypes
    <3>2. pc'[z] \in HoldPc
      BY <3>1 DEF OwnerInv, TableInv, TypeInv, Alone
    <3>3. pc'[z] = pc[z] /\ \A y \in Slots : pc[y] = "upsert" => y = z
      BY <3>1, <3>2 DEF ApiInv, OwnerInv, TableInv, TypeInv, Alone, HoldPc
    <3> QED
      BY <3>3, <1>4, <1>5 DEF ApiInv, SeenInv
  <2> QED
    BY <2>1, <2>2
<1>8. ASSUME NEW s \in Slots PROVE Inside(s)'
  <2>1. CASE pc'[s] \in HoldPc
    BY <1>4, <1>6, <2>1 DEF ApiInv, SeenInv, Inside
  <2>2. CASE pc'[s] \notin HoldPc
    BY <2>2 DEF Inside, Creating, HoldPc
  <2> QED
    BY <2>1, <2>2
<1> QED
  BY <1>4, <1>7, <1>8 DEF ApiInv, SeenInv

\* Every step of a handler stays in its operation.
LEMMA HandlingStep == TypeInv /\ Handling /\ [Next]_vars => Handling'
<1> SUFFICES ASSUME TypeInv, Handling, [Next]_vars PROVE Handling'
  OBVIOUS
<1> USE DEF TypeInv, TypeOK, SlotTypes, Goto, Finish, Free
<1>1. ASSUME NEW s \in Slots, Receive(s) PROVE Handling'
  <2>1. PICK q \in Requests : req' = [req EXCEPT ![s] = q] /\ Goto(s, FirstPc[q.op])
    BY <1>1 DEF Receive
  <2>2. q.op \in Ops
    BY ConstantsAssumption DEF Request
  <2>3. pc'[s] = FirstPc[q.op] /\ req'[s] = q
    BY <1>1, <2>1 DEF Receive
  <2>4. \A z \in Slots : z # s => pc'[z] = pc[z] /\ req'[z] = req[z] /\ pos'[z] = pos[z]
    BY <1>1, <2>1 DEF Receive
  <2>5. FirstPc[q.op] \notin {"lookup", "upsert"}
    BY <2>2 DEF Ops, FirstPc
  <2>6. /\ FirstPc[q.op] \in {"insert_bucket", "ensure_bucket"} => q.op = "CreateVectorBucket"
        /\ FirstPc[q.op] \in {"count", "delete_bucket_row", "delete_s3_bucket"} => q.op = "DeleteVectorBucket"
        /\ FirstPc[q.op] \in {"insert_index", "create_table", "create_hnsw", "rollback"} => q.op = "CreateIndex"
        /\ FirstPc[q.op] \in {"delete_index_row", "drop_table", "list_snapshots"} => q.op = "DeleteIndex"
        /\ FirstPc[q.op] = "snapshot" => q.op = "PutVectors"
        /\ FirstPc[q.op] = "delete_rows" => q.op = "DeleteVectors"
        /\ FirstPc[q.op] # "drop_snapshots"
    BY <2>2 DEF Ops, FirstPc
  <2> QED
    BY ONLY Handling, <2>3, <2>4, <2>5, <2>6 DEF Handling
<1>2. ASSUME NEW s \in Slots, InsertBucketRow(s) PROVE Handling'
  BY <1>2 DEF InsertBucketRow, Handling
<1>3. ASSUME NEW s \in Slots, EnsureBucket(s) PROVE Handling'
  BY <1>3 DEF EnsureBucket, Handling
<1>4. ASSUME NEW s \in Slots, CountIndexes(s) PROVE Handling'
  BY <1>4 DEF CountIndexes, Handling
<1>5. ASSUME NEW s \in Slots, DeleteBucketRow(s) PROVE Handling'
  BY <1>5 DEF DeleteBucketRow, Handling
<1>6. ASSUME NEW s \in Slots, DeleteS3Bucket(s) PROVE Handling'
  BY <1>6 DEF DeleteS3Bucket, Handling
<1>7. ASSUME NEW s \in Slots, InsertIndexRow(s) PROVE Handling'
  BY <1>7 DEF InsertIndexRow, Handling
<1>8. ASSUME NEW s \in Slots, CreateTable(s) PROVE Handling'
  BY <1>8 DEF CreateTable, Handling
<1>9. ASSUME NEW s \in Slots, CreateHnsw(s) PROVE Handling'
  BY <1>9 DEF CreateHnsw, Handling
<1>10. ASSUME NEW s \in Slots, RollbackIndexRow(s) PROVE Handling'
  BY <1>10 DEF RollbackIndexRow, Handling
<1>11. ASSUME NEW s \in Slots, DeleteIndexRow(s) PROVE Handling'
  BY <1>11 DEF DeleteIndexRow, Handling
<1>12. ASSUME NEW s \in Slots, DropTable(s) PROVE Handling'
  BY <1>12 DEF DropTable, Handling
<1>13. ASSUME NEW s \in Slots, ListSnapshots(s) PROVE Handling'
  BY <1>13 DEF ListSnapshots, Handling
<1>14. ASSUME NEW s \in Slots, DropSnapshot(s) PROVE Handling'
  BY <1>14 DEF DropSnapshot, Handling
<1>15. ASSUME NEW s \in Slots, WriteSnapshot(s) PROVE Handling'
  BY <1>15 DEF WriteSnapshot, Handling
<1>16. ASSUME NEW s \in Slots, LookupIndex(s) PROVE Handling'
  BY <1>16 DEF LookupIndex, Handling
<1>17. ASSUME NEW s \in Slots, UpsertRow(s) PROVE Handling'
  BY <1>17 DEF UpsertRow, Handling
<1>18. ASSUME NEW s \in Slots, DeleteRows(s) PROVE Handling'
  BY <1>18 DEF DeleteRows, Handling
<1>19. ASSUME NEW s \in Slots, Deliver(s) PROVE Handling'
  BY <1>19 DEF Deliver, Handling
<1>20. ASSUME NEW s \in Slots, Disconnect(s) PROVE Handling'
  BY <1>20 DEF Disconnect, Handling, S3Pc
<1>21. ASSUME Crash PROVE Handling'
  BY <1>21 DEF Crash, Handling
<1>22. ASSUME Open PROVE Handling'
  BY <1>22 DEF Open, slotVars, Handling
<1>23. ASSUME NEW p \in Pairs, ListForReplay(p) PROVE Handling'
  BY <1>23 DEF ListForReplay, slotVars, Handling
<1>24. ASSUME NEW p \in Pairs, NEW k \in Keys, ReplaySnapshot(p, k) PROVE Handling'
  BY <1>24 DEF ReplaySnapshot, slotVars, Handling
<1>25. ASSUME Serve PROVE Handling'
  BY <1>25 DEF Serve, slotVars, Handling
<1>26. ASSUME UNCHANGED vars PROVE Handling'
  BY <1>26 DEF vars, slotVars, Handling
<1> QED
  BY <1>1, <1>2, <1>3, <1>4, <1>5, <1>6, <1>7, <1>8, <1>9, <1>10, <1>11, <1>12, <1>13, <1>14, <1>15, <1>16, <1>17, <1>18, <1>19, <1>20, <1>21, <1>22, <1>23, <1>24, <1>25, <1>26
     DEF Next, Step, Boot, Quiet

-----------------------------------------------------------------------------
(* Every step of the service is a step of the interface, or none.          *)

Follows == SeenInv' /\ [Api!Next]_(Api!vars)

\* Between store calls the indexes that are seen are those that are there.
LEMMA FreeSees ==
  ASSUME ApiInv, mutex = NoSlot
  PROVE  seenDim = indexRow /\ seenRows = Visible
<1>1. \A s \in Slots : pc[s] # "upsert"
  BY ConstantsAssumption DEF ApiInv, OwnerInv, TableInv, TypeInv, Alone, HoldPc
<1> QED
  BY <1>1 DEF ApiInv, SeenInv, View, Visible

\* The steps that change no row.
LEMMA QuietSteps ==
  ASSUME ApiInv, OwnerInv', See,
         \/ \E s \in Slots : \/ Receive(s) \/ EnsureBucket(s) \/ CountIndexes(s)
                             \/ DeleteS3Bucket(s) \/ ListSnapshots(s) \/ DropSnapshot(s)
                             \/ WriteSnapshot(s) \/ Deliver(s) \/ Disconnect(s)
         \/ Open \/ Serve \/ UNCHANGED vars
         \/ \E p \in Pairs : ListForReplay(p)
  PROVE  Follows
<1> USE ConstantsAssumption
    DEF ApiInv, OwnerInv, TableInv, TypeInv, TypeOK, SlotTypes, Goto, Finish, Free, Spend, Fault,
        dbVars, s3Vars, procVars
<1>1. ASSUME NEW s \in Slots, Receive(s) PROVE Follows
  <2> USE <1>1
  <2>1. \A z \in Slots : pc'[z] \in HoldPc => pc'[z] = pc[z] /\ req'[z] = req[z] /\ pos'[z] = pos[z]
    BY DEF Receive, HoldPc, FirstPc, Request, Ops
  <2>2. UNCHANGED <<seenDim, seenRows>> /\ SeenInv'
    BY <2>1, SeenFrame DEF Receive
  <2>3. PICK q \in Requests : req' = [req EXCEPT ![s] = q] /\ Goto(s, FirstPc[q.op])
    BY DEF Receive
  <2>4. FirstPc[q.op] \in PC \ (Landed \cup {"idle", "done"})
    BY DEF Request, Ops, FirstPc, Landed, PC, StorePc, HoldPc, S3Pc
  <2>5. Api!Become(s, "asked")
    <3>1. Stage(s)' = "asked"
      BY <2>3, <2>4 DEF Stage
    <3> QED
      BY <2>3, <3>1, OnlyStage DEF Receive
  <2>6. Stage(s) = "free"
    BY DEF Receive, Stage, Landed
  <2>7. Api!Ask(s)
    BY <2>2, <2>3, <2>5, <2>6 DEF Receive, Api!Ask, Api!db
  <2> QED
    BY <2>2, <2>7 DEF Follows, Api!Next
<1>2. ASSUME NEW s \in Slots, EnsureBucket(s) PROVE Follows
  <2> USE <1>2
  <2>1. \A z \in Slots : pc'[z] \in HoldPc => pc'[z] = pc[z] /\ req'[z] = req[z] /\ pos'[z] = pos[z]
    BY DEF EnsureBucket, HoldPc
  <2>2. UNCHANGED <<seenDim, seenRows>> /\ SeenInv'
    BY <2>1, SeenFrame DEF EnsureBucket
  <2>3. Stage(s) = "landed"
    BY DEF EnsureBucket, Stage, Landed
  <2>4. req[s].op \in Api!BucketOps
    BY DEF EnsureBucket, Handling, Api!BucketOps
  <2>5. PICK r \in {"ok", "Internal"} : Finish(s, r)
    BY DEF EnsureBucket
  <2>6. Api!Next
    BY <2>2, <2>3, <2>4, <2>5, Confirms DEF EnsureBucket
  <2> QED
    BY <2>2, <2>6 DEF Follows
<1>3. ASSUME NEW s \in Slots, CountIndexes(s) PROVE Follows
  <2> USE <1>3
  <2>1. \A z \in Slots : pc'[z] \in HoldPc => pc'[z] = pc[z] /\ req'[z] = req[z] /\ pos'[z] = pos[z]
    BY DEF CountIndexes, HoldPc
  <2>2. UNCHANGED <<seenDim, seenRows>> /\ SeenInv'
    BY <2>1, SeenFrame DEF CountIndexes
  <2>3. CASE AnyIndex(Bucket(s)) /\ Finish(s, "Conflict")
    <3>1. PICK i \in Indexes : indexRow[<<Bucket(s), i>>] # NoDim
      BY <2>3 DEF AnyIndex
    <3>2. Bucket(s) \in Buckets /\ seenDim = indexRow
      BY RequestFacts, FreeSees DEF CountIndexes
    <3>3. <<Bucket(s), i>> \in Api!Pairs /\ <<Bucket(s), i>>[1] = Bucket(s)
      BY <3>2 DEF Api!Pairs
    <3>4. req[s].op = "DeleteVectorBucket" /\ Stage(s) = "asked"
      BY DEF CountIndexes, Handling, Stage, Landed
    <3>5. Api!Justified(s, "Conflict")
      BY <3>1, <3>2, <3>3, <3>4 DEF Api!Justified, Api!Bucket, Bucket
    <3>6. Api!Next
      BY <2>2, <2>3, <3>4, <3>5, Refuses DEF CountIndexes, Api!Refusals
    <3> QED
      BY <2>2, <3>6 DEF Follows
  <2>4. CASE Goto(s, "delete_bucket_row") /\ UNCHANGED reply
    <3>1. UNCHANGED [z \in Slots |-> Stage(z)]
      BY <2>4, SameStage, ZenonT(60) DEF CountIndexes, Landed
    <3> QED
      BY <2>2, <3>1, Stutters DEF CountIndexes, Follows
  <2> QED
    BY <2>3, <2>4 DEF CountIndexes
<1>4. ASSUME NEW s \in Slots, DeleteS3Bucket(s) PROVE Follows
  <2> USE <1>4
  <2>1. \A z \in Slots : pc'[z] \in HoldPc => pc'[z] = pc[z] /\ req'[z] = req[z] /\ pos'[z] = pos[z]
    BY DEF DeleteS3Bucket, HoldPc
  <2>2. UNCHANGED <<seenDim, seenRows>> /\ SeenInv'
    BY <2>1, SeenFrame DEF DeleteS3Bucket
  <2>3. Stage(s) = "landed"
    BY DEF DeleteS3Bucket, Stage, Landed
  <2>4. req[s].op \in Api!BucketOps
    BY DEF DeleteS3Bucket, Handling, Api!BucketOps
  <2>5. PICK r \in {"ok", "Internal"} : Finish(s, r)
    BY DEF DeleteS3Bucket
  <2>6. Api!Next
    BY <2>2, <2>3, <2>4, <2>5, Confirms DEF DeleteS3Bucket
  <2> QED
    BY <2>2, <2>6 DEF Follows
<1>5. ASSUME NEW s \in Slots, ListSnapshots(s) PROVE Follows
  <2> USE <1>5
  <2>1. \A z \in Slots : pc'[z] \in HoldPc => pc'[z] = pc[z] /\ req'[z] = req[z] /\ pos'[z] = pos[z]
    BY DEF ListSnapshots, HoldPc
  <2>2. UNCHANGED <<seenDim, seenRows>> /\ SeenInv'
    BY <2>1, SeenFrame DEF ListSnapshots
  <2>3. CASE Finish(s, "ok")
    <3>1. Stage(s) = "landed"
      BY DEF ListSnapshots, Stage, Landed
    <3>2. UNCHANGED <<bucketRow, req, phase>>
      BY DEF ListSnapshots
    <3>3. Api!Next
      BY <2>2, <2>3, <3>1, <3>2, ConfirmsOk
    <3> QED
      BY <2>2, <3>3 DEF Follows
  <2>4. CASE Goto(s, "drop_snapshots") /\ UNCHANGED reply
    <3>0. pc[s] = "list_snapshots"
      BY DEF ListSnapshots
    <3>1. UNCHANGED [z \in Slots |-> Stage(z)]
      BY ONLY SlotTypes, <2>4, <3>0, SameStage, ZenonT(60) DEF Landed
    <3> QED
      BY <2>2, <3>1, Stutters DEF ListSnapshots, Follows
  <2> QED
    BY <2>3, <2>4 DEF ListSnapshots
<1>6. ASSUME NEW s \in Slots, DropSnapshot(s) PROVE Follows
  <2> USE <1>6
  <2>1. \A z \in Slots : pc'[z] \in HoldPc => pc'[z] = pc[z] /\ req'[z] = req[z] /\ pos'[z] = pos[z]
    BY DEF DropSnapshot, HoldPc
  <2>2. UNCHANGED <<seenDim, seenRows>> /\ SeenInv'
    BY <2>1, SeenFrame DEF DropSnapshot
  <2>3. CASE Finish(s, "ok")
    <3>1. Stage(s) = "landed"
      BY DEF DropSnapshot, Stage, Landed
    <3>2. UNCHANGED <<bucketRow, req, phase>>
      BY DEF DropSnapshot
    <3>3. Api!Next
      BY <2>2, <2>3, <3>1, <3>2, ConfirmsOk
    <3> QED
      BY <2>2, <3>3 DEF Follows
  <2>4. CASE UNCHANGED <<pc, reply>>
    <3>1. UNCHANGED [z \in Slots |-> Stage(z)]
      BY ONLY <2>4 DEF Stage
    <3> QED
      BY <2>2, <3>1, Stutters DEF DropSnapshot, Follows
  <2> QED
    BY <2>3, <2>4 DEF DropSnapshot
<1>7. ASSUME NEW s \in Slots, WriteSnapshot(s) PROVE Follows
  <2> USE <1>7
  <2>1. \A z \in Slots : pc'[z] \in HoldPc => pc'[z] = pc[z] /\ req'[z] = req[z] /\ pos'[z] = pos[z]
    BY DEF WriteSnapshot, HoldPc
  <2>2. UNCHANGED <<seenDim, seenRows>> /\ SeenInv'
    BY <2>1, SeenFrame DEF WriteSnapshot
  <2>3. CASE Finish(s, "Internal")
    <3>1. Stage(s) = "asked"
      BY DEF WriteSnapshot, Stage, Landed
    <3>2. Api!Justified(s, "Internal")
      BY DEF Api!Justified
    <3>3. Api!Next
      BY <2>2, <2>3, <3>1, <3>2, Refuses DEF WriteSnapshot, Api!Refusals
    <3> QED
      BY <2>2, <3>3 DEF Follows
  <2>4. CASE Goto(s, "lookup") /\ UNCHANGED reply
    <3>0. pc[s] = "snapshot"
      BY DEF WriteSnapshot
    <3>1. UNCHANGED [z \in Slots |-> Stage(z)]
      BY ONLY SlotTypes, <2>4, <3>0, SameStage DEF Landed
    <3> QED
      BY <2>2, <3>1, Stutters DEF WriteSnapshot, Follows
  <2>5. CASE UNCHANGED <<pc, reply>>
    <3>1. UNCHANGED [z \in Slots |-> Stage(z)]
      BY ONLY <2>5 DEF Stage
    <3> QED
      BY <2>2, <3>1, Stutters DEF WriteSnapshot, Follows
  <2> QED
    BY <2>3, <2>4, <2>5 DEF WriteSnapshot
<1>8. ASSUME NEW s \in Slots, Deliver(s) PROVE Follows
  <2> USE <1>8
  <2>1. \A z \in Slots : pc'[z] \in HoldPc => pc'[z] = pc[z] /\ req'[z] = req[z] /\ pos'[z] = pos[z]
    BY DEF Deliver, HoldPc
  <2>2. UNCHANGED <<seenDim, seenRows>> /\ SeenInv'
    BY <2>1, SeenFrame DEF Deliver
  <2>3. Stage(s) # "free"
    BY DEF Deliver, Stage, Landed, Replies
  <2>4. Api!Become(s, "free")
    BY FreeStage DEF Deliver
  <2>5. Api!Leave(s)
    BY <2>2, <2>3, <2>4 DEF Deliver, Api!Leave, Api!db
  <2> QED
    BY <2>2, <2>5 DEF Follows, Api!Next
<1>9. ASSUME NEW s \in Slots, Disconnect(s) PROVE Follows
  <2> USE <1>9
  <2>1. \A z \in Slots : pc'[z] \in HoldPc => pc'[z] = pc[z] /\ req'[z] = req[z] /\ pos'[z] = pos[z]
    BY DEF Disconnect, HoldPc, S3Pc
  <2>2. UNCHANGED <<seenDim, seenRows>> /\ SeenInv'
    BY <2>1, SeenFrame DEF Disconnect
  <2>3. Stage(s) # "free"
    BY DEF Disconnect, Stage, Landed, Replies, S3Pc
  <2>4. Api!Become(s, "free")
    BY FreeStage DEF Disconnect
  <2>5. Api!Leave(s)
    BY <2>2, <2>3, <2>4 DEF Disconnect, Api!Leave, Api!db
  <2> QED
    BY <2>2, <2>5 DEF Follows, Api!Next
<1>10. ASSUME Open PROVE Follows
  <2> USE <1>10
  <2> USE DEF slotVars
  <2>1. \A z \in Slots : pc'[z] \in HoldPc => pc'[z] = pc[z] /\ req'[z] = req[z] /\ pos'[z] = pos[z]
    BY DEF Open, HoldPc
  <2>2. mutex = NoSlot
    BY DEF Open, ProcessTypes, Asleep, Alone, HoldPc
  <2>3. UNCHANGED <<seenDim, seenRows>> /\ SeenInv'
    BY <2>1, <2>2, SeenFrame DEF Open, slotVars
  <2>4. UNCHANGED [z \in Slots |-> Stage(z)]
    BY DEF Open, Stage
  <2> QED
    BY <2>3, <2>4, Stutters DEF Open, Follows
<1>11. ASSUME Serve PROVE Follows
  <2> USE <1>11
  <2> USE DEF slotVars
  <2>1. \A z \in Slots : pc'[z] \in HoldPc => pc'[z] = pc[z] /\ req'[z] = req[z] /\ pos'[z] = pos[z]
    BY DEF Serve, HoldPc
  <2>2. UNCHANGED <<seenDim, seenRows>> /\ SeenInv'
    BY <2>1, SeenFrame DEF Serve, slotVars
  <2>3. UNCHANGED [z \in Slots |-> Stage(z)]
    BY DEF Serve, Stage
  <2>4. Api!Serve
    BY <2>2, <2>3 DEF Serve, Api!Serve, Api!db
  <2> QED
    BY <2>2, <2>4 DEF Follows, Api!Next
<1>12. ASSUME UNCHANGED vars PROVE Follows
  <2> USE <1>12
  <2> USE DEF slotVars
  <2>1. \A z \in Slots : pc'[z] \in HoldPc => pc'[z] = pc[z] /\ req'[z] = req[z] /\ pos'[z] = pos[z]
    BY DEF vars, HoldPc
  <2>2. UNCHANGED <<seenDim, seenRows>> /\ SeenInv'
    BY <2>1, SeenFrame DEF vars
  <2>3. UNCHANGED [z \in Slots |-> Stage(z)]
    BY DEF vars, Stage
  <2> QED
    BY <2>2, <2>3, Stutters DEF vars, Follows
<1>13. ASSUME NEW p \in Pairs, ListForReplay(p) PROVE Follows
  <2> USE <1>13
  <2> USE DEF slotVars
  <2>1. \A z \in Slots : pc'[z] \in HoldPc => pc'[z] = pc[z] /\ req'[z] = req[z] /\ pos'[z] = pos[z]
    BY DEF ListForReplay, HoldPc
  <2>2. UNCHANGED <<seenDim, seenRows>> /\ SeenInv'
    BY <2>1, SeenFrame DEF ListForReplay, slotVars
  <2>3. UNCHANGED [z \in Slots |-> Stage(z)]
    BY DEF ListForReplay, Stage
  <2>4. CASE phase' = "up"
    <3>1. Api!Serve
      BY <2>2, <2>3, <2>4 DEF ListForReplay, Api!Serve, Api!db
    <3> QED
      BY <2>2, <3>1 DEF Follows, Api!Next
  <2>5. CASE phase' = phase
    BY <2>2, <2>3, <2>5, Stutters DEF ListForReplay, Follows
  <2> QED
    BY <2>4, <2>5 DEF ListForReplay, AbortReplay
<1> QED
  BY <1>1, <1>2, <1>3, <1>4, <1>5, <1>6, <1>7, <1>8, <1>9, <1>10, <1>11, <1>12, <1>13

\* When the connection is free what is there is seen.
LEMMA AllOut ==
  ASSUME OwnerInv', See, mutex' = NoSlot
  PROVE  SeenInv' /\ seenDim' = indexRow' /\ seenRows' = Visible'
<1>1. seenDim' = indexRow' /\ seenRows' = Visible'
  BY ConstantsAssumption DEF See, OwnerInv, TableInv, TypeInv, TypeOK, ProcessTypes
<1>2. DbTypes'
  BY DEF OwnerInv, TableInv, TypeInv, TypeOK
<1>3. seenRows' \in [Pairs -> [Keys -> Vecs \cup {NoVec}]]
  BY <1>1, <1>2, ConstantsAssumption DEF Visible, DbTypes, EmptyTable
<1>4. seenRows' = View'
  BY <1>1 DEF View, Visible
<1>5. \A s \in Slots : Inside(s)'
  BY ConstantsAssumption DEF OwnerInv, TableInv, TypeInv, Alone, Inside, Creating, HoldPc
<1> QED
  BY <1>1, <1>2, <1>3, <1>4, <1>5 DEF SeenInv, DbTypes

\* While it is not, nothing new is seen.
LEMMA InsideSees ==
  ASSUME ApiInv, See, NEW s \in Slots, mutex = NoSlot \/ mutex = s, mutex' = s
  PROVE  /\ UNCHANGED <<seenDim, seenRows>>
         /\ (/\ \A z \in Slots : z # s => pc'[z] = pc[z]
             /\ Inside(s)'
             /\ pc'[s] = "upsert" \/ (UNCHANGED tableRows /\ pc[s] # "upsert"))
              => SeenInv'
<1>1. UNCHANGED <<seenDim, seenRows>>
  BY ConstantsAssumption DEF See, seen
<1>2. SUFFICES ASSUME \A z \in Slots : z # s => pc'[z] = pc[z],
                      Inside(s)',
                      pc'[s] = "upsert" \/ (UNCHANGED tableRows /\ pc[s] # "upsert")
               PROVE  SeenInv'
  BY <1>1
<1>3. \A z \in Slots : z # s => pc[z] \notin HoldPc
  BY OthersOut DEF ApiInv, OwnerInv, TableInv
<1>4. \A z \in Slots : Inside(z)'
  BY <1>2, <1>3 DEF Inside, Creating, HoldPc
<1>5. (\A z \in Slots : pc'[z] # "upsert") => seenRows' = View'
  BY <1>1, <1>2, <1>3 DEF ApiInv, SeenInv, View, HoldPc
<1> QED
  BY <1>1, <1>4, <1>5, ConstantsAssumption DEF ApiInv, SeenInv

\* Nor is what a put has written so far.
LEMMA PutSees ==
  ASSUME ApiInv, See, NEW s \in Slots, mutex = s /\ mutex' = s,
         pc'[s] = "upsert" /\ \A z \in Slots : z # s => pc'[z] = pc[z],
         Putting(s)'
  PROVE  SeenInv'
<1>1. Inside(s)'
  BY DEF Inside, Creating
<1> QED
  BY <1>1, InsideSees

\* A handler refuses before it has changed anything.
LEMMA RefusalSteps ==
  ASSUME ApiInv, OwnerInv', See, NEW s \in Slots, NEW r \in Api!Refusals,
         pc[s] \notin Landed \cup {"idle", "done"},
         mutex = NoSlot, Finish(s, r),
         UNCHANGED <<indexRow, tableDim, tableRows, mutex, bucketRow, req, pos, phase>>,
         (seenDim = indexRow /\ seenRows = Visible) => Api!Justified(s, r)
  PROVE  Follows
<1> USE DEF ApiInv, OwnerInv, TableInv, TypeInv, TypeOK
<1>1. \A z \in Slots : pc'[z] \in HoldPc => pc'[z] = pc[z] /\ req'[z] = req[z] /\ pos'[z] = pos[z]
  BY DEF SlotTypes, Finish, Goto, HoldPc
<1>2. UNCHANGED <<seenDim, seenRows>> /\ SeenInv'
  BY <1>1, SeenFrame
<1>3. Stage(s) = "asked"
  BY DEF Stage
<1>4. Api!Justified(s, r)
  BY FreeSees
<1>5. Api!Next
  BY <1>2, <1>3, <1>4, Refuses
<1> QED
  BY <1>2, <1>5 DEF Follows

\* The rows of buckets come and go in one statement.
LEMMA BucketSteps ==
  ASSUME ApiInv, OwnerInv', See, NEW s \in Slots, InsertBucketRow(s) \/ DeleteBucketRow(s)
  PROVE  Follows
<1> USE ConstantsAssumption DEF ApiInv, OwnerInv, TableInv, TypeInv, TypeOK, SlotTypes, dbVars, procVars
<1>1. CASE Finish(s, "Conflict") /\ InsertBucketRow(s) /\ Bucket(s) \in bucketRow /\ UNCHANGED bucketRow
  <2>1. Api!Justified(s, "Conflict")
    BY <1>1 DEF Api!Justified, InsertBucketRow, Handling, Api!Bucket, Bucket
  <2> QED
    BY <1>1, <2>1, RefusalSteps DEF InsertBucketRow, Landed, Api!Refusals
<1>2. CASE Finish(s, "NotFound") /\ DeleteBucketRow(s) /\ Bucket(s) \notin bucketRow /\ UNCHANGED bucketRow
  <2>1. Api!Justified(s, "NotFound")
    BY <1>2 DEF Api!Justified, DeleteBucketRow, Handling, Api!Bucket, Bucket, Api!BucketOps
  <2> QED
    BY <1>2, <2>1, RefusalSteps DEF DeleteBucketRow, Landed, Api!Refusals
<1>3. CASE /\ InsertBucketRow(s) /\ Goto(s, "ensure_bucket") /\ UNCHANGED reply
           /\ Bucket(s) \notin bucketRow /\ bucketRow' = bucketRow \cup {Bucket(s)}
  <2>1. \A z \in Slots : pc'[z] \in HoldPc => pc'[z] = pc[z] /\ req'[z] = req[z] /\ pos'[z] = pos[z]
    BY <1>3 DEF InsertBucketRow, Goto, HoldPc
  <2>2. UNCHANGED <<seenDim, seenRows>> /\ SeenInv'
    BY <1>3, <2>1, SeenFrame DEF InsertBucketRow
  <2>3. Api!Become(s, "landed")
    BY <1>3, LandStage DEF Landed
  <2>4. Stage(s) = "asked" /\ req[s].op = "CreateVectorBucket"
    BY <1>3 DEF InsertBucketRow, Stage, Landed, Handling
  <2>5. Api!CreateVectorBucket(s)
    BY <1>3, <2>2 DEF Api!CreateVectorBucket, Api!Bucket, Bucket
  <2>6. Api!Land(s)
    BY <1>3, <2>3, <2>4, <2>5 DEF Api!Land, Api!Effect, InsertBucketRow
  <2> QED
    BY <2>2, <2>6 DEF Follows, Api!Next
<1>4. CASE /\ DeleteBucketRow(s) /\ Goto(s, "delete_s3_bucket") /\ UNCHANGED reply
           /\ Bucket(s) \in bucketRow /\ bucketRow' = bucketRow \ {Bucket(s)}
  <2>1. \A z \in Slots : pc'[z] \in HoldPc => pc'[z] = pc[z] /\ req'[z] = req[z] /\ pos'[z] = pos[z]
    BY <1>4 DEF DeleteBucketRow, Goto, HoldPc
  <2>2. UNCHANGED <<seenDim, seenRows>> /\ SeenInv'
    BY <1>4, <2>1, SeenFrame DEF DeleteBucketRow
  <2>3. Api!Become(s, "landed")
    BY <1>4, LandStage DEF Landed
  <2>4. Stage(s) = "asked" /\ req[s].op = "DeleteVectorBucket"
    BY <1>4 DEF DeleteBucketRow, Stage, Landed, Handling
  <2>5. Api!DeleteVectorBucket(s)
    BY <1>4, <2>2 DEF Api!DeleteVectorBucket, Api!Bucket, Bucket
  <2>6. Api!Land(s)
    BY <1>4, <2>3, <2>4, <2>5 DEF Api!Land, Api!Effect, DeleteBucketRow
  <2> QED
    BY <2>2, <2>6 DEF Follows, Api!Next
<1> QED
  BY <1>1, <1>2, <1>3, <1>4 DEF InsertBucketRow, DeleteBucketRow

\* The calls that make and drop an index are one step to those outside.
LEMMA CreateIndexSteps ==
  ASSUME ApiInv, OwnerInv', See, NEW s \in Slots,
         InsertIndexRow(s) \/ CreateTable(s) \/ CreateHnsw(s) \/ RollbackIndexRow(s)
  PROVE  Follows
<1> USE ConstantsAssumption
    DEF ApiInv, OwnerInv, TableInv, TypeInv, TypeOK, SlotTypes, dbVars, procVars, s3Vars, Unlock
<1>1. ASSUME InsertIndexRow(s) PROVE Follows
  <2> USE <1>1
  <2>1. Pair(s) \in Pairs /\ req[s].op = "CreateIndex" /\ req[s].dim \in Dims
    BY RequestFacts DEF InsertIndexRow, Handling
  <2>2. CASE Bucket(s) \notin bucketRow /\ Finish(s, "NotFound") /\ UNCHANGED <<indexRow, mutex>>
    <3>1. Api!Justified(s, "NotFound")
      BY <2>1, <2>2 DEF Api!Justified, Api!Bucket, Bucket
    <3> QED
      BY <2>2, <3>1, RefusalSteps DEF InsertIndexRow, Landed, Api!Refusals
  <2>3. CASE indexRow[Pair(s)] # NoDim /\ Finish(s, "Conflict") /\ UNCHANGED <<indexRow, mutex>>
    <3>1. seenDim = indexRow => Api!Justified(s, "Conflict")
      BY <2>1, <2>3 DEF Api!Justified, Api!Pair, Pair
    <3> QED
      BY <2>3, <3>1, RefusalSteps DEF InsertIndexRow, Landed, Api!Refusals
  <2>4. CASE /\ indexRow[Pair(s)] = NoDim /\ Bucket(s) \in bucketRow
             /\ indexRow' = [indexRow EXCEPT ![Pair(s)] = req[s].dim]
             /\ mutex' = s /\ Goto(s, "create_table") /\ UNCHANGED reply
    <3>1. UNCHANGED <<seenDim, seenRows>>
      BY <2>4, InsideSees DEF InsertIndexRow
    <3>2. seenDim = indexRow
      BY FreeSees DEF InsertIndexRow
    <3>3. Inside(s)'
      BY <2>4, <3>1, <3>2 DEF InsertIndexRow, Goto, Inside, Creating, Pair, Bucket
    <3>4. SeenInv'
      BY <2>4, <3>3, InsideSees DEF InsertIndexRow, Goto
    <3>5. UNCHANGED [z \in Slots |-> Stage(z)]
      BY <2>4, SameStage DEF InsertIndexRow, Landed
    <3> QED
      BY <3>1, <3>4, <3>5, Stutters DEF InsertIndexRow, Follows
  <2> QED
    BY <2>2, <2>3, <2>4 DEF InsertIndexRow
<1>2. ASSUME CreateTable(s) PROVE Follows
  <2> USE <1>2
  <2>1. UNCHANGED <<seenDim, seenRows>>
    BY InsideSees DEF CreateTable
  <2>2. PICK l \in {"rollback", "create_hnsw"} : Goto(s, l) /\ (l = "create_hnsw" => ~TableExists(s))
    BY DEF CreateTable
  <2>3. Inside(s)
    BY DEF SeenInv
  <2>4. Table(s) \in Tables
    BY RequestFacts DEF CreateTable
  <2>5. ~TableExists(s) => tableRows[Table(s)] = EmptyTable
    BY <2>4, NoTableNoRows DEF TableExists, DbTypes, EmptyTable
  <2>6. Inside(s)'
    BY <2>1, <2>2, <2>3, <2>5 DEF CreateTable, Goto, Inside, Creating, Pair, Bucket, Table
  <2>7. SeenInv'
    BY <2>6, InsideSees DEF CreateTable, Goto
  <2>8. UNCHANGED [z \in Slots |-> Stage(z)]
    BY <2>2, SameStage DEF CreateTable, Landed
  <2> QED
    BY <2>1, <2>7, <2>8, Stutters DEF CreateTable, Follows
<1>3. ASSUME CreateHnsw(s) PROVE Follows
  <2> USE <1>3
  <2>1. Pair(s) \in Pairs /\ req[s].op = "CreateIndex" /\ req[s].dim \in Dims
    BY RequestFacts DEF CreateHnsw, Handling
  <2>2. /\ indexRow = [seenDim EXCEPT ![Pair(s)] = req[s].dim]
        /\ seenDim[Pair(s)] = NoDim
        /\ Bucket(s) \in bucketRow
        /\ tableRows[Table(s)] = EmptyTable
    BY DEF CreateHnsw, SeenInv, Inside, Creating
  <2>3. CASE Goto(s, "rollback") /\ UNCHANGED <<mutex, reply>>
    <3>1. UNCHANGED <<seenDim, seenRows>>
      BY <2>3, InsideSees DEF CreateHnsw
    <3>2. Inside(s)'
      BY <2>2, <2>3, <3>1 DEF CreateHnsw, Goto, Inside, Creating, Pair, Bucket
    <3>3. SeenInv'
      BY <2>3, <3>2, InsideSees DEF CreateHnsw, Goto
    <3>4. UNCHANGED [z \in Slots |-> Stage(z)]
      BY <2>3, SameStage DEF CreateHnsw, Landed
    <3> QED
      BY <3>1, <3>3, <3>4, Stutters DEF CreateHnsw, Follows
  <2>4. CASE mutex' = NoSlot /\ Finish(s, "ok")
    <3>1. SeenInv' /\ seenDim' = indexRow /\ seenRows' = Visible'
      BY <2>4, AllOut DEF CreateHnsw
    <3>2. seenRows = View
      BY OthersOut DEF CreateHnsw, SeenInv, HoldPc
    <3>3. \A p \in Pairs : Visible'[p] = [seenRows EXCEPT ![Pair(s)] = EmptyTable][p]
      BY <2>1, <2>2, <3>2 DEF CreateHnsw, Visible, View, SeenInv, Table, Pair
    <3>4. seenRows' = [seenRows EXCEPT ![Pair(s)] = EmptyTable]
      BY <3>1, <3>3 DEF SeenInv, Visible
    <3>5. Api!CreateIndex(s)
      BY <2>2, <3>1, <3>4
         DEF CreateHnsw, Api!CreateIndex, Api!Changed, Api!NoRows, EmptyTable, Api!Pair, Api!Bucket, Pair, Bucket
    <3>6. Api!Become(s, "ok") /\ Stage(s) = "asked"
      BY <2>4, FinishStage DEF CreateHnsw, Stage, Landed
    <3>7. Api!Land(s)
      BY <2>1, <3>5, <3>6 DEF CreateHnsw, Api!Land, Api!Effect
    <3> QED
      BY <3>1, <3>7 DEF Follows, Api!Next
  <2> QED
    BY <2>3, <2>4 DEF CreateHnsw
<1>4. ASSUME RollbackIndexRow(s) PROVE Follows
  <2> USE <1>4
  <2>1. Pair(s) \in Pairs
    BY RequestFacts DEF RollbackIndexRow
  <2>2. indexRow = [seenDim EXCEPT ![Pair(s)] = req[s].dim] /\ seenDim[Pair(s)] = NoDim
    BY DEF RollbackIndexRow, SeenInv, Inside, Creating
  <2>3. SeenInv' /\ seenDim' = indexRow' /\ seenRows' = Visible'
    BY AllOut DEF RollbackIndexRow
  <2>4. seenDim' = seenDim
    BY <2>1, <2>2, <2>3 DEF RollbackIndexRow, UndoRow, SeenInv
  <2>5. seenRows = View
    BY OthersOut DEF RollbackIndexRow, SeenInv, HoldPc
  <2>6. seenRows' = seenRows
    BY <2>3, <2>4, <2>5 DEF RollbackIndexRow, View, Visible
  <2>7. Stage(s) = "asked" /\ Api!Justified(s, "Internal") /\ Finish(s, "Internal")
    BY DEF RollbackIndexRow, Stage, Landed, Api!Justified
  <2>8. Api!Next
    BY <2>4, <2>6, <2>7, Refuses DEF RollbackIndexRow, Api!Refusals
  <2> QED
    BY <2>3, <2>8 DEF Follows
<1> QED
  BY <1>1, <1>2, <1>3, <1>4

LEMMA DeleteIndexSteps ==
  ASSUME NamesApart, ApiInv, OwnerInv', See, NEW s \in Slots, DeleteIndexRow(s) \/ DropTable(s)
  PROVE  Follows
<1> USE ConstantsAssumption
    DEF ApiInv, OwnerInv, TableInv, TypeInv, TypeOK, SlotTypes, dbVars, procVars, s3Vars, Unlock
<1>1. ASSUME DeleteIndexRow(s) PROVE Follows
  <2> USE <1>1
  <2>1. Pair(s) \in Pairs /\ req[s].op = "DeleteIndex"
    BY RequestFacts DEF DeleteIndexRow, Handling
  <2>2. CASE indexRow[Pair(s)] = NoDim /\ Finish(s, "NotFound") /\ UNCHANGED <<indexRow, mutex>>
    <3>1. seenDim = indexRow => Api!Justified(s, "NotFound")
      BY <2>1, <2>2 DEF Api!Justified, Api!BucketOps, Api!Pair, Pair
    <3> QED
      BY <2>2, <3>1, RefusalSteps DEF DeleteIndexRow, Landed, Api!Refusals
  <2>3. CASE /\ indexRow[Pair(s)] # NoDim
             /\ indexRow' = [indexRow EXCEPT ![Pair(s)] = NoDim]
             /\ mutex' = s /\ Goto(s, "drop_table") /\ UNCHANGED reply
    <3>1. UNCHANGED <<seenDim, seenRows>>
      BY <2>3, InsideSees DEF DeleteIndexRow
    <3>2. seenDim = indexRow
      BY FreeSees DEF DeleteIndexRow
    <3>3. Inside(s)'
      BY <2>3, <3>1, <3>2 DEF DeleteIndexRow, Goto, Inside, Creating, Pair
    <3>4. SeenInv'
      BY <2>3, <3>3, InsideSees DEF DeleteIndexRow, Goto
    <3>5. UNCHANGED [z \in Slots |-> Stage(z)]
      BY <2>3, SameStage DEF DeleteIndexRow, Landed
    <3> QED
      BY <3>1, <3>4, <3>5, Stutters DEF DeleteIndexRow, Follows
  <2> QED
    BY <2>2, <2>3 DEF DeleteIndexRow
<1>2. ASSUME DropTable(s) PROVE Follows
  <2> USE <1>2
  <2>1. Pair(s) \in Pairs /\ Table(s) \in Tables /\ req[s].op = "DeleteIndex"
    BY RequestFacts DEF DropTable, Handling
  <2>2. indexRow = [seenDim EXCEPT ![Pair(s)] = NoDim] /\ seenDim[Pair(s)] # NoDim
    BY DEF DropTable, SeenInv, Inside
  <2>3. SeenInv' /\ seenDim' = indexRow /\ seenRows' = Visible'
    BY AllOut DEF DropTable
  <2>4. seenRows = View
    BY OthersOut DEF DropTable, SeenInv, HoldPc
  <2>5. ASSUME NEW p \in Pairs, p # Pair(s) PROVE tableRows'[TableOf[p]] = tableRows[TableOf[p]]
    BY <2>1, <2>5 DEF DropTable, Drop, NamesApart, Table, Pair, DbTypes
  <2>6. \A p \in Pairs : Visible'[p] = [seenRows EXCEPT ![Pair(s)] = EmptyTable][p]
    BY <2>1, <2>2, <2>4, <2>5 DEF DropTable, Visible, View, SeenInv
  <2>7. seenRows' = [seenRows EXCEPT ![Pair(s)] = EmptyTable]
    BY <2>3, <2>6 DEF SeenInv, Visible
  <2>8. Api!DeleteIndex(s)
    BY <2>2, <2>3, <2>7
       DEF DropTable, Api!DeleteIndex, Api!Changed, Api!NoRows, EmptyTable, Api!Pair, Pair
  <2>9. Api!Become(s, "landed") /\ Stage(s) = "asked"
    BY LandStage DEF DropTable, Stage, Landed
  <2>10. Api!Land(s)
    BY <2>1, <2>8, <2>9 DEF DropTable, Api!Land, Api!Effect
  <2> QED
    BY <2>3, <2>10 DEF Follows, Api!Next
<1> QED
  BY <1>1, <1>2

\* One more write of a batch.
LEMMA AfterNext ==
  ASSUME NEW b \in Seq(Write), NEW j \in Nat, j + 1 \in 1 .. Len(b),
         NEW r, NEW r2 \in [Keys -> Vecs \cup {NoVec}], Api!After(b, j, r, r2)
  PROVE  Api!After(b, j + 1, r, [r2 EXCEPT ![b[j + 1].key] = b[j + 1].vec])
<1> DEFINE r3 == [r2 EXCEPT ![b[j + 1].key] = b[j + 1].vec]
<1>1. b[j + 1].key \in Keys
  <2>1. b[j + 1] \in Write
    OBVIOUS
  <2> QED
    BY <2>1 DEF Write
<1>2. ASSUME NEW k \in Keys
      PROVE  \/ /\ \A n \in 1..(j + 1) : b[n].key # k
                /\ r3[k] = r[k]
             \/ \E n \in 1..(j + 1) : /\ b[n].key = k
                                      /\ \A m \in (n + 1)..(j + 1) : b[m].key # k
                                      /\ r3[k] = b[n].vec
  <2>1. CASE b[j + 1].key = k
    <3>1. j + 1 \in 1..(j + 1) /\ (j + 1 + 1)..(j + 1) = {}
      OBVIOUS
    <3>2. r3[k] = b[j + 1].vec
      BY <1>1, <2>1
    <3> QED
      BY <2>1, <3>1, <3>2
  <2>2. CASE b[j + 1].key # k
    <3>1. r3[k] = r2[k]
      BY <1>1, <2>2
    <3>2. CASE (\A n \in 1..j : b[n].key # k) /\ r2[k] = r[k]
      <4>1. \A n \in 1..(j + 1) : n \in 1..j \/ n = j + 1
        OBVIOUS
      <4> QED
        BY <2>2, <3>1, <3>2, <4>1
    <3>3. ASSUME NEW n \in 1..j, b[n].key = k, \A m \in (n + 1)..j : b[m].key # k, r2[k] = b[n].vec
          PROVE  \E i \in 1..(j + 1) : /\ b[i].key = k
                                       /\ \A m \in (i + 1)..(j + 1) : b[m].key # k
                                       /\ r3[k] = b[i].vec
      <4>1. n \in 1..(j + 1) /\ \A m \in (n + 1)..(j + 1) : m \in (n + 1)..j \/ m = j + 1
        OBVIOUS
      <4> QED
        BY <2>2, <3>1, <3>3, <4>1
    <3> QED
      BY <3>2, <3>3 DEF Api!After
  <2> QED
    BY <2>1, <2>2
<1> QED
  BY <1>2 DEF Api!After

\* Writing to one table leaves what the other indexes hold.
LEMMA OtherTables ==
  ASSUME NamesApart, DbTypes, NEW q \in Pairs, NEW r,
         tableRows' = [tableRows EXCEPT ![TableOf[q]] = r]
  PROVE  /\ tableRows'[TableOf[q]] = r
         /\ \A p \in Pairs : p # q => tableRows'[TableOf[p]] = tableRows[TableOf[p]]
BY ConstantsAssumption DEF NamesApart, DbTypes

LEMMA PutSteps ==
  ASSUME NamesApart, ApiInv, OwnerInv', See, NEW s \in Slots, LookupIndex(s) \/ UpsertRow(s)
  PROVE  Follows
<1> USE ConstantsAssumption
    DEF ApiInv, OwnerInv, TableInv, TypeInv, TypeOK, SlotTypes, dbVars, procVars, s3Vars, Unlock
<1>1. ASSUME LookupIndex(s) PROVE Follows
  <2> USE <1>1
  <2>1. Pair(s) \in Pairs /\ req[s].op = "PutVectors"
    BY RequestFacts DEF LookupIndex, Handling
  <2>2. CASE indexRow[Pair(s)] = NoDim /\ Finish(s, "NotFound") /\ UNCHANGED mutex
    <3>1. seenDim = indexRow => Api!Justified(s, "NotFound")
      BY <2>1, <2>2 DEF Api!Justified, Api!BucketOps, Api!Pair, Pair
    <3> QED
      BY <2>2, <3>1, RefusalSteps DEF LookupIndex, Landed, Api!Refusals
  <2>3. CASE /\ indexRow[Pair(s)] # NoDim /\ ~Fits(s, indexRow[Pair(s)])
             /\ Finish(s, "Validation") /\ UNCHANGED mutex
    <3>1. seenDim = indexRow => Api!Justified(s, "Validation")
      BY <2>1, <2>3 DEF Api!Justified, Api!AllFit, Fits, Api!Pair, Pair
    <3> QED
      BY <2>3, <3>1, RefusalSteps DEF LookupIndex, Landed, Api!Refusals
  <2>4. CASE /\ mutex' = s /\ Goto(s, "upsert") /\ UNCHANGED reply
             /\ indexRow[Pair(s)] # NoDim
    <3>1. UNCHANGED <<seenDim, seenRows>>
      BY <2>4, InsideSees DEF LookupIndex
    <3>2. seenDim = indexRow /\ seenRows = Visible
      BY FreeSees DEF LookupIndex
    <3>3. seenRows[Pair(s)] = tableRows[Table(s)] /\ pos[s] = 1
      BY <2>1, <2>4, <3>2 DEF LookupIndex, Handling, Visible, Table, Pair
    <3>4. Api!After(req[s].batch, pos[s] - 1, seenRows[Pair(s)], tableRows[Table(s)])
      BY <3>3 DEF Api!After
    <3>5. \A p \in Pairs : seenRows[p] = View[p]
      BY <3>2 DEF View, Visible
    <3>6. pc'[s] = "upsert" /\ \A z \in Slots : z # s => pc'[z] = pc[z]
      BY <2>4 DEF Goto
    <3>7. Putting(s)'
      <4>1. View' = View /\ req' = req /\ pos' = pos /\ indexRow' = indexRow /\ tableRows' = tableRows
        BY <3>1 DEF LookupIndex, View
      <4> QED
        BY <3>1, <3>2, <3>3, <3>4, <3>5, <4>1 DEF Putting, Pair, Table, Api!After
    <3>8. SeenInv'
      BY <2>4, <3>6, <3>7, InsideSees DEF LookupIndex, Inside, Creating
    <3>9. UNCHANGED [z \in Slots |-> Stage(z)]
      BY <2>4, SameStage DEF LookupIndex, Landed
    <3> QED
      BY <3>1, <3>8, <3>9, Stutters DEF LookupIndex, Follows
  <2> QED
    BY <2>2, <2>3, <2>4 DEF LookupIndex
<1>2. ASSUME UpsertRow(s) PROVE Follows
  <2> USE <1>2
  <2> DEFINE b == req[s].batch
             j == pos[s] - 1
  <2>1. /\ Pair(s) \in Pairs /\ Table(s) \in Tables /\ b \in Seq(Write)
        /\ Item(s).key \in Keys /\ Item(s).vec \in Vecs
    BY RequestFacts, ItemFacts DEF UpsertRow
  <2>2. j \in Nat /\ j + 1 = pos[s] /\ j + 1 \in 1 .. Len(b) /\ req[s].op = "PutVectors"
    BY <2>1 DEF UpsertRow, Working, Handling
  <2>3. Putting(s)
    BY DEF UpsertRow, SeenInv, Inside
  <2>4. indexRow[Pair(s)] # NoDim /\ Fits(s, indexRow[Pair(s)])
    BY DEF UpsertRow, MidCall
  <2>5. tableRows[Table(s)] \in [Keys -> Vecs \cup {NoVec}] /\ seenRows[Pair(s)] \in [Keys -> Vecs \cup {NoVec}]
    BY <2>1 DEF DbTypes, SeenInv
  <2>6. CASE /\ tableDim[Table(s)] = indexRow[Pair(s)]
             /\ Writable(Table(s))
             /\ tableRows' = Upserted(Table(s), Item(s).key, Item(s).vec)
    <3> DEFINE r == [tableRows[Table(s)] EXCEPT ![Item(s).key] = Item(s).vec]
    <3>1. tableRows' = [tableRows EXCEPT ![Table(s)] = r]
      BY <2>6, <2>1 DEF Upserted, DbTypes
    <3>2. /\ tableRows'[Table(s)] = r
          /\ \A p \in Pairs : p # Pair(s) => tableRows'[TableOf[p]] = tableRows[TableOf[p]]
      BY <2>1, <3>1, OtherTables DEF Table, Pair
    <3>3. Api!After(b, j + 1, seenRows[Pair(s)], r)
      BY <2>1, <2>2, <2>3, <2>5, AfterNext DEF Putting, Item
    <3>4. CASE AtLastItem(s) /\ Finish(s, "ok") /\ mutex' = NoSlot
      <4>1. SeenInv' /\ seenDim' = seenDim /\ seenRows' = Visible'
        BY <2>3, <3>4, AllOut DEF UpsertRow, Putting
      <4>2. \A p \in Pairs : Visible'[p] = [seenRows EXCEPT ![Pair(s)] = r][p]
        BY <2>1, <2>3, <2>4, <3>2 DEF UpsertRow, Putting, View, Visible, SeenInv, Table, Pair
      <4>3. seenRows' = [seenRows EXCEPT ![Pair(s)] = r]
        BY <4>1, <4>2 DEF SeenInv, Visible
      <4>4. r \in Api!RowSets /\ j + 1 = Len(b)
        BY <2>1, <2>2, <2>5, <3>4 DEF Api!RowSets, AtLastItem
      <4>5. seenDim[Pair(s)] # NoDim /\ Api!AllFit(s)
        BY <2>3, <2>4 DEF Putting, Api!AllFit, Fits, Api!Pair, Pair
      <4>6. Api!PutVectors(s)
        BY <3>3, <4>1, <4>3, <4>4, <4>5 DEF UpsertRow, Api!PutVectors, Api!Changed, Api!Pair, Pair
      <4>7. Api!Become(s, "ok") /\ Stage(s) = "asked"
        BY <3>4, FinishStage DEF UpsertRow, Stage, Landed
      <4>8. Api!Land(s)
        BY <2>2, <4>6, <4>7 DEF UpsertRow, Api!Land, Api!Effect
      <4> QED
        BY <4>1, <4>8 DEF Follows, Api!Next
    <3>5. CASE pos' = [pos EXCEPT ![s] = @ + 1] /\ UNCHANGED <<pc, reply, mutex>>
      <4>1. UNCHANGED <<seenDim, seenRows>>
        BY <3>5, InsideSees DEF UpsertRow
      <4>2. pos'[s] - 1 = j + 1 /\ pos'[s] # 1
        BY <2>2, <3>5
      <4>3. \A p \in Pairs : p # Pair(s) => View'[p] = View[p]
        BY <3>2, <4>1 DEF View
      <4>4. Api!After(req'[s].batch, pos'[s] - 1, seenRows'[Pair(s)'], tableRows'[Table(s)'])
        BY <3>2, <3>3, <4>1, <4>2 DEF UpsertRow, Pair, Table
      <4>5. Putting(s)'
        BY <2>3, <2>6, <4>1, <4>3, <4>4 DEF UpsertRow, Putting, Writable, Pair, Table
      <4>6. SeenInv'
        <5>1. mutex = s /\ mutex' = s
          BY ONLY <1>2, <3>5 DEF UpsertRow
        <5>2. pc'[s] = "upsert" /\ \A z \in Slots : z # s => pc'[z] = pc[z]
          BY <3>5 DEF UpsertRow
        <5> QED
          BY <4>5, <5>1, <5>2, PutSees
      <4>7. UNCHANGED [z \in Slots |-> Stage(z)]
        BY ONLY <3>5 DEF Stage
      <4> QED
        BY <4>1, <4>6, <4>7, Stutters DEF UpsertRow, Follows
    <3> QED
      BY <2>6, <3>4, <3>5 DEF UpsertRow
  <2>7. CASE /\ tableDim[Table(s)] # indexRow[Pair(s)] \/ ~Writable(Table(s))
             /\ mutex' = NoSlot /\ Finish(s, "Internal") /\ UNCHANGED tableRows
    <3>1. SeenInv' /\ seenDim' = seenDim /\ seenRows' = Visible'
      BY <2>3, <2>7, AllOut DEF UpsertRow, Putting
    <3>2. Api!After(b, 0, seenRows[Pair(s)], tableRows[Table(s)])
      BY <2>2, <2>3, <2>7 DEF Putting
    <3>3. \A k \in Keys : tableRows[Table(s)][k] = seenRows[Pair(s)][k]
      BY <3>2 DEF Api!After
    <3>4. tableRows[Table(s)] = seenRows[Pair(s)]
      BY <2>5, <3>3
    <3>5. \A p \in Pairs : Visible'[p] = seenRows[p]
      BY <2>1, <2>3, <2>4, <2>7, <3>4 DEF UpsertRow, Putting, View, Visible, Table, Pair
    <3>6. seenRows' = seenRows
      BY <3>1, <3>5 DEF SeenInv, Visible
    <3>7. Stage(s) = "asked" /\ Api!Justified(s, "Internal")
      BY DEF UpsertRow, Stage, Landed, Api!Justified
    <3>8. Api!Next
      BY <2>7, <3>1, <3>6, <3>7, Refuses DEF UpsertRow, Api!Refusals
    <3> QED
      BY <3>1, <3>8 DEF Follows
  <2> QED
    BY <2>6, <2>7 DEF UpsertRow
<1> QED
  BY <1>1, <1>2

LEMMA DeleteRowsSteps ==
  ASSUME NamesApart, ApiInv, OwnerInv', See, NEW s \in Slots, DeleteRows(s)
  PROVE  Follows
<1> USE ConstantsAssumption
    DEF ApiInv, OwnerInv, TableInv, TypeInv, TypeOK, SlotTypes, dbVars, procVars, s3Vars
<1>1. Pair(s) \in Pairs /\ Table(s) \in Tables /\ req[s].op = "DeleteVectors"
  BY RequestFacts DEF DeleteRows, Handling
<1>2. CASE indexRow[Pair(s)] = NoDim /\ Finish(s, "NotFound") /\ UNCHANGED tableRows
  <2>1. seenDim = indexRow => Api!Justified(s, "NotFound")
    BY <1>1, <1>2 DEF Api!Justified, Api!BucketOps, Api!Pair, Pair
  <2> QED
    BY <1>2, <2>1, RefusalSteps DEF DeleteRows, Landed, Api!Refusals
<1>3. CASE Finish(s, "Internal") /\ UNCHANGED tableRows
  <2>1. Api!Justified(s, "Internal")
    BY DEF Api!Justified
  <2> QED
    BY <1>3, <2>1, RefusalSteps DEF DeleteRows, Landed, Api!Refusals
<1>4. CASE /\ indexRow[Pair(s)] # NoDim /\ Goto(s, "drop_snapshots") /\ UNCHANGED reply
           /\ tableRows' = [tableRows EXCEPT ![Table(s)] =
                              [k \in Keys |-> IF k \in req[s].drop THEN NoVec ELSE @[k]]]
  <2> DEFINE r == [k \in Keys |-> IF k \in req[s].drop THEN NoVec ELSE tableRows[Table(s)][k]]
  <2>1. tableRows' = [tableRows EXCEPT ![Table(s)] = r]
    BY <1>4
  <2>2. /\ tableRows'[Table(s)] = r
        /\ \A p \in Pairs : p # Pair(s) => tableRows'[TableOf[p]] = tableRows[TableOf[p]]
    BY <1>1, <2>1, OtherTables DEF Table, Pair
  <2>3. seenDim = indexRow /\ seenRows = Visible
    BY FreeSees DEF DeleteRows
  <2>4. SeenInv' /\ seenDim' = seenDim /\ seenRows' = Visible'
    BY <2>3, AllOut DEF DeleteRows
  <2>5. \A p \in Pairs : Visible'[p] = [seenRows EXCEPT ![Pair(s)] = r][p]
    BY <1>1, <1>4, <2>2, <2>3 DEF DeleteRows, Visible, SeenInv, Table, Pair
  <2>6. seenRows' = [seenRows EXCEPT ![Pair(s)] = r]
    BY <2>4, <2>5 DEF SeenInv, Visible
  <2>7. seenRows[Pair(s)] = tableRows[Table(s)]
    BY <1>1, <1>4, <2>3 DEF Visible, Table, Pair
  <2>8. Api!DeleteVectors(s)
    BY <1>4, <2>3, <2>4, <2>6, <2>7 DEF DeleteRows, Api!DeleteVectors, Api!Changed, Api!Pair, Pair
  <2>9. Api!Become(s, "landed") /\ Stage(s) = "asked"
    BY <1>4, LandStage DEF DeleteRows, Stage, Landed
  <2>10. Api!Land(s)
    BY <1>1, <2>8, <2>9 DEF DeleteRows, Api!Land, Api!Effect
  <2> QED
    BY <2>4, <2>10 DEF Follows, Api!Next
<1> QED
  BY <1>2, <1>3, <1>4 DEF DeleteRows

-----------------------------------------------------------------------------
(* Boot and crash.                                                         *)

\* While no handler runs the connection is free.
LEMMA AsleepIsFree ==
  ASSUME TypeInv, phase # "up"
  PROVE  mutex = NoSlot /\ \A s \in Slots : pc[s] = "idle"
BY DEF TypeInv, TypeOK, ProcessTypes, Alone, Asleep, HoldPc

\* A snapshot that is put back is a vector that comes back, one that is skipped
\* is not seen.
LEMMA ReplaySteps ==
  ASSUME NamesApart, ApiInv, OwnerInv', See, NEW p \in Pairs, NEW k \in Keys, ReplaySnapshot(p, k)
  PROVE  Follows
<1> USE ConstantsAssumption
    DEF ApiInv, OwnerInv, TableInv, TypeInv, TypeOK, dbVars, s3Vars, slotVars
<1>1. mutex = NoSlot /\ phase = "boot" /\ UNCHANGED <<bucketRow, indexRow, req, phase, mutex, pc, reply, pos>>
  BY AsleepIsFree DEF ReplaySnapshot
<1>2. SeenInv' /\ seenDim' = seenDim /\ seenRows' = Visible' /\ seenRows = Visible /\ seenDim = indexRow
  BY <1>1, AllOut, FreeSees
<1>3. UNCHANGED [z \in Slots |-> Stage(z)]
  BY ONLY <1>1 DEF Stage
<1>4. CASE /\ DimOf[object[p][k]] = indexRow[p]
           /\ tableRows' = Upserted(TableOf[p], k, object[p][k])
  <2> DEFINE r == [tableRows[TableOf[p]] EXCEPT ![k] = object[p][k]]
  <2>1. object[p][k] \in Vecs /\ TableOf[p] \in Tables
    BY DEF ReplaySnapshot, Asleep, S3Types
  <2>2. indexRow[p] # NoDim
    BY <1>4, <2>1
  <2>3. tableRows' = [tableRows EXCEPT ![TableOf[p]] = r]
    BY <1>4, <2>1 DEF Upserted, DbTypes
  <2>4. /\ tableRows'[TableOf[p]] = r
        /\ \A q \in Pairs : q # p => tableRows'[TableOf[q]] = tableRows[TableOf[q]]
    BY <2>3, OtherTables
  <2>5. seenRows[p] = tableRows[TableOf[p]]
    BY <1>2, <2>2 DEF Visible
  <2>6. \A q \in Pairs : Visible'[q] = [seenRows EXCEPT ![p] = r][q]
    BY <1>1, <1>2, <2>2, <2>4 DEF Visible, SeenInv
  <2>7. seenRows' = [seenRows EXCEPT ![p][k] = object[p][k]]
    BY <1>2, <2>5, <2>6 DEF SeenInv, Visible
  <2>8. Api!Restore(p, k)
    BY <1>1, <1>2, <1>3, <1>4, <2>1, <2>2, <2>7 DEF Api!Restore
  <2>9. p \in Api!Pairs
    BY DEF Api!Pairs, Pairs
  <2> QED
    BY <1>2, <2>8, <2>9 DEF Follows, Api!Next
<1>5. CASE UNCHANGED tableRows
  <2>1. Visible' = Visible
    BY <1>1, <1>5 DEF Visible
  <2> QED
    BY <1>1, <1>2, <1>3, <2>1, Stutters DEF Follows
<1> QED
  BY <1>4, <1>5 DEF ReplaySnapshot

\* What is left of the request whose store call the process died in.
LEMMA CutShortSteps ==
  ASSUME NamesApart, ApiInv, NEW s \in Slots, pc[s] \in HoldPc,
         UNCHANGED dbVars, seenDim' = indexRow, seenRows' = Visible,
         seenRows' \in [Pairs -> [Keys -> Vecs \cup {NoVec}]]
  PROVE  Api!CutShort(s)
<1> USE ConstantsAssumption
    DEF ApiInv, OwnerInv, TableInv, TypeInv, TypeOK, dbVars
<1>1. Pair(s) \in Pairs /\ Table(s) \in Tables /\ req[s].batch \in Seq(Write)
  BY RequestFacts DEF HoldPc
<1>2. Stage(s) = "asked" /\ Inside(s)
  BY DEF HoldPc, Stage, Landed, SeenInv
<1>3. \A z \in Slots : pc[z] = "upsert" => z = s
  BY DEF Alone, HoldPc
<1>4. seenRows'[Pair(s)] \in Api!RowSets
  BY <1>1 DEF Api!RowSets
<1>5. CASE pc[s] \in Creating
  <2>1. req[s].op = "CreateIndex" /\ seenRows = View
    BY <1>3, <1>5 DEF Handling, Creating, SeenInv
  <2>2. /\ indexRow = [seenDim EXCEPT ![Pair(s)] = req[s].dim]
        /\ seenDim[Pair(s)] = NoDim
    BY <1>2, <1>5 DEF Inside
  <2>3. \A p \in Pairs : seenRows'[p] = [seenRows EXCEPT ![Pair(s)] = seenRows'[Pair(s)]][p]
    BY <1>1, <2>1, <2>2 DEF View, Visible, SeenInv
  <2>4. seenRows' = [seenRows EXCEPT ![Pair(s)] = seenRows'[Pair(s)]]
    BY <2>3 DEF SeenInv
  <2> QED
    BY <1>2, <1>4, <2>1, <2>2, <2>4 DEF Api!CutShort, Api!Changed, Api!Pair, Pair
<1>6. CASE pc[s] = "drop_table"
  <2>1. req[s].op = "DeleteIndex" /\ seenRows = View
    BY <1>3, <1>6 DEF Handling, SeenInv
  <2>2. /\ indexRow = [seenDim EXCEPT ![Pair(s)] = NoDim]
        /\ seenDim[Pair(s)] # NoDim
    BY <1>2, <1>6 DEF Inside
  <2>3. \A p \in Pairs : seenRows'[p] = [seenRows EXCEPT ![Pair(s)] = EmptyTable][p]
    BY <1>1, <2>1, <2>2 DEF View, Visible, SeenInv
  <2>4. seenRows' = [seenRows EXCEPT ![Pair(s)] = Api!NoRows]
    BY <2>3 DEF SeenInv, Api!NoRows, EmptyTable
  <2> QED
    BY <1>2, <2>1, <2>2, <2>4 DEF Api!CutShort, Api!DeleteIndex, Api!Changed, Api!Pair, Pair
<1>7. CASE pc[s] = "upsert"
  <2>1. req[s].op = "PutVectors" /\ Putting(s)
    BY <1>2, <1>7 DEF Handling, Inside
  <2>2. seenDim = indexRow /\ indexRow[Pair(s)] # NoDim /\ Fits(s, indexRow[Pair(s)])
    BY <1>7, <2>1 DEF Putting, MidCall
  <2>3. \A p \in Pairs : seenRows'[p] = [seenRows EXCEPT ![Pair(s)] = seenRows'[Pair(s)]][p]
    BY <1>1, <2>1, <2>2 DEF View, Visible, SeenInv, Putting
  <2>4. seenRows' = [seenRows EXCEPT ![Pair(s)] = seenRows'[Pair(s)]]
    BY <2>3 DEF SeenInv
  <2>5. seenRows'[Pair(s)] = tableRows[Table(s)]
    BY <1>1, <2>2 DEF Visible, Table, Pair
  <2>6. Api!After(req[s].batch, pos[s] - 1, seenRows[Pair(s)], seenRows'[Pair(s)])
    BY <2>1, <2>5 DEF Putting
  <2>7. pos[s] - 1 \in 0..Len(req[s].batch)
    BY <1>1, <1>7 DEF Working
  <2>8. seenDim[Pair(s)] # NoDim /\ Api!AllFit(s)
    BY <2>2 DEF Api!AllFit, Fits, Api!Pair, Pair
  <2>9. UNCHANGED <<bucketRow, seenDim>>
    BY <2>2
  <2> QED
    BY <1>2, <1>4, <2>1, <2>4, <2>6, <2>7, <2>8, <2>9 DEF Api!CutShort, Api!Changed, Api!Pair, Pair
<1> QED
  BY <1>5, <1>6, <1>7 DEF HoldPc, Creating

\* A process exit.
LEMMA CrashSteps ==
  ASSUME NamesApart, ApiInv, OwnerInv', See, Crash
  PROVE  Follows
<1> USE ConstantsAssumption
    DEF ApiInv, OwnerInv, TableInv, TypeInv, TypeOK
<1>1. SeenInv' /\ seenDim' = indexRow' /\ seenRows' = Visible'
  BY AllOut DEF Crash
<1>2. /\ req' = [s \in Slots |-> NoRequest]
      /\ [s \in Slots |-> Stage(s)]' = [s \in Slots |-> "free"]
      /\ (phase = "up")' = FALSE
  <2>1. \A s \in Slots : Stage(s)' = "free"
    <3>1. \A s \in Slots : pc'[s] = "idle"
      BY DEF Crash
    <3> QED
      BY ONLY <3>1 DEF Stage, Landed
  <2>2. phase' # "up"
    BY DEF Crash
  <2> QED
    BY <2>1, <2>2 DEF Crash
<1>3. CASE UNCHANGED dbVars
  <2>1. seenDim' = indexRow /\ seenRows' = Visible
    BY <1>1, <1>3 DEF dbVars, Visible
  <2>2. ASSUME mutex = NoSlot PROVE Api!Die
    <3>1. UNCHANGED Api!db
      BY <1>3, <2>1, <2>2, FreeSees DEF Api!db, dbVars
    <3> QED
      BY <1>2, <3>1 DEF Api!Die
  <2>3. ASSUME mutex \in Slots PROVE Api!Die
    <3>1. PICK s \in Slots : pc[s] \in HoldPc
      BY <2>3 DEF Alone
    <3>2. seenRows' \in [Pairs -> [Keys -> Vecs \cup {NoVec}]]
      BY <1>1 DEF SeenInv
    <3>3. Api!CutShort(s)
      BY <1>3, <2>1, <3>1, <3>2, CutShortSteps
    <3> QED
      BY <1>2, <3>3 DEF Api!Die
  <2>4. Api!Die
    BY <2>2, <2>3 DEF ProcessTypes
  <2> QED
    BY <1>1, <2>4 DEF Follows, Api!Next
<1>4. CASE /\ bucketRow' = {}
           /\ indexRow' = [p \in Pairs |-> NoDim]
           /\ tableRows' = [t \in Tables |-> EmptyTable]
  <2>1. seenDim' = [p \in Api!Pairs |-> NoDim]
    BY <1>1, <1>4 DEF Api!Pairs, Pairs
  <2>2. seenRows' = [p \in Api!Pairs |-> Api!NoRows]
    BY <1>1, <1>4 DEF Visible, Api!Pairs, Pairs, Api!NoRows, EmptyTable
  <2>3. Api!Die
    BY <1>2, <1>4, <2>1, <2>2 DEF Api!Die
  <2> QED
    BY <1>1, <2>3 DEF Follows, Api!Next
<1> QED
  BY <1>3, <1>4 DEF Crash

-----------------------------------------------------------------------------
(* The refinement.                                                         *)

\* A fresh installation is an empty store that does not serve yet.
LEMMA ApiInitial == ApiInit => ApiInv /\ Api!Init
<1> SUFFICES ASSUME ApiInit PROVE ApiInv /\ Api!Init
  OBVIOUS
<1> USE ConstantsAssumption DEF ApiInit
<1>1. OwnerInv
  BY TypeInit, TableInit DEF OwnerInv, TableInv
<1>2. Handling
  BY DEF Handling, Init
<1>3. seenDim = [p \in Pairs |-> NoDim] /\ seenRows = [p \in Pairs |-> EmptyTable]
  BY DEF Init, Visible
<1>4. SeenInv
  <2>1. seenRows = View
    BY <1>3 DEF View
  <2>2. seenRows \in [Pairs -> [Keys -> Vecs \cup {NoVec}]]
    BY <1>3 DEF EmptyTable
  <2>3. \A s \in Slots : Inside(s)
    BY DEF Init, Inside, Creating
  <2> QED
    BY <1>3, <2>1, <2>2, <2>3 DEF SeenInv
<1>5. Api!Init
  <2>1. \A s \in Slots : Stage(s) = "free"
    <3>1. \A s \in Slots : pc[s] = "idle"
      BY DEF Init
    <3> QED
      BY ONLY <3>1 DEF Stage, Landed
  <2> QED
    BY <1>3, <2>1 DEF Init, Api!Init, Api!Pairs, Pairs, Api!NoRows, EmptyTable
<1> QED
  BY <1>1, <1>2, <1>4, <1>5 DEF ApiInv

\* Every step keeps the invariant and is one of the interface's, or none.
LEMMA ApiStep == NamesApart /\ ApiInv /\ [ApiNext]_apiVars => ApiInv' /\ [Api!Next]_(Api!vars)
<1> SUFFICES ASSUME NamesApart, ApiInv, [ApiNext]_apiVars
             PROVE  ApiInv' /\ [Api!Next]_(Api!vars)
  OBVIOUS
<1>1. [Next]_vars
  BY DEF ApiNext, apiVars
<1>2. OwnerInv'
  BY <1>1, TypeStep, TableStep, OwnerStep DEF ApiInv, OwnerInv, TableInv
<1>3. Handling'
  BY <1>1, HandlingStep DEF ApiInv, OwnerInv, TableInv
<1>4. CASE ApiNext
  <2>1. See /\ Next
    BY <1>4 DEF ApiNext
  <2>2. ASSUME NEW s \in Slots, Receive(s) \/ Step(s) \/ Disconnect(s) PROVE Follows
    BY <1>2, <2>1, <2>2, QuietSteps, BucketSteps, CreateIndexSteps, DeleteIndexSteps, PutSteps, DeleteRowsSteps
       DEF Step
  <2>3. ASSUME Boot PROVE Follows
    BY <1>2, <2>1, <2>3, QuietSteps, ReplaySteps DEF Boot
  <2>4. ASSUME Crash PROVE Follows
    BY <1>2, <2>1, <2>4, CrashSteps
  <2>5. ASSUME Quiet PROVE Follows
    BY <1>2, <2>1, <2>5, QuietSteps DEF Quiet
  <2> QED
    BY <1>2, <1>3, <2>1, <2>2, <2>3, <2>4, <2>5 DEF Next, Follows, ApiInv
<1>5. CASE UNCHANGED apiVars
  <2> USE <1>5 DEF apiVars, vars, seen, dbVars, slotVars, procVars
  <2>1. View' = View
    BY DEF View
  <2>2. \A s \in Slots : Inside(s)' <=> Inside(s)
    BY <2>1 DEF Inside, Putting, Writable, Creating, Api!After, Pair, Table, Bucket
  <2>3. SeenInv'
    BY <2>1, <2>2 DEF ApiInv, SeenInv
  <2>4. UNCHANGED [z \in Slots |-> Stage(z)]
    BY DEF Stage
  <2> QED
    BY <1>2, <1>3, <2>3, <2>4, Stutters DEF ApiInv
<1> QED
  BY <1>4, <1>5

\* The vector service implements the atomic store of VectorApi: each request
\* takes effect at once or not at all, each answer was true at some moment, an
\* error of an index or vector operation left everything as it was, and a
\* process exit cuts short at most one request; for every instance in which no
\* two indexes share a table identifier.
THEOREM ServiceImplementsApi == NamesApart => (ApiSpec => Implements)
<1> SUFFICES ASSUME NamesApart PROVE ApiSpec => Implements
  OBVIOUS
<1>1. ApiInit => ApiInv /\ Api!Init
  BY ApiInitial
<1>2. ApiInv /\ [ApiNext]_apiVars => ApiInv' /\ [Api!Next]_(Api!vars)
  BY ApiStep
<1> QED
  BY <1>1, <1>2, PTL DEF ApiSpec, Implements, Api!Spec
=============================================================================
