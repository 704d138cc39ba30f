----------------------- MODULE VectorService_proofs -----------------------
(***************************************************************************)
(* VectorService keeps its types, its stored vectors fit their tables and, *)
(* when no two indexes share a table identifier, every finished index owns *)
(* a backing table: for every set of names, slots and requests and every   *)
(* bound on requests, faults and crashes.                                  *)
(***************************************************************************)
EXTENDS VectorService, TLAPS

\* One slot at most is inside a store call, the one that has the mutex.
Alone == \A s \in Slots : pc[s] \in HoldPc <=> mutex = s

\* No handler runs while the process is down or boots, and only a boot has
\* snapshots left to replay, each of them in the object store.
Asleep ==
  /\ phase # "up" => \A s \in Slots : pc[s] = "idle"
  /\ phase # "boot" => replay = {}
  /\ \A p \in Pairs, k \in Keys : <<p, k>> \in replay => object[p][k] # NoVec

\* A busy slot has a request, and a put handler is inside its batch.
Working ==
  \A s \in Slots :
    /\ pc[s] # "idle" => req[s] \in Requests
    /\ pc[s] = "idle" => pos[s] = 1
    /\ pc[s] \in {"snapshot", "lookup", "upsert"} => pos[s] \in 1..Len(req[s].batch)

TypeInv == TypeOK /\ Alone /\ Asleep /\ Working

\* What holds in the middle of a store call of several statements.
MidCall ==
  \A s \in Slots :
    /\ pc[s] \in {"create_table", "create_hnsw", "rollback"} => indexRow[Pair(s)] = req[s].dim
    /\ pc[s] = "create_hnsw" => tableDim[Table(s)] = req[s].dim
    /\ pc[s] = "drop_table" => indexRow[Pair(s)] = NoDim
    /\ pc[s] = "upsert" => /\ indexRow[Pair(s)] # NoDim
                           /\ Fits(s, indexRow[Pair(s)])

\* Distinct pairs have distinct table identifiers.
NamesApart == \A p, q \in Pairs : TableOf[p] = TableOf[q] => p = q

TableInv == TypeInv /\ MidCall /\ RowsFit
OwnerInv == TableInv /\ OwnTable
-----------------------------------------------------------------------------

\* What a busy handler's request says, kind by kind.
LEMMA RequestFacts ==
  ASSUME TypeInv, NEW s \in Slots, pc[s] # "idle"
  PROVE  /\ req[s] \in Requests
         /\ Pair(s) \in Pairs
         /\ Bucket(s) \in Buckets
         /\ Table(s) \in Tables
         /\ req[s].dim \in Dims
         /\ req[s].batch \in Seq(Write)
         /\ req[s].drop \subseteq Keys
<1>1. req[s] \in Requests
  BY DEF TypeInv, Working
<1>2. req[s] \in Request
  BY <1>1, ConstantsAssumption
<1>3. /\ req[s].at \in Buckets \X Indexes
      /\ req[s].dim \in Dims
      /\ req[s].batch \in Seq(Write)
      /\ req[s].drop \subseteq Keys
  BY <1>2 DEF Request, Pairs
<1>4. req[s].at[1] \in Buckets
  BY <1>3
<1>5. TableOf[req[s].at] \in Tables
  BY <1>3, ConstantsAssumption DEF Pairs
<1> QED
  BY <1>1, <1>3, <1>4, <1>5 DEF Pair, Bucket, Table, Pairs

\* The item a put handler is at is one of its batch.
LEMMA ItemFacts ==
  ASSUME TypeInv, NEW s \in Slots, pc[s] \in {"snapshot", "lookup", "upsert"}
  PROVE  /\ Item(s) \in Write
         /\ Item(s).key \in Keys
         /\ Item(s).vec \in Vecs
<1>1. req[s].batch \in Seq(Write)
  BY RequestFacts
<1>2. pos[s] \in 1..Len(req[s].batch)
  BY DEF TypeInv, Working
<1>3. Item(s) \in Write
  BY <1>1, <1>2 DEF Item
<1> QED
  BY <1>3 DEF Write

\* A fresh installation is well typed, nothing in flight.
LEMMA TypeInit == Init => TypeInv
<1> SUFFICES ASSUME Init PROVE TypeInv
  OBVIOUS
<1> USE ConstantsAssumption DEF Init
<1>1. DbTypes
  BY DEF DbTypes, EmptyTable
<1>2. S3Types
  BY DEF S3Types, EmptyTable
<1>3. ProcessTypes
  BY DEF ProcessTypes
<1>4. SlotTypes
  BY DEF SlotTypes, PC, Replies
<1>5. HistoryTypes
  BY DEF HistoryTypes
<1>6. Alone
  BY DEF Alone, HoldPc
<1>7. Asleep
  BY DEF Asleep
<1>8. Working
  BY DEF Working
<1> QED
  BY <1>1, <1>2, <1>3, <1>4, <1>5, <1>6, <1>7, <1>8 DEF TypeInv, TypeOK

\* INSERT OR REPLACE keeps the tables well typed.
LEMMA UpsertedFacts ==
  ASSUME DbTypes, NEW t \in Tables, NEW k \in Keys, NEW v \in Vecs
  PROVE  Upserted(t, k, v) \in [Tables -> [Keys -> Vecs \cup {NoVec}]]
BY DEF DbTypes, Upserted

\* No step of a handler, of the boot or of a crash breaks the types, the
\* mutex discipline or what a busy slot's request is.
LEMMA TypeStep == TypeInv /\ [Next]_vars => TypeInv'
<1> SUFFICES ASSUME TypeInv, [Next]_vars PROVE TypeInv'
  OBVIOUS
<1> USE ConstantsAssumption
    DEF TypeInv, TypeOK, Goto, Finish, Free, Spend, Fault, Unlock, UndoRow, Drop,
        dbVars, s3Vars, procVars, history, vars
<1>1. ASSUME NEW s \in Slots, Receive(s) PROVE TypeInv'
  <2>1. PICK q \in Requests : req' = [req EXCEPT ![s] = q] /\ Goto(s, FirstPc[q.op])
    BY <1>1 DEF Receive
  <2>2. q \in Request /\ q.op \in Ops /\ q.batch \in Seq(Write)
    BY ConstantsAssumption DEF Request
  <2>3. FirstPc[q.op] \in PC \ (HoldPc \cup {"idle", "lookup"})
    BY <2>2 DEF FirstPc, Ops, PC, HoldPc, StorePc, S3Pc
  <2>4. FirstPc[q.op] = "snapshot" => Len(q.batch) \in Nat \ {0}
    <3>1. FirstPc[q.op] = "snapshot" => q.op = "PutVectors"
      BY <2>2 DEF FirstPc, Ops
    <3> QED
      BY <2>2, <3>1, ConstantsAssumption
  <2>5. SlotTypes'
    BY <1>1, <2>1, <2>3 DEF Receive, SlotTypes
  <2>6. Alone'
    BY <1>1, <2>1, <2>3 DEF Receive, Alone, SlotTypes, HoldPc
  <2>7. Asleep'
    BY <1>1, <2>1 DEF Receive, Asleep
  <2>8. Working'
    BY <1>1, <2>1, <2>3, <2>4 DEF Receive, Working, SlotTypes, HoldPc
  <2>9. HistoryTypes'
    BY <1>1, ConstantsAssumption DEF Receive, HistoryTypes
  <2> QED
    BY <1>1, <2>5, <2>6, <2>7, <2>8, <2>9 DEF Receive, DbTypes, S3Types, ProcessTypes
<1>2. ASSUME NEW s \in Slots, InsertBucketRow(s) PROVE TypeInv'
  <2> USE <1>2
  <2>0. /\ Pair(s) \in Pairs
        /\ Bucket(s) \in Buckets
        /\ Table(s) \in Tables
        /\ req[s].dim \in Dims
        /\ req[s].batch \in Seq(Write)
        /\ req[s].drop \subseteq Keys
    BY RequestFacts DEF InsertBucketRow
  <2>2. DbTypes'
    BY <2>0 DEF InsertBucketRow, DbTypes
  <2>3. SlotTypes'
    BY DEF InsertBucketRow, SlotTypes, PC, StorePc, HoldPc, S3Pc, Replies
  <2>4. Alone' /\ Asleep' /\ Working'
    BY DEF InsertBucketRow, Alone, Asleep, Working, HoldPc, S3Pc, SlotTypes, ProcessTypes
  <2> QED
    BY <2>2, <2>3, <2>4 DEF InsertBucketRow, S3Types, HistoryTypes, ProcessTypes
<1>3. ASSUME NEW s \in Slots, EnsureBucket(s) PROVE TypeInv'
  <2> USE <1>3
  <2>0. /\ Pair(s) \in Pairs
        /\ Bucket(s) \in Buckets
        /\ Table(s) \in Tables
        /\ req[s].dim \in Dims
        /\ req[s].batch \in Seq(Write)
        /\ req[s].drop \subseteq Keys
    BY RequestFacts DEF EnsureBucket
  <2>2. S3Types'
    BY <2>0 DEF EnsureBucket, S3Types
  <2>3. HistoryTypes'
    BY DEF EnsureBucket, HistoryTypes
  <2>4. SlotTypes'
    BY DEF EnsureBucket, SlotTypes, PC, StorePc, HoldPc, S3Pc, Replies
  <2>5. Alone' /\ Asleep' /\ Working'
    BY DEF EnsureBucket, Alone, Asleep, Working, HoldPc, S3Pc, SlotTypes, ProcessTypes
  <2> QED
    BY <2>2, <2>3, <2>4, <2>5 DEF EnsureBucket, DbTypes, ProcessTypes
<1>4. ASSUME NEW s \in Slots, CountIndexes(s) PROVE TypeInv'
  <2> USE <1>4
  <2>2. SlotTypes'
    BY DEF CountIndexes, SlotTypes, PC, StorePc, HoldPc, S3Pc, Replies
  <2>3. Alone' /\ Asleep' /\ Working'
    BY DEF CountIndexes, Alone, Asleep, Working, HoldPc, S3Pc, SlotTypes, ProcessTypes
  <2> QED
    BY <2>2, <2>3 DEF CountIndexes, DbTypes, S3Types, HistoryTypes, ProcessTypes
<1>5. ASSUME NEW s \in Slots, DeleteBucketRow(s) PROVE TypeInv'
  <2> USE <1>5
  <2>0. /\ Pair(s) \in Pairs
        /\ Bucket(s) \in Buckets
        /\ Table(s) \in Tables
        /\ req[s].dim \in Dims
        /\ req[s].batch \in Seq(Write)
        /\ req[s].drop \subseteq Keys
    BY RequestFacts DEF DeleteBucketRow
  <2>2. DbTypes'
    BY <2>0 DEF DeleteBucketRow, DbTypes
  <2>3. SlotTypes'
    BY DEF DeleteBucketRow, SlotTypes, PC, StorePc, HoldPc, S3Pc, Replies
  <2>4. Alone' /\ Asleep' /\ Working'
    BY DEF DeleteBucketRow, Alone, Asleep, Working, HoldPc, S3Pc, SlotTypes, ProcessTypes
  <2> QED
    BY <2>2, <2>3, <2>4 DEF DeleteBucketRow, S3Types, HistoryTypes, ProcessTypes
<1>6. ASSUME NEW s \in Slots, DeleteS3Bucket(s) PROVE TypeInv'
  <2> USE <1>6
  <2>0. /\ Pair(s) \in Pairs
        /\ Bucket(s) \in Buckets
        /\ Table(s) \in Tables
        /\ req[s].dim \in Dims
        /\ req[s].batch \in Seq(Write)
        /\ req[s].drop \subseteq Keys
    BY RequestFacts DEF DeleteS3Bucket
  <2>2. S3Types'
    BY <2>0 DEF DeleteS3Bucket, S3Types
  <2>3. HistoryTypes'
    BY DEF DeleteS3Bucket, HistoryTypes
  <2>4. SlotTypes'
    BY DEF DeleteS3Bucket, SlotTypes, PC, StorePc, HoldPc, S3Pc, Replies
  <2>5. Alone' /\ Asleep' /\ Working'
    BY DEF DeleteS3Bucket, Alone, Asleep, Working, HoldPc, S3Pc, SlotTypes, ProcessTypes
  <2> QED
    BY <2>2, <2>3, <2>4, <2>5 DEF DeleteS3Bucket, DbTypes, ProcessTypes
<1>7. ASSUME NEW s \in Slots, InsertIndexRow(s) PROVE TypeInv'
  <2> USE <1>7
  <2>0. /\ Pair(s) \in Pairs
        /\ Bucket(s) \in Buckets
        /\ Table(s) \in Tables
        /\ req[s].dim \in Dims
        /\ req[s].batch \in Seq(Write)
        /\ req[s].drop \subseteq Keys
    BY RequestFacts DEF InsertIndexRow
  <2>2. DbTypes'
    BY <2>0 DEF InsertIndexRow, DbTypes
  <2>3. ProcessTypes'
    BY DEF InsertIndexRow, ProcessTypes
  <2>4. SlotTypes'
    BY DEF InsertIndexRow, SlotTypes, PC, StorePc, HoldPc, S3Pc, Replies
  <2>5. Alone' /\ Asleep' /\ Working'
    BY DEF InsertIndexRow, Alone, Asleep, Working, HoldPc, S3Pc, SlotTypes, ProcessTypes
  <2>6. HistoryTypes'
    BY <2>0 DEF InsertIndexRow, HistoryTypes
  <2> QED
    BY <2>2, <2>3, <2>4, <2>5, <2>6 DEF InsertIndexRow, S3Types
<1>8. ASSUME NEW s \in Slots, CreateTable(s) PROVE TypeInv'
  <2> USE <1>8
  <2>0. /\ Pair(s) \in Pairs
        /\ Bucket(s) \in Buckets
        /\ Table(s) \in Tables
        /\ req[s].dim \in Dims
        /\ req[s].batch \in Seq(Write)
        /\ req[s].drop \subseteq Keys
    BY RequestFacts DEF CreateTable
  <2>2. DbTypes'
    BY <2>0 DEF CreateTable, DbTypes
  <2>3. SlotTypes'
    BY DEF CreateTable, SlotTypes, PC, StorePc, HoldPc, S3Pc, Replies
  <2>4. Alone' /\ Asleep' /\ Working'
    BY DEF CreateTable, Alone, Asleep, Working, HoldPc, S3Pc, SlotTypes, ProcessTypes
  <2> QED
    BY <2>2, <2>3, <2>4 DEF CreateTable, S3Types, HistoryTypes, ProcessTypes
<1>9. ASSUME NEW s \in Slots, CreateHnsw(s) PROVE TypeInv'
  <2> USE <1>9
  <2>0. Table(s) \in Tables
    BY RequestFacts DEF CreateHnsw
  <2>1. DbTypes'
    BY <2>0 DEF CreateHnsw, DbTypes
  <2>2. ProcessTypes'
    BY DEF CreateHnsw, ProcessTypes
  <2>3. SlotTypes'
    BY DEF CreateHnsw, SlotTypes, PC, StorePc, HoldPc, S3Pc, Replies
  <2>4. Alone' /\ Asleep' /\ Working'
    <3>1. Alone'
      BY DEF CreateHnsw, Alone, HoldPc, SlotTypes, ProcessTypes
    <3>2. Asleep'
      BY DEF CreateHnsw, Asleep, SlotTypes
    <3>3. Working'
      BY DEF CreateHnsw, Working, SlotTypes
    <3> QED
      BY <3>1, <3>2, <3>3
  <2>5. S3Types' /\ HistoryTypes'
    BY DEF CreateHnsw, S3Types, HistoryTypes
  <2> QED
    BY <2>1, <2>2, <2>3, <2>4, <2>5
<1>10. ASSUME NEW s \in Slots, RollbackIndexRow(s) PROVE TypeInv'
  <2> USE <1>10
  <2>0. /\ Pair(s) \in Pairs
        /\ Bucket(s) \in Buckets
        /\ Table(s) \in Tables
        /\ req[s].dim \in Dims
        /\ req[s].batch \in Seq(Write)
        /\ req[s].drop \subseteq Keys
    BY RequestFacts DEF RollbackIndexRow
  <2>2. DbTypes'
    BY <2>0 DEF RollbackIndexRow, DbTypes
  <2>3. ProcessTypes'
    BY DEF RollbackIndexRow, ProcessTypes
  <2>4. SlotTypes'
    BY DEF RollbackIndexRow, SlotTypes, PC, StorePc, HoldPc, S3Pc, Replies
  <2>5. Alone' /\ Asleep' /\ Working'
    BY DEF RollbackIndexRow, Alone, Asleep, Working, HoldPc, S3Pc, SlotTypes, ProcessTypes
  <2> QED
    BY <2>2, <2>3, <2>4, <2>5 DEF RollbackIndexRow, S3Types, HistoryTypes
<1>11. ASSUME NEW s \in Slots, DeleteIndexRow(s) PROVE TypeInv'
  <2> USE <1>11
  <2>0. /\ Pair(s) \in Pairs
        /\ Bucket(s) \in Buckets
        /\ Table(s) \in Tables
        /\ req[s].dim \in Dims
        /\ req[s].batch \in Seq(Write)
        /\ req[s].drop \subseteq Keys
    BY RequestFacts DEF DeleteIndexRow
  <2>2. DbTypes'
    BY <2>0 DEF DeleteIndexRow, DbTypes
  <2>3. ProcessTypes'
    BY DEF DeleteIndexRow, ProcessTypes
  <2>4. HistoryTypes'
    BY DEF DeleteIndexRow, HistoryTypes
  <2>5. SlotTypes'
    BY DEF DeleteIndexRow, SlotTypes, PC, StorePc, HoldPc, S3Pc, Replies
  <2>6. Alone' /\ Asleep' /\ Working'
    BY DEF DeleteIndexRow, Alone, Asleep, Working, HoldPc, S3Pc, SlotTypes, ProcessTypes
  <2> QED
    BY <2>2, <2>3, <2>4, <2>5, <2>6 DEF DeleteIndexRow, S3Types
<1>12. ASSUME NEW s \in Slots, DropTable(s) PROVE TypeInv'
  <2> USE <1>12
  <2>0. /\ Pair(s) \in Pairs
        /\ Bucket(s) \in Buckets
        /\ Table(s) \in Tables
        /\ req[s].dim \in Dims
        /\ req[s].batch \in Seq(Write)
        /\ req[s].drop \subseteq Keys
    BY RequestFacts DEF DropTable
  <2>2. DbTypes'
    BY <2>0 DEF DropTable, DbTypes, EmptyTable
  <2>3. ProcessTypes'
    BY DEF DropTable, ProcessTypes
  <2>4. SlotTypes'
    BY DEF DropTable, SlotTypes, PC, StorePc, HoldPc, S3Pc, Replies
  <2>5. Alone' /\ Asleep' /\ Working'
    BY DEF DropTable, Alone, Asleep, Working, HoldPc, S3Pc, SlotTypes, ProcessTypes
  <2> QED
    BY <2>2, <2>3, <2>4, <2>5 DEF DropTable, S3Types, HistoryTypes
<1>13. ASSUME NEW s \in Slots, ListSnapshots(s) PROVE TypeInv'
  <2> USE <1>13
  <2>2. Listed(Pair(s)) \subseteq Keys
    BY DEF Listed
  <2>3. HistoryTypes'
    BY DEF ListSnapshots, HistoryTypes
  <2>4. SlotTypes'
    <3>1. pc' \in [Slots -> PC] /\ reply' \in [Slots -> Replies]
      BY DEF ListSnapshots, SlotTypes, PC, S3Pc, Replies
    <3>2. keys' \in [Slots -> SUBSET Keys]
      BY <2>2 DEF ListSnapshots, SlotTypes
    <3> QED
      BY <3>1, <3>2 DEF ListSnapshots, SlotTypes
  <2>5. Alone' /\ Asleep' /\ Working'
    BY DEF ListSnapshots, Alone, Asleep, Working, HoldPc, SlotTypes, ProcessTypes
  <2> QED
    BY <2>3, <2>4, <2>5 DEF ListSnapshots, DbTypes, S3Types, ProcessTypes
<1>14. ASSUME NEW s \in Slots, DropSnapshot(s) PROVE TypeInv'
  <2> USE <1>14
  <2>0. /\ Pair(s) \in Pairs
        /\ Bucket(s) \in Buckets
        /\ Table(s) \in Tables
        /\ req[s].dim \in Dims
        /\ req[s].batch \in Seq(Write)
        /\ req[s].drop \subseteq Keys
    BY RequestFacts DEF DropSnapshot
  <2>2. PICK k \in keys[s] : 
          /\ \/ object' = [object EXCEPT ![Pair(s)][k] = NoVec] /\ UNCHANGED <<spared, spent>>
             \/ Fault /\ spared' = [spared EXCEPT ![s] = @ \cup {k}] /\ UNCHANGED object
          /\ keys' = [keys EXCEPT ![s] = @ \ {k}]
          /\ IF keys[s] = {k} THEN Finish(s, "ok") ELSE UNCHANGED <<pc, reply>>
    BY DEF DropSnapshot
  <2>3. k \in Keys
    BY DEF SlotTypes
  <2>4. S3Types'
    BY <2>0, <2>2, <2>3 DEF DropSnapshot, S3Types
  <2>5. HistoryTypes'
    BY <2>2, <2>3 DEF DropSnapshot, HistoryTypes
  <2>6. SlotTypes'
    BY <2>2 DEF DropSnapshot, SlotTypes, PC, Replies
  <2>7. Alone' /\ Asleep' /\ Working'
    BY <2>2 DEF DropSnapshot, Alone, Asleep, Working, HoldPc, SlotTypes, ProcessTypes
  <2> QED
    BY <2>4, <2>5, <2>6, <2>7 DEF DropSnapshot, DbTypes, ProcessTypes
<1>15. ASSUME NEW s \in Slots, WriteSnapshot(s) PROVE TypeInv'
  <2> USE <1>15
  <2>0. /\ Pair(s) \in Pairs
        /\ Bucket(s) \in Buckets
        /\ Table(s) \in Tables
        /\ req[s].dim \in Dims
        /\ req[s].batch \in Seq(Write)
        /\ req[s].drop \subseteq Keys
    BY RequestFacts DEF WriteSnapshot
  <2>2. Item(s).key \in Keys /\ Item(s).vec \in Vecs
    BY ItemFacts DEF WriteSnapshot
  <2>3. pos[s] \in 1..Len(req[s].batch) /\ Len(req[s].batch) \in Nat
    BY <2>0 DEF WriteSnapshot, Working
  <2>4. S3Types'
    BY <2>0, <2>2 DEF WriteSnapshot, S3Types
  <2>5. HistoryTypes'
    <3>1. spared' \in [Slots -> SUBSET Keys]
      BY <2>2 DEF WriteSnapshot, Spare, HistoryTypes
    <3> QED
      BY <3>1 DEF WriteSnapshot, HistoryTypes
  <2>6. SlotTypes'
    <3>1. pc' \in [Slots -> PC] /\ reply' \in [Slots -> Replies]
      BY DEF WriteSnapshot, SlotTypes, PC, StorePc, Replies
    <3>2. pos' \in [Slots -> Nat \ {0}]
      BY <2>3 DEF WriteSnapshot, SlotTypes
    <3> QED
      BY <3>1, <3>2 DEF WriteSnapshot, SlotTypes
  <2>7. Alone'
    BY DEF WriteSnapshot, Alone, HoldPc, SlotTypes
  <2>8. Asleep'
    BY DEF WriteSnapshot, Asleep, SlotTypes, ProcessTypes
  <2>9. Working'
    BY <2>3 DEF WriteSnapshot, AtLastItem, Working, SlotTypes
  <2> QED
    BY <2>4, <2>5, <2>6, <2>7, <2>8, <2>9 DEF WriteSnapshot, DbTypes, ProcessTypes
<1>16. ASSUME NEW s \in Slots, LookupIndex(s) PROVE TypeInv'
  <2> USE <1>16
  <2>2. HistoryTypes'
    BY DEF LookupIndex, HistoryTypes
  <2>3. ProcessTypes'
    BY DEF LookupIndex, ProcessTypes
  <2>4. SlotTypes'
    BY DEF LookupIndex, SlotTypes, PC, HoldPc, Replies
  <2>5. Alone'
    BY DEF LookupIndex, Alone, HoldPc, SlotTypes, ProcessTypes
  <2>6. Asleep' /\ Working'
    BY DEF LookupIndex, Asleep, Working, SlotTypes
  <2> QED
    BY <2>2, <2>3, <2>4, <2>5, <2>6 DEF LookupIndex, DbTypes, S3Types
<1>17. ASSUME NEW s \in Slots, UpsertRow(s) PROVE TypeInv'
  <2> USE <1>17
  <2>0. /\ Pair(s) \in Pairs
        /\ Bucket(s) \in Buckets
        /\ Table(s) \in Tables
        /\ req[s].dim \in Dims
        /\ req[s].batch \in Seq(Write)
        /\ req[s].drop \subseteq Keys
    BY RequestFacts DEF UpsertRow
  <2>2. Item(s).key \in Keys /\ Item(s).vec \in Vecs
    BY ItemFacts DEF UpsertRow
  <2>3. pos[s] \in 1..Len(req[s].batch) /\ Len(req[s].batch) \in Nat
    BY <2>0 DEF UpsertRow, Working
  <2>4. DbTypes'
    BY <2>0, <2>2, UpsertedFacts DEF UpsertRow, DbTypes
  <2>5. ProcessTypes' /\ HistoryTypes'
    BY DEF UpsertRow, ProcessTypes, HistoryTypes
  <2>6. SlotTypes'
    <3>1. pc' \in [Slots -> PC] /\ reply' \in [Slots -> Replies]
      BY DEF UpsertRow, SlotTypes, PC, Replies
    <3>2. pos' = pos \/ pos' = [pos EXCEPT ![s] = @ + 1]
      BY DEF UpsertRow
    <3>3. pos' \in [Slots -> Nat \ {0}]
      BY <2>3, <3>2 DEF SlotTypes
    <3> QED
      BY <3>1, <3>3 DEF UpsertRow, SlotTypes
  <2>7. Alone'
    BY DEF UpsertRow, Alone, HoldPc, SlotTypes
  <2>8. Asleep'
    BY DEF UpsertRow, Asleep, SlotTypes
  <2>9. Working'
    BY <2>3 DEF UpsertRow, AtLastItem, Working, SlotTypes
  <2> QED
    BY <2>4, <2>5, <2>6, <2>7, <2>8, <2>9 DEF UpsertRow, S3Types
<1>18. ASSUME NEW s \in Slots, DeleteRows(s) PROVE TypeInv'
  <2> USE <1>18
  <2>0. /\ Pair(s) \in Pairs
        /\ Bucket(s) \in Buckets
        /\ Table(s) \in Tables
        /\ req[s].dim \in Dims
        /\ req[s].batch \in Seq(Write)
        /\ req[s].drop \subseteq Keys
    BY RequestFacts DEF DeleteRows
  <2>2. tableRows' \in [Tables -> [Keys -> Vecs \cup {NoVec}]]
    <3>1. ASSUME NEW row \in [Keys -> Vecs \cup {NoVec}]
          PROVE  [k \in Keys |-> IF k \in req[s].drop THEN NoVec ELSE row[k]]
                   \in [Keys -> Vecs \cup {NoVec}]
      OBVIOUS
    <3> QED
      BY <2>0, <3>1 DEF DeleteRows, DbTypes
  <2>3. SlotTypes'
    BY <2>0 DEF DeleteRows, SlotTypes, PC, S3Pc, Replies
  <2>4. Alone' /\ Asleep' /\ Working'
    BY DEF DeleteRows, Alone, Asleep, Working, HoldPc, SlotTypes, ProcessTypes
  <2> QED
    BY <2>2, <2>3, <2>4 DEF DeleteRows, DbTypes, S3Types, ProcessTypes, HistoryTypes
<1>19. ASSUME NEW s \in Slots, Deliver(s) PROVE TypeInv'
  <2> USE <1>19
  <2>2. SlotTypes'
    BY DEF Deliver, SlotTypes, PC, StorePc, HoldPc, S3Pc, Replies
  <2>3. Alone' /\ Asleep' /\ Working'
    BY DEF Deliver, Alone, Asleep, Working, HoldPc, S3Pc, SlotTypes, ProcessTypes
  <2> QED
    BY <2>2, <2>3 DEF Deliver, DbTypes, S3Types, HistoryTypes, ProcessTypes
<1>20. ASSUME NEW s \in Slots, Disconnect(s) PROVE TypeInv'
  <2> USE <1>20
  <2>2. HistoryTypes'
    BY DEF Disconnect, HistoryTypes
  <2>3. SlotTypes'
    BY DEF Disconnect, SlotTypes, PC, StorePc, HoldPc, S3Pc, Replies
  <2>4. Alone' /\ Asleep' /\ Working'
    BY DEF Disconnect, Alone, Asleep, Working, HoldPc, S3Pc, SlotTypes, ProcessTypes
  <2> QED
    BY <2>2, <2>3, <2>4 DEF Disconnect, DbTypes, S3Types, ProcessTypes
<1>21. ASSUME Crash PROVE TypeInv'
  <2> USE <1>21
  <2>1. DbTypes'
    BY DEF Crash, DbTypes, EmptyTable
  <2>2. SlotTypes'
    BY DEF Crash, SlotTypes, PC, Replies
  <2>3. HistoryTypes'
    <3>1. ASSUME NEW s \in Slots, pc[s] \in {"create_table", "rollback"}
          PROVE  Pair(s) \in Pairs
      BY <3>1, RequestFacts
    <3> QED
      BY <3>1 DEF Crash, HistoryTypes
  <2>4. Alone' /\ Asleep' /\ Working'
    BY ConstantsAssumption DEF Crash, Alone, Asleep, Working, HoldPc
  <2> QED
    BY <2>1, <2>2, <2>3, <2>4 DEF Crash, S3Types, ProcessTypes
<1>22. ASSUME Open PROVE TypeInv'
  BY <1>22 DEF Open, Known, slotVars, DbTypes, S3Types, ProcessTypes, SlotTypes, HistoryTypes,
               Alone, Asleep, Working
<1>23. ASSUME NEW p \in Pairs, ListForReplay(p) PROVE TypeInv'
  <2> USE <1>23
  <2>1. ProcessTypes'
    BY DEF ListForReplay, AbortReplay, ProcessTypes, Listed
  <2>2. HistoryTypes'
    BY DEF ListForReplay, AbortReplay, HistoryTypes
  <2>3. Asleep'
    BY DEF ListForReplay, AbortReplay, Asleep, Listed, slotVars
  <2> QED
    BY <2>1, <2>2, <2>3 DEF ListForReplay, slotVars, DbTypes, S3Types, SlotTypes, Alone, Working
<1>24. ASSUME NEW p \in Pairs, NEW k \in Keys, ReplaySnapshot(p, k) PROVE TypeInv'
  <2> USE <1>24
  <2>1. object[p][k] \in Vecs /\ TableOf[p] \in Tables
    BY ConstantsAssumption DEF ReplaySnapshot, Asleep, S3Types
  <2>2. DbTypes'
    BY <2>1, UpsertedFacts DEF ReplaySnapshot, DbTypes
  <2>3. ProcessTypes' /\ HistoryTypes'
    BY DEF ReplaySnapshot, ProcessTypes, HistoryTypes
  <2> QED
    BY <2>2, <2>3 DEF ReplaySnapshot, slotVars, S3Types, SlotTypes, Alone, Asleep, Working
<1>25. ASSUME Serve PROVE TypeInv'
  BY <1>25 DEF Serve, slotVars, DbTypes, S3Types, ProcessTypes, SlotTypes, HistoryTypes,
               Alone, Asleep, Working
<1>26. ASSUME UNCHANGED vars PROVE TypeInv'
  BY <1>26 DEF slotVars, DbTypes, S3Types, ProcessTypes, SlotTypes, HistoryTypes,
               Alone, Asleep, Working
<1> QED
  BY <1>1, <1>2, <1>3, <1>4, <1>5, <1>6, <1>7, <1>8, <1>9, <1>10, <1>11, <1>12, <1>13, <1>14, <1>15, <1>16, <1>17, <1>18, <1>19, <1>20, <1>21, <1>22, <1>23, <1>24, <1>25, <1>26
     DEF Next, Step, Boot, Quiet

\* A step that leaves rows and tables alone and starts no store call keeps
\* what holds in the middle of one.
LEMMA MidCallFrame ==
  ASSUME MidCall, UNCHANGED <<indexRow, tableDim>>,
         \A z \in Slots : pc'[z] \in HoldPc => pc'[z] = pc[z] /\ req'[z] = req[z]
  PROVE  MidCall'
BY DEF MidCall, HoldPc, Pair, Table, Fits

\* A table that does not exist holds no vectors.
LEMMA NoTableNoRows ==
  ASSUME TypeInv, RowsFit, NEW t \in Tables, tableDim[t] = NoDim, NEW k \in Keys
  PROVE  tableRows[t][k] = NoVec
BY ConstantsAssumption DEF TypeInv, TypeOK, DbTypes, RowsFit

\* What a store call may assume of the others: they are not inside one.
LEMMA OthersOut ==
  ASSUME TypeInv, NEW s \in Slots, mutex = NoSlot \/ mutex = s,
         NEW z \in Slots, z # s
  PROVE  pc[z] \notin HoldPc
BY ConstantsAssumption DEF TypeInv, Alone

\* No step stores a vector its table has no room for: the width a put checked
\* is still the width of the table it writes to.
LEMMA TableStep == TableInv /\ [Next]_vars => MidCall' /\ RowsFit'
<1> SUFFICES ASSUME TableInv, [Next]_vars PROVE MidCall' /\ RowsFit'
  OBVIOUS
<1> USE ConstantsAssumption
    DEF TableInv, TypeInv, TypeOK, Goto, Finish, Free, Spend, Fault, Unlock, dbVars, history, vars
<1>1. ASSUME NEW s \in Slots, Receive(s) PROVE MidCall' /\ RowsFit'
  <2> USE <1>1
  <2>1. PICK q \in Requests : req' = [req EXCEPT ![s] = q] /\ Goto(s, FirstPc[q.op])
    BY DEF Receive
  <2>2. FirstPc[q.op] \notin HoldPc
    BY DEF Request, FirstPc, Ops, HoldPc
  <2>3. \A z \in Slots : pc'[z] \in HoldPc => pc'[z] = pc[z] /\ req'[z] = req[z]
    BY <2>1, <2>2 DEF SlotTypes
  <2> QED
    BY <2>3, MidCallFrame DEF Receive, RowsFit
<1>2. ASSUME NEW s \in Slots, InsertBucketRow(s) PROVE MidCall' /\ RowsFit'
  <2> USE <1>2
  <2>1. \A z \in Slots : pc'[z] \in HoldPc => pc'[z] = pc[z] /\ req'[z] = req[z]
    BY DEF InsertBucketRow, HoldPc, S3Pc, SlotTypes
  <2> QED
    BY <2>1, MidCallFrame DEF InsertBucketRow, s3Vars, RowsFit
<1>3. ASSUME NEW s \in Slots, EnsureBucket(s) PROVE MidCall' /\ RowsFit'
  <2> USE <1>3
  <2>1. \A z \in Slots : pc'[z] \in HoldPc => pc'[z] = pc[z] /\ req'[z] = req[z]
    BY DEF EnsureBucket, HoldPc, S3Pc, SlotTypes
  <2> QED
    BY <2>1, MidCallFrame DEF EnsureBucket, s3Vars, RowsFit
<1>4. ASSUME NEW s \in Slots, CountIndexes(s) PROVE MidCall' /\ RowsFit'
  <2> USE <1>4
  <2>1. \A z \in Slots : pc'[z] \in HoldPc => pc'[z] = pc[z] /\ req'[z] = req[z]
    BY DEF CountIndexes, HoldPc, S3Pc, SlotTypes
  <2> QED
    BY <2>1, MidCallFrame DEF CountIndexes, s3Vars, RowsFit
<1>5. ASSUME NEW s \in Slots, DeleteBucketRow(s) PROVE MidCall' /\ RowsFit'
  <2> USE <1>5
  <2>1. \A z \in Slots : pc'[z] \in HoldPc => pc'[z] = pc[z] /\ req'[z] = req[z]
    BY DEF DeleteBucketRow, HoldPc, S3Pc, SlotTypes
  <2> QED
    BY <2>1, MidCallFrame DEF DeleteBucketRow, s3Vars, RowsFit
<1>6. ASSUME NEW s \in Slots, DeleteS3Bucket(s) PROVE MidCall' /\ RowsFit'
  <2> USE <1>6
  <2>1. \A z \in Slots : pc'[z] \in HoldPc => pc'[z] = pc[z] /\ req'[z] = req[z]
    BY DEF DeleteS3Bucket, HoldPc, S3Pc, SlotTypes
  <2> QED
    BY <2>1, MidCallFrame DEF DeleteS3Bucket, s3Vars, RowsFit
<1>7. ASSUME NEW s \in Slots, ListSnapshots(s) PROVE MidCall' /\ RowsFit'
  <2> USE <1>7
  <2>1. \A z \in Slots : pc'[z] \in HoldPc => pc'[z] = pc[z] /\ req'[z] = req[z]
    BY DEF ListSnapshots, HoldPc, S3Pc, SlotTypes
  <2> QED
    BY <2>1, MidCallFrame DEF ListSnapshots, s3Vars, RowsFit
<1>8. ASSUME NEW s \in Slots, DropSnapshot(s) PROVE MidCall' /\ RowsFit'
  <2> USE <1>8
  <2>1. \A z \in Slots : pc'[z] \in HoldPc => pc'[z] = pc[z] /\ req'[z] = req[z]
    BY DEF DropSnapshot, HoldPc, S3Pc, SlotTypes
  <2> QED
    BY <2>1, MidCallFrame DEF DropSnapshot, s3Vars, RowsFit
<1>9. ASSUME NEW s \in Slots, WriteSnapshot(s) PROVE MidCall' /\ RowsFit'
  <2> USE <1>9
  <2>1. \A z \in Slots : pc'[z] \in HoldPc => pc'[z] = pc[z] /\ req'[z] = req[z]
    BY DEF WriteSnapshot, HoldPc, S3Pc, SlotTypes
  <2> QED
    BY <2>1, MidCallFrame DEF WriteSnapshot, s3Vars, RowsFit
<1>10. ASSUME NEW s \in Slots, Deliver(s) PROVE MidCall' /\ RowsFit'
  <2> USE <1>10
  <2>1. \A z \in Slots : pc'[z] \in HoldPc => pc'[z] = pc[z] /\ req'[z] = req[z]
    BY DEF Deliver, HoldPc, S3Pc, SlotTypes
  <2> QED
    BY <2>1, MidCallFrame DEF Deliver, s3Vars, RowsFit
<1>11. ASSUME NEW s \in Slots, Disconnect(s) PROVE MidCall' /\ RowsFit'
  <2> USE <1>11
  <2>1. \A z \in Slots : pc'[z] \in HoldPc => pc'[z] = pc[z] /\ req'[z] = req[z]
    BY DEF Disconnect, HoldPc, S3Pc, SlotTypes
  <2> QED
    BY <2>1, MidCallFrame DEF Disconnect, s3Vars, RowsFit
<1>12. ASSUME NEW s \in Slots, InsertIndexRow(s) PROVE MidCall' /\ RowsFit'
  <2> USE <1>12
  <2>1. \A z \in Slots : z # s => pc[z] \notin HoldPc
    BY OthersOut DEF InsertIndexRow
  <2>2. Pair(s) \in Pairs /\ Table(s) \in Tables /\ req[s].dim \in Dims
    BY RequestFacts DEF InsertIndexRow
  <2>8. MidCall'
    BY <2>1, <2>2 DEF InsertIndexRow, MidCall, HoldPc, Pair, Table, Fits, SlotTypes, DbTypes, UndoRow
  <2>9. RowsFit'
    BY DEF InsertIndexRow, RowsFit
  <2> QED
    BY <2>8, <2>9
<1>13. ASSUME NEW s \in Slots, CreateHnsw(s) PROVE MidCall' /\ RowsFit'
  <2> USE <1>13
  <2>1. \A z \in Slots : z # s => pc[z] \notin HoldPc
    BY OthersOut DEF CreateHnsw
  <2>2. Pair(s) \in Pairs /\ Table(s) \in Tables /\ req[s].dim \in Dims
    BY RequestFacts DEF CreateHnsw
  <2>8. MidCall'
    BY <2>1, <2>2 DEF CreateHnsw, MidCall, HoldPc, Pair, Table, Fits, SlotTypes, DbTypes, UndoRow
  <2>9. RowsFit'
    BY DEF CreateHnsw, RowsFit
  <2> QED
    BY <2>8, <2>9
<1>14. ASSUME NEW s \in Slots, RollbackIndexRow(s) PROVE MidCall' /\ RowsFit'
  <2> USE <1>14
  <2>1. \A z \in Slots : z # s => pc[z] \notin HoldPc
    BY OthersOut DEF RollbackIndexRow
  <2>2. Pair(s) \in Pairs /\ Table(s) \in Tables /\ req[s].dim \in Dims
    BY RequestFacts DEF RollbackIndexRow
  <2>8. MidCall'
    BY <2>1, <2>2 DEF RollbackIndexRow, MidCall, HoldPc, Pair, Table, Fits, SlotTypes, DbTypes, UndoRow
  <2>9. RowsFit'
    BY DEF RollbackIndexRow, RowsFit
  <2> QED
    BY <2>8, <2>9
<1>15. ASSUME NEW s \in Slots, DeleteIndexRow(s) PROVE MidCall' /\ RowsFit'
  <2> USE <1>15
  <2>1. \A z \in Slots : z # s => pc[z] \notin HoldPc
    BY OthersOut DEF DeleteIndexRow
  <2>2. Pair(s) \in Pairs /\ Table(s) \in Tables /\ req[s].dim \in Dims
    BY RequestFacts DEF DeleteIndexRow
  <2>8. MidCall'
    BY <2>1, <2>2 DEF DeleteIndexRow, MidCall, HoldPc, Pair, Table, Fits, SlotTypes, DbTypes, UndoRow
  <2>9. RowsFit'
    BY DEF DeleteIndexRow, RowsFit
  <2> QED
    BY <2>8, <2>9
<1>16. ASSUME NEW s \in Slots, LookupIndex(s) PROVE MidCall' /\ RowsFit'
  <2> USE <1>16
  <2>1. \A z \in Slots : z # s => pc[z] \notin HoldPc
    BY OthersOut DEF LookupIndex
  <2>2. Pair(s) \in Pairs /\ Table(s) \in Tables /\ req[s].dim \in Dims
    BY RequestFacts DEF LookupIndex
  <2>8. MidCall'
    BY <2>1, <2>2 DEF LookupIndex, MidCall, HoldPc, Pair, Table, Fits, SlotTypes, DbTypes, UndoRow
  <2>9. RowsFit'
    BY DEF LookupIndex, RowsFit
  <2> QED
    BY <2>8, <2>9
<1>17. ASSUME NEW s \in Slots, CreateTable(s) PROVE MidCall' /\ RowsFit'
  <2> USE <1>17
  <2>1. \A z \in Slots : z # s => pc[z] \notin HoldPc
    BY OthersOut DEF CreateTable
  <2>2. Pair(s) \in Pairs /\ Table(s) \in Tables /\ req[s].dim \in Dims
    BY RequestFacts DEF CreateTable
  <2>8. MidCall'
    BY <2>1, <2>2 DEF CreateTable, MidCall, HoldPc, Pair, Table, Fits, SlotTypes, DbTypes, TableExists
  <2>9. RowsFit'
    BY <2>2, NoTableNoRows DEF CreateTable, TableExists, RowsFit, DbTypes
  <2> QED
    BY <2>8, <2>9
<1>18. ASSUME NEW s \in Slots, DropTable(s) PROVE MidCall' /\ RowsFit'
  <2> USE <1>18
  <2>1. \A z \in Slots : z # s => pc[z] \notin HoldPc
    BY OthersOut DEF DropTable
  <2>2. Pair(s) \in Pairs /\ Table(s) \in Tables /\ req[s].dim \in Dims
    BY RequestFacts DEF DropTable
  <2>8. MidCall'
    BY <2>1, <2>2 DEF DropTable, MidCall, HoldPc, Pair, Table, Fits, SlotTypes, DbTypes, Drop
  <2>9. RowsFit'
    BY <2>2 DEF DropTable, Drop, EmptyTable, RowsFit, DbTypes
  <2> QED
    BY <2>8, <2>9
<1>19. ASSUME NEW s \in Slots, UpsertRow(s) PROVE MidCall' /\ RowsFit'
  <2> USE <1>19
  <2>1. \A z \in Slots : z # s => pc[z] \notin HoldPc
    BY OthersOut DEF UpsertRow
  <2>8. MidCall'
    BY <2>1 DEF UpsertRow, MidCall, HoldPc, Pair, Table, Fits, SlotTypes, DbTypes
  <2>2. Item(s).key \in Keys /\ Table(s) \in Tables
    BY ItemFacts, RequestFacts DEF UpsertRow
  <2>3. DimOf[Item(s).vec] = indexRow[Pair(s)]
    <3>1. pos[s] \in DOMAIN req[s].batch
      BY RequestFacts DEF UpsertRow, Working
    <3> QED
      BY <3>1 DEF UpsertRow, MidCall, Fits, Item
  <2>4. tableDim' = tableDim
    BY DEF UpsertRow
  <2>5. CASE /\ tableDim[Table(s)] = indexRow[Pair(s)]
             /\ tableRows' = Upserted(Table(s), Item(s).key, Item(s).vec)
    <3>1. \A t \in Tables, k \in Keys :
            IF t = Table(s) /\ k = Item(s).key
              THEN tableRows'[t][k] = Item(s).vec
              ELSE tableRows'[t][k] = tableRows[t][k]
      BY <2>2, <2>5 DEF Upserted, DbTypes
    <3> QED
      BY <2>3, <2>4, <2>5, <2>8, <3>1 DEF RowsFit
  <2>6. CASE UNCHANGED tableRows
    BY <2>4, <2>6, <2>8 DEF RowsFit
  <2> QED
    BY <2>5, <2>6 DEF UpsertRow
<1>20. ASSUME NEW s \in Slots, DeleteRows(s) PROVE MidCall' /\ RowsFit'
  <2> USE <1>20
  <2>1. \A z \in Slots : pc'[z] \in HoldPc => pc'[z] = pc[z] /\ req'[z] = req[z]
    BY DEF DeleteRows, HoldPc, SlotTypes
  <2>2. RowsFit'
    <3>1. ASSUME NEW t \in Tables, NEW k \in Keys
          PROVE  tableRows'[t][k] \in {tableRows[t][k], NoVec}
      BY DEF DeleteRows, DbTypes
    <3> QED
      BY <3>1 DEF DeleteRows, RowsFit
  <2> QED
    BY <2>1, <2>2, MidCallFrame DEF DeleteRows
<1>21. ASSUME Crash PROVE MidCall' /\ RowsFit'
  <2> USE <1>21
  <2>1. MidCall'
    BY DEF Crash, MidCall
  <2>2. RowsFit'
    BY DEF Crash, RowsFit, EmptyTable
  <2> QED
    BY <2>1, <2>2
<1>22. ASSUME Open PROVE MidCall' /\ RowsFit'
  <2> USE <1>22
  <2> QED
    BY MidCallFrame DEF Open, slotVars, RowsFit
<1>23. ASSUME NEW p \in Pairs, ListForReplay(p) PROVE MidCall' /\ RowsFit'
  <2> USE <1>23
  <2> QED
    BY MidCallFrame DEF ListForReplay, slotVars, RowsFit
<1>24. ASSUME NEW p \in Pairs, NEW k \in Keys, ReplaySnapshot(p, k) PROVE MidCall' /\ RowsFit'
  <2> USE <1>24
  <2>1. RowsFit'
    BY SMTT(30) DEF ReplaySnapshot, Upserted, RowsFit, DbTypes
  <2> QED
    BY <2>1, MidCallFrame DEF ReplaySnapshot, slotVars
<1>25. ASSUME Serve PROVE MidCall' /\ RowsFit'
  <2> USE <1>25
  <2> QED
    BY MidCallFrame DEF Serve, slotVars, RowsFit
<1>26. ASSUME UNCHANGED vars PROVE MidCall' /\ RowsFit'
  <2> USE <1>26
  <2> QED
    BY MidCallFrame DEF slotVars, RowsFit
<1> QED
  BY <1>1, <1>2, <1>3, <1>4, <1>5, <1>6, <1>7, <1>8, <1>9, <1>10, <1>11, <1>12, <1>13, <1>14, <1>15, <1>16, <1>17, <1>18, <1>19, <1>20, <1>21, <1>22, <1>23, <1>24, <1>25, <1>26
     DEF Next, Step, Boot, Quiet


\* A step that leaves rows and tables alone and ends no half-made index keeps
\* every finished index in its table.
LEMMA OwnTableFrame ==
  ASSUME OwnTable, UNCHANGED <<indexRow, tableDim, torn>>,
         \A z \in Slots : pc[z] \in {"create_table", "rollback"}
                           => pc'[z] = pc[z] /\ req'[z] = req[z]
  PROVE  OwnTable'
BY DEF OwnTable, HasIndex, Making, Pair

\* No step separates a finished index from its table when no other index
\* shares the table's identifier.
LEMMA OwnerStep == NamesApart /\ OwnerInv /\ [Next]_vars => OwnTable'
<1> SUFFICES ASSUME NamesApart, OwnerInv, [Next]_vars PROVE OwnTable'
  OBVIOUS
<1> USE ConstantsAssumption
    DEF OwnerInv, TableInv, TypeInv, TypeOK, Goto, Finish, Free, Spend, Fault, Unlock, dbVars, history, vars
<1>1. ASSUME NEW s \in Slots, Receive(s) PROVE OwnTable'
  <2> USE <1>1
  <2>1. \A z \in Slots : pc[z] \in {"create_table", "rollback"}
                          => pc'[z] = pc[z] /\ req'[z] = req[z]
    BY DEF Receive, SlotTypes
  <2> QED
    BY <2>1, OwnTableFrame DEF Receive, s3Vars
<1>2. ASSUME NEW s \in Slots, InsertBucketRow(s) PROVE OwnTable'
  <2> USE <1>2
  <2>1. \A z \in Slots : pc[z] \in {"create_table", "rollback"}
                          => pc'[z] = pc[z] /\ req'[z] = req[z]
    BY DEF InsertBucketRow, SlotTypes
  <2> QED
    BY <2>1, OwnTableFrame DEF InsertBucketRow, s3Vars
<1>3. ASSUME NEW s \in Slots, EnsureBucket(s) PROVE OwnTable'
  <2> USE <1>3
  <2>1. \A z \in Slots : pc[z] \in {"create_table", "rollback"}
                          => pc'[z] = pc[z] /\ req'[z] = req[z]
    BY DEF EnsureBucket, SlotTypes
  <2> QED
    BY <2>1, OwnTableFrame DEF EnsureBucket, s3Vars
<1>4. ASSUME NEW s \in Slots, CountIndexes(s) PROVE OwnTable'
  <2> USE <1>4
  <2>1. \A z \in Slots : pc[z] \in {"create_table", "rollback"}
                          => pc'[z] = pc[z] /\ req'[z] = req[z]
    BY DEF CountIndexes, SlotTypes
  <2> QED
    BY <2>1, OwnTableFrame DEF CountIndexes, s3Vars
<1>5. ASSUME NEW s \in Slots, DeleteBucketRow(s) PROVE OwnTable'
  <2> USE <1>5
  <2>1. \A z \in Slots : pc[z] \in {"create_table", "rollback"}
                          => pc'[z] = pc[z] /\ req'[z] = req[z]
    BY DEF DeleteBucketRow, SlotTypes
  <2> QED
    BY <2>1, OwnTableFrame DEF DeleteBucketRow, s3Vars
<1>6. ASSUME NEW s \in Slots, DeleteS3Bucket(s) PROVE OwnTable'
  <2> USE <1>6
  <2>1. \A z \in Slots : pc[z] \in {"create_table", "rollback"}
                          => pc'[z] = pc[z] /\ req'[z] = req[z]
    BY DEF DeleteS3Bucket, SlotTypes
  <2> QED
    BY <2>1, OwnTableFrame DEF DeleteS3Bucket, s3Vars
<1>7. ASSUME NEW s \in Slots, ListSnapshots(s) PROVE OwnTable'
  <2> USE <1>7
  <2>1. \A z \in Slots : pc[z] \in {"create_table", "rollback"}
                          => pc'[z] = pc[z] /\ req'[z] = req[z]
    BY DEF ListSnapshots, SlotTypes
  <2> QED
    BY <2>1, OwnTableFrame DEF ListSnapshots, s3Vars
<1>8. ASSUME NEW s \in Slots, DropSnapshot(s) PROVE OwnTable'
  <2> USE <1>8
  <2>1. \A z \in Slots : pc[z] \in {"create_table", "rollback"}
                          => pc'[z] = pc[z] /\ req'[z] = req[z]
    BY DEF DropSnapshot, SlotTypes
  <2> QED
    BY <2>1, OwnTableFrame DEF DropSnapshot, s3Vars
<1>9. ASSUME NEW s \in Slots, WriteSnapshot(s) PROVE OwnTable'
  <2> USE <1>9
  <2>1. \A z \in Slots : pc[z] \in {"create_table", "rollback"}
                          => pc'[z] = pc[z] /\ req'[z] = req[z]
    BY DEF WriteSnapshot, SlotTypes
  <2> QED
    BY <2>1, OwnTableFrame DEF WriteSnapshot, s3Vars
<1>10. ASSUME NEW s \in Slots, LookupIndex(s) PROVE OwnTable'
  <2> USE <1>10
  <2>1. \A z \in Slots : pc[z] \in {"create_table", "rollback"}
                          => pc'[z] = pc[z] /\ req'[z] = req[z]
    BY DEF LookupIndex, SlotTypes
  <2> QED
    BY <2>1, OwnTableFrame DEF LookupIndex, s3Vars
<1>11. ASSUME NEW s \in Slots, UpsertRow(s) PROVE OwnTable'
  <2> USE <1>11
  <2>1. \A z \in Slots : pc[z] \in {"create_table", "rollback"}
                          => pc'[z] = pc[z] /\ req'[z] = req[z]
    BY DEF UpsertRow, SlotTypes
  <2> QED
    BY <2>1, OwnTableFrame DEF UpsertRow, s3Vars
<1>12. ASSUME NEW s \in Slots, DeleteRows(s) PROVE OwnTable'
  <2> USE <1>12
  <2>1. \A z \in Slots : pc[z] \in {"create_table", "rollback"}
                          => pc'[z] = pc[z] /\ req'[z] = req[z]
    BY DEF DeleteRows, SlotTypes
  <2> QED
    BY <2>1, OwnTableFrame DEF DeleteRows, s3Vars
<1>13. ASSUME NEW s \in Slots, Deliver(s) PROVE OwnTable'
  <2> USE <1>13
  <2>1. \A z \in Slots : pc[z] \in {"create_table", "rollback"}
                          => pc'[z] = pc[z] /\ req'[z] = req[z]
    BY DEF Deliver, SlotTypes
  <2> QED
    BY <2>1, OwnTableFrame DEF Deliver, s3Vars
<1>14. ASSUME NEW s \in Slots, Disconnect(s) PROVE OwnTable'
  <2> USE <1>14
  <2>1. \A z \in Slots : pc[z] \in {"create_table", "rollback"}
                          => pc'[z] = pc[z] /\ req'[z] = req[z]
    BY DEF Disconnect, SlotTypes, S3Pc
  <2> QED
    BY <2>1, OwnTableFrame DEF Disconnect, s3Vars
<1>15. ASSUME NEW s \in Slots, CreateHnsw(s) PROVE OwnTable'
  <2> USE <1>15
  <2>1. \A z \in Slots : pc[z] \in {"create_table", "rollback"}
                          => pc'[z] = pc[z] /\ req'[z] = req[z]
    BY DEF CreateHnsw, SlotTypes
  <2> QED
    BY <2>1, OwnTableFrame DEF CreateHnsw, s3Vars
<1>16. ASSUME NEW s \in Slots, InsertIndexRow(s) PROVE OwnTable'
  <2> USE <1>16
  <2>1. Pair(s) \in Pairs
    BY RequestFacts DEF InsertIndexRow
  <2> QED
    BY <2>1 DEF InsertIndexRow, SlotTypes, DbTypes, OwnTable, HasIndex, Making, Pair, Table
<1>17. ASSUME NEW s \in Slots, CreateTable(s) PROVE OwnTable'
  <2> USE <1>17
  <2>1. Pair(s) \in Pairs /\ Table(s) \in Tables
    BY RequestFacts DEF CreateTable
  <2>2. indexRow[Pair(s)] = req[s].dim
    BY DEF CreateTable, MidCall
  <2>3. CASE TableExists(s)
    BY <2>3 DEF CreateTable, SlotTypes, DbTypes, OwnTable, HasIndex, Making, Pair, Table
  <2>4. CASE ~TableExists(s)
    <3>1. ASSUME NEW p \in Pairs, p # Pair(s)
          PROVE  tableDim'[TableOf[p]] = tableDim[TableOf[p]] /\ (Making(p) => Making(p)')
      BY <2>1, <2>4, <3>1 DEF CreateTable, NamesApart, SlotTypes, DbTypes, HasIndex, Making, Pair, Table
    <3>2. tableDim'[Table(s)] = req[s].dim
      BY <2>1, <2>4 DEF CreateTable, DbTypes
    <3> QED
      BY <2>1, <2>2, <2>4, <3>1, <3>2 DEF CreateTable, OwnTable, HasIndex, Table, Pair
  <2> QED
    BY <2>3, <2>4
<1>18. ASSUME NEW s \in Slots, RollbackIndexRow(s) PROVE OwnTable'
  <2> USE <1>18
  <2>1. Pair(s) \in Pairs
    BY RequestFacts DEF RollbackIndexRow
  <2> QED
    BY <2>1 DEF RollbackIndexRow, UndoRow, SlotTypes, DbTypes, OwnTable, HasIndex, Making, Pair, Table
<1>19. ASSUME NEW s \in Slots, DeleteIndexRow(s) PROVE OwnTable'
  <2> USE <1>19
  <2>1. Pair(s) \in Pairs
    BY RequestFacts DEF DeleteIndexRow
  <2> QED
    BY <2>1 DEF DeleteIndexRow, SlotTypes, DbTypes, OwnTable, HasIndex, Making, Pair, Table
<1>20. ASSUME NEW s \in Slots, DropTable(s) PROVE OwnTable'
  <2> USE <1>20
  <2>1. Pair(s) \in Pairs /\ Table(s) \in Tables
    BY RequestFacts DEF DropTable
  <2>2. indexRow[Pair(s)] = NoDim
    BY DEF DropTable, MidCall
  <2>3. ASSUME NEW p \in Pairs, p # Pair(s)
        PROVE  tableDim'[TableOf[p]] = tableDim[TableOf[p]] /\ (Making(p) => Making(p)')
    BY <2>1, <2>3 DEF DropTable, Drop, NamesApart, SlotTypes, DbTypes, HasIndex, Making, Pair, Table
  <2> QED
    BY <2>1, <2>2, <2>3 DEF DropTable, OwnTable, HasIndex
<1>21. ASSUME Crash PROVE OwnTable'
  <2> USE <1>21
  <2>1. ASSUME NEW p \in Pairs, Making(p), UNCHANGED dbVars
        PROVE  p \in torn' \/ indexRow'[p] = NoDim
    BY <2>1 DEF Crash, Making
  <2> QED
    BY <2>1 DEF Crash, OwnTable, HasIndex
<1>22. ASSUME Open PROVE OwnTable'
  <2> USE <1>22
  <2> QED
    BY OwnTableFrame DEF Open, slotVars
<1>23. ASSUME NEW p \in Pairs, ListForReplay(p) PROVE OwnTable'
  <2> USE <1>23
  <2> QED
    BY OwnTableFrame DEF ListForReplay, slotVars
<1>24. ASSUME NEW p \in Pairs, NEW k \in Keys, ReplaySnapshot(p, k) PROVE OwnTable'
  <2> USE <1>24
  <2> QED
    BY OwnTableFrame DEF ReplaySnapshot, slotVars
<1>25. ASSUME Serve PROVE OwnTable'
  <2> USE <1>25
  <2> QED
    BY OwnTableFrame DEF Serve, slotVars
<1>26. ASSUME UNCHANGED vars PROVE OwnTable'
  <2> USE <1>26
  <2> QED
    BY OwnTableFrame DEF slotVars
<1> QED
  BY <1>1, <1>2, <1>3, <1>4, <1>5, <1>6, <1>7, <1>8, <1>9, <1>10, <1>11, <1>12, <1>13, <1>14, <1>15, <1>16, <1>17, <1>18, <1>19, <1>20, <1>21, <1>22, <1>23, <1>24, <1>25, <1>26
     DEF Next, Step, Boot, Quiet

-----------------------------------------------------------------------------

\* Every variable keeps its type, whatever the interleaving of handlers,
\* failures, crashes and boots.
THEOREM TypeCorrect == Spec => []TypeOK
<1>1. TypeInv => TypeOK
  BY DEF TypeInv
<1> QED
  BY TypeInit, TypeStep, <1>1, PTL DEF Spec

\* A state-store call of several statements is never interleaved with another:
\* one slot at most is inside one, and it has the connection's mutex.
THEOREM StoreCallsAlone == Spec => []Alone
<1>1. TypeInv => Alone
  BY DEF TypeInv
<1> QED
  BY TypeInit, TypeStep, <1>1, PTL DEF Spec

\* A fresh installation has no index and no table.
LEMMA TableInit == Init => MidCall /\ RowsFit /\ OwnTable
BY DEF Init, MidCall, RowsFit, EmptyTable, OwnTable, HasIndex

\* Every stored vector fits its table's column: concurrent puts, deletes and
\* re-creations with another dimension, crashes between two statements and the
\* replay of stale snapshots never store a vector of the wrong length.
THEOREM RowsAlwaysFit == Spec => []RowsFit
<1>1. Init => TableInv
  BY TypeInit, TableInit DEF TableInv
<1>2. TableInv /\ [Next]_vars => TableInv'
  BY TypeStep, TableStep DEF TableInv
<1>3. TableInv => RowsFit
  BY DEF TableInv
<1> QED
  BY <1>1, <1>2, <1>3, PTL DEF Spec

\* When no two indexes share a table identifier, an index that no crash left
\* half made has its table, as wide as its row says.
THEOREM IndexesOwnTables == NamesApart => (Spec => []OwnTable)
<1> SUFFICES ASSUME NamesApart PROVE Spec => []OwnTable
  OBVIOUS
<1>1. Init => OwnerInv
  BY TypeInit, TableInit DEF OwnerInv, TableInv
<1>2. OwnerInv /\ [Next]_vars => OwnerInv'
  BY TypeStep, TableStep, OwnerStep DEF OwnerInv, TableInv
<1>3. OwnerInv => OwnTable
  BY DEF OwnerInv
<1> QED
  BY <1>1, <1>2, <1>3, PTL DEF Spec
=============================================================================
