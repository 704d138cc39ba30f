----------------------------- MODULE VectorApi -----------------------------
(***************************************************************************)
(* What a client may rely on when it talks to the S3 Vectors half of       *)
(* marila: buckets, indexes and vectors change in one step per request,    *)
(* every answer is true at a moment between the request and the answer,    *)
(* and an error of an index or vector operation means that nothing         *)
(* changed.  The stores, their mirroring and the order of calls are        *)
(* VectorService's; it implements this (VectorServiceApi).                 *)
(*                                                                         *)
(* Not promised, because the code does not keep it: that a bucket that is  *)
(* deleted has no index, that an error of a bucket operation means that    *)
(* nothing changed, and that a request the process dies in is all or       *)
(* nothing.                                                                *)
(***************************************************************************)
EXTENDS Integers, Sequences

CONSTANTS
  Buckets, Indexes, Keys, Vecs, Dims,
  DimOf,        \* DimOf[v]: the length of the vector v
  Slots,        \* requests that can be in flight together
  Requests,     \* records [op, at, dim, batch, drop]
  NoDim, NoVec, NoRequest

Pairs == Buckets \X Indexes

VARIABLES
  buckets,  \* buckets that exist
  dim,      \* dim[p]: the dimension of index p, or NoDim
  rows,     \* rows[p][k]: the vector index p holds under k, or NoVec
  serving,  \* requests are accepted
  call,     \* call[s]: the request in flight, or NoRequest
  stage     \* stage[s]: "free", "asked", "landed", or the answer

db   == <<buckets, dim, rows>>
vars == <<db, serving, call, stage>>

Refusals  == {"NotFound", "Conflict", "Validation", "Internal"}
BucketOps == {"CreateVectorBucket", "DeleteVectorBucket"}

Bucket(s) == call[s].at[1]
Pair(s)   == call[s].at
NoRows    == [k \in Keys |-> NoVec]

Become(s, st) == stage' = [stage EXCEPT ![s] = st]

Init ==
  /\ buckets = {}
  /\ dim = [p \in Pairs |-> NoDim]
  /\ rows = [p \in Pairs |-> NoRows]
  /\ serving = FALSE
  /\ call = [s \in Slots |-> NoRequest]
  /\ stage = [s \in Slots |-> "free"]

-----------------------------------------------------------------------------
(* A request and its one effect.                                           *)

Ask(s) ==
  /\ serving
  /\ stage[s] = "free"
  /\ \E q \in Requests : call' = [call EXCEPT ![s] = q]
  /\ Become(s, "asked")
  /\ UNCHANGED <<db, serving>>

\* r2 is r after the first j writes of the batch, the last write of a key wins.
After(batch, j, r, r2) ==
  \A k \in Keys :
    \/ /\ \A n \in 1..j : batch[n].key # k
       /\ r2[k] = r[k]
    \/ \E n \in 1..j : /\ batch[n].key = k
                       /\ \A m \in (n + 1)..j : batch[m].key # k
                       /\ r2[k] = batch[n].vec

\* Only the rows of index p change.
Changed(p, r) == rows' = [rows EXCEPT ![p] = r]
RowSets == [Keys -> Vecs \cup {NoVec}]

CreateVectorBucket(s) ==
  /\ Bucket(s) \notin buckets
  /\ buckets' = buckets \cup {Bucket(s)}
  /\ UNCHANGED <<dim, rows>>

DeleteVectorBucket(s) ==
  /\ Bucket(s) \in buckets
  /\ buckets' = buckets \ {Bucket(s)}
  /\ UNCHANGED <<dim, rows>>

\* An index is made empty, with the dimension asked for.
CreateIndex(s) ==
  /\ Bucket(s) \in buckets
  /\ dim[Pair(s)] = NoDim
  /\ dim' = [dim EXCEPT ![Pair(s)] = call[s].dim]
  /\ Changed(Pair(s), NoRows)
  /\ UNCHANGED buckets

DeleteIndex(s) ==
  /\ dim[Pair(s)] # NoDim
  /\ dim' = [dim EXCEPT ![Pair(s)] = NoDim]
  /\ Changed(Pair(s), NoRows)
  /\ UNCHANGED buckets

AllFit(s) == \A n \in DOMAIN call[s].batch : DimOf[call[s].batch[n].vec] = dim[Pair(s)]

PutVectors(s) ==
  /\ dim[Pair(s)] # NoDim
  /\ AllFit(s)
  /\ \E r \in RowSets : /\ After(call[s].batch, Len(call[s].batch), rows[Pair(s)], r)
                        /\ Changed(Pair(s), r)
  /\ UNCHANGED <<buckets, dim>>

DeleteVectors(s) ==
  /\ dim[Pair(s)] # NoDim
  /\ Changed(Pair(s), [k \in Keys |-> IF k \in call[s].drop THEN NoVec ELSE rows[Pair(s)][k]])
  /\ UNCHANGED <<buckets, dim>>

Effect(s) ==
  \/ call[s].op = "CreateVectorBucket" /\ CreateVectorBucket(s)
  \/ call[s].op = "DeleteVectorBucket" /\ DeleteVectorBucket(s)
  \/ call[s].op = "CreateIndex"        /\ CreateIndex(s)
  \/ call[s].op = "DeleteIndex"        /\ DeleteIndex(s)
  \/ call[s].op = "PutVectors"         /\ PutVectors(s)
  \/ call[s].op = "DeleteVectors"      /\ DeleteVectors(s)

\* The request takes effect; its answer may still have to come.
Land(s) ==
  /\ stage[s] = "asked"
  /\ Effect(s)
  /\ Become(s, "landed") \/ Become(s, "ok")
  /\ UNCHANGED <<serving, call>>

-----------------------------------------------------------------------------
(* Answers.                                                                *)

\* The answer names a reason only if it is one, at this moment.
Justified(s, r) ==
  LET op == call[s].op IN
  CASE r = "NotFound" ->
         IF op \in BucketOps \cup {"CreateIndex"} THEN Bucket(s) \notin buckets
                                                   ELSE dim[Pair(s)] = NoDim
    [] r = "Conflict" ->
         \/ op = "CreateVectorBucket" /\ Bucket(s) \in buckets
         \/ op = "DeleteVectorBucket" /\ \E p \in Pairs : p[1] = Bucket(s) /\ dim[p] # NoDim
         \/ op = "CreateIndex" /\ dim[Pair(s)] # NoDim
    [] r = "Validation" ->
         op = "PutVectors" /\ dim[Pair(s)] # NoDim /\ ~AllFit(s)
    [] OTHER -> TRUE

\* An error, and nothing has changed.
Refuse(s, r) ==
  /\ stage[s] = "asked"
  /\ Justified(s, r)
  /\ Become(s, r)
  /\ UNCHANGED <<db, serving, call>>

\* Success, of what has taken effect; a bucket operation may fail after that.
Confirm(s) ==
  /\ stage[s] = "landed"
  /\ \/ Become(s, "ok")
     \/ call[s].op \in BucketOps /\ Become(s, "Internal")
  /\ UNCHANGED <<db, serving, call>>

\* The client has the answer, or has gone.
Leave(s) ==
  /\ stage[s] # "free"
  /\ Become(s, "free")
  /\ call' = [call EXCEPT ![s] = NoRequest]
  /\ UNCHANGED <<db, serving>>

-----------------------------------------------------------------------------
(* The process dies and comes back.                                        *)

\* What is left of a request the process died in: of a batch the first
\* writes; of a new index the index, with rows an old one of its name may have
\* left, if it died in the deletion of that one; of a deletion all.
CutShort(s) ==
  /\ stage[s] = "asked"
  /\ \/ /\ call[s].op = "CreateIndex"
        /\ dim[Pair(s)] = NoDim
        /\ dim' = [dim EXCEPT ![Pair(s)] = call[s].dim]
        /\ \E r \in RowSets : Changed(Pair(s), r)
        /\ UNCHANGED buckets
     \/ call[s].op = "DeleteIndex" /\ DeleteIndex(s)
     \/ /\ call[s].op = "PutVectors"
        /\ dim[Pair(s)] # NoDim
        /\ AllFit(s)
        /\ \E j \in 0..Len(call[s].batch), r \in RowSets :
             After(call[s].batch, j, rows[Pair(s)], r) /\ Changed(Pair(s), r)
        /\ UNCHANGED <<buckets, dim>>

\* At most one request is cut short: the stores' calls come one at a time.
\* With the database file lost nothing is left.
Die ==
  /\ \/ UNCHANGED db
     \/ \E s \in Slots : CutShort(s)
     \/ /\ buckets' = {}
        /\ dim' = [p \in Pairs |-> NoDim]
        /\ rows' = [p \in Pairs |-> NoRows]
  /\ serving' = FALSE
  /\ call' = [s \in Slots |-> NoRequest]
  /\ stage' = [s \in Slots |-> "free"]

\* Before it serves again vectors come back from the object store.
Restore(p, k) ==
  /\ ~serving
  /\ dim[p] # NoDim
  /\ \E v \in Vecs : /\ DimOf[v] = dim[p]
                     /\ rows' = [rows EXCEPT ![p][k] = v]
  /\ UNCHANGED <<buckets, dim, serving, call, stage>>

Serve ==
  /\ serving' = TRUE
  /\ UNCHANGED <<db, call, stage>>

-----------------------------------------------------------------------------

Next ==
  \/ \E s \in Slots :
       \/ Ask(s) \/ Land(s) \/ Confirm(s) \/ Leave(s)
       \/ \E r \in Refusals : Refuse(s, r)
  \/ Die
  \/ \E p \in Pairs, k \in Keys : Restore(p, k)
  \/ Serve

Spec == Init /\ [][Next]_vars
=============================================================================
