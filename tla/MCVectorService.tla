-------------------------- MODULE MCVectorService --------------------------
(***************************************************************************)
(* Small instances of VectorServiceApi: one bucket, one or two index       *)
(* names, two keys, two vectors of dimension d1 and one of dimension d2.   *)
(* Each run picks the requests its question needs.                         *)
(***************************************************************************)
EXTENDS VectorServiceApi, TLC

CONSTANTS b1, i1, i2, k1, k2, v1, v2, w1, d1, d2

MCVecs  == {v1, v2, w1}
MCDimOf == (v1 :> d1) @@ (v2 :> d1) @@ (w1 :> d2)

\* Index names that stay apart when they become table names.
MCTables == Pairs
Distinct == [p \in Pairs |-> p]
\* Names like "a-b" and "a.b", which become one identifier.
Aliased == [p \in Pairs |-> <<p[1], i1>>]

R(op, p, d, batch, drop) == [op |-> op, at |-> p, dim |-> d, batch |-> batch, drop |-> drop]
W(k, v) == [key |-> k, vec |-> v]

NewBucket(b)   == R("CreateVectorBucket", <<b, i1>>, d1, <<>>, {})
DropBucket(b)  == R("DeleteVectorBucket", <<b, i1>>, d1, <<>>, {})
NewIndex(p, d) == R("CreateIndex", p, d, <<>>, {})
DropIndex(p)   == R("DeleteIndex", p, d1, <<>>, {})
Put(p, batch)  == R("PutVectors", p, d1, batch, {})
Del(p, drop)   == R("DeleteVectors", p, d1, <<>>, drop)

\* The life of one index in one bucket, all operations.
OneIndex ==
  LET p == <<b1, i1>> IN
  {NewBucket(b1), DropBucket(b1), NewIndex(p, d1), NewIndex(p, d2), DropIndex(p),
   Put(p, <<W(k1, v1), W(k2, v1)>>), Put(p, <<W(k1, v2)>>), Put(p, <<W(k1, w1)>>),
   Put(p, <<W(k1, v1), W(k1, v2)>>),
   Del(p, {k1})}

\* Two indexes of one bucket.
TwoIndexes ==
  LET p == <<b1, i1>>
      q == <<b1, i2>> IN
  {NewBucket(b1), DropBucket(b1), NewIndex(p, d1), NewIndex(q, d2),
   DropIndex(p), DropIndex(q),
   Put(p, <<W(k1, v1), W(k2, v1)>>), Put(q, <<W(k1, w1)>>),
   Del(p, {k1})}

=============================================================================
