--------------------------- MODULE MCTableService ---------------------------
(* Small instances of TableServiceApi: one bucket name with one namespace  *)
(* and one table in it.                                                    *)
EXTENDS TableServiceApi, TLC

CONSTANTS b1, n1, t1

R(op, b) == [op |-> op, bucket |-> b, ns |-> n1, table |-> t1]

\* The life of one bucket with its namespace and table.
OneBucket == {R(op, b1) : op \in BucketOps \cup CatalogOps}

SlotSymmetry == Permutations(Slots)
=============================================================================
