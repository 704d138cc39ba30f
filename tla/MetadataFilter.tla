--------------------------- MODULE MetadataFilter ---------------------------
(***************************************************************************)
(* The metadata filter of QueryVectors (crates/vectors/src/filter.rs): a   *)
(* subset of MongoDB's query language, translated to a WHERE clause over   *)
(* the JSON column of the backing table.                                   *)
(*                                                                         *)
(* A filter is a tree.  A leaf [field, op, arg] is one operator on one     *)
(* field, arg the set of its operands (one for all but $in and $nin); a    *)
(* node [kind, of] joins the filters of the set `of`: "object" the keys of *)
(* an object, "operators" those on one field, "$and", "$or", and "$not"    *)
(* with the one filter it negates.                                         *)
(*                                                                         *)
(* Sql is what the translated clause comes to in SQL, where a comparison   *)
(* with a field that is not there is neither true nor false; Matches is    *)
(* what the filter says.  A field compared with $gt and the like holds a   *)
(* number or is not there: DuckDB fails the query when a cast fails.       *)
(* What is recursive in the code is a recursive function on Terms here.    *)
(***************************************************************************)
EXTENDS Integers

CONSTANTS
  Fields,     \* legal field names
  Numbers,    \* the numbers among the metadata values
  Absent,     \* the value of a field that is not there
  Terms,      \* filters, and the filters nested in them
  Depth       \* Depth[e]: how deep the nesting in e is

Orders == {"$gt", "$gte", "$lt", "$lte"}
Sets   == {"$in", "$nin"}
Leaves == {"$eq", "$ne"} \cup Orders \cup Sets
Nodes  == {"object", "operators", "$and", "$or", "$not"}

IsLeaf(e) == "op" \in DOMAIN e
Parts(e)  == IF IsLeaf(e) THEN {} ELSE e.of

\* A filter is parsed JSON: its nesting comes to an end.
ASSUME FilterConstants ==
  /\ Numbers \subseteq Int
  /\ Depth \in [Terms -> Nat]
  /\ \A e \in Terms : \A f \in Parts(e) : f \in Terms /\ Depth[f] < Depth[e]

-----------------------------------------------------------------------------
(* Which filters are translated.                                           *)

LegalLeaf(e) ==
  /\ e.field \in Fields
  /\ e.op \in Leaves
  /\ e.op \in Orders => e.arg \subseteq Numbers

\* An object may be empty, and so may a list, but a field has an operator.
Legal[e \in Terms] ==
  IF IsLeaf(e) THEN LegalLeaf(e)
  ELSE /\ e.kind \in Nodes
       /\ e.kind = "operators" => e.of # {}
       /\ \A f \in e.of : Legal[f]

-----------------------------------------------------------------------------
(* SQL: "T", "F" and NULL, "N".                                            *)

And(S) == CASE "F" \in S -> "F" [] "N" \in S -> "N" [] OTHER -> "T"
Or(S)  == CASE "T" \in S -> "T" [] "N" \in S -> "N" [] OTHER -> "F"
Not(t) == CASE t = "T" -> "F" [] t = "F" -> "T" [] OTHER -> "N"
Bool(b) == IF b THEN "T" ELSE "F"

Equals(m, f, v) == IF m[f] = Absent THEN "N" ELSE Bool(m[f] = v)

InOrder(op, x, y) == CASE op = "$gt"  -> x > y
                       [] op = "$gte" -> x >= y
                       [] op = "$lt"  -> x < y
                       [] op = "$lte" -> x <= y

\* Mutant of NotIn: each alternative is negated, and they stay joined by OR.
NotAll(m, f, V) == Or({Not(Equals(m, f, v)) : v \in V})
\* NOT (f = v1 OR f = v2 ...)
NotIn(m, f, V) == Not(Or({Equals(m, f, v) : v \in V}))

SqlLeaf(e, m) ==
  CASE e.op \in {"$eq", "$in"}  -> Or({Equals(m, e.field, v) : v \in e.arg})
    [] e.op \in {"$ne", "$nin"} -> NotIn(m, e.field, e.arg)
    [] e.op \in Orders ->
         IF m[e.field] = Absent
           THEN "N"
           ELSE Bool(\A v \in e.arg : InOrder(e.op, m[e.field], v))

\* What the clauses of a node's parts are joined to: an empty $or is TRUE, like
\* an empty $and and an empty object.
Join(kind, S) ==
  CASE kind = "$not" -> Not(And(S))
    [] kind = "$or"  -> IF S = {} THEN "T" ELSE Or(S)
    [] OTHER         -> And(S)

Sql(filter, m) ==
  LET clause[e \in Terms] ==
        IF IsLeaf(e) THEN SqlLeaf(e, m) ELSE Join(e.kind, {clause[f] : f \in e.of})
  IN  clause[filter]

-----------------------------------------------------------------------------
(* What a filter says of a row that has the fields it names.               *)

MatchesLeaf(e, m) ==
  \/ e.op \in {"$eq", "$in"} /\ m[e.field] \in e.arg
  \/ e.op \in {"$ne", "$nin"} /\ m[e.field] \notin e.arg
  \/ e.op \in Orders /\ \A v \in e.arg : InOrder(e.op, m[e.field], v)

Matches(filter, m) ==
  LET says[e \in Terms] ==
        IF IsLeaf(e) THEN MatchesLeaf(e, m)
        ELSE \/ e.kind = "$not" /\ ~(\A f \in e.of : says[f])
             \/ e.kind = "$or" /\ (e.of = {} \/ \E f \in e.of : says[f])
             \/ e.kind \notin {"$not", "$or"} /\ \A f \in e.of : says[f]
  IN  says[filter]

FieldsOf[e \in Terms] == IF IsLeaf(e) THEN {e.field} ELSE UNION {FieldsOf[f] : f \in e.of}
=============================================================================
