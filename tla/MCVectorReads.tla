--------------------------- MODULE MCVectorReads ---------------------------
(***************************************************************************)
(* A small instance of VectorQuery: one reader among any number of         *)
(* writers, four names with a gap in their order, pages of one and two     *)
(* rows, and two metrics that order the rows differently.  Readers change  *)
(* nothing another reader sees, so one is enough.                          *)
(*                                                                         *)
(* Two fields, one with numbers and one with texts; one row lacks each     *)
(* field and one lacks both.  Every operator is used alone, and nested     *)
(* under a negation, an alternative and a conjunction.                     *)
(***************************************************************************)
EXTENDS VectorQuery, TLC

CONSTANTS c1, cosine, euclidean, gold, iron

MCNames    == {1, 2, 4, 5}
MCPrefixes == {MCNames, {2, 4, 5}}
MCDist     == (cosine    :> (1 :> 3 @@ 2 :> 1 @@ 4 :> 4 @@ 5 :> 2))
           @@ (euclidean :> (1 :> 1 @@ 2 :> 2 @@ 4 :> 3 @@ 5 :> 4))

MCMeta == 1 :> [tier |-> 1,      label |-> gold]
       @@ 2 :> [tier |-> 3,      label |-> iron]
       @@ 4 :> [tier |-> Absent, label |-> gold]
       @@ 5 :> [tier |-> 2,      label |-> Absent]

Leaf(f, o, A) == [field |-> f, op |-> o, arg |-> A]
Node(k, S)    == [kind |-> k, of |-> S]

Plain == {Leaf("tier", o, {2}) : o \in Orders \cup {"$eq", "$ne"}}
    \cup {Leaf("label", o, A) : o \in Sets, A \in SUBSET {gold, iron}}
    \cup {Leaf("label", "$eq", {2})}

\* A negation of two alternatives, and of all operators of one field.
Nested == {Node("$not", {Node("object", {e})}) : e \in Plain}
     \cup {Node(k, {Leaf("tier", "$gt", {1}), Leaf("label", "$ne", {gold})}) :
             k \in {"object", "$and", "$or"}}
     \cup {Node("$not", {Node("$or", {Leaf("tier", "$lt", {2}), Leaf("label", "$in", {iron})})}),
           Node("$not", {Node("operators", {Leaf("tier", "$gte", {2}), Leaf("tier", "$ne", {3})})}),
           Node("object", {}), Node("$or", {}), Node("$not", {Node("object", {})})}

Refused == {Leaf("tier", "$gt", {gold}), Leaf("1st", "$eq", {1}), Leaf("label", "$regex", {gold}),
            Node("operators", {}), Node("$nor", {}),
            Node("$or", {Leaf("tier", "$eq", {1}), Leaf("label", "$exists", {gold})})}

MCFilters == Plain \cup Nested \cup Refused
MCTerms   == MCFilters \cup UNION {Parts(e) \cup UNION {Parts(f) : f \in Parts(e)} : e \in MCFilters}
MCDepth   == [e \in MCTerms |->
                IF Parts(e) = {} THEN 0 ELSE IF \E f \in Parts(e) : Parts(f) # {} THEN 2 ELSE 1]
MCLets    == Translated
=============================================================================
