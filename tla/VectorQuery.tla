----------------------------- MODULE VectorQuery -----------------------------
(***************************************************************************)
(* VectorReads with the filters of MetadataFilter: the rows have metadata, *)
(* and a query gets what the WHERE clause of its filter lets through.      *)
(***************************************************************************)
EXTENDS VectorReads, MetadataFilter

CONSTANT Meta   \* Meta[n][f]: the value of field f in row n, or Absent

\* A row is let through when the clause is true: NULL is not.
Translated == [f \in {g \in Filters : Legal[g]} |-> {n \in Names : Sql(f, Meta[n]) = "T"}]

ASSUME QueryConstants == Filters \subseteq Terms /\ Lets = Translated

\* Whoever searches with a filter gets, of the rows that have every field the
\* filter names, exactly those it describes, whatever is nested in it: also in
\* SQL, where a negation is not true of all that is not true.
FilterMeans ==
  \A c \in Clients : filter[c] # NoFilter =>
    \A n \in Names :
      (\A f \in FieldsOf[filter[c]] : Meta[n][f] # Absent)
        => (n \in want[c] <=> Matches(filter[c], Meta[n]))
=============================================================================
