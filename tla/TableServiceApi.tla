-------------------------- MODULE TableServiceApi --------------------------
(***************************************************************************)
(* TableService implements TableApi.  A life of a bucket is the warehouse  *)
(* its row points at.  A warehouse that was made and has no row yet, and   *)
(* the rollback that takes it back, are nobody's business but the          *)
(* handler's that made it.                                                 *)
(***************************************************************************)
EXTENDS TableService

\* How far a request is, as its client may know: a create that got no row is
\* refused, its rollback changes nothing any more.
Stage(s) == CASE pc[s] = "idle"                             -> "free"
              [] pc[s] \in {"undo", "done"}                 -> reply[s]
              [] pc[s] \in {"delete_warehouse", "catalog"}  -> "open"
              [] pc[s] = "delete_row"                       -> "emptied"
              [] OTHER                                      -> "asked"

\* The warehouse a request is about, while it is.
Held(s) == IF pc[s] \in {"delete_warehouse", "delete_row", "catalog"} THEN id[s] ELSE NoId

\* The warehouses that a deletion took; a rollback's do not count.
Closed == {w \in dropped : warehouse[w] = NoName}

Api == INSTANCE TableApi WITH
         Lives   <- Ids,
         NoLife  <- NoId,
         current <- row,
         closed  <- Closed,
         call    <- req,
         held    <- [s \in Slots |-> Held(s)],
         stage   <- [s \in Slots |-> Stage(s)]

-----------------------------------------------------------------------------

\* Between any number of requests in flight, lost answers and process exits,
\* the table service is the store of TableApi: a bucket is created whole, with
\* an empty catalog no other request holds, or not at all; a request acts on the
\* one life of its bucket that it opened, also after the bucket was deleted and
\* created again; each refusal was true at some moment and changed nothing; and
\* a create that fails leaves every bucket and catalog as it was.
Implements == Api!Spec
=============================================================================
