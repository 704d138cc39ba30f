-------------------------- MODULE VectorServiceApi --------------------------
(***************************************************************************)
(* VectorService implements VectorApi.  A store call of several statements *)
(* changes the database statement by statement, but no other call sees its *)
(* middle (the connection's mutex, crates/core/src/duckdb_store.rs), so    *)
(* what clients can see is the database as it was when the connection was  *)
(* last free.  Two history variables hold that view; they change nothing.  *)
(***************************************************************************)
EXTENDS VectorService

VARIABLES
  seenDim,   \* indexRow when the connection was last free
  seenRows   \* the rows of each index when the connection was last free

seen    == <<seenDim, seenRows>>
apiVars == <<vars, seen>>

\* The rows a query, a listing or a get of index p reads.
Visible == [p \in Pairs |-> IF indexRow[p] = NoDim THEN EmptyTable ELSE tableRows[TableOf[p]]]

See ==
  \/ /\ mutex' = NoSlot
     /\ seenDim' = indexRow'
     /\ seenRows' = Visible'
  \/ mutex' # NoSlot /\ UNCHANGED seen

\* How far a request is, as its client may know: done in the database, though
\* not in the object store, is landed.
Landed == {"ensure_bucket", "delete_s3_bucket", "list_snapshots", "drop_snapshots"}
Stage(s) == CASE pc[s] = "idle"   -> "free"
              [] pc[s] = "done"   -> reply[s]
              [] pc[s] \in Landed -> "landed"
              [] OTHER            -> "asked"

Api == INSTANCE VectorApi WITH
         buckets <- bucketRow,
         dim     <- seenDim,
         rows    <- seenRows,
         serving <- phase = "up",
         call    <- req,
         stage   <- [s \in Slots |-> Stage(s)]

ApiInit == Init /\ seenDim = indexRow /\ seenRows = Visible
ApiNext == Next /\ See
ApiSpec == ApiInit /\ [][ApiNext]_apiVars

FairApiSpec == ApiSpec /\ WF_vars(Boot) /\ \A s \in Slots : WF_vars(Step(s))

-----------------------------------------------------------------------------

\* Between any number of requests in flight, lost connections and process
\* exits, the vector service is the atomic store of VectorApi: each request
\* takes effect at once or not at all, each answer was true at some moment, an
\* error of an index or vector operation left everything as it was, and a
\* process exit cuts short at most one request.
Implements == Api!Spec
=============================================================================
