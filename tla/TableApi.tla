------------------------------ MODULE TableApi ------------------------------
(***************************************************************************)
(* What a client may rely on when it talks to the S3 Tables half of        *)
(* marila.  A table bucket has a life: it is created with an empty catalog *)
(* that nobody has seen before, and a request about namespaces and tables  *)
(* acts in one step on the one life of its bucket that it opened.  The     *)
(* object store, the warehouses and their names, the rollback of a create  *)
(* and lost answers are TableService's; it implements this                 *)
(* (TableServiceApi).                                                      *)
(*                                                                         *)
(* Not promised, because the code does not keep it: that a deletion is one *)
(* step (the catalog goes before the bucket), that it takes away the       *)
(* bucket whose catalog it emptied (it goes by name), that the catalog is  *)
(* emptied while deleted tables are still being purged, and that a name    *)
(* without a bucket can be created.                                        *)
(***************************************************************************)
EXTENDS Integers

CONSTANTS
  Buckets, Namespaces, TableNames,
  Lives,      \* the lives buckets can have
  Slots,      \* requests that can be in flight together
  Requests,   \* records [op, bucket, ns, table]
  NoLife, NoRequest

VARIABLES
  current,    \* current[b]: the life bucket b is in, or NoLife
  closed,     \* the lives whose catalog was taken away
  namespaces, \* namespaces[g]: the namespaces of life g
  tables,     \* tables[g]: its <<namespace, table>> pairs
  call,       \* call[s]: the request in flight, or NoRequest
  held,       \* held[s]: the life the request opened, or NoLife
  stage       \* stage[s]: "free", "asked", "open", "emptied", or the answer

catalog == <<namespaces, tables>>
db      == <<current, closed, catalog>>
vars    == <<db, call, held, stage>>

OfBucket    == {"CreateNamespace", "ListNamespaces"}
OfNamespace == {"GetNamespace", "DeleteNamespace", "CreateTable", "ListTables"}
OfTable     == {"GetTable", "DeleteTable"}
CatalogOps  == OfBucket \cup OfNamespace \cup OfTable

Bucket(s) == call[s].bucket
Ns(s)     == call[s].ns
Table(s)  == <<call[s].ns, call[s].table>>
NamespacesOf(s) == namespaces[held[s]]
TablesOf(s)     == tables[held[s]]

Become(s, st) == stage' = [stage EXCEPT ![s] = st]
LetGo(s)      == held' = [held EXCEPT ![s] = NoLife]

Init ==
  /\ current = [b \in Buckets |-> NoLife]
  /\ closed = {}
  /\ namespaces = [g \in Lives |-> {}]
  /\ tables = [g \in Lives |-> {}]
  /\ call = [s \in Slots |-> NoRequest]
  /\ held = [s \in Slots |-> NoLife]
  /\ stage = [s \in Slots |-> "free"]

-----------------------------------------------------------------------------
(* Requests, and the errors that leave everything as it was.               *)

Ask(s) ==
  /\ stage[s] = "free"
  /\ \E q \in Requests : call' = [call EXCEPT ![s] = q]
  /\ Become(s, "asked")
  /\ UNCHANGED <<db, held>>

\* The request is about the life its bucket is in now.
Open(s) ==
  /\ stage[s] = "asked"
  /\ call[s].op \in CatalogOps \cup {"DeleteTableBucket"}
  /\ current[Bucket(s)] # NoLife
  /\ held' = [held EXCEPT ![s] = current[Bucket(s)]]
  /\ Become(s, "open")
  /\ UNCHANGED <<db, call>>

\* What a catalog request asks for is not in the life it opened.
Absent(s) ==
  \/ call[s].op \in OfBucket /\ held[s] \in closed
  \/ call[s].op \in OfNamespace /\ Ns(s) \notin NamespacesOf(s)
  \/ call[s].op \in OfTable /\ Table(s) \notin TablesOf(s)

\* What a catalog request would make is there already.
Taken(s) ==
  \/ call[s].op = "CreateNamespace" /\ Ns(s) \in NamespacesOf(s)
  \/ call[s].op = "CreateTable" /\ Table(s) \in TablesOf(s)

\* An answer names a reason only if it is one, at this moment.
Justified(s, r) ==
  LET op == call[s].op IN
  CASE r = "NotFound" ->
         \/ /\ stage[s] = "asked" \/ stage[s] = "emptied"
            /\ op \notin {"CreateTableBucket", "ListTableBuckets"}
            /\ current[Bucket(s)] = NoLife
         \/ stage[s] = "open" /\ Absent(s)
    [] r = "Conflict" ->
         \/ op = "CreateTableBucket" /\ current[Bucket(s)] # NoLife
         \/ stage[s] = "open" /\ Taken(s)
    [] r = "Internal" -> TRUE

Refuse(s, r) ==
  /\ stage[s] \in {"asked", "open", "emptied"}
  /\ Justified(s, r)
  /\ Become(s, r)
  /\ LetGo(s)
  /\ UNCHANGED <<db, call>>

-----------------------------------------------------------------------------
(* The effects.                                                            *)

\* A life no bucket is in, no request has opened, and with an empty catalog.
Unused(g) ==
  /\ g \notin closed
  /\ namespaces[g] = {} /\ tables[g] = {}
  /\ \A b \in Buckets : current[b] # g
  /\ \A s \in Slots : held[s] # g

CreateTableBucket(s) ==
  /\ stage[s] = "asked"
  /\ call[s].op = "CreateTableBucket"
  /\ current[Bucket(s)] = NoLife
  /\ \E g \in Lives : Unused(g) /\ current' = [current EXCEPT ![Bucket(s)] = g]
  /\ Become(s, "ok")
  /\ UNCHANGED <<closed, catalog, call, held>>

\* The first half of a deletion empties the catalog for good, or leaves it to
\* the requests that hold it; an error may be told all the same.
EmptyCatalog(s) ==
  /\ stage[s] = "open"
  /\ call[s].op = "DeleteTableBucket"
  /\ \/ /\ closed' = closed \cup {held[s]}
        /\ namespaces' = [namespaces EXCEPT ![held[s]] = {}]
        /\ tables' = [tables EXCEPT ![held[s]] = {}]
     \/ UNCHANGED <<closed, catalog>>
  /\ \/ Become(s, "emptied") /\ UNCHANGED held
     \/ Become(s, "Internal") /\ LetGo(s)
  /\ UNCHANGED <<current, call>>

\* The second half takes the bucket of the name away.
DeleteTableBucket(s) ==
  /\ stage[s] = "emptied"
  /\ current[Bucket(s)] # NoLife
  /\ current' = [current EXCEPT ![Bucket(s)] = NoLife]
  /\ Become(s, "ok")
  /\ LetGo(s)
  /\ UNCHANGED <<closed, catalog, call>>

ReadBucket(s) ==
  /\ stage[s] = "asked"
  /\ \/ call[s].op = "ListTableBuckets"
     \/ call[s].op = "GetTableBucket" /\ current[Bucket(s)] # NoLife
  /\ Become(s, "ok")
  /\ UNCHANGED <<db, call, held>>

\* What a catalog request does to the life it holds, and to no other.
Does(s) ==
  LET op            == call[s].op
      Holding(f, S) == [f EXCEPT ![held[s]] = S]
  IN
  \/ /\ op = "CreateNamespace"
     /\ namespaces' = Holding(namespaces, NamespacesOf(s) \cup {Ns(s)})
     /\ UNCHANGED tables
  \/ /\ op = "DeleteNamespace"
     /\ \A t \in TableNames : <<Ns(s), t>> \notin TablesOf(s)
     /\ namespaces' = Holding(namespaces, NamespacesOf(s) \ {Ns(s)})
     /\ UNCHANGED tables
  \/ /\ op = "CreateTable"
     /\ tables' = Holding(tables, TablesOf(s) \cup {Table(s)})
     /\ UNCHANGED namespaces
  \/ /\ op = "DeleteTable"
     /\ tables' = Holding(tables, TablesOf(s) \ {Table(s)})
     /\ UNCHANGED namespaces
  \/ /\ op \in {"ListNamespaces", "GetNamespace", "ListTables", "GetTable"}
     /\ UNCHANGED catalog

\* It is done in one step; that it is may be told as an error.
Catalog(s) ==
  /\ stage[s] = "open"
  /\ call[s].op \in CatalogOps
  /\ ~Absent(s) /\ ~Taken(s)
  /\ Does(s)
  /\ Become(s, "ok") \/ Become(s, "Internal")
  /\ LetGo(s)
  /\ UNCHANGED <<current, closed, call>>

-----------------------------------------------------------------------------
(* The client has its answer or has gone, and the process dies.            *)

Leave(s) ==
  /\ stage[s] # "free"
  /\ Become(s, "free")
  /\ LetGo(s)
  /\ call' = [call EXCEPT ![s] = NoRequest]
  /\ UNCHANGED db

Die ==
  /\ stage' = [s \in Slots |-> "free"]
  /\ held' = [s \in Slots |-> NoLife]
  /\ call' = [s \in Slots |-> NoRequest]
  /\ UNCHANGED db

Next ==
  \/ \E s \in Slots :
       \/ Ask(s) \/ Open(s) \/ ReadBucket(s) \/ Leave(s)
       \/ CreateTableBucket(s) \/ EmptyCatalog(s) \/ DeleteTableBucket(s) \/ Catalog(s)
       \/ \E r \in {"NotFound", "Conflict", "Internal"} : Refuse(s, r)
  \/ Die

Spec == Init /\ [][Next]_vars
=============================================================================
