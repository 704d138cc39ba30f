---------------------------- MODULE VectorReads ----------------------------
(***************************************************************************)
(* The reads of the S3 Vectors half of marila: the listings, which a       *)
(* client pages through with the token of the page before                  *)
(* (ListVectorBuckets, ListIndexes, ListVectors); QueryVectors, which      *)
(* searches in one store call and looks up the metric in another; and the  *)
(* reads of one call (GetVectorBucket, GetIndex, GetVectors).              *)
(* crates/vectors/src/control_plane.rs, with the queries in                *)
(* crates/core/src/duckdb_store.rs.                                        *)
(*                                                                         *)
(* One table is listed and searched.  It stands for the index table of     *)
(* ListVectors and QueryVectors, whose owner is an index that can be       *)
(* deleted and made again; for the rows of a bucket's indexes, whose owner *)
(* is the bucket; and for the bucket rows, whose owner is always there.    *)
(* Each store call sees the rows of one moment; writers come in between.   *)
(*                                                                         *)
(* Abstracted: a name is its place in the order of the ORDER BY; vectors   *)
(* are their distance to the query, no two the same; a prefix is the names *)
(* it lets through, and so is a filter, if it can be translated (how, is   *)
(* MetadataFilter's); the HNSW index is a search that may miss any row.    *)
(***************************************************************************)
EXTENDS Integers, FiniteSetsExt

CONSTANTS
  Names,        \* names of rows, as places in their order
  Clients,
  PageSizes,    \* values of maxResults, after the clamp
  Prefixes,     \* the sets of names a prefix selects
  Filters,      \* metadata filters
  Lets,         \* Lets[f]: the names filter f lets through, if it is legal
  TopKs,        \* values of topK
  Oversample,   \* candidates per asked hit when there is a filter
  Metrics,      \* distance metrics
  Dist,         \* Dist[m][n]: how far row n is from the query under metric m
  NoMetric,     \* the owner does not exist
  NoFilter      \* nothing is being searched for

ASSUME ReadConstants ==
  /\ Names \subseteq Nat \ {0} /\ IsFiniteSet(Names)
  /\ PageSizes \subseteq Nat \ {0} /\ TopKs \subseteq Nat \ {0}
  /\ Oversample \in Nat \ {0}
  /\ Prefixes \subseteq SUBSET Names
  /\ DOMAIN Lets \subseteq Filters /\ \A f \in DOMAIN Lets : Lets[f] \subseteq Names
  /\ Dist \in [Metrics -> [Names -> Nat]]
  /\ \A m \in Metrics, x, y \in Names : Dist[m][x] = Dist[m][y] => x = y
  /\ NoMetric \notin Metrics

VARIABLES
  owner,    \* the metric of the index that has the table, or NoMetric
  rows,     \* the names that have a row
  pc,       \* pc[c]: what client c is at
  want,     \* want[c]: the names its prefix, filter or list of keys lets through
  filter,   \* filter[c]: the filter of its query, or NoFilter
  topK,     \* topK[c]: the hits its query asks for
  cursor,   \* cursor[c]: the token of the last page, 0 for none
  page,     \* page[c]: the last page
  got,      \* got[c]: the names of the pages before
  hits,     \* hits[c]: the answer of the search
  scan,     \* history: scan[c]: what the search read, "table" or "index"
  steady    \* history: wanted names with a row ever since c began to list

table == <<owner, rows>>
vars  == <<owner, rows, pc, want, filter, topK, cursor, page, got, hits, scan, steady>>

PC == {"idle", "page", "listed", "search", "metric", "get", "answered", "missing", "refused"}

Goto(c, l) == pc' = [pc EXCEPT ![c] = l]

\* ORDER BY rank LIMIT m.
Least(S, m, rank) == {x \in S : Cardinality({y \in S : rank[y] < rank[x]}) < m}
ByName == [n \in Names |-> n]

Init ==
  /\ owner \in Metrics
  /\ rows = {}
  /\ pc = [c \in Clients |-> "idle"]
  /\ want = [c \in Clients |-> {}]
  /\ filter = [c \in Clients |-> NoFilter]
  /\ topK = [c \in Clients |-> 0]
  /\ cursor = [c \in Clients |-> 0]
  /\ page = [c \in Clients |-> {}]
  /\ got = [c \in Clients |-> {}]
  /\ hits = [c \in Clients |-> {}]
  /\ scan = [c \in Clients |-> "none"]
  /\ steady = [c \in Clients |-> {}]

-----------------------------------------------------------------------------
(* Writers.                                                                *)

\* The rows change; what a listing has still to find can only shrink.
Become(R) ==
  /\ rows' = R
  /\ steady' = [c \in Clients |-> steady[c] \cap R]
  /\ UNCHANGED <<pc, want, filter, topK, cursor, page, got, hits, scan>>

Insert(N) == owner # NoMetric /\ Become(rows \cup N) /\ UNCHANGED owner
Delete(N) == owner # NoMetric /\ Become(rows \ N) /\ UNCHANGED owner

DropOwner == owner # NoMetric /\ owner' = NoMetric /\ Become({})
MakeOwner == owner = NoMetric /\ owner' \in Metrics /\ Become(rows)

-----------------------------------------------------------------------------
(* A listing.                                                              *)

BeginList(c) ==
  /\ pc[c] = "idle"
  /\ Goto(c, "page")
  /\ \E P \in Prefixes : /\ want' = [want EXCEPT ![c] = P]
                         /\ steady' = [steady EXCEPT ![c] = rows \cap P]
  /\ UNCHANGED <<table, filter, topK, cursor, page, got, hits, scan>>

\* Mutant of Rest: the cursor's row is read again.
RestFrom(c) == {n \in rows \cap want[c] : n >= cursor[c]}
\* Mutant of Rest: the token is not looked at.
RestAll(c) == rows \cap want[c]
\* The rows after the cursor.
Rest(c) == {n \in rows \cap want[c] : n > cursor[c]}

\* Mutant of Token: the row after the page, which was fetched to see whether
\* there is one, becomes the token.
ProbeToken(c, P) == Min(Rest(c) \ P)
\* Mutant of Token: a token one past the last name.
TokenPastLast(c, P) == Max(P) + 1
\* The token after a page is the last name of the page.
Token(c, P) == Max(P)

\* One row more than the page holds is fetched: with it there is a token.
ListPage(c) ==
  /\ pc[c] = "page"
  /\ \/ /\ owner = NoMetric
        /\ Goto(c, "missing")
        /\ UNCHANGED <<cursor, page, got>>
     \/ /\ owner # NoMetric
        /\ \E m \in PageSizes :
             LET P == Least(Rest(c), m, ByName) IN
             /\ page' = [page EXCEPT ![c] = P]
             /\ \/ P = Rest(c) /\ Goto(c, "listed") /\ UNCHANGED cursor
                \/ /\ P # Rest(c)
                   /\ cursor' = [cursor EXCEPT ![c] = Token(c, P)]
                   /\ UNCHANGED pc
        /\ got' = [got EXCEPT ![c] = @ \cup page[c]]
  /\ UNCHANGED <<table, want, filter, topK, hits, scan, steady>>

-----------------------------------------------------------------------------
(* A query.                                                                *)

BeginQuery(c) ==
  /\ pc[c] = "idle"
  /\ Goto(c, "search")
  /\ \E f \in DOMAIN Lets : /\ filter' = [filter EXCEPT ![c] = f]
                            /\ want' = [want EXCEPT ![c] = Lets[f]]
  /\ \E k \in TopKs : topK' = [topK EXCEPT ![c] = k]
  /\ UNCHANGED <<table, cursor, page, got, hits, scan, steady>>

\* A filter that cannot be translated is refused before any store call.
RefuseQuery(c) ==
  /\ pc[c] = "idle"
  /\ Filters # DOMAIN Lets
  /\ Goto(c, "refused")
  /\ UNCHANGED <<table, want, filter, topK, cursor, page, got, hits, scan, steady>>

\* Mutant of Limit: as many candidates as hits.
LimitTopK(k, F) == k
\* A filter sees more candidates than hits are asked for.
Limit(k, F) == IF F = Names THEN k ELSE k * Oversample

\* What ORDER BY distance LIMIT n may read: the nearest rows, when the table is
\* scanned; rows, no more than that, when DuckDB walks the HNSW graph.
Candidates(n, how) ==
  IF how = "table" THEN {Least(rows, n, Dist[owner])}
                   ELSE {C \in SUBSET rows : Cardinality(C) <= n}

Search(c) ==
  /\ pc[c] = "search"
  /\ \/ /\ owner = NoMetric
        /\ Goto(c, "missing")
        /\ UNCHANGED <<hits, scan>>
     \/ /\ owner # NoMetric
        /\ \E how \in {"table", "index"} :
             \E C \in Candidates(Limit(topK[c], want[c]), how) :
               /\ hits' = [hits EXCEPT ![c] = Least(C \cap want[c], topK[c], Dist[owner])]
               /\ scan' = [scan EXCEPT ![c] = how]
        /\ Goto(c, "metric")
  /\ UNCHANGED <<table, want, filter, topK, cursor, page, got, steady>>

\* The metric for the answer is looked up in a second call.
LookUpMetric(c) ==
  /\ pc[c] = "metric"
  /\ Goto(c, IF owner = NoMetric THEN "missing" ELSE "answered")
  /\ UNCHANGED <<table, want, filter, topK, cursor, page, got, hits, scan, steady>>

-----------------------------------------------------------------------------
(* A read of one call: GetVectors with one key or more; GetIndex and       *)
(* GetVectorBucket, which ask for the owner.                               *)

BeginGet(c) ==
  /\ pc[c] = "idle"
  /\ Goto(c, "get")
  /\ \E K \in SUBSET Names : want' = [want EXCEPT ![c] = K]
  /\ UNCHANGED <<table, filter, topK, cursor, page, got, hits, scan, steady>>

GetVectors(c) ==
  /\ pc[c] = "get"
  /\ want[c] # {}
  /\ \/ /\ owner = NoMetric
        /\ Goto(c, "missing")
        /\ UNCHANGED hits
     \/ /\ owner # NoMetric
        /\ hits' = [hits EXCEPT ![c] = rows \cap want[c]]
        /\ Goto(c, "answered")
  /\ UNCHANGED <<table, want, filter, topK, cursor, page, got, scan, steady>>

GetIndex(c) ==
  /\ pc[c] = "get"
  /\ want[c] = {}
  /\ Goto(c, IF owner = NoMetric THEN "missing" ELSE "answered")
  /\ UNCHANGED <<table, want, filter, topK, cursor, page, got, hits, scan, steady>>

-----------------------------------------------------------------------------

\* The client has its answer.
Leave(c) ==
  /\ pc[c] \in {"listed", "answered", "missing", "refused"}
  /\ Goto(c, "idle")
  /\ want' = [want EXCEPT ![c] = {}]
  /\ filter' = [filter EXCEPT ![c] = NoFilter]
  /\ topK' = [topK EXCEPT ![c] = 0]
  /\ cursor' = [cursor EXCEPT ![c] = 0]
  /\ page' = [page EXCEPT ![c] = {}]
  /\ got' = [got EXCEPT ![c] = {}]
  /\ hits' = [hits EXCEPT ![c] = {}]
  /\ scan' = [scan EXCEPT ![c] = "none"]
  /\ steady' = [steady EXCEPT ![c] = {}]
  /\ UNCHANGED table

-----------------------------------------------------------------------------

Begin(c) == BeginList(c) \/ BeginQuery(c) \/ RefuseQuery(c) \/ BeginGet(c)
Read(c)  == ListPage(c) \/ Search(c) \/ LookUpMetric(c) \/ GetVectors(c) \/ GetIndex(c)

Next ==
  \/ \E N \in SUBSET Names : Insert(N) \/ Delete(N)
  \/ DropOwner \/ MakeOwner
  \/ \E c \in Clients : Begin(c) \/ Read(c) \/ Leave(c)

Spec == Init /\ [][Next]_vars

\* A client that has begun asks on, and every store call returns.  Writers and
\* new requests owe nothing, and may go on for ever.
FairSpec == Spec /\ \A c \in Clients : WF_vars(Read(c))

-----------------------------------------------------------------------------
(* Properties.                                                             *)

\* Every variable holds a value of its kind; a token is the name of a row.
TypeOK ==
  /\ owner \in Metrics \cup {NoMetric}
  /\ rows \subseteq Names
  /\ pc \in [Clients -> PC]
  /\ want \in [Clients -> SUBSET Names]
  /\ filter \in [Clients -> Filters \cup {NoFilter}]
  /\ topK \in [Clients -> TopKs \cup {0}]
  /\ cursor \in [Clients -> Names \cup {0}]
  /\ page \in [Clients -> SUBSET Names]
  /\ got \in [Clients -> SUBSET Names]
  /\ hits \in [Clients -> SUBSET Names]
  /\ scan \in [Clients -> {"none", "table", "index"}]
  /\ steady \in [Clients -> SUBSET Names]

\* A listing that came to its end has every wanted name that was there all the
\* while, whatever rows before or after its cursor came and went meanwhile.
ListedAll == \A c \in Clients : pc[c] = "listed" => steady[c] \subseteq got[c] \cup page[c]

\* No name is listed twice, not even one that was deleted and put again, and
\* the pages come in order.
ListedOnce ==
  \A c \in Clients : \A x \in got[c], y \in page[c] : x < y

\* The hits of a query are rows its filter lets through and no more than were
\* asked for; when the table is scanned they are the nearest, and as many as were
\* asked for or all there are, unless the table has more rows than the
\* candidates a filter gets to see.
NearestMatches ==
  [][\A c \in Clients : pc[c] = "search" /\ pc'[c] = "metric" =>
       LET matches == rows \cap want[c]
           found   == hits'[c]
       IN  /\ found \subseteq matches
           /\ Cardinality(found) <= topK[c]
           /\ scan'[c] = "table" =>
                /\ \A x \in found, y \in matches \ found : Dist[owner][x] < Dist[owner][y]
                /\ want[c] = Names \/ Cardinality(rows) <= topK[c] * Oversample
                     => found = matches \/ Cardinality(found) = topK[c]]_vars

\* A listing ends although rows are put and deleted for ever: every page moves
\* the cursor past a name, and names are finitely many.
ListingEnds == \A c \in Clients : pc[c] = "page" ~> pc[c] # "page"
=============================================================================
