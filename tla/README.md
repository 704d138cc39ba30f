# marila in TLA+

marila is an S3-Vectors and S3-Tables compatible service. It answers the AWS
JSON protocol, keeps its metadata and vectors in one DuckDB file, mirrors every
vector into an S3 object store (RustFS) and, for the table half, delegates to an
Iceberg catalog (Lakekeeper). A companion CLI, `marila-embed`, reads files,
embeds their chunks and puts the vectors. None of the three stores shares a
transaction with another, handlers are dropped when their client goes away, and
the process may be killed anywhere: what the project verifies is what survives
of the promises made to clients under those conditions.

Paths below are relative to the repository (`src/` in the tables).

## Inventory

| Component | Code | State it keeps | Operations |
|---|---|---|---|
| Vector handlers | `crates/vectors/src/control_plane.rs`, `routes.rs`, `state.rs` | none of their own; locals across awaits | create/delete vector bucket, create/delete index, put/delete vectors; get, list and query |
| State store | `crates/core/src/duckdb_store.rs`, `state.rs` | the DuckDB file: `state.vector_buckets`, `state.vector_indexes`, one backing table per index, `state.table_buckets`; one connection behind one mutex | one method per row operation; several autocommitted statements in some |
| Object store | `crates/storage/src/s3_store.rs`, `store.rs` | S3 buckets and `<index>/<key>.json` snapshots | ensure/delete bucket, put/get/delete object, list |
| Boot | `crates/api/src/lib.rs`, `main.rs`, `crates/core/src/vss.rs`, `crates/vectors/src/rehydrate.rs` | where the replay is | open and migrate, load vss, replay all snapshots, serve, shut down |
| Table handlers | `crates/tables/src/control_plane.rs`, `lakekeeper.rs`, `namespace_handlers.rs`, `table_handlers.rs` | none of their own; the warehouse id across awaits | create/delete table bucket, namespace, table; get and list |
| Embed pipeline | `crates/embed_cli/src/pipeline.rs`, `source/local.rs`, `put.rs`, `sink/s3vectors.rs`, `retry.rs` | bounded channels, batches, the receiver lock shared by the embed workers | walk, parse, chunk, embed, put, flush, drain |
| Embed checkpoint | `crates/embed_cli/src/checkpoint.rs` | the JSONL file; per-source counters; the set of finished documents | load, seal, record_put, append_done |
| Reads, pagination, query, filter | `control_plane.rs`, `duckdb_store.rs`, `crates/vectors/src/filter.rs` | none; a page token on the client's side | gets, list pages, vector search, translation of the metadata filter to SQL |
| Chunkers | `crates/embed_cli/src/chunk/` | a window or a buffer over one text | off, fixed windows, Markdown sections, packed sentences |
| Formatting | `arn.rs`, `aws_compat` | none | ARNs, error envelope |
| Iceberg proxy | `crates/tables/src/iceberg_proxy.rs` | none | pass-through to Lakekeeper |
| Parsers, tokenizer, providers, CLI | `crates/embed_cli/src/parse`, `embed`, `tokenize.rs`, `cli.rs`, `query.rs` | none | pure functions, HTTP clients, argument parsing |

How they meet. A vector handler calls the state store (a blocking call on a
worker thread, under the connection's mutex) and the object store (an await);
between two such calls anything else may run. Boot reads the object store and
writes through the same `put_vectors`. A table handler calls the object store,
Lakekeeper and the state store in turn. The pipeline's tasks meet in four
channels, in one checkpoint and, through HTTP, in PutVectors.

What is hard, and what makes each part right:

* **Vector handlers and state store.** Multi-statement store calls autocommit
  statement by statement; multi-call handlers interleave. Right when rows and
  backing tables stay in step (`OwnTable`, `NoStrayTable`, `OneOwner`), vectors
  fit their table (`RowsFit`), indexes have buckets (`IndexHasBucket`), every
  request gets an answer through the mutex (`Answered`), and all of it looks to
  clients like one step per request (`Implements`).
* **Mirroring and boot.** Right when the object store can always rebuild the
  database: rows have snapshots (`RowHasSnapshot`), acknowledged puts and deletes
  hold in both (`PutIsDurable`, `DeletesAreFinal`), a boot restores what it walked
  (`Recovered`) and ends (`Boots`).
* **Reads.** A listing is many calls and a query two, with writers in between.
  Right when a listing misses nothing that stayed (`ListedAll`), repeats nothing
  (`ListedOnce`) and ends (`ListingEnds`), a filter lets through what it says, also
  in SQL's three-valued logic (`FilterMeans`), and a query finds some of those rows,
  when it scans the table the nearest (`NearestMatches`).
* **Table handlers.** Right when a row's warehouse is its own (`RowBacked`),
  a success is whole (`CreatedIsUsable`), a delete cut short can be repeated
  (`DeleteRecovers`), nothing is called not found that was there all the while
  (`NotFoundIsTrue`), a deleted name is free (`FreshNameCreates`), what blocks one has
  a known reason (`LeftoversKnown`), and clients see buckets that live one life after
  another (`Implements`).
* **Pipeline and checkpoint.** Right when what the checkpoint calls done is in
  the index (`DoneIsStored`), exactly the whole documents are called done
  (`Accounted`), records survive (`RecordsSurvive`), queues keep their bounds
  (`TypeOK`), tasks do not wait in a circle (`NeverStuck`) and runs end (`Terminates`).
* **Chunkers.** Sizes count characters, cuts count bytes. Right when no text is
  lost (`NothingLost`), windows move on (`WindowAdvances`), chunks keep to their
  size (`Bounded`) and name the sections they are in (`PathLeads`), and a text the
  slices panic on is a known one (`PanicsOnlyIf`, `EndsOnChar`).

`PROJECT.json` lists the hazards line by line with the property that watches each.

## Modules

| Module | What it is |
|---|---|
| `VectorService` | vector handlers, the vector half of the state store, object store, boot |
| `VectorService_proofs` | theorems about `VectorService`: types, mutex, widths, tables of indexes |
| `VectorMirror_proofs` | theorems about `VectorService`: the object store as the database's mirror |
| `VectorOwners_proofs` | theorems about `VectorService`: names that become one table identifier |
| `VectorApi` | what a client may rely on: one atomic step per request |
| `VectorServiceApi` | `VectorService` with the view its clients have; that it implements `VectorApi` |
| `VectorServiceApi_proofs` | the theorem that `VectorService` implements `VectorApi` |
| `VectorReads` | the paged listings, QueryVectors and the gets, while writers change the rows |
| `MetadataFilter` | the metadata filter: what is refused, what its SQL comes to, what it means |
| `VectorQuery` | `VectorReads` with the filters of `MetadataFilter` |
| `VectorReads_proofs` | theorems about `VectorReads` |
| `TableService` | table handlers over state store, object store and Lakekeeper |
| `TableApi` | what a client may rely on: the lives of table buckets |
| `TableServiceApi` | that `TableService` implements `TableApi`: the mapping |
| `TableService_proofs` | theorems about `TableService`, the refinement among them |
| `EmbedPipeline` | the embed pipeline, its checkpoint and the index it writes to |
| `EmbedPipeline_proofs` | theorems about `EmbedPipeline` |
| `Chunkers` | the four chunking strategies over a text of bytes and characters |
| `Chunkers_proofs` | theorems about `Chunkers` |
| `MCVectorService`, `MCVectorReads`, `MCTableService`, `MCEmbedPipeline`, `MCChunkers` | the instances TLC checks |

### VectorService

State: `bucketRow`, `indexRow`, `tableDim`, `tableRows` are the DuckDB file (an
index row is known by its dimension, a backing table by the width of its `vec`
column and its rows); `s3Bucket`, `object` the object store; `mutex`, `vss`,
`phase`, `walk`, `replay` the process; `pc`, `req`, `pos`, `keys`, `reply` the
handlers, one slot per request in flight.

A handler is a program counter. An action is the code between two points where
something else can get in:

* *A store call of one statement* (`count`, `delete_bucket_row`, ...) is one
  action that needs the mutex free.
* *A store call of several statements* is one action per statement. The first
  takes `mutex`, the last gives it back: other calls cannot see the middle
  (`duckdb_store.rs` locks the connection for the whole method), but a crash can
  stop there, because each statement commits by itself. `CreateIndex` is
  `InsertIndexRow`, `CreateTable`, `CreateHnsw` and, on an error of one of the
  two DDL statements, `RollbackIndexRow`, which undoes the row only.
* *An object-store call* is one action with three outcomes: done, failed
  without effect, failed with its effect done (the answer was lost).
* `Disconnect` drops a handler at an await. A blocking store call is not
  dropped; it ends and its result is thrown away, which leaves the same stores
  as a drop at the next await.
* *A process without vss* goes on (`vss.rs:23-27`), but DuckDB refuses to change the
  rows of a table whose HNSW index it cannot load: puts and deletes of such an index
  fail and the replay skips its snapshots (`hnsw`, `Writable`).
* `Crash` ends the process, the DuckDB file kept or (`MayLoseDb`) lost; `Open`,
  `ListForReplay`, `ReplaySnapshot`, `Serve` are the boot, one action per listing
  and per snapshot, so a crash can cut it anywhere.

Four history variables say what the properties have to except: `torn`, indexes a crash
left half made; `raced`, indexes made while a delete of their bucket was past its
emptiness check; `spared`, snapshots a delete failed to drop or that were written
behind it; `skipped`, snapshots a boot could not fetch.

`TableOf` maps an index to its backing table's identifier. The code replaces
every character outside `[A-Za-z0-9_]` by `_`, so `a-b` and `a.b` share one; the
runs use an injective map (`Distinct`) and a colliding one (`Aliased`).

### VectorApi and VectorServiceApi

`VectorApi` is the vector service as a client sees it: `buckets`, `dim` and `rows`
change in one step per request (`Land`), an answer names a reason that holds at the
moment it is given (`Refuse`, `Justified`), an error of an index or vector operation
leaves everything as it was, and a success follows its effect (`Confirm`). A bucket
operation has its row in one store and its bucket in another, so its error may come
after its effect. When the process dies at most one request is cut short
(`CutShort`): of a batch the first writes stay, because `put_vectors` commits row by
row.

`VectorService` changes the database statement by statement. `VectorServiceApi`
adds two history variables: `seenDim` and `seenRows` are the database as it was when
the connection's mutex was last free, which is all another call can read, because
every method of the store locks it for its whole length. The refinement maps `dim`
and `rows` to them and `stage` to the program counter, where a request whose row is
done and whose snapshots are not (`Landed`) has taken effect. The history variables
restrict no step of `VectorService`, and its fairness is the same over its own
variables, so the runs check the properties of `VectorService` in the same behaviours.

### VectorReads

`rows` are the rows of what is listed or searched and `owner` the index (or the
bucket) that has them, known by its distance metric. Writers put, delete, drop the
owner and make it again (`Insert`, `Delete`, `DropOwner`, `MakeOwner`); a batch is
one step here, because the connection's mutex hides its middle, and the two stages
of a drop are `VectorService`'s concern. A client pages with
`ListPage`: the rows after its cursor in order, one more than a page is fetched to
see whether there is a next page, and the last name of the page is the token. It
queries with `Search`, which takes the nearest `topK` rows, or with a filter the
nearest `topK * oversample` candidates (`Limit`), of which the filter keeps some, and then
`LookUpMetric`, which reads the index row again for the answer. `Least` is
`ORDER BY ... LIMIT`. Whether DuckDB scans the table or walks the HNSW graph is its
choice: a scan has the nearest candidates, a walk is approximate, and its candidates
are any rows, no more than the limit (`Candidates`). `scan` is a history variable, which
of the two a search did. `steady` is a history variable: the wanted names that had a row
ever since the listing began. The gets (`GetVectors`, `GetIndex`) are one store call.

To `VectorReads` a filter is a name with the set of rows it lets through, `Lets`; one
without such a set is refused before any store call. `VectorQuery` says which set:
`MetadataFilter` has the tree of a filter, which trees are translated (`Legal`), what
the translated clause comes to in SQL (`Sql`, with NULL for a field that is not there)
and what the filter says (`Matches`). `Terms` are the filters and what is nested in them;
what the code does recursively are recursive functions on `Terms`, and `Depth` says that
parsed JSON is nested to a depth, which is all the proofs need to know of a filter's shape.

### TableService

`row` is `state.table_buckets`; `warehouse`, `minted`, `namespaces`, `tables`,
`purging` are Lakekeeper as far as marila sees it: a warehouse name is taken
once (409), ids are never reused, a warehouse deleted twice is a 404, and a
warehouse with unfinished purge tasks answers 409, which `delete_warehouse`
counts as deleted although nothing was removed. For namespaces and tables there is
one action per handler (`CreateNamespace`, `DeleteNamespace`, `CreateTable`,
`DeleteTable`; all reads of the catalog are `ReadCatalog`, those of the row
`ReadRow`), with the answer of the client in `lakekeeper.rs` beside it. Every call may
fail, those of the state store too (`Fault`). The definitions that are only
Lakekeeper's are external in the map. Again one action per call; a
create whose row is refused or whose insert fails goes to its rollback with its answer
fixed, and the rollback ignores its own, as the code does. `missed` is a history variable: what
a request asks for was not there at some moment since it was asked; so are `dropped`, the
warehouses a delete asked Lakekeeper to drop, and `overtaken`, those whose row was taken by
a delete that had read another warehouse's id.

### TableApi and TableServiceApi

To a client a table bucket has lives: `current` is the life a bucket is in, `namespaces`
and `tables` the catalog of each life. `CreateTableBucket` begins a life that nobody has
seen, with an empty catalog, in one step. A namespace or table request opens the life its
bucket is in (`Open`) and acts in one step on that life (`Catalog`, `Does`), whatever
becomes of the bucket meanwhile: it never reaches the catalog of a bucket made again under
the name. A refusal is true when it is given and changes nothing (`Refuse`, `Justified`).
A deletion is two steps, as it is in the code: the catalog of the life it opened goes or
stays (`EmptyCatalog`), then the bucket of the name (`DeleteTableBucket`). That this is one
step, that both are of one life, and that a name without a bucket can be created is not
promised, because the code does not keep it.

The mapping takes the warehouse a row points at as the bucket's life. A warehouse without
a row is nobody's: a create whose insert failed has its answer, Conflict or an internal
error, from there on (`Stage`), and its rollback must be a stutter, which it is only if the warehouse is of no other
request and its catalog is empty.

### EmbedPipeline

One program counter per task: the source walk (`toVisit`), parse workers, the
chunk task, embed workers and the put task, joined by the channels `raw`,
`parsed`, `chunked`, `embedded` with their capacities. A document is a path and
a version of its content, a chunk a document and an index (the content-hash
key). Embed workers share the receiver behind one lock and keep it while they
fill a batch (`TakeLock`, `FillBatch`, `CloseBatch`).

The checkpoint is two things: the in-memory counters (`progress`, `Seal`,
`RecordPut`) behind one lock, and the file (`lines`). A record is appended in two
writes, the JSON text and the newline, so `WriteLine` and `WriteNewline` are two
actions under `fileLock` and a kill can come between; the last element of `lines`
is the line without a newline. Either write may fail: the first leaves nothing or a
piece of the record, the second leaves the line open, and the record is not tried again;
its document is then not done for this run (`unwritten`), unless the error came back only
with the next write, when nobody looks at it. `cut` has the lines that a kill or a failed
write left open. A line that holds two records, or a piece and a record, does not parse and
`Loaded` skips it, as `Checkpoint::load` does. `Start` loads the file or, with
`--no-resume`, nothing. `Finish` and `Kill` forget everything but the disk and the
index; `Edit` changes a file at any moment. `Panic` is the end of the chunk task on a
document of `Unchunkable`: the channel it read from closes with what is in it, the
documents before it go their way, and `Finish` joins the dead task without looking at
its result, as `pipeline.rs:361` does.

### Chunkers

A text is its bytes: white space, the first byte of a letter, of another mark, or a
further byte of either. A job is a text with its configuration; one action is one turn
of a loop: `Window` of the sliding window, `TakeRegion` of the walk over the Markdown
sections, `TakeSentence` of the packing, `Split` of the cutting of a sentence that is too
long for a chunk. `ClampWordEnd` and `ClampWordStart` are
translated with their bytes and characters as they are, so a slice can end inside of
a character or before it begins, and then the task panics (`panic`). `StepBack` is the
128 of `clamp_word_end`. Where headings and sentences are, is the answer of a library
(pulldown-cmark, unicode-segmentation) and given with the job: headings in the order of
the text, and headings and sentences that begin with a character.

## Runs

| Run | Checks | Shows | Bounds |
|---|---|---|---|
| `vs_concurrent` | `TypeOK NoStrayTable OneOwner IndexHasBucket DeletesAreFinal Answered Implements` | store calls of two handlers over two index names that become one table never lose step; the failing `CREATE TABLE` keeps the second index out; only an index made between a bucket's count and its delete loses the bucket; an acknowledged delete leaves only what failed or was written behind it; nobody waits for the mutex for ever; clients see one step per request | 2 slots, 1 bucket, 2 indexes, 2 keys, 6 requests, 1 fault |
| `vs_recovery` | `RowHasSnapshot PutIsDurable OwnTable RowsFit Recovered Boots Implements` | with one request at a time the object store mirrors the database through kills, loss and repeated boots; rows, tables and widths agree with crashes inside store calls and a missing vss; a boot puts back what it could fetch into every table it can write; a crash is one request cut short | 1 slot, 1 index, 2 keys, 7 requests, 1 fault, 2 exits |
| `vr_reads` | `TypeOK ListedAll ListedOnce FilterMeans NearestMatches ListingEnds` | listings miss nothing that stayed, repeat nothing and end, filters mean in SQL what they say, and queries find matches, in a scanned table the nearest, while rows come and go without bound and the index is dropped and made again with another metric | 1 client, 4 names, pages of 1 and 2, topK 1 and 2, oversampling 2, 2 metrics, some thirty filters over two fields |
| `ts_concurrent` | `TypeOK RowBacked DeleteRecovers NotFoundIsTrue LeftoversKnown CreatedIsUsable Implements` | racing creates and deletes of one name never share or steal a warehouse; a delete can be repeated; a request that resolved a warehouse before it was replaced is not told a lie; a warehouse without a row has a known reason; clients see buckets created whole and requests that act on one life of theirs | 2 slots, 6 requests, 1 fault, 2 exits |
| `ep_run` | `TypeOK RecordsSurvive Accounted` | the chunk task and the put task between them write exactly one record for each whole document, if the append does not fail; a kill or a failed append costs no other record than its own and the one written behind it | 2+2 workers, capacities 1, batches of 2, 2 runs, 1 kill, 1 fault, 1 edit |
| `ep_resume` | `DoneIsStored NeverStuck ReadyCanStep Terminates` | a record always means the chunks are stored, also after a kill or a panic of the chunk task; a run ends with the cap hit in the middle of a file and every stage before it blocked; the tasks never all wait for each other | 3 files, 2 runs, 1 kill, 2 faults, cap 2 |
| `ck_chunks` | `TypeOK NothingLost PanicsOnlyIf Bounded PathLeads WindowAdvances` | text is lost only if windows overlap by less than their ends step back; only multi-byte text or windows smaller than the step back make a slice panic; sentences keep to the size, windows to twice the size; a chunk names exactly the sections it is in | every text of up to 7 letters and blanks, up to 5 bytes of all kinds, sentences of 6 bytes with characters of several; sizes 2 to 5, overlaps 0 to 4, step back 3 |

Five runs show disagreements between what the code does and what its comments
and documents say:

| Run | Broken | What happens |
|---|---|---|
| `vs_hnsw_failure` | `NoStrayTable` | without vss, `CREATE TABLE` succeeds and the HNSW index fails; the rollback deletes the row and leaves the table, so no retry can succeed (`duckdb_store.rs:274` promises a clean slate) |
| `vs_put_delete_race` | `RowHasSnapshot` | a delete runs between a put's snapshots and its rows: the vector ends in DuckDB only and is gone after a rebuild (`REQUIREMENTS.md:34`) |
| `ts_unfinished_purge` | `FreshNameCreates` | DeleteTable leaves a purge task, DeleteTableBucket accepts Lakekeeper's 409, and the warehouse keeps the name taken (`lakekeeper.rs:124-126`) |
| `ck_boundary` | `EndsOnChar` | a window without white space is extended by a number of characters added to a byte offset; with characters of several bytes the end may be inside of one and the slice panics (`fixed.rs:95-96` promises a boundary) |
| `ep_dry_run` | `DoneIsStored` | `--dry-run` puts into memory and writes done records all the same; the real run then skips the sources (`EMBED_CLI_SPEC.md:312`) |

Further disagreements met while modelling, each a counterexample of these modules
under a property that is not kept as a run of its own:

* `IndexHasBucket` without `raced`: CreateIndex between DeleteVectorBucket's count
  and its row delete leaves an index without a bucket (`vectors/control_plane.rs:162`).
* A CreateVectorBucket between the row delete and the S3 delete of a
  DeleteVectorBucket ends with a row and no S3 bucket (`:171`).
* A put refused for its dimension has already replaced the snapshot (`:427`).
* A DeleteVectorBucket whose S3 call failed answers NotFound when repeated, so
  the S3 bucket stays, although `storage/src/store.rs:23-24` makes the call
  repeatable for that purpose.
* The snapshots of a batch that were written before one failed are replayed at the
  next boot: rows the client was told did not land (`:422-426`).
* A QueryVectors whose index is dropped and made again with another metric between
  the search and the second lookup names in its answer a metric its distances were
  not computed with (`:650-690`).
* A boot without vss skips every snapshot of an index whose table has an HNSW index
  (`Recovered` without `Writable`), each with a warning, and serves: rows that only the
  object store has are missing until a boot with vss, although
  `crates/vectors/src/rehydrate.rs` is there to put every snapshot back.
* A put to an index that does not exist leaves a snapshot nobody purges; deleting
  the bucket then fails after its row is gone.
* `OneOwner` with crashes: a crash between an index row and its `CREATE TABLE`
  leaves a row whose table an aliased name takes.
* One index whose S3 bucket is missing ends the whole replay, although
  `api/src/lib.rs:104-107` says boot goes on if one index fails; `Recovered`
  therefore speaks of the indexes that were walked.
* A duplicate CreateTableBucket is a 500 and not the conflict that
  `tables/src/lakekeeper.rs:63-64` speaks of.
* A crash between warehouse and row blocks the table bucket's name
  (`tables/control_plane.rs:65-67` leaves it to a retry that cannot succeed).
* The slower of two concurrent DeleteTableBucket calls removes by name the row of
  a bucket created in between and orphans its warehouse (`LeftoversKnown` without
  `overtaken`).
* A kill between a record and its newline, or a newline that could not be written: the
  next record goes to the same line and both are lost, although `checkpoint.rs:3-6` has
  every record survive (`RecordsSurvive` without `cut`). A piece left by a failed write
  costs the next record too. The price is work done twice; `DoneIsStored` still holds.
* A record whose append failed is not tried again, and nothing but a warning tells it
  (`checkpoint.rs:178-186`): the document is stored and the next run does it again
  (`Accounted` without `unwritten`).
* `NothingLost` without its condition: an overlap of fewer than 128 bytes (32 tokens)
  is less than the window's end may step back, and the words between two windows are
  in no chunk. `markdown.rs:5-6` windows long sections so as not to lose any text, with
  whatever overlap is configured.
* `Bounded` with the size itself as the bound: without white space a chunk has all but
  twice the characters asked for, where `doc/EMBED_CLI_SPEC.md:150` has at most N tokens.
* A window of fewer than 32 tokens steps back before its own start, and the slice
  panics (`PanicsOnlyIf`).
* A chunk task that panics ends the run as if the input had ended (`pipeline.rs:361`
  drops the join error): the documents after it are neither stored nor reported.
* A field that is not there is SQL's NULL, and so is each comparison with it: `$ne`,
  `$nin` and `$not` do not match rows without the field, which in the MongoDB language
  the filter is taken from they do. `FilterMeans` is therefore about rows that have the
  fields.
* `$gt` and the like on a field that holds a text fail the whole query, in a CAST.
* A literal of a filter that holds `$q` is rewritten with the query vector
  (`duckdb_store.rs:642`), and an error message that is cut at 60 bytes may be cut in
  the middle of a character (`filter.rs:211`).

### Why the bounds are enough

The conflicts in `VectorService` are between two handlers on one index, on one
bucket, or on one table identifier, so two slots, one bucket and two names meet
all of them; six or seven requests are what the longest story needs (create
bucket, create index, put, delete, create again, put). Two keys let a batch be
half written; a batch with one key twice shows the last write wins; vectors of two
lengths and indexes of two dimensions let an index come back with another width.
Two exits cut both a handler and the boot that repairs after it. One fault fails one of
a delete's objects and not the other, so `spared` is neither empty nor everything. In
`TableService` a create, a delete and a second create on two slots are the
shortest way to confuse two warehouses. In `EmbedPipeline` capacities of one make
every send block, batches of two over documents of zero, one and two chunks make
a batch straddle documents, and two runs let a kill be followed by a resume.
`ep_run` and `ep_resume` divide the work: the first has all workers, an edit, a
broken file, a kill and a failed append, which is how a line of the checkpoint stays open
for the next run and for the other task; the second a kill, two faults and a cap.
`DoneIsStored` is checked with the second; that
it holds with edits too is `DoneIsSafe`, which is for all of them together. Its three files are the fewest with
which the cap stops the chunk task, a parse worker finds its receiver gone and the
walk still has a file to visit. The third file is also the one the chunker panics on.

In `VectorReads` readers do not see each other, so one client is enough; writers are
unbounded. Four names, with a gap in their order, give a listing rows before, at and
after its cursor to lose and to gain and up to four pages; the two metrics order
them differently, and with oversampling 2 the candidates are fewer than the rows for
`topK` 1, so that the filter misses some, and as many for 2. Every operator of the
filter is there by itself and under a negation, each kind of node with two members, and
the rows have each field, lack one and lack the other.

In `Chunkers` nothing interleaves: the bounds are only about the text. With a step
back of 3 bytes and windows of 2 to 5 characters there are windows smaller than, equal to
and larger than the step back and texts of up to three windows; an overlap of 0, 3 or 4
is none, enough, or more than the window. Headings of three levels rise, fall and repeat.

Slots and workers are symmetric; symmetry is used where only safety is checked.
`ep_resume`, `vs_concurrent`, `vs_recovery` and `vr_reads` check liveness and use none;
`ck_chunks` has one actor.

### Fairness

`FairApiSpec` of `VectorServiceApi` is weak fairness of each handler's next step and of the
boot. A handler's next step is what the tokio runtime polls once its await is
over; the DuckDB and S3 calls are bounded by timeouts and by the mutex, whose
holder is itself such a step. The lock is not
fair, and weak fairness does not promise a waiting call its turn against an endless
stream of others; clients send finitely many requests here, so the stream ends and
`Answered` says that no call is left waiting for a lock nobody returns.
Clients, faults and crashes are owed nothing. `EmbedPipeline!FairSpec` is weak
fairness of each task, of the record appends and of the process's end; starts,
kills and edits are owed nothing. `Boots` and `Terminates` count a bounded number
of crashes: a process killed for ever does not end its boot. `VectorReads!FairSpec`
is weak fairness of each client's next read: a client that has begun asks for its
next page, and the store call returns. Writers owe nothing and may go on for ever.
A listing ends because every page moves its cursor past a name and names are
finitely many; over a keyspace without bound a listing that writers keep ahead of
has no last page. `Chunkers` states no fairness: that a text is chunked to its end is
`WindowAdvances`, a step that always moves on.

## Proofs

`VectorService_proofs` proves for all values of the constants that satisfy
`ConstantsAssumption` (any number of buckets, indexes, keys, slots, requests,
faults and crashes):

| Theorem | States |
|---|---|
| `TypeCorrect` | `Spec => []TypeOK` |
| `StoreCallsAlone` | a handler inside a multi-statement store call holds the mutex, so at most one is |
| `RowsAlwaysFit` | `Spec => []RowsFit` |
| `IndexesOwnTables` | `Spec => []OwnTable`, if `NamesApart` (distinct indexes have distinct table names) |

Argument. `TypeOK` is not inductive as it stands: `WriteSnapshot` and `UpsertRow`
read the batch at `pos`, `CreateTable` stores the request's dimension,
`ReplaySnapshot` puts back what the object store holds. `TypeInv` adds the facts
they need: a busy slot has a request and a put is inside its batch (`Working`);
handlers run only while the server is up and only a boot has snapshots to replay,
each of which exists (`Asleep`); and exactly the slot inside a store call of several
statements has `mutex` (`Alone`). `TableInv` adds `RowsFit` and `MidCall`, what
holds in the middle of such a call: the row a CreateIndex inserted and the table it
made, the row a DeleteIndex removed, the dimension check a put passed. Every action
that could invalidate a `MidCall` fact needs the mutex, which `Alone` gives to the
call itself. `OwnerInv` adds `OwnTable`; its step needs that dropping or making one
index's table leaves every other index's table alone, which is `NamesApart`. Each
step lemma has one step per action and under it one per conjunct the action
disturbs.

`NamesApart` is an assumption of `IndexesOwnTables` and of the refinement below;
without it two indexes
whose names collide could share a table after a crash, as told above.

`VectorMirror_proofs` proves how the object store and the database stay each other's
mirror. Two of its theorems need `OneHandler` (no two requests in flight together:
`vs_put_delete_race` shows what two do), the others hold for any number of handlers,
faults and crashes:

| Theorem | States |
|---|---|
| `IndexesKeepBuckets` | `Spec => []IndexHasBucket` |
| `RowsHaveSnapshots` | `OneHandler /\ NamesApart => (Spec => []RowHasSnapshot)` |
| `PutsAreDurable` | `OneHandler => (Spec => []PutIsDurable)` |
| `AckedDeletesAreFinal` | `Spec => []DeletesAreFinal` |
| `BootsRecover` | `NamesApart => (Spec => Recovered)` |

Argument. `BucketKept` adds that the bucket whose emptiness was checked has, when its row
goes, no index but those made since (`raced`).
`RowHasSnapshot` is not inductive, because an index deleted by a
call that a crash cut short leaves its table's rows to the next index of the name:
`Mirrored` therefore says it of every row, index or not, `Purging` that a purge is left
with keys whose rows are gone, `Snapped` that a put stores rows whose snapshots are
written. `PutKept` follows a batch: the first `pos - 1` writes are in the object store,
then in the table, the last of each key winning (`Holds`, `HoldsOneMore`). `DeleteKept`
says of each slot which keys its purge has dropped, spared or still to drop (`DeleteIn`);
a snapshot another handler writes is one it has still to drop, or `Spare` notes it
(`DeleteInFrame`). `Homed` says that a missing bucket has no
objects, the case in which DeleteIndex skips the listing. `Replaying` says of the boot
that a fitting snapshot of a walked index whose table can be written is in its table,
still to be put back, or could not be fetched (`skipped`); it
needs `OwnTable` from `OwnerInv`, because a snapshot whose table is missing is skipped.

`VectorOwners_proofs` proves, for every `TableOf` (names may collide) and every number
of handlers, if no crash happens and vss loads (`Sound`):

| Theorem | States |
|---|---|
| `TablesHaveOneOwner` | `Sound => (Spec => []OneOwner)` |
| `TablesAreClaimed` | `Sound => (Spec => []NoStrayTable)` |

Argument. The two are proved together: a finished index has a table and is alone in it
(`Owned`), a table has a finished index or is about to be dropped (`Claimed`), and in the
middle of a store call (`Midway`) the row a DeleteIndex removed was the table's last
claim and a refused CreateIndex finds the table of another. `CREATE TABLE` succeeds only
where no index is finished, which is what keeps the second index out. Without `Sound` both
are false, as `vs_hnsw_failure` and the crash told above show.

`VectorServiceApi_proofs` proves, from the same assumption:

| Theorem | States |
|---|---|
| `ServiceImplementsApi` | `NamesApart => (ApiSpec => Implements)`: the service implements the atomic store of `VectorApi` |

Argument. Every step of the service must be a step of `VectorApi` under the mapping,
or none (`Follows`). What relates the view clients have to the tables is `SeenInv`:
with the connection free the view is the database; inside a store call of several
statements it is the database as the call found it, and `Inside` says by how much the
call is ahead of it, a row without its table, a row gone with its table still there,
or the first `pos - 1` writes of a batch on top of the rows (`Putting`, by
`Api!After`). `Handling` says that a handler's place belongs to its operation. A step
inside a call keeps `Inside` and stutters (`InsideSees`); the statement that frees
the connection is the effect, which `Inside` makes exactly the one the interface
allows (`AllOut`); a crash turns it into `CutShort`. There is a lemma per operation
(`CreateIndexSteps`, `PutSteps`, ...), one for the steps that move no row
(`QuietSteps`), for the boot (`ReplaySteps`) and for the crash (`CrashSteps`), on top
of `TypeStep`, `TableStep` and `OwnerStep`. `NamesApart` is needed because a
statement on one index's table must leave the view of every other index alone. The
two history variables of `VectorServiceApi` are `See` conjoined to every step, and
each of its disjuncts determines them, so they restrict nothing.

`VectorReads_proofs` proves for all values of the constants that satisfy
`ReadConstants` (any names, pages, filters, metrics and clients):

| Theorem | States |
|---|---|
| `TypeCorrect` | `Spec => []TypeOK` |
| `ListingMissesNothing` | `Spec => []ListedAll` |
| `ListingRepeatsNothing` | `Spec => []ListedOnce` |
| `QueryFindsNearest` | `Spec => NearestMatches` |
| `FiltersMean` | `Spec => []FilterMeans`, for filters of any depth |

Argument. Everything rests on lemmas about `Least`: the first m rows are in front of
all others (`LeastIsInFront`), no more than m (`LeastIsFew`), no fewer unless they
are all (`LeastIsFull`, `LeastIsAll`), and some if there are any (`LeastIsSome`).
They need extremal elements of finite sets without induction: a finite set has a last
row because one row has the fewest after it (`Last`), and a set of numbers has a least
one because `<` is well-founded on them (`LeastNumber`). `PageEndsWithToken` follows:
a page is all of the rest up to its token. `ListInv` then says of a listing on its
way that its pages are behind its cursor (`Behind`) and that behind the cursor
nothing steady was missed (`Covered`); this is what a page extends, and at the last
page it is `ListedAll`. A search of the table applies the lemmas twice, to the candidates
and to what the filter leaves of them; of a walk of the HNSW graph only the second is
left.

`FilterMeans` is about recursive functions, and that each of them has a value is itself
proved: `Recursion` makes the function on the terms of a depth from those of smaller depth,
for any body that looks at a term's parts only, and `SqlIs`, `LegalIs`, `FieldsAre` and
`MatchesIs` unfold the four functions by it. `SqlMeans` then has that on a row with the
filter's fields the clause is never NULL and is TRUE exactly where the filter matches: of the
terms it failed for, one would have the least depth, and it holds for a leaf (`LeafMeans`)
and, given the parts, for each kind of node. `FilterInv` ties it to the state: what a waiting
query wants is what `Lets` has for its filter.

`TableService_proofs` proves for all values of the constants that satisfy
`TableConstants` (any names, slots and requests, any bound on warehouses, faults and
crashes):

| Theorem | States |
|---|---|
| `TypeCorrect` | `Spec => []TypeOK` |
| `RowsAreBacked` | `Spec => []RowBacked` |
| `CreatesAreUsable` | `Spec => CreatedIsUsable` |
| `DeletesRecover` | `Spec => []DeleteRecovers` |
| `NotFoundIsHonest` | `Spec => []NotFoundIsTrue` |
| `LeftoversAreKnown` | `Spec => []LeftoversKnown` |
| `TableServiceImplementsApi` | `Spec => Implements`: the table service implements `TableApi` |

Argument. `Placed` adds to `TypeOK` which operation may be where, and that a handler
about to use a warehouse id has one. `RowBacked` is not inductive: the rollback of a
create removes a warehouse, and only what the others know of it tells that no row
points there. `FreshIsOwn` says it: between Lakekeeper's answer and the row, the
handler that made a warehouse is the only one with its id, no row has it and no delete
asked for it, which holds because ids are never reused (`Unminted`). With `Ensured`
(nothing removes an object-store bucket) this gives `CreatedIsUsable` for the step that
answers. `DeleteRecovers` needs only that every ending that is neither success nor
NotFound spends a fault. `NotFoundIsTrue` needs `StaleIsMissed`: at a catalog call, an
id that is not the bucket's any more was noted missing when the row was deleted, so a
404 about a stale warehouse is true of the bucket the client named; a 404 about the
current one is true now.

`LeftoversKnown` needs two facts in the middle of a handler (`Claimed`): a create that is
rolled back met a row, and a delete about to take a row has asked for its own warehouse to
be dropped. Then, without faults, a warehouse loses its row only to `DeleteRow`, which took
either the warehouse it dropped or one it overtook.

The refinement rests on `HeldInv`, which says what a request may assume of the warehouse
it holds and others may not: one that is held and not dropped has its bucket's name
(`HeldKnown`); one that its create has no row for is held by no other request
(`FreshUnseen`) and has an empty catalog (`FreshIsEmpty`); one that is gone is empty
(`GoneIsEmpty`). So a row that is inserted begins a life as `TableApi` wants it, unseen and
empty (`CreateRefines`, `InsertRefines`); a rollback is a stutter; and a call with a stale id is
answered by Lakekeeper as `TableApi` answers about the life it opened (`Answers`,
`CatalogRefines`, which goes through the catalog calls one by one). One lemma per handler
step, none of which needs a condition on faults, disconnects or crashes.

`Chunkers_proofs` proves for every text, size, overlap, headings and sentences that satisfy
`ChunkConstants` (a text is well-formed UTF-8 whose white space has one byte; headings are in
order, and headings and sentences begin with a character):

| Theorem | States |
|---|---|
| `WindowsAdvance` | `Spec => WindowAdvances` |
| `PanicsAreKnown` | `Spec => []PanicsOnlyIf` |
| `TextIsKept` | `Spec => []NothingLost` |
| `ChunksAreBounded` | `Spec => []Bounded` |
| `TypeCorrect` | `Spec => []TypeOK` |
| `PathsLead` | `Spec => []PathLeads` |

Argument. Three lemmas say what one window does: how many characters are counted and
where the last starts (`CountFacts`, by the size of intervals), where the window ends
(`EndFacts`) and where the next one starts (`StartFacts`). From them `CutsWell`, when a
slice is legal; `WindowFits`, how much it holds; and `GapIsBlank`: with an overlap of at
least the step back, the end of a window is not before the next start, or what is
between is white space. That one needs that a byte inside of a character has the
character's first byte in front of it. `JobInv` says that a window always slides from a
character's first byte inside its text (`InWindow`), which a trimmed region has by
`TrimFacts`. `ContentInv` says that what the chunker is past (the regions before `next`,
in the one at hand the bytes before the cursor) is in a chunk; regions cover the text
because the last that begins at a byte or before it has it (`RegionsCover`). `PackInv` is the
same for sentences: those before `next` are in a chunk or in the buffer, of the one being
split the bytes before the cursor are, and the buffer, like each chunk, has no more bytes
than the size, so that it has no more characters either; a piece ends at a character after
at most `max` of them (`PieceFacts`).

`PathLeads` speaks of the text, the code of a stack. `PathInv` says that the stack has
exactly the headings above the region taken last, in order, their levels growing, and that
every chunk lies in the region whose stack it was given (`Sited`). What is deeper than or
level with the next heading is a suffix of such a stack, so popping it and pushing the
heading leaves the headings above the next region (`NextPath`). As headings come in the
order of the text, the region a chunk lies in is that of the last heading before its first
byte (`SitedLeads`).

`EmbedPipeline_proofs` proves for all values of the constants that satisfy
`PipelineConstants` (any files, contents, workers, capacities, batch sizes and bounds):

| Theorem | States |
|---|---|
| `TypeCorrect` | `Spec => []TypeOK`: types, and every channel and batch within its bound |
| `RecordsAreSafe` | `Spec => []RecordsSurvive` |
| `DoneIsSafe` | `Spec => []DoneIsStored`, if no run is a dry run (`~MayDryRun`) |
| `DrainsAreAccounted` | `Spec => []Accounted`, if no run is a dry run |
| `RunsGoOn` | `Spec => []NeverStuck` |

The condition is needed, as `ep_dry_run` shows. Argument. `TypeInv` adds what each task holds where
it is (a batch that is being filled is not full, one that is sent is not empty), that the two
tasks that record a document wait for their record to be written (`Sealing`), and that
nothing is in memory between runs (`Idle`). For `RecordsSurvive`, `LinesInv` says that a
recorded document is the last thing on a line that was ended, and the only thing on it unless
the line was cut; and that the file's last line, unless it was cut, is empty or the one record
of the task that has the file's lock, of which it ends in any case.

`DoneIsStored` is about a number: a document is called done when as many chunks of its
source were counted as it has pieces. `StoreInv` says what the number stands for. There is a
set K of chunks, those that were counted (`Account`), which the index holds, with as
many of each source as the checkpoint counted; what is on its way is in no two places and
not in K; and as a run reads a file once (`OneVersion`), all of a source's chunks are of one
document, so that the number of pieces is reached only when K has them all (`AllCounted`).
That a chunk is emitted once is `Behind`: chunks of the document being cut are behind the place
where the chunk task is, and no others are of a document that is still to be cut. Where
things are is said once for the documents and once for the chunks: `DocLines` and `ChunkLines` put channels and
tasks side by side as lanes of one structure, of which `Neat` says that nothing is in it
twice; every step of the pipeline is to add, take, drop or move the first thing of a lane
(`DocMoves`, `ChunkMoves`), and `PutLast`, `TakeFirst`, `DropAll` and `MoveFirst` keep it neat.
A kill or a failed write leaves an open line; the next record makes it
one that does not parse, so nothing is called done by mistake (`LoadedStep`).

`Accounted` says the converse too: a document none of whose chunks was dropped is called
done once the run has drained. `DrainInv` extends the set K of `Account` for it. What was
dropped is not in K and nowhere on the way (`Apart`); of a document that is done, or about
to be, K has every chunk, or it was done before and the run does not touch it (`Owed`); a
chunk behind the chunk task is counted, dropped or on its way (`Whole`); a sealed document
whose count is complete is marked by the one or the other task, and what is marked is done,
waits for its record or could not be appended (`Noted`): the last check is never left to the other. What was read
and parses is done, on its way or sealed unless the chunk task was cut short (`Followed`), and
a task ends only behind those that feed it, with its channel empty (`Closed`). So with all
tasks gone nothing is on its way (`Drained`), and a document without a dropped chunk has all
of them in K, hence its count, its mark and its record, unless the append failed.

`NeverStuck` is freedom from deadlock without ENABLED: `Ready` says task by task what it
waits for, and `ep_resume` checks that a task that has it can step (`ReadyCanStep`). The
proof goes from the last stage to the first. A record being appended is finished; so the
put task waits for chunks and the last channel is empty; so an embed worker that is not
gone waits, with the receiver's lock, for the chunk task, whose channel it has emptied; so
that task waits for a document, and the parse workers, who have room, wait for the walk,
which has room too. Only `Closed` is needed of the invariant: nobody is gone whom a stage
before him still needs.

Only model-checked: the liveness properties (`Answered`, `Boots`, `ListingEnds`, `Terminates`)
and `ReadyCanStep`, which need fairness or `ENABLED`, beyond the prover. Every other property of a passing run
has its theorem.

## Not modelled

* ARNs, error envelopes, request validation: formatting. A request of the model
  is one that passed validation; the query's check that its vector has the index's
  dimension is one of these.
* The Iceberg proxy: pass-through without state.
* Parsers, tokenizer, providers, progress display, CLI: pure functions
  and I/O; the pipeline takes their results as constants or as answers that may
  fail.
* How a filter looks as text: field names and literals are values, their quoting is
  not modelled, and numbers compare as numbers (DuckDB compares JSON texts: 1 and 1.0
  differ there).
* White space of several bytes, and a chunk size of zero, which the command line lets
  through: the window then emits nothing, or panics.
* A listing's prefix is a set of names; that `_` and `%` in a prefix are wildcards of
  LIKE in `duckdb_store.rs` is only told here.
* Which rows a walk of the HNSW graph misses, and how many: any.
* A kill in the middle of one `write` of the checkpoint, or a power cut that loses what was
  written and not synced (whether the sync succeeds is not looked at by the code). A piece
  cut inside of a character of several bytes makes `read_to_string` of the whole checkpoint
  fail, and with it every later resume; records here end in a whole character.
* A poisoned connection mutex: no modelled path panics while holding it.

## Plan

Done: `VectorService`, `TableService`, `VectorReads`, `Chunkers` and `EmbedPipeline`, each
with its theorems, `VectorApi` and `TableApi` with the refinements, `MetadataFilter`. Left: a
composition of vector and table buckets, which share one S3 namespace.
