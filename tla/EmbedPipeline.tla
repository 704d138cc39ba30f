--------------------------- MODULE EmbedPipeline ---------------------------
(***************************************************************************)
(* marila-embed put: the streaming pipeline that reads files, parses them, *)
(* chunks them, embeds the chunks and puts the vectors                     *)
(* (crates/embed_cli/src/pipeline.rs, source/local.rs), and the checkpoint *)
(* file that lets a later run skip what an earlier one finished            *)
(* (checkpoint.rs).                                                        *)
(*                                                                         *)
(* Every task of the pipeline is a program counter; the bounded channels   *)
(* between them are sequences.  A task runs until it waits for a channel,  *)
(* a lock, the embedding provider, the vector service or the disk.         *)
(*                                                                         *)
(* Abstracted: bytes, texts and vectors.  A document is a source and the   *)
(* version of it that was read (its content hash); a chunk is a document   *)
(* and an index, which is also its content-hash key.  Retries of one       *)
(* embedding request are part of the call.                                 *)
(***************************************************************************)
EXTENDS Integers, Sequences, Functions

CONSTANTS
  Sources,       \* paths the inputs resolve to, each once
  Versions,      \* contents a file may have
  Pieces,        \* Pieces[d]: the number of chunks of document d
  Unparsable,    \* documents no parser takes or whose parser fails
  Unchunkable,   \* documents on which the chunker panics (see Chunkers)
  Parsers,       \* parse workers
  Embedders,     \* embed workers
  RawCap, ParsedCap, ChunkCap, EmbeddedCap,   \* channel capacities
  EmbedBatch,    \* chunks per embedding request
  PutBatch,      \* chunks per put
  MaxChunks,     \* --max-chunks, 0 for no cap
  MayDryRun,     \* TRUE iff some runs are given --dry-run
  MaxRuns,       \* bound: runs started
  MaxFaults,     \* bound: failed embedding requests, puts and appends
  MaxCrashes,    \* bound: runs killed
  MaxEdits,      \* bound: files changed
  NoDoc

Docs == Sources \X Versions
Chunks(d) == {<<d, n>> : n \in 1..Pieces[d]}
AllChunks == UNION {Chunks(d) : d \in Docs}

ASSUME PipelineConstants ==
  /\ Pieces \in [Docs -> Nat]
  /\ Unparsable \subseteq Docs /\ Unchunkable \subseteq Docs
  /\ Parsers # {} /\ Embedders # {}
  /\ {RawCap, ParsedCap, ChunkCap, EmbeddedCap, EmbedBatch, PutBatch} \subseteq Nat \ {0}
  /\ {MaxChunks, MaxRuns, MaxFaults, MaxCrashes, MaxEdits} \subseteq Nat
  /\ MayDryRun \in BOOLEAN
  /\ NoDoc \notin Docs

VARIABLES
  \* what outlives a run
  content,   \* content[s]: the version of file s on disk
  lines,     \* the checkpoint file; the last line has no newline yet; NoDoc
             \* in a line is a piece of a record
  sink,      \* chunks whose vectors the index holds
  \* the run
  mode,      \* "none", "put" or "dry"
  done,      \* the checkpoint's in-memory set of finished documents
  progress,  \* progress[s]: the checkpoint's bookkeeping of source s
  toVisit,   \* sources the walk has still to reach
  raw, parsed, chunked, embedded,   \* the channels
  parser,    \* parser[w]: [pc, doc]
  chunker,   \* the chunk task: [pc, doc, next, count]
  embedder,  \* embedder[w]: [pc, batch]
  putter,    \* the put task: [pc, buf]
  writer,    \* writer[x]: the record task x is appending, or NoDoc
  fileLock,  \* the task inside append_done, or "none"
  \* bounds and history
  seen,      \* documents this run read, those it skipped too
  lost,      \* chunks this run dropped after a failed request
  recorded,  \* documents whose done record was written, newline and all
  cut,       \* lines a kill or a failed write left without their newline
  unwritten, \* documents whose record this run failed to append
  spent

disk    == <<content, lines, sink>>
checks  == <<done, progress, writer, fileLock, lines, recorded, cut, unwritten>>
tasks   == <<parser, chunker, embedder, putter>>
chans   == <<raw, parsed, chunked, embedded>>
vars    == <<content, sink, mode, checks, toVisit, chans, tasks, seen, lost, spent>>

-----------------------------------------------------------------------------

Writers == {"chunk", "put"}

\* The lines that parse: one whole record, with or without its newline.
Loaded == {Head(l) : l \in {x \in Range(lines) : Len(x) = 1 /\ Head(x) # NoDoc}}

Gone(t) == t.pc = "gone"
ParsersGone   == \A w \in Parsers : Gone(parser[w])
EmbeddersGone == \A w \in Embedders : Gone(embedder[w])
AllGone == ParsersGone /\ Gone(chunker) /\ EmbeddersGone /\ Gone(putter)

Spend(what) == spent' = [spent EXCEPT ![what] = @ + 1]
Fault == spent.faults < MaxFaults /\ Spend("faults")

\* Where every task of a run begins.
Parser0   == [w \in Parsers |-> [pc |-> "recv", doc |-> NoDoc]]
Chunker0  == [pc |-> "recv", doc |-> NoDoc, next |-> 1, count |-> 0]
Embedder0 == [w \in Embedders |-> [pc |-> "recv", batch |-> <<>>]]
Putter0   == [pc |-> "recv", buf |-> <<>>]
Progress0 == [s \in Sources |-> [expected |-> 0, actual |-> 0, sealed |-> FALSE,
                                 written |-> FALSE, doc |-> NoDoc]]
Writer0   == [x \in Writers |-> NoDoc]

Init ==
  /\ content \in [Sources -> Versions]
  /\ lines = << <<>> >> /\ sink = {}
  /\ mode = "none" /\ done = {} /\ progress = Progress0 /\ toVisit = {}
  /\ raw = <<>> /\ parsed = <<>> /\ chunked = <<>> /\ embedded = <<>>
  /\ parser = Parser0 /\ chunker = Chunker0 /\ embedder = Embedder0 /\ putter = Putter0
  /\ writer = Writer0 /\ fileLock = "none"
  /\ seen = {} /\ lost = {} /\ unwritten = {} /\ recorded = {} /\ cut = {}
  /\ spent = [runs |-> 0, faults |-> 0, crashes |-> 0, edits |-> 0]

\* The process is gone and with it all it had in memory.
Forget ==
  /\ mode' = "none" /\ done' = {} /\ progress' = Progress0 /\ toVisit' = {}
  /\ raw' = <<>> /\ parsed' = <<>> /\ chunked' = <<>> /\ embedded' = <<>>
  /\ parser' = Parser0 /\ chunker' = Chunker0 /\ embedder' = Embedder0 /\ putter' = Putter0
  /\ writer' = Writer0 /\ fileLock' = "none"
  /\ seen' = {} /\ lost' = {} /\ unwritten' = {}
  /\ UNCHANGED <<disk, recorded>>

-----------------------------------------------------------------------------
(* A run starts, ends, or is killed.                                       *)

\* The checkpoint is loaded, with --no-resume not even seen, and opened for
\* append where the last write left it.
Start ==
  /\ mode = "none"
  /\ spent.runs < MaxRuns
  /\ Spend("runs")
  /\ mode' \in IF MayDryRun THEN {"put", "dry"} ELSE {"put"}
  /\ done' \in {Loaded, {}}
  /\ toVisit' = Sources
  /\ UNCHANGED <<disk, progress, chans, tasks, writer, fileLock, seen, lost,
                 recorded, cut, unwritten>>

Finish == mode # "none" /\ toVisit = {} /\ AllGone /\ Forget /\ UNCHANGED <<cut, spent>>

Kill ==
  /\ mode # "none"
  /\ spent.crashes < MaxCrashes
  /\ Spend("crashes")
  /\ Forget
  /\ cut' = IF fileLock = "none" THEN cut ELSE cut \cup {Len(lines)}

Edit(s) ==
  /\ spent.edits < MaxEdits
  /\ Spend("edits")
  /\ content' \in {[content EXCEPT ![s] = v] : v \in Versions \ {content[s]}}
  /\ UNCHANGED <<sink, mode, checks, toVisit, chans, tasks, seen, lost>>

-----------------------------------------------------------------------------
(* Source and parse stages.                                                *)

\* The walk reads one file and sends it on unless the checkpoint has it.
Visit(s) ==
  LET d == <<s, content[s]>> IN
  /\ s \in toVisit
  /\ toVisit' = toVisit \ {s}
  /\ seen' = seen \cup {d}
  /\ \/ /\ d \in done
        /\ UNCHANGED raw
     \/ /\ d \notin done
        /\ ~ParsersGone /\ Len(raw) < RawCap
        /\ raw' = Append(raw, d)
  /\ UNCHANGED <<content, sink, mode, checks, parsed, chunked, embedded, tasks, lost, spent>>

\* Nobody receives any more: the walk stops.
StopWalk ==
  /\ toVisit # {}
  /\ ParsersGone
  /\ toVisit' = {}
  /\ UNCHANGED <<content, sink, mode, checks, chans, tasks, seen, lost, spent>>

TakeRaw(w) ==
  /\ parser[w].pc = "recv"
  /\ \/ /\ raw # <<>>
        /\ raw' = Tail(raw)
        /\ parser' = [parser EXCEPT ![w] = [pc |-> "send", doc |-> Head(raw)]]
     \/ /\ mode # "none" /\ raw = <<>> /\ toVisit = {}
        /\ parser' = [parser EXCEPT ![w].pc = "gone"]
        /\ UNCHANGED raw
  /\ UNCHANGED <<content, sink, mode, checks, toVisit, parsed, chunked, embedded,
                 chunker, embedder, putter, seen, lost, spent>>

\* Mutant of SendParsed: a worker whose receiver is gone waits for room.
SendToNobody(w) ==
  LET d == parser[w].doc IN
  /\ parser[w].pc = "send"
  /\ \/ d \in Unparsable /\ UNCHANGED parsed
     \/ /\ d \notin Unparsable
        /\ Len(parsed) < ParsedCap
        /\ parsed' = Append(parsed, d)
  /\ parser' = [parser EXCEPT ![w] = [pc |-> "recv", doc |-> NoDoc]]
  /\ UNCHANGED <<content, sink, mode, checks, toVisit, raw, chunked, embedded,
                 chunker, embedder, putter, seen, lost, spent>>

\* A document that does not parse is dropped; a worker whose receiver is gone
\* stops.
SendParsed(w) ==
  LET d == parser[w].doc
      next == IF d \notin Unparsable /\ Gone(chunker) THEN "gone" ELSE "recv"
  IN
  /\ parser[w].pc = "send"
  /\ \/ d \in Unparsable /\ UNCHANGED parsed
     \/ d \notin Unparsable /\ Gone(chunker) /\ UNCHANGED parsed
     \/ /\ d \notin Unparsable /\ ~Gone(chunker)
        /\ Len(parsed) < ParsedCap
        /\ parsed' = Append(parsed, d)
  /\ parser' = [parser EXCEPT ![w] = [pc |-> next, doc |-> NoDoc]]
  /\ UNCHANGED <<content, sink, mode, checks, toVisit, raw, chunked, embedded,
                 chunker, embedder, putter, seen, lost, spent>>

-----------------------------------------------------------------------------
(* Checkpoint.                                                             *)

\* Task x goes on to append the done record of d.
AppendDone(x, d) == writer' = [writer EXCEPT ![x] = d]

\* Mutant of Seal: the record is left to the put task.
SealOnly(d) ==
  /\ progress' = [progress EXCEPT ![d[1]] =
       [@ EXCEPT !.sealed = TRUE, !.expected = Pieces[d], !.doc = d]]
  /\ UNCHANGED writer

\* Every chunk of the source was emitted; the last put may have come before.
Seal(d) ==
  LET p == progress[d[1]]
      whole == p.actual >= Pieces[d] /\ ~p.written
  IN
  /\ progress' = [progress EXCEPT ![d[1]] =
       [p EXCEPT !.sealed = TRUE, !.expected = Pieces[d], !.doc = d,
                 !.written = p.written \/ whole]]
  /\ IF whole THEN AppendDone("chunk", d) ELSE UNCHANGED writer

\* One more chunk of source s was put.
RecordPut(s) ==
  LET p == progress[s]
      whole == p.sealed /\ p.actual + 1 >= p.expected /\ ~p.written
  IN
  /\ progress' = [progress EXCEPT ![s] =
       [p EXCEPT !.actual = p.actual + 1, !.written = p.written \/ whole]]
  /\ IF whole THEN AppendDone("put", p.doc) ELSE UNCHANGED writer

Extended(r) == [lines EXCEPT ![Len(lines)] = Append(@, r)]

\* Mutant of WriteLine: the file is not locked.
WriteLineUnlocked(x) ==
  /\ writer[x] # NoDoc
  /\ fileLock # x
  /\ fileLock' = x
  /\ lines' = Extended(writer[x])
  /\ UNCHANGED <<content, sink, mode, done, progress, writer, recorded, cut, unwritten,
                 toVisit, chans, tasks, seen, lost, spent>>

\* The record goes to the end of the file, wherever that is.  A failed write
\* leaves nothing or a piece, and the record is not tried again.
WriteLine(x) ==
  /\ writer[x] # NoDoc
  /\ fileLock = "none"
  /\ \/ /\ fileLock' = x
        /\ lines' = Extended(writer[x])
        /\ UNCHANGED <<writer, cut, unwritten, spent>>
     \/ /\ Fault
        /\ \/ UNCHANGED <<lines, cut>>
           \/ lines' = Extended(NoDoc) /\ cut' = cut \cup {Len(lines)}
        /\ unwritten' = unwritten \cup {writer[x]}
        /\ writer' = [writer EXCEPT ![x] = NoDoc]
        /\ UNCHANGED fileLock
  /\ UNCHANGED <<content, sink, mode, done, progress, recorded, toVisit,
                 chans, tasks, seen, lost>>

\* Newline and sync, whose answer nobody looks at, and the record counts.  A
\* failed newline leaves the line open for the next record; the error is
\* reported here, or only by the next write, and then the record counts too.
WriteNewline(x) ==
  /\ fileLock = x
  /\ fileLock' = "none"
  /\ writer' = [writer EXCEPT ![x] = NoDoc]
  /\ \/ /\ lines' = Append(lines, <<>>)
        /\ done' = done \cup {writer[x]}
        /\ recorded' = recorded \cup {writer[x]}
        /\ UNCHANGED <<cut, unwritten, spent>>
     \/ /\ Fault
        /\ cut' = cut \cup {Len(lines)}
        /\ \/ unwritten' = unwritten \cup {writer[x]} /\ UNCHANGED done
           \/ done' = done \cup {writer[x]} /\ UNCHANGED unwritten
        /\ UNCHANGED <<lines, recorded>>
  /\ UNCHANGED <<content, sink, mode, progress, toVisit, chans, tasks, seen, lost>>

-----------------------------------------------------------------------------
(* Chunk stage.                                                            *)

ReceiveParsed ==
  /\ chunker.pc = "recv"
  /\ writer["chunk"] = NoDoc
  /\ \/ /\ parsed # <<>> /\ Head(parsed) \notin Unchunkable
        /\ parsed' = Tail(parsed)
        /\ chunker' = [chunker EXCEPT !.pc = "emit", !.doc = Head(parsed), !.next = 1]
     \/ /\ parsed = <<>> /\ ParsersGone
        /\ chunker' = [chunker EXCEPT !.pc = "gone"]
        /\ UNCHANGED parsed
  /\ UNCHANGED <<content, sink, mode, checks, toVisit, raw, chunked, embedded,
                 parser, embedder, putter, seen, lost, spent>>

Capped == MaxChunks > 0 /\ chunker.count >= MaxChunks

\* Mutant of EmitChunk: the channel has no bound.
EmitUnbounded ==
  /\ chunker.pc = "emit"
  /\ chunker.next <= Pieces[chunker.doc]
  /\ ~Capped
  /\ chunked' = Append(chunked, <<chunker.doc, chunker.next>>)
  /\ chunker' = [chunker EXCEPT !.next = @ + 1, !.count = @ + 1]
  /\ UNCHANGED <<content, sink, mode, checks, toVisit, raw, parsed, embedded,
                 parser, embedder, putter, seen, lost, spent>>

EmitChunk ==
  /\ chunker.pc = "emit"
  /\ chunker.next <= Pieces[chunker.doc]
  /\ ~Capped
  /\ Len(chunked) < ChunkCap
  /\ chunked' = Append(chunked, <<chunker.doc, chunker.next>>)
  /\ chunker' = [chunker EXCEPT !.next = @ + 1, !.count = @ + 1]
  /\ UNCHANGED <<content, sink, mode, checks, toVisit, raw, parsed, embedded,
                 parser, embedder, putter, seen, lost, spent>>

\* The cap ends the stage in the middle of a document, which is not sealed.
StopAtCap ==
  /\ chunker.pc = "emit"
  /\ chunker.next <= Pieces[chunker.doc]
  /\ Capped
  /\ chunker' = [chunker EXCEPT !.pc = "gone"]
  /\ parsed' = <<>>
  /\ UNCHANGED <<content, sink, mode, checks, toVisit, raw, chunked, embedded,
                 parser, embedder, putter, seen, lost, spent>>

\* A panic ends the task, and nobody looks at how it ended.
Panic ==
  /\ chunker.pc = "recv"
  /\ writer["chunk"] = NoDoc
  /\ parsed # <<>> /\ Head(parsed) \in Unchunkable
  /\ chunker' = [chunker EXCEPT !.pc = "gone", !.doc = Head(parsed)]
  /\ parsed' = <<>>
  /\ UNCHANGED <<content, sink, mode, checks, toVisit, raw, chunked, embedded,
                 parser, embedder, putter, seen, lost, spent>>

SealDoc ==
  /\ chunker.pc = "emit"
  /\ chunker.next > Pieces[chunker.doc]
  /\ Seal(chunker.doc)
  /\ chunker' = [chunker EXCEPT !.pc = "recv", !.doc = NoDoc, !.next = 1]
  /\ UNCHANGED <<content, sink, mode, done, fileLock, lines, recorded, cut, unwritten,
                 toVisit, chans, parser, embedder, putter, seen, lost, spent>>

-----------------------------------------------------------------------------
(* Embed stage: a worker keeps the receiver's lock until its batch is full *)
(* or the channel is closed.                                               *)

Filling(w) == embedder[w].pc = "fill"

TakeLock(w) ==
  /\ mode # "none"
  /\ embedder[w].pc = "recv"
  /\ \A v \in Embedders : ~Filling(v)
  /\ embedder' = [embedder EXCEPT ![w].pc = "fill"]
  /\ UNCHANGED <<content, sink, mode, checks, toVisit, chans,
                 parser, chunker, putter, seen, lost, spent>>

FillBatch(w) ==
  LET more == Append(embedder[w].batch, Head(chunked)) IN
  /\ Filling(w)
  /\ chunked # <<>>
  /\ chunked' = Tail(chunked)
  /\ embedder' = [embedder EXCEPT ![w] =
       [pc |-> IF Len(more) = EmbedBatch THEN "call" ELSE "fill", batch |-> more]]
  /\ UNCHANGED <<content, sink, mode, checks, toVisit, raw, parsed, embedded,
                 parser, chunker, putter, seen, lost, spent>>

\* Mutant of CloseBatch: a closed channel read as an empty batch.
SkipEmptyBatch(w) ==
  /\ Filling(w)
  /\ chunked = <<>> /\ Gone(chunker)
  /\ embedder' = [embedder EXCEPT ![w].pc = IF embedder[w].batch = <<>> THEN "recv" ELSE "call"]
  /\ UNCHANGED <<content, sink, mode, checks, toVisit, chans,
                 parser, chunker, putter, seen, lost, spent>>

\* Mutant of CloseBatch: an empty channel is taken for a closed one.
CloseEarly(w) ==
  /\ Filling(w)
  /\ chunked = <<>>
  /\ embedder' = [embedder EXCEPT ![w].pc = IF embedder[w].batch = <<>> THEN "gone" ELSE "call"]
  /\ UNCHANGED <<content, sink, mode, checks, toVisit, chans,
                 parser, chunker, putter, seen, lost, spent>>

CloseBatch(w) ==
  /\ Filling(w)
  /\ chunked = <<>> /\ Gone(chunker)
  /\ embedder' = [embedder EXCEPT ![w].pc = IF embedder[w].batch = <<>> THEN "gone" ELSE "call"]
  /\ UNCHANGED <<content, sink, mode, checks, toVisit, chans,
                 parser, chunker, putter, seen, lost, spent>>

\* The request succeeds, or fails for good and the batch is dropped.
CallProvider(w) ==
  /\ embedder[w].pc = "call"
  /\ \/ /\ embedder' = [embedder EXCEPT ![w].pc = "send"]
        /\ UNCHANGED <<lost, spent>>
     \/ /\ Fault
        /\ lost' = lost \cup Range(embedder[w].batch)
        /\ embedder' = [embedder EXCEPT ![w] = [pc |-> "recv", batch |-> <<>>]]
  /\ UNCHANGED <<content, sink, mode, checks, toVisit, chans,
                 parser, chunker, putter, seen>>

SendEmbedded(w) ==
  LET batch == embedder[w].batch IN
  /\ embedder[w].pc = "send"
  /\ Len(embedded) < EmbeddedCap
  /\ embedded' = Append(embedded, Head(batch))
  /\ embedder' = [embedder EXCEPT ![w] =
       [pc |-> IF Len(batch) = 1 THEN "recv" ELSE "send", batch |-> Tail(batch)]]
  /\ UNCHANGED <<content, sink, mode, checks, toVisit, raw, parsed, chunked,
                 parser, chunker, putter, seen, lost, spent>>

-----------------------------------------------------------------------------
(* Put stage.                                                              *)

ReceiveEmbedded ==
  LET more == Append(putter.buf, Head(embedded)) IN
  /\ putter.pc = "recv"
  /\ embedded # <<>>
  /\ embedded' = Tail(embedded)
  /\ putter' = [pc |-> IF Len(more) >= PutBatch THEN "put" ELSE "recv", buf |-> more]
  /\ UNCHANGED <<content, sink, mode, checks, toVisit, raw, parsed, chunked,
                 parser, chunker, embedder, seen, lost, spent>>

\* The flush interval passes with chunks in the buffer.
FlushTimer ==
  /\ putter.pc = "recv"
  /\ putter.buf # <<>>
  /\ putter' = [putter EXCEPT !.pc = "put"]
  /\ UNCHANGED <<content, sink, mode, checks, toVisit, chans,
                 parser, chunker, embedder, seen, lost, spent>>

\* Every embedder hung up: a last flush, and the task ends.
ClosePut ==
  /\ putter.pc = "recv"
  /\ embedded = <<>> /\ EmbeddersGone
  /\ putter' = [putter EXCEPT !.pc = IF putter.buf = <<>> THEN "gone" ELSE "put"]
  /\ UNCHANGED <<content, sink, mode, checks, toVisit, chans,
                 parser, chunker, embedder, seen, lost, spent>>

\* Mutant of CallPut: a failed put is logged and counted all the same.
CallPutAndCount ==
  /\ putter.pc = "put"
  /\ \/ /\ sink' = IF mode = "dry" THEN sink ELSE sink \cup Range(putter.buf)
        /\ UNCHANGED <<lost, spent>>
     \/ /\ Fault
        /\ lost' = lost \cup Range(putter.buf)
        /\ UNCHANGED sink
  /\ putter' = [putter EXCEPT !.pc = "record"]
  /\ UNCHANGED <<content, mode, checks, toVisit, chans, parser, chunker, embedder, seen>>

\* The batch goes out in slices; a failure keeps the slices before it and
\* perhaps its own, and the whole batch counts as not put.  A dry run puts
\* into memory.
CallPut ==
  LET landed(n) == IF mode = "dry" THEN sink
                   ELSE sink \cup Range(SubSeq(putter.buf, 1, n))
  IN
  /\ putter.pc = "put"
  /\ \/ /\ sink' = landed(Len(putter.buf))
        /\ putter' = [putter EXCEPT !.pc = "record"]
        /\ UNCHANGED <<lost, spent>>
     \/ /\ Fault
        /\ \E n \in 0..Len(putter.buf) : sink' = landed(n)
        /\ lost' = lost \cup Range(putter.buf)
        /\ putter' = [pc |-> "recv", buf |-> <<>>]
  /\ UNCHANGED <<content, mode, checks, toVisit, chans, parser, chunker, embedder, seen>>

\* The chunks of the batch are counted one by one, each after the append the
\* one before it may have caused.
CountPut ==
  /\ putter.pc = "record"
  /\ writer["put"] = NoDoc
  /\ \/ /\ putter.buf # <<>>
        /\ RecordPut(Head(putter.buf)[1][1])
        /\ putter' = [putter EXCEPT !.buf = Tail(@)]
     \/ /\ putter.buf = <<>>
        /\ putter' = [putter EXCEPT !.pc = "recv"]
        /\ UNCHANGED <<progress, writer>>
  /\ UNCHANGED <<content, sink, mode, done, fileLock, lines, recorded, cut, unwritten,
                 toVisit, chans, parser, chunker, embedder, seen, lost, spent>>

-----------------------------------------------------------------------------

Walk == StopWalk \/ \E s \in Sources : Visit(s)
Parse(w) == TakeRaw(w) \/ SendParsed(w)
Chunk == ReceiveParsed \/ EmitChunk \/ StopAtCap \/ Panic \/ SealDoc
Embed(w) == TakeLock(w) \/ FillBatch(w) \/ CloseBatch(w) \/ CallProvider(w) \/ SendEmbedded(w)
Put == ReceiveEmbedded \/ FlushTimer \/ ClosePut \/ CallPut \/ CountPut
AppendRecord(x) == WriteLine(x) \/ WriteNewline(x)

\* No run is going and none has to start.
Rest == mode = "none" /\ UNCHANGED vars

Next ==
  \/ Start \/ Finish \/ Kill \/ \E s \in Sources : Edit(s)
  \/ Walk \/ \E w \in Parsers : Parse(w)
  \/ Chunk
  \/ \E w \in Embedders : Embed(w)
  \/ Put
  \/ \E x \in Writers : AppendRecord(x)
  \/ Rest

Spec == Init /\ [][Next]_vars

\* The runtime polls every task whose await is over; the provider, the
\* service and the disk answer in the end.
FairSpec ==
  /\ Spec
  /\ WF_vars(Walk) /\ WF_vars(Chunk) /\ WF_vars(Put) /\ WF_vars(Finish)
  /\ \A w \in Parsers : WF_vars(Parse(w))
  /\ \A w \in Embedders : WF_vars(Embed(w))
  /\ \A x \in Writers : WF_vars(AppendRecord(x))

-----------------------------------------------------------------------------
(* Properties.                                                             *)

\* Every variable holds a value of its kind, and no channel or batch holds
\* more than its bound.
DiskTypes ==
  /\ content \in [Sources -> Versions]
  /\ lines \in Seq(Seq(Docs \cup {NoDoc})) /\ lines # <<>>
  /\ sink \subseteq AllChunks
  /\ recorded \subseteq Docs
  /\ cut \subseteq Nat

CheckpointTypes ==
  /\ done \subseteq Docs /\ unwritten \subseteq Docs
  /\ progress \in [Sources -> [expected : Nat, actual : Nat, sealed : BOOLEAN,
                               written : BOOLEAN, doc : Docs \cup {NoDoc}]]
  /\ writer \in [Writers -> Docs \cup {NoDoc}]
  /\ fileLock \in Writers \cup {"none"}

ChannelTypes ==
  /\ raw \in Seq(Docs) /\ Len(raw) <= RawCap
  /\ parsed \in Seq(Docs) /\ Len(parsed) <= ParsedCap
  /\ chunked \in Seq(AllChunks) /\ Len(chunked) <= ChunkCap
  /\ embedded \in Seq(AllChunks) /\ Len(embedded) <= EmbeddedCap

TaskTypes ==
  /\ parser \in [Parsers -> [pc : {"recv", "send", "gone"}, doc : Docs \cup {NoDoc}]]
  /\ chunker \in [pc : {"recv", "emit", "gone"}, doc : Docs \cup {NoDoc},
                   next : Nat, count : Nat]
  /\ embedder \in [Embedders -> [pc : {"recv", "fill", "call", "send", "gone"},
                                 batch : Seq(AllChunks)]]
  /\ \A w \in Embedders : Len(embedder[w].batch) <= EmbedBatch
  /\ putter \in [pc : {"recv", "put", "record", "gone"}, buf : Seq(AllChunks)]
  /\ Len(putter.buf) <= PutBatch

TypeOK ==
  /\ DiskTypes /\ CheckpointTypes /\ ChannelTypes /\ TaskTypes
  /\ mode \in {"none", "put", "dry"}
  /\ toVisit \subseteq Sources
  /\ seen \subseteq Docs
  /\ lost \subseteq AllChunks
  /\ spent \in [runs : 0..MaxRuns, faults : 0..MaxFaults, crashes : 0..MaxCrashes,
                edits : 0..MaxEdits]

\* A document the checkpoint file calls done, which no later run will read
\* again, has every one of its chunks in the index: however the chunk and the
\* put task raced, whatever requests failed and wherever the run was killed.
DoneIsStored == \A d \in Loaded : Chunks(d) \subseteq sink

\* A record that was written is there for the next run to read, though two
\* tasks append to one file: unless it was written behind what a kill or a
\* failed write had left on a line without its newline, and each such line
\* costs one record, the last one on it.
RecordsSurvive ==
  \A d \in recorded : \/ d \in Loaded
                      \/ \E n \in cut : lines[n] # <<>> /\ lines[n][Len(lines[n])] = d

\* When a run has drained whose chunk task ended between two documents, the
\* documents it calls done are those none of whose chunks it dropped, but for
\* those whose append failed: neither the chunk task nor the put task leaves
\* the last check to the other.
Accounted ==
  AllGone /\ chunker.doc = NoDoc =>
    \A d \in seen \ Unparsable :
      /\ d \in done => Chunks(d) \cap lost = {}
      /\ Chunks(d) \cap lost = {} => d \in done \cup unwritten

\* A task has what it waits for: room in the channel it sends to, something in
\* the one it receives from or nobody left to send, a lock that is free.
WalkReady == toVisit # {} /\ (ParsersGone \/ Len(raw) < RawCap)
ParserReady(w) ==
  \/ parser[w].pc = "recv" /\ (raw # <<>> \/ toVisit = {})
  \/ parser[w].pc = "send" /\ (Gone(chunker) \/ Len(parsed) < ParsedCap)
ChunkerReady ==
  \/ chunker.pc = "recv" /\ writer["chunk"] = NoDoc /\ (parsed # <<>> \/ ParsersGone)
  \/ chunker.pc = "emit" /\ (chunker.next > Pieces[chunker.doc] \/ Len(chunked) < ChunkCap)
EmbedderReady(w) ==
  \/ embedder[w].pc = "recv" /\ \A v \in Embedders : ~Filling(v)
  \/ Filling(w) /\ (chunked # <<>> \/ Gone(chunker))
  \/ embedder[w].pc = "call"
  \/ embedder[w].pc = "send" /\ Len(embedded) < EmbeddedCap
PutterReady ==
  \/ putter.pc = "recv" /\ (embedded # <<>> \/ putter.buf # <<>> \/ EmbeddersGone)
  \/ putter.pc = "put"
  \/ putter.pc = "record" /\ writer["put"] = NoDoc
WriterReady(x) == writer[x] # NoDoc /\ fileLock \in {"none", x}

Ready ==
  \/ toVisit = {} /\ AllGone
  \/ WalkReady \/ (\E w \in Parsers : ParserReady(w)) \/ ChunkerReady
  \/ (\E w \in Embedders : EmbedderReady(w)) \/ PutterReady
  \/ (\E x \in Writers : WriterReady(x))

\* The tasks of a run never all wait for each other, with whatever channels,
\* batches and workers: some task has what it waits for, or all have ended.
NeverStuck == mode # "none" => Ready

\* A task that has what it waits for can go on.
ReadyCanStep ==
  mode # "none" /\ Ready =>
    ENABLED (\/ Finish \/ Walk \/ (\E w \in Parsers : Parse(w)) \/ Chunk
             \/ (\E w \in Embedders : Embed(w)) \/ Put \/ (\E x \in Writers : AppendRecord(x)))

\* A run ends, with every channel full and the cap hit in the middle of a
\* document, or the chunk task gone in a panic.
Terminates == mode # "none" ~> mode = "none"
=============================================================================
