------------------------ MODULE EmbedPipeline_proofs ------------------------
(***************************************************************************)
(* For every set of files and contents, any number of workers, any channel *)
(* and batch size and any bound on runs, faults, edits and kills: the      *)
(* channels keep to their bounds; unless a run is killed no record of the  *)
(* checkpoint is lost; and unless one is a dry run a document that the     *)
(* checkpoint calls done has every one of its chunks in the index, and a   *)
(* run that has drained calls exactly the whole documents done.            *)
(***************************************************************************)
EXTENDS EmbedPipeline, FiniteSetTheorems, TLAPS

-----------------------------------------------------------------------------
(* Types.                                                                  *)

\* A task's record, and what it holds where it is.
ParserInv ==
  /\ parser \in [Parsers -> [pc : {"recv", "send", "gone"}, doc : Docs \cup {NoDoc}]]
  /\ \A w \in Parsers : parser[w].pc = "send" => parser[w].doc \in Docs

ChunkerInv ==
  /\ chunker \in [pc : {"recv", "emit", "gone"}, doc : Docs \cup {NoDoc}, next : Nat, count : Nat]
  /\ chunker.pc = "emit" => chunker.doc \in Docs /\ chunker.next \in 1 .. Pieces[chunker.doc] + 1

BatchInv(p, q) ==
  /\ p = "fill" => Len(q) < EmbedBatch
  /\ p \in {"call", "send"} => q # <<>>
  /\ p \in {"recv", "gone"} => q = <<>>

EmbedderInv ==
  /\ embedder \in [Embedders -> [pc : {"recv", "fill", "call", "send", "gone"}, batch : Seq(AllChunks)]]
  /\ \A w \in Embedders : Len(embedder[w].batch) <= EmbedBatch /\ BatchInv(embedder[w].pc, embedder[w].batch)

PutterInv ==
  /\ putter \in [pc : {"recv", "put", "record", "gone"}, buf : Seq(AllChunks)]
  /\ Len(putter.buf) <= PutBatch
  /\ putter.pc = "recv" => Len(putter.buf) < PutBatch

\* Only a document that was sealed can become whole, and who has the file's
\* lock appends a record.
Sealing ==
  /\ \A s \in Sources : progress[s].sealed =>
       progress[s].doc \in Docs /\ progress[s].doc[1] = s /\ progress[s].expected = Pieces[progress[s].doc]
  /\ fileLock # "none" => writer[fileLock] # NoDoc
  /\ writer["chunk"] # NoDoc => chunker.pc = "recv"
  /\ writer["put"] # NoDoc => putter.pc = "record"

\* Between two runs there is nothing in memory.
Idle ==
  mode = "none" =>
    /\ progress = Progress0 /\ toVisit = {} /\ seen = {}
    /\ raw = <<>> /\ parsed = <<>> /\ chunked = <<>> /\ embedded = <<>>
    /\ parser = Parser0 /\ chunker = Chunker0 /\ embedder = Embedder0 /\ putter = Putter0
    /\ writer = Writer0 /\ fileLock = "none"

\* What is not the disk's, the checkpoint's, a channel's or a task's.
RunTypes ==
  /\ mode \in {"none", "put", "dry"} /\ toVisit \subseteq Sources /\ seen \subseteq Docs
  /\ lost \subseteq AllChunks
  /\ spent \in [runs : 0..MaxRuns, faults : 0..MaxFaults, crashes : 0..MaxCrashes,
                edits : 0..MaxEdits]

TypeInv ==
  /\ DiskTypes /\ CheckpointTypes /\ ChannelTypes /\ RunTypes
  /\ ParserInv /\ ChunkerInv /\ EmbedderInv /\ PutterInv
  /\ Sealing /\ Idle

\* The type invariant is part of it.
LEMMA TypeInvType == TypeInv => TypeOK
  BY DEF TypeInv, TypeOK, TaskTypes, ParserInv, ChunkerInv, EmbedderInv, PutterInv, RunTypes

\* A chunk is of a document and has a number up to its pieces.
LEMMA ChunkFacts ==
  /\ \A c \in AllChunks : /\ c[1] \in Docs /\ c[1][1] \in Sources
                          /\ c[2] \in 1 .. Pieces[c[1]] /\ c = <<c[1], c[2]>>
  /\ \A d \in Docs, n \in Nat : n \in 1 .. Pieces[d] => <<d, n>> \in AllChunks
  /\ \A d \in Docs : /\ d[1] \in Sources /\ Pieces[d] \in Nat /\ d # NoDoc
                     /\ Chunks(d) \subseteq AllChunks
<1>1. \A d \in Docs : d[1] \in Sources /\ Pieces[d] \in Nat /\ d # NoDoc
  BY PipelineConstants DEF Docs
<1>2. \A c \in AllChunks : \E d \in Docs : \E n \in 1 .. Pieces[d] : c = <<d, n>>
  BY DEF AllChunks, Chunks
<1>3. \A d \in Docs : \A n \in 1 .. Pieces[d] : <<d, n>> \in AllChunks
  BY DEF AllChunks, Chunks
<1>4. \A d \in Docs : Chunks(d) \subseteq AllChunks
  BY DEF AllChunks
<1> QED
  BY <1>1, <1>2, <1>3, <1>4

\* Sequences of a kind and of no more than so many.
Fits(q, X, N) == q \in Seq(X) /\ Len(q) <= N

\* What sending to and receiving from a bounded channel leaves.
LEMMA FitsFacts ==
  ASSUME NEW X, NEW N \in Nat, NEW q, Fits(q, X, N)
  PROVE  /\ Fits(<<>>, X, N)
         /\ q # <<>> => Head(q) \in X /\ Fits(Tail(q), X, N) /\ Len(Tail(q)) = Len(q) - 1
         /\ Len(q) < N => \A x \in X : Fits(Append(q, x), X, N) /\ Len(Append(q, x)) = Len(q) + 1
         /\ Range(q) \subseteq X
         /\ Len(q) \in Nat /\ (Len(q) = 0 <=> q = <<>>)
<1> USE DEF Fits
<1>1. Fits(<<>>, X, N) /\ Len(q) \in Nat /\ (Len(q) = 0 <=> q = <<>>)
  OBVIOUS
<1>2. q # <<>> => Head(q) \in X /\ Fits(Tail(q), X, N) /\ Len(Tail(q)) = Len(q) - 1
  OBVIOUS
<1>3. Len(q) < N => \A x \in X : Fits(Append(q, x), X, N) /\ Len(Append(q, x)) = Len(q) + 1
  OBVIOUS
<1>4. Range(q) \subseteq X
  BY DEF Range
<1> QED
  BY <1>1, <1>2, <1>3, <1>4

\* The capacities and bounds are numbers.
LEMMA BoundFacts ==
  /\ RawCap \in Nat /\ ParsedCap \in Nat /\ ChunkCap \in Nat /\ EmbeddedCap \in Nat
  /\ EmbedBatch \in Nat \ {0} /\ PutBatch \in Nat \ {0}
  /\ MaxRuns \in Nat /\ MaxFaults \in Nat /\ MaxCrashes \in Nat /\ MaxEdits \in Nat
<1>1. /\ RawCap \in Nat \ {0} /\ ParsedCap \in Nat \ {0} /\ ChunkCap \in Nat \ {0}
      /\ EmbeddedCap \in Nat \ {0} /\ EmbedBatch \in Nat \ {0} /\ PutBatch \in Nat \ {0}
  BY PipelineConstants
<1>2. MaxRuns \in Nat /\ MaxFaults \in Nat /\ MaxCrashes \in Nat /\ MaxEdits \in Nat
  BY PipelineConstants
<1> QED
  BY <1>1, <1>2

\* The four channels are such channels.
LEMMA ChannelFacts ==
  ChannelTypes <=> /\ Fits(raw, Docs, RawCap) /\ Fits(parsed, Docs, ParsedCap)
                   /\ Fits(chunked, AllChunks, ChunkCap) /\ Fits(embedded, AllChunks, EmbeddedCap)
  BY DEF ChannelTypes, Fits

\* Nothing is in memory, as before a run and after it.
Empty ==
  /\ done = {} /\ progress = Progress0 /\ toVisit = {}
  /\ raw = <<>> /\ parsed = <<>> /\ chunked = <<>> /\ embedded = <<>>
  /\ parser = Parser0 /\ chunker = Chunker0 /\ embedder = Embedder0 /\ putter = Putter0
  /\ writer = Writer0 /\ fileLock = "none"
  /\ seen = {} /\ lost = {} /\ unwritten = {}

\* Tasks that hold nothing are where they may be.
LEMMA EmptyFacts ==
  Empty => /\ CheckpointTypes /\ ChannelTypes
           /\ ParserInv /\ ChunkerInv /\ EmbedderInv /\ PutterInv /\ Sealing /\ Idle
<1> SUFFICES ASSUME Empty
             PROVE  /\ CheckpointTypes /\ ChannelTypes
                    /\ ParserInv /\ ChunkerInv /\ EmbedderInv /\ PutterInv /\ Sealing /\ Idle
  OBVIOUS
<1> USE BoundFacts DEF Empty
<1>1. CheckpointTypes
  BY DEF Progress0, Writer0, CheckpointTypes
<1>2. ChannelTypes
  BY DEF ChannelTypes
<1>3. ParserInv
  BY DEF ParserInv, Parser0
<1>4. ChunkerInv /\ PutterInv
  BY DEF ChunkerInv, PutterInv, Chunker0, Putter0
<1>5. EmbedderInv
  <2>1. \A w \in Embedders : embedder[w] = [pc |-> "recv", batch |-> <<>>]
    BY DEF Embedder0
  <2>2. <<>> \in Seq(AllChunks) /\ Len(<<>>) = 0
    OBVIOUS
  <2>3. embedder \in [Embedders -> [pc : {"recv", "fill", "call", "send", "gone"}, batch : Seq(AllChunks)]]
    BY <2>2 DEF Embedder0
  <2> QED
    BY <2>1, <2>2, <2>3 DEF EmbedderInv, BatchInv
<1>6. Sealing
  BY DEF Sealing, Progress0, Writer0, Writers
<1>7. Idle
  BY DEF Idle
<1> QED
  BY <1>1, <1>2, <1>3, <1>4, <1>5, <1>6, <1>7

\* The lines that parse hold documents.
LEMMA LoadedFacts ==
  ASSUME DiskTypes PROVE Loaded \subseteq Docs
<1> SUFFICES ASSUME NEW l \in Range(lines), Len(l) = 1, Head(l) # NoDoc PROVE Head(l) \in Docs
  BY DEF Loaded
<1>1. l \in Seq(Docs \cup {NoDoc})
  BY DEF DiskTypes, Range
<1>2. Head(l) \in Docs \cup {NoDoc}
  <2> DEFINE S == Docs \cup {NoDoc}
  <2>1. l \in Seq(S)
    BY <1>1
  <2> HIDE DEF S
  <2>2. Head(l) \in S
    BY <2>1
  <2> QED
    BY <2>2 DEF S
<1> QED
  BY <1>2

\* How many lines the checkpoint file has.
LEMMA LinesLen ==
  ASSUME DiskTypes PROVE Len(lines) \in Nat \ {0}
<1> DEFINE S == Seq(Docs \cup {NoDoc})
<1>1. lines \in Seq(S) /\ lines # <<>>
  BY DEF DiskTypes
<1> HIDE DEF S
<1> QED
  BY <1>1

\* The program starts between runs.
LEMMA TypeInit == Init => TypeInv
<1> SUFFICES ASSUME Init PROVE TypeInv
  OBVIOUS
<1> USE BoundFacts DEF Init
<1>1. DiskTypes /\ RunTypes
  BY DEF DiskTypes, RunTypes
<1>2. Empty
  BY DEF Empty
<1> QED
  BY <1>1, <1>2, EmptyFacts DEF TypeInv

\* The steps of the tasks of a run.
Works ==
  \/ Walk \/ \E w \in Parsers : Parse(w)
  \/ Chunk
  \/ \E w \in Embedders : Embed(w)
  \/ Put
  \/ \E x \in Writers : AppendRecord(x)

\* They are taken while there is a run.
LEMMA Awake == TypeInv /\ Works => mode # "none" /\ mode' = mode
<1> SUFFICES ASSUME TypeInv, Works PROVE mode # "none" /\ mode' = mode
  OBVIOUS
<1>1. mode' = mode
  BY DEF Works, Walk, StopWalk, Visit, Parse, TakeRaw, SendParsed, Chunk, ReceiveParsed, EmitChunk, StopAtCap,
         Panic, SealDoc, Embed, TakeLock, FillBatch, CloseBatch, CallProvider, SendEmbedded,
         Put, ReceiveEmbedded, FlushTimer, ClosePut, CallPut, CountPut, AppendRecord, WriteLine, WriteNewline
<1>2. ASSUME mode = "none" PROVE FALSE
  <2>1. /\ toVisit = {} /\ raw = <<>> /\ parsed = <<>> /\ chunked = <<>> /\ embedded = <<>>
        /\ parser = Parser0 /\ chunker = Chunker0 /\ embedder = Embedder0 /\ putter = Putter0
        /\ writer = Writer0 /\ fileLock = "none"
    BY <1>2 DEF TypeInv, Idle
  <2>2. ~Walk
    BY <2>1 DEF Walk, StopWalk, Visit
  <2>3. \A w \in Parsers : ~Parse(w)
    BY <1>2, <2>1 DEF Parse, TakeRaw, SendParsed, Parser0
  <2>4. ~Chunk
    <3>1. ~ParsersGone
      BY <2>1, PipelineConstants DEF ParsersGone, Gone, Parser0
    <3> QED
      BY <2>1, <3>1 DEF Chunk, ReceiveParsed, EmitChunk, StopAtCap, Panic, SealDoc, Chunker0
  <2>5. \A w \in Embedders : ~Embed(w)
    BY <1>2, <2>1 DEF Embed, TakeLock, FillBatch, CloseBatch, CallProvider, SendEmbedded, Filling, Embedder0
  <2>6. ~Put
    <3>1. ~EmbeddersGone
      BY <2>1, PipelineConstants DEF EmbeddersGone, Gone, Embedder0
    <3> QED
      BY <2>1, <3>1 DEF Put, ReceiveEmbedded, FlushTimer, ClosePut, CallPut, CountPut, Putter0
  <2>7. \A x \in Writers : ~AppendRecord(x)
    BY <2>1 DEF AppendRecord, WriteLine, WriteNewline, Writer0, Writers
  <2> QED
    BY <2>2, <2>3, <2>4, <2>5, <2>6, <2>7 DEF Works
<1> QED
  BY <1>1, <1>2

\* What the checkpoint keeps of a source, when its document is sealed and when
\* a chunk of it is counted.
Tally == [expected : Nat, actual : Nat, sealed : BOOLEAN, written : BOOLEAN, doc : Docs \cup {NoDoc}]

\* Sealing a document changes the tally of its source and, at the last chunk, asks for its record.
LEMMA SealFacts ==
  ASSUME CheckpointTypes, NEW d \in Docs, Seal(d)
  PROVE  /\ \E q \in Tally : /\ progress' = [progress EXCEPT ![d[1]] = q]
                             /\ q.sealed /\ q.doc = d /\ q.expected = Pieces[d]
                             /\ q.actual = progress[d[1]].actual
         /\ \/ writer' = writer
            \/ progress[d[1]].actual >= Pieces[d] /\ writer' = [writer EXCEPT !["chunk"] = d]
<1> DEFINE p == progress[d[1]]
           w == p.written \/ (p.actual >= Pieces[d] /\ ~p.written)
           q == [p EXCEPT !.sealed = TRUE, !.expected = Pieces[d], !.doc = d, !.written = w]
<1>1. p \in Tally /\ Pieces[d] \in Nat
  BY ChunkFacts DEF CheckpointTypes, Tally
<1>2. progress' = [progress EXCEPT ![d[1]] = q]
  BY DEF Seal
<1>3. writer' = writer \/ (p.actual >= Pieces[d] /\ writer' = [writer EXCEPT !["chunk"] = d])
  BY DEF Seal, AppendDone
<1>4. w \in BOOLEAN
  OBVIOUS
<1> HIDE DEF p, w
<1>5. q \in Tally /\ q.sealed = TRUE /\ q.doc = d /\ q.expected = Pieces[d] /\ q.actual = p.actual
  BY <1>1, <1>4 DEF Tally
<1> HIDE DEF q
<1> QED
  BY <1>2, <1>3, <1>5 DEF p

\* So does counting a chunk that was put.
LEMMA RecordPutFacts ==
  ASSUME CheckpointTypes, NEW s \in Sources, RecordPut(s)
  PROVE  /\ \E q \in Tally : /\ progress' = [progress EXCEPT ![s] = q]
                             /\ q.sealed = progress[s].sealed /\ q.doc = progress[s].doc
                             /\ q.expected = progress[s].expected
                             /\ q.actual = progress[s].actual + 1
         /\ \/ writer' = writer
            \/ /\ progress[s].sealed /\ progress[s].actual + 1 >= progress[s].expected
               /\ writer' = [writer EXCEPT !["put"] = progress[s].doc]
<1> DEFINE p == progress[s]
           w == p.written \/ (p.sealed /\ p.actual + 1 >= p.expected /\ ~p.written)
           n == p.actual + 1
           q == [p EXCEPT !.actual = n, !.written = w]
<1>1. p \in Tally /\ n \in Nat
  BY DEF CheckpointTypes, Tally
<1>2. progress' = [progress EXCEPT ![s] = q]
  BY DEF RecordPut
<1>3. \/ writer' = writer
      \/ /\ p.sealed /\ p.actual + 1 >= p.expected
         /\ writer' = [writer EXCEPT !["put"] = p.doc]
  BY DEF RecordPut, AppendDone
<1>4. w \in BOOLEAN
  OBVIOUS
<1> HIDE DEF p, w, n
<1>5. /\ q \in Tally /\ q.sealed = p.sealed /\ q.doc = p.doc /\ q.expected = p.expected
      /\ q.actual = n
  <2>1. q \in Tally
    BY <1>1, <1>4 DEF Tally
  <2>2. q.doc = p.doc /\ q.expected = p.expected /\ q.actual = n
    BY <1>1 DEF Tally
  <2>3. q.sealed = p.sealed
    BY <1>1, Zenon DEF Tally
  <2> QED
    BY <2>1, <2>2, <2>3
<1> HIDE DEF q
<1> QED
  BY <1>2, <1>3, <1>5 DEF p, n

\* One more of what a step spends is within its bound.
LEMMA FaultTypes == RunTypes /\ Fault => spent' \in [runs : 0..MaxRuns, faults : 0..MaxFaults,
                                                    crashes : 0..MaxCrashes, edits : 0..MaxEdits]
  BY BoundFacts DEF RunTypes, Fault, Spend

\* What a step leaves alone keeps its type.
LEMMA Kept ==
  ASSUME TypeInv
  PROVE  /\ UNCHANGED <<content, lines, sink, recorded, cut>> => DiskTypes'
         /\ UNCHANGED <<done, progress, writer, fileLock, unwritten>> => CheckpointTypes'
         /\ UNCHANGED chans => ChannelTypes'
         /\ UNCHANGED <<mode, toVisit, seen, lost, spent>> => RunTypes'
         /\ UNCHANGED parser => ParserInv'
         /\ UNCHANGED chunker => ChunkerInv'
         /\ UNCHANGED embedder => EmbedderInv'
         /\ UNCHANGED putter => PutterInv'
         /\ UNCHANGED <<progress, fileLock, writer, chunker, putter>> => Sealing'
         /\ mode' # "none" => Idle'
<1>1. UNCHANGED <<content, lines, sink, recorded, cut>> => DiskTypes'
  BY DEF TypeInv, DiskTypes
<1>2. UNCHANGED <<done, progress, writer, fileLock, unwritten>> => CheckpointTypes'
  BY DEF TypeInv, CheckpointTypes
<1>3. UNCHANGED chans => ChannelTypes'
  BY DEF TypeInv, ChannelTypes, chans
<1>4. UNCHANGED <<mode, toVisit, seen, lost, spent>> => RunTypes'
  BY DEF TypeInv, RunTypes
<1>5. /\ UNCHANGED parser => ParserInv'
      /\ UNCHANGED chunker => ChunkerInv'
      /\ UNCHANGED embedder => EmbedderInv'
      /\ UNCHANGED putter => PutterInv'
  BY DEF TypeInv, ParserInv, ChunkerInv, EmbedderInv, BatchInv, PutterInv
<1>6. UNCHANGED <<progress, fileLock, writer, chunker, putter>> => Sealing'
  BY DEF TypeInv, Sealing
<1>7. mode' # "none" => Idle'
  BY DEF Idle
<1> QED
  BY <1>1, <1>2, <1>3, <1>4, <1>5, <1>6, <1>7

\* The walk and the parsers.
LEMMA SourceTypes == TypeInv /\ (Walk \/ \E w \in Parsers : Parse(w)) => TypeInv'
<1> SUFFICES ASSUME TypeInv, Walk \/ \E w \in Parsers : Parse(w) PROVE TypeInv'
  OBVIOUS
<1>0. mode # "none" /\ mode' = mode
  BY Awake DEF Works
<1>a. ChannelTypes /\ RunTypes /\ DiskTypes /\ ParserInv
  BY DEF TypeInv
<1> USE DEF checks, chans, tasks
<1>1. ASSUME StopWalk PROVE TypeInv'
  <2>1. RunTypes'
    BY <1>1, <1>a DEF StopWalk, RunTypes
  <2> QED
    BY <1>0, <1>1, <2>1, Kept DEF StopWalk, TypeInv
<1>2. ASSUME NEW s \in Sources, Visit(s) PROVE TypeInv'
  <2>1. <<s, content[s]>> \in Docs
    BY <1>a DEF DiskTypes, Docs
  <2>2. ChannelTypes'
    <3>1. Len(raw) < RawCap => Fits(Append(raw, <<s, content[s]>>), Docs, RawCap)
      BY <1>a, <2>1, BoundFacts, FitsFacts, ChannelFacts
    <3> QED
      BY <1>2, <1>a, <3>1 DEF Visit, ChannelTypes, Fits
  <2>3. RunTypes'
    BY <1>2, <1>a, <2>1 DEF Visit, RunTypes
  <2> QED
    BY <1>0, <1>2, <2>2, <2>3, Kept DEF Visit, TypeInv
<1>3. ASSUME NEW w \in Parsers, TakeRaw(w) PROVE TypeInv'
  <2>1. raw # <<>> => Head(raw) \in Docs /\ Fits(Tail(raw), Docs, RawCap)
    BY <1>a, BoundFacts, FitsFacts, ChannelFacts
  <2>2. ChannelTypes'
    BY <1>3, <1>a, <2>1 DEF TakeRaw, ChannelTypes, Fits
  <2>3. ParserInv'
    BY <1>3, <1>a, <2>1 DEF TakeRaw, ParserInv
  <2> QED
    BY <1>0, <1>3, <2>2, <2>3, Kept DEF TakeRaw, TypeInv
<1>4. ASSUME NEW w \in Parsers, SendParsed(w) PROVE TypeInv'
  <2>1. parser[w].doc \in Docs
    BY <1>4, <1>a DEF SendParsed, ParserInv
  <2>2. ChannelTypes'
    <3>1. Len(parsed) < ParsedCap => Fits(Append(parsed, parser[w].doc), Docs, ParsedCap)
      BY <1>a, <2>1, BoundFacts, FitsFacts, ChannelFacts
    <3> QED
      BY <1>4, <1>a, <3>1 DEF SendParsed, ChannelTypes, Fits
  <2>3. ParserInv'
    BY <1>4, <1>a DEF SendParsed, ParserInv
  <2> QED
    BY <1>0, <1>4, <2>2, <2>3, Kept DEF SendParsed, TypeInv
<1> QED
  BY <1>1, <1>2, <1>3, <1>4 DEF Walk, Parse

\* The records.
LEMMA RecordTypes == TypeInv /\ (\E x \in Writers : AppendRecord(x)) => TypeInv'
<1> SUFFICES ASSUME TypeInv, NEW x \in Writers, AppendRecord(x) PROVE TypeInv'
  OBVIOUS
<1>0. mode # "none" /\ mode' = mode
  BY Awake DEF Works
<1>a. DiskTypes /\ CheckpointTypes /\ Sealing /\ RunTypes
  BY DEF TypeInv
<1>b. /\ Len(lines) \in Nat /\ Len(lines) \in DOMAIN lines
      /\ lines[Len(lines)] \in Seq(Docs \cup {NoDoc}) /\ x # "none"
  BY <1>a DEF DiskTypes, Writers
<1>c. \A r \in Docs \cup {NoDoc} : /\ Extended(r) \in Seq(Seq(Docs \cup {NoDoc}))
                                   /\ Extended(r) # <<>>
  <2>1. \A r \in Docs \cup {NoDoc} : Append(lines[Len(lines)], r) \in Seq(Docs \cup {NoDoc})
    BY <1>b
  <2> QED
    BY <1>a, <1>b, <2>1 DEF DiskTypes, Extended
<1>d. cut \cup {Len(lines)} \subseteq Nat
  BY <1>a, <1>b DEF DiskTypes
<1>1. ASSUME WriteLine(x) PROVE TypeInv'
  <2>1. writer[x] \in Docs
    BY <1>1, <1>a DEF WriteLine, CheckpointTypes
  <2>2. DiskTypes'
    BY <1>1, <1>a, <1>c, <1>d, <2>1 DEF WriteLine, DiskTypes
  <2>3. CheckpointTypes'
    BY <1>1, <1>a, <2>1 DEF WriteLine, CheckpointTypes
  <2>4. Sealing'
    BY <1>1, <1>a, <2>1 DEF WriteLine, CheckpointTypes, Sealing, tasks, Writers
  <2>5. RunTypes'
    BY <1>1, <1>a, FaultTypes DEF WriteLine, RunTypes
  <2> QED
    BY <1>0, <1>1, <2>2, <2>3, <2>4, <2>5, Kept DEF WriteLine, TypeInv, tasks
<1>2. ASSUME WriteNewline(x) PROVE TypeInv'
  <2>1. writer[x] \in Docs
    BY <1>2, <1>a, <1>b DEF WriteNewline, CheckpointTypes, Sealing
  <2>2. DiskTypes'
    <3>1. Append(lines, <<>>) \in Seq(Seq(Docs \cup {NoDoc})) /\ Append(lines, <<>>) # <<>>
      BY <1>a, <1>b DEF DiskTypes
    <3> QED
      BY <1>2, <1>a, <1>d, <2>1, <3>1 DEF WriteNewline, DiskTypes
  <2>3. CheckpointTypes'
    BY <1>2, <1>a, <2>1 DEF WriteNewline, CheckpointTypes
  <2>4. Sealing'
    BY <1>2, <1>a DEF WriteNewline, CheckpointTypes, Sealing, tasks, Writers
  <2>5. RunTypes'
    BY <1>2, <1>a, FaultTypes DEF WriteNewline, RunTypes
  <2> QED
    BY <1>0, <1>2, <2>2, <2>3, <2>4, <2>5, Kept DEF WriteNewline, TypeInv, tasks
<1> QED
  BY <1>1, <1>2 DEF AppendRecord

\* The chunk task.
LEMMA ChunkTypes == TypeInv /\ Chunk => TypeInv'
<1> SUFFICES ASSUME TypeInv, Chunk PROVE TypeInv'
  OBVIOUS
<1>0. mode # "none" /\ mode' = mode
  BY Awake DEF Works
<1>a. DiskTypes /\ CheckpointTypes /\ ChannelTypes /\ Sealing /\ ChunkerInv /\ RunTypes
  BY DEF TypeInv
<1>b. writer["chunk"] \in Docs \cup {NoDoc}
  BY <1>a DEF CheckpointTypes, Writers
<1>c. parsed # <<>> => Head(parsed) \in Docs /\ Fits(Tail(parsed), Docs, ParsedCap)
  BY <1>a, BoundFacts, FitsFacts, ChannelFacts
<1>d. Fits(<<>>, Docs, ParsedCap)
  BY <1>a, BoundFacts, FitsFacts, ChannelFacts
<1> USE DEF checks, chans, tasks
<1>1. ASSUME ReceiveParsed PROVE TypeInv'
  <2>1. ChannelTypes'
    BY <1>1, <1>a, <1>c DEF ReceiveParsed, ChannelTypes, Fits
  <2>2. ChunkerInv'
    <3>1. CASE parsed # <<>>
      <4>1. Head(parsed) \in Docs /\ Pieces[Head(parsed)] \in Nat
        BY <1>c, <3>1, ChunkFacts
      <4>2. chunker' = [pc |-> "emit", doc |-> Head(parsed), next |-> 1, count |-> chunker.count]
        BY <1>1, <1>a, <3>1 DEF ReceiveParsed, ChunkerInv
      <4> QED
        BY <1>a, <4>1, <4>2 DEF ChunkerInv
    <3>2. CASE parsed = <<>>
      BY <1>1, <1>a, <3>2 DEF ReceiveParsed, ChunkerInv
    <3> QED
      BY <3>1, <3>2
  <2>3. Sealing'
    BY <1>1, <1>a DEF ReceiveParsed, Sealing
  <2> QED
    BY <1>0, <1>1, <2>1, <2>2, <2>3, Kept DEF ReceiveParsed, TypeInv
<1>2. ASSUME EmitChunk PROVE TypeInv'
  <2>1. <<chunker.doc, chunker.next>> \in AllChunks
    BY <1>2, <1>a, ChunkFacts DEF EmitChunk, ChunkerInv
  <2>2. ChannelTypes'
    <3>1. Len(chunked) < ChunkCap => Fits(Append(chunked, <<chunker.doc, chunker.next>>), AllChunks, ChunkCap)
      BY <1>a, <2>1, BoundFacts, FitsFacts, ChannelFacts
    <3> QED
      BY <1>2, <1>a, <3>1 DEF EmitChunk, ChannelTypes, Fits
  <2>3. ChunkerInv'
    <3>1. chunker' = [pc |-> "emit", doc |-> chunker.doc, next |-> chunker.next + 1, count |-> chunker.count + 1]
      BY <1>2, <1>a DEF EmitChunk, ChunkerInv
    <3>2. chunker.doc \in Docs /\ Pieces[chunker.doc] \in Nat /\ chunker.next \in 1 .. Pieces[chunker.doc]
      BY <1>2, <1>a, ChunkFacts DEF EmitChunk, ChunkerInv
    <3> QED
      BY <1>a, <3>1, <3>2 DEF ChunkerInv
  <2>4. Sealing'
    BY <1>2, <1>a DEF EmitChunk, Sealing
  <2> QED
    BY <1>0, <1>2, <2>2, <2>3, <2>4, Kept DEF EmitChunk, TypeInv
<1>3. ASSUME StopAtCap PROVE TypeInv'
  <2>1. ChannelTypes'
    BY <1>3, <1>a, <1>d DEF StopAtCap, ChannelTypes, Fits
  <2>2. ChunkerInv'
    BY <1>3, <1>a DEF StopAtCap, ChunkerInv
  <2>3. Sealing'
    BY <1>3, <1>a DEF StopAtCap, Sealing
  <2> QED
    BY <1>0, <1>3, <2>1, <2>2, <2>3, Kept DEF StopAtCap, TypeInv
<1>4. ASSUME Panic PROVE TypeInv'
  <2>1. ChannelTypes'
    BY <1>4, <1>a, <1>d DEF Panic, ChannelTypes, Fits
  <2>2. ChunkerInv'
    BY <1>4, <1>a, <1>c DEF Panic, ChunkerInv
  <2>3. Sealing'
    BY <1>4, <1>a DEF Panic, Sealing
  <2> QED
    BY <1>0, <1>4, <2>1, <2>2, <2>3, Kept DEF Panic, TypeInv
<1>5. ASSUME SealDoc PROVE TypeInv'
  <2> DEFINE d == chunker.doc
  <2>1. d \in Docs /\ d[1] \in Sources /\ d # NoDoc /\ Seal(d)
    BY <1>5, <1>a, ChunkFacts DEF SealDoc, ChunkerInv
  <2> HIDE DEF d
  <2>2. /\ \E q \in Tally : /\ progress' = [progress EXCEPT ![d[1]] = q]
                            /\ q.sealed /\ q.doc = d /\ q.expected = Pieces[d]
        /\ writer' = writer \/ writer' = [writer EXCEPT !["chunk"] = d]
    BY <1>a, <2>1, SealFacts
  <2>3. CheckpointTypes'
    BY <1>5, <1>a, <2>1, <2>2 DEF SealDoc, CheckpointTypes, Tally
  <2>4. ChunkerInv'
    BY <1>5, <1>a DEF SealDoc, ChunkerInv
  <2>5. Sealing'
    <3>1. \A s \in Sources : progress'[s].sealed =>
            progress'[s].doc \in Docs /\ progress'[s].doc[1] = s /\ progress'[s].expected = Pieces[progress'[s].doc]
      BY <1>a, <2>1, <2>2 DEF Sealing, CheckpointTypes
    <3>2. /\ fileLock # "none" => writer'[fileLock] # NoDoc
          /\ writer'["put"] = writer["put"]
      BY <1>a, <2>1, <2>2 DEF Sealing, CheckpointTypes, Writers
    <3> QED
      BY <1>5, <1>a, <3>1, <3>2 DEF SealDoc, Sealing, ChunkerInv
  <2> QED
    BY <1>0, <1>5, <2>3, <2>4, <2>5, Kept DEF SealDoc, TypeInv
<1> QED
  BY <1>1, <1>2, <1>3, <1>4, <1>5 DEF Chunk

\* The embed workers: w goes to place p with the chunks q.
Moves(w, p, q) ==
  /\ embedder' = [embedder EXCEPT ![w] = [pc |-> p, batch |-> q]]
  /\ p \in {"recv", "fill", "call", "send", "gone"}
  /\ Fits(q, AllChunks, EmbedBatch)
  /\ BatchInv(p, q)

\* An embedder that moves stays typed.
LEMMA MovesFacts ==
  ASSUME EmbedderInv, NEW w \in Embedders, NEW p, NEW q, Moves(w, p, q)
  PROVE  EmbedderInv'
<1> USE DEF Moves
<1>1. [pc |-> p, batch |-> q].batch = q /\ [pc |-> p, batch |-> q].pc = p
  OBVIOUS
<1>2. embedder' \in [Embedders -> [pc : {"recv", "fill", "call", "send", "gone"}, batch : Seq(AllChunks)]]
  BY DEF EmbedderInv, Fits
<1>3. ASSUME NEW v \in Embedders
      PROVE  Len(embedder'[v].batch) <= EmbedBatch /\ BatchInv(embedder'[v].pc, embedder'[v].batch)
  <2>1. CASE v = w
    <3>1. embedder'[v] = [pc |-> p, batch |-> q]
      BY <2>1 DEF EmbedderInv
    <3> QED
      BY <1>1, <3>1 DEF Fits
  <2>2. CASE v # w
    BY <2>2 DEF EmbedderInv
  <2> QED
    BY <2>1, <2>2
<1> QED
  BY <1>2, <1>3 DEF EmbedderInv, BatchInv

\* The embed pool keeps the types.
LEMMA EmbedTypes == TypeInv /\ (\E w \in Embedders : Embed(w)) => TypeInv'
<1> SUFFICES ASSUME TypeInv, NEW w \in Embedders, Embed(w) PROVE TypeInv'
  OBVIOUS
<1>0. mode # "none" /\ mode' = mode
  BY Awake DEF Works
<1>a. ChannelTypes /\ EmbedderInv /\ RunTypes
  BY DEF TypeInv
<1> DEFINE e == embedder[w]
           b == e.batch
<1>b. BatchInv(e.pc, b) /\ Fits(b, AllChunks, EmbedBatch) /\ EmbedBatch \in Nat /\ EmbedBatch > 0
  BY <1>a, BoundFacts DEF EmbedderInv, Fits
<1>c. /\ Fits(<<>>, AllChunks, EmbedBatch) /\ Len(<<>>) = 0 /\ Range(b) \subseteq AllChunks
      /\ b # <<>> => Head(b) \in AllChunks /\ Fits(Tail(b), AllChunks, EmbedBatch) /\ Len(Tail(b)) = Len(b) - 1
      /\ Len(b) \in Nat /\ (Len(b) = 0 <=> b = <<>>)
  BY <1>b, FitsFacts
<1>d. ASSUME NEW p PROVE [embedder EXCEPT ![w].pc = p] = [embedder EXCEPT ![w] = [pc |-> p, batch |-> b]]
  <2>1. [e EXCEPT !.pc = p] = [pc |-> p, batch |-> b]
    BY <1>a DEF EmbedderInv
  <2> QED
    BY <2>1
<1> HIDE DEF b, e
<1> USE DEF checks, chans, tasks
<1>1. ASSUME TakeLock(w) PROVE TypeInv'
  <2>1. b = <<>>
    BY <1>1, <1>b DEF TakeLock, BatchInv, e
  <2>2. Moves(w, "fill", <<>>)
    <3>1. embedder' = [embedder EXCEPT ![w] = [pc |-> "fill", batch |-> <<>>]]
      BY <1>1, <1>d, <2>1 DEF TakeLock
    <3> QED
      BY <1>b, <1>c, <3>1 DEF Moves, BatchInv
  <2> QED
    BY <1>0, <1>1, <1>a, <2>2, MovesFacts, Kept DEF TakeLock, TypeInv
<1>2. ASSUME FillBatch(w) PROVE TypeInv'
  <2> DEFINE more == Append(b, Head(chunked))
  <2>1. Head(chunked) \in AllChunks /\ Fits(Tail(chunked), AllChunks, ChunkCap)
    BY <1>2, <1>a, BoundFacts, FitsFacts, ChannelFacts DEF FillBatch
  <2>2. Len(b) < EmbedBatch
    BY <1>2, <1>b DEF FillBatch, Filling, BatchInv, e
  <2>3. Fits(more, AllChunks, EmbedBatch) /\ Len(more) = Len(b) + 1
    BY <1>b, <2>1, <2>2, FitsFacts
  <2>4. embedder' = [embedder EXCEPT ![w] =
          [pc |-> IF Len(more) = EmbedBatch THEN "call" ELSE "fill", batch |-> more]]
    BY <1>2 DEF FillBatch, b, e
  <2>5. ChannelTypes'
    BY <1>2, <1>a, <2>1 DEF FillBatch, ChannelTypes, Fits
  <2> HIDE DEF more
  <2>6. \E p : Moves(w, p, more)
    <3>1. more # <<>> /\ Len(more) \in Nat /\ Len(more) <= EmbedBatch
      BY <1>c, <2>3 DEF Fits
    <3>2. BatchInv(IF Len(more) = EmbedBatch THEN "call" ELSE "fill", more)
      BY <1>b, <3>1 DEF BatchInv
    <3> QED
      BY <2>3, <2>4, <3>2 DEF Moves
  <2> QED
    BY <1>0, <1>2, <1>a, <2>5, <2>6, MovesFacts, Kept DEF FillBatch, TypeInv
<1>3. ASSUME CloseBatch(w) PROVE TypeInv'
  <2>1. \E p : Moves(w, p, b)
    <3>1. embedder' = [embedder EXCEPT ![w] = [pc |-> IF b = <<>> THEN "gone" ELSE "call", batch |-> b]]
      BY <1>3, <1>d DEF CloseBatch, b, e
    <3>2. BatchInv(IF b = <<>> THEN "gone" ELSE "call", b)
      BY DEF BatchInv
    <3> QED
      BY <1>b, <3>1, <3>2 DEF Moves
  <2> QED
    BY <1>0, <1>3, <1>a, <2>1, MovesFacts, Kept DEF CloseBatch, TypeInv
<1>4. ASSUME CallProvider(w) PROVE TypeInv'
  <2>1. b # <<>>
    BY <1>4, <1>b DEF CallProvider, BatchInv, e
  <2>2. EmbedderInv'
    <3>1. \/ embedder' = [embedder EXCEPT ![w] = [pc |-> "send", batch |-> b]]
          \/ embedder' = [embedder EXCEPT ![w] = [pc |-> "recv", batch |-> <<>>]]
      BY <1>4, <1>d DEF CallProvider
    <3>2. Moves(w, "send", b) \/ Moves(w, "recv", <<>>)
      BY <1>b, <1>c, <2>1, <3>1 DEF Moves, BatchInv
    <3> QED
      BY <1>a, <3>2, MovesFacts
  <2>3. RunTypes'
    <3>1. lost' \subseteq AllChunks
      BY <1>4, <1>a, <1>c DEF CallProvider, RunTypes, b, e
    <3>2. spent' = spent \/ Fault
      BY <1>4 DEF CallProvider
    <3> QED
      BY <1>4, <1>a, <3>1, <3>2, FaultTypes DEF CallProvider, RunTypes
  <2> QED
    BY <1>0, <1>4, <2>2, <2>3, Kept DEF CallProvider, TypeInv
<1>5. ASSUME SendEmbedded(w) PROVE TypeInv'
  <2>1. b # <<>>
    BY <1>5, <1>b DEF SendEmbedded, BatchInv, e
  <2>2. ChannelTypes'
    <3>1. Len(embedded) < EmbeddedCap => Fits(Append(embedded, Head(b)), AllChunks, EmbeddedCap)
      BY <1>a, <1>c, <2>1, BoundFacts, FitsFacts, ChannelFacts
    <3> QED
      BY <1>5, <1>a, <3>1 DEF SendEmbedded, ChannelTypes, Fits, b, e
  <2>3. \E p : Moves(w, p, Tail(b))
    <3>1. Len(b) = 1 <=> Tail(b) = <<>>
      <4>1. Fits(Tail(b), AllChunks, EmbedBatch) /\ Len(Tail(b)) = Len(b) - 1 /\ Len(b) \in Nat
        BY <1>c, <2>1
      <4>2. Len(Tail(b)) = 0 <=> Tail(b) = <<>>
        <5> DEFINE t == Tail(b)
        <5>1. t \in Seq(AllChunks)
          BY <4>1 DEF Fits
        <5> HIDE DEF t
        <5>2. Len(t) = 0 <=> t = <<>>
          BY <5>1
        <5> QED
          BY <5>2 DEF t
      <4> QED
        BY <4>1, <4>2
    <3>2. embedder' = [embedder EXCEPT ![w] =
            [pc |-> IF Len(b) = 1 THEN "recv" ELSE "send", batch |-> Tail(b)]]
      BY <1>5 DEF SendEmbedded, b, e
    <3>3. BatchInv(IF Len(b) = 1 THEN "recv" ELSE "send", Tail(b))
      BY <3>1 DEF BatchInv
    <3> QED
      BY <1>c, <2>1, <3>2, <3>3 DEF Moves
  <2> QED
    BY <1>0, <1>5, <1>a, <2>2, <2>3, MovesFacts, Kept DEF SendEmbedded, TypeInv
<1> QED
  BY <1>1, <1>2, <1>3, <1>4, <1>5 DEF Embed

\* The put task: it goes to place p with the chunks q.
PutterAt(p, q) ==
  /\ putter' = [pc |-> p, buf |-> q]
  /\ p \in {"recv", "put", "record", "gone"}
  /\ Fits(q, AllChunks, PutBatch)
  /\ p = "recv" => Len(q) < PutBatch
  /\ writer'["put"] # NoDoc => p = "record"

\* A put task that moves and records nothing stays typed.
LEMMA PutterFacts ==
  ASSUME Sealing, NEW p, NEW q, PutterAt(p, q), UNCHANGED <<progress, fileLock, writer, chunker>>
  PROVE  PutterInv' /\ Sealing'
<1>1. putter'.pc = p /\ putter'.buf = q /\ putter' \in [pc : {"recv", "put", "record", "gone"}, buf : Seq(AllChunks)]
  BY DEF PutterAt, Fits
<1>2. PutterInv'
  BY <1>1 DEF PutterAt, PutterInv, Fits
<1>3. Sealing'
  BY <1>1 DEF PutterAt, Sealing
<1> QED
  BY <1>2, <1>3

\* The put task keeps the types.
LEMMA PutTypes == TypeInv /\ Put => TypeInv'
<1> SUFFICES ASSUME TypeInv, Put PROVE TypeInv'
  OBVIOUS
<1>0. mode # "none" /\ mode' = mode
  BY Awake DEF Works
<1>a. DiskTypes /\ CheckpointTypes /\ ChannelTypes /\ PutterInv /\ RunTypes /\ Sealing
  BY DEF TypeInv
<1> DEFINE b == putter.buf
<1>b. Fits(b, AllChunks, PutBatch) /\ PutBatch \in Nat /\ PutBatch > 0
  BY <1>a, BoundFacts DEF PutterInv, Fits
<1>c. /\ Fits(<<>>, AllChunks, PutBatch) /\ Len(<<>>) = 0 /\ Range(b) \subseteq AllChunks
      /\ b # <<>> => Head(b) \in AllChunks /\ Fits(Tail(b), AllChunks, PutBatch) /\ Len(Tail(b)) = Len(b) - 1
      /\ Len(b) \in Nat /\ (Len(b) = 0 <=> b = <<>>)
  <2> HIDE DEF b
  <2> QED
    BY <1>b, FitsFacts
<1>d. ASSUME NEW p PROVE [putter EXCEPT !.pc = p] = [pc |-> p, buf |-> b]
  BY <1>a DEF PutterInv
<1>e. putter.pc # "record" => writer["put"] = NoDoc
  BY <1>a DEF Sealing
<1> USE DEF checks, chans, tasks
<1>1. ASSUME ReceiveEmbedded PROVE TypeInv'
  <2> DEFINE more == Append(b, Head(embedded))
  <2>1. Head(embedded) \in AllChunks /\ Fits(Tail(embedded), AllChunks, EmbeddedCap)
    BY <1>1, <1>a, BoundFacts, FitsFacts, ChannelFacts DEF ReceiveEmbedded
  <2>2. Len(b) < PutBatch /\ writer' = writer
    BY <1>1, <1>a DEF ReceiveEmbedded, PutterInv
  <2>3. ChannelTypes'
    BY <1>1, <1>a, <2>1 DEF ReceiveEmbedded, ChannelTypes, Fits
  <2>4. putter' = [pc |-> IF Len(more) >= PutBatch THEN "put" ELSE "recv", buf |-> more]
    BY <1>1 DEF ReceiveEmbedded
  <2>5. writer["put"] = NoDoc
    BY <1>1, <1>e DEF ReceiveEmbedded
  <2> HIDE DEF b
  <2>6. Fits(more, AllChunks, PutBatch)
    BY <1>b, <2>1, <2>2, FitsFacts
  <2> HIDE DEF more
  <2>7. PutterInv' /\ Sealing'
    <3> DEFINE p == IF Len(more) >= PutBatch THEN "put" ELSE "recv"
    <3>1. p \in {"put", "recv"} /\ (p = "recv" => Len(more) < PutBatch)
      BY <1>b, <2>6 DEF Fits
    <3>2. PutterAt(p, more)
      BY <2>2, <2>4, <2>5, <2>6, <3>1 DEF PutterAt
    <3> QED
      BY <1>1, <1>a, <3>2, PutterFacts DEF ReceiveEmbedded
  <2> QED
    BY <1>0, <1>1, <2>3, <2>7, Kept DEF ReceiveEmbedded, TypeInv
<1>2. ASSUME FlushTimer PROVE TypeInv'
  <2>1. PutterAt("put", b)
    BY <1>2, <1>b, <1>d, <1>e DEF FlushTimer, PutterAt
  <2> QED
    BY <1>0, <1>2, <1>a, <2>1, PutterFacts, Kept DEF FlushTimer, TypeInv
<1>3. ASSUME ClosePut PROVE TypeInv'
  <2>1. putter' = [pc |-> IF b = <<>> THEN "gone" ELSE "put", buf |-> b]
    BY <1>3, <1>d DEF ClosePut
  <2>2. writer' = writer /\ writer["put"] = NoDoc
    BY <1>3, <1>e DEF ClosePut
  <2> HIDE DEF b
  <2>3. PutterAt(IF b = <<>> THEN "gone" ELSE "put", b)
    BY <1>b, <2>1, <2>2 DEF PutterAt
  <2> QED
    BY <1>0, <1>3, <1>a, <2>3, PutterFacts, Kept DEF ClosePut, TypeInv
<1>4. ASSUME CallPut PROVE TypeInv'
  <2>1. DiskTypes'
    <3>1. \A n \in 0 .. Len(b) : Range(SubSeq(b, 1, n)) \subseteq AllChunks
      BY <1>b DEF Range, Fits
    <3>2. Len(b) \in 0 .. Len(b)
      BY <1>c
    <3>3. sink' = sink \/ \E n \in 0 .. Len(b) : sink' = sink \cup Range(SubSeq(b, 1, n))
      BY <1>4, <3>2 DEF CallPut
    <3> HIDE DEF b
    <3>4. sink' \subseteq AllChunks
      BY <1>a, <3>1, <3>3 DEF DiskTypes
    <3> QED
      BY <1>4, <1>a, <3>4 DEF CallPut, DiskTypes
  <2>2. RunTypes'
    <3>1. lost' \subseteq AllChunks
      BY <1>4, <1>a, <1>c DEF CallPut, RunTypes
    <3>2. spent' = spent \/ Fault
      BY <1>4 DEF CallPut
    <3> QED
      BY <1>4, <1>a, <3>1, <3>2, FaultTypes DEF CallPut, RunTypes
  <2>3. PutterAt("record", b) \/ PutterAt("recv", <<>>)
    <3>1. putter' = [pc |-> "record", buf |-> b] \/ putter' = [pc |-> "recv", buf |-> <<>>]
      BY <1>4, <1>d DEF CallPut
    <3>2. writer' = writer /\ writer["put"] = NoDoc
      BY <1>4, <1>e DEF CallPut
    <3> HIDE DEF b
    <3> QED
      BY <1>b, <1>c, <3>1, <3>2 DEF PutterAt
  <2>4. UNCHANGED <<progress, fileLock, writer, chunker>>
    BY <1>4 DEF CallPut
  <2>5. PutterInv' /\ Sealing'
    BY <1>a, <2>3, <2>4, PutterFacts
  <2> QED
    BY <1>0, <1>4, <2>1, <2>2, <2>5, Kept DEF CallPut, TypeInv
<1>5. ASSUME CountPut PROVE TypeInv'
  <2>1. CASE b = <<>>
    <3>1. PutterAt("recv", <<>>) /\ UNCHANGED <<progress, fileLock, writer, chunker>>
      BY <1>5, <1>b, <1>c, <1>d, <2>1 DEF CountPut, PutterAt
    <3>2. PutterInv' /\ Sealing'
      BY <1>a, <3>1, PutterFacts
    <3> QED
      BY <1>0, <1>5, <3>1, <3>2, Kept DEF CountPut, TypeInv
  <2>2. CASE b # <<>>
    <3> DEFINE s == Head(b)[1][1]
    <3>1. s \in Sources /\ RecordPut(s)
      BY <1>5, <1>c, <2>2, ChunkFacts DEF CountPut
    <3>2. putter' = [pc |-> "record", buf |-> Tail(b)]
      BY <1>5, <1>a, <2>2 DEF CountPut, PutterInv
    <3> HIDE DEF s
    <3>3. /\ \E q \in Tally : /\ progress' = [progress EXCEPT ![s] = q]
                              /\ q.sealed = progress[s].sealed /\ q.doc = progress[s].doc
                              /\ q.expected = progress[s].expected
          /\ \/ writer' = writer
             \/ /\ progress[s].sealed
                /\ writer' = [writer EXCEPT !["put"] = progress[s].doc]
      BY <1>a, <3>1, RecordPutFacts
    <3>4. progress[s].sealed => progress[s].doc \in Docs /\ progress[s].doc # NoDoc
      BY <1>a, <3>1, ChunkFacts DEF Sealing
    <3>5. CheckpointTypes'
      BY <1>5, <1>a, <3>1, <3>3, <3>4 DEF CountPut, CheckpointTypes, Tally
    <3>6. PutterInv'
      BY <1>c, <2>2, <3>2 DEF PutterInv, Fits
    <3>7. Sealing'
      <4>1. \A t \in Sources : /\ progress'[t].sealed = progress[t].sealed /\ progress'[t].doc = progress[t].doc
                               /\ progress'[t].expected = progress[t].expected
        BY <1>a, <3>1, <3>3 DEF CheckpointTypes
      <4>2. /\ fileLock # "none" => writer'[fileLock] # NoDoc
            /\ writer'["chunk"] = writer["chunk"]
        BY <1>a, <3>3, <3>4 DEF Sealing, CheckpointTypes, Writers
      <4>3. putter'.pc = "record" /\ UNCHANGED <<fileLock, chunker>>
        BY <1>5, <3>2 DEF CountPut
      <4> QED
        BY <1>a, <4>1, <4>2, <4>3 DEF Sealing
    <3> QED
      BY <1>0, <1>5, <3>5, <3>6, <3>7, Kept DEF CountPut, TypeInv
  <2> QED
    BY <2>1, <2>2
<1> QED
  BY <1>1, <1>2, <1>3, <1>4, <1>5 DEF Put

\* A run starts, ends or is killed, or a file is edited.
LEMMA RunTypesStep ==
  TypeInv /\ (Start \/ Finish \/ Kill \/ \E s \in Sources : Edit(s)) => TypeInv'
<1> SUFFICES ASSUME TypeInv, Start \/ Finish \/ Kill \/ \E s \in Sources : Edit(s) PROVE TypeInv'
  OBVIOUS
<1>a. DiskTypes /\ CheckpointTypes /\ RunTypes /\ Idle
  BY DEF TypeInv
<1>b. ASSUME NEW x \in {"runs", "crashes", "edits"}, Spend(x),
             spent[x] < (CASE x = "runs" -> MaxRuns [] x = "crashes" -> MaxCrashes [] x = "edits" -> MaxEdits)
      PROVE  spent' \in [runs : 0..MaxRuns, faults : 0..MaxFaults, crashes : 0..MaxCrashes, edits : 0..MaxEdits]
  BY <1>a, <1>b, BoundFacts DEF RunTypes, Spend
<1> USE DEF checks, chans, tasks, disk
<1>1. ASSUME Start PROVE TypeInv'
  <2>1. done' \subseteq Docs /\ mode' \in {"put", "dry"}
    BY <1>1, <1>a, LoadedFacts DEF Start
  <2>2. CheckpointTypes'
    BY <1>1, <1>a, <2>1 DEF Start, CheckpointTypes
  <2>3. RunTypes'
    <3>1. Spend("runs") /\ spent["runs"] < MaxRuns
      BY <1>1 DEF Start
    <3>2. spent' \in [runs : 0..MaxRuns, faults : 0..MaxFaults, crashes : 0..MaxCrashes, edits : 0..MaxEdits]
      BY <1>b, <3>1
    <3> QED
      BY <1>1, <1>a, <2>1, <3>2 DEF Start, RunTypes
  <2> QED
    BY <1>1, <2>1, <2>2, <2>3, Kept DEF Start, TypeInv
<1>2. ASSUME Forget, spent' \in [runs : 0..MaxRuns, faults : 0..MaxFaults, crashes : 0..MaxCrashes, edits : 0..MaxEdits],
             cut' \subseteq Nat
      PROVE  TypeInv'
  <2>1. Empty' /\ DiskTypes'
    BY <1>2, <1>a DEF Forget, Empty, DiskTypes
  <2>2. /\ CheckpointTypes' /\ ChannelTypes'
        /\ ParserInv' /\ ChunkerInv' /\ EmbedderInv' /\ PutterInv' /\ Sealing' /\ Idle'
    BY <2>1, EmptyFacts, PTL
  <2>3. RunTypes'
    BY <1>2 DEF Forget, RunTypes
  <2> QED
    BY <2>1, <2>2, <2>3 DEF TypeInv
<1>3. ASSUME NEW s \in Sources, Edit(s) PROVE TypeInv'
  <2>1. content' \in [Sources -> Versions]
    BY <1>3, <1>a DEF Edit, DiskTypes
  <2>2. DiskTypes'
    BY <1>3, <1>a, <2>1 DEF Edit, DiskTypes
  <2>3. RunTypes'
    <3>1. Spend("edits") /\ spent["edits"] < MaxEdits
      BY <1>3 DEF Edit
    <3>2. spent' \in [runs : 0..MaxRuns, faults : 0..MaxFaults, crashes : 0..MaxCrashes, edits : 0..MaxEdits]
      BY <1>b, <3>1
    <3> QED
      BY <1>3, <1>a, <3>2 DEF Edit, RunTypes
  <2>4. Idle'
    BY <1>3, <1>a DEF Edit, Idle
  <2> QED
    BY <1>3, <2>2, <2>3, <2>4, Kept DEF Edit, TypeInv
<1>4. Finish => TypeInv'
  BY <1>2, <1>a DEF Finish, RunTypes, DiskTypes
<1>5. Kill => TypeInv'
  <2> SUFFICES ASSUME Kill PROVE TypeInv'
    OBVIOUS
  <2>1. Spend("crashes") /\ spent["crashes"] < MaxCrashes /\ Forget
    BY DEF Kill
  <2>2. spent' \in [runs : 0..MaxRuns, faults : 0..MaxFaults, crashes : 0..MaxCrashes, edits : 0..MaxEdits]
    BY <1>b, <2>1
  <2>3. cut' \subseteq Nat
    <3>1. Len(lines) \in Nat
      BY <1>a, LinesLen
    <3> QED
      BY <1>a, <3>1 DEF Kill, DiskTypes
  <2> QED
    BY <1>2, <2>1, <2>2, <2>3
<1> QED
  BY <1>1, <1>3, <1>4, <1>5

\* Every step keeps the types.
LEMMA TypeStep == TypeInv /\ [Next]_vars => TypeInv'
<1> SUFFICES ASSUME TypeInv, [Next]_vars PROVE TypeInv'
  OBVIOUS
<1>1. CASE UNCHANGED vars
  <2>1. /\ UNCHANGED <<content, lines, sink, recorded, cut>> /\ UNCHANGED <<done, progress, writer, fileLock, unwritten>>
        /\ UNCHANGED chans /\ UNCHANGED <<mode, toVisit, seen, lost, spent>>
        /\ UNCHANGED parser /\ UNCHANGED chunker /\ UNCHANGED embedder /\ UNCHANGED putter
    BY <1>1 DEF vars, checks, tasks
  <2>2. Idle'
    BY <2>1 DEF TypeInv, Idle, chans
  <2> QED
    BY <2>1, <2>2, Kept DEF TypeInv
<1>2. CASE Next
  BY <1>1, <1>2, SourceTypes, RecordTypes, ChunkTypes, EmbedTypes, PutTypes, RunTypesStep DEF Next, Rest
<1> QED
  BY <1>1, <1>2

\* Every variable holds a value of its kind, and no channel or batch ever holds
\* more than its bound.
THEOREM TypeCorrect == Spec => []TypeOK
<1>1. TypeInv => TypeOK
  BY TypeInvType
<1> QED
  BY <1>1, TypeInit, TypeStep, PTL DEF Spec

-----------------------------------------------------------------------------
(* The checkpoint file.                                                    *)

\* Line n is whole: it holds one record.
Alone(n) == Len(lines[n]) = 1
EndsIn(n, d) == lines[n] # <<>> /\ lines[n][Len(lines[n])] = d

\* A line that was ended ends in its record, and holds nothing else unless it
\* was cut.  The last line ends in the record of the task that has the file's
\* lock, and holds nothing else unless it was cut.
LinesInv ==
  /\ cut \subseteq 1 .. Len(lines)
  /\ fileLock # "none" => EndsIn(Len(lines), writer[fileLock])
  /\ Len(lines) \notin cut => Len(lines[Len(lines)]) = IF fileLock = "none" THEN 0 ELSE 1
  /\ \A d \in recorded : \E n \in 1 .. Len(lines) - 1 :
        EndsIn(n, d) /\ (Alone(n) \/ n \in cut)

\* Which steps write to the file, or give a task a record to write.
LEMMA QuietSteps ==
  Next => \/ UNCHANGED <<lines, fileLock, writer, recorded, cut>>
          \/ SealDoc \/ CountPut \/ Finish \/ Kill
          \/ \E x \in Writers : WriteLine(x) \/ WriteNewline(x)
<1> SUFFICES ASSUME Next
             PROVE  \/ UNCHANGED <<lines, fileLock, writer, recorded, cut>>
                    \/ SealDoc \/ CountPut \/ Finish \/ Kill
                    \/ \E x \in Writers : WriteLine(x) \/ WriteNewline(x)
  OBVIOUS
<1> USE DEF checks
<1>1. Start \/ (\E s \in Sources : Edit(s)) \/ Rest => UNCHANGED <<lines, fileLock, writer, recorded, cut>>
  BY DEF Start, Edit, Rest, vars, disk
<1>2. Walk \/ (\E w \in Parsers : Parse(w)) => UNCHANGED <<lines, fileLock, writer, recorded, cut>>
  BY DEF Walk, Visit, StopWalk, Parse, TakeRaw, SendParsed
<1>3. Chunk => SealDoc \/ UNCHANGED <<lines, fileLock, writer, recorded, cut>>
  BY DEF Chunk, ReceiveParsed, EmitChunk, StopAtCap, Panic
<1>4. (\E w \in Embedders : Embed(w)) => UNCHANGED <<lines, fileLock, writer, recorded, cut>>
  BY DEF Embed, TakeLock, FillBatch, CloseBatch, CallProvider, SendEmbedded
<1>5. Put => CountPut \/ UNCHANGED <<lines, fileLock, writer, recorded, cut>>
  BY DEF Put, ReceiveEmbedded, FlushTimer, ClosePut, CallPut
<1> QED
  BY <1>1, <1>2, <1>3, <1>4, <1>5 DEF Next, AppendRecord

\* What a sequence is when something was put at its end.
LEMMA PutAtEnd ==
  ASSUME NEW S, NEW q \in Seq(S), NEW r \in S
  PROVE  LET l == Append(q, r) IN
         /\ l # <<>> /\ Len(l) = Len(q) + 1 /\ l[Len(l)] = r
         /\ Len(l) = 1 => Head(l) = r
         /\ \A i \in 1 .. Len(q) : l[i] = q[i]
  OBVIOUS

\* What is written goes behind all there is on the last line, and to no other.
LEMMA ExtendFacts ==
  ASSUME DiskTypes, NEW r \in Docs \cup {NoDoc}
  PROVE  /\ Len(Extended(r)) = Len(lines)
         /\ DOMAIN Extended(r) = 1 .. Len(lines)
         /\ \A i \in 1 .. Len(lines) - 1 : Extended(r)[i] = lines[i]
         /\ LET l == Extended(r)[Len(lines)] IN
            l = Append(lines[Len(lines)], r) /\ l # <<>> /\ l[Len(l)] = r
            /\ Len(l) = Len(lines[Len(lines)]) + 1
<1> DEFINE n == Len(lines)
           q == lines[n]
<1>1. n \in Nat /\ n \in DOMAIN lines /\ DOMAIN lines = 1 .. n /\ lines \in Seq(Seq(Docs \cup {NoDoc}))
  BY DEF DiskTypes
<1>2. q \in Seq(Docs \cup {NoDoc})
  BY <1>1
<1>3. /\ Append(q, r) # <<>> /\ Len(Append(q, r)) = Len(q) + 1
      /\ Append(q, r)[Len(Append(q, r))] = r
  BY <1>2, PutAtEnd
<1> DEFINE e == Append(q, r)
<1>4. Extended(r) = [lines EXCEPT ![n] = e]
  BY DEF Extended
<1>5. n \in 1 .. n /\ \A i \in 1 .. n - 1 : i # n /\ i \in 1 .. n
  BY LinesLen
<1> HIDE DEF e, n, q
<1>6. DOMAIN Extended(r) = 1 .. n /\ Extended(r)[n] = e /\ \A i \in 1 .. n - 1 : Extended(r)[i] = lines[i]
  <2>1. DOMAIN lines = 1 .. n
    BY <1>1
  <2>2. DOMAIN [lines EXCEPT ![n] = e] = DOMAIN lines
    OBVIOUS
  <2>3. [lines EXCEPT ![n] = e][n] = e
    BY <1>5, <2>1
  <2>4. \A i \in 1 .. n - 1 : [lines EXCEPT ![n] = e][i] = lines[i]
    BY <1>5, <2>1
  <2> QED
    BY <1>4, <2>1, <2>2, <2>3, <2>4
<1>7. Len(Extended(r)) = n
  BY <1>1, <1>6
<1> QED
  BY <1>3, <1>6, <1>7 DEF e, n, q

\* A newline ends the last line and begins an empty one.
LEMMA NewlineFacts ==
  ASSUME DiskTypes
  PROVE  LET more == Append(lines, <<>>) IN
         /\ Len(more) = Len(lines) + 1
         /\ more[Len(lines) + 1] = <<>>
         /\ \A i \in 1 .. Len(lines) : more[i] = lines[i]
<1>1. lines \in Seq(Seq(Docs \cup {NoDoc}))
  BY DEF DiskTypes
<1> QED
  BY <1>1

\* Every step keeps the shape of the file.
LEMMA LinesStep ==
  ASSUME TypeInv, LinesInv, [Next]_vars
  PROVE  LinesInv'
<1>a. DiskTypes /\ CheckpointTypes /\ Sealing
  BY DEF TypeInv
<1>b. Len(lines) \in Nat \ {0}
  BY <1>a, LinesLen
<1>c. cut \subseteq 1 .. Len(lines) /\ Len(lines) \in 1 .. Len(lines)
  BY <1>b DEF LinesInv
<1> USE DEF EndsIn, Alone
<1>1. CASE UNCHANGED <<lines, fileLock, writer, recorded, cut>>
  BY <1>1 DEF LinesInv
<1>2. CASE SealDoc
  <2>1. fileLock # "chunk"
    BY <1>2, <1>a DEF SealDoc, Sealing
  <2>2. chunker.doc \in Docs /\ UNCHANGED <<lines, fileLock, recorded, cut>> /\ Seal(chunker.doc)
    BY <1>2 DEF SealDoc, TypeInv, ChunkerInv
  <2>3. fileLock # "none" => writer'[fileLock] = writer[fileLock]
    BY <1>a, <2>1, <2>2, SealFacts DEF CheckpointTypes
  <2> QED
    BY <2>2, <2>3 DEF LinesInv
<1>3. CASE CountPut
  <2>1. fileLock # "put" /\ UNCHANGED <<lines, fileLock, recorded, cut>>
    BY <1>3, <1>a DEF CountPut, Sealing
  <2>2. fileLock # "none" => writer'[fileLock] = writer[fileLock]
    BY <1>3, <1>a, <2>1 DEF CountPut, RecordPut, AppendDone, CheckpointTypes
  <2> QED
    BY <2>1, <2>2 DEF LinesInv
<1>4. CASE Finish
  <2>1. writer["chunk"] = NoDoc /\ writer["put"] = NoDoc
    BY <1>4, <1>a DEF Finish, AllGone, Gone, Sealing
  <2>2. fileLock = "none"
    BY <1>a, <2>1 DEF Sealing, CheckpointTypes, Writers
  <2> QED
    BY <1>4, <2>2 DEF Finish, Forget, disk, LinesInv
<1>5. CASE Kill
  <2>1. /\ fileLock' = "none" /\ UNCHANGED <<lines, recorded>>
        /\ cut' = IF fileLock = "none" THEN cut ELSE cut \cup {Len(lines)}
    BY <1>5 DEF Kill, Forget, disk
  <2>2. cut \subseteq cut' /\ cut' \subseteq 1 .. Len(lines)
    BY <1>c, <2>1, Zenon
  <2>3. Len(lines) \notin cut' => Len(lines[Len(lines)]) = 0
    BY <2>1 DEF LinesInv
  <2>4. \A d \in recorded : \E n \in 1 .. Len(lines) - 1 : EndsIn(n, d) /\ (Alone(n) \/ n \in cut')
    BY <2>2 DEF LinesInv
  <2> QED
    BY <2>1, <2>2, <2>3, <2>4 DEF LinesInv
<1>6. ASSUME NEW r \in Docs \cup {NoDoc}, lines' = Extended(r), fileLock = "none", recorded' = recorded,
             \/ cut' = cut /\ fileLock' # "none" /\ writer'[fileLock'] = r
             \/ cut' = cut \cup {Len(lines)} /\ fileLock' = "none"
      PROVE  LinesInv'
  <2> DEFINE N == Len(lines)
  <2>1. /\ Len(lines') = N /\ \A i \in 1 .. N - 1 : lines'[i] = lines[i]
        /\ lines'[N] # <<>> /\ lines'[N][Len(lines'[N])] = r
        /\ Len(lines'[N]) = Len(lines[N]) + 1
    BY <1>6, <1>a, ExtendFacts
  <2>2. cut \subseteq cut' /\ cut' \subseteq 1 .. N
    BY <1>6, <1>c, Zenon
  <2>3. fileLock' # "none" => lines'[N] # <<>> /\ lines'[N][Len(lines'[N])] = writer'[fileLock']
    BY <1>6, <2>1
  <2>4. N \notin cut' => Len(lines'[N]) = IF fileLock' = "none" THEN 0 ELSE 1
    <3>1. CASE N \in cut'
      BY <3>1
    <3>2. CASE N \notin cut'
      <4>1. fileLock' # "none" /\ N \notin cut
        BY <1>6, <3>2
      <4>2. Len(lines[N]) = 0
        BY <1>6, <4>1 DEF LinesInv
      <4> QED
        BY <2>1, <4>1, <4>2
    <3> QED
      BY <3>1, <3>2
  <2>5. \A d \in recorded : \E n \in 1 .. N - 1 : EndsIn(n, d) /\ (Alone(n) \/ n \in cut)
    BY DEF LinesInv
  <2>6. \A d \in recorded' : \E n \in 1 .. N - 1 : (EndsIn(n, d) /\ (Alone(n) \/ n \in cut))'
    BY <1>6, <2>1, <2>2, <2>5
  <2> QED
    BY <2>1, <2>2, <2>3, <2>4, <2>6 DEF LinesInv
<1>7. ASSUME NEW x \in Writers, WriteLine(x) PROVE LinesInv'
  <2>1. /\ fileLock = "none" /\ x # "none" /\ recorded' = recorded
        /\ writer[x] \in Docs \cup {NoDoc} /\ NoDoc \in Docs \cup {NoDoc}
    BY <1>7, <1>a DEF WriteLine, Writers, CheckpointTypes
  <2>2. CASE lines' = Extended(writer[x]) /\ fileLock' = x /\ UNCHANGED <<writer, cut>>
    BY <1>6, <2>1, <2>2
  <2>3. CASE UNCHANGED <<lines, cut, fileLock>>
    BY <2>1, <2>3 DEF LinesInv
  <2>4. CASE lines' = Extended(NoDoc) /\ cut' = cut \cup {Len(lines)} /\ fileLock' = fileLock
    BY <1>6, <2>1, <2>4
  <2> QED
    BY <1>7, <2>2, <2>3, <2>4 DEF WriteLine
<1>8. ASSUME NEW x \in Writers, WriteNewline(x) PROVE LinesInv'
  <2>1. fileLock = x /\ fileLock' = "none" /\ x # "none"
    BY <1>8 DEF WriteNewline, Writers
  <2>2. CASE lines' = Append(lines, <<>>) /\ recorded' = recorded \cup {writer[x]} /\ UNCHANGED cut
    <3>1. /\ Len(lines') = Len(lines) + 1 /\ lines'[Len(lines')] = <<>>
          /\ \A i \in 1 .. Len(lines) : lines'[i] = lines[i]
      BY <1>a, <2>2, NewlineFacts
    <3>2. EndsIn(Len(lines), writer[x]) /\ (Alone(Len(lines)) \/ Len(lines) \in cut)
      BY <2>1 DEF LinesInv
    <3>3. \A d \in recorded' : \E n \in 1 .. Len(lines) :
             EndsIn(n, d) /\ (Alone(n) \/ n \in cut)
      BY <1>b, <2>2, <3>2 DEF LinesInv
    <3>4. \A d \in recorded' : \E n \in 1 .. Len(lines') - 1 :
             (EndsIn(n, d) /\ (Alone(n) \/ n \in cut))'
      BY <1>b, <2>2, <3>1, <3>3
    <3> QED
      BY <1>b, <2>1, <2>2, <3>1, <3>4 DEF LinesInv
  <2>3. CASE cut' = cut \cup {Len(lines)} /\ UNCHANGED <<lines, recorded>>
    <3>1. cut \subseteq cut' /\ cut' \subseteq 1 .. Len(lines) /\ Len(lines) \in cut'
      BY <1>c, <2>3, Zenon
    <3>2. \A d \in recorded : \E n \in 1 .. Len(lines) - 1 : EndsIn(n, d) /\ (Alone(n) \/ n \in cut')
      BY <3>1 DEF LinesInv
    <3> QED
      BY <2>1, <2>3, <3>1, <3>2 DEF LinesInv
  <2> QED
    BY <1>8, <2>2, <2>3 DEF WriteNewline
<1>9. UNCHANGED vars => UNCHANGED <<lines, fileLock, writer, recorded, cut>>
  BY DEF vars, checks
<1> QED
  BY <1>1, <1>2, <1>3, <1>4, <1>5, <1>7, <1>8, <1>9, QuietSteps

\* However the chunk task and the put task append to the one file, wherever
\* runs are killed and whatever appends fail, a record that was written is read
\* by the next run: but for one record for each line that was left without its
\* newline, the record written behind it.
THEOREM RecordsAreSafe == Spec => []RecordsSurvive
<1>1. Init => LinesInv
  <2> SUFFICES ASSUME Init PROVE LinesInv
    OBVIOUS
  <2>1. lines = << <<>> >> /\ fileLock = "none" /\ recorded = {} /\ cut = {}
    BY DEF Init
  <2>2. Len(lines) = 1 /\ lines[1] = <<>> /\ Len(lines[1]) = 0
    BY <2>1
  <2> QED
    BY <2>1, <2>2 DEF LinesInv
<1>2. TypeInv /\ LinesInv /\ [Next]_vars => LinesInv'
  BY LinesStep
<1>3. TypeInv /\ LinesInv => RecordsSurvive
  <2> SUFFICES ASSUME TypeInv, LinesInv, NEW d \in recorded
               PROVE  d \in Loaded \/ \E n \in cut : EndsIn(n, d)
    BY DEF RecordsSurvive, EndsIn
  <2>1. PICK n \in 1 .. Len(lines) - 1 : EndsIn(n, d) /\ (Alone(n) \/ n \in cut)
    BY DEF LinesInv
  <2>2. CASE Alone(n)
    <3>1. /\ d \in Docs /\ d # NoDoc /\ n \in DOMAIN lines
          /\ lines[n] \in Seq(Docs \cup {NoDoc})
      BY PipelineConstants DEF TypeInv, DiskTypes
    <3>2. Len(lines[n]) = 1 /\ Head(lines[n]) = d
      BY <2>1, <2>2, <3>1 DEF EndsIn, Alone
    <3> QED
      BY <3>1, <3>2 DEF Loaded, Range
  <2> QED
    BY <2>1, <2>2
<1> QED
  BY <1>1, <1>2, <1>3, TypeInit, TypeStep, PTL DEF Spec

-----------------------------------------------------------------------------
(* What the checkpoint calls done is in the index.                         *)

\* Sequences by the place they are at: nothing is in two of them, or twice in
\* one.
NoTwice(L) ==
  \A p, q \in DOMAIN L : \A m \in DOMAIN L[p], n \in DOMAIN L[q] :
    L[p][m] = L[q][n] => p = q /\ m = n
AllOf(L) == UNION {Range(L[p]) : p \in DOMAIN L}
Neat(L, P, X) == L \in [P -> Seq(X)] /\ NoTwice(L)

\* The first thing is taken from a place, something is put at its end, all of
\* it is dropped, or the first thing goes to the end of another place.
Take(L, p)    == [L EXCEPT ![p] = Tail(L[p])]
Add(L, p, x)  == [L EXCEPT ![p] = Append(L[p], x)]
Drop(L, p)    == [L EXCEPT ![p] = <<>>]
Move(L, p, r) == Add(Take(L, p), r, Head(L[p]))

\* Taking the first thing of a lane.
LEMMA TakeFirst ==
  ASSUME NEW P, NEW X, NEW L, Neat(L, P, X), NEW p \in P, L[p] # <<>>
  PROVE  /\ Neat(Take(L, p), P, X)
         /\ \A y : y \in AllOf(Take(L, p)) <=> y \in AllOf(L) /\ y # Head(L[p])
         /\ Head(L[p]) \in AllOf(L) /\ Head(L[p]) \in X
         /\ \A r \in P : r # p => Take(L, p)[r] = L[r]
<1> USE DEF Neat
<1> DEFINE M == Take(L, p)
<1>1. /\ L[p] \in Seq(X) /\ Len(L[p]) \in Nat /\ DOMAIN L[p] = 1 .. Len(L[p]) /\ 1 \in DOMAIN L[p]
      /\ Head(L[p]) = L[p][1] /\ Tail(L[p]) \in Seq(X) /\ DOMAIN Tail(L[p]) = 1 .. Len(L[p]) - 1
      /\ \A i \in 1 .. Len(L[p]) - 1 : Tail(L[p])[i] = L[p][i + 1]
  OBVIOUS
<1>2. M \in [P -> Seq(X)] /\ M[p] = Tail(L[p]) /\ \A q \in P : q # p => M[q] = L[q]
  BY <1>1 DEF Take
<1>t. M = [L EXCEPT ![p] = Tail(L[p])]
  BY DEF Take
<1> HIDE DEF M
<1> DEFINE at(q, m) == IF q = p THEN m + 1 ELSE m
<1>3. \A q \in P : \A m \in DOMAIN M[q] :
        at(q, m) \in DOMAIN L[q] /\ M[q][m] = L[q][at(q, m)] /\ (q = p => at(q, m) # 1)
  BY <1>1, <1>2, <1>t
<1>4. NoTwice(M)
  <2> SUFFICES ASSUME NEW q \in P, NEW r \in P, NEW m \in DOMAIN M[q], NEW n \in DOMAIN M[r], M[q][m] = M[r][n]
               PROVE  q = r /\ m = n
    BY <1>2 DEF NoTwice
  <2>1. L[q][at(q, m)] = L[r][at(r, n)] /\ at(q, m) \in DOMAIN L[q] /\ at(r, n) \in DOMAIN L[r]
    BY <1>3
  <2>2. q = r /\ at(q, m) = at(r, n)
    BY <2>1 DEF NoTwice
  <2>3. DOMAIN M[q] \subseteq Int
    BY <1>2
  <2> QED
    BY <2>2, <2>3
<1>5. AllOf(M) \subseteq AllOf(L) \ {Head(L[p])}
  <2> SUFFICES ASSUME NEW q \in P, NEW m \in DOMAIN M[q] PROVE M[q][m] \in AllOf(L) /\ M[q][m] # L[p][1]
    BY <1>1, <1>2 DEF AllOf, Range
  <2>1. M[q][m] = L[q][at(q, m)] /\ at(q, m) \in DOMAIN L[q]
    BY <1>3
  <2>2. M[q][m] # L[p][1]
    BY <1>1, <1>3, <2>1 DEF NoTwice
  <2> QED
    BY <2>1, <2>2 DEF AllOf, Range
<1>6. AllOf(L) \ {Head(L[p])} \subseteq AllOf(M)
  <2> SUFFICES ASSUME NEW q \in P, NEW m \in DOMAIN L[q], L[q][m] # L[p][1] PROVE L[q][m] \in AllOf(M)
    BY <1>1 DEF AllOf, Range
  <2>1. CASE q = p
    <3>1. m # 1 /\ m - 1 \in DOMAIN M[p] /\ M[p][m - 1] = L[p][m]
      BY <1>1, <1>2, <2>1
    <3> QED
      BY <1>2, <2>1, <3>1 DEF AllOf, Range
  <2>2. CASE q # p
    BY <1>2, <2>2 DEF AllOf, Range
  <2> QED
    BY <2>1, <2>2
<1>7. Head(L[p]) \in AllOf(L) /\ Head(L[p]) \in X
  BY <1>1 DEF AllOf, Range
<1> QED
  BY <1>2, <1>4, <1>5, <1>6, <1>7 DEF M

\* Putting a new thing at the end of a place.
LEMMA PutLast ==
  ASSUME NEW P, NEW X, NEW L, Neat(L, P, X), NEW p \in P, NEW x \in X, x \notin AllOf(L)
  PROVE  /\ Neat(Add(L, p, x), P, X)
         /\ \A y : y \in AllOf(Add(L, p, x)) <=> y \in AllOf(L) \/ y = x
<1> USE DEF Neat
<1> DEFINE n == Len(L[p])
           M == Add(L, p, x)
<1>1. /\ L[p] \in Seq(X) /\ n \in Nat /\ DOMAIN L[p] = 1 .. n
      /\ Append(L[p], x) \in Seq(X) /\ DOMAIN Append(L[p], x) = 1 .. n + 1
      /\ Append(L[p], x)[n + 1] = x /\ \A i \in 1 .. n : Append(L[p], x)[i] = L[p][i]
  OBVIOUS
<1>2. M \in [P -> Seq(X)] /\ M[p] = Append(L[p], x) /\ \A q \in P : q # p => M[q] = L[q]
  BY <1>1 DEF Add
<1>t. M = [L EXCEPT ![p] = Append(L[p], x)]
  BY DEF Add
<1> HIDE DEF n, M
<1>3. \A q \in P : \A m \in DOMAIN M[q] :
        \/ q = p /\ m = n + 1 /\ M[q][m] = x
        \/ m \in DOMAIN L[q] /\ M[q][m] = L[q][m] /\ M[q][m] # x
  BY <1>1, <1>2, <1>t DEF AllOf, Range
<1>4. NoTwice(M)
  BY <1>2, <1>3 DEF NoTwice
<1>5. \A q \in P : \A m \in DOMAIN L[q] : m \in DOMAIN M[q] /\ M[q][m] = L[q][m]
  BY <1>1, <1>2, <1>t
<1>6. n + 1 \in DOMAIN M[p] /\ M[p][n + 1] = x
  BY <1>1, <1>2
<1>7. AllOf(M) \subseteq AllOf(L) \cup {x}
  BY <1>2, <1>3 DEF AllOf, Range
<1>8. AllOf(L) \cup {x} \subseteq AllOf(M)
  BY <1>2, <1>5, <1>6 DEF AllOf, Range
<1> QED
  BY <1>2, <1>4, <1>7, <1>8 DEF M

\* Dropping what is at a place.
LEMMA DropAll ==
  ASSUME NEW P, NEW X, NEW L, Neat(L, P, X), NEW p \in P
  PROVE  /\ Neat(Drop(L, p), P, X)
         /\ AllOf(Drop(L, p)) \subseteq AllOf(L)
<1> USE DEF Neat
<1> DEFINE M == Drop(L, p)
<1>1. M \in [P -> Seq(X)] /\ DOMAIN M[p] = {} /\ \A q \in P : q # p => M[q] = L[q]
  BY DEF Drop
<1>t. M = [L EXCEPT ![p] = <<>>]
  BY DEF Drop
<1> HIDE DEF M
<1>2. NoTwice(M)
  BY <1>1, <1>t DEF NoTwice
<1>3. AllOf(M) \subseteq AllOf(L)
  BY <1>1, <1>t DEF AllOf, Range
<1> QED
  BY <1>1, <1>2, <1>3 DEF M

\* Taking the first thing from one place to the end of another.
LEMMA MoveFirst ==
  ASSUME NEW P, NEW X, NEW L, Neat(L, P, X), NEW p \in P, L[p] # <<>>, NEW r \in P
  PROVE  /\ Neat(Move(L, p, r), P, X)
         /\ \A y : y \in AllOf(Move(L, p, r)) <=> y \in AllOf(L)
<1>1. /\ Neat(Take(L, p), P, X)
      /\ \A y : y \in AllOf(Take(L, p)) <=> y \in AllOf(L) /\ y # Head(L[p])
      /\ Head(L[p]) \in AllOf(L) /\ Head(L[p]) \in X
  BY TakeFirst
<1> QED
  BY <1>1, PutLast DEF Move

\* Three channels or buffers, and one for each worker in W.
First   == <<"first", 0>>
Second  == <<"second", 0>>
Third   == <<"third", 0>>
Each(w) == <<"each", w>>
Lanes(W) == {First, Second, Third} \cup {Each(w) : w \in W}
Lay(W, a, b, c, m) ==
  [p \in Lanes(W) |-> CASE p[1] = "first"  -> a
                        [] p[1] = "second" -> b
                        [] p[1] = "third"  -> c
                        [] p[1] = "each"   -> m[p[2]]]

IsLay(L, W, X, a, b, c, m) ==
  L = Lay(W, a, b, c, m) /\ a \in Seq(X) /\ b \in Seq(X) /\ c \in Seq(X) /\ m \in [W -> Seq(X)]

\* What each lane of such a structure is.
LEMMA LayFacts ==
  ASSUME NEW W, NEW X, NEW a, NEW b, NEW c, NEW m, NEW L, IsLay(L, W, X, a, b, c, m)
  PROVE  /\ First \in Lanes(W) /\ Second \in Lanes(W) /\ Third \in Lanes(W) /\ \A w \in W : Each(w) \in Lanes(W)
         /\ L \in [Lanes(W) -> Seq(X)]
         /\ L[First] = a /\ L[Second] = b /\ L[Third] = c /\ \A w \in W : L[Each(w)] = m[w]
         /\ \A q \in Seq(X) : /\ IsLay([L EXCEPT ![First] = q], W, X, q, b, c, m)
                              /\ IsLay([L EXCEPT ![Second] = q], W, X, a, q, c, m)
                              /\ IsLay([L EXCEPT ![Third] = q], W, X, a, b, q, m)
                              /\ \A w \in W : IsLay([L EXCEPT ![Each(w)] = q], W, X, a, b, c, [m EXCEPT ![w] = q])
<1> USE DEF IsLay
<1> DEFINE F(p, f, s, t, e) == CASE p[1] = "first"  -> f
                                 [] p[1] = "second" -> s
                                 [] p[1] = "third"  -> t
                                 [] p[1] = "each"   -> e[p[2]]
<1>1. First \in Lanes(W) /\ Second \in Lanes(W) /\ Third \in Lanes(W) /\ \A w \in W : Each(w) \in Lanes(W)
  BY DEF Lanes
<1>2. /\ \A w \in W : Each(w) # First /\ Each(w) # Second /\ Each(w) # Third
      /\ First # Second /\ First # Third /\ Second # Third
      /\ \A v, w \in W : Each(v) = Each(w) => v = w
  BY DEF First, Second, Third, Each
<1>3. \A f, s, t, e : /\ F(First, f, s, t, e) = f /\ F(Second, f, s, t, e) = s /\ F(Third, f, s, t, e) = t
                      /\ \A w \in W : F(Each(w), f, s, t, e) = e[w]
  BY DEF First, Second, Third, Each
<1>4. \A f, s, t, e : Lay(W, f, s, t, e) = [p \in Lanes(W) |-> F(p, f, s, t, e)]
  BY DEF Lay
<1>5. \A p \in Lanes(W) : p = First \/ p = Second \/ p = Third \/ \E w \in W : p = Each(w)
  BY DEF Lanes
<1> HIDE DEF F
<1>6. L[First] = a /\ L[Second] = b /\ L[Third] = c /\ \A w \in W : L[Each(w)] = m[w]
  BY <1>1, <1>3, <1>4
<1>7. \A p \in Lanes(W) : L[p] \in Seq(X)
  BY <1>5, <1>6
<1>8. L \in [Lanes(W) -> Seq(X)] /\ L = [p \in Lanes(W) |-> F(p, a, b, c, m)]
  BY <1>4, <1>7
<1>9. ASSUME NEW q \in Seq(X)
      PROVE  /\ [L EXCEPT ![First] = q] = Lay(W, q, b, c, m)
             /\ [L EXCEPT ![Second] = q] = Lay(W, a, q, c, m)
             /\ [L EXCEPT ![Third] = q] = Lay(W, a, b, q, m)
  <2>1. \A p \in Lanes(W) : /\ F(p, q, b, c, m) = IF p = First THEN q ELSE F(p, a, b, c, m)
                            /\ F(p, a, q, c, m) = IF p = Second THEN q ELSE F(p, a, b, c, m)
                            /\ F(p, a, b, q, m) = IF p = Third THEN q ELSE F(p, a, b, c, m)
    BY <1>2, <1>3, <1>5
  <2> QED
    BY <1>1, <1>4, <1>8, <2>1
<1>10. ASSUME NEW q \in Seq(X), NEW w \in W
       PROVE  [L EXCEPT ![Each(w)] = q] = Lay(W, a, b, c, [m EXCEPT ![w] = q])
  <2> DEFINE k == [m EXCEPT ![w] = q]
  <2>1. k \in [W -> Seq(X)] /\ k[w] = q /\ \A v \in W : v # w => k[v] = m[v]
    OBVIOUS
  <2> HIDE DEF k
  <2>2. \A p \in Lanes(W) : F(p, a, b, c, k) = IF p = Each(w) THEN q ELSE F(p, a, b, c, m)
    <3>1. ASSUME NEW p \in {First, Second, Third}
          PROVE  p # Each(w) /\ F(p, a, b, c, k) = F(p, a, b, c, m)
      BY <1>2, <1>3
    <3>2. ASSUME NEW v \in W
          PROVE  F(Each(v), a, b, c, k) = IF Each(v) = Each(w) THEN q ELSE F(Each(v), a, b, c, m)
      <4>1. F(Each(v), a, b, c, k) = k[v] /\ F(Each(v), a, b, c, m) = m[v]
        BY <1>3
      <4>2. CASE v = w
        BY <2>1, <4>1, <4>2
      <4>3. CASE v # w
        BY <1>2, <2>1, <4>1, <4>3
      <4> QED
        BY <4>2, <4>3
    <3> QED
      BY <1>5, <3>1, <3>2
  <2>3. [L EXCEPT ![Each(w)] = q] = Lay(W, a, b, c, k)
    BY <1>1, <1>4, <1>8, <2>2
  <2> QED
    BY <2>3 DEF k
<1>11. \A q \in Seq(X) : \A w \in W : [m EXCEPT ![w] = q] \in [W -> Seq(X)]
  OBVIOUS
<1> QED
  BY <1>1, <1>6, <1>8, <1>9, <1>10, <1>11

\* What a lane's first thing leaves, and where it goes.
LEMMA LayMoves ==
  ASSUME NEW W, NEW X, NEW a, NEW b, NEW c, NEW m, NEW L, IsLay(L, W, X, a, b, c, m)
  PROVE  /\ c # <<>> => IsLay(Take(L, Third), W, X, a, b, Tail(c), m)
         /\ IsLay(Drop(L, Second), W, X, a, <<>>, c, m)
         /\ IsLay(Drop(L, Third), W, X, a, b, <<>>, m)
         /\ \A w \in W : IsLay(Drop(L, Each(w)), W, X, a, b, c, [m EXCEPT ![w] = <<>>])
         /\ \A x \in X : IsLay(Add(L, First, x), W, X, Append(a, x), b, c, m)
         /\ a # <<>> => \A w \in W :
              IsLay(Move(L, First, Each(w)), W, X, Tail(a), b, c, [m EXCEPT ![w] = Append(m[w], Head(a))])
         /\ b # <<>> => IsLay(Move(L, Second, Third), W, X, a, Tail(b), Append(c, Head(b)), m)
         /\ \A w \in W : m[w] # <<>> =>
              IsLay(Move(L, Each(w), Second), W, X, a, Append(b, Head(m[w])), c, [m EXCEPT ![w] = Tail(m[w])])
<1>1. ASSUME NEW q \in Seq(X)
      PROVE  /\ q # <<>> => Tail(q) \in Seq(X) /\ Head(q) \in X
             /\ \A x \in X : Append(q, x) \in Seq(X)
             /\ <<>> \in Seq(X)
  OBVIOUS
<1>2. a \in Seq(X) /\ b \in Seq(X) /\ c \in Seq(X) /\ \A w \in W : m[w] \in Seq(X)
  BY DEF IsLay
<1>3. L[First] = a /\ L[Second] = b /\ L[Third] = c /\ \A w \in W : L[Each(w)] = m[w]
  BY LayFacts
<1>4. /\ c # <<>> => IsLay(Take(L, Third), W, X, a, b, Tail(c), m)
      /\ IsLay(Drop(L, Second), W, X, a, <<>>, c, m)
      /\ IsLay(Drop(L, Third), W, X, a, b, <<>>, m)
      /\ \A w \in W : IsLay(Drop(L, Each(w)), W, X, a, b, c, [m EXCEPT ![w] = <<>>])
      /\ \A x \in X : IsLay(Add(L, First, x), W, X, Append(a, x), b, c, m)
  BY <1>1, <1>2, <1>3, LayFacts DEF Take, Drop, Add
<1>5. ASSUME a # <<>>, NEW w \in W
      PROVE  IsLay(Move(L, First, Each(w)), W, X, Tail(a), b, c, [m EXCEPT ![w] = Append(m[w], Head(a))])
  <2>1. IsLay(Take(L, First), W, X, Tail(a), b, c, m) /\ Head(a) \in X
    BY <1>1, <1>2, <1>3, <1>5, LayFacts DEF Take
  <2>2. ASSUME NEW N, IsLay(N, W, X, Tail(a), b, c, m), NEW x \in X
        PROVE  IsLay(Add(N, Each(w), x), W, X, Tail(a), b, c, [m EXCEPT ![w] = Append(m[w], x)])
    <3>1. N[Each(w)] = m[w] /\ Append(m[w], x) \in Seq(X)
      BY <1>1, <1>2, <2>2, LayFacts
    <3> QED
      BY <2>2, <3>1, LayFacts DEF Add
  <2> QED
    BY <1>3, <2>1, <2>2 DEF Move
<1>6. ASSUME b # <<>>
      PROVE  IsLay(Move(L, Second, Third), W, X, a, Tail(b), Append(c, Head(b)), m)
  <2>1. IsLay(Take(L, Second), W, X, a, Tail(b), c, m) /\ Head(b) \in X
    BY <1>1, <1>2, <1>3, <1>6, LayFacts DEF Take
  <2>2. ASSUME NEW N, IsLay(N, W, X, a, Tail(b), c, m), NEW x \in X
        PROVE  IsLay(Add(N, Third, x), W, X, a, Tail(b), Append(c, x), m)
    <3>1. N[Third] = c /\ Append(c, x) \in Seq(X)
      BY <1>1, <1>2, <2>2, LayFacts
    <3> QED
      BY <2>2, <3>1, LayFacts DEF Add
  <2> QED
    BY <1>3, <2>1, <2>2 DEF Move
<1>7. ASSUME NEW w \in W, m[w] # <<>>
      PROVE  IsLay(Move(L, Each(w), Second), W, X, a, Append(b, Head(m[w])), c, [m EXCEPT ![w] = Tail(m[w])])
  <2>1. IsLay(Take(L, Each(w)), W, X, a, b, c, [m EXCEPT ![w] = Tail(m[w])]) /\ Head(m[w]) \in X
    BY <1>1, <1>2, <1>3, <1>7, LayFacts DEF Take
  <2>2. ASSUME NEW k, NEW N, IsLay(N, W, X, a, b, c, k), NEW x \in X
        PROVE  IsLay(Add(N, Second, x), W, X, a, Append(b, x), c, k)
    <3>1. N[Second] = b /\ Append(b, x) \in Seq(X)
      BY <1>1, <1>2, <2>2, LayFacts
    <3> QED
      BY <2>2, <3>1, LayFacts DEF Add
  <2> QED
    BY <1>3, <2>1, <2>2 DEF Move
<1> QED
  BY <1>4, <1>5, <1>6, <1>7

\* Where the documents of a run are that are not cut up yet, and its chunks
\* that are not counted as put.
Cutting == IF chunker.pc = "emit" THEN <<chunker.doc>> ELSE <<>>
Held    == [w \in Parsers |-> IF parser[w].pc = "send" THEN <<parser[w].doc>> ELSE <<>>]
DocLines == Lay(Parsers, raw, parsed, Cutting, Held)
Batches == [w \in Embedders |-> embedder[w].batch]
ChunkLines == Lay(Embedders, chunked, embedded, putter.buf, Batches)

\* Documents and chunks are laid out like that.
LEMMA LinesAreLaid ==
  TypeInv => /\ IsLay(DocLines, Parsers, Docs, raw, parsed, Cutting, Held)
             /\ IsLay(ChunkLines, Embedders, AllChunks, chunked, embedded, putter.buf, Batches)
<1> SUFFICES ASSUME TypeInv
             PROVE  /\ IsLay(DocLines, Parsers, Docs, raw, parsed, Cutting, Held)
                    /\ IsLay(ChunkLines, Embedders, AllChunks, chunked, embedded, putter.buf, Batches)
  OBVIOUS
<1>1. /\ raw \in Seq(Docs) /\ parsed \in Seq(Docs) /\ chunked \in Seq(AllChunks) /\ embedded \in Seq(AllChunks)
      /\ putter.buf \in Seq(AllChunks)
  BY DEF TypeInv, ChannelTypes, PutterInv
<1>2. \A d \in Docs : <<d>> \in Seq(Docs)
  OBVIOUS
<1>3. <<>> \in Seq(Docs)
  OBVIOUS
<1>4. Cutting \in Seq(Docs)
  BY <1>2, <1>3 DEF TypeInv, ChunkerInv, Cutting
<1>5. Held \in [Parsers -> Seq(Docs)]
  BY <1>2, <1>3 DEF TypeInv, ParserInv, Held
<1>6. Batches \in [Embedders -> Seq(AllChunks)]
  BY DEF TypeInv, EmbedderInv, Batches
<1> QED
  BY <1>1, <1>4, <1>5, <1>6 DEF IsLay, DocLines, ChunkLines

\* How the steps move documents.
LEMMA DocMoves ==
  ASSUME TypeInv
  PROVE  /\ \A s \in Sources : Visit(s) => \/ DocLines' = DocLines
                                           \/ DocLines' = Add(DocLines, First, <<s, content[s]>>)
         /\ \A w \in Parsers : TakeRaw(w) => \/ DocLines' = DocLines
                                             \/ raw # <<>> /\ DocLines' = Move(DocLines, First, Each(w))
         /\ \A w \in Parsers : SendParsed(w) =>
              Held[w] # <<>> /\ (DocLines' = Drop(DocLines, Each(w)) \/ DocLines' = Move(DocLines, Each(w), Second))
         /\ ReceiveParsed => \/ DocLines' = DocLines
                             \/ parsed # <<>> /\ DocLines' = Move(DocLines, Second, Third)
         /\ EmitChunk => DocLines' = DocLines
         /\ StopAtCap => Cutting = <<chunker.doc>> /\ DocLines' = Drop(Take(DocLines, Third), Second)
         /\ Panic     => DocLines' = Drop(DocLines, Second)
         /\ SealDoc   => Cutting = <<chunker.doc>> /\ DocLines' = Take(DocLines, Third)
         /\ UNCHANGED <<raw, parsed, chunker, parser>> => DocLines' = DocLines
<1> DEFINE L == DocLines
<1>1. IsLay(L, Parsers, Docs, raw, parsed, Cutting, Held)
  BY LinesAreLaid
<1>2. ParserInv /\ ChunkerInv /\ DiskTypes
  BY DEF TypeInv
<1>3. L = Lay(Parsers, raw, parsed, Cutting, Held) /\ L' = Lay(Parsers, raw', parsed', Cutting', Held')
  BY DEF DocLines
<1> HIDE DEF L
<1>4. /\ chunker' = chunker => Cutting' = Cutting
      /\ parser' = parser => Held' = Held
  BY DEF Cutting, Held
<1>a. \A d : Append(<<>>, d) = <<d>> /\ Head(<<d>>) = d /\ Tail(<<d>>) = <<>> /\ <<d>> # <<>>
  OBVIOUS
<1> USE DEF tasks, chans
<1>5. ASSUME NEW s \in Sources, Visit(s)
      PROVE  L' = L \/ L' = Add(L, First, <<s, content[s]>>)
  <2>1. <<s, content[s]>> \in Docs
    BY <1>2 DEF DiskTypes, Docs
  <2>2. IsLay(Add(L, First, <<s, content[s]>>), Parsers, Docs, Append(raw, <<s, content[s]>>), parsed, Cutting, Held)
    BY <1>1, <2>1, LayMoves
  <2> QED
    BY <1>3, <1>4, <1>5, <2>2 DEF Visit, IsLay
<1>6. ASSUME NEW w \in Parsers, TakeRaw(w)
      PROVE  L' = L \/ (raw # <<>> /\ L' = Move(L, First, Each(w)))
  <2>1. CASE raw # <<>> /\ raw' = Tail(raw)
    <3>1. IsLay(Move(L, First, Each(w)), Parsers, Docs, Tail(raw), parsed, Cutting,
                [Held EXCEPT ![w] = Append(Held[w], Head(raw))])
      BY <1>1, <2>1, LayMoves
    <3>2. Held' = [Held EXCEPT ![w] = Append(Held[w], Head(raw))]
      <4>1. parser' = [parser EXCEPT ![w] = [pc |-> "send", doc |-> Head(raw)]] /\ parser[w].pc = "recv"
        BY <1>6, <2>1 DEF TakeRaw
      <4>2. Held[w] = <<>> /\ Append(<<>>, Head(raw)) = <<Head(raw)>>
        BY <4>1 DEF Held
      <4> QED
        BY <1>2, <4>1, <4>2 DEF Held, ParserInv
    <3> QED
      BY <1>3, <1>4, <1>6, <2>1, <3>1, <3>2 DEF TakeRaw, IsLay
  <2>2. CASE ~(raw # <<>> /\ raw' = Tail(raw))
    <3>1. parser' = [parser EXCEPT ![w].pc = "gone"] /\ parser[w].pc = "recv" /\ UNCHANGED <<raw, parsed, chunker>>
      BY <1>6, <2>2 DEF TakeRaw
    <3>2. Held' = Held
      BY <1>2, <3>1 DEF Held, ParserInv
    <3> QED
      BY <1>3, <1>4, <3>1, <3>2
  <2> QED
    BY <2>1, <2>2
<1>7. ASSUME NEW w \in Parsers, SendParsed(w)
      PROVE  Held[w] # <<>> /\ (L' = Drop(L, Each(w)) \/ L' = Move(L, Each(w), Second))
  <2>1. Held[w] = <<parser[w].doc>>
    BY <1>7 DEF SendParsed, Held
  <2>2. Held' = [Held EXCEPT ![w] = <<>>]
    <3>1. PICK p \in {"gone", "recv"} : parser' = [parser EXCEPT ![w] = [pc |-> p, doc |-> NoDoc]]
      BY <1>7 DEF SendParsed
    <3>2. \A v \in Parsers : parser'[v] = IF v = w THEN [pc |-> p, doc |-> NoDoc] ELSE parser[v]
      BY <1>2, <3>1 DEF ParserInv
    <3>3. [pc |-> p, doc |-> NoDoc].pc # "send"
      OBVIOUS
    <3> QED
      BY <3>2, <3>3 DEF Held
  <2>3. IsLay(Drop(L, Each(w)), Parsers, Docs, raw, parsed, Cutting, [Held EXCEPT ![w] = <<>>])
    BY <1>1, LayMoves
  <2>4. IsLay(Move(L, Each(w), Second), Parsers, Docs, raw, Append(parsed, parser[w].doc), Cutting, [Held EXCEPT ![w] = <<>>])
    <3>1. Held[w] # <<>> /\ Head(Held[w]) = parser[w].doc /\ Tail(Held[w]) = <<>>
      BY <1>a, <2>1
    <3> QED
      BY <1>1, <3>1, LayMoves
  <2>5. UNCHANGED <<raw, chunker>> /\ (parsed' = parsed \/ parsed' = Append(parsed, parser[w].doc))
    BY <1>7 DEF SendParsed
  <2> QED
    BY <1>3, <1>4, <1>a, <2>1, <2>2, <2>3, <2>4, <2>5 DEF IsLay
<1>8. ASSUME ReceiveParsed PROVE L' = L \/ (parsed # <<>> /\ L' = Move(L, Second, Third))
  <2>1. Cutting = <<>> /\ UNCHANGED <<raw, parser>>
    BY <1>8 DEF ReceiveParsed, Cutting
  <2>2. CASE parsed # <<>>
    <3>1. IsLay(Move(L, Second, Third), Parsers, Docs, raw, Tail(parsed), Append(Cutting, Head(parsed)), Held)
      BY <1>1, <2>2, LayMoves
    <3>2. Cutting' = Append(Cutting, Head(parsed)) /\ parsed' = Tail(parsed)
      BY <1>2, <1>8, <1>a, <2>1, <2>2 DEF ReceiveParsed, Cutting, ChunkerInv
    <3> QED
      BY <1>3, <1>4, <2>1, <2>2, <3>1, <3>2 DEF IsLay
  <2>3. CASE parsed = <<>>
    <3>1. Cutting' = Cutting /\ parsed' = parsed
      BY <1>2, <1>8, <2>1, <2>3 DEF ReceiveParsed, Cutting, ChunkerInv
    <3> QED
      BY <1>3, <1>4, <2>1, <3>1
  <2> QED
    BY <2>2, <2>3
<1>9. ASSUME EmitChunk PROVE L' = L
  <2>1. Cutting' = Cutting
    BY <1>2, <1>9 DEF EmitChunk, Cutting, ChunkerInv
  <2> QED
    BY <1>3, <1>4, <1>9, <2>1 DEF EmitChunk
<1>10. ASSUME StopAtCap PROVE Cutting = <<chunker.doc>> /\ L' = Drop(Take(L, Third), Second)
  <2>1. Cutting = <<chunker.doc>> /\ Cutting' = <<>> /\ parsed' = <<>> /\ UNCHANGED <<raw, parser>>
    BY <1>2, <1>10 DEF StopAtCap, Cutting, ChunkerInv
  <2>2. IsLay(Take(L, Third), Parsers, Docs, raw, parsed, <<>>, Held)
    BY <1>1, <1>a, <2>1, LayMoves
  <2>3. IsLay(Drop(Take(L, Third), Second), Parsers, Docs, raw, <<>>, <<>>, Held)
    BY <2>2, LayMoves
  <2> QED
    BY <1>3, <1>4, <2>1, <2>3 DEF IsLay
<1>11. ASSUME Panic PROVE L' = Drop(L, Second)
  <2>1. Cutting' = Cutting /\ parsed' = <<>> /\ UNCHANGED <<raw, parser>>
    BY <1>2, <1>11 DEF Panic, Cutting, ChunkerInv
  <2>2. IsLay(Drop(L, Second), Parsers, Docs, raw, <<>>, Cutting, Held)
    BY <1>1, LayMoves
  <2> QED
    BY <1>3, <1>4, <2>1, <2>2 DEF IsLay
<1>12. ASSUME SealDoc PROVE Cutting = <<chunker.doc>> /\ L' = Take(L, Third)
  <2>1. Cutting = <<chunker.doc>> /\ Cutting' = <<>> /\ UNCHANGED <<raw, parsed, parser>>
    BY <1>2, <1>12 DEF SealDoc, Cutting, ChunkerInv
  <2>2. IsLay(Take(L, Third), Parsers, Docs, raw, parsed, <<>>, Held)
    BY <1>1, <1>a, <2>1, LayMoves
  <2> QED
    BY <1>3, <1>4, <2>1, <2>2 DEF IsLay
<1>13. UNCHANGED <<raw, parsed, chunker, parser>> => L' = L
  BY <1>3, <1>4
<1> QED
  BY <1>5, <1>6, <1>7, <1>8, <1>9, <1>10, <1>11, <1>12, <1>13 DEF L

\* How the steps move chunks.
LEMMA ChunkMoves ==
  ASSUME TypeInv
  PROVE  /\ EmitChunk => ChunkLines' = Add(ChunkLines, First, <<chunker.doc, chunker.next>>)
         /\ \A w \in Embedders :
              /\ TakeLock(w) \/ CloseBatch(w) => ChunkLines' = ChunkLines
              /\ FillBatch(w) => chunked # <<>> /\ ChunkLines' = Move(ChunkLines, First, Each(w))
              /\ CallProvider(w) => ChunkLines' = ChunkLines \/ ChunkLines' = Drop(ChunkLines, Each(w))
              /\ SendEmbedded(w) => Batches[w] # <<>> /\ ChunkLines' = Move(ChunkLines, Each(w), Second)
         /\ ReceiveEmbedded => embedded # <<>> /\ ChunkLines' = Move(ChunkLines, Second, Third)
         /\ FlushTimer \/ ClosePut => ChunkLines' = ChunkLines
         /\ CallPut => \/ putter'.buf = putter.buf /\ ChunkLines' = ChunkLines
                       \/ putter'.pc = "recv" /\ ChunkLines' = Drop(ChunkLines, Third)
         /\ CountPut => \/ putter'.pc = "recv" /\ ChunkLines' = ChunkLines
                        \/ putter.buf # <<>> /\ ChunkLines' = Take(ChunkLines, Third)
         /\ UNCHANGED <<chunked, embedded, embedder, putter>> => ChunkLines' = ChunkLines
<1> DEFINE L == ChunkLines
           b == putter.buf
<1>1. IsLay(L, Embedders, AllChunks, chunked, embedded, b, Batches)
  BY LinesAreLaid
<1>2. EmbedderInv /\ ChunkerInv /\ PutterInv
  BY DEF TypeInv
<1>3. /\ L = Lay(Embedders, chunked, embedded, b, Batches)
      /\ L' = Lay(Embedders, chunked', embedded', b', Batches')
  BY DEF ChunkLines
<1>b. b' = putter'.buf
  OBVIOUS
<1> HIDE DEF L
<1>4. /\ embedder' = embedder => Batches' = Batches
      /\ \A w \in Embedders : Batches[w] = embedder[w].batch
  BY DEF Batches
<1>5. ASSUME NEW w \in Embedders, NEW p, embedder' = [embedder EXCEPT ![w].pc = p] PROVE Batches' = Batches
  BY <1>2, <1>5 DEF Batches, EmbedderInv
<1>6. ASSUME NEW w \in Embedders, NEW p, NEW q, embedder' = [embedder EXCEPT ![w] = [pc |-> p, batch |-> q]]
      PROVE  Batches' = [Batches EXCEPT ![w] = q]
  BY <1>2, <1>6 DEF Batches, EmbedderInv
<1> USE DEF tasks, chans
<1>7. ASSUME EmitChunk PROVE L' = Add(L, First, <<chunker.doc, chunker.next>>)
  <2>1. <<chunker.doc, chunker.next>> \in AllChunks
    BY <1>2, <1>7, ChunkFacts DEF EmitChunk, ChunkerInv
  <2>2. IsLay(Add(L, First, <<chunker.doc, chunker.next>>), Embedders, AllChunks,
              Append(chunked, <<chunker.doc, chunker.next>>), embedded, b, Batches)
    BY <1>1, <2>1, LayMoves
  <2>3. chunked' = Append(chunked, <<chunker.doc, chunker.next>>) /\ UNCHANGED <<embedded, embedder, putter>>
    BY <1>7 DEF EmitChunk
  <2> QED
    BY <1>3, <1>4, <2>2, <2>3 DEF IsLay
<1>8. ASSUME NEW w \in Embedders
      PROVE  /\ TakeLock(w) \/ CloseBatch(w) => L' = L
             /\ FillBatch(w) => chunked # <<>> /\ L' = Move(L, First, Each(w))
             /\ CallProvider(w) => L' = L \/ L' = Drop(L, Each(w))
             /\ SendEmbedded(w) => Batches[w] # <<>> /\ L' = Move(L, Each(w), Second)
  <2>1. TakeLock(w) \/ CloseBatch(w) => L' = L
    BY <1>3, <1>5 DEF TakeLock, CloseBatch
  <2>2. ASSUME FillBatch(w) PROVE chunked # <<>> /\ L' = Move(L, First, Each(w))
    <3>1. chunked # <<>> /\ chunked' = Tail(chunked) /\ UNCHANGED <<embedded, putter>>
      BY <2>2 DEF FillBatch
    <3>2. Batches' = [Batches EXCEPT ![w] = Append(Batches[w], Head(chunked))]
      BY <1>4, <1>6, <2>2 DEF FillBatch
    <3>3. IsLay(Move(L, First, Each(w)), Embedders, AllChunks, Tail(chunked), embedded, b,
                [Batches EXCEPT ![w] = Append(Batches[w], Head(chunked))])
      BY <1>1, <3>1, LayMoves
    <3> QED
      BY <1>3, <3>1, <3>2, <3>3 DEF IsLay
  <2>3. ASSUME CallProvider(w) PROVE L' = L \/ L' = Drop(L, Each(w))
    <3>1. Batches' = Batches \/ Batches' = [Batches EXCEPT ![w] = <<>>]
      BY <1>5, <1>6, <2>3 DEF CallProvider
    <3>2. IsLay(Drop(L, Each(w)), Embedders, AllChunks, chunked, embedded, b, [Batches EXCEPT ![w] = <<>>])
      BY <1>1, LayMoves
    <3>3. UNCHANGED <<chunked, embedded, putter>>
      BY <2>3 DEF CallProvider
    <3> QED
      BY <1>3, <3>1, <3>2, <3>3 DEF IsLay
  <2>4. ASSUME SendEmbedded(w) PROVE Batches[w] # <<>> /\ L' = Move(L, Each(w), Second)
    <3>1. Batches[w] # <<>>
      BY <1>2, <1>4, <2>4 DEF SendEmbedded, EmbedderInv, BatchInv
    <3>2. Batches' = [Batches EXCEPT ![w] = Tail(Batches[w])]
      BY <1>4, <1>6, <2>4 DEF SendEmbedded
    <3>3. IsLay(Move(L, Each(w), Second), Embedders, AllChunks, chunked, Append(embedded, Head(Batches[w])), b,
                [Batches EXCEPT ![w] = Tail(Batches[w])])
      BY <1>1, <3>1, LayMoves
    <3>4. embedded' = Append(embedded, Head(Batches[w])) /\ UNCHANGED <<chunked, putter>>
      BY <1>4, <2>4 DEF SendEmbedded
    <3> QED
      BY <1>3, <3>1, <3>2, <3>3, <3>4 DEF IsLay
  <2> QED
    BY <2>1, <2>2, <2>3, <2>4
<1>9. ASSUME ReceiveEmbedded PROVE embedded # <<>> /\ L' = Move(L, Second, Third)
  <2>1. /\ embedded # <<>> /\ embedded' = Tail(embedded) /\ UNCHANGED <<chunked, embedder>>
        /\ b' = Append(b, Head(embedded))
    BY <1>9 DEF ReceiveEmbedded
  <2>2. IsLay(Move(L, Second, Third), Embedders, AllChunks, chunked, Tail(embedded), Append(b, Head(embedded)), Batches)
    BY <1>1, <2>1, LayMoves
  <2> QED
    BY <1>3, <1>4, <2>1, <2>2 DEF IsLay
<1>10. FlushTimer \/ ClosePut => L' = L
  BY <1>2, <1>3, <1>4 DEF FlushTimer, ClosePut, PutterInv
<1>11. ASSUME CallPut PROVE \/ putter'.buf = putter.buf /\ L' = L
                            \/ putter'.pc = "recv" /\ L' = Drop(L, Third)
  <2>1. UNCHANGED <<chunked, embedded, embedder>> /\ (b' = b \/ (putter'.pc = "recv" /\ b' = <<>>))
    BY <1>2, <1>11 DEF CallPut, PutterInv
  <2>2. IsLay(Drop(L, Third), Embedders, AllChunks, chunked, embedded, <<>>, Batches)
    BY <1>1, LayMoves
  <2> QED
    BY <1>3, <1>4, <2>1, <2>2 DEF IsLay
<1>12. ASSUME CountPut PROVE \/ putter'.pc = "recv" /\ L' = L
                             \/ b # <<>> /\ L' = Take(L, Third)
  <2>1. /\ UNCHANGED <<chunked, embedded, embedder>>
        /\ (b' = b /\ putter'.pc = "recv") \/ (b # <<>> /\ b' = Tail(b))
    BY <1>2, <1>12 DEF CountPut, PutterInv
  <2>2. b # <<>> => IsLay(Take(L, Third), Embedders, AllChunks, chunked, embedded, Tail(b), Batches)
    BY <1>1, LayMoves
  <2> QED
    BY <1>3, <1>4, <2>1, <2>2 DEF IsLay
<1>13. UNCHANGED <<chunked, embedded, embedder, putter>> => L' = L
  BY <1>3, <1>4
<1> QED
  BY <1>7, <1>8, <1>9, <1>10, <1>11, <1>12, <1>13 DEF L

\* A structure whose lanes are empty holds nothing.
LEMMA EmptyLay ==
  ASSUME NEW W, NEW X, NEW m, NEW L, IsLay(L, W, X, <<>>, <<>>, <<>>, m), \A w \in W : m[w] = <<>>
  PROVE  Neat(L, Lanes(W), X) /\ \A y : y \notin AllOf(L)
<1>1. L \in [Lanes(W) -> Seq(X)] /\ L[First] = <<>> /\ L[Second] = <<>> /\ L[Third] = <<>> /\ \A w \in W : L[Each(w)] = <<>>
  BY LayFacts
<1>2. \A p \in Lanes(W) : L[p] = <<>>
  BY <1>1 DEF Lanes
<1>3. DOMAIN <<>> = {}
  OBVIOUS
<1>4. \A p \in Lanes(W) : DOMAIN L[p] = {}
  BY <1>2, <1>3
<1> QED
  BY <1>1, <1>4 DEF Neat, NoTwice, AllOf, Range

\* Of source s, the chunks in K.
Of(K, s) == {c \in K : c[1][1] = s}

\* A document has as many chunks as it has pieces.
LEMMA ChunksCount ==
  ASSUME NEW d \in Docs
  PROVE  IsFiniteSet(Chunks(d)) /\ Cardinality(Chunks(d)) = Pieces[d]
<1> DEFINE f == [i \in 1 .. Pieces[d] |-> <<d, i>>]
<1>1. Pieces[d] \in Nat
  BY ChunkFacts
<1>2. IsFiniteSet(1 .. Pieces[d]) /\ Cardinality(1 .. Pieces[d]) = Pieces[d]
  <2>1. ASSUME NEW n \in Nat PROVE IsFiniteSet(1 .. n) /\ Cardinality(1 .. n) = n
    <3>1. 1 \in Int /\ n \in Int
      OBVIOUS
    <3>2. IsFiniteSet(1 .. n) /\ Cardinality(1 .. n) = IF 1 > n THEN 0 ELSE n - 1 + 1
      BY <3>1, FS_Interval, Zenon
    <3> QED
      BY <3>2
  <2> QED
    BY <1>1, <2>1
<1>3. f \in [1 .. Pieces[d] -> Chunks(d)]
  BY DEF Chunks
<1>4. \A i, j \in 1 .. Pieces[d] : f[i] = f[j] => i = j
  OBVIOUS
<1>5. \A c \in Chunks(d) : \E i \in 1 .. Pieces[d] : f[i] = c
  BY DEF Chunks
<1>6. ExistsBijection(1 .. Pieces[d], Chunks(d))
  BY <1>3, <1>4, <1>5 DEF ExistsBijection, Bijection, Injection, Surjection, IsInjective
<1> QED
  BY <1>2, <1>6, FS_Bijection

\* When as many chunks of a source were counted as its one document has pieces,
\* they are all its chunks.
LEMMA AllCounted ==
  ASSUME NEW K \in SUBSET AllChunks, IsFiniteSet(K), NEW d \in Docs,
         \A c \in K : c[1][1] = d[1] => c[1] = d,
         Cardinality(Of(K, d[1])) >= Pieces[d]
  PROVE  Chunks(d) \subseteq K
<1> DEFINE T == Of(K, d[1])
<1>1. T \subseteq K /\ T \subseteq Chunks(d)
  <2>1. \A c \in T : c \in AllChunks /\ c[1] = d
    BY DEF Of
  <2>2. \A c \in T : c = <<d, c[2]>> /\ c[2] \in 1 .. Pieces[d]
    BY <2>1, ChunkFacts
  <2> QED
    BY <2>2 DEF Of, Chunks
<1>2. IsFiniteSet(Chunks(d)) /\ Cardinality(Chunks(d)) = Pieces[d] /\ Pieces[d] \in Nat
  BY ChunksCount, ChunkFacts
<1>3. IsFiniteSet(T) /\ Cardinality(T) <= Pieces[d] /\ (Cardinality(Chunks(d)) = Cardinality(T) => Chunks(d) = T)
  BY <1>1, <1>2, FS_Subset
<1>4. Cardinality(T) \in Nat
  BY <1>3, FS_CardinalityType
<1> QED
  BY <1>1, <1>2, <1>3, <1>4

\* One more chunk is counted.
LEMMA OneMore ==
  ASSUME NEW K, IsFiniteSet(K), NEW c, c \notin K, NEW s
  PROVE  /\ IsFiniteSet(K \cup {c})
         /\ c[1][1] = s => Cardinality(Of(K \cup {c}, s)) = Cardinality(Of(K, s)) + 1
         /\ c[1][1] # s => Cardinality(Of(K \cup {c}, s)) = Cardinality(Of(K, s))
         /\ Cardinality(Of(K, s)) \in Nat
<1>1. IsFiniteSet(Of(K, s))
  BY FS_Subset DEF Of
<1>2. CASE c[1][1] = s
  <2>1. Of(K \cup {c}, s) = Of(K, s) \cup {c} /\ c \notin Of(K, s)
    BY <1>2 DEF Of
  <2> QED
    BY <1>1, <1>2, <2>1, FS_AddElement, FS_CardinalityType
<1>3. CASE c[1][1] # s
  <2>1. Of(K \cup {c}, s) = Of(K, s)
    BY <1>3 DEF Of
  <2> QED
    BY <1>1, <1>3, <2>1, FS_AddElement, FS_CardinalityType
<1> QED
  BY <1>2, <1>3

\* A run reads a file once, and a document is in one place.
OneVersion ==
  /\ \A d, e \in seen : d[1] = e[1] => d = e
  /\ \A d \in seen : d[1] \notin toVisit
  /\ Neat(DocLines, Lanes(Parsers), Docs)
  /\ \A d : d \in AllOf(DocLines) => d \in seen
  /\ \A s \in Sources : progress[s].sealed => progress[s].doc \in seen

\* The chunks in K are those that were counted as put: they are in the index,
\* nowhere on the way, and as many of each source as the checkpoint counted.  A
\* chunk was cut from a document that was read, and is behind the place where
\* the chunk task is in it.
Behind(c) == chunker.pc = "emit" /\ chunker.doc = c[1] /\ c[2] \in 1 .. chunker.next - 1

Account(K) ==
  /\ IsFiniteSet(K) /\ K \subseteq sink
  /\ Neat(ChunkLines, Lanes(Embedders), AllChunks)
  /\ \A c : c \in AllOf(ChunkLines) => c \notin K
  /\ \A c : c \in K \/ c \in AllOf(ChunkLines) => c[1] \in seen /\ (c[1] \in AllOf(DocLines) => Behind(c))
  /\ \A s \in Sources : progress[s].actual = Cardinality(Of(K, s))
  /\ putter.pc = "record" => Range(putter.buf) \subseteq sink

\* What is about to be called done has all its chunks in the index.
Backed == \A x \in Writers : writer[x] # NoDoc => Chunks(writer[x]) \subseteq sink

StoreInv ==
  /\ mode # "dry" /\ OneVersion /\ Backed /\ DoneIsStored
  /\ \E K \in SUBSET AllChunks : Account(K)

\* All of it holds while there is nothing in memory.
LEMMA EmptyStore == TypeInv /\ Empty => OneVersion /\ Backed /\ Account({})
<1> SUFFICES ASSUME TypeInv, Empty PROVE OneVersion /\ Backed /\ Account({})
  OBVIOUS
<1>1. /\ Cutting = <<>> /\ \A w \in Parsers : Held[w] = <<>>
      /\ \A w \in Embedders : Batches[w] = <<>>
      /\ raw = <<>> /\ parsed = <<>> /\ chunked = <<>> /\ embedded = <<>> /\ putter.buf = <<>>
      /\ putter.pc = "recv" /\ seen = {}
  BY DEF Empty, Cutting, Held, Batches, Parser0, Chunker0, Embedder0, Putter0
<1>2. /\ IsLay(DocLines, Parsers, Docs, <<>>, <<>>, <<>>, Held)
      /\ IsLay(ChunkLines, Embedders, AllChunks, <<>>, <<>>, <<>>, Batches)
  BY <1>1, LinesAreLaid
<1>3. /\ Neat(DocLines, Lanes(Parsers), Docs) /\ \A y : y \notin AllOf(DocLines)
      /\ Neat(ChunkLines, Lanes(Embedders), AllChunks) /\ \A y : y \notin AllOf(ChunkLines)
  BY <1>1, <1>2, EmptyLay
<1>4. \A s \in Sources : ~progress[s].sealed /\ progress[s].actual = 0
  BY DEF Empty, Progress0
<1>5. OneVersion
  BY <1>1, <1>3, <1>4 DEF OneVersion
<1>6. Backed
  BY DEF Backed, Empty, Writer0
<1>7. \A s \in Sources : Of({}, s) = {}
  BY DEF Of
<1>8. IsFiniteSet({}) /\ Cardinality({}) = 0
  BY FS_EmptySet
<1>9. Account({})
  BY <1>1, <1>3, <1>4, <1>7, <1>8 DEF Account
<1> QED
  BY <1>5, <1>6, <1>9

\* Where the documents are after a step.
LEMMA DocStep ==
  ASSUME TypeInv, OneVersion, Works
  PROVE  /\ Neat(DocLines', Lanes(Parsers), Docs)
         /\ \A d : d \in AllOf(DocLines') => d \in AllOf(DocLines) \/ (d \in seen' /\ d \notin seen)
         /\ StopAtCap \/ SealDoc => chunker.doc \in AllOf(DocLines) /\ chunker.doc \notin AllOf(DocLines')
         /\ EmitChunk => chunker.doc \in AllOf(DocLines)
<1> DEFINE L == DocLines
           Goes(M) == Neat(M, Lanes(Parsers), Docs) /\ \A d : d \in AllOf(M) => d \in AllOf(L)
<1>1. Neat(L, Lanes(Parsers), Docs) /\ IsLay(L, Parsers, Docs, raw, parsed, Cutting, Held)
  BY LinesAreLaid DEF OneVersion
<1>2. /\ First \in Lanes(Parsers) /\ Second \in Lanes(Parsers) /\ Third \in Lanes(Parsers)
      /\ \A w \in Parsers : Each(w) \in Lanes(Parsers)
      /\ L[First] = raw /\ L[Second] = parsed /\ L[Third] = Cutting /\ \A w \in Parsers : L[Each(w)] = Held[w]
  BY <1>1, LayFacts
<1> HIDE DEF L
<1>3. ASSUME NEW s \in Sources, Visit(s)
      PROVE  /\ Neat(L', Lanes(Parsers), Docs)
             /\ \A d : d \in AllOf(L') => d \in AllOf(L) \/ (d \in seen' /\ d \notin seen)
  <2> DEFINE x == <<s, content[s]>>
  <2>1. x \in Docs /\ x[1] = s /\ x \in seen' /\ s \in toVisit
    BY <1>3 DEF Visit, TypeInv, DiskTypes, Docs
  <2>2. x \notin seen /\ x \notin AllOf(L)
    BY <2>1 DEF OneVersion, L
  <2>3. L' = L \/ L' = Add(L, First, x)
    BY <1>3, DocMoves DEF L
  <2> HIDE DEF x
  <2> QED
    BY <1>1, <1>2, <2>1, <2>2, <2>3, PutLast
<1>4. Goes(L)
  BY <1>1
<1>5. ASSUME NEW w \in Parsers, Parse(w) PROVE Goes(L')
  <2>1. TakeRaw(w) => Goes(L')
    <3>1. raw # <<>> => Goes(Move(L, First, Each(w)))
      BY <1>1, <1>2, MoveFirst
    <3> QED
      BY <1>4, <3>1, DocMoves DEF L
  <2>2. SendParsed(w) => Goes(L')
    <3>1. Held[w] # <<>> => Goes(Move(L, Each(w), Second))
      BY <1>1, <1>2, MoveFirst
    <3>2. Goes(Drop(L, Each(w)))
      BY <1>1, <1>2, DropAll
    <3> QED
      BY <3>1, <3>2, DocMoves DEF L
  <2> QED
    BY <1>5, <2>1, <2>2 DEF Parse
<1>6. ReceiveParsed => Goes(L')
  <2>1. parsed # <<>> => Goes(Move(L, Second, Third))
    BY <1>1, <1>2, MoveFirst
  <2> QED
    BY <1>4, <2>1, DocMoves DEF L
<1>7. Panic => Goes(L')
  <2>1. Goes(Drop(L, Second))
    BY <1>1, <1>2, DropAll
  <2> QED
    BY <2>1, DocMoves DEF L
<1>8. Cutting = <<chunker.doc>> =>
        /\ Goes(Take(L, Third)) /\ chunker.doc \in AllOf(L) /\ chunker.doc \notin AllOf(Take(L, Third))
        /\ Goes(Drop(Take(L, Third), Second)) /\ chunker.doc \notin AllOf(Drop(Take(L, Third), Second))
  <2> SUFFICES ASSUME Cutting = <<chunker.doc>>
               PROVE  /\ Goes(Take(L, Third)) /\ chunker.doc \in AllOf(L) /\ chunker.doc \notin AllOf(Take(L, Third))
                      /\ Goes(Drop(Take(L, Third), Second)) /\ chunker.doc \notin AllOf(Drop(Take(L, Third), Second))
    OBVIOUS
  <2>1. Head(Cutting) = chunker.doc /\ Cutting # <<>>
    OBVIOUS
  <2>2. Goes(Take(L, Third)) /\ chunker.doc \in AllOf(L) /\ chunker.doc \notin AllOf(Take(L, Third))
    BY <1>1, <1>2, <2>1, TakeFirst
  <2>3. \A y : y \in AllOf(Drop(Take(L, Third), Second)) => y \in AllOf(Take(L, Third))
    BY <1>2, <2>2, DropAll
  <2>4. Neat(Drop(Take(L, Third), Second), Lanes(Parsers), Docs)
    BY <1>2, <2>2, DropAll
  <2> QED
    BY <2>2, <2>3, <2>4
<1>9. StopAtCap \/ SealDoc => Goes(L') /\ chunker.doc \in AllOf(L) /\ chunker.doc \notin AllOf(L')
  BY <1>8, DocMoves DEF L
<1>10. EmitChunk => Goes(L') /\ chunker.doc \in AllOf(L)
  <2>1. EmitChunk => Cutting = <<chunker.doc>>
    BY DEF EmitChunk, Cutting
  <2> QED
    BY <1>4, <1>8, <2>1, DocMoves DEF L
<1>11. StopWalk \/ (\E w \in Embedders : Embed(w)) \/ Put \/ (\E x \in Writers : AppendRecord(x)) => Goes(L')
  <2>1. StopWalk \/ (\E w \in Embedders : Embed(w)) \/ Put \/ (\E x \in Writers : AppendRecord(x))
          => UNCHANGED <<raw, parsed, chunker, parser>>
    BY DEF StopWalk, Embed, TakeLock, FillBatch, CloseBatch, CallProvider, SendEmbedded, Put, ReceiveEmbedded,
           FlushTimer, ClosePut, CallPut, CountPut, AppendRecord, WriteLine, WriteNewline, tasks, chans
  <2> QED
    BY <1>4, <2>1, DocMoves DEF L
<1> QED
  BY <1>3, <1>5, <1>6, <1>7, <1>9, <1>10, <1>11 DEF L, Works, Walk, Chunk

\* What the steps of a run leave alone.
LEMMA RunSteps ==
  Works => /\ UNCHANGED progress \/ SealDoc \/ CountPut
           /\ UNCHANGED writer \/ SealDoc \/ CountPut \/ \E x \in Writers : WriteLine(x) \/ WriteNewline(x)
           /\ UNCHANGED lines \/ \E x \in Writers : WriteLine(x) \/ WriteNewline(x)
           /\ UNCHANGED sink \/ CallPut
           /\ UNCHANGED <<seen, toVisit>> \/ StopWalk \/ \E s \in Sources : Visit(s)
           /\ UNCHANGED chunker \/ Chunk
           /\ UNCHANGED putter \/ Put
<1> SUFFICES ASSUME Works
             PROVE  /\ UNCHANGED progress \/ SealDoc \/ CountPut
                    /\ UNCHANGED writer \/ SealDoc \/ CountPut \/ \E x \in Writers : WriteLine(x) \/ WriteNewline(x)
                    /\ UNCHANGED lines \/ \E x \in Writers : WriteLine(x) \/ WriteNewline(x)
                    /\ UNCHANGED sink \/ CallPut
                    /\ UNCHANGED <<seen, toVisit>> \/ StopWalk \/ \E s \in Sources : Visit(s)
                    /\ UNCHANGED chunker \/ Chunk
                    /\ UNCHANGED putter \/ Put
  OBVIOUS
<1> DEFINE Quiet == UNCHANGED <<progress, writer, lines>>
<1> USE DEF checks, tasks
<1>1. Walk => Quiet /\ UNCHANGED <<sink, chunker, putter>>
  BY DEF Walk, Visit, StopWalk
<1>2. (\E w \in Parsers : Parse(w)) => Quiet /\ UNCHANGED <<sink, seen, toVisit, chunker, putter>>
  BY DEF Parse, TakeRaw, SendParsed
<1>3. ReceiveParsed \/ EmitChunk \/ StopAtCap \/ Panic => Quiet /\ UNCHANGED <<sink, seen, toVisit, putter>>
  BY DEF ReceiveParsed, EmitChunk, StopAtCap, Panic
<1>4. SealDoc => UNCHANGED <<lines, sink, seen, toVisit, putter>>
  BY DEF SealDoc
<1>5. (\E w \in Embedders : Embed(w)) => Quiet /\ UNCHANGED <<sink, seen, toVisit, chunker, putter>>
  BY DEF Embed, TakeLock, FillBatch, CloseBatch, CallProvider, SendEmbedded
<1>6. ReceiveEmbedded \/ FlushTimer \/ ClosePut => Quiet /\ UNCHANGED <<sink, seen, toVisit, chunker>>
  BY DEF ReceiveEmbedded, FlushTimer, ClosePut
<1>7. CallPut => Quiet /\ UNCHANGED <<seen, toVisit, chunker>>
  BY DEF CallPut
<1>8. CountPut => UNCHANGED <<lines, sink, seen, toVisit, chunker>>
  BY DEF CountPut
<1>9. \A x \in Writers : WriteLine(x) \/ WriteNewline(x)
                         => UNCHANGED <<progress, sink, seen, toVisit, chunker, putter>>
  BY DEF WriteLine, WriteNewline
<1> QED
  BY <1>1, <1>2, <1>3, <1>4, <1>5, <1>6, <1>7, <1>8, <1>9 DEF Works, Walk, Chunk, Put, AppendRecord

\* The index only grows, and holds a batch whose put succeeded.
LEMMA SinkGrows ==
  ASSUME TypeInv, mode # "dry"
  PROVE  /\ Works => sink \subseteq sink'
         /\ CallPut => \/ putter'.pc = "recv"
                       \/ putter'.buf = putter.buf /\ Range(putter.buf) \subseteq sink'
<1>1. putter.buf \in Seq(AllChunks) /\ putter \in [pc : {"recv", "put", "record", "gone"}, buf : Seq(AllChunks)]
  BY DEF TypeInv, PutterInv
<1>2. ASSUME CallPut PROVE sink \subseteq sink'
  BY <1>2 DEF CallPut
<1>3. ASSUME CallPut, putter'.pc # "recv"
      PROVE  putter'.buf = putter.buf /\ Range(putter.buf) \subseteq sink'
  <2>1. putter' = [putter EXCEPT !.pc = "record"] /\ sink' = sink \cup Range(SubSeq(putter.buf, 1, Len(putter.buf)))
    BY <1>3 DEF CallPut
  <2>2. SubSeq(putter.buf, 1, Len(putter.buf)) = putter.buf
    BY <1>1
  <2> QED
    BY <1>1, <2>1, <2>2
<1> QED
  BY <1>2, <1>3, RunSteps

\* A file is read once in a run.
LEMMA OneVersionStep ==
  ASSUME TypeInv, OneVersion, Works
  PROVE  OneVersion' /\ seen \subseteq seen'
<1>1. /\ Neat(DocLines', Lanes(Parsers), Docs)
      /\ \A d : d \in AllOf(DocLines') => d \in AllOf(DocLines) \/ (d \in seen' /\ d \notin seen)
      /\ SealDoc => chunker.doc \in AllOf(DocLines)
  BY DocStep
<1>2. /\ seen \subseteq seen'
      /\ \A d, e \in seen' : d[1] = e[1] => d = e
      /\ \A d \in seen' : d[1] \notin toVisit'
  <2>1. CASE UNCHANGED <<seen, toVisit>>
    BY <2>1 DEF OneVersion
  <2>2. CASE StopWalk
    BY <2>2 DEF OneVersion, StopWalk
  <2>3. ASSUME NEW s \in Sources, Visit(s)
        PROVE  /\ seen \subseteq seen'
               /\ \A d, e \in seen' : d[1] = e[1] => d = e
               /\ \A d \in seen' : d[1] \notin toVisit'
    <3> DEFINE x == <<s, content[s]>>
    <3>1. seen' = seen \cup {x} /\ x[1] = s /\ s \in toVisit /\ toVisit' = toVisit \ {s}
      BY <2>3 DEF Visit
    <3> HIDE DEF x
    <3> QED
      BY <3>1 DEF OneVersion
  <2> QED
    BY <2>1, <2>2, <2>3, RunSteps
<1>3. \A d : d \in AllOf(DocLines') => d \in seen'
  BY <1>1, <1>2 DEF OneVersion
<1>4. \A s \in Sources : progress'[s].sealed => progress'[s].doc \in seen'
  <2>a. CheckpointTypes
    BY DEF TypeInv
  <2>1. CASE UNCHANGED progress
    BY <1>2, <2>1 DEF OneVersion
  <2>2. CASE SealDoc
    <3>1. Seal(chunker.doc) /\ chunker.doc \in Docs /\ chunker.doc \in seen
      BY <1>1, <2>2 DEF SealDoc, TypeInv, ChunkerInv, OneVersion
    <3>2. PICK q \in Tally : progress' = [progress EXCEPT ![chunker.doc[1]] = q] /\ q.doc = chunker.doc
      BY <2>a, <3>1, SealFacts
    <3> QED
      BY <1>2, <2>a, <3>1, <3>2 DEF OneVersion, CheckpointTypes
  <2>3. CASE CountPut /\ ~UNCHANGED progress
    <3> DEFINE r == Head(putter.buf)[1][1]
    <3>1. RecordPut(r) /\ putter.buf # <<>>
      BY <2>3 DEF CountPut
    <3>2. r \in Sources
      BY <3>1, ChunkFacts DEF TypeInv, PutterInv
    <3> HIDE DEF r
    <3>3. PICK q \in Tally : /\ progress' = [progress EXCEPT ![r] = q]
                             /\ q.sealed = progress[r].sealed /\ q.doc = progress[r].doc
      BY <2>a, <3>1, <3>2, RecordPutFacts
    <3> QED
      BY <1>2, <2>a, <3>2, <3>3 DEF OneVersion, CheckpointTypes
  <2> QED
    BY <2>1, <2>2, <2>3, RunSteps
<1> QED
  BY <1>1, <1>2, <1>3, <1>4 DEF OneVersion

\* Where the chunks are after a step.
LEMMA ChunkStep ==
  ASSUME TypeInv, Works, Neat(ChunkLines, Lanes(Embedders), AllChunks),
         EmitChunk => <<chunker.doc, chunker.next>> \notin AllOf(ChunkLines)
  PROVE  /\ Neat(ChunkLines', Lanes(Embedders), AllChunks)
         /\ \A c : c \in AllOf(ChunkLines') => \/ c \in AllOf(ChunkLines)
                                               \/ EmitChunk /\ c = <<chunker.doc, chunker.next>>
         /\ CountPut /\ putter'.pc # "recv" =>
              /\ putter.buf # <<>> /\ Head(putter.buf) \in AllChunks
              /\ Head(putter.buf) \in AllOf(ChunkLines) /\ Head(putter.buf) \notin AllOf(ChunkLines')
<1> DEFINE L == ChunkLines
           x == <<chunker.doc, chunker.next>>
           Goes(M) == Neat(M, Lanes(Embedders), AllChunks) /\ \A c : c \in AllOf(M) => c \in AllOf(L)
<1>1. Neat(L, Lanes(Embedders), AllChunks) /\ IsLay(L, Embedders, AllChunks, chunked, embedded, putter.buf, Batches)
  BY LinesAreLaid
<1>2. /\ First \in Lanes(Embedders) /\ Second \in Lanes(Embedders) /\ Third \in Lanes(Embedders)
      /\ \A w \in Embedders : Each(w) \in Lanes(Embedders)
      /\ L[First] = chunked /\ L[Second] = embedded /\ L[Third] = putter.buf
      /\ \A w \in Embedders : L[Each(w)] = Batches[w]
  BY <1>1, LayFacts
<1>3. Goes(L)
  BY <1>1
<1>4. ASSUME EmitChunk
      PROVE  /\ Neat(L', Lanes(Embedders), AllChunks)
             /\ \A c : c \in AllOf(L') => c \in AllOf(L) \/ c = x
  <2>1. x \in AllChunks
    BY <1>4, ChunkFacts DEF EmitChunk, TypeInv, ChunkerInv
  <2>2. x \notin AllOf(L) /\ L' = Add(L, First, x)
    BY <1>4, ChunkMoves
  <2> HIDE DEF L, x
  <2> QED
    BY <1>1, <1>2, <2>1, <2>2, PutLast
<1> HIDE DEF L
<1>5. ASSUME NEW w \in Embedders, Embed(w) PROVE Goes(L')
  <2>1. chunked # <<>> => Goes(Move(L, First, Each(w)))
    BY <1>1, <1>2, MoveFirst
  <2>2. Goes(Drop(L, Each(w)))
    BY <1>1, <1>2, DropAll
  <2>3. Batches[w] # <<>> => Goes(Move(L, Each(w), Second))
    BY <1>1, <1>2, MoveFirst
  <2>4. \/ L' = L
        \/ L' = Drop(L, Each(w))
        \/ chunked # <<>> /\ L' = Move(L, First, Each(w))
        \/ Batches[w] # <<>> /\ L' = Move(L, Each(w), Second)
    <3> HIDE DEF L
    <3> USE DEF Embed
    <3> QED
      BY <1>5, ChunkMoves DEF L
  <2> QED
    BY <1>3, <2>1, <2>2, <2>3, <2>4
<1>6. ASSUME ReceiveEmbedded \/ FlushTimer \/ ClosePut \/ CallPut PROVE Goes(L')
  <2>1. embedded # <<>> => Goes(Move(L, Second, Third))
    BY <1>1, <1>2, MoveFirst
  <2>2. Goes(Drop(L, Third))
    BY <1>1, <1>2, DropAll
  <2>3. \/ L' = L
        \/ L' = Drop(L, Third)
        \/ embedded # <<>> /\ L' = Move(L, Second, Third)
    BY <1>6, ChunkMoves DEF L
  <2> QED
    BY <1>3, <2>1, <2>2, <2>3
<1>7. ASSUME CountPut
      PROVE  /\ Goes(L')
             /\ putter'.pc # "recv" =>
                  /\ putter.buf # <<>> /\ Head(putter.buf) \in AllChunks
                  /\ Head(putter.buf) \in AllOf(L) /\ Head(putter.buf) \notin AllOf(L')
  <2>1. putter.buf # <<>> =>
          /\ Goes(Take(L, Third))
          /\ Head(putter.buf) \in AllChunks
          /\ Head(putter.buf) \in AllOf(L) /\ Head(putter.buf) \notin AllOf(Take(L, Third))
    BY <1>1, <1>2, TakeFirst
  <2>2. \/ putter'.pc = "recv" /\ L' = L
        \/ putter.buf # <<>> /\ L' = Take(L, Third)
    BY <1>7, ChunkMoves DEF L
  <2> QED
    BY <1>3, <2>1, <2>2
<1>8. ASSUME \/ Walk \/ \E w \in Parsers : Parse(w)
             \/ ReceiveParsed \/ StopAtCap \/ Panic \/ SealDoc \/ \E y \in Writers : AppendRecord(y)
      PROVE  Goes(L')
  <2> USE DEF tasks, chans
  <2>1. Walk \/ (\E w \in Parsers : Parse(w)) => UNCHANGED <<chunked, embedded, embedder, putter>>
    BY DEF Walk, Visit, StopWalk, Parse, TakeRaw, SendParsed
  <2>2. ReceiveParsed \/ StopAtCap \/ Panic \/ SealDoc => UNCHANGED <<chunked, embedded, embedder, putter>>
    BY DEF ReceiveParsed, StopAtCap, Panic, SealDoc
  <2>3. (\E y \in Writers : AppendRecord(y)) => UNCHANGED <<chunked, embedded, embedder, putter>>
    BY DEF AppendRecord, WriteLine, WriteNewline
  <2>4. L' = L
    BY <1>8, <2>1, <2>2, <2>3, ChunkMoves DEF L
  <2> QED
    BY <1>3, <2>4
<1>9. \/ Walk \/ (\E w \in Parsers : Parse(w))
      \/ ReceiveParsed \/ StopAtCap \/ Panic \/ SealDoc \/ (\E y \in Writers : AppendRecord(y))
      \/ EmitChunk \/ (\E w \in Embedders : Embed(w))
      \/ ReceiveEmbedded \/ FlushTimer \/ ClosePut \/ CallPut \/ CountPut
  BY DEF Works, Chunk, Put
<1>10. /\ Neat(L', Lanes(Embedders), AllChunks)
       /\ \A c : c \in AllOf(L') => c \in AllOf(L) \/ (EmitChunk /\ c = x)
  BY <1>4, <1>5, <1>6, <1>7, <1>8, <1>9
<1> QED
  BY <1>7, <1>10 DEF L

\* The next chunk of a document is nowhere yet.
LEMMA NextIsNew ==
  ASSUME TypeInv, OneVersion, NEW K, Account(K), EmitChunk
  PROVE  <<chunker.doc, chunker.next>> \notin AllOf(ChunkLines) /\ <<chunker.doc, chunker.next>> \notin K
<1> DEFINE x == <<chunker.doc, chunker.next>>
<1>1. chunker.doc \in AllOf(DocLines)
  BY DocStep DEF Works, Chunk
<1>2. x[1] = chunker.doc /\ x[2] = chunker.next /\ chunker.next \in Nat
  BY DEF TypeInv, ChunkerInv
<1> HIDE DEF x
<1>3. ~Behind(x)
  BY <1>2 DEF Behind
<1> QED
  BY <1>1, <1>2, <1>3 DEF Account, x

\* The put task counts a chunk that the index holds.
LEMMA Counted ==
  ASSUME TypeInv, OneVersion, NEW K \in SUBSET AllChunks, Account(K), CountPut, putter'.pc # "recv",
         NEW J, J = K \cup {Head(putter.buf)}
  PROVE  /\ Head(putter.buf)[1][1] \in Sources /\ RecordPut(Head(putter.buf)[1][1])
         /\ J \in SUBSET AllChunks /\ IsFiniteSet(J) /\ J \subseteq sink
         /\ \A c : c \in AllOf(ChunkLines') => c \notin J
         /\ \A c : c \in J \/ c \in AllOf(ChunkLines') => c \in K \/ c \in AllOf(ChunkLines)
         /\ \A s \in Sources : progress'[s].actual = Cardinality(Of(J, s))
         /\ Range(putter'.buf) \subseteq sink
<1> DEFINE h == Head(putter.buf)
<1>1. /\ putter.buf # <<>> /\ h \in AllChunks /\ h \in AllOf(ChunkLines) /\ h \notin AllOf(ChunkLines')
      /\ \A c : c \in AllOf(ChunkLines') => c \in AllOf(ChunkLines)
  <2>1. Works
    BY DEF Works, Put
  <2>2. Neat(ChunkLines, Lanes(Embedders), AllChunks)
    BY DEF Account
  <2>3. EmitChunk => <<chunker.doc, chunker.next>> \notin AllOf(ChunkLines)
    BY NextIsNew
  <2>4. ~EmitChunk
    <3>1. chunker \in [pc : {"recv", "emit", "gone"}, doc : Docs \cup {NoDoc}, next : Nat, count : Nat] /\ chunker' = chunker
      BY DEF CountPut, TypeInv, ChunkerInv
    <3>2. ASSUME EmitChunk PROVE FALSE
      <4>1. chunker'.next = chunker.next + 1
        BY <3>1, <3>2 DEF EmitChunk
      <4> QED
        BY <3>1, <4>1
    <3> QED
      BY <3>2
  <2> QED
    BY <2>1, <2>2, <2>3, <2>4, ChunkStep
<1>2. putter.pc = "record" /\ RecordPut(h[1][1]) /\ putter'.buf = Tail(putter.buf)
  BY DEF CountPut, TypeInv, PutterInv
<1>3. h[1][1] \in Sources /\ putter.buf \in Seq(AllChunks)
  BY <1>1, ChunkFacts DEF TypeInv, PutterInv
<1>4. /\ IsFiniteSet(K) /\ K \subseteq sink /\ Range(putter.buf) \subseteq sink
      /\ \A c : c \in AllOf(ChunkLines) => c \notin K
      /\ \A s \in Sources : progress[s].actual = Cardinality(Of(K, s))
  BY <1>2 DEF Account
<1>5. h \in Range(putter.buf) /\ Range(Tail(putter.buf)) \subseteq Range(putter.buf)
  BY <1>1, <1>3 DEF Range
<1>6. h \notin K
  BY <1>1, <1>4
<1>7. ASSUME NEW s \in Sources PROVE progress'[s].actual = Cardinality(Of(J, s))
  <2>1. CheckpointTypes
    BY DEF TypeInv
  <2> DEFINE r == h[1][1]
  <2>2. PICK q \in Tally : progress' = [progress EXCEPT ![r] = q] /\ q.actual = progress[r].actual + 1
    BY <1>2, <1>3, <2>1, RecordPutFacts
  <2>3. /\ r = s => progress'[s].actual = progress[s].actual + 1
        /\ r # s => progress'[s].actual = progress[s].actual
    <3> HIDE DEF r
    <3> QED
      BY <1>3, <2>1, <2>2 DEF CheckpointTypes
  <2>4. J = K \cup {h}
    OBVIOUS
  <2>5. progress[s].actual = Cardinality(Of(K, s))
    BY <1>4
  <2>a. IsFiniteSet(K)
    BY <1>4
  <2> HIDE DEF h
  <2>6. /\ h[1][1] = s => Cardinality(Of(K \cup {h}, s)) = Cardinality(Of(K, s)) + 1
        /\ h[1][1] # s => Cardinality(Of(K \cup {h}, s)) = Cardinality(Of(K, s))
    BY <1>6, <2>a, OneMore, ZenonT(60)
  <2> QED
    BY <2>3, <2>4, <2>5, <2>6
<1>8. IsFiniteSet(J)
  BY <1>4, FS_AddElement
<1> QED
  BY <1>1, <1>2, <1>3, <1>4, <1>5, <1>7, <1>8

\* A chunk stays behind the place where the chunk task is.
LEMMA BehindStep ==
  ASSUME TypeInv, OneVersion, Works, NEW c, c[1] \in seen, c[1] \in AllOf(DocLines'),
         \/ c[1] \in AllOf(DocLines) => Behind(c)
         \/ EmitChunk /\ c = <<chunker.doc, chunker.next>>
  PROVE  Behind(c)'
<1>1. c[1] \in AllOf(DocLines)
  BY DocStep
<1>2. chunker \in [pc : {"recv", "emit", "gone"}, doc : Docs \cup {NoDoc}, next : Nat, count : Nat]
  BY DEF TypeInv, ChunkerInv
<1>3. CASE EmitChunk
  <2>1. /\ chunker.pc = "emit" /\ chunker'.pc = "emit" /\ chunker'.doc = chunker.doc
        /\ chunker'.next = chunker.next + 1
    BY <1>2, <1>3 DEF EmitChunk
  <2>2. c[1] = chunker.doc /\ (c[2] \in 1 .. chunker.next - 1 \/ c[2] = chunker.next)
    BY <1>1 DEF Behind
  <2>3. chunker.next \in Nat /\ chunker.next >= 1
    BY <2>1, ChunkFacts DEF TypeInv, ChunkerInv
  <2>4. c[2] \in 1 .. chunker'.next - 1
    BY <2>1, <2>2, <2>3
  <2> QED
    BY <2>1, <2>2, <2>4 DEF Behind
<1>4. CASE ~EmitChunk
  <2>1. Behind(c) /\ chunker.pc = "emit" /\ c[1] = chunker.doc
    BY <1>1, <1>4 DEF Behind
  <2>2. ~ReceiveParsed /\ ~Panic
    BY <2>1 DEF ReceiveParsed, Panic
  <2>3. ~StopAtCap /\ ~SealDoc
    BY <2>1, DocStep
  <2>4. UNCHANGED chunker
    BY <1>4, <2>2, <2>3, RunSteps DEF Chunk
  <2> QED
    BY <2>1, <2>4 DEF Behind
<1> QED
  BY <1>3, <1>4

\* K after a step: with the chunk that the step counts.
Recount(K) == IF CountPut /\ putter'.pc # "recv" THEN K \cup {Head(putter.buf)} ELSE K

\* Every step of the pipeline keeps the account.
LEMMA AccountStep ==
  ASSUME TypeInv, mode # "dry", OneVersion, NEW K \in SUBSET AllChunks, Account(K), Works, NEW J, J = Recount(K)
  PROVE  J \in SUBSET AllChunks /\ Account(J)'
<1> DEFINE counts == CountPut /\ putter'.pc # "recv"
           x == <<chunker.doc, chunker.next>>
<1>1. /\ IsFiniteSet(K) /\ K \subseteq sink /\ Neat(ChunkLines, Lanes(Embedders), AllChunks)
      /\ \A c : c \in AllOf(ChunkLines) => c \notin K
      /\ \A c : c \in K \/ c \in AllOf(ChunkLines) => c[1] \in seen /\ (c[1] \in AllOf(DocLines) => Behind(c))
      /\ \A s \in Sources : progress[s].actual = Cardinality(Of(K, s))
      /\ putter.pc = "record" => Range(putter.buf) \subseteq sink
  BY DEF Account
<1>2. EmitChunk => x \notin AllOf(ChunkLines) /\ x \notin K
  BY NextIsNew
<1>3. /\ Neat(ChunkLines', Lanes(Embedders), AllChunks)
      /\ \A c : c \in AllOf(ChunkLines') => c \in AllOf(ChunkLines) \/ (EmitChunk /\ c = x)
  BY <1>1, <1>2, ChunkStep
<1>a. J \in SUBSET AllChunks /\ J = IF counts THEN K \cup {Head(putter.buf)} ELSE K
  <2>1. ASSUME counts, NEW M, M = K \cup {Head(putter.buf)} PROVE M \in SUBSET AllChunks
    BY <2>1, Counted
  <2>2. counts => K \cup {Head(putter.buf)} \in SUBSET AllChunks
    BY <2>1
  <2> QED
    BY <2>2 DEF Recount
<1>4. /\ IsFiniteSet(J) /\ J \subseteq sink
      /\ \A c : c \in AllOf(ChunkLines') => c \notin J
      /\ \A c : c \in J \/ c \in AllOf(ChunkLines') => c \in K \/ c \in AllOf(ChunkLines) \/ (EmitChunk /\ c = x)
  <2>1. CASE counts
    BY <1>a, <2>1, Counted
  <2>2. CASE ~counts
    BY <1>1, <1>2, <1>3, <1>a, <2>2
  <2> QED
    BY <2>1, <2>2
<1>5. \A s \in Sources : progress'[s].actual = Cardinality(Of(J, s))
  <2>1. CASE counts
    BY <1>a, <2>1, Counted
  <2>2. CASE ~counts
    <3>1. ASSUME NEW s \in Sources PROVE progress'[s].actual = progress[s].actual
      <4>1. CASE UNCHANGED progress
        BY <4>1
      <4>2. CASE SealDoc
        <5>1. Seal(chunker.doc) /\ chunker.doc \in Docs /\ CheckpointTypes
          BY <4>2 DEF SealDoc, TypeInv, ChunkerInv
        <5>2. PICK q \in Tally : /\ progress' = [progress EXCEPT ![chunker.doc[1]] = q]
                                 /\ q.actual = progress[chunker.doc[1]].actual
          BY <5>1, SealFacts
        <5> QED
          BY <5>1, <5>2 DEF CheckpointTypes
      <4>3. CASE CountPut
        <5>1. putter \in [pc : {"recv", "put", "record", "gone"}, buf : Seq(AllChunks)]
          BY DEF TypeInv, PutterInv
        <5> QED
          BY <2>2, <4>3, <5>1 DEF CountPut
      <4> QED
        BY <4>1, <4>2, <4>3, RunSteps
    <3> QED
      BY <1>1, <1>a, <2>2, <3>1
  <2> QED
    BY <2>1, <2>2
<1>6. sink \subseteq sink'
  BY SinkGrows
<1>7. putter'.pc = "record" => Range(putter'.buf) \subseteq sink'
  <2>a. putter \in [pc : {"recv", "put", "record", "gone"}, buf : Seq(AllChunks)]
    BY DEF TypeInv, PutterInv
  <2>1. CASE UNCHANGED putter
    BY <1>1, <1>6, <2>1
  <2>2. CASE ReceiveEmbedded \/ FlushTimer \/ ClosePut
    BY <2>a, <2>2 DEF ReceiveEmbedded, FlushTimer, ClosePut
  <2>3. CASE CallPut
    BY <2>3, SinkGrows
  <2>4. CASE counts
    BY <1>6, <1>a, <2>4, Counted
  <2>5. CASE CountPut /\ ~counts
    BY <2>5
  <2> QED
    BY <2>1, <2>2, <2>3, <2>4, <2>5, RunSteps DEF Put
<1>8. seen \subseteq seen'
  BY OneVersionStep
<1> HIDE DEF counts
<1>9. \A c : c \in J \/ c \in AllOf(ChunkLines') => c[1] \in seen' /\ (c[1] \in AllOf(DocLines') => Behind(c)')
  <2> SUFFICES ASSUME NEW c, c \in J \/ c \in AllOf(ChunkLines')
               PROVE  c[1] \in seen' /\ (c[1] \in AllOf(DocLines') => Behind(c)')
    OBVIOUS
  <2>1. /\ c[1] \in seen
        /\ (c[1] \in AllOf(DocLines) => Behind(c)) \/ (EmitChunk /\ c = x)
    <3>1. CASE c \in K \/ c \in AllOf(ChunkLines)
      BY <1>1, <3>1
    <3>2. CASE EmitChunk /\ c = x
      <4>1. c[1] = chunker.doc /\ chunker.doc \in AllOf(DocLines)
        BY <3>2, DocStep
      <4> QED
        BY <3>2, <4>1 DEF OneVersion
    <3> QED
      BY <1>4, <3>1, <3>2
  <2> QED
    BY <1>8, <2>1, BehindStep
<1>10. Account(J)'
  BY <1>3, <1>4, <1>5, <1>6, <1>7, <1>9 DEF Account
<1> QED
  BY <1>a, <1>10

\* Whoever seals a document or counts its last chunk finds it whole.
LEMMA WholeIsCounted ==
  ASSUME TypeInv, OneVersion, NEW K \in SUBSET AllChunks, Account(K), Works, NEW J, J = Recount(K)
  PROVE  \A x \in Writers : writer'[x] # NoDoc => writer'[x] = writer[x] \/ Chunks(writer'[x]) \subseteq J
<1>a. CheckpointTypes /\ NoDoc \notin Docs
  BY PipelineConstants DEF TypeInv
<1>b. K \subseteq J
  BY DEF Recount
<1>c. /\ IsFiniteSet(K)
      /\ \A c \in K : c[1] \in seen
      /\ \A s \in Sources : progress[s].actual = Cardinality(Of(K, s))
  BY DEF Account
<1>1. CASE UNCHANGED writer
  BY <1>1
<1>2. CASE SealDoc
  <2>1. Seal(chunker.doc) /\ chunker.doc \in Docs /\ chunker.doc \in seen
    BY <1>2, DocStep DEF SealDoc, TypeInv, ChunkerInv, OneVersion
  <2>2. \/ writer' = writer
        \/ progress[chunker.doc[1]].actual >= Pieces[chunker.doc] /\ writer' = [writer EXCEPT !["chunk"] = chunker.doc]
    BY <1>a, <2>1, SealFacts
  <2>3. ASSUME progress[chunker.doc[1]].actual >= Pieces[chunker.doc] PROVE Chunks(chunker.doc) \subseteq J
    <3>1. chunker.doc[1] \in Sources /\ \A c \in K : c[1][1] = chunker.doc[1] => c[1] = chunker.doc
      BY <1>c, <2>1, ChunkFacts DEF OneVersion
    <3>2. Cardinality(Of(K, chunker.doc[1])) >= Pieces[chunker.doc]
      BY <1>c, <2>3, <3>1
    <3>3. Chunks(chunker.doc) \subseteq K
      BY <1>c, <2>1, <3>1, <3>2, AllCounted
    <3> QED
      BY <1>b, <3>3
  <2> QED
    BY <1>a, <2>1, <2>2, <2>3 DEF CheckpointTypes
<1>3. CASE CountPut /\ putter'.pc # "recv"
  <2> DEFINE r == Head(putter.buf)[1][1]
             e == progress[r].doc
  <2>1. J = K \cup {Head(putter.buf)}
    BY <1>3 DEF Recount
  <2>0. r \in Sources /\ RecordPut(r)
    BY <1>3, <2>1, Counted
  <2>2. /\ J \in SUBSET AllChunks /\ IsFiniteSet(J)
        /\ \A c \in J : c \in K \/ c \in AllOf(ChunkLines)
        /\ \A s \in Sources : progress'[s].actual = Cardinality(Of(J, s))
    BY <1>3, <2>1, Counted
  <2>3. \A c \in J : c[1] \in seen
    BY <2>2 DEF Account
  <2> HIDE DEF r
  <2>5. PICK q \in Tally : progress' = [progress EXCEPT ![r] = q] /\ q.actual = progress[r].actual + 1
    BY <1>a, <2>0, RecordPutFacts
  <2>6. progress'[r].actual = progress[r].actual + 1
    BY <1>a, <2>0, <2>5 DEF CheckpointTypes
  <2>7. \/ writer' = writer
        \/ /\ progress[r].sealed /\ progress[r].actual + 1 >= progress[r].expected
           /\ writer' = [writer EXCEPT !["put"] = e]
    BY <1>a, <2>0, RecordPutFacts
  <2>8. ASSUME progress[r].sealed, progress[r].actual + 1 >= progress[r].expected PROVE Chunks(e) \subseteq J
    <3>1. e \in Docs /\ e[1] = r /\ progress[r].expected = Pieces[e] /\ e \in seen
      BY <2>0, <2>8 DEF TypeInv, Sealing, OneVersion
    <3>2. \A c \in J : c[1][1] = e[1] => c[1] = e
      BY <2>3, <3>1 DEF OneVersion
    <3>3. Cardinality(Of(J, e[1])) >= Pieces[e]
      BY <2>0, <2>2, <2>6, <2>8, <3>1
    <3> HIDE DEF e
    <3>4. Chunks(e) \subseteq J
      BY <2>2, <3>1, <3>2, <3>3, AllCounted
    <3> QED
      BY <3>4
  <2> HIDE DEF e
  <2> QED
    BY <1>a, <2>7, <2>8 DEF CheckpointTypes
<1>4. CASE CountPut /\ putter'.pc = "recv"
  <2>1. putter \in [pc : {"recv", "put", "record", "gone"}, buf : Seq(AllChunks)]
    BY DEF TypeInv, PutterInv
  <2>2. UNCHANGED writer
    BY <1>4, <2>1 DEF CountPut
  <2> QED
    BY <1>1, <2>2
<1>5. ASSUME NEW x \in Writers, WriteLine(x) \/ WriteNewline(x)
      PROVE  \A y \in Writers : writer'[y] # NoDoc => writer'[y] = writer[y]
  <2>1. writer' = writer \/ writer' = [writer EXCEPT ![x] = NoDoc]
    BY <1>5 DEF WriteLine, WriteNewline
  <2> QED
    BY <1>a, <2>1 DEF CheckpointTypes
<1> QED
  BY <1>1, <1>2, <1>3, <1>4, <1>5, RunSteps

\* No step puts a document up for a record before all its chunks are in the index.
LEMMA BackedStep ==
  ASSUME TypeInv, mode # "dry", OneVersion, Backed, NEW K \in SUBSET AllChunks, Account(K), Works
  PROVE  Backed'
<1>1. PICK J : J = Recount(K)
  OBVIOUS
<1>2. Account(J)'
  BY <1>1, AccountStep
<1>3. J \subseteq sink'
  BY <1>2 DEF Account
<1>4. sink \subseteq sink'
  BY SinkGrows
<1>5. \A x \in Writers : writer'[x] # NoDoc => writer'[x] = writer[x] \/ Chunks(writer'[x]) \subseteq J
  BY <1>1, WholeIsCounted
<1> QED
  BY <1>3, <1>4, <1>5 DEF Backed

\* What the checkpoint file calls done is what it called done before, or the
\* record that a task appends: behind a piece or a record that has no newline, it
\* makes a line that does not parse.
LEMMA LoadedStep ==
  ASSUME DiskTypes, CheckpointTypes, NEW x \in Writers, WriteLine(x) \/ WriteNewline(x)
  PROVE  Loaded' \subseteq Loaded \cup {writer[x]}
<1> DEFINE n == Len(lines)
<1>1. n \in Nat /\ n \in DOMAIN lines /\ DOMAIN lines = 1 .. n /\ lines \in Seq(Seq(Docs \cup {NoDoc}))
  BY DEF DiskTypes
<1>2. \A i \in 1 .. n : Len(lines[i]) = 1 /\ Head(lines[i]) # NoDoc => Head(lines[i]) \in Loaded
  BY <1>1 DEF Loaded, Range
<1>3. \A d \in Loaded' : \E i \in DOMAIN lines' : Len(lines'[i]) = 1 /\ d = Head(lines'[i]) /\ d # NoDoc
  BY DEF Loaded, Range
<1>4. ASSUME NEW r \in {writer[x], NoDoc}, lines' = Extended(r) PROVE Loaded' \subseteq Loaded \cup {writer[x]}
  <2>1. r \in Docs \cup {NoDoc}
    BY DEF CheckpointTypes
  <2>2. /\ DOMAIN lines' = 1 .. n
        /\ \A i \in 1 .. n - 1 : lines'[i] = lines[i]
        /\ lines'[n] = Append(lines[n], r)
    BY <1>4, <2>1, ExtendFacts
  <2>3. lines[n] \in Seq(Docs \cup {NoDoc})
    BY <1>1
  <2>4. Len(lines'[n]) = 1 => Head(lines'[n]) = r
    <3>1. Len(Append(lines[n], r)) = 1 => Head(Append(lines[n], r)) = r
      BY <2>1, <2>3, PutAtEnd
    <3> QED
      BY <2>2, <3>1
  <2>5. \A i \in 1 .. n : i # n => i \in 1 .. n - 1
    BY LinesLen
  <2> HIDE DEF n
  <2> QED
    BY <1>2, <1>3, <2>2, <2>4, <2>5
<1>5. CASE lines' = Append(lines, <<>>)
  <2>1. /\ DOMAIN lines' = 1 .. n + 1 /\ Len(lines'[n + 1]) = 0
        /\ \A i \in 1 .. n : lines'[i] = lines[i]
    BY <1>1, <1>5
  <2>2. \A i \in 1 .. n + 1 : i = n + 1 \/ i \in 1 .. n
    BY <1>1
  <2> HIDE DEF n
  <2> QED
    BY <1>2, <1>3, <2>1, <2>2
<1>6. CASE lines' = lines
  BY <1>6 DEF Loaded
<1> QED
  BY <1>4, <1>5, <1>6 DEF WriteLine, WriteNewline

\* What a step that leaves the run alone does.
LEMMA StoreStill ==
  ASSUME OneVersion, Backed, DoneIsStored, NEW K, Account(K),
         UNCHANGED <<lines, sink, progress, chans, tasks, writer, seen>>, toVisit' = toVisit \/ seen = {}
  PROVE  OneVersion' /\ Backed' /\ Account(K)' /\ DoneIsStored'
<1>1. DocLines' = DocLines /\ ChunkLines' = ChunkLines
  <2> USE DEF tasks, chans
  <2>1. Cutting' = Cutting /\ Held' = Held /\ Batches' = Batches
    BY DEF Cutting, Held, Batches
  <2> QED
    BY <2>1 DEF DocLines, ChunkLines
<1>2. OneVersion'
  BY <1>1 DEF OneVersion
<1>3. Backed' /\ DoneIsStored'
  BY DEF Backed, DoneIsStored, Loaded
<1>4. Account(K)'
  <2>1. \A c : Behind(c)' <=> Behind(c)
    BY DEF Behind, tasks
  <2> QED
    BY <1>1, <2>1 DEF Account, tasks
<1> QED
  BY <1>2, <1>3, <1>4

\* Every step keeps the invariant.
LEMMA StoreStep ==
  ASSUME ~MayDryRun, TypeInv, StoreInv, TypeInv', [Next]_vars
  PROVE  StoreInv'
<1>a. mode # "dry" /\ OneVersion /\ Backed /\ DoneIsStored
  BY DEF StoreInv
<1>b. PICK K \in SUBSET AllChunks : Account(K)
  BY DEF StoreInv
<1>1. CASE Works
  <2>1. mode' = mode /\ OneVersion' /\ Backed' /\ \E J \in SUBSET AllChunks : Account(J)'
    <3>1. PICK J : J = Recount(K)
      OBVIOUS
    <3>2. J \in SUBSET AllChunks /\ Account(J)'
      BY <1>1, <1>a, <1>b, <3>1, AccountStep
    <3> QED
      BY <1>1, <1>a, <1>b, <3>2, Awake, OneVersionStep, BackedStep
  <2>2. sink \subseteq sink'
    BY <1>1, <1>a, SinkGrows
  <2>3. Loaded' \subseteq Loaded \/ \E x \in Writers : writer[x] # NoDoc /\ Loaded' \subseteq Loaded \cup {writer[x]}
    <3>1. CASE UNCHANGED lines
      BY <3>1 DEF Loaded
    <3>2. ASSUME NEW x \in Writers, WriteLine(x) \/ WriteNewline(x)
          PROVE  writer[x] # NoDoc /\ Loaded' \subseteq Loaded \cup {writer[x]}
      <4>1. writer[x] # NoDoc
        BY <3>2 DEF WriteLine, WriteNewline, Writers, TypeInv, Sealing
      <4> QED
        BY <3>2, <4>1, LoadedStep DEF TypeInv
    <3> QED
      BY <1>1, <3>1, <3>2, RunSteps
  <2>4. DoneIsStored'
    BY <1>a, <2>2, <2>3 DEF DoneIsStored, Backed
  <2> QED
    BY <1>a, <2>1, <2>4 DEF StoreInv
<1>2. CASE Finish \/ Kill
  <2>1. Forget
    BY <1>2 DEF Finish, Kill
  <2>2. Empty' /\ mode' = "none" /\ UNCHANGED <<lines, sink>>
    BY <2>1 DEF Forget, Empty, disk
  <2>3. OneVersion' /\ Backed' /\ Account({})'
    BY <2>2, EmptyStore, PTL
  <2>4. DoneIsStored'
    BY <1>a, <2>2 DEF DoneIsStored, Loaded
  <2> QED
    BY <2>2, <2>3, <2>4 DEF StoreInv
<1>3. CASE Start
  <2>1. mode = "none" /\ mode' = "put" /\ UNCHANGED <<lines, sink, progress, chans, tasks, writer, seen>>
    BY <1>3 DEF Start, disk
  <2>2. seen = {}
    BY <2>1 DEF TypeInv, Idle
  <2>3. OneVersion' /\ Backed' /\ Account(K)' /\ DoneIsStored'
    BY <1>a, <1>b, <2>1, <2>2, StoreStill
  <2> QED
    BY <2>1, <2>3 DEF StoreInv
<1>4. CASE UNCHANGED vars \/ \E s \in Sources : Edit(s)
  <2>1. UNCHANGED <<mode, lines, sink, progress, chans, tasks, writer, seen, toVisit>>
    BY <1>4 DEF Edit, vars, checks
  <2>2. OneVersion' /\ Backed' /\ Account(K)' /\ DoneIsStored'
    BY <1>a, <1>b, <2>1, StoreStill
  <2> QED
    BY <1>a, <2>1, <2>2 DEF StoreInv
<1> QED
  BY <1>1, <1>2, <1>3, <1>4 DEF Next, Works, Rest

\* However the chunk task and the put task race, whatever requests fail, files
\* change and runs are killed: a document that the checkpoint file calls done
\* has every one of its chunks in the index, if no run is a dry run.
THEOREM DoneIsSafe ==
  ASSUME ~MayDryRun
  PROVE  Spec => []DoneIsStored
<1>1. Init => StoreInv
  <2> SUFFICES ASSUME Init PROVE StoreInv
    OBVIOUS
  <2>1. TypeInv /\ Empty /\ mode = "none" /\ lines = << <<>> >>
    BY TypeInit DEF Init, Empty
  <2>2. OneVersion /\ Backed /\ Account({})
    BY <2>1, EmptyStore
  <2>3. DoneIsStored
    BY <2>1, LoadedFacts DEF DoneIsStored, Loaded, Range
  <2> QED
    BY <2>1, <2>2, <2>3 DEF StoreInv
<1>2. TypeInv /\ StoreInv /\ TypeInv' /\ [Next]_vars => StoreInv'
  BY StoreStep
<1>3. StoreInv => DoneIsStored
  BY DEF StoreInv
<1> QED
  BY <1>1, <1>2, <1>3, TypeInit, TypeStep, PTL DEF Spec

-----------------------------------------------------------------------------
(* A run that has drained calls exactly the whole documents done.          *)

\* What is dropped is nowhere else.
LEMMA DropFacts ==
  ASSUME NEW P, NEW X, NEW L, Neat(L, P, X), NEW p \in P
  PROVE  \A y : /\ y \in AllOf(L) <=> y \in AllOf(Drop(L, p)) \/ y \in Range(L[p])
                /\ y \in Range(L[p]) => y \notin AllOf(Drop(L, p))
<1> USE DEF Neat
<1> DEFINE M == Drop(L, p)
<1>1. M \in [P -> Seq(X)] /\ DOMAIN M[p] = {} /\ \A q \in P : q # p => M[q] = L[q]
  BY DEF Drop
<1>t. M = [L EXCEPT ![p] = <<>>]
  BY DEF Drop
<1> HIDE DEF M
<1>2. AllOf(M) \subseteq AllOf(L) /\ Range(L[p]) \subseteq AllOf(L)
  BY <1>1, <1>t DEF AllOf, Range
<1>3. ASSUME NEW y \in AllOf(L) PROVE y \in AllOf(M) \/ y \in Range(L[p])
  <2>1. PICK q \in P : y \in Range(L[q])
    BY DEF AllOf
  <2>2. q # p => y \in AllOf(M)
    BY <1>1, <2>1 DEF AllOf
  <2> QED
    BY <2>1, <2>2
<1>4. ASSUME NEW y \in Range(L[p]), y \in AllOf(M) PROVE FALSE
  <2>1. PICK q \in P : y \in Range(M[q])
    BY <1>1, <1>4 DEF AllOf
  <2>2. q # p
    BY <1>1, <2>1 DEF Range
  <2>3. PICK m \in DOMAIN L[p] : L[p][m] = y
    BY DEF Range
  <2>4. PICK n \in DOMAIN L[q] : L[q][n] = y
    BY <1>1, <2>1, <2>2 DEF Range
  <2> QED
    BY <2>2, <2>3, <2>4 DEF NoTwice
<1> QED
  BY <1>2, <1>3, <1>4 DEF M

\* Where the chunks go in a step: none disappears, and only one that a task
\* held is dropped.
LEMMA ChunkFlow ==
  ASSUME TypeInv, Works, Neat(ChunkLines, Lanes(Embedders), AllChunks),
         EmitChunk => <<chunker.doc, chunker.next>> \notin AllOf(ChunkLines)
  PROVE  /\ \A c : c \in AllOf(ChunkLines) =>
                     \/ c \in AllOf(ChunkLines') \/ c \in lost'
                     \/ CountPut /\ putter'.pc # "recv" /\ c = Head(putter.buf)
         /\ EmitChunk => <<chunker.doc, chunker.next>> \in AllOf(ChunkLines')
         /\ lost \subseteq lost'
         /\ \A c \in lost' \ lost : c \in AllOf(ChunkLines) /\ c \notin AllOf(ChunkLines')
         /\ EmitChunk \/ CountPut => lost' = lost
<1> DEFINE L == ChunkLines
           x == <<chunker.doc, chunker.next>>
           Stays == \A c : c \in AllOf(L) => c \in AllOf(L')
           Same == lost' = lost
<1>1. Neat(L, Lanes(Embedders), AllChunks) /\ IsLay(L, Embedders, AllChunks, chunked, embedded, putter.buf, Batches)
  BY LinesAreLaid
<1>2. /\ First \in Lanes(Embedders) /\ Second \in Lanes(Embedders) /\ Third \in Lanes(Embedders)
      /\ \A w \in Embedders : Each(w) \in Lanes(Embedders)
      /\ L[First] = chunked /\ L[Second] = embedded /\ L[Third] = putter.buf
      /\ \A w \in Embedders : L[Each(w)] = Batches[w]
  BY <1>1, LayFacts
<1>3. ASSUME EmitChunk PROVE Stays /\ x \in AllOf(L') /\ Same
  <2>1. x \in AllChunks
    BY <1>3, ChunkFacts DEF EmitChunk, TypeInv, ChunkerInv
  <2>2. x \notin AllOf(L) /\ L' = Add(L, First, x)
    BY <1>3, ChunkMoves
  <2>3. Same
    BY <1>3 DEF EmitChunk
  <2> HIDE DEF L, x
  <2> QED
    BY <1>1, <1>2, <2>1, <2>2, <2>3, PutLast
<1> HIDE DEF L
<1> DEFINE Loses(p) == L' = Drop(L, p) /\ lost' = lost \cup Range(L[p])
<1>4. ASSUME NEW p \in Lanes(Embedders), Loses(p)
      PROVE  /\ \A c : c \in AllOf(L) => c \in AllOf(L') \/ c \in lost'
             /\ \A c \in lost' \ lost : c \in AllOf(L) /\ c \notin AllOf(L')
             /\ lost \subseteq lost'
  <2>1. \A y : /\ y \in AllOf(L) <=> y \in AllOf(Drop(L, p)) \/ y \in Range(L[p])
               /\ y \in Range(L[p]) => y \notin AllOf(Drop(L, p))
    BY <1>1, DropFacts
  <2> QED
    BY <1>4, <2>1
<1>5. ASSUME NEW w \in Embedders, Embed(w) PROVE (Stays /\ Same) \/ Loses(Each(w))
  <2>1. chunked # <<>> => \A y : y \in AllOf(Move(L, First, Each(w))) <=> y \in AllOf(L)
    BY <1>1, <1>2, MoveFirst
  <2>2. Batches[w] # <<>> => \A y : y \in AllOf(Move(L, Each(w), Second)) <=> y \in AllOf(L)
    BY <1>1, <1>2, MoveFirst
  <2>3. CallProvider(w) => (L' = L /\ Same) \/ Loses(Each(w))
    <3> SUFFICES ASSUME CallProvider(w) PROVE (L' = L /\ Same) \/ Loses(Each(w))
      OBVIOUS
    <3>1. Batches[w] = embedder[w].batch
      BY DEF Batches
    <3>2. CASE embedder' = [embedder EXCEPT ![w].pc = "send"] /\ UNCHANGED lost
      <4>1. Batches' = Batches
        BY <3>2 DEF Batches, TypeInv, EmbedderInv
      <4>2. UNCHANGED <<chunked, embedded, putter>>
        BY DEF CallProvider, chans
      <4> QED
        BY <3>2, <4>1, <4>2 DEF L, ChunkLines
    <3>3. CASE /\ lost' = lost \cup Range(embedder[w].batch)
               /\ embedder' = [embedder EXCEPT ![w] = [pc |-> "recv", batch |-> <<>>]]
      <4>1. Batches' = [Batches EXCEPT ![w] = <<>>]
        BY <3>3 DEF Batches, TypeInv, EmbedderInv
      <4>2. UNCHANGED <<chunked, embedded, putter>>
        BY DEF CallProvider, chans
      <4>3. IsLay(Drop(L, Each(w)), Embedders, AllChunks, chunked, embedded, putter.buf, [Batches EXCEPT ![w] = <<>>])
        BY <1>1, LayMoves
      <4>4. L' = Lay(Embedders, chunked', embedded', (putter.buf)', Batches')
        BY DEF L, ChunkLines
      <4>5. L' = Drop(L, Each(w))
        BY <4>1, <4>2, <4>3, <4>4 DEF IsLay
      <4> QED
        BY <1>2, <3>1, <3>3, <4>5
    <3> QED
      BY <3>2, <3>3 DEF CallProvider
  <2>4. ~CallProvider(w) => /\ Same
                            /\ \/ L' = L
                               \/ chunked # <<>> /\ L' = Move(L, First, Each(w))
                               \/ Batches[w] # <<>> /\ L' = Move(L, Each(w), Second)
    <3>1. TakeLock(w) \/ FillBatch(w) \/ CloseBatch(w) \/ SendEmbedded(w) => Same
      BY DEF TakeLock, FillBatch, CloseBatch, SendEmbedded
    <3> QED
      BY <1>5, <3>1, ChunkMoves DEF Embed, L
  <2> QED
    BY <2>1, <2>2, <2>3, <2>4
<1>6. ASSUME ReceiveEmbedded \/ FlushTimer \/ ClosePut PROVE Stays /\ Same
  <2>1. embedded # <<>> => \A y : y \in AllOf(Move(L, Second, Third)) <=> y \in AllOf(L)
    BY <1>1, <1>2, MoveFirst
  <2>2. L' = L \/ (embedded # <<>> /\ L' = Move(L, Second, Third))
    BY <1>6, ChunkMoves DEF L
  <2>3. Same
    BY <1>6 DEF ReceiveEmbedded, FlushTimer, ClosePut
  <2> QED
    BY <2>1, <2>2, <2>3
<1>7. ASSUME CallPut PROVE (Stays /\ Same) \/ Loses(Third)
  <2>1. CASE putter' = [putter EXCEPT !.pc = "record"] /\ UNCHANGED lost
    <3>1. (putter.buf)' = putter.buf
      BY <2>1 DEF TypeInv, PutterInv
    <3>2. UNCHANGED <<chunked, embedded, embedder>>
      BY <1>7 DEF CallPut, chans
    <3> QED
      BY <2>1, <3>1, <3>2 DEF L, ChunkLines, Batches
  <2>2. CASE lost' = lost \cup Range(putter.buf) /\ putter' = [pc |-> "recv", buf |-> <<>>]
    <3>1. (putter.buf)' = <<>>
      BY <2>2
    <3>2. UNCHANGED <<chunked, embedded, embedder>>
      BY <1>7 DEF CallPut, chans
    <3>3. IsLay(Drop(L, Third), Embedders, AllChunks, chunked, embedded, <<>>, Batches)
      BY <1>1, LayMoves
    <3>4. L' = Lay(Embedders, chunked', embedded', (putter.buf)', Batches') /\ Batches' = Batches
      BY <3>2 DEF L, ChunkLines, Batches
    <3>5. L' = Drop(L, Third)
      BY <3>1, <3>2, <3>3, <3>4 DEF IsLay
    <3> QED
      BY <1>2, <2>2, <3>5
  <2> QED
    BY <1>7, <2>1, <2>2 DEF CallPut
<1>8. ASSUME CountPut
      PROVE  /\ Same
             /\ \A c : c \in AllOf(L) => c \in AllOf(L') \/ (putter'.pc # "recv" /\ c = Head(putter.buf))
  <2>1. putter.buf # <<>> => \A y : y \in AllOf(Take(L, Third)) <=> y \in AllOf(L) /\ y # Head(putter.buf)
    BY <1>1, <1>2, TakeFirst
  <2>2. \/ L' = L
        \/ putter.buf # <<>> /\ putter'.pc # "recv" /\ L' = Take(L, Third)
    <3>1. putter \in [pc : {"recv", "put", "record", "gone"}, buf : Seq(AllChunks)]
      BY DEF TypeInv, PutterInv
    <3>2. putter.buf # <<>> => putter'.pc # "recv"
      BY <1>8, <3>1 DEF CountPut
    <3> QED
      BY <1>8, <3>2, ChunkMoves DEF L
  <2>3. Same
    BY <1>8 DEF CountPut
  <2> QED
    BY <2>1, <2>2, <2>3
<1>9. ASSUME \/ Walk \/ \E w \in Parsers : Parse(w)
             \/ ReceiveParsed \/ StopAtCap \/ Panic \/ SealDoc \/ \E y \in Writers : AppendRecord(y)
      PROVE  Stays /\ Same
  <2> USE DEF tasks, chans
  <2>1. Walk \/ (\E w \in Parsers : Parse(w)) => UNCHANGED <<chunked, embedded, embedder, putter, lost>>
    BY DEF Walk, Visit, StopWalk, Parse, TakeRaw, SendParsed
  <2>2. ReceiveParsed \/ StopAtCap \/ Panic \/ SealDoc => UNCHANGED <<chunked, embedded, embedder, putter, lost>>
    BY DEF ReceiveParsed, StopAtCap, Panic, SealDoc
  <2>3. (\E y \in Writers : AppendRecord(y)) => UNCHANGED <<chunked, embedded, embedder, putter, lost>>
    BY DEF AppendRecord, WriteLine, WriteNewline
  <2>4. L' = L
    BY <1>9, <2>1, <2>2, <2>3, ChunkMoves DEF L
  <2> QED
    BY <1>9, <2>1, <2>2, <2>3, <2>4
<1>10. \/ Walk \/ (\E w \in Parsers : Parse(w))
       \/ ReceiveParsed \/ StopAtCap \/ Panic \/ SealDoc \/ (\E y \in Writers : AppendRecord(y))
       \/ EmitChunk \/ (\E w \in Embedders : Embed(w))
       \/ ReceiveEmbedded \/ FlushTimer \/ ClosePut \/ CallPut \/ CountPut
  BY DEF Works, Chunk, Put
<1>11. \/ Stays /\ Same
       \/ \E p \in Lanes(Embedders) : Loses(p)
       \/ /\ Same /\ CountPut
          /\ \A c : c \in AllOf(L) => c \in AllOf(L') \/ (putter'.pc # "recv" /\ c = Head(putter.buf))
  BY <1>2, <1>3, <1>5, <1>6, <1>7, <1>8, <1>9, <1>10
<1>12. /\ \A c : c \in AllOf(L) =>
                   \/ c \in AllOf(L') \/ c \in lost'
                   \/ CountPut /\ putter'.pc # "recv" /\ c = Head(putter.buf)
       /\ lost \subseteq lost'
       /\ \A c \in lost' \ lost : c \in AllOf(L) /\ c \notin AllOf(L')
  <2>1. CASE Stays /\ Same
    BY <2>1
  <2>2. CASE \E p \in Lanes(Embedders) : Loses(p)
    <3> HIDE DEF Loses
    <3> QED
      BY <1>4, <2>2
  <2>3. CASE /\ Same /\ CountPut
             /\ \A c : c \in AllOf(L) => c \in AllOf(L') \/ (putter'.pc # "recv" /\ c = Head(putter.buf))
    BY <2>3
  <2> QED
    BY <1>11, <2>1, <2>2, <2>3
<1> QED
  BY <1>3, <1>8, <1>12 DEF L, x

\* What is in a sequence, its first or the rest of it, and what is put at its end.
LEMMA RangeFacts ==
  ASSUME NEW X, NEW q \in Seq(X)
  PROVE  /\ \A d : d \in Range(q) => q # <<>> /\ (d = Head(q) \/ d \in Range(Tail(q)))
         /\ \A x \in X : /\ x \in Range(Append(q, x))
                         /\ \A d : d \in Range(q) => d \in Range(Append(q, x))
                        /\ \A d : d \in Range(Append(q, x)) => d \in Range(q) \/ d = x
<1>1. ASSUME NEW d \in Range(q) PROVE q # <<>> /\ (d = Head(q) \/ d \in Range(Tail(q)))
  <2>1. PICK n \in DOMAIN q : d = q[n]
    BY DEF Range
  <2>2. n \in 1 .. Len(q) /\ q # <<>> /\ (n # 1 => n - 1 \in DOMAIN Tail(q) /\ Tail(q)[n - 1] = d)
    BY <2>1
  <2> QED
    BY <2>1, <2>2 DEF Range
<1>2. ASSUME NEW x \in X
      PROVE  /\ x \in Range(Append(q, x))
             /\ \A d : d \in Range(q) => d \in Range(Append(q, x))
             /\ \A d : d \in Range(Append(q, x)) => d \in Range(q) \/ d = x
  <2>1. /\ Len(q) + 1 \in DOMAIN Append(q, x) /\ Append(q, x)[Len(q) + 1] = x
        /\ \A n \in DOMAIN q : n \in DOMAIN Append(q, x) /\ Append(q, x)[n] = q[n]
        /\ \A n \in DOMAIN Append(q, x) : Append(q, x)[n] = x \/ (n \in DOMAIN q /\ Append(q, x)[n] = q[n])
    OBVIOUS
  <2> QED
    BY <2>1 DEF Range
<1> QED
  BY <1>1, <1>2

\* The documents that are not cut up yet, by where they are.
DocAt(d) == \/ d \in Range(raw) \/ d \in Range(parsed)
            \/ chunker.pc = "emit" /\ d = chunker.doc
            \/ \E w \in Parsers : parser[w].pc = "send" /\ parser[w].doc = d

DocsListed == \A d : d \in AllOf(DocLines) <=> DocAt(d)

\* The two ways to say where a document is agree.
LEMMA DocsAre == TypeInv => DocsListed
<1> SUFFICES ASSUME TypeInv, NEW d PROVE d \in AllOf(DocLines) <=> DocAt(d)
  BY DEF DocsListed
<1> DEFINE L == DocLines
<1>1. IsLay(L, Parsers, Docs, raw, parsed, Cutting, Held)
  BY LinesAreLaid
<1>2. /\ L \in [Lanes(Parsers) -> Seq(Docs)]
      /\ L[First] = raw /\ L[Second] = parsed /\ L[Third] = Cutting /\ \A w \in Parsers : L[Each(w)] = Held[w]
  BY <1>1, LayFacts
<1> HIDE DEF L
<1>3. d \in AllOf(L) <=> \/ d \in Range(raw) \/ d \in Range(parsed) \/ d \in Range(Cutting)
                         \/ \E w \in Parsers : d \in Range(Held[w])
  BY <1>2 DEF AllOf, Lanes
<1>4. \A e : (d \in Range(<<e>>) <=> d = e) /\ d \notin Range(<<>>)
  BY DEF Range
<1>5. d \in Range(Cutting) <=> chunker.pc = "emit" /\ d = chunker.doc
  BY <1>4 DEF Cutting
<1>6. \A w \in Parsers : d \in Range(Held[w]) <=> parser[w].pc = "send" /\ parser[w].doc = d
  BY <1>4 DEF Held
<1> QED
  BY <1>3, <1>5, <1>6 DEF DocAt, L

\* The chunk task ended in the middle of a document.
CutShort == Gone(chunker) /\ chunker.doc # NoDoc

\* Where the documents go in a step: none disappears before it is cut up, unless it
\* does not parse or the chunk task is gone.
LEMMA DocFlow ==
  ASSUME TypeInv, Works
  PROVE  /\ \A d : DocAt(d) => \/ DocAt(d)'
                               \/ SealDoc /\ d = chunker.doc
                               \/ CutShort'
                               \/ \E w \in Parsers : SendParsed(w) /\ (d \in Unparsable \/ Gone(chunker))
         /\ \A s \in Sources : Visit(s) =>
              \E d : d = <<s, content[s]>> /\ seen' = seen \cup {d} /\ (d \in done \/ DocAt(d)')
         /\ \A d : DocAt(d)' => DocAt(d) \/ d \notin done
<1> DEFINE Stays == \A d : DocAt(d) => DocAt(d)'
           Comes == \A d : DocAt(d)' => DocAt(d) \/ d \notin done
<1>1. raw \in Seq(Docs) /\ parsed \in Seq(Docs) /\ ParserInv /\ ChunkerInv
  BY DEF TypeInv, ChannelTypes
<1>2. ASSUME NEW s \in Sources, Visit(s)
      PROVE  /\ Stays /\ Comes
             /\ \E d : d = <<s, content[s]>> /\ seen' = seen \cup {d} /\ (d \in done \/ DocAt(d)')
  <2>0. PICK d : d = <<s, content[s]>>
    OBVIOUS
  <2>1. UNCHANGED <<parsed, parser, chunker>> /\ seen' = seen \cup {d}
    BY <1>2, <2>0 DEF Visit, tasks
  <2>2. d \in Docs
    BY <2>0 DEF Docs, TypeInv, DiskTypes
  <2>3. (raw' = raw /\ d \in done) \/ (raw' = Append(raw, d) /\ d \notin done)
    BY <1>2, <2>0 DEF Visit
  <2>4. /\ d \in Range(Append(raw, d))
        /\ \A e : e \in Range(raw) => e \in Range(Append(raw, d))
        /\ \A e : e \in Range(Append(raw, d)) => e \in Range(raw) \/ e = d
    BY <1>1, <2>2, RangeFacts
  <2>5. Stays /\ Comes /\ (d \in done \/ DocAt(d)')
    BY <2>1, <2>3, <2>4 DEF DocAt
  <2> QED
    BY <2>0, <2>1, <2>5
<1>3. ASSUME NEW w \in Parsers, TakeRaw(w) PROVE Stays /\ Comes
  <2>1. UNCHANGED <<parsed, chunker>> /\ parser[w].pc = "recv"
    BY <1>3 DEF TakeRaw
  <2>2. CASE raw # <<>> /\ raw' = Tail(raw) /\ parser' = [parser EXCEPT ![w] = [pc |-> "send", doc |-> Head(raw)]]
    <3>1. parser'[w].pc = "send" /\ parser'[w].doc = Head(raw) /\ \A v \in Parsers : v # w => parser'[v] = parser[v]
      BY <1>1, <2>2 DEF ParserInv
    <3>2. \A d : d \in Range(raw) => d = Head(raw) \/ d \in Range(Tail(raw))
      BY <1>1, RangeFacts
    <3>3. Head(raw) \in Range(raw) /\ \A d : d \in Range(Tail(raw)) => d \in Range(raw)
      BY <1>1, <2>2 DEF Range
    <3> QED
      BY <2>1, <2>2, <3>1, <3>2, <3>3 DEF DocAt
  <2>3. CASE raw' = raw /\ parser' = [parser EXCEPT ![w].pc = "gone"]
    <3>1. parser'[w].pc = "gone" /\ \A v \in Parsers : v # w => parser'[v] = parser[v]
      BY <1>1, <2>3 DEF ParserInv
    <3> QED
      BY <2>1, <2>3, <3>1 DEF DocAt
  <2> QED
    BY <1>3, <2>2, <2>3 DEF TakeRaw
<1>4. ASSUME NEW w \in Parsers, SendParsed(w)
      PROVE  /\ Comes
             /\ \A d : DocAt(d) => DocAt(d)' \/ d \in Unparsable \/ Gone(chunker)
  <2> DEFINE d == parser[w].doc
  <2>1. UNCHANGED <<raw, chunker>> /\ parser[w].pc = "send" /\ d \in Docs
    BY <1>1, <1>4 DEF SendParsed, ParserInv
  <2>2. parser'[w].pc \in {"recv", "gone"} /\ \A v \in Parsers : v # w => parser'[v] = parser[v]
    BY <1>1, <1>4 DEF ParserInv, SendParsed
  <2>3. \/ parsed' = parsed /\ (d \in Unparsable \/ Gone(chunker))
        \/ parsed' = Append(parsed, d)
    BY <1>4 DEF SendParsed
  <2>4. /\ d \in Range(Append(parsed, d))
        /\ \A e : e \in Range(parsed) => e \in Range(Append(parsed, d))
        /\ \A e : e \in Range(Append(parsed, d)) => e \in Range(parsed) \/ e = d
    BY <1>1, <2>1, RangeFacts
  <2>5. \A e : DocAt(e) <=> \/ e = d \/ e \in Range(raw) \/ e \in Range(parsed)
                            \/ chunker.pc = "emit" /\ e = chunker.doc
                            \/ \E v \in Parsers \ {w} : parser[v].pc = "send" /\ parser[v].doc = e
    BY <2>1 DEF DocAt
  <2>6. \A e : DocAt(e)' <=> \/ e \in Range(raw) \/ e \in Range(parsed')
                             \/ chunker.pc = "emit" /\ e = chunker.doc
                             \/ \E v \in Parsers \ {w} : parser[v].pc = "send" /\ parser[v].doc = e
    BY <2>1, <2>2 DEF DocAt
  <2> HIDE DEF d
  <2> QED
    BY <2>3, <2>4, <2>5, <2>6
<1>5. ASSUME ReceiveParsed PROVE Stays /\ Comes
  <2>1. UNCHANGED <<raw, parser>> /\ chunker.pc = "recv"
    BY <1>5 DEF ReceiveParsed
  <2>2. CASE parsed # <<>> /\ parsed' = Tail(parsed)
             /\ chunker' = [chunker EXCEPT !.pc = "emit", !.doc = Head(parsed), !.next = 1]
    <3>1. chunker'.pc = "emit" /\ chunker'.doc = Head(parsed)
      BY <1>1, <2>2 DEF ChunkerInv
    <3>2. \A d : d \in Range(parsed) => d = Head(parsed) \/ d \in Range(Tail(parsed))
      BY <1>1, RangeFacts
    <3>3. Head(parsed) \in Range(parsed) /\ \A d : d \in Range(Tail(parsed)) => d \in Range(parsed)
      BY <1>1, <2>2 DEF Range
    <3> QED
      BY <2>1, <2>2, <3>1, <3>2, <3>3 DEF DocAt
  <2>3. CASE parsed' = parsed /\ chunker' = [chunker EXCEPT !.pc = "gone"]
    <3>1. chunker'.pc = "gone"
      BY <1>1, <2>3 DEF ChunkerInv
    <3> QED
      BY <2>1, <2>3, <3>1 DEF DocAt
  <2> QED
    BY <1>5, <2>2, <2>3 DEF ReceiveParsed
<1>6. ASSUME EmitChunk PROVE Stays /\ Comes
  <2>1. chunker'.pc = chunker.pc /\ chunker'.doc = chunker.doc /\ UNCHANGED <<raw, parsed, parser>>
    BY <1>1, <1>6 DEF EmitChunk, ChunkerInv
  <2> QED
    BY <2>1 DEF DocAt
<1>7. ASSUME StopAtCap \/ Panic PROVE CutShort' /\ Comes
  <2>1. /\ chunker'.pc = "gone" /\ chunker'.doc # NoDoc /\ UNCHANGED <<raw, parser>> /\ parsed' = <<>>
    <3>1. StopAtCap => chunker' = [chunker EXCEPT !.pc = "gone"] /\ chunker.doc # NoDoc
      BY <1>1, PipelineConstants DEF StopAtCap, ChunkerInv
    <3>2. Panic => chunker' = [chunker EXCEPT !.pc = "gone", !.doc = Head(parsed)] /\ Head(parsed) # NoDoc
      BY <1>1, PipelineConstants DEF Panic
    <3>3. UNCHANGED <<raw, parser>> /\ parsed' = <<>>
      BY <1>7 DEF StopAtCap, Panic
    <3> QED
      BY <1>1, <1>7, <3>1, <3>2, <3>3 DEF ChunkerInv
  <2>2. \A d : d \notin Range(<<>>)
    BY DEF Range
  <2> QED
    BY <2>1, <2>2 DEF DocAt, CutShort, Gone
<1>8. ASSUME SealDoc PROVE Comes /\ \A d : DocAt(d) => DocAt(d)' \/ d = chunker.doc
  <2>1. chunker'.pc = "recv" /\ UNCHANGED <<raw, parsed, parser>>
    BY <1>1, <1>8 DEF SealDoc, ChunkerInv, chans
  <2> QED
    BY <2>1 DEF DocAt
<1>9. ASSUME StopWalk \/ (\E w \in Embedders : Embed(w)) \/ Put \/ (\E x \in Writers : AppendRecord(x))
      PROVE  Stays /\ Comes
  <2>1. UNCHANGED <<raw, parsed, chunker, parser>>
    BY <1>9 DEF StopWalk, Embed, TakeLock, FillBatch, CloseBatch, CallProvider, SendEmbedded, Put, ReceiveEmbedded,
           FlushTimer, ClosePut, CallPut, CountPut, AppendRecord, WriteLine, WriteNewline, tasks, chans
  <2> QED
    BY <2>1 DEF DocAt
<1>10. \/ \E s \in Sources : Visit(s)
       \/ \E w \in Parsers : TakeRaw(w) \/ SendParsed(w)
       \/ ReceiveParsed \/ EmitChunk \/ StopAtCap \/ Panic \/ SealDoc
       \/ StopWalk \/ (\E w \in Embedders : Embed(w)) \/ Put \/ (\E x \in Writers : AppendRecord(x))
  BY DEF Works, Walk, Parse, Chunk
<1>11. Comes
  BY <1>2, <1>3, <1>4, <1>5, <1>6, <1>7, <1>8, <1>9, <1>10
<1>12. \/ Stays \/ CutShort'
       \/ SealDoc /\ \A d : DocAt(d) => DocAt(d)' \/ d = chunker.doc
       \/ \E w \in Parsers : SendParsed(w) /\ \A d : DocAt(d) => DocAt(d)' \/ d \in Unparsable \/ Gone(chunker)
  BY <1>2, <1>3, <1>4, <1>5, <1>6, <1>7, <1>8, <1>9, <1>10
<1> QED
  BY <1>2, <1>11, <1>12

\* A chunk was counted, is on its way or was dropped.
Somewhere(c, K) == c \in K \/ c \in AllOf(ChunkLines) \/ c \in lost

\* What was dropped is nowhere else, and was cut from a document like the rest.
Apart(K) ==
  \A c \in lost : /\ c \notin K /\ c \notin AllOf(ChunkLines)
                  /\ c[1] \in seen /\ (DocAt(c[1]) => Behind(c))

\* Of a document that is done, or about to be, all chunks were counted, or it was
\* done before the run and is not touched.
Untouched(d, K) == ~DocAt(d) /\ \A c : Somewhere(c, K) => c[1] # d
Owed(K) ==
  /\ \A d \in done : Chunks(d) \subseteq K \/ Untouched(d, K)
  /\ \A x \in Writers : writer[x] # NoDoc => Chunks(writer[x]) \subseteq K

\* Of a document that is sealed all chunks were cut, and of one being cut up all
\* behind the place where the chunk task is.
Sealed(d) == progress[d[1]].sealed /\ progress[d[1]].doc = d
Whole(K) ==
  /\ \A d \in Docs : Sealed(d) => ~DocAt(d) /\ \A c \in Chunks(d) : Somewhere(c, K)
  /\ chunker.pc = "emit" => \A n \in 1 .. chunker.next - 1 : Somewhere(<<chunker.doc, n>>, K)

\* A sealed document whose chunks were counted is marked as written by the one or
\* the other task, and what is marked is done, about to be, or was not written.
Noted ==
  \A s \in Sources :
    /\ progress[s].written => progress[s].sealed
    /\ progress[s].sealed /\ progress[s].actual >= progress[s].expected => progress[s].written
    /\ progress[s].written => \/ progress[s].doc \in done \cup unwritten
                             \/ \E x \in Writers : writer[x] = progress[s].doc

\* What was read and parses is done, on its way to the chunk task or sealed.
Followed == \A d \in seen \ Unparsable : d \in done \/ DocAt(d) \/ Sealed(d) \/ CutShort

\* Who is gone left nothing behind.
Closed ==
  /\ (\E w \in Parsers : Gone(parser[w])) => (raw = <<>> /\ toVisit = {}) \/ CutShort
  /\ Gone(chunker) => (parsed = <<>> /\ ParsersGone) \/ CutShort
  /\ (\E w \in Embedders : Gone(embedder[w])) => chunked = <<>> /\ Gone(chunker)
  /\ Gone(putter) => embedded = <<>> /\ EmbeddersGone /\ putter.buf = <<>>

DrainInv ==
  /\ Noted /\ Followed /\ Closed
  /\ \E K \in SUBSET AllChunks : Account(K) /\ Apart(K) /\ Owed(K) /\ Whole(K)

\* The chunks are counted, on their way or dropped after a step if they were before;
\* only the one that is cut in the step is new.
LEMMA FlowStep ==
  ASSUME TypeInv, TypeInv', mode # "dry", OneVersion, NEW K \in SUBSET AllChunks, Account(K), Apart(K), Works,
         NEW J, J = Recount(K)
  PROVE  /\ K \subseteq J /\ Apart(J)'
         /\ \A c : Somewhere(c, K) => Somewhere(c, J)'
         /\ \A c : Somewhere(c, J)' => Somewhere(c, K) \/ (EmitChunk /\ c = <<chunker.doc, chunker.next>>)
         /\ \A c : EmitChunk /\ c = <<chunker.doc, chunker.next>> => Somewhere(c, J)'
         /\ EmitChunk => DocAt(chunker.doc)
<1> DEFINE x == <<chunker.doc, chunker.next>>
           counts == CountPut /\ putter'.pc # "recv"
<1>1. /\ Neat(ChunkLines, Lanes(Embedders), AllChunks)
      /\ \A c : c \in AllOf(ChunkLines) => c \notin K
      /\ \A c : c \in K \/ c \in AllOf(ChunkLines) => c[1] \in seen /\ (c[1] \in AllOf(DocLines) => Behind(c))
  BY DEF Account
<1>2. EmitChunk => x \notin AllOf(ChunkLines) /\ x \notin K
  BY NextIsNew
<1>3. /\ \A d : d \in AllOf(DocLines) <=> DocAt(d)
      /\ \A d : d \in AllOf(DocLines') <=> DocAt(d)'
  <2>1. DocsListed /\ DocsListed'
    BY DocsAre, PTL
  <2> QED
    BY <2>1 DEF DocsListed
<1>4. EmitChunk => DocAt(chunker.doc)
  BY DEF EmitChunk, DocAt
<1>5. EmitChunk => x \notin lost
  <2>1. EmitChunk => x[1] = chunker.doc /\ ~Behind(x)
    BY DEF Behind, TypeInv, ChunkerInv
  <2> QED
    BY <1>4, <2>1 DEF Apart
<1>6. /\ \A c : c \in AllOf(ChunkLines') => c \in AllOf(ChunkLines) \/ (EmitChunk /\ c = x)
      /\ counts => Head(putter.buf) \in AllOf(ChunkLines) /\ Head(putter.buf) \notin AllOf(ChunkLines')
  BY <1>1, <1>2, ChunkStep
<1>7. /\ \A c : c \in AllOf(ChunkLines) => c \in AllOf(ChunkLines') \/ c \in lost' \/ (counts /\ c = Head(putter.buf))
      /\ EmitChunk => x \in AllOf(ChunkLines')
      /\ lost \subseteq lost'
      /\ \A c \in lost' \ lost : c \in AllOf(ChunkLines) /\ c \notin AllOf(ChunkLines')
      /\ EmitChunk \/ CountPut => lost' = lost
  BY <1>1, <1>2, ChunkFlow
<1>8. /\ K \subseteq J
      /\ counts => J = K \cup {Head(putter.buf)}
      /\ ~counts => J = K
  BY DEF Recount
<1>9. seen \subseteq seen'
  BY OneVersionStep
<1> HIDE DEF x, counts
<1>10. ASSUME NEW c \in lost'
       PROVE  /\ c \notin J /\ c \notin AllOf(ChunkLines')
              /\ c[1] \in seen' /\ (DocAt(c[1])' => Behind(c)')
  <2>1. c \notin J /\ c \notin AllOf(ChunkLines')
    <3>1. CASE c \in lost
      <4>1. c \notin K /\ c \notin AllOf(ChunkLines)
        BY <3>1 DEF Apart
      <4> QED
        BY <1>5, <1>6, <1>8, <3>1, <4>1
    <3>2. CASE c \notin lost
      <4>1. c \in AllOf(ChunkLines) /\ c \notin AllOf(ChunkLines') /\ ~counts
        BY <1>7, <3>2 DEF counts
      <4> QED
        BY <1>1, <1>8, <4>1
    <3> QED
      BY <3>1, <3>2
  <2>2. c[1] \in seen /\ (DocAt(c[1]) => Behind(c))
    <3>1. CASE c \in lost
      BY <3>1 DEF Apart
    <3>2. CASE c \notin lost
      BY <1>1, <1>3, <1>7, <3>2
    <3> QED
      BY <3>1, <3>2
  <2>3. DocAt(c[1])' => Behind(c)'
    BY <1>3, <2>2, BehindStep
  <2> QED
    BY <1>9, <2>1, <2>2, <2>3
<1>11. Apart(J)'
  BY <1>10 DEF Apart
<1>12. \A c : Somewhere(c, J)' <=> c \in J \/ c \in AllOf(ChunkLines') \/ c \in lost'
  BY DEF Somewhere
<1>13. \A c : Somewhere(c, K) => Somewhere(c, J)'
  BY <1>7, <1>8, <1>12 DEF Somewhere
<1>14. \A c : Somewhere(c, J)' => Somewhere(c, K) \/ (EmitChunk /\ c = x)
  BY <1>6, <1>7, <1>8, <1>12 DEF Somewhere
<1> QED
  BY <1>4, <1>7, <1>8, <1>11, <1>12, <1>13, <1>14 DEF x

\* What is done stays done while a run is going, and only records are added.
LEMMA DoneSteps ==
  Works => \/ UNCHANGED done
           \/ \E x \in Writers : WriteNewline(x) /\ done' = done \cup {writer[x]}
<1> USE DEF checks
<1>1. Walk \/ (\E w \in Parsers : Parse(w)) => UNCHANGED done
  BY DEF Walk, Visit, StopWalk, Parse, TakeRaw, SendParsed
<1>2. Chunk => UNCHANGED done
  BY DEF Chunk, ReceiveParsed, EmitChunk, StopAtCap, Panic, SealDoc
<1>3. (\E w \in Embedders : Embed(w)) => UNCHANGED done
  BY DEF Embed, TakeLock, FillBatch, CloseBatch, CallProvider, SendEmbedded
<1>4. Put => UNCHANGED done
  BY DEF Put, ReceiveEmbedded, FlushTimer, ClosePut, CallPut, CountPut
<1>5. \A x \in Writers : /\ WriteLine(x) => UNCHANGED done
                         /\ WriteNewline(x) => UNCHANGED done \/ done' = done \cup {writer[x]}
  BY DEF WriteLine, WriteNewline
<1> QED
  BY <1>1, <1>2, <1>3, <1>4, <1>5 DEF Works, AppendRecord

\* A run does not forget what it failed to append.
LEMMA UnwrittenSteps == Works => unwritten \subseteq unwritten'
<1> USE DEF checks
<1>1. Walk \/ (\E w \in Parsers : Parse(w)) => UNCHANGED unwritten
  BY DEF Walk, Visit, StopWalk, Parse, TakeRaw, SendParsed
<1>2. Chunk => UNCHANGED unwritten
  BY DEF Chunk, ReceiveParsed, EmitChunk, StopAtCap, Panic, SealDoc
<1>3. (\E w \in Embedders : Embed(w)) => UNCHANGED unwritten
  BY DEF Embed, TakeLock, FillBatch, CloseBatch, CallProvider, SendEmbedded
<1>4. Put => UNCHANGED unwritten
  BY DEF Put, ReceiveEmbedded, FlushTimer, ClosePut, CallPut, CountPut
<1>5. \A x \in Writers : WriteLine(x) \/ WriteNewline(x) => unwritten \subseteq unwritten'
  BY DEF WriteLine, WriteNewline
<1> QED
  BY <1>1, <1>2, <1>3, <1>4, <1>5 DEF Works, AppendRecord

\* What is called done stays counted, or untouched by the run.
LEMMA OwedStep ==
  ASSUME TypeInv, TypeInv', mode # "dry", OneVersion, NEW K \in SUBSET AllChunks, Account(K), Apart(K), Owed(K), Works,
         NEW J, J = Recount(K)
  PROVE  Owed(J)'
<1>1. /\ K \subseteq J
      /\ \A c : Somewhere(c, J)' => Somewhere(c, K) \/ (EmitChunk /\ c = <<chunker.doc, chunker.next>>)
      /\ EmitChunk => DocAt(chunker.doc)
  BY FlowStep
<1>2. \A x \in Writers : writer'[x] # NoDoc => Chunks(writer'[x]) \subseteq J
  BY <1>1, WholeIsCounted DEF Owed
<1>3. ASSUME NEW d \in done PROVE Chunks(d) \subseteq J \/ Untouched(d, J)'
  <2>1. CASE Chunks(d) \subseteq K
    BY <1>1, <2>1
  <2>2. CASE Untouched(d, K)
    <3>1. ~DocAt(d)'
      BY <2>2, DocFlow DEF Untouched
    <3>2. ASSUME NEW c, Somewhere(c, J)' PROVE c[1] # d
      BY <1>1, <2>2, <3>2 DEF Untouched
    <3> QED
      BY <3>1, <3>2 DEF Untouched
  <2> QED
    BY <2>1, <2>2 DEF Owed
<1>4. \A x \in Writers : WriteNewline(x) => Chunks(writer[x]) \subseteq J
  <2>1. \A x \in Writers : WriteNewline(x) => writer[x] # NoDoc
    BY DEF WriteNewline, Writers, TypeInv, Sealing
  <2> QED
    BY <1>1, <2>1 DEF Owed
<1>5. \A d \in done' : Chunks(d) \subseteq J \/ Untouched(d, J)'
  BY <1>3, <1>4, DoneSteps
<1> QED
  BY <1>2, <1>5 DEF Owed

\* A document is sealed by SealDoc and stays sealed.
LEMMA SealedSteps ==
  ASSUME TypeInv, OneVersion, Works
  PROVE  /\ \A d \in Docs : Sealed(d)' => Sealed(d) \/ (SealDoc /\ d = chunker.doc)
         /\ \A d \in Docs : Sealed(d) => Sealed(d)'
         /\ \A d : SealDoc /\ d = chunker.doc => d \in Docs /\ Sealed(d)'
         /\ \A d \in Docs : Sealed(d) => d \in seen
<1>a. CheckpointTypes
  BY DEF TypeInv
<1>b. \A d \in Docs : d[1] \in Sources
  BY ChunkFacts
<1>c. \A d \in Docs : Sealed(d) => d \in seen
  BY <1>b DEF Sealed, OneVersion
<1> DEFINE Same == \A d \in Docs : Sealed(d)' <=> Sealed(d)
<1>1. CASE UNCHANGED progress /\ ~SealDoc
  BY <1>1, <1>c DEF Sealed
<1>2. ASSUME SealDoc
      PROVE  \A e : e = chunker.doc =>
               /\ e \in Docs /\ Sealed(e)'
               /\ \A d \in Docs : Sealed(d)' => Sealed(d) \/ d = e
               /\ \A d \in Docs : Sealed(d) => Sealed(d)'
  <2>1. PICK e : e = chunker.doc
    OBVIOUS
  <2>2. e \in Docs /\ Seal(e) /\ e \in seen
    BY <1>2, <2>1, DocStep DEF SealDoc, TypeInv, ChunkerInv, OneVersion
  <2>3. PICK q \in Tally : progress' = [progress EXCEPT ![e[1]] = q] /\ q.sealed /\ q.doc = e
    BY <1>a, <2>2, SealFacts
  <2>4. /\ progress'[e[1]] = q
        /\ \A s \in Sources : s # e[1] => progress'[s] = progress[s]
    BY <1>a, <1>b, <2>2, <2>3 DEF CheckpointTypes
  <2>5. Sealed(e)'
    BY <2>3, <2>4 DEF Sealed
  <2>6. \A d \in Docs : Sealed(d)' => Sealed(d) \/ d = e
    BY <1>b, <2>3, <2>4 DEF Sealed
  <2>7. ASSUME NEW d \in Docs, Sealed(d) PROVE Sealed(d)'
    <3>1. CASE d[1] = e[1]
      <4>1. d = e
        BY <1>c, <2>2, <2>7, <3>1 DEF OneVersion
      <4> QED
        BY <2>5, <4>1
    <3>2. CASE d[1] # e[1]
      BY <1>b, <2>4, <2>7, <3>2 DEF Sealed
    <3> QED
      BY <3>1, <3>2
  <2> QED
    BY <2>1, <2>2, <2>5, <2>6, <2>7
<1>3. CASE CountPut /\ ~UNCHANGED progress
  <2> DEFINE r == Head(putter.buf)[1][1]
  <2>1. RecordPut(r) /\ putter.buf # <<>>
    BY <1>3 DEF CountPut
  <2>2. r \in Sources
    BY <2>1, ChunkFacts DEF TypeInv, PutterInv
  <2> HIDE DEF r
  <2>3. PICK q \in Tally : /\ progress' = [progress EXCEPT ![r] = q]
                           /\ q.sealed = progress[r].sealed /\ q.doc = progress[r].doc
    BY <1>a, <2>1, <2>2, RecordPutFacts
  <2>4. \A s \in Sources : progress'[s].sealed = progress[s].sealed /\ progress'[s].doc = progress[s].doc
    BY <1>a, <2>2, <2>3 DEF CheckpointTypes
  <2>5. Same
    BY <1>b, <2>4 DEF Sealed
  <2>6. ~SealDoc
    <3>1. UNCHANGED chunker
      BY <1>3 DEF CountPut
    <3>2. SealDoc => chunker.pc = "emit" /\ chunker'.pc = "recv"
      BY DEF SealDoc, TypeInv, ChunkerInv
    <3> QED
      BY <3>1, <3>2
  <2> QED
    BY <1>c, <2>5, <2>6
<1> QED
  BY <1>1, <1>2, <1>3, <1>c, RunSteps

\* Nothing that was cut gets out of sight.
LEMMA WholeStep ==
  ASSUME TypeInv, TypeInv', mode # "dry", OneVersion, NEW K \in SUBSET AllChunks, Account(K), Apart(K), Whole(K), Works,
         NEW J, J = Recount(K)
  PROVE  Whole(J)'
<1>1. /\ \A c : Somewhere(c, K) => Somewhere(c, J)'
      /\ \A c : EmitChunk /\ c = <<chunker.doc, chunker.next>> => Somewhere(c, J)'
  BY FlowStep
<1>2. DocsListed /\ DocsListed'
  BY DocsAre, PTL
<1>3. ASSUME NEW d \in Docs, Sealed(d)' PROVE ~DocAt(d)' /\ \A c \in Chunks(d) : Somewhere(c, J)'
  <2>1. CASE Sealed(d)
    <3>1. ~DocAt(d) /\ d \in seen /\ \A c \in Chunks(d) : Somewhere(c, K)
      BY <2>1, SealedSteps DEF Whole
    <3>2. ~DocAt(d)'
      BY <1>2, <3>1, DocStep DEF DocsListed
    <3> QED
      BY <1>1, <3>1, <3>2
  <2>2. CASE SealDoc /\ d = chunker.doc
    <3>1. ~DocAt(d)'
      BY <1>2, <2>2, DocStep DEF DocsListed
    <3>2. chunker.pc = "emit" /\ chunker.next > Pieces[d] /\ Pieces[d] \in Nat /\ chunker.next \in Nat
      BY <2>2, ChunkFacts DEF SealDoc, TypeInv, ChunkerInv
    <3>3. ASSUME NEW n \in 1 .. Pieces[d] PROVE Somewhere(<<d, n>>, K)
      <4>1. n \in 1 .. chunker.next - 1
        BY <3>2
      <4> QED
        BY <2>2, <3>2, <4>1 DEF Whole
    <3> QED
      BY <1>1, <3>1, <3>3 DEF Chunks
  <2> QED
    BY <1>3, <2>1, <2>2, SealedSteps
<1>4. ASSUME chunker'.pc = "emit", NEW n \in 1 .. chunker'.next - 1, NEW c, c = <<chunker'.doc, n>>
      PROVE  Somewhere(c, J)'
  <2>a. ChunkerInv
    BY DEF TypeInv
  <2>1. CASE UNCHANGED chunker
    BY <1>1, <1>4, <2>1 DEF Whole
  <2>2. CASE ReceiveParsed
    <3>1. chunker'.next = 1
      BY <1>4, <2>2, <2>a DEF ReceiveParsed, ChunkerInv
    <3> QED
      BY <1>4, <3>1
  <2>3. CASE EmitChunk
    <3>1. /\ chunker'.next = chunker.next + 1 /\ chunker'.doc = chunker.doc /\ chunker.pc = "emit"
          /\ chunker.next \in Nat
      BY <2>3, <2>a DEF EmitChunk, ChunkerInv
    <3>2. n \in 1 .. chunker.next - 1 \/ n = chunker.next
      BY <1>4, <3>1
    <3> QED
      BY <1>1, <1>4, <2>3, <3>1, <3>2 DEF Whole
  <2>4. ~StopAtCap /\ ~Panic /\ ~SealDoc
    BY <1>4, <2>a DEF StopAtCap, Panic, SealDoc, ChunkerInv
  <2> QED
    BY <2>1, <2>2, <2>3, <2>4, RunSteps DEF Chunk
<1>5. chunker'.pc = "emit" => \A n \in 1 .. chunker'.next - 1 : Somewhere(<<chunker.doc, n>>, J)'
  BY <1>4
<1> QED
  BY <1>3, <1>5 DEF Whole

\* The chunk task seals a source once.
LEMMA SealOnce ==
  ASSUME TypeInv, OneVersion, NEW K, Whole(K), SealDoc
  PROVE  ~progress[chunker.doc[1]].sealed
<1>1. chunker.pc = "emit" /\ chunker.doc \in Docs /\ chunker.doc[1] \in Sources /\ chunker.doc \in seen
  BY DocStep, ChunkFacts DEF SealDoc, TypeInv, ChunkerInv, OneVersion, Works, Chunk
<1>2. ASSUME progress[chunker.doc[1]].sealed PROVE FALSE
  <2>1. /\ progress[chunker.doc[1]].doc \in seen /\ progress[chunker.doc[1]].doc[1] = chunker.doc[1]
    BY <1>1, <1>2 DEF OneVersion, TypeInv, Sealing
  <2>2. Sealed(chunker.doc)
    BY <1>1, <1>2, <2>1 DEF Sealed, OneVersion
  <2> QED
    BY <1>1, <2>2 DEF Whole, DocAt
<1> QED
  BY <1>2

\* The task that completes a document writes its record.
LEMMA NotedStep ==
  ASSUME TypeInv, OneVersion, NEW K, Whole(K), Noted, Works
  PROVE  Noted'
<1>a. CheckpointTypes /\ NoDoc \notin Docs
  BY PipelineConstants DEF TypeInv
<1>b. done \cup unwritten \subseteq done' \cup unwritten'
  BY DoneSteps, UnwrittenSteps
<1>1. CASE UNCHANGED progress /\ UNCHANGED writer
  BY <1>1, <1>b DEF Noted
<1>2. ASSUME NEW x \in Writers, WriteLine(x) \/ WriteNewline(x), writer' # writer PROVE Noted'
  <2>1. UNCHANGED progress /\ writer[x] \in done' \cup unwritten' /\ writer' = [writer EXCEPT ![x] = NoDoc]
    BY <1>2 DEF WriteLine, WriteNewline
  <2>2. \A y \in Writers : y # x => writer'[y] = writer[y]
    BY <1>a, <2>1 DEF CheckpointTypes
  <2> QED
    BY <1>b, <2>1, <2>2 DEF Noted
<1>3. ASSUME NEW s \in Sources, progress[s].written, progress[s].doc \notin done' \cup unwritten'
      PROVE  \E x \in Writers : writer[x] = progress[s].doc /\ writer[x] # NoDoc
  <2>1. progress[s].sealed /\ progress[s].doc \in Docs
    BY <1>3 DEF Noted, TypeInv, Sealing
  <2> QED
    BY <1>a, <1>b, <1>3, <2>1 DEF Noted
<1>4. CASE SealDoc
  <2>1. PICK e : e = chunker.doc
    OBVIOUS
  <2>2. e \in Docs /\ e[1] \in Sources /\ Seal(e) /\ Pieces[e] \in Nat
    BY <1>4, <2>1, ChunkFacts DEF SealDoc, TypeInv, ChunkerInv
  <2>3. ~progress[e[1]].sealed /\ ~progress[e[1]].written
    BY <1>4, <2>1, <2>2, SealOnce DEF Noted
  <2>4. writer["chunk"] = NoDoc
    BY <1>4 DEF SealDoc, TypeInv, Sealing
  <2> DEFINE p == progress[e[1]]
             whole == p.actual >= Pieces[e] /\ ~p.written
             w == p.written \/ whole
             q == [p EXCEPT !.sealed = TRUE, !.expected = Pieces[e], !.doc = e, !.written = w]
  <2>5. p \in Tally /\ w \in BOOLEAN
    BY <1>a, <2>2 DEF CheckpointTypes, Tally
  <2>6. progress' = [progress EXCEPT ![e[1]] = q]
    BY <2>2 DEF Seal
  <2>7. IF whole THEN writer' = [writer EXCEPT !["chunk"] = e] ELSE writer' = writer
    BY <2>2 DEF Seal, AppendDone
  <2>a. (w <=> whole) /\ (w <=> p.actual >= Pieces[e])
    BY <2>3
  <2> HIDE DEF p, w
  <2>8. q.sealed = TRUE /\ q.doc = e /\ q.expected = Pieces[e] /\ q.actual = p.actual /\ q.written = w
    BY <2>5 DEF Tally
  <2> HIDE DEF q
  <2>9. progress'[e[1]] = q /\ \A s \in Sources : s # e[1] => progress'[s] = progress[s]
    BY <1>a, <2>2, <2>6 DEF CheckpointTypes
  <2>10. w => writer'["chunk"] = e /\ "chunk" \in Writers
    BY <1>a, <2>7, <2>a DEF CheckpointTypes, Writers
  <2>11. \A x \in Writers : writer[x] # NoDoc => writer'[x] = writer[x]
    BY <1>a, <2>4, <2>7 DEF CheckpointTypes, Writers
  <2> DEFINE Fine(s) ==
        /\ progress'[s].written => progress'[s].sealed
        /\ progress'[s].sealed /\ progress'[s].actual >= progress'[s].expected => progress'[s].written
        /\ progress'[s].written => progress'[s].doc \in done' \cup unwritten' \/ \E x \in Writers : writer'[x] = progress'[s].doc
  <2>12. Fine(e[1])
    BY <2>8, <2>9, <2>10, <2>a
  <2>13. ASSUME NEW s \in Sources, s # e[1] PROVE Fine(s)
    BY <1>3, <2>9, <2>11, <2>13 DEF Noted
  <2> HIDE DEF Fine
  <2>14. \A s \in Sources : Fine(s)
    BY <2>12, <2>13
  <2> QED
    BY <2>14 DEF Noted, Fine
<1>5. CASE CountPut /\ ~UNCHANGED <<progress, writer>>
  <2> DEFINE r == Head(putter.buf)[1][1]
  <2>1. RecordPut(r) /\ putter.buf # <<>> /\ writer["put"] = NoDoc
    BY <1>5 DEF CountPut
  <2>2. r \in Sources
    BY <2>1, ChunkFacts DEF TypeInv, PutterInv
  <2> HIDE DEF r
  <2> DEFINE p == progress[r]
             n == p.actual + 1
             whole == p.sealed /\ n >= p.expected /\ ~p.written
             w == p.written \/ whole
             q == [p EXCEPT !.actual = n, !.written = w]
  <2>3. p \in Tally /\ n \in Nat /\ w \in BOOLEAN
    BY <1>a, <2>2 DEF CheckpointTypes, Tally
  <2>4. progress' = [progress EXCEPT ![r] = q]
    BY <2>1 DEF RecordPut
  <2>5. IF whole THEN writer' = [writer EXCEPT !["put"] = p.doc] ELSE writer' = writer
    BY <2>1 DEF RecordPut, AppendDone
  <2>6. /\ p.written => p.sealed
        /\ whole => p.sealed
    BY <2>2 DEF Noted
  <2>7. w <=> p.written \/ (p.sealed /\ n >= p.expected)
    OBVIOUS
  <2> HIDE DEF p, n, w
  <2>8. q.doc = p.doc /\ q.expected = p.expected /\ q.actual = n
    BY <2>3 DEF Tally
  <2>9. q.sealed = p.sealed /\ q.written = w
    BY <2>3, Zenon DEF Tally
  <2> HIDE DEF q
  <2>10. progress'[r] = q /\ \A s \in Sources : s # r => progress'[s] = progress[s]
    BY <1>a, <2>2, <2>4 DEF CheckpointTypes
  <2>11. whole => writer'["put"] = p.doc /\ "put" \in Writers
    BY <1>a, <2>5 DEF CheckpointTypes, Writers
  <2>12. \A x \in Writers : writer[x] # NoDoc => writer'[x] = writer[x]
    BY <1>a, <2>1, <2>5 DEF CheckpointTypes, Writers
  <2> DEFINE Fine(s) ==
        /\ progress'[s].written => progress'[s].sealed
        /\ progress'[s].sealed /\ progress'[s].actual >= progress'[s].expected => progress'[s].written
        /\ progress'[s].written => progress'[s].doc \in done' \cup unwritten' \/ \E x \in Writers : writer'[x] = progress'[s].doc
  <2>13. Fine(r)
    <3>1. w => p.sealed
      BY <2>6, <2>7
    <3>2. p.sealed /\ n >= p.expected => w
      BY <2>7
    <3>3. w => p.doc \in done' \cup unwritten' \/ \E x \in Writers : writer'[x] = p.doc
      <4>1. CASE whole
        BY <2>11, <4>1
      <4>2. ASSUME p.written PROVE p.doc \in done' \cup unwritten' \/ \E x \in Writers : writer'[x] = p.doc
        BY <1>3, <2>2, <2>12, <4>2 DEF p
      <4> QED
        BY <2>7, <4>1, <4>2
    <3> HIDE DEF whole
    <3> QED
      BY <2>8, <2>9, <2>10, <3>1, <3>2, <3>3
  <2>14. ASSUME NEW s \in Sources, s # r PROVE Fine(s)
    BY <1>3, <2>10, <2>12, <2>14 DEF Noted
  <2> HIDE DEF Fine
  <2>15. \A s \in Sources : Fine(s)
    BY <2>13, <2>14
  <2> QED
    BY <2>15 DEF Noted, Fine
<1>6. (\E x \in Writers : WriteLine(x) \/ WriteNewline(x)) => Noted' \/ UNCHANGED <<progress, writer>>
  BY <1>2 DEF WriteLine, WriteNewline
<1> QED
  BY <1>1, <1>4, <1>5, <1>6, RunSteps

\* A task that is gone does nothing any more.
LEMMA GoneSteps ==
  ASSUME TypeInv, Works
  PROVE  /\ Gone(chunker) => UNCHANGED chunker /\ ~Chunk
         /\ \A w \in Parsers : Gone(parser[w]) => ~Parse(w) /\ parser'[w] = parser[w]
         /\ \A w \in Embedders : Gone(embedder[w]) => ~Embed(w) /\ embedder'[w] = embedder[w]
         /\ Gone(putter) => UNCHANGED putter /\ ~Put
         /\ UNCHANGED parser \/ \E w \in Parsers : Parse(w)
         /\ UNCHANGED embedder \/ \E w \in Embedders : Embed(w)
<1> USE DEF tasks
<1>1. UNCHANGED parser \/ \E w \in Parsers : Parse(w)
  BY DEF Works, Walk, Visit, StopWalk, Chunk, ReceiveParsed, EmitChunk, StopAtCap, Panic, SealDoc, Embed, TakeLock,
         FillBatch, CloseBatch, CallProvider, SendEmbedded, Put, ReceiveEmbedded, FlushTimer, ClosePut, CallPut,
         CountPut, AppendRecord, WriteLine, WriteNewline
<1>2. UNCHANGED embedder \/ \E w \in Embedders : Embed(w)
  BY DEF Works, Walk, Visit, StopWalk, Parse, TakeRaw, SendParsed, Chunk, ReceiveParsed, EmitChunk, StopAtCap, Panic,
         SealDoc, Put, ReceiveEmbedded, FlushTimer, ClosePut, CallPut, CountPut, AppendRecord, WriteLine, WriteNewline
<1>3. Gone(chunker) => ~Chunk
  BY DEF Gone, Chunk, ReceiveParsed, EmitChunk, StopAtCap, Panic, SealDoc
<1>4. Gone(putter) => ~Put
  BY DEF Gone, Put, ReceiveEmbedded, FlushTimer, ClosePut, CallPut, CountPut
<1>5. ASSUME NEW w \in Parsers, Gone(parser[w]) PROVE ~Parse(w) /\ parser'[w] = parser[w]
  <2>1. ~Parse(w)
    BY <1>5 DEF Gone, Parse, TakeRaw, SendParsed
  <2>2. \A v \in Parsers : v # w /\ Parse(v) => parser'[w] = parser[w]
    BY DEF Parse, TakeRaw, SendParsed, TypeInv, ParserInv
  <2> QED
    BY <1>1, <2>1, <2>2
<1>6. ASSUME NEW w \in Embedders, Gone(embedder[w]) PROVE ~Embed(w) /\ embedder'[w] = embedder[w]
  <2>1. ~Embed(w)
    BY <1>6 DEF Gone, Embed, TakeLock, FillBatch, CloseBatch, CallProvider, SendEmbedded, Filling
  <2>2. \A v \in Embedders : v # w /\ Embed(v) => embedder'[w] = embedder[w]
    BY DEF Embed, TakeLock, FillBatch, CloseBatch, CallProvider, SendEmbedded, TypeInv, EmbedderInv
  <2> QED
    BY <1>2, <2>1, <2>2
<1> QED
  BY <1>1, <1>2, <1>3, <1>4, <1>5, <1>6, RunSteps

\* A chunk task that ended inside of a document stays there.
LEMMA CutShortStays ==
  ASSUME TypeInv, Works, CutShort
  PROVE  CutShort'
  BY GoneSteps DEF CutShort

\* A document that was read and parses stays followed until it is sealed.
LEMMA FollowedStep ==
  ASSUME TypeInv, OneVersion, Followed, Closed, Works
  PROVE  Followed'
<1>1. done \subseteq done'
  BY DoneSteps
<1>2. CutShort => CutShort'
  BY CutShortStays
<1>3. \A w \in Parsers : SendParsed(w) /\ Gone(chunker) => CutShort
  BY DEF SendParsed, Closed, ParsersGone, Gone
<1>4. seen \subseteq Docs
  BY DEF TypeInv, RunTypes
<1>5. ASSUME NEW d \in seen, d \notin Unparsable PROVE d \in done' \/ DocAt(d)' \/ Sealed(d)' \/ CutShort'
  <2>1. Sealed(d) => Sealed(d)'
    BY <1>4, SealedSteps
  <2>2. SealDoc /\ d = chunker.doc => Sealed(d)'
    BY SealedSteps
  <2>3. CASE DocAt(d)
    BY <1>2, <1>3, <1>5, <2>2, <2>3, DocFlow
  <2>4. CASE d \in done \/ Sealed(d) \/ CutShort
    BY <1>1, <1>2, <2>1, <2>4
  <2> QED
    BY <1>5, <2>3, <2>4 DEF Followed
<1>6. ASSUME NEW d \in seen', d \notin seen PROVE d \in done' \/ DocAt(d)'
  <2>1. PICK s \in Sources : Visit(s)
    BY <1>6, RunSteps DEF StopWalk
  <2>2. PICK e : e = <<s, content[s]>> /\ seen' = seen \cup {e} /\ (e \in done \/ DocAt(e)')
    BY <2>1, DocFlow
  <2>3. d = e
    BY <1>6, <2>2
  <2> QED
    BY <1>1, <2>2, <2>3
<1> QED
  BY <1>5, <1>6 DEF Followed

\* A task ends only behind those that feed it, and nothing comes after.
LEMMA ClosedStep ==
  ASSUME TypeInv, Closed, Works
  PROVE  Closed'
<1>a. ParserInv /\ ChunkerInv /\ EmbedderInv /\ PutterInv
  BY DEF TypeInv
<1>b. CutShort => CutShort'
  BY CutShortStays
<1>1. (\E w \in Parsers : Gone(parser[w])') => (raw = <<>> /\ toVisit = {})' \/ CutShort'
  <2>1. ASSUME NEW w \in Parsers, Gone(parser[w])', ~Gone(parser[w])
        PROVE  (raw = <<>> /\ toVisit = {})' \/ CutShort'
    <3>1. PICK v \in Parsers : Parse(v)
      BY <2>1, GoneSteps DEF Gone
    <3>2. CASE TakeRaw(v)
      <4>1. w = v /\ parser'[v].pc = "gone"
        BY <1>a, <2>1, <3>2 DEF TakeRaw, Gone, ParserInv
      <4>2. raw = <<>> /\ toVisit = {} /\ raw' = raw /\ toVisit' = toVisit
        BY <1>a, <3>2, <4>1 DEF TakeRaw, ParserInv
      <4> QED
        BY <4>2
    <3>3. CASE SendParsed(v)
      <4>1. w = v /\ parser'[v].pc = "gone"
        BY <1>a, <2>1, <3>3 DEF SendParsed, Gone, ParserInv
      <4>2. Gone(chunker) /\ parser[v].pc = "send"
        BY <1>a, <3>3, <4>1 DEF SendParsed, ParserInv
      <4>3. CutShort
        BY <4>2 DEF Closed, ParsersGone, Gone
      <4> QED
        BY <1>b, <4>3
    <3> QED
      BY <3>1, <3>2, <3>3 DEF Parse
  <2>2. ASSUME raw = <<>>, toVisit = {} PROVE (raw = <<>> /\ toVisit = {})'
    <3>1. \A s \in Sources : ~Visit(s)
      BY <2>2 DEF Visit
    <3>2. toVisit' = toVisit
      BY <2>2, <3>1, RunSteps DEF StopWalk
    <3>3. raw' = raw
      <4>1. StopWalk \/ Put \/ (\E w \in Embedders : Embed(w)) \/ (\E x \in Writers : AppendRecord(x)) => raw' = raw
        BY DEF StopWalk, Embed, TakeLock, FillBatch, CloseBatch, CallProvider, SendEmbedded, Put, ReceiveEmbedded,
               FlushTimer, ClosePut, CallPut, CountPut, AppendRecord, WriteLine, WriteNewline, chans
      <4>2. Chunk \/ (\E w \in Parsers : Parse(w)) => raw' = raw
        BY <2>2 DEF Parse, TakeRaw, SendParsed, Chunk, ReceiveParsed, EmitChunk, StopAtCap, Panic, SealDoc, chans
      <4> QED
        BY <3>1, <4>1, <4>2 DEF Works, Walk
    <3> QED
      BY <2>2, <3>2, <3>3
  <2> QED
    BY <1>b, <2>1, <2>2 DEF Closed
<1>2. Gone(chunker)' => (parsed = <<>> /\ ParsersGone)' \/ CutShort'
  <2>1. CASE Gone(chunker) /\ ~CutShort
    <3>1. parsed = <<>> /\ ParsersGone
      BY <2>1 DEF Closed
    <3>2. ParsersGone' /\ \A w \in Parsers : ~Parse(w)
      BY <3>1, GoneSteps DEF ParsersGone
    <3>3. ~Chunk
      BY <2>1, GoneSteps
    <3>4. parsed' = parsed
      <4>1. Walk \/ Put \/ (\E w \in Embedders : Embed(w)) \/ (\E x \in Writers : AppendRecord(x)) => parsed' = parsed
        BY DEF Walk, Visit, StopWalk, Embed, TakeLock, FillBatch, CloseBatch, CallProvider, SendEmbedded, Put,
               ReceiveEmbedded, FlushTimer, ClosePut, CallPut, CountPut, AppendRecord, WriteLine, WriteNewline, chans
      <4> QED
        BY <3>2, <3>3, <4>1 DEF Works
    <3> QED
      BY <3>1, <3>2, <3>4
  <2>2. ASSUME ~Gone(chunker), Gone(chunker)'
        PROVE  (parsed = <<>> /\ ParsersGone)' \/ CutShort'
    <3>1. Chunk
      BY <2>2, RunSteps DEF Gone
    <3>2. CASE ReceiveParsed
      <4>1. parsed = <<>> /\ ParsersGone /\ UNCHANGED <<parsed, parser>>
        BY <1>a, <2>2, <3>2 DEF ReceiveParsed, Gone, ChunkerInv
      <4> QED
        BY <4>1 DEF ParsersGone
    <3>3. CASE StopAtCap \/ Panic
      <4>1. StopAtCap => chunker' = [chunker EXCEPT !.pc = "gone"] /\ chunker.doc # NoDoc
        BY <1>a, PipelineConstants DEF StopAtCap, ChunkerInv
      <4>2. Panic => chunker' = [chunker EXCEPT !.pc = "gone", !.doc = Head(parsed)] /\ Head(parsed) # NoDoc
        BY PipelineConstants DEF Panic, TypeInv, ChannelTypes
      <4> QED
        BY <1>a, <3>3, <4>1, <4>2 DEF CutShort, Gone, ChunkerInv
    <3>4. ~EmitChunk /\ ~SealDoc
      BY <1>a, <2>2 DEF EmitChunk, SealDoc, Gone, ChunkerInv
    <3> QED
      BY <3>1, <3>2, <3>3, <3>4 DEF Chunk
  <2> QED
    BY <1>b, <2>1, <2>2
<1>3. (\E w \in Embedders : Gone(embedder[w])') => chunked' = <<>> /\ Gone(chunker)'
  <2>1. ASSUME chunked = <<>>, Gone(chunker) PROVE chunked' = <<>> /\ Gone(chunker)'
    <3>1. ~Chunk /\ chunker' = chunker
      BY <2>1, GoneSteps
    <3>2. Walk \/ Put \/ (\E w \in Parsers : Parse(w)) \/ (\E x \in Writers : AppendRecord(x)) => chunked' = chunked
      BY DEF Walk, Visit, StopWalk, Parse, TakeRaw, SendParsed, Put, ReceiveEmbedded, FlushTimer, ClosePut, CallPut,
             CountPut, AppendRecord, WriteLine, WriteNewline, chans
    <3>3. (\E w \in Embedders : Embed(w)) => chunked' = chunked
      BY <2>1 DEF Embed, TakeLock, FillBatch, CloseBatch, CallProvider, SendEmbedded, chans
    <3> QED
      BY <2>1, <3>1, <3>2, <3>3 DEF Works
  <2>2. ASSUME NEW w \in Embedders, Gone(embedder[w])', ~Gone(embedder[w]) PROVE chunked = <<>> /\ Gone(chunker)
    <3>1. PICK v \in Embedders : Embed(v)
      BY <2>2, GoneSteps DEF Gone
    <3>2. CASE CloseBatch(v)
      BY <3>2 DEF CloseBatch
    <3>3. \A t : embedder' = [embedder EXCEPT ![v] = t] => t = embedder'[w]
      <4> SUFFICES ASSUME NEW t, embedder' = [embedder EXCEPT ![v] = t] PROVE t = embedder'[w]
        OBVIOUS
      <4>1. w # v => embedder'[w] = embedder[w]
        BY <1>a DEF EmbedderInv
      <4>2. w = v
        BY <2>2, <4>1 DEF Gone
      <4> QED
        BY <1>a, <4>2 DEF EmbedderInv
    <3>4. \A t : embedder' = [embedder EXCEPT ![v] = t] => t.pc = "gone"
      BY <2>2, <3>3 DEF Gone
    <3>5. ~TakeLock(v)
      <4> SUFFICES ASSUME TakeLock(v) PROVE FALSE
        OBVIOUS
      <4> DEFINE t == [embedder[v] EXCEPT !.pc = "fill"]
      <4>1. embedder' = [embedder EXCEPT ![v] = t]
        BY DEF TakeLock
      <4>2. t.pc = "fill"
        BY <1>a DEF EmbedderInv
      <4> HIDE DEF t
      <4> QED
        BY <3>4, <4>1, <4>2
    <3>6. ~FillBatch(v)
      <4> SUFFICES ASSUME FillBatch(v) PROVE FALSE
        OBVIOUS
      <4> DEFINE t == [pc |-> IF Len(Append(embedder[v].batch, Head(chunked))) = EmbedBatch THEN "call" ELSE "fill",
                       batch |-> Append(embedder[v].batch, Head(chunked))]
      <4>1. embedder' = [embedder EXCEPT ![v] = t]
        BY DEF FillBatch
      <4>2. t.pc # "gone"
        OBVIOUS
      <4> HIDE DEF t
      <4> QED
        BY <3>4, <4>1, <4>2
    <3>7. ~CallProvider(v)
      <4> SUFFICES ASSUME CallProvider(v) PROVE FALSE
        OBVIOUS
      <4> DEFINE t == [embedder[v] EXCEPT !.pc = "send"]
                 u == [pc |-> "recv", batch |-> <<>>]
      <4>1. embedder' = [embedder EXCEPT ![v] = t] \/ embedder' = [embedder EXCEPT ![v] = u]
        BY DEF CallProvider
      <4>2. t.pc = "send" /\ u.pc = "recv"
        BY <1>a DEF EmbedderInv
      <4> HIDE DEF t, u
      <4> QED
        BY <3>4, <4>1, <4>2
    <3>8. ~SendEmbedded(v)
      <4> SUFFICES ASSUME SendEmbedded(v) PROVE FALSE
        OBVIOUS
      <4> DEFINE t == [pc |-> IF Len(embedder[v].batch) = 1 THEN "recv" ELSE "send", batch |-> Tail(embedder[v].batch)]
      <4>1. embedder' = [embedder EXCEPT ![v] = t]
        BY DEF SendEmbedded
      <4>2. t.pc # "gone"
        OBVIOUS
      <4> HIDE DEF t
      <4> QED
        BY <3>4, <4>1, <4>2
    <3> QED
      BY <3>1, <3>2, <3>5, <3>6, <3>7, <3>8 DEF Embed
  <2> QED
    BY <2>1, <2>2 DEF Closed
<1>4. Gone(putter)' => embedded' = <<>> /\ EmbeddersGone' /\ (putter.buf)' = <<>>
  <2>1. CASE Gone(putter)
    <3>1. embedded = <<>> /\ EmbeddersGone /\ putter.buf = <<>> /\ UNCHANGED putter /\ ~Put
      BY <2>1, GoneSteps DEF Closed
    <3>2. EmbeddersGone' /\ \A w \in Embedders : ~Embed(w)
      BY <3>1, GoneSteps DEF EmbeddersGone
    <3>3. Walk \/ Chunk \/ (\E w \in Parsers : Parse(w)) \/ (\E x \in Writers : AppendRecord(x))
             => embedded' = embedded
      BY DEF Walk, Visit, StopWalk, Parse, TakeRaw, SendParsed, Chunk, ReceiveParsed, EmitChunk, StopAtCap, Panic,
             SealDoc, AppendRecord, WriteLine, WriteNewline, chans
    <3>4. embedded' = embedded
      BY <3>1, <3>2, <3>3 DEF Works
    <3> QED
      BY <3>1, <3>2, <3>4
  <2>2. ASSUME ~Gone(putter), Gone(putter)'
        PROVE  embedded' = <<>> /\ EmbeddersGone' /\ (putter.buf)' = <<>>
    <3>1. Put
      BY <2>2, RunSteps DEF Gone
    <3>2. CASE ClosePut
      <4>1. embedded = <<>> /\ EmbeddersGone /\ UNCHANGED <<embedded, embedder>>
        BY <3>2 DEF ClosePut, chans
      <4>2. putter.buf = <<>> /\ (putter.buf)' = putter.buf
        BY <1>a, <2>2, <3>2 DEF ClosePut, PutterInv, Gone
      <4> QED
        BY <4>1, <4>2 DEF EmbeddersGone
    <3>3. ~ReceiveEmbedded /\ ~FlushTimer /\ ~CallPut /\ ~CountPut
      BY <1>a, <2>2 DEF ReceiveEmbedded, FlushTimer, CallPut, CountPut, PutterInv, Gone
    <3> QED
      BY <3>1, <3>2, <3>3 DEF Put
  <2> QED
    BY <2>1, <2>2
<1> QED
  BY <1>1, <1>2, <1>3, <1>4 DEF Closed

\* All of it holds while there is nothing in memory.
AtRest ==
  /\ seen = {} /\ progress = Progress0 /\ parser = Parser0 /\ chunker = Chunker0
  /\ embedder = Embedder0 /\ putter = Putter0 /\ writer = Writer0 /\ lost = {}
Accountable == \E K \in SUBSET AllChunks : Account(K)

\* A run that has not begun has nothing to account for.
LEMMA EmptyDrain ==
  TypeInv /\ OneVersion /\ AtRest /\ Accountable => DrainInv
<1> SUFFICES ASSUME TypeInv, OneVersion, AtRest, NEW K \in SUBSET AllChunks, Account(K) PROVE DrainInv
  BY DEF Accountable
<1> USE DEF AtRest
<1>1. \A c : ~Somewhere(c, K)
  BY DEF Account, Somewhere
<1>2. \A d : ~DocAt(d)
  <2>1. DocsListed
    BY DocsAre
  <2> QED
    BY <2>1 DEF DocsListed, OneVersion
<1>3. Apart(K)
  BY DEF Apart
<1>4. Owed(K)
  BY <1>1, <1>2 DEF Owed, Untouched, Writer0
<1>5. \A s \in Sources : ~progress[s].sealed /\ ~progress[s].written
  BY DEF Progress0
<1>6. Whole(K)
  BY <1>5, ChunkFacts DEF Whole, Sealed, Chunker0
<1>7. Noted /\ Followed
  BY <1>5 DEF Noted, Followed
<1>8. Closed
  BY DEF Closed, Gone, Parser0, Chunker0, Embedder0, Putter0
<1> QED
  BY <1>3, <1>4, <1>6, <1>7, <1>8 DEF DrainInv

\* Every step keeps the invariant.
LEMMA DrainStep ==
  ASSUME ~MayDryRun, TypeInv, TypeInv', StoreInv, StoreInv', DrainInv, [Next]_vars
  PROVE  DrainInv'
<1>a. mode # "dry" /\ OneVersion
  BY DEF StoreInv
<1>b. PICK K \in SUBSET AllChunks : Account(K) /\ Apart(K) /\ Owed(K) /\ Whole(K)
  BY DEF DrainInv
<1>1. CASE Works
  <2>1. PICK J : J = Recount(K)
    OBVIOUS
  <2>2. J \in SUBSET AllChunks /\ Account(J)' /\ Apart(J)' /\ Owed(J)' /\ Whole(J)'
    BY <1>1, <1>a, <1>b, <2>1, AccountStep, FlowStep, OwedStep, WholeStep
  <2>3. Noted' /\ Followed' /\ Closed'
    BY <1>1, <1>a, <1>b, NotedStep, FollowedStep, ClosedStep DEF DrainInv
  <2> QED
    BY <2>2, <2>3 DEF DrainInv
<1>2. CASE Finish \/ Kill
  <2>1. Empty'
    BY <1>2 DEF Finish, Kill, Forget, Empty
  <2>2. AtRest'
    BY <2>1 DEF Empty, AtRest
  <2>3. OneVersion' /\ Accountable'
    BY DEF StoreInv, Accountable
  <2>4. TypeInv'
    OBVIOUS
  <2> QED
    BY <2>2, <2>3, <2>4, EmptyDrain, PTL
<1>3. CASE Start
  <2>1. UNCHANGED <<progress, chans, tasks, writer, lost, seen>> /\ mode = "none"
    BY <1>3 DEF Start
  <2>2. /\ seen = {} /\ progress = Progress0 /\ parser = Parser0 /\ chunker = Chunker0
        /\ embedder = Embedder0 /\ putter = Putter0 /\ writer = Writer0
    BY <2>1 DEF TypeInv, Idle
  <2>3. lost = {}
    BY <1>b, <2>2 DEF Apart
  <2>4. AtRest'
    BY <2>1, <2>2, <2>3 DEF AtRest, tasks
  <2>5. OneVersion' /\ Accountable'
    BY DEF StoreInv, Accountable
  <2>6. TypeInv'
    OBVIOUS
  <2> QED
    BY <2>4, <2>5, <2>6, EmptyDrain, PTL
<1>4. CASE UNCHANGED vars \/ \E s \in Sources : Edit(s)
  <2>1. UNCHANGED <<sink, done, progress, writer, unwritten, toVisit, chans, tasks, seen, lost>>
    BY <1>4 DEF Edit, vars, checks
  <2>2. UNCHANGED <<raw, parsed, chunked, embedded, parser, chunker, embedder, putter>>
    BY <2>1 DEF chans, tasks
  <2>3. DocLines' = DocLines /\ ChunkLines' = ChunkLines
    <3>1. Cutting' = Cutting /\ Held' = Held /\ Batches' = Batches
      BY <2>2 DEF Cutting, Held, Batches
    <3> QED
      BY <2>2, <3>1 DEF DocLines, ChunkLines
  <2>4. \A c : /\ Behind(c)' <=> Behind(c)
               /\ DocAt(c)' <=> DocAt(c)
               /\ Sealed(c)' <=> Sealed(c)
               /\ Somewhere(c, K)' <=> Somewhere(c, K)
    BY <2>1, <2>2, <2>3 DEF Behind, DocAt, Sealed, Somewhere
  <2>5. Account(K)' /\ Apart(K)'
    BY <1>b, <2>1, <2>2, <2>3, <2>4 DEF Account, Apart
  <2>6. Owed(K)' /\ Whole(K)'
    BY <1>b, <2>1, <2>2, <2>4 DEF Owed, Whole, Untouched
  <2>7. Noted' /\ Followed' /\ Closed'
    BY <2>1, <2>2, <2>4 DEF DrainInv, Noted, Followed, Closed, CutShort, ParsersGone, EmbeddersGone, Gone
  <2> QED
    BY <2>5, <2>6, <2>7 DEF DrainInv
<1> QED
  BY <1>1, <1>2, <1>3, <1>4 DEF Next, Works, Rest

\* Nothing is on its way when all tasks are gone and none was cut short.
LEMMA Drained ==
  ASSUME TypeInv, DrainInv, AllGone, chunker.doc = NoDoc
  PROVE  /\ \A d : ~DocAt(d)
         /\ \A c : c \notin AllOf(ChunkLines)
         /\ \A x \in Writers : writer[x] = NoDoc
<1>1. ParsersGone /\ Gone(chunker) /\ EmbeddersGone /\ Gone(putter) /\ ~CutShort
  BY DEF AllGone, CutShort
<1>2. /\ raw = <<>> /\ parsed = <<>> /\ chunked = <<>> /\ embedded = <<>> /\ putter.buf = <<>>
  BY <1>1, PipelineConstants DEF DrainInv, Closed, ParsersGone, EmbeddersGone
<1>3. \A d : d \notin Range(<<>>)
  BY DEF Range
<1>4. \A d : ~DocAt(d)
  BY <1>1, <1>2, <1>3 DEF DocAt, ParsersGone, Gone
<1>5. \A w \in Embedders : Batches[w] = <<>>
  BY <1>1 DEF Batches, EmbeddersGone, Gone, TypeInv, EmbedderInv, BatchInv
<1>6. \A c : c \notin AllOf(ChunkLines)
  <2>1. IsLay(ChunkLines, Embedders, AllChunks, <<>>, <<>>, <<>>, Batches)
    BY <1>2, LinesAreLaid
  <2> QED
    BY <1>5, <2>1, EmptyLay
<1>7. \A x \in Writers : writer[x] = NoDoc
  BY <1>1 DEF Writers, Gone, TypeInv, Sealing
<1> QED
  BY <1>4, <1>6, <1>7

\* A sealed document none of whose chunks was dropped has been counted out.
LEMMA CountedOut ==
  ASSUME NEW K \in SUBSET AllChunks, IsFiniteSet(K), NEW d \in Docs, Chunks(d) \subseteq K
  PROVE  Cardinality(Of(K, d[1])) >= Pieces[d]
<1>1. IsFiniteSet(Of(K, d[1]))
  BY FS_Subset DEF Of
<1>2. Chunks(d) \subseteq Of(K, d[1])
  BY DEF Of, Chunks
<1>3. Cardinality(Chunks(d)) = Pieces[d]
  BY ChunksCount
<1> QED
  BY <1>1, <1>2, <1>3, FS_Subset, FS_CardinalityType

\* The invariant of a drained run says what its documents came to.
LEMMA DrainedAccount == TypeInv /\ OneVersion /\ DrainInv => Accounted
<1> SUFFICES ASSUME TypeInv, OneVersion, DrainInv, AllGone, chunker.doc = NoDoc, NEW d \in seen, d \notin Unparsable
             PROVE  /\ d \in done => Chunks(d) \cap lost = {}
                    /\ Chunks(d) \cap lost = {} => d \in done \cup unwritten
  BY DEF Accounted
<1>1. /\ \A e : ~DocAt(e)
      /\ \A c : c \notin AllOf(ChunkLines)
      /\ \A x \in Writers : writer[x] = NoDoc
  BY Drained
<1>2. PICK K \in SUBSET AllChunks : Account(K) /\ Apart(K) /\ Owed(K) /\ Whole(K)
  BY DEF DrainInv
<1>3. d \in Docs /\ d[1] \in Sources
  BY ChunkFacts DEF TypeInv, RunTypes
<1>4. \A c \in Chunks(d) : c[1] = d
  BY DEF Chunks
<1>5. ASSUME d \in done PROVE Chunks(d) \cap lost = {}
  <2>1. CASE Chunks(d) \subseteq K
    BY <1>2, <2>1 DEF Apart
  <2>2. CASE Untouched(d, K)
    BY <1>4, <2>2 DEF Untouched, Somewhere
  <2> QED
    BY <1>2, <1>5, <2>1, <2>2 DEF Owed
<1>6. ASSUME Chunks(d) \cap lost = {}, d \notin done \cup unwritten PROVE FALSE
  <2>1. Sealed(d)
    BY <1>1, <1>6 DEF DrainInv, Followed, CutShort
  <2>2. Chunks(d) \subseteq K
    BY <1>1, <1>2, <1>3, <1>6, <2>1 DEF Whole, Somewhere
  <2>3. Cardinality(Of(K, d[1])) >= Pieces[d]
    BY <1>2, <1>3, <2>2, CountedOut DEF Account
  <2>4. progress[d[1]].sealed /\ progress[d[1]].doc = d /\ progress[d[1]].expected = Pieces[d]
    BY <1>3, <2>1 DEF Sealed, TypeInv, Sealing
  <2>5. progress[d[1]].actual = Cardinality(Of(K, d[1]))
    BY <1>2, <1>3 DEF Account
  <2>6. progress[d[1]].written
    BY <1>3, <2>3, <2>4, <2>5 DEF DrainInv, Noted
  <2>7. d \in done \cup unwritten \/ \E x \in Writers : writer[x] = d
    BY <1>3, <2>4, <2>6 DEF DrainInv, Noted
  <2> QED
    BY <1>1, <1>3, <1>6, <2>7, PipelineConstants
<1> QED
  BY <1>5, <1>6

\* When a run has drained whose chunk task ended between two documents, the
\* documents that it calls done are exactly those that parse and none of whose chunks
\* was dropped, but for those whose record it failed to append, whatever the number of
\* workers and the sizes of channels and batches, if no run is a dry run.
THEOREM DrainsAreAccounted ==
  ASSUME ~MayDryRun
  PROVE  Spec => []Accounted
<1>1. Init => StoreInv /\ DrainInv
  <2> SUFFICES ASSUME Init PROVE StoreInv /\ DrainInv
    OBVIOUS
  <2>1. TypeInv /\ Empty /\ mode = "none" /\ lines = << <<>> >>
    BY TypeInit DEF Init, Empty
  <2>2. OneVersion /\ Backed /\ Account({})
    BY <2>1, EmptyStore
  <2>3. DoneIsStored
    BY <2>1, LoadedFacts DEF DoneIsStored, Loaded, Range
  <2>4. DrainInv
    BY <2>1, <2>2, EmptyDrain DEF Empty, AtRest, Accountable
  <2> QED
    BY <2>1, <2>2, <2>3, <2>4 DEF StoreInv
<1>2. TypeInv /\ StoreInv /\ TypeInv' /\ [Next]_vars => StoreInv'
  BY StoreStep
<1>3. TypeInv /\ TypeInv' /\ StoreInv /\ StoreInv' /\ DrainInv /\ [Next]_vars => DrainInv'
  BY DrainStep
<1>4. TypeInv /\ StoreInv /\ DrainInv => Accounted
  BY DrainedAccount DEF StoreInv
<1> QED
  BY <1>1, <1>2, <1>3, <1>4, TypeInit, TypeStep, PTL DEF Spec

-----------------------------------------------------------------------------
(* The tasks of a run do not wait for each other in a circle.              *)

\* A record that is being appended gets to its end.
LEMMA WritersGoOn ==
  ASSUME TypeInv, \A x \in Writers : ~WriterReady(x)
  PROVE  fileLock = "none" /\ \A x \in Writers : writer[x] = NoDoc
<1>1. fileLock \in Writers \cup {"none"} /\ (fileLock # "none" => writer[fileLock] # NoDoc)
  BY DEF TypeInv, CheckpointTypes, Sealing
<1> QED
  BY <1>1 DEF WriterReady

\* The put task waits for an embed worker that is not gone, or has ended behind
\* all of them.
LEMMA PutterWaits ==
  ASSUME TypeInv, Closed, ~PutterReady, \A x \in Writers : writer[x] = NoDoc
  PROVE  embedded = <<>> /\ (EmbeddersGone <=> Gone(putter))
<1>1. putter.pc \in {"recv", "put", "record", "gone"} /\ writer["put"] = NoDoc
  BY DEF TypeInv, PutterInv, Writers
<1> QED
  BY <1>1 DEF PutterReady, Closed, Gone

\* An embed worker that is not gone waits for the chunk task, which then has room
\* to send to.
LEMMA EmbeddersWait ==
  ASSUME TypeInv, Closed, embedded = <<>>, \A w \in Embedders : ~EmbedderReady(w)
  PROVE  \/ EmbeddersGone /\ Gone(chunker)
         \/ chunked = <<>> /\ ~Gone(chunker)
<1>1. \A w \in Embedders : embedder[w].pc \in {"recv", "fill", "call", "send", "gone"}
  BY DEF TypeInv, EmbedderInv
<1>2. Len(embedded) < EmbeddedCap
  BY PipelineConstants
<1>3. \A w \in Embedders : Gone(embedder[w]) \/ embedder[w].pc = "recv" \/ Filling(w)
  BY <1>1, <1>2 DEF EmbedderReady, Gone, Filling
<1>4. CASE \E w \in Embedders : Filling(w)
  BY <1>4 DEF EmbedderReady
<1>5. CASE \A w \in Embedders : ~Filling(w)
  <2>1. EmbeddersGone
    BY <1>3, <1>5 DEF EmbedderReady, EmbeddersGone
  <2>2. Gone(chunker)
    BY <2>1, PipelineConstants DEF Closed, EmbeddersGone
  <2> QED
    BY <2>1, <2>2
<1> QED
  BY <1>4, <1>5

\* So the chunk task waits for a parse worker, or has ended.
LEMMA ChunkerWaits ==
  ASSUME TypeInv, ~ChunkerReady, chunked = <<>> \/ Gone(chunker), \A x \in Writers : writer[x] = NoDoc
  PROVE  Gone(chunker) \/ (parsed = <<>> /\ ~ParsersGone)
<1>1. chunker.pc \in {"recv", "emit", "gone"} /\ writer["chunk"] = NoDoc
  BY DEF TypeInv, ChunkerInv, Writers
<1>2. chunked = <<>> => Len(chunked) < ChunkCap
  BY PipelineConstants
<1>3. CASE chunker.pc = "recv"
  BY <1>1, <1>3 DEF ChunkerReady
<1>4. chunker.pc # "emit"
  <2>1. chunker.pc = "emit" => Len(chunked) < ChunkCap
    BY <1>2 DEF Gone
  <2> QED
    BY <2>1 DEF ChunkerReady
<1> QED
  BY <1>1, <1>3, <1>4 DEF Gone

\* A parse worker that is not gone waits for the walk, which then has room.
LEMMA ParsersWait ==
  ASSUME TypeInv, parsed = <<>> \/ Gone(chunker), \A w \in Parsers : ~ParserReady(w)
  PROVE  ParsersGone \/ (raw = <<>> /\ toVisit # {})
<1>1. \A w \in Parsers : parser[w].pc \in {"recv", "send", "gone"}
  BY DEF TypeInv, ParserInv
<1>2. parsed = <<>> => Len(parsed) < ParsedCap
  BY PipelineConstants
<1>3. ASSUME NEW w \in Parsers, ~Gone(parser[w]) PROVE raw = <<>> /\ toVisit # {}
  <2>1. parser[w].pc # "send"
    BY <1>2 DEF ParserReady
  <2>2. parser[w].pc = "recv"
    BY <1>1, <1>3, <2>1 DEF Gone
  <2> QED
    BY <2>2 DEF ParserReady
<1> QED
  BY <1>3 DEF ParsersGone

\* From the last stage back to the first, whoever waits waits for one before it
\* that is still there, and the walk waits for nobody who waits.
LEMMA SomeTaskGoesOn ==
  ASSUME TypeInv, Closed
  PROVE  NeverStuck
<1> SUFFICES ASSUME mode # "none", ~Ready PROVE FALSE
  BY DEF NeverStuck
<1>1. \A x \in Writers : writer[x] = NoDoc
  BY WritersGoOn DEF Ready
<1>2. embedded = <<>> /\ (EmbeddersGone <=> Gone(putter))
  BY <1>1, PutterWaits DEF Ready
<1>3. (EmbeddersGone /\ Gone(chunker)) \/ (chunked = <<>> /\ ~Gone(chunker))
  BY <1>2, EmbeddersWait DEF Ready
<1>4. Gone(chunker) \/ (parsed = <<>> /\ ~ParsersGone)
  BY <1>1, <1>3, ChunkerWaits DEF Ready
<1>5. ParsersGone \/ (raw = <<>> /\ toVisit # {})
  BY <1>4, ParsersWait DEF Ready
<1>6. raw = <<>> => Len(raw) < RawCap
  BY PipelineConstants
<1>7. ParsersGone /\ toVisit = {}
  BY <1>5, <1>6 DEF Ready, WalkReady
<1>8. AllGone
  BY <1>2, <1>3, <1>4, <1>7 DEF AllGone
<1> QED
  BY <1>7, <1>8 DEF Ready

\* Between runs no task is gone.
LEMMA EmptyClosed ==
  ASSUME parser = Parser0, chunker = Chunker0, embedder = Embedder0, putter = Putter0
  PROVE  Closed
  BY DEF Closed, Gone, Parser0, Chunker0, Embedder0, Putter0

\* A run starts with every task at its beginning and ends with nothing in memory.
LEMMA AlwaysClosed == TypeInv /\ TypeInv' /\ Closed /\ [Next]_vars => Closed'
<1> SUFFICES ASSUME TypeInv, TypeInv', Closed, [Next]_vars PROVE Closed'
  OBVIOUS
<1>1. CASE Works
  BY <1>1, ClosedStep
<1>2. CASE Finish \/ Kill
  BY <1>2 DEF Finish, Kill, Forget, Closed, Gone, Parser0, Chunker0, Embedder0, Putter0
<1>3. CASE Start
  <2>1. UNCHANGED tasks /\ mode = "none"
    BY <1>3 DEF Start
  <2>2. parser = Parser0 /\ chunker = Chunker0 /\ embedder = Embedder0 /\ putter = Putter0
    BY <2>1 DEF TypeInv, Idle
  <2> QED
    BY <2>1, <2>2 DEF tasks, Closed, Gone, Parser0, Chunker0, Embedder0, Putter0
<1>4. CASE UNCHANGED vars \/ \E s \in Sources : Edit(s)
  <2>1. UNCHANGED <<toVisit, raw, parsed, chunked, embedded, parser, chunker, embedder, putter>>
    BY <1>4 DEF Edit, vars, chans, tasks
  <2> QED
    BY <2>1 DEF Closed, CutShort, ParsersGone, EmbeddersGone, Gone
<1> QED
  BY <1>1, <1>2, <1>3, <1>4 DEF Next, Works, Rest

\* The bounded channels, the lock on the embed workers' receiver and the lock on
\* the checkpoint file never bring a run to a stop: with any number of workers, any
\* capacities and batch sizes, faults, dry runs, panics of the chunk task and a cap
\* on the chunks, some task has what it waits for until all have ended.
THEOREM RunsGoOn == Spec => []NeverStuck
<1>1. Init => Closed
  BY EmptyClosed DEF Init
<1>2. TypeInv /\ TypeInv' /\ Closed /\ [Next]_vars => Closed'
  BY AlwaysClosed
<1>3. TypeInv /\ Closed => NeverStuck
  BY SomeTaskGoesOn
<1> QED
  BY <1>1, <1>2, <1>3, TypeInit, TypeStep, PTL DEF Spec

=============================================================================
