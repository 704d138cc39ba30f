------------------------------ MODULE Chunkers ------------------------------
(***************************************************************************)
(* The chunkers of embed-cli (crates/embed_cli/src/chunk/): a parsed       *)
(* document is cut into the chunks that are embedded and put.  "off" makes *)
(* one chunk; "fixed" slides a window over the text; "markdown" cuts at    *)
(* the headings and windows what is too long; "sentence" packs sentences.  *)
(*                                                                         *)
(* Windows and sizes count characters, cuts and steps count bytes, and     *)
(* that is what can go wrong.  A text is its bytes, 0 .. n-1: a byte is    *)
(* white space, the first of a letter's, the first of another mark's, or   *)
(* one of the rest.  White space has one byte.  A chunk is the set of its  *)
(* bytes, with the headings it is under.                                   *)
(*                                                                         *)
(* Where the headings and the sentences are is given: the Markdown parser  *)
(* and the segmentation of Unicode are libraries.  A Rust slice that ends  *)
(* before it begins, or inside of a character, panics.                     *)
(***************************************************************************)
EXTENDS Integers, Sequences, FiniteSetsExt

CONSTANTS
  Jobs,      \* documents, each with the configuration it is chunked by
  StepBack,  \* bytes a window's end may step back to white space
  NoBody     \* no text is being cut

Kinds      == {"space", "letter", "mark", "rest"}
Strategies == {"off", "fixed", "markdown", "sentence"}

\* strategy; max and overlap, both in characters; the text; the headings, each
\* with its place and level; the sentences, each from a byte to before another.
\* The rest of a character follows it, and a heading and a sentence begin with
\* one; the headings come in the order of the text.
Length(j) == Cardinality(DOMAIN j.text)
Places(j) == 0 .. Length(j)

ASSUME ChunkConstants ==
  /\ StepBack \in Nat \ {0}
  /\ \A j \in Jobs :
       /\ j.strategy \in Strategies /\ j.max \in Nat \ {0} /\ j.overlap \in Nat
       /\ Length(j) \in Nat /\ j.text \in [0 .. Length(j) - 1 -> Kinds]
       /\ \A i \in DOMAIN j.text :
            j.text[i] = "rest" => i > 0 /\ j.text[i - 1] # "space"
       /\ j.heads \in Seq([at : Places(j), level : 1 .. 6])
       /\ \A r \in DOMAIN j.heads :
            j.heads[r].at < Length(j) => j.text[j.heads[r].at] # "rest"
       /\ \A q, r \in DOMAIN j.heads : q <= r => j.heads[q].at <= j.heads[r].at
       /\ j.sentences \in Seq([from : Places(j), to : Places(j)])
       /\ \A k \in DOMAIN j.sentences :
            j.sentences[k].from < Length(j) => j.text[j.sentences[k].from] # "rest"

VARIABLES
  job,     \* the document and its configuration
  pc,      \* what the chunker is at
  next,    \* the next region, 0 before the first heading, or the next sentence
  stack,   \* the headings the region is under, outermost first
  body,    \* the text that is cut: from a byte to before another
  cursor,  \* where the window, or the piece of a sentence, starts
  buf,     \* the bytes of the sentences packed so far
  chunks   \* the chunks so far

vars == <<job, pc, next, stack, body, cursor, buf, chunks>>

PC == {"start", "regions", "window", "sentences", "split", "done", "panic"}

Size  == Length(job)
Bytes == 0 .. Size - 1

Blank(i)      == job.text[i] = "space"
Starts(S)     == {i \in S : job.text[i] # "rest"}
Boundary(i)   == i \in Starts(Bytes) \cup {Size}
Wordless(S)   == \A i \in S : job.text[i] # "letter"

\* The bytes of S without the white space before and after.
Trim(S) == {i \in S : /\ \E j \in S : j <= i /\ ~Blank(j)
                      /\ \E j \in S : i <= j /\ ~Blank(j)}

\* What push_chunk appends: nothing for white space.
Pushed(S) == IF Trim(S) = {} THEN <<>> ELSE <<[text |-> Trim(S), path |-> stack]>>

Init ==
  /\ job \in Jobs
  /\ pc = "start"
  /\ next = 0
  /\ stack = <<>>
  /\ body = NoBody
  /\ cursor = 0
  /\ buf = {}
  /\ chunks = <<>>

-----------------------------------------------------------------------------
(* The window.                                                             *)

\* Mutant of Step: an overlap of the window's size or more stands still.
StepStill == IF job.max > job.overlap THEN job.max - job.overlap ELSE 0
\* Mutant of Step: the overlap is left out.
StepWhole == job.max
Step == IF job.max > job.overlap THEN job.max - job.overlap ELSE 1

\* The characters from s on that the window counts.
Counted(s) ==
  LET S == Starts(s .. body.to - 1)
  IN  {i \in S : Cardinality({j \in S : j < i}) < job.max}

\* Mutant of ClampWordEnd: the end steps back to any white space before it.
ClampWordEndFar(s) ==
  LET last == Max(Counted(s))
      back == {i \in body.from + 1 .. last : Blank(i)}
  IN  IF Cardinality(Counted(s)) = job.max /\ back # {}
        THEN Max(back)
        ELSE Min({body.to, last + job.max})

\* Where the last of them starts, or before it, where the white space closest
\* to it is; if there is none close enough, as many bytes on.
ClampWordEnd(s) ==
  LET last  == Max(Counted(s))
      lower == Max({body.from, last - StepBack})
      back  == {i \in lower + 1 .. last : Blank(i)}
  IN  IF Cardinality(Counted(s)) = job.max /\ back # {}
        THEN Max(back)
        ELSE Min({body.to, last + job.max})

\* Mutant of ClampWordStart: the next byte that is not white space.
ClampWordStartByte(i) == Min({body.to} \cup {j \in i .. body.to - 1 : ~Blank(j)})
\* The next character that is not white space.
ClampWordStart(i) ==
  Min({body.to} \cup {j \in i .. body.to - 1 : Boundary(j) /\ ~Blank(j)})

SliceOk(from, to) == from <= to /\ Boundary(to)

\* One turn of the loop of FixedChunker::chunk.
Window ==
  /\ pc = "window"
  /\ LET end   == ClampWordEnd(cursor)
         start == ClampWordStart(cursor + Step)
     IN  \/ /\ ~SliceOk(cursor, end)
            /\ pc' = "panic"
            /\ UNCHANGED <<body, cursor, chunks>>
         \/ /\ SliceOk(cursor, end)
            /\ chunks' = chunks \o Pushed(cursor .. end - 1)
            /\ IF end < body.to /\ start < body.to
                 THEN cursor' = start /\ UNCHANGED <<pc, body>>
                 ELSE cursor' = 0 /\ body' = NoBody /\ pc' = "regions"
  /\ UNCHANGED <<job, next, stack, buf>>

\* The text from a to before b is windowed; it is one chunk if it has no word.
Slide(a, b) ==
  IF Wordless(a .. b - 1)
    THEN /\ chunks' = Append(chunks, [text |-> a .. b - 1, path |-> stack'])
         /\ pc' = "regions"
         /\ UNCHANGED <<body, cursor>>
    ELSE /\ body' = [from |-> a, to |-> b]
         /\ cursor' = a
         /\ pc' = "window"
         /\ UNCHANGED chunks

-----------------------------------------------------------------------------
(* The strategies.                                                         *)

WholeDocument ==
  /\ pc = "start"
  /\ job.strategy = "off"
  /\ chunks' = IF Size = 0 THEN <<>> ELSE <<[text |-> Bytes, path |-> <<>>]>>
  /\ pc' = "done"
  /\ UNCHANGED <<job, next, stack, body, cursor, buf>>

ByHeadings == job.strategy = "markdown" /\ job.heads # <<>>

\* One region, the whole text; also for Markdown without a heading.
Fixed ==
  /\ pc = "start"
  /\ job.strategy \in {"fixed", "markdown"}
  /\ ~ByHeadings
  /\ next' = Len(job.heads) + 1
  /\ stack' = <<>>
  /\ IF Size = 0 THEN pc' = "regions" /\ UNCHANGED <<body, cursor, chunks>> ELSE Slide(0, Size)
  /\ UNCHANGED <<job, buf>>

Markdown ==
  /\ pc = "start"
  /\ ByHeadings
  /\ pc' = "regions"
  /\ UNCHANGED <<job, next, stack, body, cursor, buf, chunks>>

RegionFrom(r) == IF r = 0 THEN 0 ELSE job.heads[r].at
RegionTo(r)   == IF r = Len(job.heads) THEN Size ELSE job.heads[r + 1].at

\* Mutant of Popped: a heading stays above the next of its own level.
PoppedDeeper(r) ==
  SubSeq(stack, 1, Max({0} \cup {k \in DOMAIN stack :
                         job.heads[stack[k]].level <= job.heads[r].level}))
\* The headings above heading r.
Popped(r) ==
  SubSeq(stack, 1, Max({0} \cup {k \in DOMAIN stack :
                         job.heads[stack[k]].level < job.heads[r].level}))

\* The text between two headings is one chunk if it is short.
TakeRegion ==
  /\ pc = "regions"
  /\ next <= Len(job.heads)
  /\ next' = next + 1
  /\ stack' = IF next = 0 THEN stack ELSE Append(Popped(next), next)
  /\ LET S == Trim(RegionFrom(next) .. RegionTo(next) - 1) IN
     \/ /\ S = {}
        /\ UNCHANGED <<pc, body, cursor, chunks>>
     \/ /\ Cardinality(S) \in 1 .. job.max
        /\ chunks' = Append(chunks, [text |-> S, path |-> stack'])
        /\ UNCHANGED <<pc, body, cursor>>
     \/ /\ Cardinality(S) > job.max
        /\ Slide(Min(S), Max(S) + 1)
  /\ UNCHANGED <<job, buf>>

LastRegion ==
  /\ pc = "regions"
  /\ next > Len(job.heads)
  /\ pc' = "done"
  /\ UNCHANGED <<job, next, stack, body, cursor, buf, chunks>>

Sentences ==
  /\ pc = "start"
  /\ job.strategy = "sentence"
  /\ pc' = "sentences"
  /\ next' = 1
  /\ UNCHANGED <<job, stack, body, cursor, buf, chunks>>

\* Mutant of Full: the buffer is flushed only when it is full by itself.
FullAlone(S) == buf # {} /\ Cardinality(buf) >= job.max
Full(S) == buf # {} /\ Cardinality(buf) + Cardinality(S) > job.max

\* A sentence longer than the size is split; what is packed comes first.
TakeSentence ==
  /\ pc = "sentences"
  /\ next <= Len(job.sentences)
  /\ next' = next + 1
  /\ LET s       == job.sentences[next]
         S       == s.from .. s.to - 1
         flushed == IF Full(S) THEN chunks \o Pushed(buf) ELSE chunks
         rest    == IF Full(S) THEN {} ELSE buf
     IN  \/ /\ Cardinality(S) <= job.max
            /\ chunks' = flushed
            /\ buf' = rest \cup S
            /\ UNCHANGED <<pc, body, cursor>>
         \/ /\ Cardinality(S) > job.max
            /\ chunks' = flushed \o Pushed(rest)
            /\ buf' = {}
            /\ body' = s
            /\ cursor' = s.from
            /\ pc' = "split"
  /\ UNCHANGED <<job, stack>>

\* The first character after a piece.
PieceEnd(s) == Min({body.to} \cup (Starts(s .. body.to - 1) \ Counted(s)))

\* One piece of hard_split: max characters, or what is left.
Split ==
  /\ pc = "split"
  /\ chunks' = chunks \o Pushed(cursor .. PieceEnd(cursor) - 1)
  /\ IF PieceEnd(cursor) < body.to
       THEN cursor' = PieceEnd(cursor) /\ UNCHANGED <<pc, body>>
       ELSE cursor' = 0 /\ body' = NoBody /\ pc' = "sentences"
  /\ UNCHANGED <<job, next, stack, buf>>

LastSentence ==
  /\ pc = "sentences"
  /\ next > Len(job.sentences)
  /\ chunks' = chunks \o Pushed(buf)
  /\ buf' = {}
  /\ pc' = "done"
  /\ UNCHANGED <<job, next, stack, body, cursor>>

-----------------------------------------------------------------------------

\* It returned, or it panicked.
Returned == pc \in {"done", "panic"} /\ UNCHANGED vars

Next ==
  \/ Returned
  \/ WholeDocument \/ Fixed \/ Markdown \/ Sentences
  \/ Window \/ TakeRegion \/ LastRegion
  \/ TakeSentence \/ Split \/ LastSentence

Spec == Init /\ [][Next]_vars

-----------------------------------------------------------------------------
(* Properties.                                                             *)

\* Every variable holds a value of its kind; a cursor is on a character.
TypeOK ==
  /\ pc \in PC
  /\ next \in Nat
  /\ stack \in Seq(1 .. Len(job.heads))
  /\ pc \in {"window", "split"} => /\ body \in [from : 0 .. Size, to : 0 .. Size]
                                  /\ body.from <= cursor /\ cursor < body.to
                                  /\ Boundary(cursor)
  /\ pc \notin {"window", "split", "panic"} => body = NoBody /\ cursor = 0
  /\ buf \in SUBSET Bytes
  /\ chunks \in Seq([text : SUBSET Bytes, path : Seq(1 .. Len(job.heads))])

\* Everything the strategy is given.
Given ==
  IF job.strategy = "sentence"
    THEN UNION {job.sentences[k].from .. job.sentences[k].to - 1 : k \in DOMAIN job.sentences}
    ELSE Bytes

\* What is in the text is in a chunk, as long as windows overlap by what their
\* ends may step back; with a smaller overlap words between them are lost.
NothingLost ==
  pc = "done" /\ (job.strategy \in {"off", "sentence"} \/ job.overlap >= StepBack)
    => \A i \in Given : ~Blank(i) => \E k \in DOMAIN chunks : i \in chunks[k].text

\* A window of at least the bytes its end may step back is cut where it may
\* be, unless a character has several bytes.
PanicsOnlyIf ==
  pc = "panic" => job.max < StepBack \/ \E i \in Bytes : job.text[i] = "rest"

\* Packed sentences keep to the size, and so does a piece of a long one; a
\* window without white space may have all but twice its characters.
Bounded ==
  \A k \in DOMAIN chunks :
    LET n == Cardinality(Starts(chunks[k].text)) IN
    CASE job.strategy = "sentence"          -> n <= job.max
      [] job.strategy = "off"               -> TRUE
      [] job.strategy \in {"fixed", "markdown"}
           -> n < 2 * job.max \/ Wordless(chunks[k].text)

\* The heading g is above heading r: none in between ends its section.
Above(g, r) == \A h \in g + 1 .. r : job.heads[h].level > job.heads[g].level

\* A chunk between two headings names exactly the headings whose sections it
\* is in, outermost first.
PathLeads ==
  ByHeadings =>
    \A k \in DOMAIN chunks :
      LET r == Max({0} \cup {h \in DOMAIN job.heads : job.heads[h].at <= Min(chunks[k].text)})
          p == chunks[k].path
      IN  /\ {p[x] : x \in DOMAIN p} = {g \in 1 .. r : Above(g, r)}
          /\ \A x, y \in DOMAIN p : x < y => p[x] < p[y]

\* A window starts after the one before it, whatever the size and the overlap,
\* and so does a piece of a sentence: every text is chunked to its end.
WindowAdvances == [][pc' = pc /\ pc \in {"window", "split"} => cursor < cursor']_vars

\* What fixed.rs says of a window's end: it is on a character's boundary.
EndsOnChar == pc = "window" => Boundary(ClampWordEnd(cursor))
=============================================================================
