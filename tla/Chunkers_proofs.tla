-------------------------- MODULE Chunkers_proofs --------------------------
(***************************************************************************)
(* What the chunkers do to every text, with any size and overlap: they     *)
(* move on, they panic only where size or text allows it, with enough      *)
(* overlap they lose nothing, no chunk grows past a bound, and a chunk     *)
(* between headings names those it is under.                               *)
(***************************************************************************)
EXTENDS Chunkers, FiniteSetTheorems, NaturalsInduction, WellFoundedInduction, TLAPS

-----------------------------------------------------------------------------
(* Sets of numbers.                                                        *)

\* A set of numbers has a least one.
LEMMA LeastNumber ==
  ASSUME NEW T \in SUBSET Nat, T # {}
  PROVE  \E n \in T : \A m \in T : n <= m
<1> DEFINE R == OpToRel(<, Nat)
<1>1. IsWellFoundedOn(R, Nat)
  BY NatLessThanWellFounded, Zenon
<1>2. \A m, n \in Nat : m < n => <<m, n>> \in R
  BY DEF OpToRel
<1> HIDE DEF R
<1>3. PICK n \in T : \A m \in T : ~(<<m, n>> \in R)
  BY <1>1, WFMin
<1>4. \A m \in T : ~(m < n)
  BY <1>2, <1>3
<1> QED
  BY <1>3, <1>4

\* The minimum of numbers that are all at least n.
LEMMA MinOf ==
  ASSUME NEW S \in SUBSET Int, S # {}, NEW n \in Int, \A x \in S : n <= x
  PROVE  Min(S) \in S /\ \A x \in S : Min(S) <= x
<1> DEFINE T == {x - n : x \in S}
<1>0. \A x \in S : x \in Int /\ x - n \in Nat
  OBVIOUS
<1>1. T \in SUBSET Nat /\ T # {}
  BY <1>0
<1>2. PICK m \in T : \A k \in T : m <= k
  BY <1>1, LeastNumber
<1>3. PICK x \in S : m = x - n
  BY <1>2
<1>4. ASSUME NEW y \in S PROVE x <= y
  <2>1. y - n \in T
    OBVIOUS
  <2>2. m <= y - n
    BY <1>2, <2>1
  <2> QED
    BY <1>0, <1>3, <2>2
<1> QED
  BY <1>3, <1>4 DEF Min

\* The maximum of numbers that are all at most n.
LEMMA MaxOf ==
  ASSUME NEW S \in SUBSET Int, S # {}, NEW n \in Int, \A x \in S : x <= n
  PROVE  Max(S) \in S /\ \A x \in S : x <= Max(S)
<1> DEFINE T == {n - x : x \in S}
<1>0. \A x \in S : x \in Int /\ n - x \in Nat
  OBVIOUS
<1>1. T \in SUBSET Nat /\ T # {}
  BY <1>0
<1>2. PICK m \in T : \A k \in T : m <= k
  BY <1>1, LeastNumber
<1>3. PICK x \in S : m = n - x
  BY <1>2
<1>4. ASSUME NEW y \in S PROVE x >= y
  <2>1. n - y \in T
    OBVIOUS
  <2>2. m <= n - y
    BY <1>2, <2>1
  <2> QED
    BY <1>0, <1>3, <2>2
<1> QED
  BY <1>3, <1>4 DEF Max

\* Both, of numbers in a range.
LEMMA Extremes ==
  ASSUME NEW a \in Int, NEW b \in Int, NEW S \in SUBSET (a .. b), S # {}
  PROVE  /\ Min(S) \in S /\ Max(S) \in S /\ Min(S) \in a .. b /\ Max(S) \in a .. b
         /\ \A x \in S : Min(S) <= x /\ x <= Max(S)
<1>1. S \in SUBSET Int /\ \A x \in S : a <= x /\ x <= b
  OBVIOUS
<1>2. Min(S) \in S /\ \A x \in S : Min(S) <= x
  BY <1>1, MinOf
<1>3. Max(S) \in S /\ \A x \in S : x <= Max(S)
  BY <1>1, MaxOf
<1> QED
  BY <1>2, <1>3

-----------------------------------------------------------------------------
(* The document.                                                           *)

\* What the assumption says of the job at hand.
LEMMA JobFacts ==
  ASSUME job \in Jobs
  PROVE  /\ job.strategy \in Strategies /\ job.max \in Nat \ {0} /\ job.overlap \in Nat
         /\ StepBack \in Nat \ {0}
         /\ Size \in Nat /\ DOMAIN job.text = Bytes /\ \A i \in Bytes : job.text[i] \in Kinds
         /\ \A i \in Bytes : job.text[i] = "rest" => i > 0 /\ job.text[i - 1] # "space"
         /\ Len(job.heads) \in Nat /\ DOMAIN job.heads = 1 .. Len(job.heads)
         /\ \A r \in 1 .. Len(job.heads) :
              /\ job.heads[r].at \in 0 .. Size /\ job.heads[r].level \in 1 .. 6
              /\ job.heads[r].at < Size => job.text[job.heads[r].at] # "rest"
         /\ \A q, r \in 1 .. Len(job.heads) : q <= r => job.heads[q].at <= job.heads[r].at
<1> DEFINE Head0 == [at : Places(job), level : 1 .. 6]
<1>1. /\ job.strategy \in Strategies /\ job.max \in Nat \ {0} /\ job.overlap \in Nat
      /\ StepBack \in Nat \ {0} /\ Length(job) \in Nat
      /\ job.text \in [0 .. Length(job) - 1 -> Kinds]
      /\ \A i \in DOMAIN job.text : job.text[i] = "rest" => i > 0 /\ job.text[i - 1] # "space"
      /\ job.heads \in Seq(Head0)
      /\ \A r \in DOMAIN job.heads :
           job.heads[r].at < Length(job) => job.text[job.heads[r].at] # "rest"
      /\ \A q, r \in DOMAIN job.heads : q <= r => job.heads[q].at <= job.heads[r].at
  BY ChunkConstants, Zenon
<1>2. DOMAIN job.text = Bytes /\ \A i \in Bytes : job.text[i] \in Kinds
  BY <1>1 DEF Bytes, Size
<1>3. Len(job.heads) \in Nat /\ DOMAIN job.heads = 1 .. Len(job.heads)
  BY <1>1
<1>4. ASSUME NEW r \in 1 .. Len(job.heads)
      PROVE  job.heads[r].at \in 0 .. Size /\ job.heads[r].level \in 1 .. 6
  <2>1. job.heads[r] \in Head0
    <3> HIDE DEF Head0
    <3> QED
      BY <1>1, <1>3
  <2> QED
    BY <2>1 DEF Places, Size
<1> QED
  BY <1>1, <1>2, <1>3, <1>4 DEF Size

\* A sentence lies in the text and begins with a character.
LEMMA SentenceFacts ==
  ASSUME job \in Jobs, NEW k \in 1 .. Len(job.sentences)
  PROVE  /\ Len(job.sentences) \in Nat /\ DOMAIN job.sentences = 1 .. Len(job.sentences)
         /\ job.sentences[k] \in [from : Places(job), to : Places(job)]
         /\ job.sentences[k].from \in 0 .. Size /\ job.sentences[k].to \in 0 .. Size
         /\ Boundary(job.sentences[k].from)
<1> DEFINE Cut == [from : Places(job), to : Places(job)]
           s   == job.sentences[k]
<1>1. /\ job.sentences \in Seq(Cut)
      /\ \A n \in DOMAIN job.sentences :
           job.sentences[n].from < Length(job) => job.text[job.sentences[n].from] # "rest"
  BY ChunkConstants, Zenon
<1>2. Len(job.sentences) \in Nat /\ DOMAIN job.sentences = 1 .. Len(job.sentences)
  BY <1>1
<1>3. s \in Cut
  <2> HIDE DEF Cut
  <2> QED
    BY <1>1, <1>2
<1>4. s.from \in 0 .. Size /\ s.to \in 0 .. Size
  BY <1>3 DEF Places, Size
<1>5. Boundary(s.from)
  <2>1. Size \in Nat /\ (s.from < Size => job.text[s.from] # "rest")
    BY <1>1, <1>2, JobFacts DEF Size
  <2> QED
    BY <1>4, <2>1 DEF Boundary, Starts, Bytes
<1> QED
  BY <1>2, <1>3, <1>4, <1>5

\* A region lies in the text and begins with a character.
LEMMA RegionFacts ==
  ASSUME job \in Jobs, NEW r \in 0 .. Len(job.heads)
  PROVE  /\ RegionFrom(r) \in 0 .. Size /\ RegionTo(r) \in 0 .. Size
         /\ RegionFrom(r) < Size => job.text[RegionFrom(r)] # "rest"
  BY JobFacts DEF RegionFrom, RegionTo, Bytes

\* Trimmed, a region still begins with a character.
LEMMA TrimFacts ==
  ASSUME job \in Jobs, NEW a \in 0 .. Size, NEW b \in 0 .. Size,
         a < Size => job.text[a] # "rest", Trim(a .. b - 1) # {}
  PROVE  LET S == Trim(a .. b - 1) IN
         /\ S \subseteq Min(S) .. Max(S)
         /\ Min(S) \in 0 .. Size - 1 /\ Max(S) \in 0 .. Size - 1 /\ Min(S) <= Max(S)
         /\ Boundary(Min(S))
<1> DEFINE S == Trim(a .. b - 1)
<1>0. a \in Int /\ b - 1 \in Int /\ 0 <= a /\ b <= Size /\ Size \in Nat
  BY JobFacts
<1>1. /\ S \in SUBSET (a .. b - 1) /\ S # {}
      /\ \A i \in a .. b - 1 : ~Blank(i) => i \in S
      /\ \A x \in S : \E j \in a .. b - 1 : j <= x /\ ~Blank(j)
  BY JobFacts DEF Trim
<1> HIDE DEF S
<1>2. /\ Min(S) \in S /\ Max(S) \in S /\ Min(S) \in a .. b - 1 /\ Max(S) \in a .. b - 1
      /\ \A x \in S : Min(S) <= x /\ x <= Max(S)
  BY <1>0, <1>1, Extremes
<1>4. ~Blank(Min(S))
  <2>1. PICK j \in a .. b - 1 : j <= Min(S) /\ ~Blank(j)
    BY <1>1, <1>2
  <2>2. j = Min(S)
    BY <1>1, <1>2, <2>1
  <2> QED
    BY <2>1, <2>2
<1>5. job.text[Min(S)] # "rest"
  <2> SUFFICES ASSUME job.text[Min(S)] = "rest" PROVE FALSE
    OBVIOUS
  <2>1. Min(S) \in Bytes /\ Min(S) > a
    BY <1>0, <1>2 DEF Bytes
  <2>2. Min(S) - 1 \in a .. b - 1 /\ ~Blank(Min(S) - 1)
    BY <1>0, <1>2, <2>1, JobFacts DEF Blank
  <2> QED
    BY <1>0, <1>1, <1>2, <2>2
<1>6. Min(S) \in 0 .. Size - 1 /\ Max(S) \in 0 .. Size - 1
  BY <1>0, <1>2
<1>7. Boundary(Min(S))
  BY <1>5, <1>6 DEF Boundary, Starts, Bytes
<1>8. S \subseteq Min(S) .. Max(S) /\ Min(S) <= Max(S)
  BY <1>0, <1>1, <1>2
<1> QED
  BY <1>6, <1>7, <1>8 DEF S
-----------------------------------------------------------------------------
(* The window.                                                             *)

\* A window, or a piece, that starts on a character of the text that is cut.
InWindow ==
  /\ job \in Jobs
  /\ body \in [from : Places(job), to : Places(job)]
  /\ cursor \in body.from .. body.to - 1
  /\ Boundary(cursor)

\* Where a window is, and how far the next one is from it.
LEMMA WindowFacts ==
  ASSUME InWindow
  PROVE  /\ body.from \in 0 .. Size /\ body.to \in 0 .. Size /\ Size \in Nat
         /\ cursor \in Bytes /\ cursor < body.to /\ job.text[cursor] # "rest"
         /\ job.max \in Nat \ {0} /\ job.overlap \in Nat /\ StepBack \in Nat \ {0}
         /\ Step \in Nat \ {0} /\ Step <= job.max
         /\ job.max > job.overlap => Step = job.max - job.overlap
         /\ job.max <= job.overlap => Step = 1
<1>1. /\ body.from \in 0 .. Size /\ body.to \in 0 .. Size /\ Size \in Nat
      /\ cursor \in Bytes /\ cursor < body.to
  BY JobFacts DEF InWindow, Places, Bytes, Size
<1>2. job.text[cursor] # "rest"
  BY <1>1, JobFacts DEF InWindow, Boundary, Starts, Bytes
<1> QED
  BY <1>1, <1>2, JobFacts DEF InWindow, Step

\* The characters that are counted, the last of which starts at Max: no more
\* than max, and max bytes if they are max.
LEMMA CountFacts ==
  ASSUME InWindow
  PROVE  LET C == Counted(cursor) IN
         /\ C \in SUBSET (cursor .. body.to - 1) /\ Max(C) \in C /\ \A i \in C : i <= Max(C)
         /\ Max(C) \in cursor .. body.to - 1
         /\ \A i \in Starts(cursor .. body.to - 1) : i <= Max(C) => i \in C
         /\ IsFiniteSet(C) /\ Cardinality(C) \in Nat /\ Cardinality(C) <= job.max
         /\ Cardinality(C) = job.max => Max(C) >= cursor + job.max - 1
<1> DEFINE C == Counted(cursor)
           S == Starts(cursor .. body.to - 1)
           Before(i) == {j \in S : j < i}
<1>0. /\ cursor \in Int /\ body.to \in Int /\ body.to - 1 \in Int /\ cursor < body.to
      /\ job.max \in Nat \ {0} /\ cursor \in S
  BY WindowFacts DEF Bytes, Starts
<1>1. IsFiniteSet(cursor .. body.to - 1) /\ S \in SUBSET (cursor .. body.to - 1)
  <2>1. IsFiniteSet(cursor .. body.to - 1)
    BY <1>0, FS_Interval
  <2> QED
    BY <2>1 DEF Starts
<1>2. IsFiniteSet(S)
  BY <1>1, FS_Subset
<1>3. \A i \in S : IsFiniteSet(Before(i)) /\ Cardinality(Before(i)) \in Nat
  BY <1>2, FS_Subset, FS_CardinalityType
<1>4. C = {i \in S : Cardinality(Before(i)) < job.max}
  BY DEF Counted
<1>5. cursor \in C
  <2>1. Before(cursor) = {}
    BY <1>0, <1>1
  <2>2. Cardinality(Before(cursor)) = 0
    BY <2>1, FS_EmptySet
  <2> QED
    BY <1>0, <1>4, <2>2
<1> HIDE DEF C
<1>6. C \in SUBSET (cursor .. body.to - 1) /\ C \subseteq S
  BY <1>1, <1>4
<1>7. Max(C) \in C /\ Max(C) \in cursor .. body.to - 1 /\ \A i \in C : i <= Max(C)
  BY <1>0, <1>5, <1>6, Extremes
<1>8. ASSUME NEW i \in S, i <= Max(C) PROVE i \in C
  <2>1. Before(i) \subseteq Before(Max(C))
    BY <1>1, <1>7, <1>8
  <2>2. Max(C) \in S /\ Cardinality(Before(Max(C))) < job.max
    BY <1>4, <1>7
  <2>3. Cardinality(Before(i)) <= Cardinality(Before(Max(C)))
    BY <1>3, <2>1, <2>2, FS_Subset
  <2>4. Cardinality(Before(i)) < job.max
    <3>1. Cardinality(Before(i)) \in Nat /\ Cardinality(Before(Max(C))) \in Nat
      BY <1>3, <2>2
    <3> HIDE DEF Before, S
    <3> QED
      BY <1>0, <2>2, <2>3, <3>1
  <2> QED
    BY <1>4, <2>4
<1>9. IsFiniteSet(C) /\ Cardinality(C) \in Nat
  BY <1>2, <1>6, FS_Subset, FS_CardinalityType
<1>10. Cardinality(C) <= job.max
  <2>1. C = Before(Max(C)) \cup {Max(C)}
    <3>1. \A i \in C : i \in S /\ (i < Max(C) \/ i = Max(C))
      BY <1>0, <1>6, <1>7
    <3>2. \A i \in S : i < Max(C) => i \in C
      BY <1>0, <1>1, <1>7, <1>8
    <3> QED
      BY <1>7, <3>1, <3>2
  <2>2. Max(C) \in S /\ Cardinality(Before(Max(C))) < job.max
    BY <1>4, <1>7
  <2>3. Max(C) \notin Before(Max(C))
    BY <1>0, <1>7
  <2>4. Cardinality(Before(Max(C)) \cup {Max(C)}) = Cardinality(Before(Max(C))) + 1
    BY <1>3, <2>2, <2>3, FS_AddElement
  <2>5. Cardinality(Before(Max(C))) \in Nat
    BY <1>3, <2>2
  <2> HIDE DEF Before, S
  <2>6. Cardinality(C) = Cardinality(Before(Max(C)) \cup {Max(C)})
    BY <2>1, Zenon
  <2> QED
    BY <1>0, <2>2, <2>4, <2>5, <2>6
<1>11. ASSUME Cardinality(C) = job.max PROVE Max(C) >= cursor + job.max - 1
  <2>1. C \subseteq cursor .. Max(C)
    BY <1>0, <1>6, <1>7
  <2>2. IsFiniteSet(cursor .. Max(C)) /\ Cardinality(cursor .. Max(C)) = Max(C) - cursor + 1
    BY <1>0, <1>7, FS_Interval
  <2>3. Cardinality(C) <= Cardinality(cursor .. Max(C))
    BY <2>1, <2>2, FS_Subset
  <2> QED
    BY <1>0, <1>7, <1>11, <2>2, <2>3
<1> QED
  BY <1>6, <1>7, <1>8, <1>9, <1>10, <1>11 DEF C

\* A window ends at white space, no more than StepBack before its last
\* character, or max bytes behind that, or with the text.
LEMMA EndFacts ==
  ASSUME InWindow
  PROVE  LET end  == ClampWordEnd(cursor)
             last == Max(Counted(cursor))
         IN  /\ end \in Int /\ end <= body.to
             /\ \/ Blank(end) /\ end <= last /\ end >= cursor + job.max - StepBack
                \/ end > last /\ end <= last + job.max /\ (end = body.to \/ end >= cursor + job.max)
<1> DEFINE last  == Max(Counted(cursor))
           lower == Max({body.from, last - StepBack})
           back  == {i \in lower + 1 .. last : Blank(i)}
           full  == Cardinality(Counted(cursor)) = job.max
           end   == ClampWordEnd(cursor)
<1>0. /\ body.from \in Int /\ body.to \in Int /\ cursor \in Int /\ job.max \in Nat \ {0}
      /\ StepBack \in Nat \ {0}
  BY WindowFacts DEF Bytes
<1>1. last \in cursor .. body.to - 1 /\ (full => last >= cursor + job.max - 1)
  BY CountFacts
<1> HIDE DEF last
<1>2. lower \in Int /\ lower >= last - StepBack
  <2>1. {body.from, last - StepBack} \in SUBSET Int
    BY <1>0, <1>1
  <2>2. \E n \in Int : \A x \in {body.from, last - StepBack} : x <= n
    <3>1. CASE body.from <= last - StepBack
      BY <1>0, <1>1, <3>1
    <3>2. CASE ~(body.from <= last - StepBack)
      BY <1>0, <1>1, <3>2
    <3> QED
      BY <3>1, <3>2
  <2>3. /\ lower \in {body.from, last - StepBack}
        /\ \A x \in {body.from, last - StepBack} : x <= lower
    BY <2>1, <2>2, MaxOf
  <2> QED
    BY <1>0, <1>1, <2>3
<1> HIDE DEF lower, full
<1>3. end = IF full /\ back # {} THEN Max(back) ELSE Min({body.to, last + job.max})
  BY DEF ClampWordEnd, last, lower, full
<1> HIDE DEF end
<1>4. CASE full /\ back # {}
  <2>1. back \in SUBSET (lower + 1 .. last) /\ last \in Int /\ lower + 1 \in Int
    BY <1>0, <1>1, <1>2
  <2>2. Max(back) \in back /\ Max(back) \in lower + 1 .. last
    BY <1>4, <2>1, Extremes
  <2> QED
    BY <1>0, <1>1, <1>2, <1>3, <1>4, <2>2 DEF end, last
<1>5. CASE ~(full /\ back # {})
  <2>1. {body.to, last + job.max} \in SUBSET Int
    BY <1>0, <1>1
  <2>2. \E n \in Int : \A x \in {body.to, last + job.max} : n <= x
    <3>1. CASE body.to <= last + job.max
      BY <1>0, <1>1, <3>1
    <3>2. CASE ~(body.to <= last + job.max)
      BY <1>0, <1>1, <3>2
    <3> QED
      BY <3>1, <3>2
  <2>3. /\ end \in {body.to, last + job.max}
        /\ \A x \in {body.to, last + job.max} : end <= x
    BY <1>3, <1>5, <2>1, <2>2, MinOf
  <2> QED
    BY <1>0, <1>1, <2>3 DEF end, last
<1> QED
  BY <1>4, <1>5

\* The next window starts behind, at white space's end or where the text ends.
LEMMA StartFacts ==
  ASSUME InWindow
  PROVE  LET start == ClampWordStart(cursor + Step) IN
         /\ start \in cursor + 1 .. Size
         /\ start < body.to => Boundary(start) /\ start \in cursor + Step .. body.to - 1
         /\ \A i \in cursor + Step .. body.to - 1 : Boundary(i) /\ ~Blank(i) => start <= i
         /\ start <= body.to
<1> DEFINE start == ClampWordStart(cursor + Step)
           words == {j \in cursor + Step .. body.to - 1 : Boundary(j) /\ ~Blank(j)}
           S     == {body.to} \cup words
<1>0. /\ cursor \in Nat /\ Step \in Nat \ {0} /\ body.to \in 0 .. Size /\ Size \in Nat
      /\ cursor < body.to
  BY WindowFacts DEF Bytes
<1>1. S \in SUBSET (0 .. body.to) /\ S # {} /\ 0 \in Int /\ body.to \in Int
  BY <1>0
<1>2. Min(S) \in S /\ \A x \in S : Min(S) <= x
  BY <1>1, Extremes
<1>3. start = Min(S)
  BY DEF ClampWordStart
<1> HIDE DEF start
<1>4. start \in S /\ start <= body.to /\ \A x \in words : start <= x
  BY <1>2, <1>3
<1>5. start = body.to \/ (start \in cursor + Step .. body.to - 1 /\ Boundary(start))
  BY <1>4
<1>6. start \in cursor + 1 .. Size
  BY <1>0, <1>5
<1> QED
  BY <1>0, <1>4, <1>5, <1>6 DEF start

\* Between a window's end and the start of the next one there is white space
\* only, if windows overlap by what their ends may step back.
LEMMA GapIsBlank ==
  ASSUME InWindow, job.overlap >= StepBack,
         SliceOk(cursor, ClampWordEnd(cursor)),
         NEW i \in Int, ClampWordEnd(cursor) <= i, i < ClampWordStart(cursor + Step)
  PROVE  Blank(i)
<1> DEFINE end   == ClampWordEnd(cursor)
           start == ClampWordStart(cursor + Step)
<1> SUFFICES ASSUME ~Blank(i) PROVE FALSE
  OBVIOUS
<1>0. /\ cursor \in Bytes /\ job.text[cursor] # "rest" /\ Size \in Nat /\ body.to \in 0 .. Size
      /\ job.max \in Nat \ {0} /\ job.overlap \in Nat /\ StepBack \in Nat \ {0}
      /\ Step \in Nat \ {0} /\ Step <= job.max
      /\ job.max > job.overlap => Step = job.max - job.overlap
      /\ job.max <= job.overlap => Step = 1
  BY WindowFacts
<1>1. end \in Int /\ cursor <= end /\ Boundary(end) /\ (Blank(end) \/ end = body.to \/ end >= cursor + Step)
      /\ (end >= cursor + job.max - StepBack \/ end = body.to)
  <2>1. end \in Int /\ cursor <= end /\ Boundary(end)
    BY EndFacts DEF SliceOk
  <2>2. \/ Blank(end) /\ end >= cursor + job.max - StepBack
        \/ end = body.to \/ end >= cursor + job.max
    BY EndFacts
  <2> HIDE DEF end
  <2>3. cursor \in Int
    BY <1>0 DEF Bytes
  <2> QED
    BY <1>0, <2>1, <2>2, <2>3
<1>2. start \in Int /\ start <= body.to /\ \A k \in cursor + Step .. body.to - 1 : Boundary(k) /\ ~Blank(k) => start <= k
  BY StartFacts
<1> HIDE DEF end, start
<1>3. end <= i /\ i < start
  BY DEF end, start
<1>4. end < body.to /\ i \in Bytes /\ cursor \in Nat
  BY <1>0, <1>1, <1>2, <1>3 DEF Bytes
<1>5. end >= cursor + Step \/ (end = cursor /\ Step = 1 /\ Blank(cursor))
  BY <1>0, <1>1, <1>4
<1>6. i >= cursor + Step
  <2>1. CASE end >= cursor + Step
    BY <1>0, <1>1, <1>3, <1>4, <2>1
  <2>2. CASE end = cursor /\ Step = 1 /\ Blank(cursor)
    BY <1>0, <1>1, <1>3, <1>4, <2>2
  <2> QED
    BY <1>5, <2>1, <2>2
<1>7. job.text[i] = "rest"
  BY <1>0, <1>2, <1>3, <1>4, <1>6 DEF Boundary, Starts
<1> DEFINE heads == {k \in 0 .. i : job.text[k] # "rest"}
<1>8. \A k \in Bytes : job.text[k] = "rest" => k > 0 /\ job.text[k - 1] # "space"
  BY JobFacts DEF InWindow
<1>9. cursor \in heads
  BY <1>0, <1>4, <1>6
<1>10. PICK m \in heads : \A k \in heads : k <= m
  <2>1. heads \in SUBSET (0 .. i) /\ i \in Int /\ 0 \in Int
    BY <1>4 DEF Bytes
  <2> HIDE DEF heads
  <2> QED
    BY <1>9, <2>1, Extremes
<1>11. m \in Int /\ cursor <= m /\ m < i /\ \A k \in m + 1 .. i : job.text[k] = "rest"
  BY <1>0, <1>4, <1>7, <1>9, <1>10
<1>12. ~Blank(m) /\ Boundary(m)
  <2>1. m + 1 \in Bytes /\ job.text[m + 1] = "rest"
    BY <1>0, <1>4, <1>11 DEF Bytes
  <2>2. job.text[m] # "space"
    BY <1>8, <1>11, <2>1
  <2> QED
    BY <1>0, <1>4, <1>10, <1>11, <2>2 DEF Blank, Boundary, Starts, Bytes
<1>13. m < cursor + Step
  BY <1>0, <1>2, <1>3, <1>4, <1>11, <1>12 DEF Bytes
<1>14. CASE end >= cursor + Step
  <2>1. end \in m + 1 .. i
    BY <1>0, <1>1, <1>3, <1>4, <1>11, <1>13, <1>14
  <2>2. job.text[end] = "rest" /\ end < Size
    BY <1>0, <1>4, <1>11, <2>1
  <2> QED
    BY <1>1, <2>2 DEF Boundary, Starts
<1>15. CASE end = cursor /\ Step = 1 /\ Blank(cursor)
  BY <1>0, <1>4, <1>11, <1>12, <1>13, <1>15
<1> QED
  BY <1>5, <1>14, <1>15

\* Without characters of several bytes, and with a window of at least the bytes
\* its end may step back, the window is cut where it may be.
LEMMA CutsWell ==
  ASSUME InWindow, job.max >= StepBack, \A i \in Bytes : job.text[i] # "rest"
  PROVE  SliceOk(cursor, ClampWordEnd(cursor))
<1> DEFINE end == ClampWordEnd(cursor)
<1>0. /\ cursor \in Nat /\ Size \in Nat /\ body.to \in 0 .. Size /\ cursor < body.to
      /\ job.max \in Nat \ {0} /\ StepBack \in Nat \ {0}
  BY WindowFacts DEF Bytes
<1>1. end \in Int /\ end <= body.to
  BY EndFacts
<1>2. end >= cursor + job.max - StepBack \/ end = body.to \/ end >= cursor + job.max
  BY EndFacts
<1> HIDE DEF end
<1>3. cursor <= end /\ end \in 0 .. Size
  BY <1>0, <1>1, <1>2
<1>4. Boundary(end)
  BY <1>0, <1>3 DEF Boundary, Starts, Bytes
<1> QED
  BY <1>3, <1>4 DEF SliceOk, end

\* A window has less than twice the characters that are asked for.
LEMMA WindowFits ==
  ASSUME InWindow, NEW T \in SUBSET (cursor .. ClampWordEnd(cursor) - 1)
  PROVE  Cardinality(Starts(T)) < 2 * job.max
<1> DEFINE end  == ClampWordEnd(cursor)
           C    == Counted(cursor)
           last == Max(C)
           tail == last + 1 .. last + job.max - 1
<1>0. cursor \in Nat /\ body.to \in Nat /\ job.max \in Nat \ {0}
  BY WindowFacts DEF Bytes
<1>1. /\ last \in Int /\ last \in cursor .. body.to - 1
      /\ \A i \in Starts(cursor .. body.to - 1) : i <= last => i \in C
      /\ IsFiniteSet(C) /\ Cardinality(C) \in Nat /\ Cardinality(C) <= job.max
  <2>1. last \in cursor .. body.to - 1
    BY CountFacts
  <2> QED
    BY <1>0, <2>1, CountFacts
<1>2. end \in Int /\ end <= body.to /\ end <= last + job.max
  <2>1. end \in Int /\ end <= body.to /\ (end <= last \/ end <= last + job.max)
    BY EndFacts
  <2> HIDE DEF end, last
  <2> QED
    BY <1>0, <1>1, <2>1
<1> HIDE DEF end, last, C
<1>3. Starts(T) \subseteq C \cup tail
  <2> SUFFICES ASSUME NEW i \in Starts(T), ~(i <= last) PROVE i \in tail
    <3>1. \A i \in Starts(T) : i \in Starts(cursor .. body.to - 1)
      BY <1>0, <1>2 DEF Starts, end
    <3> QED
      BY <1>1, <3>1
  <2>1. i \in cursor .. end - 1
    BY DEF Starts, end
  <2> QED
    BY <1>0, <1>1, <1>2, <2>1
<1>4. IsFiniteSet(tail) /\ Cardinality(tail) = job.max - 1
  <2> DEFINE a == last + 1
             b == last + job.max - 1
  <2>1. a \in Int /\ b \in Int /\ b - a + 1 = job.max - 1 /\ a <= b + 1 /\ tail = a .. b
    BY <1>0, <1>1
  <2> HIDE DEF a, b, tail
  <2>2. IsFiniteSet(a .. b) /\ Cardinality(a .. b) = b - a + 1
    BY <2>1, FS_Interval
  <2> QED
    BY <2>1, <2>2
<1>5. /\ IsFiniteSet(C \cup tail) /\ IsFiniteSet(C \cap tail)
      /\ Cardinality(C \cup tail) = Cardinality(C) + Cardinality(tail) - Cardinality(C \cap tail)
  <2>1. IsFiniteSet(C \cap tail)
    BY <1>1, FS_Subset
  <2> HIDE DEF tail
  <2> QED
    BY <1>1, <1>4, <2>1, FS_Union
<1>6. Cardinality(C \cap tail) \in Nat
  BY <1>5, FS_CardinalityType
<1>7. IsFiniteSet(Starts(T)) /\ Cardinality(Starts(T)) <= Cardinality(C \cup tail)
  BY <1>3, <1>5, FS_Subset
<1>8. Cardinality(Starts(T)) \in Nat
  BY <1>7, FS_CardinalityType
<1> HIDE DEF tail
<1> QED
  BY <1>0, <1>1, <1>4, <1>5, <1>6, <1>7, <1>8

\* A piece of a sentence ends at a character, behind its start, and has no more
\* than max.
LEMMA PieceFacts ==
  ASSUME InWindow
  PROVE  LET end == PieceEnd(cursor) IN
         /\ Boundary(end) \/ end = body.to
         /\ end \in cursor + 1 .. body.to
         /\ Starts(cursor .. end - 1) \subseteq Counted(cursor)
<1> DEFINE end   == PieceEnd(cursor)
           C     == Counted(cursor)
           S     == Starts(cursor .. body.to - 1)
           later == {body.to} \cup (S \ C)
<1>0. /\ cursor \in Nat /\ body.to \in 0 .. Size /\ Size \in Nat /\ cursor < body.to
      /\ job.text[cursor] # "rest"
  BY WindowFacts DEF Bytes
<1>1. /\ Max(C) \in cursor .. body.to - 1 /\ \A i \in S : i <= Max(C) => i \in C
      /\ S \subseteq cursor .. body.to - 1
  BY CountFacts DEF Starts
<1>2. later \in SUBSET (cursor + 1 .. body.to)
  <2> SUFFICES ASSUME NEW i \in S, i \notin C PROVE i \in cursor + 1 .. body.to
    BY <1>0
  <2>1. ~(i <= Max(C)) /\ i \in cursor .. body.to - 1
    BY <1>1
  <2> HIDE DEF C
  <2> QED
    BY <1>0, <1>1, <2>1
<1>3. end \in later /\ end \in cursor + 1 .. body.to /\ \A i \in later : end <= i
  <2>1. end = Min(later)
    BY DEF PieceEnd
  <2>2. later # {} /\ cursor + 1 \in Int /\ body.to \in Int
    BY <1>0
  <2> HIDE DEF later, end
  <2> QED
    BY <1>2, <2>1, <2>2, Extremes
<1> HIDE DEF end
<1>4. Boundary(end) \/ end = body.to
  BY <1>0, <1>3 DEF Boundary, Starts, Bytes
<1>5. ASSUME NEW i \in Starts(cursor .. end - 1) PROVE i \in C
  <2>1. i \in S /\ i < end
    BY <1>0, <1>3, <1>5 DEF Starts
  <2>2. i \notin later
    <3>1. i \in Int /\ end \in Int
      BY <1>0, <1>3, <1>5 DEF Starts
    <3> QED
      BY <1>3, <2>1, <3>1
  <2> QED
    BY <2>1, <2>2
<1> QED
  BY <1>3, <1>4, <1>5 DEF end

-----------------------------------------------------------------------------
(* Every state.                                                            *)

\* What is so at every place of every strategy.
JobInv ==
  /\ job \in Jobs /\ pc \in PC /\ next \in Nat
  /\ pc = "start" => next = 0
  /\ pc \in {"regions", "window", "panic"} =>
       job.strategy \in {"fixed", "markdown"} /\ next \in 0 .. Len(job.heads) + 1
  /\ pc \in {"sentences", "split"} =>
       job.strategy = "sentence" /\ next \in 1 .. Len(job.sentences) + 1
  /\ pc \in {"window", "split", "panic"} => InWindow
  /\ pc \notin {"window", "split", "panic"} => body = NoBody /\ cursor = 0

\* A text with a word begins to be windowed at its first character.
LEMMA SlideSteps ==
  ASSUME JobInv, UNCHANGED job, NEW a \in 0 .. Size - 1, NEW b \in a + 1 .. Size, Boundary(a),
         body = NoBody, cursor = 0, Slide(a, b)
  PROVE  /\ pc' \in {"regions", "window"}
         /\ pc' = "window" => InWindow'
         /\ pc' = "regions" => body' = NoBody /\ cursor' = 0
<1>0. job \in Jobs /\ Size \in Nat
  BY JobFacts DEF JobInv
<1>1. CASE Wordless(a .. b - 1)
  BY <1>1 DEF Slide
<1>2. CASE ~Wordless(a .. b - 1)
  <2>1. body' = [from |-> a, to |-> b] /\ cursor' = a /\ pc' = "window"
    BY <1>2 DEF Slide
  <2>2. a \in Places(job) /\ b \in Places(job)
    BY <1>0 DEF Places, Size
  <2>3. Boundary(a)'
    BY DEF Boundary, Starts, Bytes, Size
  <2>4. body'.from = a /\ body'.to = b /\ cursor' \in a .. b - 1
    BY <1>0, <2>1
  <2>5. body' \in [from : Places(job'), to : Places(job')]
    BY <2>1, <2>2
  <2> QED
    BY <1>0, <2>1, <2>3, <2>4, <2>5 DEF InWindow, Boundary
<1> QED
  BY <1>1, <1>2

\* No chunker has begun.
LEMMA JobInit == Init => JobInv
  BY ChunkConstants DEF Init, JobInv, PC

\* Every step leaves the document alone and its cuts on characters.
LEMMA JobStep == JobInv /\ [Next]_vars => JobInv'
<1> SUFFICES ASSUME JobInv, [Next]_vars PROVE JobInv'
  OBVIOUS
<1>0. job' = job /\ job \in Jobs /\ next \in Nat
  BY DEF JobInv, Next, vars, Returned, WholeDocument, Fixed, Markdown, Sentences,
         Window, TakeRegion, LastRegion, TakeSentence, Split, LastSentence
<1>1. CASE Returned \/ UNCHANGED vars
  BY <1>1 DEF Returned, vars, JobInv, InWindow, Boundary, Starts, Bytes, Size
<1>2. CASE WholeDocument \/ Markdown \/ Sentences
  BY <1>0, <1>2, JobFacts DEF WholeDocument, Markdown, Sentences, JobInv, PC, ByHeadings, Strategies
<1>3. CASE LastRegion \/ LastSentence
  BY <1>0, <1>3 DEF LastRegion, LastSentence, JobInv, PC
<1>7. CASE TakeSentence
  <2> DEFINE s == job.sentences[next]
             S == s.from .. s.to - 1
  <2>1. /\ pc = "sentences" /\ job.strategy = "sentence" /\ next \in 1 .. Len(job.sentences) + 1
        /\ next <= Len(job.sentences) /\ next' = next + 1 /\ body = NoBody /\ cursor = 0
    BY <1>7 DEF TakeSentence, JobInv
  <2>2. Len(job.sentences) \in Nat /\ next \in 1 .. Len(job.sentences)
    BY <1>0, <2>1, ChunkConstants
  <2>3. next' \in 1 .. Len(job.sentences) + 1
    BY <2>1, <2>2
  <2>4. CASE UNCHANGED <<pc, body, cursor>>
    BY <1>0, <2>1, <2>3, <2>4 DEF JobInv, PC
  <2>5. CASE Cardinality(S) > job.max /\ body' = s /\ cursor' = s.from /\ pc' = "split"
    <3>1. /\ s \in [from : Places(job), to : Places(job)] /\ Boundary(s.from)
          /\ s.from \in 0 .. Size /\ s.to \in 0 .. Size
      BY <1>0, <2>2, SentenceFacts
    <3>2. S # {}
      <4>1. S = {} => Cardinality(S) = 0
        BY FS_EmptySet
      <4> HIDE DEF S
      <4> QED
        BY <1>0, <2>5, <4>1, JobFacts
    <3>3. s.from \in s.from .. s.to - 1
      BY <1>0, <3>1, <3>2, JobFacts
    <3> HIDE DEF s
    <3>4. Boundary(cursor)'
      BY <1>0, <2>5, <3>1 DEF Boundary, Starts, Bytes, Size
    <3>5. InWindow'
      BY <1>0, <2>5, <3>1, <3>3, <3>4 DEF InWindow
    <3> QED
      BY <1>0, <2>1, <2>3, <2>5, <3>5 DEF JobInv, PC
  <2> QED
    BY <1>7, <2>4, <2>5 DEF TakeSentence
<1>8. CASE Split
  <2> DEFINE end == PieceEnd(cursor)
  <2>0. /\ InWindow /\ pc = "split" /\ UNCHANGED <<job, next>> /\ job.strategy = "sentence"
        /\ next \in 1 .. Len(job.sentences) + 1
    BY <1>8 DEF Split, JobInv
  <2>1. CASE end < body.to /\ cursor' = end /\ UNCHANGED <<pc, body>>
    <3>1. end \in cursor + 1 .. body.to /\ (Boundary(end) \/ end = body.to)
      BY <2>0, PieceFacts
    <3>2. /\ body.from \in 0 .. Size /\ body.to \in 0 .. Size /\ Size \in Nat
          /\ cursor \in body.from .. body.to - 1
      BY <2>0, WindowFacts DEF InWindow
    <3> HIDE DEF end
    <3>3. cursor' \in body.from .. body.to - 1 /\ Boundary(end)
      BY <2>1, <3>1, <3>2
    <3>4. Boundary(cursor)'
      BY <2>0, <2>1, <3>3 DEF Boundary, Starts, Bytes, Size
    <3>5. InWindow'
      BY <2>0, <2>1, <3>3, <3>4 DEF InWindow
    <3> QED
      BY <1>0, <2>0, <2>1, <3>5 DEF JobInv, PC
  <2>2. CASE cursor' = 0 /\ body' = NoBody /\ pc' = "sentences"
    BY <1>0, <2>0, <2>2 DEF JobInv, PC
  <2> QED
    BY <1>8, <2>1, <2>2 DEF Split
<1>4. CASE Fixed
  <2>1. /\ pc = "start" /\ job.strategy \in {"fixed", "markdown"} /\ next' = Len(job.heads) + 1
        /\ next' \in Nat /\ next' \in 0 .. Len(job.heads) + 1 /\ body = NoBody /\ cursor = 0 /\ Size \in Nat
    BY <1>0, <1>4, JobFacts DEF Fixed, JobInv
  <2>2. CASE Size = 0
    BY <1>0, <1>4, <2>1, <2>2 DEF Fixed, JobInv, PC
  <2>3. CASE Size # 0
    <3>1. Boundary(0) /\ 0 \in 0 .. Size - 1 /\ Size \in 0 + 1 .. Size
      BY <1>0, <2>1, <2>3, JobFacts DEF Boundary, Starts, Bytes
    <3>2. Slide(0, Size)
      BY <1>4, <2>3 DEF Fixed
    <3>3. /\ pc' \in {"regions", "window"}
          /\ pc' = "window" => InWindow'
          /\ pc' = "regions" => body' = NoBody /\ cursor' = 0
      BY <1>0, <2>1, <3>1, <3>2, SlideSteps
    <3> QED
      BY <1>0, <2>1, <3>3 DEF JobInv, PC
  <2> QED
    BY <2>2, <2>3
<1>5. CASE TakeRegion
  <2>1. /\ pc = "regions" /\ next \in 0 .. Len(job.heads) /\ next' = next + 1
        /\ body = NoBody /\ cursor = 0 /\ Size \in Nat /\ Len(job.heads) \in Nat
        /\ job.strategy \in {"fixed", "markdown"}
    BY <1>0, <1>5, JobFacts DEF TakeRegion, JobInv
  <2>2. next' \in Nat /\ next' \in 0 .. Len(job.heads) + 1
    BY <2>1
  <2> DEFINE a == RegionFrom(next)
             b == RegionTo(next)
             S == Trim(a .. b - 1)
  <2>3. CASE UNCHANGED <<pc, body, cursor>>
    BY <1>0, <2>1, <2>2, <2>3 DEF JobInv, PC
  <2>4. CASE S # {} /\ Slide(Min(S), Max(S) + 1)
    <3>1. a \in 0 .. Size /\ b \in 0 .. Size /\ (a < Size => job.text[a] # "rest")
      BY <1>0, <2>1, RegionFacts
    <3>2. Min(S) \in 0 .. Size - 1 /\ Max(S) \in 0 .. Size - 1 /\ Min(S) <= Max(S) /\ Boundary(Min(S))
      BY <1>0, <2>4, <3>1, TrimFacts
    <3> HIDE DEF S
    <3>3. Max(S) + 1 \in Min(S) + 1 .. Size
      BY <2>1, <3>2
    <3>4. /\ pc' \in {"regions", "window"}
          /\ pc' = "window" => InWindow'
          /\ pc' = "regions" => body' = NoBody /\ cursor' = 0
      BY <1>0, <2>1, <2>4, <3>2, <3>3, SlideSteps
    <3> QED
      BY <1>0, <2>1, <2>2, <3>4 DEF JobInv, PC
  <2>5. UNCHANGED <<pc, body, cursor>> \/ (S # {} /\ Slide(Min(S), Max(S) + 1))
    <3>1. S = {} => ~(Cardinality(S) > job.max)
      <4>1. S = {} => Cardinality(S) = 0
        BY FS_EmptySet
      <4>2. job.max \in Nat \ {0}
        BY <1>0, JobFacts
      <4> HIDE DEF S
      <4> QED
        BY <4>1, <4>2
    <3> QED
      BY <1>5, <3>1 DEF TakeRegion
  <2> QED
    BY <2>3, <2>4, <2>5
<1>6. CASE Window
  <2> DEFINE end   == ClampWordEnd(cursor)
             start == ClampWordStart(cursor + Step)
  <2>0. InWindow /\ pc = "window" /\ UNCHANGED <<job, next>>
        /\ job.strategy \in {"fixed", "markdown"} /\ next \in 0 .. Len(job.heads) + 1
    BY <1>6 DEF Window, JobInv
  <2>1. CASE pc' = "panic" /\ UNCHANGED <<body, cursor>>
    <3>1. InWindow'
      BY <2>0, <2>1 DEF InWindow, Boundary, Starts, Bytes, Size
    <3> QED
      BY <1>0, <2>0, <2>1, <3>1 DEF JobInv, PC
  <2>2. CASE start < body.to /\ cursor' = start /\ UNCHANGED <<pc, body>>
    <3>1. start \in cursor + 1 .. Size /\ Boundary(start)
      BY <2>0, <2>2, StartFacts
    <3>2. body.from \in 0 .. Size /\ body.to \in 0 .. Size /\ Size \in Nat /\ cursor \in body.from .. body.to - 1
      BY <2>0, WindowFacts DEF InWindow
    <3> HIDE DEF start
    <3>3. cursor' \in body.from .. body.to - 1
      BY <2>2, <3>1, <3>2
    <3>4. Boundary(cursor)'
      BY <2>0, <2>2, <3>1 DEF Boundary, Starts, Bytes, Size
    <3>5. InWindow'
      BY <2>0, <2>2, <3>3, <3>4 DEF InWindow
    <3> QED
      BY <1>0, <2>0, <2>2, <3>5 DEF JobInv, PC
  <2>3. CASE cursor' = 0 /\ body' = NoBody /\ pc' = "regions"
    BY <1>0, <2>0, <2>3 DEF JobInv, PC
  <2>4. \/ pc' = "panic" /\ UNCHANGED <<body, cursor>>
        \/ start < body.to /\ cursor' = start /\ UNCHANGED <<pc, body>>
        \/ cursor' = 0 /\ body' = NoBody /\ pc' = "regions"
    BY <1>6 DEF Window
  <2> QED
    BY <2>1, <2>2, <2>3, <2>4
<1> QED
  BY <1>1, <1>2, <1>3, <1>4, <1>5, <1>6, <1>7, <1>8 DEF Next

-----------------------------------------------------------------------------
(* Cuts move on, and fail only where they are known to.                    *)

\* A window starts after the one before it, whatever the size and the overlap,
\* and so does a piece of a sentence: every text is chunked to its end.
THEOREM WindowsAdvance == Spec => WindowAdvances
<1>1. JobInv /\ [Next]_vars =>
        [pc' = pc /\ pc \in {"window", "split"} => cursor < cursor']_vars
  <2> SUFFICES ASSUME JobInv, [Next]_vars, pc' = pc, pc \in {"window", "split"}, ~UNCHANGED vars
               PROVE  cursor < cursor'
    OBVIOUS
  <2>1. Window \/ Split
    BY DEF Next, Returned, WholeDocument, Fixed, Markdown, Sentences, TakeRegion, LastRegion,
           TakeSentence, LastSentence
  <2>2. InWindow
    BY DEF JobInv
  <2>3. cursor \in Nat /\ Size \in Nat /\ body.to \in 0 .. Size
    BY <2>2, WindowFacts DEF Bytes
  <2>4. CASE Window
    <3>1. cursor' = ClampWordStart(cursor + Step)
      BY <2>4 DEF Window
    <3>2. cursor' \in cursor + 1 .. Size
      BY <2>2, <3>1, StartFacts
    <3> QED
      BY <2>3, <3>2
  <2>5. CASE Split
    <3>1. cursor' = PieceEnd(cursor)
      BY <2>5 DEF Split
    <3>2. cursor' \in cursor + 1 .. body.to
      BY <2>2, <3>1, PieceFacts
    <3> QED
      BY <2>3, <3>2
  <2> QED
    BY <2>1, <2>4, <2>5
<1> QED
  BY JobInit, JobStep, <1>1, PTL DEF Spec, WindowAdvances

\* A window of at least the bytes its end may step back is cut where it may
\* be, unless a character has several bytes.
THEOREM PanicsAreKnown == Spec => []PanicsOnlyIf
<1>1. Init => PanicsOnlyIf
  BY DEF Init, PanicsOnlyIf
<1>2. JobInv /\ PanicsOnlyIf /\ [Next]_vars => PanicsOnlyIf'
  <2> SUFFICES ASSUME JobInv, PanicsOnlyIf, [Next]_vars PROVE PanicsOnlyIf'
    OBVIOUS
  <2>0. job' = job /\ Bytes' = Bytes
    BY DEF Next, vars, Returned, WholeDocument, Fixed, Markdown, Sentences,
           Window, TakeRegion, LastRegion, TakeSentence, Split, LastSentence, Bytes, Size
  <2>1. CASE pc' # "panic" \/ pc = "panic"
    BY <2>0, <2>1 DEF PanicsOnlyIf, Next, vars, Returned, WholeDocument, Fixed, Markdown, Sentences,
           Window, TakeRegion, LastRegion, TakeSentence, Split, LastSentence
  <2>2. CASE pc' = "panic" /\ pc # "panic"
    <3>1. Window /\ ~SliceOk(cursor, ClampWordEnd(cursor))
      BY <2>2 DEF Next, vars, Returned, WholeDocument, Fixed, Markdown, Sentences,
             Window, TakeRegion, LastRegion, TakeSentence, Split, LastSentence, Slide
    <3>2. InWindow
      BY <3>1 DEF JobInv, Window
    <3>3. ~(job.max >= StepBack) \/ \E i \in Bytes : job.text[i] = "rest"
      BY <3>1, <3>2, CutsWell
    <3>4. job.max \in Nat /\ StepBack \in Nat
      BY <3>2, WindowFacts
    <3> QED
      BY <2>0, <3>3, <3>4 DEF PanicsOnlyIf
  <2> QED
    BY <2>1, <2>2
<1> QED
  BY JobInit, JobStep, <1>1, <1>2, PTL DEF Spec

-----------------------------------------------------------------------------
(* What is in the chunks.                                                  *)

Chunk == [text : SUBSET Bytes, path : Seq(1 .. Len(job.heads))]

Has(i)  == \E k \in DOMAIN chunks : i \in chunks[k].text
Fits(T) ==
  LET n == Cardinality(Starts(T)) IN
  IF job.strategy = "sentence" THEN n <= job.max ELSE n < 2 * job.max \/ Wordless(T)
AllFit  == job.strategy # "off" => \A k \in DOMAIN chunks : Fits(chunks[k].text)

\* What the chunker is done with: regions, and the text before the window.
Region(r) == RegionFrom(r) .. RegionTo(r) - 1
Past(i) ==
  \/ pc = "done"
  \/ /\ pc \in {"regions", "window"}
     /\ IF pc = "window" /\ i \in body.from .. body.to - 1
          THEN i < cursor
          ELSE ByHeadings => \E r \in 0 .. next - 1 : i \in Region(r)

Overlaps == job.strategy = "off" \/ job.overlap >= StepBack
Covered  == Overlaps => \A i \in Bytes : ~Blank(i) /\ Past(i) => Has(i)

ContentInv ==
  /\ stack \in Seq(1 .. Len(job.heads)) /\ buf = {}
  /\ chunks \in Seq(Chunk) /\ AllFit /\ Covered

\* The strategies that window a text or take it whole.
NotPacked == job.strategy # "sentence"

\* One more chunk.
LEMMA Grow ==
  ASSUME chunks \in Seq(Chunk), AllFit, UNCHANGED job,
         NEW T \in SUBSET Bytes, NEW q \in Seq(1 .. Len(job.heads)),
         job.strategy # "off" => Fits(T),
         chunks' = Append(chunks, [text |-> T, path |-> q])
  PROVE  chunks' \in Seq(Chunk) /\ AllFit' /\ \A i : Has(i) \/ i \in T => Has(i)'
<1> DEFINE c == [text |-> T, path |-> q]
<1>1. c \in Chunk /\ c.text = T
  BY DEF Chunk
<1> HIDE DEF c
<1>2. chunks' = Append(chunks, c)
  BY DEF c
<1>3. /\ chunks' \in Seq(Chunk) /\ Len(chunks') = Len(chunks) + 1 /\ Len(chunks) \in Nat
      /\ DOMAIN chunks = 1 .. Len(chunks) /\ DOMAIN chunks' = 1 .. Len(chunks) + 1
      /\ \A k \in 1 .. Len(chunks) : chunks'[k] = chunks[k]
      /\ chunks'[Len(chunks) + 1] = c
  BY <1>1, <1>2
<1>4. AllFit'
  <2>1. \A S : Fits(S)' = Fits(S)
    BY DEF Fits, Starts, Wordless
  <2>2. ASSUME job.strategy # "off", NEW k \in DOMAIN chunks' PROVE Fits(chunks'[k].text)
    <3>1. CASE k \in 1 .. Len(chunks)
      BY <1>3, <2>2, <3>1 DEF AllFit
    <3>2. CASE k = Len(chunks) + 1
      BY <1>1, <1>3, <2>2, <3>2
    <3> QED
      BY <1>3, <2>2, <3>1, <3>2
  <2> QED
    BY <2>1, <2>2 DEF AllFit
<1>5. ASSUME NEW i, Has(i) \/ i \in T PROVE Has(i)'
  <2>1. CASE i \in T
    <3>1. Len(chunks) + 1 \in DOMAIN chunks' /\ i \in chunks'[Len(chunks) + 1].text
      BY <1>1, <1>3, <2>1
    <3> QED
      BY <3>1 DEF Has
  <2>2. CASE Has(i)
    <3>1. PICK k \in 1 .. Len(chunks) : i \in chunks[k].text
      BY <1>3, <2>2 DEF Has
    <3>2. k \in DOMAIN chunks' /\ i \in chunks'[k].text
      BY <1>3, <3>1
    <3> QED
      BY <3>2 DEF Has
  <2> QED
    BY <1>5, <2>1, <2>2
<1> QED
  BY <1>3, <1>4, <1>5

\* What is left of a text when it is trimmed, if anything is.
LEMMA GrowPushed ==
  ASSUME chunks \in Seq(Chunk), AllFit, UNCHANGED job, stack \in Seq(1 .. Len(job.heads)),
         NEW S \in SUBSET Bytes, Fits(Trim(S)), chunks' = chunks \o Pushed(S)
  PROVE  /\ chunks' \in Seq(Chunk) /\ AllFit' /\ \A i : Has(i) => Has(i)'
         /\ \A i \in S : ~Blank(i) => Has(i)'
<1>1. \A i \in S : ~Blank(i) => i \in Trim(S)
  BY JobFacts DEF Trim, Bytes
<1>2. CASE Trim(S) = {}
  <2>1. chunks' = chunks
    BY <1>2 DEF Pushed
  <2>2. AllFit'
    BY <2>1 DEF AllFit, Fits, Starts, Wordless
  <2> QED
    BY <1>1, <1>2, <2>1, <2>2 DEF Has
<1>3. CASE Trim(S) # {}
  <2> DEFINE c == [text |-> Trim(S), path |-> stack]
  <2>1. Trim(S) \in SUBSET Bytes
    BY DEF Trim
  <2>2. c \in Chunk
    BY <2>1 DEF Chunk
  <2>3. chunks' = Append(chunks, c)
    <3>1. chunks' = chunks \o <<c>>
      BY <1>3 DEF Pushed
    <3> HIDE DEF c
    <3> QED
      BY <2>2, <3>1
  <2>4. chunks' \in Seq(Chunk) /\ AllFit' /\ \A i : Has(i) \/ i \in Trim(S) => Has(i)'
    BY <2>1, <2>3, Grow
  <2> QED
    BY <1>1, <2>4
<1> QED
  BY <1>2, <1>3

\* The headings above a heading.
LEMMA PathType ==
  ASSUME job \in Jobs, stack \in Seq(1 .. Len(job.heads)), NEW r \in 1 .. Len(job.heads)
  PROVE  Append(Popped(r), r) \in Seq(1 .. Len(job.heads))
<1> DEFINE above == {0} \cup {k \in DOMAIN stack : job.heads[stack[k]].level < job.heads[r].level}
<1>1. above \in SUBSET (0 .. Len(stack)) /\ above # {} /\ 0 \in Int /\ Len(stack) \in Int
  OBVIOUS
<1>2. Max(above) \in 0 .. Len(stack)
  <2> HIDE DEF above
  <2> QED
    BY <1>1, Extremes
<1>3. Popped(r) = SubSeq(stack, 1, Max(above))
  BY DEF Popped
<1> HIDE DEF above
<1>4. Popped(r) \in Seq(1 .. Len(job.heads))
  BY <1>1, <1>2, <1>3
<1> QED
  BY <1>4

\* Every byte is in a region: in the last that begins at it or before it.
LEMMA RegionsCover ==
  ASSUME job \in Jobs, NEW i \in Bytes
  PROVE  \E r \in 0 .. Len(job.heads) : i \in Region(r)
<1> DEFINE begun == {r \in 0 .. Len(job.heads) : RegionFrom(r) <= i}
<1>0. Len(job.heads) \in Nat /\ Size \in Nat /\ i \in Nat /\ i < Size
  BY JobFacts DEF Bytes
<1>1. begun \in SUBSET (0 .. Len(job.heads)) /\ begun # {} /\ 0 \in Int /\ Len(job.heads) \in Int
  <2>1. 0 \in begun
    BY <1>0 DEF RegionFrom
  <2> QED
    BY <1>0, <2>1
<1>2. Max(begun) \in begun /\ \A x \in begun : x <= Max(begun)
  <2> HIDE DEF begun
  <2> QED
    BY <1>1, Extremes
<1>3. PICK r \in begun : \A x \in begun : x <= r
  BY <1>2
<1>4. i < RegionTo(r)
  <2>1. CASE r = Len(job.heads)
    BY <1>0, <2>1 DEF RegionTo
  <2>2. CASE r # Len(job.heads)
    <3>1. r + 1 \in 1 .. Len(job.heads) /\ r + 1 \notin begun
      BY <1>0, <1>3, <2>2
    <3>2. RegionFrom(r + 1) = RegionTo(r)
      BY <1>0, <2>2, <3>1 DEF RegionFrom, RegionTo
    <3>3. RegionFrom(r + 1) \in 0 .. Size
      BY <1>0, <3>1, RegionFacts
    <3> QED
      BY <1>0, <3>1, <3>2, <3>3
  <2> QED
    BY <2>1, <2>2
<1>5. RegionFrom(r) \in Int /\ RegionTo(r) \in Int
  BY <1>0, RegionFacts
<1> QED
  BY <1>0, <1>3, <1>4, <1>5 DEF Region

\* A text is one chunk if it has no word, and windowed if it has one.
LEMMA SlideFills ==
  ASSUME job \in Jobs, NotPacked, chunks \in Seq(Chunk), AllFit, UNCHANGED job,
         stack' \in Seq(1 .. Len(job.heads)), NEW a \in 0 .. Size - 1, NEW b \in a + 1 .. Size, Slide(a, b)
  PROVE  /\ chunks' \in Seq(Chunk) /\ AllFit' /\ \A i : Has(i) => Has(i)'
         /\ \/ pc' = "regions" /\ \A i \in a .. b - 1 : Has(i)'
            \/ pc' = "window" /\ body' = [from |-> a, to |-> b] /\ cursor' = a
<1>1. CASE Wordless(a .. b - 1)
  <2>1. a .. b - 1 \in SUBSET Bytes
    BY JobFacts DEF Bytes
  <2>2. pc' = "regions" /\ chunks' = Append(chunks, [text |-> a .. b - 1, path |-> stack'])
    BY <1>1 DEF Slide
  <2>3. Fits(a .. b - 1)
    BY <1>1 DEF Fits, NotPacked
  <2>4. chunks' \in Seq(Chunk) /\ AllFit' /\ \A i : Has(i) \/ i \in a .. b - 1 => Has(i)'
    BY <2>1, <2>2, <2>3, Grow
  <2> QED
    BY <2>2, <2>4
<1>2. CASE ~Wordless(a .. b - 1)
  <2>1. UNCHANGED chunks /\ pc' = "window" /\ body' = [from |-> a, to |-> b] /\ cursor' = a
    BY <1>2 DEF Slide
  <2>2. AllFit'
    BY <2>1 DEF AllFit, Fits, Starts, Wordless
  <2> QED
    BY <2>1, <2>2 DEF Has
<1> QED
  BY <1>1, <1>2

\* Nothing is past the window, and nothing in a chunk.
LEMMA ContentInit == Init => ContentInv
<1> SUFFICES ASSUME Init PROVE ContentInv
  OBVIOUS
<1>1. stack = <<>> /\ chunks = <<>> /\ buf = {} /\ pc = "start"
  BY DEF Init
<1> QED
  BY <1>1 DEF ContentInv, AllFit, Covered, Past

\* One turn of the window: what it leaves behind is in a chunk or white space.
LEMMA WindowFills ==
  ASSUME JobInv, ContentInv, Window PROVE ContentInv'
<1> DEFINE end   == ClampWordEnd(cursor)
           start == ClampWordStart(cursor + Step)
<1>0. InWindow /\ pc = "window" /\ UNCHANGED <<job, next, stack, buf>> /\ job.strategy \in {"fixed", "markdown"}
  BY DEF Window, JobInv
<1>1. /\ body.from \in 0 .. Size /\ body.to \in 0 .. Size /\ Size \in Nat /\ cursor \in Nat
      /\ cursor < body.to /\ end \in Int /\ end <= body.to
      /\ start \in Int /\ start <= body.to
  <2>1. body.from \in 0 .. Size /\ body.to \in 0 .. Size /\ Size \in Nat /\ cursor \in Nat /\ cursor < body.to
    BY <1>0, WindowFacts DEF Bytes
  <2>2. end \in Int /\ end <= body.to
    BY <1>0, EndFacts
  <2>3. start \in cursor + 1 .. Size /\ start <= body.to
    BY <1>0, StartFacts
  <2> HIDE DEF end, start
  <2> QED
    BY <2>1, <2>2, <2>3
<1>2. CASE pc' = "panic" /\ UNCHANGED chunks
  BY <1>0, <1>2 DEF ContentInv, AllFit, Fits, Starts, Wordless, Covered, Past, Chunk, Bytes, Size
<1>3. CASE /\ SliceOk(cursor, end)
           /\ chunks' = chunks \o Pushed(cursor .. end - 1)
           /\ IF end < body.to /\ start < body.to
                THEN cursor' = start /\ UNCHANGED <<pc, body>>
                ELSE cursor' = 0 /\ body' = NoBody /\ pc' = "regions"
  <2> DEFINE S == cursor .. end - 1
  <2>1. S \in SUBSET Bytes
    <3> HIDE DEF end
    <3> QED
      BY <1>1 DEF Bytes
  <2>2. Fits(Trim(S))
    <3>1. Trim(S) \in SUBSET (cursor .. end - 1)
      BY DEF Trim
    <3> QED
      BY <1>0, <3>1, WindowFits DEF Fits
  <2>3. /\ chunks' \in Seq(Chunk) /\ AllFit' /\ \A i : Has(i) => Has(i)'
        /\ \A i \in S : ~Blank(i) => Has(i)'
    BY <1>0, <1>3, <2>1, <2>2, GrowPushed DEF ContentInv
  <2>4. /\ Chunk' = Chunk /\ Bytes' = Bytes /\ \A i : Blank(i)' = Blank(i)
        /\ Overlaps' = Overlaps /\ ByHeadings' = ByHeadings /\ \A r : Region(r)' = Region(r)
    BY <1>0 DEF Chunk, Bytes, Size, Blank, Overlaps, ByHeadings, Region, RegionFrom, RegionTo
  <2>5. ASSUME Overlaps, NEW i \in Int, end <= i, i < start PROVE Blank(i)
    <3>1. job.overlap >= StepBack
      BY <1>0, <2>5 DEF Overlaps
    <3> QED
      BY <1>0, <1>3, <2>5, <3>1, GapIsBlank
  <2>6. ASSUME Overlaps, NEW i \in Bytes, ~Blank(i), Past(i)' PROVE Has(i)'
    <3>0. i \in Int
      BY <1>1 DEF Bytes
    <3> HIDE DEF end, start
    <3>1. CASE i \notin body.from .. body.to - 1
      <4>1. Past(i)
        BY <1>0, <1>3, <2>4, <2>6, <3>1 DEF Past
      <4> QED
        BY <2>3, <2>6, <4>1 DEF ContentInv, Covered
    <3>2. CASE i \in body.from .. cursor - 1
      <4>1. Past(i)
        BY <1>0, <1>1, <3>0, <3>2 DEF Past
      <4> QED
        BY <2>3, <2>6, <4>1 DEF ContentInv, Covered
    <3>3. CASE i \in cursor .. end - 1
      BY <2>3, <2>6, <3>3
    <3>4. CASE i \in end .. body.to - 1
      <4>1. i >= start
        BY <1>1, <2>5, <2>6, <3>0, <3>4
      <4>2. end < body.to /\ start < body.to
        BY <1>1, <3>0, <3>4, <4>1
      <4>3. cursor' = start /\ UNCHANGED <<pc, body>>
        BY <1>3, <4>2
      <4>4. cursor <= end
        BY <1>3 DEF SliceOk, end
      <4>5. i \in body.from .. body.to - 1
        BY <1>0, <1>1, <3>4, <4>4 DEF InWindow
      <4> QED
        BY <1>0, <1>1, <2>6, <3>0, <4>1, <4>3, <4>5 DEF Past
    <3> QED
      BY <1>1, <3>0, <3>1, <3>2, <3>3, <3>4
  <2>7. Covered'
    BY <2>4, <2>6 DEF Covered
  <2> QED
    BY <1>0, <2>3, <2>4, <2>7 DEF ContentInv
<1> QED
  BY <1>2, <1>3 DEF Window

\* A region that is taken is in a chunk, or about to be windowed.
LEMMA RegionFills ==
  ASSUME JobInv, ContentInv, TakeRegion PROVE ContentInv'
<1> DEFINE a == RegionFrom(next)
           b == RegionTo(next)
           S == Trim(Region(next))
<1>0. /\ job \in Jobs /\ pc = "regions" /\ next \in 0 .. Len(job.heads) /\ Len(job.heads) \in Nat
      /\ job.max \in Nat \ {0} /\ Size \in Nat
      /\ next' = next + 1 /\ UNCHANGED <<job, buf>> /\ job.strategy \in {"fixed", "markdown"}
  BY JobFacts DEF TakeRegion, JobInv
<1>1. stack' \in Seq(1 .. Len(job.heads))
  <2>1. CASE next = 0
    BY <2>1 DEF TakeRegion, ContentInv
  <2>2. CASE next # 0
    <3>1. next \in 1 .. Len(job.heads) /\ stack' = Append(Popped(next), next)
      BY <1>0, <2>2 DEF TakeRegion
    <3> QED
      BY <1>0, <3>1, PathType DEF ContentInv
  <2> QED
    BY <2>1, <2>2
<1>2. S \in SUBSET Bytes /\ \A i \in Region(next) : ~Blank(i) => i \in S
  <2>1. a \in 0 .. Size /\ b \in 0 .. Size
    BY <1>0, RegionFacts
  <2> HIDE DEF a, b
  <2>2. Region(next) = a .. b - 1
    BY DEF Region, a, b
  <2>3. a .. b - 1 \in SUBSET Bytes
    BY <1>0, <2>1 DEF Bytes
  <2> QED
    BY <1>0, <2>2, <2>3 DEF Trim, Bytes
<1>3. ASSUME \A i : Has(i) => Has(i)', chunks' \in Seq(Chunk), AllFit', pc' \in {"regions", "window"},
             pc' = "regions" => \A i \in S : Has(i)',
             pc' = "window" => /\ body'.from \in Int /\ cursor' = body'.from
                               /\ S \subseteq body'.from .. body'.to - 1
      PROVE  ContentInv'
  <2>1. /\ Chunk' = Chunk /\ Bytes' = Bytes /\ \A i : Blank(i)' = Blank(i)
        /\ Overlaps' = Overlaps /\ ByHeadings' = ByHeadings /\ \A r : Region(r)' = Region(r)
    BY <1>0 DEF Chunk, Bytes, Size, Blank, Overlaps, ByHeadings, Region, RegionFrom, RegionTo
  <2>2. ASSUME Overlaps, NEW i \in Bytes, ~Blank(i), Past(i)' PROVE Has(i)'
    <3>1. CASE i \in S
      BY <1>3, <2>2, <3>1 DEF Past
    <3>2. CASE i \notin S /\ Past(i)
      BY <1>3, <2>2, <3>2 DEF ContentInv, Covered
    <3>3. CASE i \notin S /\ ~Past(i)
      <4>1. ByHeadings /\ \A r \in 0 .. next - 1 : i \notin Region(r)
        BY <1>0, <3>3 DEF Past
      <4>2. i \notin Region(next)
        BY <1>2, <2>2, <3>3
      <4>3. \A r \in 0 .. next : i \notin Region(r)
        BY <1>0, <4>1, <4>2
      <4>4. ~(ByHeadings' => \E r \in 0 .. next' - 1 : i \in Region(r)')
        <5>1. next' - 1 = next
          BY <1>0
        <5> QED
          BY <2>1, <4>1, <4>3, <5>1
      <4>5. pc' = "window" /\ i \in body'.from .. body'.to - 1 /\ i < cursor'
        BY <1>3, <2>2, <4>4 DEF Past
      <4> QED
        BY <1>0, <1>3, <2>2, <4>5 DEF Bytes
    <3> QED
      BY <3>1, <3>2, <3>3
  <2>3. Covered'
    BY <2>1, <2>2 DEF Covered
  <2> QED
    BY <1>0, <1>1, <1>3, <2>1, <2>3 DEF ContentInv
<1>4. CASE S = {} /\ UNCHANGED <<pc, body, cursor, chunks>>
  <2>1. AllFit' /\ \A i : Has(i) => Has(i)'
    BY <1>0, <1>4 DEF ContentInv, AllFit, Fits, Starts, Wordless, Has
  <2> HIDE DEF S
  <2> QED
    BY <1>0, <1>3, <1>4, <2>1 DEF ContentInv
<1>5. CASE /\ Cardinality(S) \in 1 .. job.max
           /\ chunks' = Append(chunks, [text |-> S, path |-> stack'])
           /\ UNCHANGED <<pc, body, cursor>>
  <2> HIDE DEF S
  <2>1. IsFiniteSet(Bytes)
    BY <1>0, FS_Interval DEF Bytes
  <2>2. IsFiniteSet(S) /\ Starts(S) \in SUBSET S
    BY <1>2, <2>1, FS_Subset DEF Starts
  <2>3. Cardinality(Starts(S)) <= Cardinality(S) /\ Cardinality(Starts(S)) \in Nat
    BY <2>2, FS_Subset, FS_CardinalityType
  <2>4. Fits(S)
    BY <1>0, <1>5, <2>3 DEF Fits
  <2>5. chunks' \in Seq(Chunk) /\ AllFit' /\ \A i : Has(i) \/ i \in S => Has(i)'
    BY <1>0, <1>1, <1>2, <1>5, <2>4, Grow DEF ContentInv
  <2> QED
    BY <1>0, <1>3, <1>5, <2>5
<1>6. CASE S # {} /\ Slide(Min(S), Max(S) + 1)
  <2>1. a \in 0 .. Size /\ b \in 0 .. Size /\ (a < Size => job.text[a] # "rest") /\ S = Trim(a .. b - 1)
    BY <1>0, RegionFacts DEF Region
  <2> HIDE DEF a, b
  <2>2. /\ S \subseteq Min(S) .. Max(S) /\ Min(S) \in 0 .. Size - 1 /\ Max(S) \in 0 .. Size - 1
        /\ Min(S) <= Max(S)
    BY <1>0, <1>6, <2>1, TrimFacts
  <2> HIDE DEF S
  <2>3. Max(S) + 1 \in Min(S) + 1 .. Size /\ Min(S) .. (Max(S) + 1) - 1 = Min(S) .. Max(S)
    BY <1>0, <2>2
  <2>4. /\ chunks' \in Seq(Chunk) /\ AllFit' /\ \A i : Has(i) => Has(i)'
        /\ \/ pc' = "regions" /\ \A i \in Min(S) .. (Max(S) + 1) - 1 : Has(i)'
           \/ pc' = "window" /\ body' = [from |-> Min(S), to |-> Max(S) + 1] /\ cursor' = Min(S)
    BY <1>0, <1>1, <1>6, <2>2, <2>3, SlideFills DEF ContentInv, NotPacked
  <2> QED
    BY <1>0, <1>3, <2>2, <2>3, <2>4
<1>7. \/ S = {} /\ UNCHANGED <<pc, body, cursor, chunks>>
      \/ /\ Cardinality(S) \in 1 .. job.max
         /\ chunks' = Append(chunks, [text |-> S, path |-> stack'])
         /\ UNCHANGED <<pc, body, cursor>>
      \/ S # {} /\ Slide(Min(S), Max(S) + 1)
  <2>1. S = {} => Cardinality(S) = 0
    BY FS_EmptySet
  <2>2. \/ S = {} /\ UNCHANGED <<pc, body, cursor, chunks>>
        \/ /\ Cardinality(S) \in 1 .. job.max
           /\ chunks' = Append(chunks, [text |-> S, path |-> stack'])
           /\ UNCHANGED <<pc, body, cursor>>
        \/ Cardinality(S) > job.max /\ Slide(Min(S), Max(S) + 1)
    BY DEF TakeRegion, Region
  <2> HIDE DEF S
  <2> QED
    BY <1>0, <2>1, <2>2
<1> QED
  BY <1>4, <1>5, <1>6, <1>7

\* Whatever a step goes past, it puts in a chunk.
LEMMA ContentStep ==
  JobInv /\ (NotPacked => ContentInv) /\ [Next]_vars
    => (NotPacked => ContentInv)'
<1> SUFFICES ASSUME JobInv, NotPacked => ContentInv, [Next]_vars,
                    NotPacked'
             PROVE  ContentInv'
  OBVIOUS
<1>0. job' = job /\ job \in Jobs /\ ContentInv /\ NotPacked
  BY DEF NotPacked, JobInv, Next, vars, Returned, WholeDocument, Fixed, Markdown, Sentences,
         Window, TakeRegion, LastRegion, TakeSentence, Split, LastSentence
<1>1. /\ Chunk' = Chunk /\ Bytes' = Bytes /\ \A i : Blank(i)' = Blank(i)
      /\ Overlaps' = Overlaps /\ ByHeadings' = ByHeadings /\ \A r : Region(r)' = Region(r)
      /\ \A T : Fits(T)' = Fits(T)
  BY <1>0 DEF Chunk, Bytes, Size, Blank, Overlaps, ByHeadings, Region, RegionFrom, RegionTo,
              Fits, Starts, Wordless
<1>2. CASE Returned \/ UNCHANGED vars
  <2>1. \A i : Past(i)' = Past(i) /\ Has(i)' = Has(i)
    BY <1>1, <1>2 DEF Returned, vars, Past, Has
  <2> QED
    BY <1>0, <1>1, <1>2, <2>1 DEF Returned, vars, ContentInv, AllFit, Covered
<1>3. CASE Markdown
  <2>1. \A i : Has(i)' = Has(i)
    BY <1>3 DEF Markdown, Has
  <2>2. pc' = "regions" /\ next' = 0 /\ ByHeadings /\ UNCHANGED <<stack, buf, chunks>>
    BY <1>0, <1>3 DEF Markdown, JobInv
  <2>3. \A i : ~Past(i)'
    BY <1>1, <2>2 DEF Past
  <2> QED
    BY <1>0, <1>1, <2>1, <2>2, <2>3 DEF ContentInv, AllFit, Covered
<1>4. CASE WholeDocument
  <2>1. /\ job.strategy = "off" /\ UNCHANGED <<stack, buf>> /\ Size \in Nat
        /\ chunks' = IF Size = 0 THEN <<>> ELSE <<[text |-> Bytes, path |-> <<>>]>>
    BY <1>0, <1>4, JobFacts DEF WholeDocument
  <2>2. CASE Size = 0
    BY <1>0, <1>1, <2>1, <2>2 DEF ContentInv, AllFit, Covered, Bytes
  <2>3. CASE Size # 0
    <3>1. [text |-> Bytes, path |-> <<>>] \in Chunk
      BY DEF Chunk
    <3>2. chunks' \in Seq(Chunk) /\ 1 \in DOMAIN chunks' /\ chunks'[1].text = Bytes
      BY <2>1, <2>3, <3>1
    <3>3. \A i \in Bytes : Has(i)'
      BY <3>2 DEF Has
    <3> QED
      BY <1>0, <1>1, <2>1, <3>2, <3>3 DEF ContentInv, AllFit, Covered
  <2> QED
    BY <2>2, <2>3
<1>5. CASE Fixed
  <2>0. Size \in Nat /\ stack' = <<>> /\ stack' \in Seq(1 .. Len(job.heads)) /\ buf' = {}
    BY <1>0, <1>5, JobFacts DEF Fixed, ContentInv
  <2>1. CASE Size = 0
    <3>1. Bytes = {}
      BY <2>1 DEF Bytes
    <3>2. chunks' = chunks
      BY <1>5, <2>1 DEF Fixed
    <3> QED
      BY <1>0, <1>1, <2>0, <3>1, <3>2 DEF ContentInv, AllFit, Covered
  <2>2. CASE Size # 0
    <3>1. 0 \in 0 .. Size - 1 /\ Size \in 0 + 1 .. Size /\ Slide(0, Size)
      BY <1>5, <2>0, <2>2 DEF Fixed
    <3>2. /\ chunks' \in Seq(Chunk) /\ AllFit' /\ \A i : Has(i) => Has(i)'
          /\ \/ pc' = "regions" /\ \A i \in 0 .. Size - 1 : Has(i)'
             \/ pc' = "window" /\ body' = [from |-> 0, to |-> Size] /\ cursor' = 0
      BY <1>0, <2>0, <3>1, SlideFills DEF ContentInv
    <3>3. ASSUME NEW i \in Bytes, Past(i)' PROVE Has(i)'
      <4>1. i \in 0 .. Size - 1
        BY DEF Bytes
      <4>2. CASE pc' = "regions"
        BY <3>2, <4>1, <4>2
      <4>3. CASE pc' = "window"
        <5>1. body'.from = 0 /\ body'.to = Size /\ cursor' = 0
          BY <3>2, <4>3
        <5>2. i < 0
          BY <3>3, <4>1, <4>3, <5>1 DEF Past
        <5> QED
          BY <2>0, <4>1, <5>2
      <4> QED
        BY <3>2, <4>2, <4>3
    <3> QED
      BY <1>0, <1>1, <2>0, <3>2, <3>3 DEF ContentInv, Covered
  <2> QED
    BY <2>1, <2>2
<1>6. CASE Window
  BY <1>0, <1>6, WindowFills
<1>7. CASE TakeRegion
  BY <1>0, <1>7, RegionFills
<1>8. CASE LastRegion
  <2>1. /\ pc = "regions" /\ next = Len(job.heads) + 1 /\ Len(job.heads) \in Nat
        /\ UNCHANGED <<stack, buf, chunks>>
    BY <1>0, <1>8, JobFacts DEF LastRegion, JobInv
  <2>2. ASSUME NEW i \in Bytes PROVE Past(i)
    <3>1. PICK r \in 0 .. Len(job.heads) : i \in Region(r)
      BY <1>0, RegionsCover
    <3>2. r \in 0 .. next - 1
      BY <2>1, <3>1
    <3> QED
      BY <2>1, <3>1, <3>2 DEF Past
  <2>3. \A i : Has(i)' = Has(i)
    BY <2>1 DEF Has
  <2> QED
    BY <1>0, <1>1, <2>1, <2>2, <2>3 DEF ContentInv, AllFit, Covered
<1>9. CASE Sentences \/ TakeSentence \/ Split \/ LastSentence
  BY <1>0, <1>9 DEF NotPacked, Sentences, TakeSentence, Split, LastSentence, JobInv
<1> QED
  BY <1>2, <1>3, <1>4, <1>5, <1>6, <1>7, <1>8, <1>9 DEF Next

-----------------------------------------------------------------------------
(* What packed sentences come to.                                          *)

Sentence(k) == job.sentences[k].from .. job.sentences[k].to - 1

\* The sentences that were taken, without what is still to be split.
Taken(i) ==
  \/ pc = "done"
  \/ /\ pc \in {"sentences", "split"}
     /\ IF pc = "split" /\ i \in body.from .. body.to - 1
          THEN i < cursor
          ELSE \E k \in 1 .. next - 1 : i \in Sentence(k)

\* What was taken is in a chunk or in the buffer, which is no larger than a
\* chunk may be.
PackInv ==
  /\ stack = <<>>
  /\ buf \in SUBSET Bytes /\ Cardinality(buf) <= job.max /\ (pc = "done" => buf = {})
  /\ chunks \in Seq(Chunk) /\ AllFit
  /\ \A i \in Given : ~Blank(i) /\ Taken(i) => Has(i) \/ i \in buf

\* The texts of sentences are finite.
LEMMA SetFacts ==
  ASSUME job \in Jobs, NEW S \in SUBSET Bytes
  PROVE  /\ IsFiniteSet(S) /\ Cardinality(S) \in Nat
         /\ \A R \in SUBSET S : Cardinality(R) <= Cardinality(S)
<1>1. IsFiniteSet(Bytes)
  <2>1. 0 \in Int /\ Size - 1 \in Int
    BY JobFacts
  <2> QED
    BY <2>1, FS_Interval DEF Bytes
<1>2. IsFiniteSet(S)
  BY <1>1, FS_Subset
<1> QED
  BY <1>2, FS_Subset, FS_CardinalityType

\* What is given to be packed is in some sentence.
LEMMA GivenSentences ==
  ASSUME job \in Jobs, job.strategy = "sentence"
  PROVE  /\ \A k \in 1 .. Len(job.sentences) : Sentence(k) \in SUBSET Bytes
         /\ \A i \in Given : i \in Bytes /\ \E k \in 1 .. Len(job.sentences) : i \in Sentence(k)
<1>1. ASSUME NEW k \in 1 .. Len(job.sentences) PROVE Sentence(k) \in SUBSET Bytes
  <2> DEFINE a == job.sentences[k].from
             b == job.sentences[k].to
  <2>1. a \in 0 .. Size /\ b \in 0 .. Size /\ Size \in Nat
    BY SentenceFacts, JobFacts
  <2> HIDE DEF a, b
  <2>2. a .. b - 1 \in SUBSET (0 .. Size - 1)
    BY <2>1
  <2> QED
    BY <2>2 DEF Sentence, Bytes, a, b
<1>2. DOMAIN job.sentences = 1 .. Len(job.sentences)
  BY ChunkConstants
<1> QED
  BY <1>1, <1>2 DEF Given, Sentence

\* What is as short as a chunk may be fits when it is trimmed.
LEMMA ShortFits ==
  ASSUME job \in Jobs, job.strategy = "sentence", NEW S \in SUBSET Bytes, Cardinality(Starts(S)) <= job.max
  PROVE  Fits(Trim(S))
<1>1. Starts(Trim(S)) \in SUBSET Starts(S) /\ Starts(S) \in SUBSET Bytes
  BY DEF Starts, Trim
<1>2. /\ Cardinality(Starts(Trim(S))) <= Cardinality(Starts(S))
      /\ Cardinality(Starts(Trim(S))) \in Nat /\ Cardinality(Starts(S)) \in Nat
  BY <1>1, SetFacts
<1> QED
  BY <1>2, JobFacts DEF Fits

\* A sentence is packed, or what is packed is flushed before it.
LEMMA TakeFills ==
  ASSUME JobInv, PackInv, TakeSentence
  PROVE  PackInv'
<1> DEFINE s == job.sentences[next]
           S == s.from .. s.to - 1
<1>0. /\ job \in Jobs /\ pc = "sentences" /\ job.strategy = "sentence" /\ UNCHANGED <<job, stack>>
      /\ next \in 1 .. Len(job.sentences) + 1 /\ next <= Len(job.sentences) /\ next' = next + 1
      /\ job.max \in Nat \ {0}
  BY JobFacts DEF TakeSentence, JobInv
<1>1. next \in 1 .. Len(job.sentences) /\ Len(job.sentences) \in Nat
  BY <1>0, ChunkConstants
<1>2. S = Sentence(next) /\ S \in SUBSET Bytes
  BY <1>0, <1>1, GivenSentences DEF Sentence
<1>3. /\ Chunk' = Chunk /\ Bytes' = Bytes /\ Given' = Given /\ \A i : Blank(i)' = Blank(i)
      /\ \A k : Sentence(k)' = Sentence(k)
  BY <1>0 DEF Chunk, Bytes, Size, Given, Blank, Sentence
<1> DEFINE Kept == /\ chunks' \in Seq(Chunk) /\ AllFit' /\ \A i : Has(i) => Has(i)'
                   /\ buf' \in SUBSET Bytes /\ Cardinality(buf') <= job.max
                   /\ \A i \in buf : ~Blank(i) => Has(i)' \/ i \in buf'
<1>4. ASSUME Full(S) PROVE Kept /\ buf' \in {S, {}}
  <2>1. Fits(Trim(buf))
    <3>1. Starts(buf) \in SUBSET buf
      BY DEF Starts
    <3>2. Cardinality(Starts(buf)) <= Cardinality(buf) /\ Cardinality(buf) \in Nat /\ Cardinality(Starts(buf)) \in Nat
      BY <1>0, <3>1, SetFacts DEF PackInv
    <3>3. Cardinality(Starts(buf)) <= job.max
      BY <1>0, <3>2 DEF PackInv
    <3> QED
      BY <1>0, <3>3, ShortFits DEF PackInv
  <2>2. Pushed(buf) \in Seq(Chunk) /\ Pushed({}) = <<>>
    <3>1. Trim(buf) \in SUBSET Bytes /\ Trim({}) = {} /\ <<>> \in Seq(1 .. Len(job.heads))
      BY DEF Trim, PackInv
    <3>2. [text |-> Trim(buf), path |-> stack] \in Chunk
      BY <3>1 DEF Chunk, PackInv
    <3> QED
      BY <3>1, <3>2 DEF Pushed
  <2>3. chunks \o Pushed(buf) \in Seq(Chunk)
    BY <2>2 DEF PackInv
  <2>4. (chunks \o Pushed(buf)) \o <<>> = chunks \o Pushed(buf)
    BY <2>3
  <2>5. chunks' = chunks \o Pushed(buf)
    BY <1>4, <2>2, <2>4 DEF TakeSentence
  <2>6. \/ buf' = S /\ Cardinality(S) <= job.max
        \/ buf' = {}
    BY <1>4 DEF TakeSentence
  <2> HIDE DEF S
  <2>7. buf' \in SUBSET Bytes /\ Cardinality(buf') <= job.max
    <3>1. CASE buf' = S /\ Cardinality(S) <= job.max
      BY <1>2, <3>1
    <3>2. CASE buf' = {}
      <4>1. Cardinality(buf') = 0
        BY <3>2, FS_EmptySet
      <4> QED
        BY <1>0, <3>2, <4>1
    <3> QED
      BY <2>6, <3>1, <3>2
  <2>8. /\ chunks' \in Seq(Chunk) /\ AllFit' /\ \A i : Has(i) => Has(i)'
        /\ \A i \in buf : ~Blank(i) => Has(i)'
    <3>1. stack \in Seq(1 .. Len(job.heads))
      BY DEF PackInv
    <3> QED
      BY <1>0, <2>1, <2>5, <3>1, GrowPushed DEF PackInv
  <2> QED
    BY <2>6, <2>7, <2>8
<1>5. ASSUME ~Full(S)
      PROVE  Kept /\ (buf' = buf \cup S \/ (buf' = {} /\ buf = {}))
  <2>1. buf = {} => Pushed(buf) = <<>>
    BY DEF Pushed, Trim
  <2>2. Cardinality(S) \in Nat /\ Cardinality(buf) \in Nat /\ IsFiniteSet(S) /\ IsFiniteSet(buf)
    <3> HIDE DEF S
    <3> QED
      BY <1>0, <1>2, SetFacts DEF PackInv
  <2>3. buf = {} \/ Cardinality(buf) + Cardinality(S) <= job.max
    BY <1>0, <1>5, <2>2 DEF Full
  <2>4. chunks \o <<>> = chunks
    BY DEF PackInv
  <2>5. \/ /\ Cardinality(S) <= job.max /\ chunks' = chunks /\ buf' = buf \cup S
        \/ /\ Cardinality(S) > job.max /\ chunks' = chunks \o Pushed(buf) /\ buf' = {}
    BY <1>5 DEF TakeSentence
  <2> HIDE DEF S
  <2>6. Cardinality(S) > job.max => buf = {}
    BY <1>0, <2>2, <2>3
  <2>7. chunks' = chunks /\ (buf' = buf \cup S \/ (buf' = {} /\ buf = {}))
    BY <2>1, <2>4, <2>5, <2>6
  <2>8. Cardinality(buf') <= job.max
    <3>1. CASE buf' = {}
      BY <1>0, <3>1, FS_EmptySet
    <3>2. CASE buf = {} /\ buf' = S /\ Cardinality(S) <= job.max
      BY <3>2
    <3>3. CASE Cardinality(buf) + Cardinality(S) <= job.max /\ buf' = buf \cup S
      <4>1. IsFiniteSet(buf \cap S) /\ Cardinality(buf \cup S) = Cardinality(buf) + Cardinality(S) - Cardinality(buf \cap S)
        <5>1. IsFiniteSet(buf \cap S)
          BY <2>2, FS_Subset
        <5> QED
          BY <2>2, <5>1, FS_Union
      <4>2. Cardinality(buf \cap S) \in Nat
        BY <4>1, FS_CardinalityType
      <4> QED
        BY <1>0, <2>2, <3>3, <4>1, <4>2
    <3> QED
      BY <2>3, <2>5, <3>1, <3>2, <3>3
  <2>9. buf' \in SUBSET Bytes
    BY <1>2, <2>7 DEF PackInv
  <2>10. AllFit' /\ \A i : Has(i)' = Has(i)
    BY <1>0, <2>7 DEF PackInv, AllFit, Fits, Starts, Wordless, Has
  <2> QED
    BY <2>7, <2>8, <2>9, <2>10 DEF PackInv
<1>6. Kept /\ (pc' = "sentences" => S \subseteq buf')
      /\ \/ pc' = "sentences"
         \/ pc' = "split" /\ body' = s /\ cursor' = s.from
  <2>1. \/ pc' = "sentences" /\ Cardinality(S) <= job.max
        \/ pc' = "split" /\ body' = s /\ cursor' = s.from
    BY <1>0 DEF TakeSentence
  <2>2. pc' = "sentences" => buf' = (IF Full(S) THEN {} ELSE buf) \cup S
    BY DEF TakeSentence
  <2> HIDE DEF S, Kept
  <2>3. Kept
    BY <1>4, <1>5
  <2> QED
    BY <2>1, <2>2, <2>3
<1>7. ASSUME NEW i \in Given, ~Blank(i), Taken(i)' PROVE Has(i)' \/ i \in buf'
  <2>0. i \in Int
    BY <1>0, <1>7, GivenSentences DEF Bytes
  <2>1. ASSUME Taken(i) PROVE Has(i)' \/ i \in buf'
    <3> HIDE DEF S
    <3> QED
      BY <1>6, <1>7, <2>1 DEF PackInv
  <2>2. ASSUME ~Taken(i) PROVE pc' = "sentences" /\ i \in S
    <3>1. \A k \in 1 .. next - 1 : i \notin Sentence(k)
      BY <1>0, <2>2 DEF Taken
    <3>2. (\E k \in 1 .. next' - 1 : i \in Sentence(k)) => i \in S
      <4>1. \A k \in 1 .. next' - 1 : k \in 1 .. next - 1 \/ k = next
        BY <1>0, <1>1
      <4> QED
        BY <1>2, <3>1, <4>1
    <3>3. CASE pc' = "sentences"
      BY <1>3, <1>7, <3>2, <3>3 DEF Taken
    <3>4. CASE pc' = "split" /\ body' = s /\ cursor' = s.from
      <4>1. s.from \in Int
        BY <1>0, <1>1, SentenceFacts
      <4>2. i \notin S
        <5> SUFFICES ASSUME i \in S PROVE FALSE
          OBVIOUS
        <5>1. i < s.from
          BY <1>7, <3>4 DEF Taken
        <5> QED
          BY <2>0, <4>1, <5>1
      <4>3. \E k \in 1 .. next' - 1 : i \in Sentence(k)
        BY <1>3, <1>7, <3>4, <4>2 DEF Taken
      <4> QED
        BY <3>2, <4>2, <4>3
    <3> QED
      BY <1>6, <3>3, <3>4
  <2> QED
    BY <1>6, <2>1, <2>2
<1>8. pc' # "done" /\ stack' = <<>>
  BY <1>0, <1>6 DEF PackInv
<1> HIDE DEF S
<1> QED
  BY <1>0, <1>3, <1>6, <1>7, <1>8 DEF PackInv

\* A piece of a sentence is as long as it may be, and the next begins where it
\* ends.
LEMMA SplitFills ==
  ASSUME JobInv, PackInv, Split
  PROVE  PackInv'
<1> DEFINE end == PieceEnd(cursor)
           S   == cursor .. end - 1
<1>0. /\ job \in Jobs /\ pc = "split" /\ job.strategy = "sentence" /\ InWindow
      /\ UNCHANGED <<job, next, stack, buf>> /\ job.max \in Nat \ {0}
  BY JobFacts DEF Split, JobInv
<1>1. /\ body.from \in 0 .. Size /\ body.to \in 0 .. Size /\ Size \in Nat /\ cursor \in Nat
      /\ cursor \in body.from .. body.to - 1 /\ end \in cursor + 1 .. body.to
      /\ Starts(S) \subseteq Counted(cursor)
  BY <1>0, WindowFacts, PieceFacts DEF Bytes, InWindow
<1>2. S \in SUBSET Bytes
  <2> HIDE DEF end
  <2> QED
    BY <1>1 DEF Bytes
<1> HIDE DEF end
<1>3. Fits(Trim(S))
  <2>1. /\ IsFiniteSet(Counted(cursor)) /\ Cardinality(Counted(cursor)) \in Nat
        /\ Cardinality(Counted(cursor)) <= job.max
    BY <1>0, CountFacts
  <2>2. IsFiniteSet(Starts(S)) /\ Cardinality(Starts(S)) <= Cardinality(Counted(cursor))
    BY <1>1, <2>1, FS_Subset
  <2>3. Cardinality(Starts(S)) \in Nat
    BY <2>2, FS_CardinalityType
  <2> HIDE DEF S
  <2>4. Cardinality(Starts(S)) <= job.max
    BY <1>0, <2>1, <2>2, <2>3
  <2> QED
    BY <1>0, <1>2, <2>4, ShortFits
<1> HIDE DEF S
<1>4. /\ chunks' \in Seq(Chunk) /\ AllFit' /\ \A i : Has(i) => Has(i)'
      /\ \A i \in S : ~Blank(i) => Has(i)'
  <2>1. chunks' = chunks \o Pushed(S) /\ stack \in Seq(1 .. Len(job.heads))
    BY DEF Split, PackInv, S, end
  <2> QED
    BY <1>0, <1>2, <1>3, <2>1, GrowPushed DEF PackInv
<1>5. /\ Chunk' = Chunk /\ Bytes' = Bytes /\ Given' = Given /\ \A i : Blank(i)' = Blank(i)
      /\ \A k : Sentence(k)' = Sentence(k)
  BY <1>0 DEF Chunk, Bytes, Size, Given, Blank, Sentence
<1>6. \/ end < body.to /\ cursor' = end /\ UNCHANGED <<pc, body>>
      \/ ~(end < body.to) /\ pc' = "sentences"
  BY DEF Split, end
<1>7. ASSUME NEW i \in Given, ~Blank(i), Taken(i)' PROVE Has(i)' \/ i \in buf'
  <2>0. i \in Int
    BY <1>0, <1>7, GivenSentences DEF Bytes
  <2>1. CASE Taken(i)
    BY <1>0, <1>4, <1>7, <2>1 DEF PackInv
  <2>2. CASE i \in S
    BY <1>4, <1>7, <2>2
  <2>3. CASE ~Taken(i) /\ i \notin S
    <3>1. i \in body.from .. body.to - 1
      BY <1>0, <1>5, <1>6, <1>7, <2>3 DEF Taken
    <3>2. ~(i < cursor)
      BY <1>0, <2>3, <3>1 DEF Taken
    <3>3. end <= i
      BY <1>1, <2>0, <2>3, <3>2 DEF S
    <3>4. end < body.to /\ cursor' = end /\ UNCHANGED <<pc, body>>
      BY <1>1, <1>6, <2>0, <3>1, <3>3
    <3>5. i < end
      BY <1>0, <1>7, <3>1, <3>4 DEF Taken
    <3> QED
      BY <1>1, <2>0, <3>3, <3>5
  <2> QED
    BY <2>1, <2>2, <2>3
<1>8. pc' # "done" /\ stack' = <<>>
  BY <1>0, <1>6 DEF PackInv
<1> QED
  BY <1>0, <1>4, <1>5, <1>7, <1>8 DEF PackInv

\* No sentence is taken.
LEMMA PackInit == Init => PackInv
<1> SUFFICES ASSUME Init PROVE PackInv
  OBVIOUS
<1>1. stack = <<>> /\ chunks = <<>> /\ buf = {} /\ pc = "start" /\ job \in Jobs
  BY DEF Init
<1>2. Cardinality({}) = 0 /\ job.max \in Nat
  BY <1>1, FS_EmptySet, JobFacts
<1> QED
  BY <1>1, <1>2 DEF PackInv, AllFit, Taken

\* Whatever a step takes, it puts in the buffer or in a chunk.
LEMMA PackStep ==
  JobInv /\ (~NotPacked => PackInv) /\ [Next]_vars => (~NotPacked => PackInv)'
<1> SUFFICES ASSUME JobInv, ~NotPacked => PackInv, [Next]_vars, ~NotPacked' PROVE PackInv'
  OBVIOUS
<1>0. job' = job /\ job \in Jobs /\ PackInv /\ job.strategy = "sentence"
  BY DEF NotPacked, JobInv, Next, vars, Returned, WholeDocument, Fixed, Markdown, Sentences,
         Window, TakeRegion, LastRegion, TakeSentence, Split, LastSentence
<1>1. /\ Chunk' = Chunk /\ Bytes' = Bytes /\ Given' = Given /\ \A i : Blank(i)' = Blank(i)
      /\ \A k : Sentence(k)' = Sentence(k) /\ \A T : Fits(T)' = Fits(T)
  BY <1>0 DEF Chunk, Bytes, Size, Given, Blank, Sentence, Fits, Starts, Wordless
<1>2. CASE Returned \/ UNCHANGED vars
  <2>1. \A i : Taken(i)' = Taken(i) /\ Has(i)' = Has(i)
    BY <1>1, <1>2 DEF Returned, vars, Taken, Has
  <2> QED
    BY <1>0, <1>1, <1>2, <2>1 DEF Returned, vars, PackInv, AllFit
<1>3. CASE Sentences
  <2>1. \A i : ~Taken(i)'
    BY <1>1, <1>3 DEF Sentences, Taken
  <2> QED
    BY <1>0, <1>1, <1>3, <2>1 DEF Sentences, PackInv, AllFit
<1>4. CASE TakeSentence
  BY <1>0, <1>4, TakeFills
<1>5. CASE Split
  BY <1>0, <1>5, SplitFills
<1>6. CASE LastSentence
  <2>1. /\ pc = "sentences" /\ next > Len(job.sentences) /\ next \in 1 .. Len(job.sentences) + 1
        /\ UNCHANGED <<job, stack>> /\ chunks' = chunks \o Pushed(buf) /\ buf' = {} /\ pc' = "done"
    BY <1>6 DEF LastSentence, JobInv
  <2>2. Len(job.sentences) \in Nat /\ next - 1 = Len(job.sentences)
    BY <1>0, <2>1, ChunkConstants
  <2>3. Fits(Trim(buf))
    <3>1. Starts(buf) \in SUBSET buf
      BY DEF Starts
    <3>2. Cardinality(Starts(buf)) <= Cardinality(buf) /\ Cardinality(buf) \in Nat /\ Cardinality(Starts(buf)) \in Nat
      BY <1>0, <3>1, SetFacts DEF PackInv
    <3>3. Cardinality(Starts(buf)) <= job.max
      BY <1>0, <3>2, JobFacts DEF PackInv
    <3> QED
      BY <1>0, <3>3, ShortFits DEF PackInv
  <2>4. /\ chunks' \in Seq(Chunk) /\ AllFit' /\ \A i : Has(i) => Has(i)'
        /\ \A i \in buf : ~Blank(i) => Has(i)'
    <3>1. stack \in Seq(1 .. Len(job.heads))
      BY <1>0 DEF PackInv
    <3> QED
      BY <1>0, <2>1, <2>3, <3>1, GrowPushed DEF PackInv
  <2>5. \A i \in Given : Taken(i)
    BY <1>0, <2>1, <2>2, GivenSentences DEF Taken
  <2>6. Cardinality({}) = 0 /\ job.max \in Nat
    BY <1>0, FS_EmptySet, JobFacts
  <2> QED
    BY <1>0, <1>1, <2>1, <2>4, <2>5, <2>6 DEF PackInv
<1>7. CASE WholeDocument \/ Fixed \/ Markdown \/ Window \/ TakeRegion \/ LastRegion
  BY <1>0, <1>7 DEF WholeDocument, Fixed, Markdown, Window, TakeRegion, LastRegion, ByHeadings, JobInv
<1> QED
  BY <1>2, <1>3, <1>4, <1>5, <1>6, <1>7 DEF Next

-----------------------------------------------------------------------------
(* The theorems about what is in the chunks.                               *)

FillInv == JobInv /\ (NotPacked => ContentInv) /\ (~NotPacked => PackInv)

\* So it is in every state, under every strategy.
LEMMA AlwaysFilled == Spec => []FillInv
<1>1. Init => FillInv
  BY JobInit, ContentInit, PackInit DEF FillInv
<1>2. FillInv /\ [Next]_vars => FillInv'
  BY JobStep, ContentStep, PackStep DEF FillInv
<1> QED
  BY <1>1, <1>2, PTL DEF Spec

\* Every variable holds a value of its kind; a cursor is on a character.
THEOREM TypeCorrect == Spec => []TypeOK
<1>1. FillInv => TypeOK
  <2> SUFFICES ASSUME FillInv PROVE TypeOK
    OBVIOUS
  <2>1. pc \in {"window", "split"} =>
          /\ body \in [from : 0 .. Size, to : 0 .. Size]
          /\ body.from <= cursor /\ cursor < body.to /\ Boundary(cursor)
    <3> SUFFICES ASSUME pc \in {"window", "split"}
                 PROVE  /\ body \in [from : 0 .. Size, to : 0 .. Size]
                        /\ body.from <= cursor /\ cursor < body.to /\ Boundary(cursor)
      OBVIOUS
    <3>1. InWindow
      BY DEF FillInv, JobInv
    <3>2. body.from \in 0 .. Size /\ body.to \in 0 .. Size /\ Size \in Nat /\ cursor \in Nat
      BY <3>1, WindowFacts DEF Bytes
    <3> QED
      BY <3>1, <3>2 DEF InWindow, Places, Size
  <2>2. stack \in Seq(1 .. Len(job.heads)) /\ buf \in SUBSET Bytes /\ chunks \in Seq(Chunk)
    <3>1. <<>> \in Seq(1 .. Len(job.heads)) /\ {} \in SUBSET Bytes
      OBVIOUS
    <3> QED
      BY <3>1 DEF FillInv, ContentInv, PackInv
  <2> QED
    BY <2>1, <2>2 DEF FillInv, TypeOK, JobInv, Chunk
<1> QED
  BY AlwaysFilled, <1>1, PTL

\* What is in a text is in a chunk, as long as windows overlap by what their
\* ends may step back; every sentence is, whatever the size.
THEOREM TextIsKept == Spec => []NothingLost
<1>1. FillInv => NothingLost
  <2> SUFFICES ASSUME FillInv, pc = "done",
                      job.strategy \in {"off", "sentence"} \/ job.overlap >= StepBack,
                      NEW i \in Given, ~Blank(i)
               PROVE  \E k \in DOMAIN chunks : i \in chunks[k].text
    BY DEF NothingLost
  <2>1. CASE NotPacked
    BY <2>1 DEF FillInv, NotPacked, Given, ContentInv, Covered, Overlaps, Past, Has
  <2>2. CASE ~NotPacked
    BY <2>2 DEF FillInv, PackInv, Taken, Has
  <2> QED
    BY <2>1, <2>2
<1> QED
  BY AlwaysFilled, <1>1, PTL

\* A window, however its end falls, has less than twice the characters that
\* were asked for, and so has a short region; packed sentences and the pieces
\* of a long one have no more than were asked for.
THEOREM ChunksAreBounded == Spec => []Bounded
<1>1. FillInv => Bounded
  <2> SUFFICES ASSUME FillInv PROVE Bounded
    OBVIOUS
  <2>1. job.strategy \in {"off", "fixed", "markdown", "sentence"}
    BY JobFacts DEF FillInv, JobInv, Strategies
  <2>2. AllFit
    BY DEF FillInv, ContentInv, PackInv
  <2> QED
    BY <2>1, <2>2 DEF Bounded, AllFit, Fits
<1> QED
  BY AlwaysFilled, <1>1, PTL

-----------------------------------------------------------------------------
(* The headings a chunk is under.                                          *)

\* The headings above a place in region r, outermost first.
Leads(p, r) ==
  /\ {p[x] : x \in DOMAIN p} = {g \in 1 .. r : Above(g, r)}
  /\ \A x, y \in DOMAIN p : x < y => p[x] < p[y]

Sited(c) == c.text # {} /\ \E r \in 0 .. Len(job.heads) : c.text \subseteq Region(r) /\ Leads(c.path, r)
AllSited == \A k \in DOMAIN chunks : Sited(chunks[k])

\* The stack belongs to the region that was taken last, and so does the text
\* the window slides over; every chunk is of one region and has its headings.
PathInv ==
  /\ next = 0 => stack = <<>>
  /\ next > 0 => Leads(stack, next - 1)
  /\ pc = "window" =>
       next > 0 /\ RegionFrom(next - 1) <= body.from /\ body.to <= RegionTo(next - 1)
  /\ AllSited

\* Popped takes from the stack the headings that end at the next one: their
\* levels grow along the stack, so it keeps those in front of the first.
LEMMA NextPath ==
  ASSUME job \in Jobs, stack \in Seq(1 .. Len(job.heads)),
         NEW n \in 1 .. Len(job.heads), Leads(stack, n - 1)
  PROVE  Leads(Append(Popped(n), n), n)
<1> DEFINE L(g)  == job.heads[g].level
           K     == {k \in DOMAIN stack : L(stack[k]) < L(n)}
           above == {0} \cup K
           m     == Max(above)
           q     == Popped(n)
           p     == Append(q, n)
<1>0. /\ Len(job.heads) \in Nat /\ Len(stack) \in Nat /\ DOMAIN stack = 1 .. Len(stack)
      /\ \A k \in 1 .. Len(stack) : stack[k] \in 1 .. Len(job.heads)
      /\ \A g \in 1 .. Len(job.heads) : L(g) \in 1 .. 6
  <2>1. Len(job.heads) \in Nat /\ \A g \in 1 .. Len(job.heads) : L(g) \in 1 .. 6
    BY JobFacts
  <2>2. /\ Len(stack) \in Nat /\ DOMAIN stack = 1 .. Len(stack)
        /\ \A k \in 1 .. Len(stack) : stack[k] \in 1 .. Len(job.heads)
    OBVIOUS
  <2> QED
    BY <2>1, <2>2
<1>1. m \in 0 .. Len(stack) /\ m \in above /\ \A k \in above : k <= m
  <2>1. above \in SUBSET (0 .. Len(stack)) /\ above # {} /\ 0 \in Int /\ Len(stack) \in Int
    BY <1>0
  <2> HIDE DEF above
  <2> QED
    BY <2>1, Extremes
<1>2. q = SubSeq(stack, 1, m)
  BY DEF Popped
<1> HIDE DEF m, q
<1>3. /\ q \in Seq(1 .. Len(job.heads)) /\ Len(q) = m /\ \A k \in 1 .. m : q[k] = stack[k]
  BY <1>0, <1>1, <1>2
<1>4. /\ DOMAIN p = 1 .. m + 1 /\ p[m + 1] = n /\ \A k \in 1 .. m : p[k] = stack[k]
  BY <1>1, <1>3
<1> HIDE DEF p
<1>5. \A k \in 1 .. Len(stack) : stack[k] \in 1 .. n - 1 /\ Above(stack[k], n - 1)
  BY <1>0 DEF Leads
<1>6. \A x, y \in 1 .. Len(stack) : x < y => stack[x] < stack[y] /\ L(stack[x]) < L(stack[y])
  <2> SUFFICES ASSUME NEW x \in 1 .. Len(stack), NEW y \in 1 .. Len(stack), x < y
               PROVE  stack[x] < stack[y] /\ L(stack[x]) < L(stack[y])
    OBVIOUS
  <2>1. stack[x] < stack[y]
    BY <1>0 DEF Leads
  <2>2. stack[y] \in stack[x] + 1 .. n - 1
    BY <1>5, <2>1
  <2>3. L(stack[y]) > L(stack[x])
    BY <1>5, <2>2 DEF Above
  <2> QED
    BY <1>0, <2>1, <2>3
<1>7. \A k \in 1 .. Len(stack) : k <= m <=> L(stack[k]) < L(n)
  <2> SUFFICES ASSUME NEW k \in 1 .. Len(stack) PROVE k <= m <=> L(stack[k]) < L(n)
    OBVIOUS
  <2>1. ASSUME L(stack[k]) < L(n) PROVE k <= m
    BY <1>0, <1>1, <2>1
  <2>2. ASSUME k <= m PROVE L(stack[k]) < L(n)
    <3>1. m \in 1 .. Len(stack) /\ L(stack[m]) < L(n)
      BY <1>0, <1>1, <2>2
    <3>2. k = m \/ L(stack[k]) < L(stack[m])
      BY <1>1, <1>6, <2>2, <3>1
    <3>3. /\ L(stack[k]) \in 1 .. 6 /\ L(stack[m]) \in 1 .. 6 /\ L(n) \in 1 .. 6
      BY <1>0, <3>1
    <3>4. \A a, b, c \in 1 .. 6 : a < b /\ b < c => a < c
      OBVIOUS
    <3> HIDE DEF L
    <3>5. CASE k = m
      BY <3>1, <3>5
    <3>6. CASE L(stack[k]) < L(stack[m])
      BY <3>1, <3>3, <3>4, <3>6, Zenon
    <3> QED
      BY <3>2, <3>5, <3>6
  <2> QED
    BY <2>1, <2>2
<1>8. \A g \in 1 .. n - 1 : Above(g, n) <=> Above(g, n - 1) /\ L(g) < L(n)
  <2> SUFFICES ASSUME NEW g \in 1 .. n - 1 PROVE Above(g, n) <=> Above(g, n - 1) /\ L(g) < L(n)
    OBVIOUS
  <2>1. \A h : h \in g + 1 .. n <=> h \in g + 1 .. n - 1 \/ h = n
    BY <1>0
  <2>2. L(n) > L(g) <=> L(g) < L(n)
    <3>1. L(n) \in 1 .. 6 /\ L(g) \in 1 .. 6
      BY <1>0
    <3> HIDE DEF L
    <3> QED
      BY <3>1
  <2> QED
    BY <2>1, <2>2 DEF Above
<1>9. Above(n, n)
  BY <1>0 DEF Above
<1>10. \A g \in 1 .. n - 1 : Above(g, n - 1) => \E k \in 1 .. Len(stack) : g = stack[k]
  BY <1>0 DEF Leads
<1>11. ASSUME NEW g \in 1 .. n PROVE Above(g, n) <=> \E x \in DOMAIN p : g = p[x]
  <2>1. CASE g = n
    BY <1>1, <1>4, <1>9, <2>1
  <2>2. CASE g \in 1 .. n - 1
    <3>1. ASSUME Above(g, n) PROVE \E x \in DOMAIN p : g = p[x]
      <4>1. PICK k \in 1 .. Len(stack) : g = stack[k]
        BY <1>8, <1>10, <2>2, <3>1
      <4>2. k \in 1 .. m
        BY <1>1, <1>7, <1>8, <2>2, <3>1, <4>1
      <4> QED
        BY <1>1, <1>4, <4>1, <4>2
    <3>2. ASSUME NEW x \in DOMAIN p, g = p[x] PROVE Above(g, n)
      <4>1. x \in 1 .. m /\ x \in 1 .. Len(stack) /\ g = stack[x]
        BY <1>1, <1>4, <2>2, <3>2
      <4>2. L(stack[x]) < L(n) /\ Above(stack[x], n - 1)
        BY <1>1, <1>5, <1>7, <4>1
      <4> QED
        BY <1>8, <2>2, <4>1, <4>2
    <3> QED
      BY <3>1, <3>2
  <2> QED
    BY <1>0, <2>1, <2>2
<1>12. \A x \in DOMAIN p : p[x] \in 1 .. n
  BY <1>0, <1>1, <1>4, <1>5
<1>13. {p[x] : x \in DOMAIN p} = {g \in 1 .. n : Above(g, n)}
  BY <1>11, <1>12
<1>14. ASSUME NEW x \in DOMAIN p, NEW y \in DOMAIN p, x < y PROVE p[x] < p[y]
  <2>1. x \in 1 .. m /\ x \in 1 .. Len(stack) /\ p[x] = stack[x]
    BY <1>1, <1>4, <1>14
  <2>2. CASE y = m + 1
    BY <1>4, <1>5, <2>1, <2>2
  <2>3. CASE y \in 1 .. m
    BY <1>1, <1>4, <1>6, <1>14, <2>1, <2>3
  <2> QED
    BY <1>1, <1>4, <2>2, <2>3
<1> QED
  BY <1>13, <1>14 DEF Leads, p, q

\* One more chunk, of the region the path leads to.
LEMMA GrowSited ==
  ASSUME chunks \in Seq(Chunk), AllSited, UNCHANGED job,
         NEW T \in SUBSET Bytes, NEW q \in Seq(1 .. Len(job.heads)), NEW r \in 0 .. Len(job.heads),
         T # {}, T \subseteq Region(r), Leads(q, r),
         chunks' = Append(chunks, [text |-> T, path |-> q])
  PROVE  AllSited'
<1> DEFINE c == [text |-> T, path |-> q]
<1>1. c \in Chunk /\ c.text = T /\ c.path = q
  BY DEF Chunk
<1>2. Sited(c)
  BY <1>1 DEF Sited
<1> HIDE DEF c
<1>3. /\ Len(chunks) \in Nat /\ DOMAIN chunks = 1 .. Len(chunks) /\ DOMAIN chunks' = 1 .. Len(chunks) + 1
      /\ \A k \in 1 .. Len(chunks) : chunks'[k] = chunks[k]
      /\ chunks'[Len(chunks) + 1] = c
  BY <1>1 DEF c
<1>4. \A d : Sited(d)' = Sited(d)
  BY DEF Sited, Leads, Above, Region, RegionFrom, RegionTo, Size
<1>5. \A k \in DOMAIN chunks' : chunks'[k] = c \/ \E h \in DOMAIN chunks : chunks'[k] = chunks[h]
  BY <1>3
<1>6. \A k \in DOMAIN chunks' : Sited(chunks'[k])
  BY <1>2, <1>5 DEF AllSited
<1> QED
  BY <1>4, <1>6 DEF AllSited

\* What is left of a text of a region, when it is trimmed.
LEMMA PushedSited ==
  ASSUME chunks \in Seq(Chunk), AllSited, UNCHANGED job,
         NEW S \in SUBSET Bytes, stack \in Seq(1 .. Len(job.heads)), NEW r \in 0 .. Len(job.heads),
         S \subseteq Region(r), Leads(stack, r), chunks' = chunks \o Pushed(S)
  PROVE  AllSited'
<1>1. CASE Trim(S) = {}
  <2>1. chunks' = chunks
    BY <1>1 DEF Pushed
  <2>2. \A d : Sited(d)' = Sited(d)
    BY DEF Sited, Leads, Above, Region, RegionFrom, RegionTo, Size
  <2> QED
    BY <2>1, <2>2 DEF AllSited
<1>2. CASE Trim(S) # {}
  <2> DEFINE c == [text |-> Trim(S), path |-> stack]
  <2>1. Trim(S) \in SUBSET Bytes /\ Trim(S) \subseteq Region(r)
    BY DEF Trim
  <2>2. c \in Chunk
    BY <2>1 DEF Chunk
  <2>3. chunks' = Append(chunks, c)
    <3>1. chunks' = chunks \o <<c>>
      BY <1>2 DEF Pushed
    <3> HIDE DEF c
    <3> QED
      BY <2>2, <3>1
  <2> QED
    BY <1>2, <2>1, <2>3, GrowSited
<1> QED
  BY <1>1, <1>2

\* Nothing is above the beginning of a text.
LEMMA PathInit == Init => PathInv
  BY DEF Init, PathInv, AllSited

\* A window lies in its region.
LEMMA WindowPaths ==
  ASSUME JobInv, ContentInv, PathInv, Window PROVE PathInv'
<1> DEFINE end == ClampWordEnd(cursor)
           r   == next - 1
<1>0. /\ InWindow /\ pc = "window" /\ UNCHANGED <<job, next, stack, buf>>
      /\ next \in 0 .. Len(job.heads) + 1 /\ job \in Jobs
  BY DEF Window, JobInv
<1>1. /\ next > 0 /\ r \in 0 .. Len(job.heads) /\ Leads(stack, r)
      /\ RegionFrom(r) <= body.from /\ body.to <= RegionTo(r)
  BY <1>0, JobFacts DEF PathInv
<1>2. RegionFrom(r) \in 0 .. Size /\ RegionTo(r) \in 0 .. Size /\ Size \in Nat
  BY <1>0, <1>1, RegionFacts, JobFacts
<1>3. /\ body.from \in 0 .. Size /\ body.to \in 0 .. Size
      /\ cursor \in body.from .. body.to - 1 /\ end \in Int /\ end <= body.to
  BY <1>0, WindowFacts, EndFacts DEF InWindow
<1>4. /\ \A s : RegionFrom(s)' = RegionFrom(s) /\ RegionTo(s)' = RegionTo(s)
      /\ \A d : Sited(d)' = Sited(d) /\ \A p, s : Leads(p, s)' = Leads(p, s)
  BY <1>0 DEF Sited, Leads, Above, Region, RegionFrom, RegionTo, Size
<1>5. pc' = "window" => body' = body
  BY <1>0 DEF Window
<1>6. AllSited'
  <2>1. CASE UNCHANGED chunks
    BY <1>4, <2>1 DEF PathInv, AllSited
  <2>2. CASE chunks' = chunks \o Pushed(cursor .. end - 1)
    <3> HIDE DEF end, r
    <3>1. cursor .. end - 1 \in SUBSET Bytes /\ cursor .. end - 1 \subseteq Region(r)
      BY <1>1, <1>2, <1>3 DEF Bytes, Region
    <3> QED
      BY <1>0, <1>1, <2>2, <3>1, PushedSited DEF ContentInv, PathInv
  <2> QED
    BY <2>1, <2>2 DEF Window
<1> QED
  BY <1>0, <1>1, <1>4, <1>5, <1>6 DEF PathInv

\* A region is taken with the headings it is under.
LEMMA RegionPaths ==
  ASSUME JobInv, ContentInv, PathInv, TakeRegion PROVE PathInv'
<1> DEFINE a == RegionFrom(next)
           b == RegionTo(next)
           S == Trim(Region(next))
<1>0. /\ job \in Jobs /\ pc = "regions" /\ next \in 0 .. Len(job.heads) /\ Len(job.heads) \in Nat
      /\ job.max \in Nat \ {0} /\ Size \in Nat /\ next' = next + 1 /\ UNCHANGED <<job, buf>>
  BY JobFacts DEF TakeRegion, JobInv
<1>1. stack' \in Seq(1 .. Len(job.heads)) /\ Leads(stack', next)
  <2>1. CASE next = 0
    <3>1. stack' = stack /\ stack = <<>>
      BY <2>1 DEF TakeRegion, PathInv
    <3>2. Leads(<<>>, 0)
      BY DEF Leads
    <3> QED
      BY <2>1, <3>1, <3>2
  <2>2. CASE next # 0
    <3>1. next \in 1 .. Len(job.heads) /\ stack' = Append(Popped(next), next) /\ Leads(stack, next - 1)
      BY <1>0, <2>2 DEF TakeRegion, PathInv
    <3>2. stack \in Seq(1 .. Len(job.heads))
      BY DEF ContentInv
    <3> QED
      BY <1>0, <3>1, <3>2, PathType, NextPath
  <2> QED
    BY <2>1, <2>2
<1>2. /\ a \in 0 .. Size /\ b \in 0 .. Size /\ (a < Size => job.text[a] # "rest")
      /\ Region(next) = a .. b - 1
  BY <1>0, RegionFacts DEF Region
<1> HIDE DEF a, b
<1>3. S \in SUBSET Bytes /\ S \subseteq Region(next)
  <2>1. a .. b - 1 \in SUBSET Bytes
    BY <1>0, <1>2 DEF Bytes
  <2> QED
    BY <1>2, <2>1 DEF Trim
<1>4. /\ \A s : RegionFrom(s)' = RegionFrom(s) /\ RegionTo(s)' = RegionTo(s)
      /\ \A d : Sited(d)' = Sited(d) /\ \A p, s : Leads(p, s)' = Leads(p, s)
  BY <1>0 DEF Sited, Leads, Above, Region, RegionFrom, RegionTo, Size
<1>5. ASSUME AllSited',
             pc' = "window" => RegionFrom(next) <= body'.from /\ body'.to <= RegionTo(next)
      PROVE  PathInv'
  <2>1. next' > 0 /\ next' - 1 = next
    BY <1>0
  <2> QED
    BY <1>1, <1>4, <1>5, <2>1 DEF PathInv
<1>6. CASE UNCHANGED <<pc, body, cursor, chunks>>
  BY <1>0, <1>4, <1>5, <1>6 DEF PathInv, AllSited
<1>7. CASE /\ S # {} /\ chunks' = Append(chunks, [text |-> S, path |-> stack'])
           /\ UNCHANGED <<pc, body, cursor>>
  <2> HIDE DEF S
  <2>1. AllSited'
    BY <1>0, <1>1, <1>3, <1>7, GrowSited DEF ContentInv, PathInv
  <2> QED
    BY <1>0, <1>5, <1>7, <2>1
<1>8. CASE S # {} /\ Slide(Min(S), Max(S) + 1)
  <2> DEFINE x == Min(S)
             y == Max(S)
  <2>1. /\ S \in SUBSET (a .. b - 1) /\ a \in Int /\ b - 1 \in Int
    BY <1>0, <1>2, <1>3
  <2> HIDE DEF S
  <2>2. x \in a .. b - 1 /\ y \in a .. b - 1 /\ x <= y
    BY <1>8, <2>1, Extremes
  <2> HIDE DEF x, y
  <2>3. Slide(x, y + 1) /\ (y + 1) - 1 = y /\ x \in Int /\ y \in Int
    BY <1>0, <1>2, <1>8, <2>2 DEF x, y
  <2>4. CASE Wordless(x .. (y + 1) - 1)
    <3>1. chunks' = Append(chunks, [text |-> x .. y, path |-> stack']) /\ pc' = "regions"
      BY <2>3, <2>4 DEF Slide
    <3>2. x .. y \in SUBSET Bytes /\ x .. y \subseteq Region(next) /\ x .. y # {}
      <4>1. x .. y \subseteq a .. b - 1 /\ x \in x .. y
        BY <1>0, <1>2, <2>2, <2>3
      <4>2. a .. b - 1 \subseteq Bytes
        BY <1>0, <1>2 DEF Bytes
      <4> QED
        BY <1>2, <4>1, <4>2
    <3>3. AllSited'
      BY <1>0, <1>1, <3>1, <3>2, GrowSited DEF ContentInv, PathInv
    <3> QED
      BY <1>5, <3>1, <3>3
  <2>5. CASE ~Wordless(x .. (y + 1) - 1)
    <3>1. UNCHANGED chunks /\ body' = [from |-> x, to |-> y + 1]
      BY <2>3, <2>5 DEF Slide
    <3>2. AllSited'
      BY <1>4, <3>1 DEF PathInv, AllSited
    <3>3. a <= x /\ y + 1 <= b
      BY <1>0, <1>2, <2>2, <2>3
    <3> QED
      BY <1>5, <3>1, <3>2, <3>3 DEF a, b
  <2> QED
    BY <2>4, <2>5
<1>9. \/ UNCHANGED <<pc, body, cursor, chunks>>
      \/ /\ S # {} /\ chunks' = Append(chunks, [text |-> S, path |-> stack'])
         /\ UNCHANGED <<pc, body, cursor>>
      \/ S # {} /\ Slide(Min(S), Max(S) + 1)
  <2>1. S = {} => Cardinality(S) = 0
    BY FS_EmptySet
  <2>2. \/ UNCHANGED <<pc, body, cursor, chunks>>
        \/ /\ Cardinality(S) \in 1 .. job.max
           /\ chunks' = Append(chunks, [text |-> S, path |-> stack'])
           /\ UNCHANGED <<pc, body, cursor>>
        \/ Cardinality(S) > job.max /\ Slide(Min(S), Max(S) + 1)
    BY DEF TakeRegion, Region
  <2> HIDE DEF S
  <2> QED
    BY <1>0, <2>1, <2>2
<1> QED
  BY <1>6, <1>7, <1>8, <1>9

\* Every step keeps the stack to its region, and so the paths of chunks.
LEMMA PathStep ==
  FillInv /\ (ByHeadings => PathInv) /\ [Next]_vars => (ByHeadings => PathInv)'
<1> SUFFICES ASSUME FillInv, ByHeadings => PathInv, [Next]_vars, ByHeadings' PROVE PathInv'
  OBVIOUS
<1>0. /\ job' = job /\ job \in Jobs /\ ByHeadings /\ PathInv /\ JobInv /\ ContentInv
      /\ job.strategy = "markdown"
  BY DEF FillInv, NotPacked, ByHeadings, JobInv, Next, vars, Returned, WholeDocument, Fixed, Markdown,
         Sentences, Window, TakeRegion, LastRegion, TakeSentence, Split, LastSentence
<1>1. /\ \A s : RegionFrom(s)' = RegionFrom(s) /\ RegionTo(s)' = RegionTo(s)
      /\ \A d : Sited(d)' = Sited(d) /\ \A p, s : Leads(p, s)' = Leads(p, s)
  BY <1>0 DEF Sited, Leads, Above, Region, RegionFrom, RegionTo, Size
<1>2. CASE Returned \/ UNCHANGED vars \/ Markdown \/ LastRegion
  BY <1>1, <1>0, <1>2 DEF Returned, vars, Markdown, LastRegion, PathInv, AllSited
<1>3. CASE Window
  BY <1>0, <1>3, WindowPaths
<1>4. CASE TakeRegion
  BY <1>0, <1>4, RegionPaths
<1>5. CASE WholeDocument \/ Fixed \/ Sentences \/ TakeSentence \/ Split \/ LastSentence
  BY <1>0, <1>5 DEF WholeDocument, Fixed, Sentences, TakeSentence, Split, LastSentence, JobInv
<1> QED
  BY <1>2, <1>3, <1>4, <1>5 DEF Next

\* The region a chunk is in is the last whose heading is not behind its start:
\* headings come in order.
LEMMA SitedLeads ==
  ASSUME job \in Jobs, NEW c \in Chunk, Sited(c)
  PROVE  LET r == Max({0} \cup {h \in DOMAIN job.heads : job.heads[h].at <= Min(c.text)})
             p == c.path
         IN  /\ {p[x] : x \in DOMAIN p} = {g \in 1 .. r : Above(g, r)}
             /\ \A x, y \in DOMAIN p : x < y => p[x] < p[y]
<1> DEFINE at(h) == job.heads[h].at
           first == Min(c.text)
           M     == {0} \cup {h \in DOMAIN job.heads : at(h) <= first}
<1>1. PICK r \in 0 .. Len(job.heads) : c.text # {} /\ c.text \subseteq Region(r) /\ Leads(c.path, r)
  BY DEF Sited
<1>0. /\ Len(job.heads) \in Nat /\ DOMAIN job.heads = 1 .. Len(job.heads) /\ Size \in Nat
      /\ \A h \in 1 .. Len(job.heads) : at(h) \in 0 .. Size
      /\ \A q, h \in 1 .. Len(job.heads) : q <= h => at(q) <= at(h)
  BY JobFacts
<1>2. first \in Int /\ RegionFrom(r) <= first /\ first < RegionTo(r)
  <2>1. RegionFrom(r) \in 0 .. Size /\ RegionTo(r) \in 0 .. Size
    BY RegionFacts
  <2> DEFINE a == RegionFrom(r)
             b == RegionTo(r) - 1
  <2>2. first \in a .. b
    <3>1. a \in Int /\ b \in Int /\ c.text \in SUBSET (a .. b) /\ c.text # {}
      BY <1>0, <1>1, <2>1 DEF Region
    <3> HIDE DEF a, b
    <3> QED
      BY <3>1, Extremes
  <2> QED
    BY <1>0, <2>1, <2>2
<1> HIDE DEF first
<1>3. r \in M
  BY <1>0, <1>2 DEF RegionFrom
<1>4. \A h \in M : h <= r
  <2> SUFFICES ASSUME NEW h \in M, ~(h <= r) PROVE FALSE
    OBVIOUS
  <2>1. h \in 1 .. Len(job.heads) /\ r + 1 \in 1 .. Len(job.heads) /\ r + 1 <= h /\ r # Len(job.heads)
    BY <1>0
  <2>2. RegionTo(r) = at(r + 1) /\ at(r + 1) <= at(h) /\ at(h) <= first
    BY <1>0, <2>1 DEF RegionTo
  <2>3. at(r + 1) \in Int /\ at(h) \in Int
    BY <1>0, <2>1
  <2> HIDE DEF at
  <2> QED
    BY <1>2, <2>2, <2>3
<1>5. Max(M) = r
  <2>1. M \in SUBSET (0 .. Len(job.heads)) /\ M # {} /\ 0 \in Int /\ Len(job.heads) \in Int
    BY <1>0
  <2> HIDE DEF M
  <2>2. Max(M) \in M /\ Max(M) \in 0 .. Len(job.heads) /\ \A h \in M : h <= Max(M)
    BY <2>1, Extremes
  <2> QED
    BY <1>0, <1>3, <1>4, <2>2
<1> HIDE DEF M
<1> QED
  BY <1>1, <1>5 DEF Leads, M, first

\* A chunk between two headings names exactly the headings whose sections it is
\* in, outermost first, however deep and in whatever order their levels come.
THEOREM PathsLead == Spec => []PathLeads
<1>1. Init => (ByHeadings => PathInv)
  BY PathInit
<1>2. FillInv /\ (ByHeadings => PathInv) => PathLeads
  <2> SUFFICES ASSUME FillInv, ByHeadings, PathInv, NEW k \in DOMAIN chunks
               PROVE  LET r == Max({0} \cup {h \in DOMAIN job.heads : job.heads[h].at <= Min(chunks[k].text)})
                          p == chunks[k].path
                      IN  /\ {p[x] : x \in DOMAIN p} = {g \in 1 .. r : Above(g, r)}
                          /\ \A x, y \in DOMAIN p : x < y => p[x] < p[y]
    BY DEF PathLeads
  <2>1. job \in Jobs /\ chunks \in Seq(Chunk)
    BY DEF FillInv, JobInv, NotPacked, ByHeadings, ContentInv
  <2>2. chunks[k] \in Chunk /\ Sited(chunks[k])
    BY <2>1 DEF PathInv, AllSited
  <2> QED
    BY <2>1, <2>2, SitedLeads
<1> QED
  BY AlwaysFilled, PathStep, <1>1, <1>2, PTL DEF Spec
=============================================================================
