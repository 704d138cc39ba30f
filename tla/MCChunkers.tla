----------------------------- MODULE MCChunkers -----------------------------
(***************************************************************************)
(* Small texts for Chunkers: every text of up to seven bytes of letters    *)
(* and white space, and every text of up to five bytes of all kinds, with  *)
(* windows of two to five characters, overlaps from none to more than the  *)
(* window, and a step back of three bytes where the code has 128; headings *)
(* of three levels and sentences at many places of a text of six bytes.    *)
(* As in the code a window has room for the bytes of one character.        *)
(***************************************************************************)
EXTENDS Chunkers

\* The rest of a character follows its first byte; white space has none.
Text(n, kinds) ==
  {t \in [0 .. n - 1 -> kinds] :
     \A i \in 0 .. n - 1 : t[i] = "rest" => i > 0 /\ t[i - 1] \in {"letter", "mark"}}

Texts == UNION {Text(n, {"letter", "space"}) : n \in 0 .. 7}
    \cup UNION {Text(n, Kinds) : n \in 0 .. 5}

Job(s, m, o, t, h, c) ==
  [strategy |-> s, max |-> m, overlap |-> o, text |-> t, heads |-> h, sentences |-> c]

Windowed == {Job(s, m, o, t, <<>>, <<>>) : s \in {"off", "fixed"}, m \in 2 .. 5, o \in {0, 3, 4}, t \in Texts}

\* Two or three headings, the first at the beginning or after a preamble.
Headings(n) ==
  {<<[at |-> a, level |-> l], [at |-> b, level |-> m]>> : a \in {0, 1}, b \in 2 .. n - 1, l \in 1 .. 2, m \in 1 .. 2}
  \cup
  {<<[at |-> 0, level |-> l], [at |-> 1, level |-> m], [at |-> 3, level |-> k]>> : l, m, k \in 1 .. 3}

Headed == {Job("markdown", m, o, t, h, <<>>) :
             m \in {2, 3}, o \in {0, 3}, h \in Headings(6) \cup {<<>>},
             t \in {u \in Text(6, {"letter", "space"}) : u[0] = "letter" /\ u[1] = "letter" /\ u[3] = "letter"}}

\* Three sentences, of which the middle one may be left out: it has no word.
Cuts(n) ==
  {<<[from |-> 0, to |-> a], [from |-> b, to |-> n]>> : a \in 1 .. 4, b \in 4 .. n - 1}
  \cup {<<[from |-> 0, to |-> a], [from |-> a, to |-> 4], [from |-> 4, to |-> n]>> : a \in 1 .. 3}

Packed == {Job("sentence", m, 0, t, <<>>, c) :
             m \in 2 .. 4, c \in Cuts(6) \cup {<<>>}, t \in Text(6, {"letter", "space"})}
     \cup {Job("sentence", m, 0, t, <<>>, <<[from |-> 0, to |-> 6]>>) :
             m \in 2 .. 4, t \in Text(6, {"letter", "space", "rest"})}

\* Five characters of two bytes in a window of three.
MCWide == {Job("fixed", 3, 3, [i \in 0 .. 9 |-> IF i % 2 = 0 THEN "letter" ELSE "rest"], <<>>, <<>>)}

MCJobs == Windowed \cup Headed \cup Packed
=============================================================================
