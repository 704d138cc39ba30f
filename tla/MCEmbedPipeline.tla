-------------------------- MODULE MCEmbedPipeline --------------------------
(* Small instances of EmbedPipeline: two or three files with up to two      *)
(* versions each; a document has up to three chunks.                        *)
EXTENDS EmbedPipeline, TLC

CONSTANTS a, b, c

\* A file of one chunk whose second version is empty, and a file of two.
MCEdited == [d \in Docs |-> IF d[1] = a THEN IF d[2] = 1 THEN 1 ELSE 0 ELSE 2]
\* One file longer than a cap of two chunks.
MCLong == [d \in Docs |-> IF d[1] = a THEN 3 ELSE d[2]]
\* The second version of b is a file no parser can read.
MCBroken == {<<b, 2>>}
MCNone == {}
\* The chunker panics on c.
MCPanic == {<<c, 1>>}

WorkerSymmetry == Permutations(Parsers) \cup Permutations(Embedders)
=============================================================================
