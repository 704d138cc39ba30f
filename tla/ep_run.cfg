SPECIFICATION Spec
CONSTANTS
  a = a  b = b  c = c
  Sources = {a, b}
  Pieces <- MCEdited
  Versions = {1, 2}
  Unparsable <- MCBroken
  Unchunkable <- MCNone
  Parsers = {p1, p2}
  Embedders = {e1, e2}
  RawCap = 1  ParsedCap = 1  ChunkCap = 1  EmbeddedCap = 1
  EmbedBatch = 2
  PutBatch = 2
  MaxChunks = 0
  MayDryRun = FALSE
  MaxRuns = 2
  MaxFaults = 1
  MaxCrashes = 1
  MaxEdits = 1
  NoDoc = NoDoc
SYMMETRY WorkerSymmetry
INVARIANTS TypeOK RecordsSurvive Accounted
