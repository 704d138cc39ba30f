SPECIFICATION Spec
CONSTANTS
  a = a  b = b  c = c
  Sources = {a, b}
  Pieces <- MCEdited
  Versions = {1}
  Unparsable <- MCNone
  Unchunkable <- MCNone
  Parsers = {p1}
  Embedders = {e1}
  RawCap = 1  ParsedCap = 1  ChunkCap = 1  EmbeddedCap = 1
  EmbedBatch = 1
  PutBatch = 1
  MaxChunks = 0
  MayDryRun = TRUE
  MaxRuns = 1
  MaxFaults = 0
  MaxCrashes = 0
  MaxEdits = 0
  NoDoc = NoDoc
INVARIANT DoneIsStored
