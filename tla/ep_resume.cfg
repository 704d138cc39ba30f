SPECIFICATION FairSpec
CONSTANTS
  a = a  b = b  c = c
  Sources = {a, b, c}
  Pieces <- MCLong
  Versions = {1}
  Unparsable <- MCNone
  Unchunkable <- MCPanic
  Parsers = {p1}
  Embedders = {e1}
  RawCap = 1  ParsedCap = 1  ChunkCap = 1  EmbeddedCap = 1
  EmbedBatch = 2
  PutBatch = 2
  MaxChunks = 2
  MayDryRun = FALSE
  MaxRuns = 2
  MaxFaults = 2
  MaxCrashes = 1
  MaxEdits = 0
  NoDoc = NoDoc
INVARIANTS DoneIsStored NeverStuck ReadyCanStep
PROPERTY Terminates
