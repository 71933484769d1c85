\* Every cut of short streams, every short row of markers, one change of access.
CONSTANTS
  SnippetChars = 5
  Chunk = {"A", "B", "C"}
  Outside = {"C"}
  chunk_ids <- MCChunkIds
  Scenario <- MCCases
  Question <- MCQuestion
  MaxChanges = 1
SPECIFICATION Spec
INVARIANTS
  ChunkingIrrelevant
  MarkersMatchCitations
  ExcerptShowsBest
CHECK_DEADLOCK FALSE
