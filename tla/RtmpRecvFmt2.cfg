SPECIFICATION MCSpec
INVARIANTS
  MessagesIntact
CHECK_DEADLOCK FALSE
CONSTANTS
  S0S1Len = 2
  S2Len = 1
  DefaultChunk = 2
  TsExt = 9
  Csids = {3}
  StartFmts = {0, 2}
  MediaTypes = {8}
  Sizes = {3}
  ChunkSizes = {1}
  Deltas = {1}
  MaxMsgs = 2
  MAX_BUF_LEN = 30
  MAX_CHUNK_ID = 64
  Uninit = {0}
  RepeatExtended = FALSE
