SPECIFICATION MCFairSpec
INVARIANTS
  FullBufferOnlyForOversizedChunk
  AbsoluteTimestamps
PROPERTIES
  EventuallyDelivered
CHECK_DEADLOCK FALSE
CONSTANTS
  S0S1Len = 2
  S2Len = 1
  DefaultChunk = 2
  TsExt = 2
  Csids = {3, 70}
  StartFmts = {0, 1}
  MediaTypes = {8}
  Sizes = {4}
  ChunkSizes = {1, 4}
  Deltas = {1}
  MaxMsgs = 2
  MAX_BUF_LEN = 17
  MAX_CHUNK_ID = 64
  Uninit = {0, 5}
  RepeatExtended = FALSE
