SPECIFICATION RecordSpec
INVARIANTS
  TypeOK
  FileWhole
  PacketsFull
  CountersContinue
  PesReassembled
  KeyframeEntry
  LatestInFront
  SeamsBetweenGroups
PROPERTIES
  OldTailKept
CHECK_DEADLOCK FALSE
CONSTANTS
  CacheLen = 3
  CounterMod = 4
  PesBuf = 400
  PsiGap = 300
  Near = 100
  Wrap = 1000000
  EsLens = {168, 340}
  Times = {200}
  Clocks = {1000, 1301}
  MaxFrames = 3
  MaxLives = 2
  WriteLens = {1, 3}
