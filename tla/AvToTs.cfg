SPECIFICATION AvFairSpec
INVARIANTS
  TypeOK
  NalsConverted
  HeadOfLatest
  AdtsRight
  PicturesDelimited
  TimesReadBack
  EndsOnUnsound
  OnePesPerFrame
  PesAsMeant
  AudioNearVideo
PROPERTIES
  LoopEnds
CHECK_DEADLOCK FALSE
CONSTANTS
  ByteValues = 16
  MaxParameterSet = 16
  MaxOffset = 10
  TimeMod = 256
  Messages <- MCMessages
  Tails <- MCTails
  Uninit = {0, 5, 65531}
  Garbage <- MCGarbage
  MaxMessages = 3
  P = 2
  CacheLen = 7
  CounterMod = 16
  PesBuf = 48
  PsiGap = 300
  Near = 20
  Wrap = 65536
  EsLens = {}
  Times = {}
  Clocks = {1000}
  MaxFrames = 3
  WriteLens = {0, 7}
