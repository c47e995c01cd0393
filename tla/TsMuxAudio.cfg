SPECIFICATION Spec
INVARIANTS
  AudioTimes
CHECK_DEADLOCK FALSE
CONSTANTS
  CacheLen = 7
  CounterMod = 16
  PesBuf = 400
  PsiGap = 300
  Near = 100
  Wrap = 1000000
  EsLens = {1}
  Times = {40, 50}
  Clocks = {1000}
  MaxFrames = 2
  WriteLens = {0, 7}
