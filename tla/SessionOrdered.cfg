SPECIFICATION FairSpec
INVARIANTS
  PlayOnStream
PROPERTIES
  PlayReached
CHECK_DEADLOCK FALSE
CONSTANTS
  StreamIds = {1, 7}
  ByteValues = 256
  Windows = {2500, 5000}
  Uninit = {0, 99}
  InOrder = TRUE
  Refusals = {1, 3, 4}
  MaxOther = 1
