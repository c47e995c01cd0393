SPECIFICATION Spec
INVARIANTS
  PlayOnStream
CHECK_DEADLOCK FALSE
CONSTANTS
  StreamIds = {1, 7}
  ByteValues = 256
  Windows = {2500, 5000}
  Uninit = {0, 99}
  InOrder = FALSE
  Refusals = {}
  MaxOther = 0
