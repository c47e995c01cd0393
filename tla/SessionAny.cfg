SPECIFICATION Spec
INVARIANTS
  TypeOK
  SentOnceInOrder
  ReleasedByResult
  WindowReturned
CHECK_DEADLOCK FALSE
CONSTANTS
  StreamIds = {7}
  ByteValues = 256
  Windows = {2500, 5000}
  Uninit = {99}
  InOrder = FALSE
  Refusals = {1, 2, 3, 4}
  MaxOther = 2
