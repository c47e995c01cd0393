SPECIFICATION WireSpec
INVARIANTS
  ServerGetsMeant
CHECK_DEADLOCK FALSE
CONSTANTS
  BufLen = 786
  Byte = {0, 195}
  ct = 195
  Urls <- MCLongUrls
  MaxUrls = 1
  StreamIds = {1, 7}
  Windows = {5000}
  Commands <- MCCommands
  MaxCommands = 0
  InOrder = TRUE
  Durations = {}
