SPECIFICATION WireFairSpec
INVARIANTS
  WireTypeOK
  SplitRight
  UrlUnderstood
  ServerGetsMeant
  EndsOnlyOnDamage
PROPERTIES
  DialogueHeard
CHECK_DEADLOCK FALSE
CONSTANTS
  BufLen = 786
  Byte = {0, 195}
  ct = 195
  Urls <- MCUrls
  MaxUrls = 1
  StreamIds = {1, 7}
  Windows = {5000, 2500000}
  Commands <- MCCommands
  MaxCommands = 2
  InOrder = FALSE
  Durations = {9}
