SPECIFICATION Spec
CONSTANTS
  MaxDaemons = 2
  MaxKeys = 2
  MaxOthers = 1
  MaxToggles = 1
  MaxTimeouts = 1
INVARIANTS
  ContextIsMine
  KeysOnce
PROPERTIES
  KeysSettle
  Reconnects
CHECK_DEADLOCK FALSE
