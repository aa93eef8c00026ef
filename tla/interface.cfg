SPECIFICATION Spec
CONSTANTS
  MaxEvents = 2
  MaxPanel = 3
INVARIANTS
  AsleepDrawn
  NothingStranded
  InterfaceFollowsPanel
  OneWindow
PROPERTIES
  Settles
CHECK_DEADLOCK FALSE
