SPECIFICATION Spec
CONSTANTS
  Addon <- MCAddon
  NoAddon = "none"
  Category <- MCCategory
  Depend <- MCDepend
  Needs <- MCNeeds
  Fallback <- MCFallback
  EventModule = {"x11", "dbus", "remote"}
  SelfRegistered = {"table"}
  Setups <- MCSetups
  MaxExits = 2
INVARIANTS
  InterfaceReady
  WorkingAddonsLoaded
  SavedOnExit
PROPERTIES
  StartsOrEnds
CHECK_DEADLOCK FALSE
