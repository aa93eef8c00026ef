SPECIFICATION Spec
CONSTANTS
  Methods <- MCMethods
  NoMethod = "none"
  Addons <- MCAddons
  Owner <- MCOwner
  ByConfigFile <- MCByConfigFile
  Priority <- MCPriority
  FilePriority <- MCFilePriority
  NameOrder <- MCNameOrder
  PrefixOf <- MCPrefixOf
  Uses <- MCUses
  NoAddon = "none"
  BrokenSets <- MCBrokenSets
  SettableLists <- MCSettableLists
  MaxDepth = 9
  MaxRuns = 2
  MaxChanges = 3
CHECK_DEADLOCK FALSE
INVARIANTS TypeOK CurrentUsable ListSaved ChoiceKept CurrentRestored
PROPERTY CallsEnd
