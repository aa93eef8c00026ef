SPECIFICATION Spec
CONSTANTS
  Slots = {s1,s2,s3}
  NoIC = NoIC
  GoneIC = GoneIC
  Apps = {}
  NoApp = NoApp
  MaxId = 3
  ShareState = "All"
  FirstAsInactive = TRUE
  DefaultIMState = "inactive"
  ShowInputWindowTriggering = TRUE
  DoubleSwitchKey = TRUE
  IMCount = 3
  ClientVersions = {2}
  ClientCaps = {"password"}
  KeysNeedFocus = TRUE
  MainWindowIcon = TRUE
  LoadedFrontends = {"ipc"}
SYMMETRY SlotSymmetry
PROPERTY IMFollowsState
