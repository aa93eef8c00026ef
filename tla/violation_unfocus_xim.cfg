SPECIFICATION Spec
CONSTANTS
  Slots = {s1,s2}
  NoIC = NoIC
  GoneIC = GoneIC
  Apps = {a1}
  NoApp = NoApp
  MaxId = 2
  ShareState = "All"
  FirstAsInactive = FALSE
  DefaultIMState = "closed"
  ShowInputWindowTriggering = TRUE
  DoubleSwitchKey = FALSE
  IMCount = 1
  ClientVersions = {2}
  ClientCaps = {}
  KeysNeedFocus = FALSE
  MainWindowIcon = FALSE
  LoadedFrontends = {"ipc","xim"}
PROPERTY UnfocusItsContext
