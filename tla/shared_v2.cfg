SPECIFICATION Spec
CONSTANTS
  Slots = {s1,s2,s3}
  NoIC = NoIC
  GoneIC = GoneIC
  Apps = {}
  NoApp = NoApp
  MaxId = 3
  ShareState = "All"
  FirstAsInactive = FALSE
  DefaultIMState = "inactive"
  ShowInputWindowTriggering = TRUE
  DoubleSwitchKey = FALSE
  IMCount = 2
  ClientVersions = {2}
  ClientCaps = {"password"}
  KeysNeedFocus = TRUE
  MainWindowIcon = TRUE
  LoadedFrontends = {"ipc"}
INVARIANTS ClientToldState TextStaysInItsContext
PROPERTY ImplementsSharedMode
