SPECIFICATION Spec
CONSTANTS
  Slots = {s1,s2,s3}
  NoIC = NoIC
  GoneIC = GoneIC
  Apps = {a1}
  NoApp = NoApp
  MaxId = 3
  ShareState = "PerProgram"
  FirstAsInactive = FALSE
  DefaultIMState = "closed"
  ShowInputWindowTriggering = TRUE
  DoubleSwitchKey = TRUE
  IMCount = 1
  ClientVersions = {2}
  ClientCaps = {"control"}
  KeysNeedFocus = TRUE
  MainWindowIcon = TRUE
  LoadedFrontends = {"ipc"}
SYMMETRY SlotSymmetry
INVARIANTS ProgramStateCoherent
