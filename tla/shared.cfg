SPECIFICATION Spec
CONSTANTS
  Slots = {s1,s2,s3}
  NoIC = NoIC
  GoneIC = GoneIC
  Apps = {a1}
  NoApp = NoApp
  MaxId = 2
  ShareState = "All"
  FirstAsInactive = FALSE
  DefaultIMState = "inactive"
  ShowInputWindowTriggering = TRUE
  DoubleSwitchKey = TRUE
  IMCount = 1
  ClientVersions = {1,2}
  ClientCaps = {"control"}
  KeysNeedFocus = FALSE
  MainWindowIcon = TRUE
  LoadedFrontends = {"ipc","xim"}
SYMMETRY SlotSymmetry
INVARIANTS TypeOK SharedStateCoherent ListsOK PreeditBelongsToCurrent
