----------------------------- MODULE IpcFrontend -----------------------------
(***************************************************************************)
(* The D-Bus frontend (src/frontend/ipc/ipc.c): one action per method a    *)
(* client can call.  A call on the object path of a context names its id,  *)
(* and reaches the handler only if FcitxInstanceFindIC finds that id.      *)
(***************************************************************************)
EXTENDS InputContext

CONSTANTS
    ClientVersions,   \* subset of {1, 2}: CreateIC and CreateICv2 are called
    ClientCaps,       \* flags clients pass to SetCapacity
    KeysNeedFocus     \* TRUE: no key event comes while nobody has the focus

ASSUME IpcAssumption ==
    /\ ClientVersions \subseteq {1, 2}
    /\ ClientCaps \subseteq Capacity
    /\ KeysNeedFocus \in BOOLEAN

\* CreateIC (v1) starts closed and leaves the state to the client; CreateICv2
\* names its application and is told whether the context is enabled.
IPCNewRec(d, version, app) ==
    LET r == [NullRec EXCEPT !.frontendid = "ipc", !.id = d.maxid["ipc"],
                             !.state = StateForNewIC(d)]
        v1 == [r EXCEPT !.state = "closed", !.contextCaps = {"control"}]
        named == [r EXCEPT !.app = app]
        v2 == IF ShareState = "PerProgram"
              THEN [named EXCEPT !.state = StateFromSameApplication(d, named)]
              ELSE named
    IN  IF version = 1 THEN v1 ELSE [v2 EXCEPT !.told = v2.state # "closed"]

IPCCreateIC(version, app) ==
    /\ inst.maxid["ipc"] < MaxId
    /\ version = 1 => app = NoApp
    /\ \E slot \in FreshSlots(inst) :
         inst' = [CreateIC(inst, slot, IPCNewRec(inst, version, app))
                    EXCEPT !.maxid["ipc"] = @ + 1]

IPCDestroyIC(ic) == inst' = DestroyIC(inst, ic)

IPCEnableIC(ic) ==
    \E foreign \in ForeignAnswers(ic) : inst' = EnableIM(inst, ic, FALSE, foreign)

IPCCloseIC(ic) ==
    \E foreign \in ForeignAnswers(ic) : inst' = CloseIM(inst, ic, foreign)

IPCICFocusIn(ic) == inst' = FocusIn(inst, ic)

IPCICFocusOut(ic) ==
    /\ ic = inst.CurrentIC
    /\ inst' = FocusOut(inst)

IPCICReset(ic) ==
    /\ ic = inst.CurrentIC
    /\ inst' = ResetInput(CloseInputWindow(inst))

\* The flags replace the old ones, those CreateIC set included.
IPCSetCapacity(ic, flags) == inst' = [inst EXCEPT !.rec[ic].contextCaps = flags]

\* A context that calls while nobody has the focus takes it, without any of
\* what FocusIn does; then the key goes to the context with the focus.
IPCProcessKey(callic, key) ==
    /\ KeysNeedFocus => inst.CurrentIC # NoIC
    /\ LET d == IF inst.CurrentIC = NoIC THEN SetCurrentIC(inst, callic) ELSE inst
       IN  IF d.rec[callic].state = "closed" /\ key = "trigger"
           THEN \E foreign \in ForeignAnswers(callic) :
                  inst' = EnableIM(d, callic, FALSE, foreign)
           ELSE \E foreign \in ForeignAnswers(d.CurrentIC) :
                  inst' = ProcessKey(d, key, foreign)

\* IPCICDBusEventHandler: the dispatch of a call on a context's path.
IPCCall(id) ==
    LET ic == FindIC(inst, "ipc", id)
    IN  /\ ic # NoIC
        /\ \/ IPCEnableIC(ic)
           \/ IPCCloseIC(ic)
           \/ IPCICFocusIn(ic)
           \/ IPCICFocusOut(ic)
           \/ IPCICReset(ic)
           \/ \E flags \in SUBSET ClientCaps : IPCSetCapacity(ic, flags)
           \/ IPCDestroyIC(ic)
           \/ \E key \in Keys : IPCProcessKey(ic, key)

\* A client sets the IMList property: any list of enabled input methods,
\* whatever the state of the contexts is.
IPCSetPropertyIMList ==
    \E count \in 0 .. IMCount : \E current \in CurrentIndices(count) :
      inst' = UpdateIMList(inst, count, current)

IpcNext ==
    \/ \E version \in ClientVersions, app \in Apps \union {NoApp} :
         IPCCreateIC(version, app)
    \/ IPCSetPropertyIMList
    \/ \E id \in 0 .. MaxId - 1 : IPCCall(id)
=============================================================================
