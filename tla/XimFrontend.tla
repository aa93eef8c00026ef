----------------------------- MODULE XimFrontend -----------------------------
(***************************************************************************)
(* The XIM frontend (src/frontend/xim): one action per protocol request    *)
(* that changes a context, the focus or the text.  A connection is the     *)
(* application of its contexts.                                            *)
(***************************************************************************)
EXTENDS InputContext

\* GetXimIC(CurrentIC)->id: the private data of the current context is read
\* as a FcitxXimIC, whichever frontend made it; both start with the id.
CurrentXimId(d) == d.rec[d.CurrentIC].id

XimNewRec(d, connection) ==
    LET r == [NullRec EXCEPT !.frontendid = "xim", !.id = d.maxid["xim"] + 1,
                             !.app = connection, !.state = StateForNewIC(d)]
    IN  IF ShareState = "PerProgram"
        THEN [r EXCEPT !.state = StateFromSameApplication(d, r)] ELSE r

\* A context made while nobody has the focus takes it, without FocusIn.
XIMCreateICHandler(connection) ==
    /\ inst.maxid["xim"] < MaxId
    /\ \E slot \in FreshSlots(inst) :
         LET d == [CreateIC(inst, slot, XimNewRec(inst, connection))
                     EXCEPT !.maxid["xim"] = @ + 1]
         IN  inst' = IF d.CurrentIC = NoIC THEN SetCurrentIC(d, slot) ELSE d

XIMDestroyICHandler(ic) ==
    /\ ic # NoIC
    /\ inst' = DestroyIC(inst, ic)

XIMSetFocusHandler(ic) ==
    /\ ic # NoIC
    /\ inst' = FocusIn(inst, ic)

XIMUnsetFocusHandler(id) ==
    /\ inst.CurrentIC # NoIC
    /\ CurrentXimId(inst) = id
    /\ inst' = FocusOut(inst)

\* The focus moves without the preedit being committed.
XIMTriggerNotifyHandler(ic) ==
    /\ ic # NoIC
    /\ \E foreign \in ForeignAnswers(ic) :
         inst' = ShowInputSpeed(EnableIM(SetCurrentIC(inst, ic), ic, FALSE, foreign))

XIMCloseHandler == inst' = CloseInputWindow(inst)

XIMProcessKey(id, key) ==
    LET found == FindIC(inst, "xim", id)
        d == IF inst.CurrentIC = NoIC THEN SetCurrentIC(inst, found) ELSE inst
        ic == IF d.CurrentIC # NoIC /\ CurrentXimId(d) = id
              THEN d.CurrentIC ELSE found
    IN  /\ d.CurrentIC # NoIC
        /\ ic # NoIC
        /\ IF d.rec[ic].state # "closed"
           THEN \E foreign \in ForeignAnswers(d.CurrentIC) :
                  inst' = ProcessKey(d, key, foreign)
           ELSE IF key = "trigger"
           THEN \E foreign \in ForeignAnswers(ic) :
                  inst' = EnableIM(d, ic, FALSE, foreign)
           ELSE inst' = d

XimNext ==
    \/ \E connection \in Apps : XIMCreateICHandler(connection)
    \/ \E id \in 1 .. MaxId :
         \/ XIMDestroyICHandler(FindIC(inst, "xim", id))
         \/ XIMSetFocusHandler(FindIC(inst, "xim", id))
         \/ XIMUnsetFocusHandler(id)
         \/ XIMTriggerNotifyHandler(FindIC(inst, "xim", id))
         \/ \E key \in Keys : XIMProcessKey(id, key)
    \/ XIMCloseHandler
=============================================================================
