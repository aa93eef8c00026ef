----------------------------- MODULE InputDaemon -----------------------------
(***************************************************************************)
(* The daemon: clients of the D-Bus and of the XIM frontend and the user's *)
(* controls, in any order.  RunInstance dispatches one event at a time.    *)
(***************************************************************************)
EXTENDS IpcFrontend, XimFrontend, UserControls

CONSTANT LoadedFrontends  \* the frontends FcitxInstanceLoadFrontend started

ASSUME LoadedAssumption == LoadedFrontends \subseteq Frontends

\* Contexts that have had the control flag, and applications that have had
\* such a context: their state is their client's business.
VARIABLE controlled

vars == <<inst, controlled>>

ControlledNow(d) ==
    LET live == {s \in d.ic_list : Controls(d.rec[s])}
    IN  live \union {d.rec[s].app : s \in live}

Init ==
    /\ \E count \in 0 .. IMCount : \E saved \in CurrentIndices(count) :
         inst = InitInstance(count, saved)
    /\ controlled = {}

Event ==
    \/ "ipc" \in LoadedFrontends /\ IpcNext
    \/ "xim" \in LoadedFrontends /\ XimNext
    \/ ControlsNext

Next ==
    /\ Event
    /\ controlled' = (controlled \ (Slots \ inst'.ic_list))
                       \union ControlledNow(inst')

Spec == Init /\ [][Next]_vars

-----------------------------------------------------------------------------
(* Properties. *)

Free(s) == s \notin controlled

\* Every field of the instance has its type: the indices of the input method
\* list are in its bounds or one past them, or -1 after an empty list.
TypeOK ==
    /\ inst \in Instance
    /\ controlled \subseteq Slots \union Apps \union {NoApp}

\* A context is in at most one of the two lists of frontend.c, the focus is
\* never on a destroyed context (FcitxInstanceDestroyIC takes it away), and
\* an id names one context of its frontend (FcitxInstanceFindIC takes the
\* first): a request never reaches another client's context.
ListsOK ==
    /\ inst.ic_list \intersect inst.free_list = {}
    /\ inst.CurrentIC \in inst.ic_list \union {NoIC}
    /\ \A s, t \in inst.ic_list :
         /\ inst.rec[s].frontendid = inst.rec[t].frontendid
         /\ inst.rec[s].id = inst.rec[t].id
         => s = t

\* ShareStateAmongWindow=All: all contexts are in the global state, whichever
\* client, key or control changed it and whenever they were created; only a
\* context whose client controls its state may differ.
SharedStateCoherent ==
    ShareState = "All" =>
      \A s \in inst.ic_list : Free(s) => inst.rec[s].state = inst.globalState

\* ShareStateAmongWindow=PerProgram: the contexts of an application are in
\* the same state, across creation, destruction and changes of the focus.
ProgramStateCoherent ==
    ShareState = "PerProgram" =>
      \A s, t \in inst.ic_list :
        /\ inst.rec[s].frontendid = inst.rec[t].frontendid
        /\ SameApplication(inst.rec[s], inst.rec[t])
        /\ Free(inst.rec[s].app)
        => inst.rec[s].state = inst.rec[t].state

\* What a D-Bus client was last told (CreateICv2's reply, the EnableIM and
\* CloseIM signals) is whether its context is enabled: no change of another
\* context of the group leaves a client with a wrong picture.  A client told
\* that its context is enabled is never wrong; one told that it is closed may
\* be wrong only with the double switch key, whose press (ime.c:505-511)
\* opens a closed context and tells nobody.  For clients that leave their
\* state to the daemon.
ClientToldState ==
    \A s \in inst.ic_list :
      inst.rec[s].frontendid = "ipc" =>
        /\ inst.rec[s].told => inst.rec[s].state # "closed"
        /\ ~DoubleSwitchKey /\ inst.rec[s].state # "closed" => inst.rec[s].told

\* The preedit text on display was made for the context with the focus:
\* focus never moves, is taken or is lost with another context's preedit.
PreeditBelongsToCurrent == inst.clientPreedit \in {NoIC, inst.CurrentIC}

\* The raw buffer holds no key typed in another context, so that no text is
\* committed to a context other than the one it was typed in.
TextStaysInItsContext ==
    inst.CurrentIC # NoIC => inst.codeInput \in {NoIC, inst.CurrentIC}

\* The steps that select an input method and ask for no state.
ReselectIM == IPCSetPropertyIMList \/ ReloadConfig \/ ClickIMIcon

\* FirstAsInactive: however the list, the focus and the states change, the
\* input method to return to is in the list and never its first, an active
\* context has another than the first, and an inactive one has the first.  A
\* new list and the main window's icon select another in an inactive context
\* too; it stays until the state or the focus changes.
IMFollowsState ==
    [][FirstAsInactive /\ inst'.imcount > 1 =>
         /\ inst'.lastIMIndex \in 1 .. inst'.imcount - 1
         /\ inst'.iIMIndex \in 0 .. inst'.imcount - 1
         /\ GetCurrentState(inst') = "active" => inst'.iIMIndex # 0
         /\ GetCurrentState(inst') = "inactive" =>
              \/ inst'.iIMIndex = 0
              \/ ReselectIM
              \/ /\ GetCurrentState(inst) = "inactive"
                 /\ inst'.CurrentIC = inst.CurrentIC
                 /\ inst'.iIMIndex = inst.iIMIndex]_vars

\* One shared mode for all contexts (see SharedMode), for clients that leave
\* their state to the daemon and send keys only when they have the focus.
Shared == INSTANCE SharedMode WITH
    Context <- Slots, None <- NoIC, Initial <- DefaultIMState,
    open <- inst.ic_list, focus <- inst.CurrentIC,
    mode <- inst.globalState,
    view <- [s \in inst.ic_list |-> inst.rec[s].state]

ImplementsSharedMode == Shared!Spec

-----------------------------------------------------------------------------
(* What the sources say of the program, and what the code does instead.    *)

\* API.txt: icid is the "input context ID to change focus".  A request of
\* XIM_UNSET_IC_FOCUS for a living XIM context takes the focus from no other.
UnfocusItsContext ==
    [][\A id \in 1 .. MaxId :
         LET ic == FindIC(inst, "xim", id)
         IN  /\ inst.CurrentIC # NoIC /\ ic # NoIC
             /\ XIMUnsetFocusHandler(id) /\ inst'.CurrentIC = NoIC
             => ic = inst.CurrentIC]_vars
=============================================================================
