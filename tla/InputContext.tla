---------------------------- MODULE InputContext ----------------------------
(***************************************************************************)
(* The input-context layer of libfcitx: FcitxInstance's list of input      *)
(* contexts, the context that has the focus, and the library functions of  *)
(* frontend.c, ime.c and ui.c that frontends and user interfaces call.     *)
(*                                                                         *)
(* The instance is one record, and every library function is an operator   *)
(* from instance to instance, so that a handler that calls three of them   *)
(* is their composition.  The daemon runs all of this on one thread: a     *)
(* handler is one step, and what interleaves is the requests of clients.   *)
(*                                                                         *)
(* Text is abstracted to its owner: codeInput is the context in which the  *)
(* oldest key of the raw buffer was typed, clientPreedit the context for   *)
(* which the client preedit was made (NoIC when empty, GoneIC when that    *)
(* context has been destroyed since).                                      *)
(***************************************************************************)
EXTENDS Integers, FiniteSets

CONSTANTS
    Slots,      \* FcitxInputContext structures malloc can return (a bound)
    NoIC,       \* the NULL input context
    GoneIC,     \* a context that has been destroyed
    Apps,       \* names of client applications (XIM: connections)
    NoApp,      \* an application that gave no name
    MaxId,      \* bound on the contexts a frontend creates
    ShareState,                 \* config->shareState
    FirstAsInactive,            \* config->firstAsInactive
    DefaultIMState,             \* config->defaultIMState
    ShowInputWindowTriggering,  \* config->bShowInputWindowTriggering
    DoubleSwitchKey,            \* config->bDoubleSwitchKey
    IMCount     \* input methods installed: the longest list there can be

VARIABLE inst   \* FcitxInstance

ContextState == {"closed", "inactive", "active"}
Frontends == {"ipc", "xim"}
Capacity == {"control", "password"}  \* the flags the library itself reads

ASSUME SlotsAssumption == NoIC \notin Slots /\ GoneIC \notin Slots /\ NoIC # GoneIC
\* The name of an application is not a structure.
ASSUME AppsAssumption == NoApp \notin Apps /\ Apps \intersect Slots = {}
ASSUME ConfigAssumption ==
    /\ ShareState \in {"None", "All", "PerProgram"}
    /\ FirstAsInactive \in BOOLEAN
    /\ DefaultIMState \in ContextState
    \* FilterFirstAsInactive: a closed default becomes inactive.
    /\ FirstAsInactive => DefaultIMState # "closed"
    /\ ShowInputWindowTriggering \in BOOLEAN
    /\ DoubleSwitchKey \in BOOLEAN
\* FcitxInstanceLoadAllIM ends the instance when there is no input method.
ASSUME IMAssumption == IMCount \in Nat \ {0}
\* Below the width of the XIM frontend's CARD16 id, which wraps at 2^16.
ASSUME IdAssumption == MaxId \in Nat /\ MaxId < 2^16

InputContextRec ==
    [frontendid : Frontends, id : Nat, app : Apps \union {NoApp},
     contextCaps : SUBSET Capacity, state : ContextState, told : BOOLEAN]

\* A structure nobody uses: FcitxInstanceCreateIC clears it before it is read.
NullRec == [frontendid |-> "ipc", id |-> 0, app |-> NoApp,
            contextCaps |-> {}, state |-> "closed", told |-> FALSE]

Owner == Slots \union {NoIC, GoneIC}

Instance ==
    [ic_list : SUBSET Slots, free_list : SUBSET Slots,
     rec : [Slots -> InputContextRec], CurrentIC : Slots \union {NoIC},
     globalState : ContextState,
     imcount : 0 .. IMCount,   \* utarray_len(&instance->imes)
     iIMIndex : -1 .. IMCount, lastIMIndex : -1 .. IMCount,
     codeInput : Owner, clientPreedit : Owner,
     maxid : [Frontends -> Nat]]

-----------------------------------------------------------------------------
(* State queries. *)

GetCurrentState(d) ==
    IF d.CurrentIC = NoIC THEN "closed" ELSE d.rec[d.CurrentIC].state

GetCurrentStatev2(d) ==
    IF FirstAsInactive /\ GetCurrentState(d) = "inactive"
    THEN "active" ELSE GetCurrentState(d)

Controls(r) == "control" \in r.contextCaps

\* The frontend's CheckIC callbacks compare the id; the list is newest first.
FindIC(d, frontend, id) ==
    LET found == {s \in d.ic_list : d.rec[s].frontendid = frontend
                                      /\ d.rec[s].id = id}
    IN  IF found = {} THEN NoIC ELSE CHOOSE s \in found : TRUE

\* The frontends' CheckICFromSameApplication, on two contexts of one frontend.
SameApplication(r1, r2) == r1.app # NoApp /\ r1.app = r2.app

\* Mutant: a shared state is changed for the calling context only.
AffectedCallerOnly(d, ic, foreign) == {ic}

\* The contexts a state change of ic reaches.  Under PerProgram the callback
\* of ic's frontend is called on contexts of other frontends too, whose
\* private data it reads as its own: "foreign" is what that answers.
Affected(d, ic, foreign) ==
    LET group ==
          CASE ShareState = "All" -> d.ic_list
            [] ShareState = "PerProgram" ->
                 {r \in d.ic_list :
                    IF d.rec[r].frontendid = d.rec[ic].frontendid
                    THEN SameApplication(d.rec[r], d.rec[ic])
                    ELSE r \in foreign}
            [] ShareState = "None" -> {ic}
    IN  {r \in group : r = ic \/ ~Controls(d.rec[r])}

\* What the callback may answer for the contexts of other frontends.
ForeignAnswers(ic) ==
    IF ic = NoIC \/ ShareState # "PerProgram" THEN {{}}
    ELSE SUBSET {s \in inst.ic_list :
                   inst.rec[s].frontendid # inst.rec[ic].frontendid}

-----------------------------------------------------------------------------
(* Input window and input buffer. *)

CleanInputWindow(d) == [d EXCEPT !.clientPreedit = NoIC]

CloseInputWindow(d) == CleanInputWindow(d)

\* FcitxInstanceResetInput leaves the messages of the input window alone.
ResetInput(d) == [d EXCEPT !.codeInput = NoIC]

CommitPreedit(d) == IF d.CurrentIC = NoIC THEN d ELSE CleanInputWindow(d)

ShowInputSpeed(d) ==
    IF ShowInputWindowTriggering THEN CleanInputWindow(d) ELSE d

-----------------------------------------------------------------------------
(* The current input method. *)

\* Mutant: the next input method after the last one is past the list.
NextIMIndexNoWrap(d, index) ==
    CASE index >= d.imcount -> d.imcount - 1
      [] index = -1 -> d.iIMIndex + 1
      [] OTHER -> 0

NextIMIndex(d, index) ==
    CASE index >= d.imcount -> d.imcount - 1
      [] index < -2 -> 0
      [] index = -2 -> IF d.iIMIndex > 0 THEN d.iIMIndex - 1 ELSE d.imcount - 1
      [] index = -1 -> IF d.iIMIndex >= d.imcount - 1 THEN 0 ELSE d.iIMIndex + 1
      [] OTHER -> index

SwitchIMInternal(d, index, skipZero) ==
    LET next == NextIMIndex(d, index)
        new == IF skipZero /\ next = 0 THEN 1 ELSE next
        last == IF FirstAsInactive /\ new # 0 THEN new ELSE d.lastIMIndex
    IN  [ResetInput(CleanInputWindow(d)) EXCEPT !.iIMIndex = new,
                                                !.lastIMIndex = last]

SwitchIM(d, index) == SwitchIMInternal(d, index, FirstAsInactive)

\* Where the input method the profile names may be: FcitxInstanceGetIMIndexByName
\* answers 0 for one that is not in the list.
CurrentIndices(count) == {0} \union 0 .. count - 1

\* The list is made anew from the profile, with "count" input methods enabled.
UpdateIMList(d, count, current) ==
    SwitchIM([d EXCEPT !.imcount = count, !.iIMIndex = current], current)

-----------------------------------------------------------------------------
(* State changes. *)

\* EnableIMInternal signals a client only when its context was closed.
EnableRec(r) ==
    [r EXCEPT !.state = "active", !.told = (r.state = "closed") \/ r.told]

CloseRec(r) == [r EXCEPT !.state = "closed", !.told = FALSE]

EnableIM(d, ic, keepState, foreign) ==
    LET on == Affected(d, ic, foreign)
        set == [d EXCEPT !.globalState = "active",
                         !.rec = [s \in Slots |-> IF s \in on
                                                  THEN EnableRec(d.rec[s])
                                                  ELSE d.rec[s]]]
        triggered == IF d.CurrentIC \in on /\ GetCurrentState(d) = "closed"
                     THEN ShowInputSpeed(set) ELSE set
        reset == IF d.CurrentIC \in on /\ ~keepState
                 THEN ResetInput(triggered) ELSE triggered
    IN  IF ic = NoIC THEN d
        ELSE IF FirstAsInactive /\ GetCurrentState(reset) = "active"
                                /\ reset.iIMIndex = 0
        THEN SwitchIM(reset, reset.lastIMIndex)
        ELSE reset

ChangeIMState(d, ic, foreign) ==
    LET objectState ==
          IF d.rec[ic].state = "inactive" THEN "active" ELSE "inactive"
        e == IF ~FirstAsInactive THEN d
             ELSE IF objectState = "active" THEN SwitchIM(d, d.lastIMIndex)
             ELSE SwitchIMInternal(d, 0, FALSE)
        on == {s \in Affected(d, ic, foreign) : d.rec[s].state # objectState}
        set == [e EXCEPT !.globalState = objectState,
                         !.rec = [s \in Slots |->
                                    IF s \in on
                                    THEN [d.rec[s] EXCEPT !.state = objectState]
                                    ELSE d.rec[s]]]
    IN  IF ic = NoIC THEN d
        ELSE IF d.CurrentIC \notin on THEN set
        ELSE IF objectState = "active" THEN ResetInput(set)
        ELSE CloseInputWindow(ResetInput(set))

CloseIM(d, ic, foreign) ==
    LET on == Affected(d, ic, foreign)
        set == [d EXCEPT !.globalState = "closed",
                         !.rec = [s \in Slots |-> IF s \in on
                                                  THEN CloseRec(d.rec[s])
                                                  ELSE d.rec[s]]]
    IN  IF ic = NoIC THEN d
        ELSE IF FirstAsInactive /\ ~Controls(d.rec[ic])
        THEN ChangeIMState(d, ic, foreign)
        ELSE IF d.CurrentIC \in on THEN CloseInputWindow(set) ELSE set

-----------------------------------------------------------------------------
(* Focus. *)

SetCurrentIC(d, ic) == [d EXCEPT !.CurrentIC = ic]

\* Mutant: the raw buffer survives a change of the focus.
OnInputFocusKeepsText(d) == CloseInputWindow(d)

\* Mutant: the input method is not matched to the state of the context.
OnInputFocusKeepsIM(d) == CloseInputWindow(ResetInput(d))

OnInputFocus(d) ==
    LET e == ResetInput(d)
        f == CASE FirstAsInactive /\ GetCurrentState(e) = "active" ->
                    SwitchIM(e, e.lastIMIndex)
               [] FirstAsInactive /\ GetCurrentState(e) = "inactive" ->
                    SwitchIMInternal(
                      IF e.iIMIndex # 0
                      THEN [e EXCEPT !.lastIMIndex = e.iIMIndex] ELSE e,
                      0, FALSE)
               [] OTHER -> e
    IN  CloseInputWindow(f)

\* The focus handlers the IPC and the XIM frontend share, line for line.
FocusIn(d, ic) ==
    LET e == IF d.CurrentIC \notin {NoIC, ic} THEN CommitPreedit(d) ELSE d
    IN  IF d.CurrentIC = ic THEN d ELSE OnInputFocus(SetCurrentIC(e, ic))

FocusOut(d) == SetCurrentIC(CloseInputWindow(CommitPreedit(d)), NoIC)

-----------------------------------------------------------------------------
(* Creation and destruction. *)

\* The free list is used before malloc.
FreshSlots(d) ==
    IF d.free_list # {} THEN d.free_list ELSE Slots \ d.ic_list

\* Mutant: a new context starts in the configured state when all share one.
StateForNewICDefault(d) == DefaultIMState

StateForNewIC(d) ==
    IF ShareState = "All" THEN d.globalState ELSE DefaultIMState

\* Mutant: a new context does not join its application's state.
StateFromSameApplicationNone(d, r) == r.state

\* The state of the newest context of the frontend in the same application.
StateFromSameApplication(d, r) ==
    LET same == {s \in d.ic_list : d.rec[s].frontendid = r.frontendid
                                     /\ SameApplication(d.rec[s], r)}
        newest == {s \in same : \A t \in same : d.rec[t].id <= d.rec[s].id}
    IN  IF newest = {} THEN r.state
        ELSE d.rec[CHOOSE s \in newest : TRUE].state

CreateIC(d, slot, r) ==
    [d EXCEPT !.free_list = @ \ {slot}, !.ic_list = @ \union {slot},
              !.rec[slot] = r]

\* Mutant: a destroyed context keeps the focus.
DestroyICKeepsFocus(d, ic) ==
    [d EXCEPT !.ic_list = @ \ {ic}, !.free_list = @ \union {ic},
              !.rec[ic] = NullRec]

\* Mutant: a destroyed context leaves the input window up.
DestroyICKeepsWindow(d, ic) ==
    LET e == IF d.CurrentIC = ic THEN SetCurrentIC(d, NoIC) ELSE d
    IN  [e EXCEPT !.ic_list = @ \ {ic}, !.free_list = @ \union {ic},
                  !.rec[ic] = NullRec,
                  !.clientPreedit = IF @ = ic THEN GoneIC ELSE @]

\* Only a context with the focus takes the input window down; the raw buffer
\* is left as it is.
DestroyIC(d, ic) ==
    LET e == IF d.CurrentIC = ic
             THEN SetCurrentIC(CloseInputWindow(d), NoIC) ELSE d
    IN  [e EXCEPT !.ic_list = @ \ {ic}, !.free_list = @ \union {ic},
                  !.rec[ic] = NullRec,
                  !.codeInput = IF @ = ic THEN GoneIC ELSE @,
                  !.clientPreedit = IF @ = ic THEN GoneIC ELSE @]

-----------------------------------------------------------------------------
(* Key events, as far as contexts, focus and the owner of the text go.     *)
(*   trigger  press of hkTrigger                                           *)
(*   switch   release of the switch key that was pressed just before, or   *)
(*            with DoubleSwitchKey its second press in a row                *)
(*   nextim   release of left Ctrl+Shift                                   *)
(*   text     press of a key the input method adds to the raw buffer       *)
(*   commit   press of a key on which the input method commits its text    *)

Keys == {"trigger", "switch", "nextim", "text", "commit"}

\* The input method appends the key and makes a new client preedit.
Compose(d) ==
    [d EXCEPT !.codeInput = IF @ = NoIC THEN d.CurrentIC ELSE @,
              !.clientPreedit = d.CurrentIC]

\* IRV_COMMIT_STRING: phrase tips clean the window, then the input is reset.
CommitComposed(d) == ResetInput(CleanInputWindow(d))

ProcessTriggerKey(d, foreign) ==
    IF GetCurrentState(d) = "inactive"
    THEN ShowInputSpeed(ChangeIMState(d, d.CurrentIC, foreign))
    ELSE CloseIM(d, d.CurrentIC, foreign)

\* Mutant: the switch key works in a closed context too.
ProcessSwitchKeyAlways(d, foreign) == ChangeIMState(d, d.CurrentIC, foreign)

\* Only the release asks whether the context is closed.  The second press
\* also sends the raw buffer to the client, which changes nothing here.
ProcessSwitchKey(d, foreign) ==
    IF DoubleSwitchKey THEN ChangeIMState(d, d.CurrentIC, foreign)
    ELSE CASE GetCurrentState(d) = "closed" -> d
           [] GetCurrentState(d) = "inactive" ->
                ChangeIMState(ShowInputSpeed(d), d.CurrentIC, foreign)
           [] OTHER -> ChangeIMState(d, d.CurrentIC, foreign)

ProcessInputKey(d, key) ==
    IF GetCurrentStatev2(d) # "active" \/ d.iIMIndex \notin 0 .. d.imcount - 1
    THEN d
    ELSE IF key = "text" THEN Compose(d) ELSE CommitComposed(d)

\* FcitxInstanceProcessKey works on the current context, whoever called it.
ProcessKey(d, key, foreign) ==
    IF d.CurrentIC = NoIC THEN d
    ELSE IF "password" \in d.rec[d.CurrentIC].contextCaps THEN d
    ELSE CASE key = "trigger" -> ProcessTriggerKey(d, foreign)
           [] key = "switch" -> ProcessSwitchKey(d, foreign)
           [] key = "nextim" -> IF GetCurrentState(d) = "active"
                                THEN SwitchIM(d, -1) ELSE d
           [] OTHER -> ProcessInputKey(d, key)

-----------------------------------------------------------------------------
\* FcitxInstanceCreate loads the list and selects the saved input method
\* before any frontend runs; which ones the profile has is open.
InitInstance(count, saved) ==
    LET blank ==
          [ic_list |-> {}, free_list |-> {}, rec |-> [s \in Slots |-> NullRec],
           CurrentIC |-> NoIC, globalState |-> DefaultIMState,
           imcount |-> 0, iIMIndex |-> 0, lastIMIndex |-> 0,
           codeInput |-> NoIC, clientPreedit |-> NoIC,
           maxid |-> [f \in Frontends |-> 0]]
        loaded == UpdateIMList(blank, count, saved)
        selected == SwitchIM(loaded, loaded.iIMIndex)
    IN  [selected EXCEPT !.lastIMIndex = selected.iIMIndex]
=============================================================================
