---------------------------- MODULE UserControls ----------------------------
(***************************************************************************)
(* Everything outside the frontends that changes the state of the context  *)
(* with the focus or the input method in use: the fcitx-remote socket      *)
(* (src/module/remote/remote.c), the input method menu and the reloading   *)
(* of the configuration (ime.c), the tray icon and main window of the      *)
(* classic user interface, the kimpanel logo and the virtual keyboard.     *)
(***************************************************************************)
EXTENDS InputContext

CONSTANT MainWindowIcon  \* TRUE: the main window's input method icon exists

ASSUME ControlsAssumption == MainWindowIcon \in BOOLEAN

\* The commands of the socket that change a state, [cmd, arg] as fcitx-remote
\* sends them; "reload" is ReloadConfig.
Commands == {"close", "enable", "inactivate", "toggle", "change"}

RemoteProcessEvent(cmd) ==
    LET ic == inst.CurrentIC
        state == GetCurrentStatev2(inst)
    IN  \E foreign \in ForeignAnswers(ic) :
          LET enabled == EnableIM(inst, ic, FALSE, foreign)
              closed == CloseIM(inst, ic, foreign)
          IN  inst' = CASE cmd = "close" -> closed
                        [] cmd = "enable" -> enabled
                        [] cmd = "inactivate" -> ChangeIMState(enabled, ic, foreign)
                        [] cmd = "toggle" ->
                             IF state = "active" THEN closed ELSE enabled
                        [] cmd = "change" ->
                             IF state = "closed" THEN enabled
                             ELSE ChangeIMState(inst, ic, foreign)

\* FcitxInstanceReloadConfig, from the socket, the panel or the reload key:
\* the profile may have changed in any way; the configuration is fixed here.
ReloadConfig ==
    \E count \in 0 .. IMCount : \E current \in CurrentIndices(count) :
      inst' = UpdateIMList(inst, count, current)

\* IMMenuAction, and kimpanel's TriggerProperty on "im/<name>".
IMMenuAction(index) ==
    LET ic == inst.CurrentIC
        d == SwitchIM(inst, index)
    IN  \E foreign \in ForeignAnswers(ic) :
          inst' = IF index = 0 /\ FirstAsInactive
                  THEN CloseIM(inst, ic, foreign)
                  ELSE IF GetCurrentState(d) # "active"
                  THEN EnableIM(d, ic, FALSE, foreign)
                  ELSE d

\* A click on the tray icon, the main window's logo or the panel's logo.
ClickLogo ==
    LET ic == inst.CurrentIC
    IN  \E foreign \in ForeignAnswers(ic) :
          inst' = IF GetCurrentState(inst) = "closed"
                  THEN EnableIM(inst, ic, FALSE, foreign)
                  ELSE CloseIM(inst, ic, foreign)

\* A click on the main window's input method icon, whatever the state is.
ClickIMIcon ==
    /\ MainWindowIcon
    /\ inst' = SwitchIM(inst, -1)

\* Showing the virtual keyboard enables the input method and keeps the text.
SwitchVK ==
    LET d == CloseInputWindow(inst)
    IN  \E foreign \in ForeignAnswers(inst.CurrentIC) :
          inst' = IF inst.CurrentIC # NoIC /\ GetCurrentState(inst) = "closed"
                  THEN EnableIM(d, inst.CurrentIC, TRUE, foreign)
                  ELSE d

ControlsNext ==
    \/ /\ inst.CurrentIC # NoIC
       /\ \/ \E cmd \in Commands : RemoteProcessEvent(cmd)
          \/ ClickLogo
    \/ \E index \in 0 .. IMCount - 1 : IMMenuAction(index)
    \/ ClickIMIcon
    \/ SwitchVK
    \/ ReloadConfig
=============================================================================
