---------------------------- MODULE KeyPipeline ----------------------------
(***************************************************************************)
(* What FcitxInstanceProcessKey does with the keys of one D-Bus context:   *)
(* the automaton of modifier keys that act when they are released, the     *)
(* phases a key runs through, the flags that say what to do afterwards.    *)
(*                                                                         *)
(* The keyboard is a set of held keys; an event carries the modifiers held *)
(* before it, as X reports them.  The input method is pinyin, abstracted   *)
(* to the length of the raw buffer and the number of words it finds.       *)
(* Filters of other modules may take any key.  FirstAsInactive is off (it  *)
(* is modelled in InputContext) and the context keeps the focus.           *)
(*                                                                         *)
(* A phase yields a set of results [d, ret]: the input method and the      *)
(* filters are not determined.                                             *)
(***************************************************************************)
EXTENDS Integers, Sequences, FiniteSets

CONSTANT
    Setups      \* the configurations, see Setup

VARIABLES
    setup,      \* the configuration in force and what goes with it, see Setup
    d,          \* the instance and its FcitxInputState
    idle,       \* time since lastKeyPressedTime, in units of 250 ms, at most 2
    held,       \* the keys that are down
    drawn,      \* what the input window shows
    lastPress,  \* history: the key pressed last and the time since
    clientDown  \* history: the keys the client believes to be down

vars == <<setup, d, idle, held, drawn, lastPress, clientDown>>

Modifiers == {"Control_L", "Shift_L", "Shift_R"}
Printable == {"a", "2", "minus", "equal", "space", "other"}

\* trigger: hkTrigger is Ctrl+Space or both orders of Ctrl+Shift; filters:
\* filters of other modules take keys; controls: requests of other programs,
\* see Control; keyboard: the keys that are pressed; maxCode: bound on the
\* length of the raw buffer; wordCounts: how many words the input method finds.
Setup ==
    [switchKey : {"L_CTRL", "L_SHIFT"},
     trigger : {"CTRL_SPACE", "CTRL_LSHIFT CTRL_SHIFT_LSHIFT"},
     doubleSwitchKey : BOOLEAN, imSwitchKey : BOOLEAN, sendTextWhenSwitchEng : BOOLEAN,
     enterToDo : {"Nothing", "Clean", "Commit"}, useRemind : BOOLEAN, filters : BOOLEAN,
     controls : SUBSET {"enable", "close", "toggle", "page", "select"},
     keyboard : SUBSET (Modifiers \union Printable \union {"Return", "Escape", "BackSpace"}),
     maxCode : 1 .. 2, wordCounts : SUBSET (0 .. 4)]

ASSUME SetupAssumption == Setups \subseteq Setup

C == INSTANCE CandidateList WITH
       Words <- 1 .. 5, NoWord <- 0, PageSizes <- {3}, MaxWords <- 5,
       AddonsEdit <- FALSE, ReloadWhileShown <- FALSE, candList <- d.candList

-----------------------------------------------------------------------------
(* Keys and hot keys. *)

ModifierState(down) ==
    (IF "Control_L" \in down THEN {"ctrl"} ELSE {})
      \union (IF down \intersect {"Shift_L", "Shift_R"} # {} THEN {"shift"} ELSE {})

\* Shift and a printable key, the space excepted, is another printable key.
GetKey(key, state) ==
    IF state = {"shift"} /\ key \in Printable \ {"space"}
    THEN [sym |-> "other", state |-> {}] ELSE [sym |-> key, state |-> state]

IsHotKey(e, hotkey) == <<e.sym, e.state>> \in hotkey

IsHotKeySimple(e) == e.sym \in Printable /\ e.state = {}

LCTRL_LSHIFT == {<<"Shift_L", {"ctrl", "shift"}>>, <<"Control_L", {"ctrl", "shift"}>>}
LCTRL_LSHIFT2 == {<<"Shift_L", {"ctrl"}>>}
Plain(key) == {<<key, {}>>}

switchKey == IF setup.switchKey = "L_CTRL"
             THEN {<<"Control_L", {}>>, <<"Control_L", {"ctrl"}>>}
             ELSE {<<"Shift_L", {}>>, <<"Shift_L", {"shift"}>>}
hkTrigger == IF setup.trigger = "CTRL_SPACE" THEN {<<"space", {"ctrl"}>>}
             ELSE {<<"Shift_L", {"ctrl"}>>, <<"Shift_L", {"ctrl", "shift"}>>}
i2ndSelectKey == {<<"Shift_L", {}>>, <<"Shift_L", {"shift"}>>}
i3rdSelectKey == {<<"Shift_R", {}>>, <<"Shift_R", {"shift"}>>}

TO_PROCESS == {}
DO_NOTHING == {"block"}
DONOT_PROCESS == {"forward"}
CLEAN == {"reset"}
COMMIT_STRING == {"commit", "phrase tips"}
COMMIT_STRING_REMIND == {"commit", "window"}
DISPLAY_CANDWORDS == {"window", "words"}
DISPLAY_MESSAGE == {"window"}
ENG == {"commit", "eng", "reset"}
PUNC == {"commit", "punc", "reset"}

-----------------------------------------------------------------------------
(* The library. *)

CleanInputWindow(i) == [i EXCEPT !.candList = C!Reset(@), !.messages = FALSE]

UpdateInputWindow(i) == [i EXCEPT !.uiflag = TRUE]

CloseInputWindow(i) == UpdateInputWindow(CleanInputWindow(i))

ResetInput(i) ==
    [i EXCEPT !.candList = C!Reset(@), !.code = 0, !.find = 0,
              !.inputOnly = FALSE, !.remind = FALSE]

ShowInputSpeed(i) == UpdateInputWindow([CleanInputWindow(i) EXCEPT !.messages = TRUE])

CommitString(i, text) == [i EXCEPT !.committed = @ \union {text}]

EnableIM(i) ==
    LET on == IF i.state = "closed" THEN ShowInputSpeed(i) ELSE i
    IN  [ResetInput([on EXCEPT !.state = "active"]) EXCEPT !.keyReleased = "OTHER"]

\* Mutant: the window is emptied and not drawn again.
CloseIMSilently(i) == CleanInputWindow([i EXCEPT !.state = "closed"])

CloseIM(i) == CloseInputWindow([i EXCEPT !.state = "closed"])

ChangeIMState(i) ==
    IF i.state = "inactive" THEN ResetInput([i EXCEPT !.state = "active"])
    ELSE CloseInputWindow(ResetInput([i EXCEPT !.state = "inactive"]))

\* Mutant: the next input method after the last one is past the list.
SwitchIMNoWrap(i) ==
    ResetInput(UpdateInputWindow(CleanInputWindow([i EXCEPT !.iIMIndex = @ + 1])))

\* Two input methods: the next one is also the previous one.
SwitchIM(i) ==
    ResetInput(UpdateInputWindow(CleanInputWindow([i EXCEPT !.iIMIndex = 1 - @])))

-----------------------------------------------------------------------------
(* The input method, after pinyin. *)

R(i, ret) == [d |-> i, ret |-> ret]
Then(results, Phase(_)) == UNION {Phase(r) : r \in results}

Found(i, n) == [i EXCEPT !.candList = C!Fill(@, 3, [k \in 1 .. n |-> k])]

\* A word that was chosen is the text to commit; find letters are left.
Chosen(i, find) == [CleanInputWindow(i) EXCEPT !.output = "word", !.find = find]

\* PYGetRemindCandWords offers the words that may follow the chosen one.
Remind(i, n, find) ==
    [Found(Chosen(i, find), n) EXCEPT !.messages = TRUE, !.remind = n > 0]

\* The parts of the buffer that stay chosen: a word may stand for the rest only.
Left(i) == {0} \union (IF i.code > 1 THEN {1} ELSE {})

\* The callback of a word: it stands for a part of the buffer only, or for all
\* of it.  In remind mode the words that may follow are offered next, which
\* empties the input method's own string (but for the parts chosen before) and
\* not the raw buffer.
GetCandWord(i) ==
    IF i.remind
    THEN {R(Chosen(i, i.find), COMMIT_STRING)}
           \union {R(Remind(i, n, i.find), COMMIT_STRING_REMIND) : n \in setup.wordCounts}
    ELSE (IF i.code > 1 THEN {R(i, DISPLAY_CANDWORDS)} ELSE {})
           \union IF setup.useRemind
                  THEN {R(Chosen(i, find), COMMIT_STRING_REMIND) : find \in Left(i)}
                         \union {R(Remind(i, n, find), COMMIT_STRING_REMIND) :
                                   n \in setup.wordCounts, find \in Left(i)}
                  ELSE {R(Chosen(i, i.find), COMMIT_STRING)}

ChooseByIndex(i, index) ==
    IF C!GetByIndex(i.candList, index) # 0 THEN GetCandWord(i)
    ELSE {R(i, IF C!ListSize(i.candList) > 0 THEN DO_NOTHING ELSE TO_PROCESS)}

\* UpdateCodeInputPY at the end of DoPYInput.
UpdateCode(i) == IF i.remind THEN i ELSE [i EXCEPT !.code = i.find]

\* A letter is composed, a space takes the first word.  In the mode in which a
\* word is chosen for deletion (inputOnly) only the digits have an effect;
\* Escape is left to the library.
DoInput(i, e) ==
    LET chosen == C!GetByIndex(i.candList, 1) # 0
        letter == [i EXCEPT !.find = IF @ < setup.maxCode THEN @ + 1 ELSE @, !.remind = FALSE]
    IN  CASE i.inputOnly /\ IsHotKey(e, Plain("2")) /\ i.code > 0 ->
               {IF chosen THEN R([i EXCEPT !.inputOnly = FALSE], DISPLAY_CANDWORDS)
                ELSE R(i, DO_NOTHING)}
          [] i.inputOnly /\ ~IsHotKey(e, Plain("2")) /\ e.sym # "Escape" ->
               {R(i, DO_NOTHING)}
          [] ~i.inputOnly /\ IsHotKey(e, Plain("a")) ->
               {R(UpdateCode(letter), DISPLAY_CANDWORDS)}
          [] ~i.inputOnly /\ IsHotKey(e, Plain("BackSpace")) /\ i.find = 1 ->
               {R(i, CLEAN)}
          [] ~i.inputOnly /\ IsHotKey(e, Plain("BackSpace")) /\ i.find > 1 ->
               {R(UpdateCode([i EXCEPT !.find = @ - 1]), DISPLAY_CANDWORDS)}
          [] ~i.inputOnly /\ IsHotKey(e, Plain("space")) /\ C!PageCount(i.candList) # 0 ->
               {R(UpdateCode(r.d), r.ret) : r \in ChooseByIndex(i, 0)}
          [] ~i.inputOnly /\ IsHotKey(e, Plain("space")) /\ i.code # 0
               /\ C!PageCount(i.candList) = 0 -> {R(i, DO_NOTHING)}
          [] ~i.inputOnly /\ IsHotKey(e, {<<"2", {"ctrl"}>>})
               /\ C!PageCount(i.candList) # 0 /\ ~i.remind ->
               {R(i, TO_PROCESS),
                R([i EXCEPT !.inputOnly = TRUE, !.messages = TRUE], DISPLAY_MESSAGE)}
          [] ~i.inputOnly /\ IsHotKey(e, Plain("2")) /\ ~i.remind /\ i.code > 0
               /\ ~chosen -> {R(i, DO_NOTHING)}
          [] OTHER -> {R(UpdateCode(i), TO_PROCESS)}

\* GetCandWords: the messages show the buffer, the list the words found for it.
GetCandWords(i) ==
    {R([Found(CleanInputWindow(i), n) EXCEPT !.messages = i.find > 0],
       DISPLAY_CANDWORDS) : n \in setup.wordCounts}

\* Filters of other modules: let a key pass or take it.
PreInputFilter(i) == {R(i, TO_PROCESS)} \union (IF setup.filters THEN {R(i, DO_NOTHING)} ELSE {})
PostInputFilter(i) ==
    {R(i, TO_PROCESS)} \union (IF setup.filters THEN {R([i EXCEPT !.output = "punc"], PUNC)} ELSE {})

-----------------------------------------------------------------------------
(* FcitxInstanceProcessKey. *)

Disarm(i) == [i EXCEPT !.keyReleased = "OTHER"]

\* A selection key chooses a word, in remind mode it types a space.
Select(i, index) ==
    {R(Disarm(r.d), r.ret) :
       r \in IF i.remind THEN {R([i EXCEPT !.output = "space"], COMMIT_STRING)}
             ELSE ChooseByIndex(i, index)}

\* The switch key sends what was typed and changes the state.
Switch(i) ==
    LET send == setup.sendTextWhenSwitchEng /\ i.code # 0
        sent == IF send THEN [Disarm(i) EXCEPT !.output = "raw"] ELSE Disarm(i)
        told == IF i.state = "inactive" THEN ShowInputSpeed(sent) ELSE sent
    IN  R(ChangeIMState(told), IF send THEN ENG ELSE DONOT_PROCESS)

\* The release of a modifier key that was pressed alone.
Release(i, e) ==
    LET imSwitch == setup.imSwitchKey /\ IsHotKey(e, LCTRL_LSHIFT \union LCTRL_LSHIFT2)
    IN  CASE i.state = "closed" \/ idle >= 2 \/ i.inputOnly -> {R(i, TO_PROCESS)}
          [] i.state # "closed" /\ idle < 2 /\ ~i.inputOnly ->
             CASE IsHotKey(e, i2ndSelectKey) /\ i.keyReleased = "2ND" -> Select(i, 1)
               [] IsHotKey(e, i3rdSelectKey) /\ i.keyReleased = "3RD" -> Select(i, 2)
               [] imSwitch ->
                    {R(IF i.state = "active"
                       THEN IF i.keyReleased = "SWITCH_IM" THEN SwitchIM(i) ELSE i
                       ELSE IF IsHotKey(e, hkTrigger) THEN CloseIM(i) ELSE i,
                       TO_PROCESS)}
               [] ~imSwitch /\ IsHotKey(e, switchKey) /\ i.keyReleased = "SWITCH"
                    /\ ~setup.doubleSwitchKey -> {Switch(i)}
               [] OTHER -> {R(i, TO_PROCESS)}

\* Mutant: a key that is none of these does not disarm the release.
PressKeepsReleased(i, e) ==
    IF IsHotKey(e, i2ndSelectKey) /\ C!GetByIndex(i.candList, 1) # 0
    THEN R([i EXCEPT !.keyReleased = "2ND"], DO_NOTHING)
    ELSE R(i, TO_PROCESS)

\* The press of a switch, selection or trigger key.  lastKeyPressedTime is
\* overwritten before the interval of a double press is measured.
Press(i, e) ==
    LET second == IsHotKey(e, i2ndSelectKey)
        third == ~second /\ IsHotKey(e, i3rdSelectKey)
        double == i.keyReleased = "SWITCH" /\ setup.doubleSwitchKey
    IN  CASE second /\ C!GetByIndex(i.candList, 1) # 0 ->
               R([i EXCEPT !.keyReleased = "2ND"], DO_NOTHING)
          [] third /\ C!GetByIndex(i.candList, 2) # 0 ->
               R([i EXCEPT !.keyReleased = "3RD"], DO_NOTHING)
          [] OTHER ->
             CASE IsHotKey(e, switchKey) ->
                    R([(IF double
                        THEN ChangeIMState(IF i.code > 0 THEN CommitString(i, "raw") ELSE i)
                        ELSE i) EXCEPT !.keyReleased = "SWITCH"], DO_NOTHING)
               [] ~IsHotKey(e, switchKey) /\ setup.imSwitchKey
                    /\ IsHotKey(e, LCTRL_LSHIFT \union LCTRL_LSHIFT2) ->
                    R([i EXCEPT !.keyReleased = "SWITCH_IM"], DO_NOTHING)
               [] ~IsHotKey(e, switchKey) /\ IsHotKey(e, hkTrigger)
                    /\ ~(setup.imSwitchKey /\ IsHotKey(e, LCTRL_LSHIFT \union LCTRL_LSHIFT2)) ->
                    R(IF i.state = "inactive" THEN ShowInputSpeed(ChangeIMState(Disarm(i)))
                      ELSE CloseIM(Disarm(i)), DO_NOTHING)
               [] OTHER -> R(Disarm(i), TO_PROCESS)

\* The phases of an active context that come before the candidate update:
\* filters, the input method, the selection keys.
InputPhases(i, e) ==
    LET pre == IF i.inputOnly THEN {R(i, TO_PROCESS)} ELSE PreInputFilter(i)
        Input(r) == IF r.ret = TO_PROCESS /\ ~IsHotKey(e, LCTRL_LSHIFT)
                    THEN DoInput(r.d, e) ELSE {r}
        Choose(r) == IF r.ret = TO_PROCESS /\ ~r.d.inputOnly /\ IsHotKey(e, Plain("2"))
                     THEN ChooseByIndex(r.d, 1) ELSE {r}
    IN  Then(Then(pre, Input), Choose)

\* Mutant: paging comes before the candidate update, which starts at page one.
UpdateAfterPaging(r) ==
    IF r.d.state = "active" /\ (r.ret = {} \/ "words" \in r.ret)
    THEN GetCandWords(r.d) ELSE {r}

UpdateCandidates(r) ==
    IF r.d.state = "active" /\ "words" \in r.ret THEN GetCandWords(r.d) ELSE {r}

\* All words are in the list, a page key only turns the page.
TurnPage(r, e) ==
    IF r.d.state # "active" \/ r.d.inputOnly \/ r.ret # TO_PROCESS
         \/ C!PageCount(r.d.candList) = 0 THEN {r}
    ELSE CASE IsHotKey(e, Plain("minus")) ->
                {R([r.d EXCEPT !.candList = C!GoPrevPage(@)], DISPLAY_CANDWORDS)}
           [] IsHotKey(e, Plain("equal")) ->
                {R([r.d EXCEPT !.candList = C!GoNextPage(@)], DISPLAY_CANDWORDS)}
           [] OTHER -> {r}

StandardKeyBlocker(i, e) ==
    IF i.code # 0 /\ IsHotKeySimple(e) THEN DO_NOTHING ELSE TO_PROCESS

\* Mutant: keys nobody wanted are not blocked.
BlockKeyNever(r, e) == {r}

BlockKey(r, e) ==
    IF r.d.state # "active" \/ r.d.inputOnly \/ r.ret # TO_PROCESS THEN {r}
    ELSE {IF q.ret = TO_PROCESS THEN R(q.d, StandardKeyBlocker(q.d, e)) ELSE q :
            q \in PostInputFilter(r.d)}

ImProcessEnter(i) ==
    CASE i.code = 0 -> R(i, DONOT_PROCESS)
      [] i.code # 0 /\ setup.enterToDo = "Nothing" -> R(i, DO_NOTHING)
      [] i.code # 0 /\ setup.enterToDo = "Clean" -> R(i, CLEAN)
      [] i.code # 0 /\ setup.enterToDo = "Commit" ->
           R([CleanInputWindow(i) EXCEPT !.output = "raw"], ENG)

ImProcessEscape(i) == R(i, IF i.code # 0 \/ i.remind THEN CLEAN ELSE DONOT_PROCESS)

ProcessHotkey(r, e) ==
    CASE r.ret = TO_PROCESS /\ IsHotKey(e, Plain("Return")) -> {ImProcessEnter(r.d)}
      [] r.ret = TO_PROCESS /\ IsHotKey(e, Plain("Escape")) -> {ImProcessEscape(r.d)}
      [] OTHER -> {r}

\* Mutant: a commit leaves the input as it was.
CommitOnly(r) == IF "commit" \in r.ret THEN R(CommitString(r.d, r.d.output), r.ret) ELSE r

ProcessInputReturnValue(r) ==
    LET commit == IF "commit" \in r.ret THEN CommitString(r.d, r.d.output) ELSE r.d
        tips == IF "phrase tips" \in r.ret
                THEN ResetInput(UpdateInputWindow(CleanInputWindow(commit))) ELSE commit
        reset == IF "reset" \in r.ret THEN CloseInputWindow(ResetInput(tips)) ELSE tips
        window == IF "window" \in r.ret THEN UpdateInputWindow(reset) ELSE reset
    IN  R([window EXCEPT !.output = "nothing"], r.ret)

DoInputCallback(r, e) ==
    LET Page(q) == TurnPage(q, e)
        Block(q) == BlockKey(q, e)
        Hotkey(q) == ProcessHotkey(q, e)
    IN  {ProcessInputReturnValue(q) : q \in Then(Then(Then(UpdateCandidates(r), Page), Block), Hotkey)}

ProcessKey(i, event, e) ==
    LET first == IF event = "release" THEN Release(i, e) ELSE {Press(i, e)}
        Passed(r) == IF event = "release" /\ r.ret = TO_PROCESS
                     THEN R(r.d, DONOT_PROCESS) ELSE r
        Active(r) == IF r.d.state = "active" /\ r.ret = TO_PROCESS
                     THEN InputPhases(r.d, e) ELSE {r}
        Callback(r) == DoInputCallback(r, e)
    IN  Then(Then({Passed(r) : r \in first}, Active), Callback)

\* IPCProcessKey: the trigger opens a closed context without further ado.
IPCProcessKey(i, event, e) ==
    IF i.state = "closed" /\ event = "press" /\ IsHotKey(e, hkTrigger)
    THEN {R(EnableIM(i), DO_NOTHING)}
    ELSE ProcessKey(i, event, e)

Forwarded(ret) == "forward" \in ret \/ ret = TO_PROCESS

-----------------------------------------------------------------------------
(* The keyboard, the clock, other programs, the window. *)

Drawn(i) == [words |-> C!Walk(i.candList), messages |-> i.messages]

NewInput ==
    [state |-> "closed", iIMIndex |-> 0, keyReleased |-> "OTHER", code |-> 0, find |-> 0,
     candList |-> C!SetPageSize(C!NewList, 3), messages |-> FALSE, remind |-> FALSE,
     inputOnly |-> FALSE, output |-> "nothing", committed |-> {}, uiflag |-> FALSE]

Init ==
    /\ setup \in Setups
    /\ d = NewInput
    /\ idle = 2
    /\ held = {}
    /\ drawn = Drawn(NewInput)
    /\ lastPress = [key |-> "none", age |-> 2]
    /\ clientDown = {}

Begin(i) == [i EXCEPT !.committed = {}]

\* One key besides the modifiers is down at a time, and keys do not repeat.
PressKey(key) ==
    /\ key \notin held
    /\ key \in Modifiers \/ held \subseteq Modifiers
    /\ \E r \in IPCProcessKey(Begin(d), "press", GetKey(key, ModifierState(held))) :
         /\ d' = r.d
         /\ clientDown' = IF Forwarded(r.ret) THEN clientDown \union {key} ELSE clientDown
         \* set by ProcessKey only
         /\ idle' = IF d.state = "closed"
                         /\ IsHotKey(GetKey(key, ModifierState(held)), hkTrigger)
                    THEN idle ELSE 0
    /\ held' = held \union {key}
    /\ lastPress' = [key |-> key, age |-> 0]
    /\ UNCHANGED <<setup, drawn>>

ReleaseKey(key) ==
    /\ key \in held
    /\ \E r \in IPCProcessKey(Begin(d), "release", GetKey(key, ModifierState(held))) :
         /\ d' = r.d
         /\ clientDown' = IF Forwarded(r.ret) THEN clientDown \ {key} ELSE clientDown
    /\ held' = held \ {key}
    /\ UNCHANGED <<setup, idle, drawn, lastPress>>

Tick ==
    /\ idle < 2 \/ lastPress.age < 2
    /\ idle' = IF idle < 2 THEN idle + 1 ELSE idle
    /\ lastPress' = [lastPress EXCEPT !.age = IF @ < 2 THEN @ + 1 ELSE @]
    /\ d' = Begin(d)
    /\ UNCHANGED <<setup, held, drawn, clientDown>>

\* fcitx-remote, the tray and the panel act between any two keys.
Control ==
    /\ \E i \in {Begin(d)} :
         \/ "enable" \in setup.controls /\ d' = EnableIM(i)
         \/ "close" \in setup.controls /\ d' = CloseIM(i)
         \/ "toggle" \in setup.controls
              /\ d' = IF i.state = "active" THEN CloseIM(i) ELSE EnableIM(i)
         \/ /\ "page" \in setup.controls
            /\ C!PageCount(i.candList) # 0
            /\ \E turned \in {C!GoPrevPage(i.candList), C!GoNextPage(i.candList)} :
                 d' = UpdateInputWindow([i EXCEPT !.candList = turned])
         \/ /\ "select" \in setup.controls
            /\ i.state = "active"
            /\ \E index \in 0 .. 2 : \E r \in ChooseByIndex(i, index) :
                 \E q \in UpdateCandidates(r) : d' = ProcessInputReturnValue(q).d
    /\ UNCHANGED <<setup, idle, held, drawn, lastPress, clientDown>>

\* RunInstance draws when no event is left and something asked for it.
DrawWindow ==
    /\ d.uiflag
    /\ drawn' = Drawn(d)
    /\ d' = [Begin(d) EXCEPT !.uiflag = FALSE]
    /\ UNCHANGED <<setup, idle, held, lastPress, clientDown>>

Next ==
    \/ \E key \in setup.keyboard : PressKey(key) \/ ReleaseKey(key)
    \/ Tick
    \/ Control
    \/ DrawWindow

Spec == Init /\ [][Next]_vars

-----------------------------------------------------------------------------
(* Properties. *)

TypeOK ==
    /\ d \in [state : {"closed", "inactive", "active"}, iIMIndex : 0 .. 1,
              keyReleased : {"OTHER", "SWITCH", "SWITCH_IM", "2ND", "3RD"},
              code : 0 .. setup.maxCode, find : 0 .. setup.maxCode, candList : {d.candList},
              messages : BOOLEAN, remind : BOOLEAN, inputOnly : BOOLEAN,
              output : {"nothing", "word", "raw", "space", "punc"},
              committed : SUBSET {"word", "raw", "space", "punc"}, uiflag : BOOLEAN]
    /\ C!TypeOK
    /\ idle \in 0 .. 2 /\ held \subseteq setup.keyboard /\ clientDown \subseteq setup.keyboard

\* ime.c, FcitxInstanceProcessKey: "we must make sure the key release right now
\* is the key just pressed".  What a release does, it does because the same
\* key (of Ctrl+Shift, which switches the input method: one of the two) was the
\* last one pressed, less than 500 ms ago.  Left out: Ctrl+Shift as trigger, whose
\* release closes an inactive context whatever was pressed.
ReleaseNeedsItsPress ==
    [][\A key \in held \ held' :
         LET closes == d.state = "inactive"
                         /\ IsHotKey(GetKey(key, ModifierState(held)), hkTrigger)
             toggles == (d'.state # d.state /\ ~closes) \/ d'.committed # {}
             switches == d'.iIMIndex # d.iIMIndex
         IN  /\ toggles => lastPress.key = key
             /\ switches => {key, lastPress.key} \subseteq {"Control_L", "Shift_L"}
             /\ toggles \/ switches => lastPress.age < 2]_vars

\* A key whose press the client was given is released for it too, so no key
\* stays down for the client.
NoStuckKeys == clientDown \subseteq held

\* Typed text goes to the client once: after a word or the raw buffer is
\* committed nothing is left that Enter or a switch could commit again.  In
\* remind mode the raw buffer of the word stays.
TextCommittedOnce ==
    [][d'.committed \intersect {"word", "raw"} # {} /\ ~setup.useRemind => d'.code = 0]_vars

\* A page key turns the page of the list that is shown: the list keeps its
\* words and the other page is what is drawn next.
PageKeyTurnsPage ==
    [][\A key \in held' \ held :
         key = "equal" /\ held \intersect Modifiers = {} /\ d.state = "active"
           /\ ~d.inputOnly /\ ~setup.filters /\ C!ListSize(d.candList) > 0 =>
         d'.candList = C!GoNextPage(d.candList) /\ d'.uiflag]_vars

\* While the input method holds text no printable key overtakes it to the client.
NoKeyOvertakesText ==
    [][\A key \in clientDown' \ clientDown :
         d.state = "active" /\ d.code > 0 /\ d.find > 0 =>
           ~IsHotKeySimple(GetKey(key, ModifierState(held)))]_vars

\* While words are shown there is a current page, as long as the keys, filters
\* and clicks say: the input method and the panel read its first word unasked.
ShownPageExists == C!CurrentPageExists

\* When nothing asks for the window to be drawn it shows the words and
\* messages there are, so what the user picks by its number is what is chosen.
\* Opening a context that is open already is left out: it forgets the words and
\* asks for nothing to be drawn.
WindowShowsInput == ~d.uiflag /\ "enable" \notin setup.controls => drawn = Drawn(d)

\* config.desc, TimeInterval: "Interval of Two Key Input".  Two presses of the
\* switch key change the state only within 250 ms.
DoublePressInTime ==
    [][\A key \in held' \ held :
         {d.state, d'.state} = {"active", "inactive"} /\ key \in {"Control_L", "Shift_L"} =>
           lastPress.key = key /\ lastPress.age < 1]_vars
=============================================================================
