-------------------------- MODULE InputModeProofs --------------------------
(***************************************************************************)
(* What InputDaemon keeps true of the text, the current input method and   *)
(* the states of contexts, for every set of contexts, applications and     *)
(* input methods: whose text is on display and in the buffer, which states *)
(* the contexts of a program are in, what clients were told, which input   *)
(* method is current, and that one shared mode is what the user sees.      *)
(*                                                                         *)
(* InputDaemonProofs shows what a library function does to the lists and   *)
(* to the states under ShareState_All (Keeps).  Here the same functions    *)
(* are shown to respect the rest (Respects), from three facts on each of   *)
(* them: which contexts it turns to which state (Turned), what it does to  *)
(* the text, and which index of the list it leaves current.                *)
(***************************************************************************)
EXTENDS InputDaemonProofs, WellFoundedInduction

\* The focus and the list of input methods stay, and of the text nothing is
\* kept for another context.
TextKept(d, e) ==
    /\ e.CurrentIC = d.CurrentIC /\ e.imcount = d.imcount
    /\ e.clientPreedit \in {d.clientPreedit, NoIC, d.CurrentIC}
    /\ e.codeInput \in {d.codeInput, NoIC, d.CurrentIC}

\* No context controls its state.
Uncontrolled(d) == \A s \in d.ic_list : ~Controls(d.rec[s])

OneFrontend(d) ==
    \A s, t \in d.ic_list : d.rec[s].frontendid = d.rec[t].frontendid

\* C holds at least the applications with a context that controls its state.
AppCovers(d, C) == \A s \in d.ic_list : Controls(d.rec[s]) => d.rec[s].app \in C

\* The contexts of an application outside C are in one state.
Together(d, C) ==
    \A s, t \in d.ic_list :
      SameApplication(d.rec[s], d.rec[t]) /\ d.rec[s].app \notin C
      => d.rec[s].state = d.rec[t].state

ProgramGroups(d, C) ==
    ShareState = "PerProgram" /\ OneFrontend(d) /\ AppCovers(d, C) /\ Together(d, C)

\* What the client of a D-Bus context was told is true; with the double
\* switch key the client may not know that its context was opened.
Told(r) ==
    r.frontendid = "ipc" =>
      /\ r.told => r.state # "closed"
      /\ ~DoubleSwitchKey /\ r.state # "closed" => r.told

\* With firstAsInactive nothing is ever closed.
AllTold(d) ==
    /\ \A s \in d.ic_list : Told(d.rec[s])
    /\ FirstAsInactive => /\ d.globalState # "closed"
                          /\ \A s \in d.ic_list : d.rec[s].state # "closed"

ToldGroups(d) ==
    /\ Uncontrolled(d)
    /\ ShareState = "All" => Coherent(d, {})
    /\ ShareState = "PerProgram" => OneFrontend(d) /\ Together(d, {})
    /\ AllTold(d)

\* The current input method is in the list, unless that has one or none; the
\* one to return to is not the first.
IMRange(d) ==
    d.imcount > 1 =>
      d.iIMIndex \in 0 .. d.imcount - 1 /\ d.lastIMIndex \in 1 .. d.imcount - 1

\* An active context has another input method than the first.
IMActive(d) ==
    d.imcount > 1 /\ GetCurrentState(d) = "active" => d.iIMIndex # 0

IMMatches(d) == IMRange(d) /\ IMActive(d)

\* An inactive context has the first input method, or what it had in d.
IMSettled(d, e) ==
    e.imcount > 1 /\ GetCurrentState(e) = "inactive" =>
      \/ e.iIMIndex = 0
      \/ /\ GetCurrentState(d) = "inactive"
         /\ e.CurrentIC = d.CurrentIC /\ e.iIMIndex = d.iIMIndex

SharedFirst(d) ==
    /\ FirstAsInactive /\ ShareState = "All"
    /\ Uncontrolled(d) /\ Coherent(d, {})

\* What every function but those that move the focus, create, destroy or
\* reflag a context does to the instance.
Respects(d, e) ==
    /\ Keeps(d, e)
    /\ TextKept(d, e)
    /\ \A s \in Slots : e.rec[s].app = d.rec[s].app
    /\ \A C : ProgramGroups(d, C) => Together(e, C)
    /\ ToldGroups(d) => AllTold(e)
    /\ SharedFirst(d) /\ IMMatches(d) => IMMatches(e) /\ IMSettled(d, e)

-----------------------------------------------------------------------------
(* Facts about the relations. *)

LEMMA FrameKeeps ==
    ASSUME NEW d \in Instance, NEW e, Frame(d, e),
           \A s \in Slots : e.rec[s].app = d.rec[s].app
    PROVE  /\ Uncontrolled(d) => Uncontrolled(e)
           /\ OneFrontend(d) => OneFrontend(e)
           /\ \A C : AppCovers(d, C) => AppCovers(e, C)
  <1>1. d.ic_list \subseteq Slots /\ e.ic_list = d.ic_list
    BY DEF Frame, Instance
  <1>2. \A s \in e.ic_list :
          /\ s \in Slots /\ s \in d.ic_list
          /\ e.rec[s].frontendid = d.rec[s].frontendid
          /\ e.rec[s].contextCaps = d.rec[s].contextCaps
          /\ e.rec[s].app = d.rec[s].app
    BY <1>1 DEF Frame
  <1>3. Uncontrolled(d) => Uncontrolled(e)
    BY <1>2 DEF Uncontrolled, Controls
  <1>4. OneFrontend(d) => OneFrontend(e)
    BY <1>2 DEF OneFrontend
  <1>5. ASSUME NEW C, AppCovers(d, C) PROVE AppCovers(e, C)
    BY <1>2, <1>5 DEF AppCovers, Controls
  <1> QED  BY <1>3, <1>4, <1>5

\* Without contexts that control their state, one shared state stays one.
LEMMA KeepsShared ==
    ASSUME NEW d \in Instance, NEW e, Keeps(d, e), ShareState = "All",
           Uncontrolled(d), Coherent(d, {})
    PROVE  Coherent(e, {})
  <1>1. {} \in SUBSET Slots /\ Covers(d, {})
    BY DEF Uncontrolled, Covers
  <1> QED  BY <1>1 DEF Keeps

LEMMA RespectsTransitive ==
    ASSUME NEW d \in Instance, NEW e, NEW f, Respects(d, e), Respects(e, f)
    PROVE  Respects(d, f)
  <1>1. Keeps(d, f)  BY KeepsTransitive DEF Respects
  <1>2. TextKept(d, f)  BY DEF Respects, TextKept
  <1>3. \A s \in Slots : f.rec[s].app = d.rec[s].app  BY DEF Respects
  <1>4. /\ Uncontrolled(d) => Uncontrolled(e)
        /\ OneFrontend(d) => OneFrontend(e)
        /\ \A C : AppCovers(d, C) => AppCovers(e, C)
    BY FrameKeeps DEF Respects, Keeps
  <1>5. ASSUME NEW C, ProgramGroups(d, C) PROVE Together(f, C)
    <2>1. Together(e, C)  BY <1>5 DEF Respects
    <2>2. ProgramGroups(e, C)  BY <1>4, <1>5, <2>1 DEF ProgramGroups
    <2> QED  BY <2>2 DEF Respects
  <1>6. ASSUME ToldGroups(d) PROVE AllTold(f)
    <2>1. ShareState = "PerProgram" => Together(e, {})
      <3>1. ShareState = "PerProgram" => ProgramGroups(d, {})
        BY <1>6 DEF ToldGroups, ProgramGroups, Uncontrolled, AppCovers
      <3> QED  BY <3>1 DEF Respects
    <2>2. ShareState = "All" => Coherent(e, {})
      BY <1>6, KeepsShared DEF ToldGroups, Respects
    <2>3. ToldGroups(e)
      BY <1>4, <1>6, <2>1, <2>2 DEF ToldGroups, Respects
    <2> QED  BY <2>3 DEF Respects
  <1>7. ASSUME SharedFirst(d), IMMatches(d) PROVE IMMatches(f) /\ IMSettled(d, f)
    <2>1. Coherent(e, {})  BY <1>7, KeepsShared DEF SharedFirst, Respects
    <2>2. SharedFirst(e)  BY <1>4, <1>7, <2>1 DEF SharedFirst
    <2>3. IMMatches(f) /\ IMSettled(d, e) /\ IMSettled(e, f)
      BY <1>7, <2>2 DEF Respects
    <2>4. e.imcount = f.imcount  BY DEF Respects, TextKept
    <2> QED  BY <2>3, <2>4 DEF IMSettled
  <1> QED  BY <1>1, <1>2, <1>3, <1>5, <1>6, <1>7 DEF Respects

-----------------------------------------------------------------------------
(* Input window, buffer and input method. *)

\* Only the text may go.
Quiet(d, e) ==
    /\ SameContexts(d, e)
    /\ e.imcount = d.imcount
    /\ e.iIMIndex = d.iIMIndex /\ e.lastIMIndex = d.lastIMIndex
    /\ e.clientPreedit \in {d.clientPreedit, NoIC}
    /\ e.codeInput \in {d.codeInput, NoIC}

\* The text goes and another input method becomes current.
Switches(d, e) ==
    /\ SameContexts(d, e) /\ e.imcount = d.imcount
    /\ e.clientPreedit = NoIC /\ e.codeInput = NoIC

LEMMA QuietTransitive ==
    ASSUME NEW d, NEW e, NEW f, Quiet(d, e), Quiet(e, f)
    PROVE  Quiet(d, f)
  BY SameContextsTransitive DEF Quiet

LEMMA WindowQuiet ==
    ASSUME NEW d \in Instance
    PROVE  /\ Quiet(d, d)
           /\ Quiet(d, CleanInputWindow(d)) /\ CleanInputWindow(d).clientPreedit = NoIC
           /\ Quiet(d, CloseInputWindow(d)) /\ CloseInputWindow(d).clientPreedit = NoIC
           /\ Quiet(d, ResetInput(d)) /\ ResetInput(d).codeInput = NoIC
  <1>1. Quiet(d, d)  BY DEF Quiet, SameContexts
  <1>2. Quiet(d, CleanInputWindow(d)) /\ CleanInputWindow(d).clientPreedit = NoIC
    BY CleanInputWindowSame DEF Quiet, CleanInputWindow, Instance
  <1>3. Quiet(d, ResetInput(d)) /\ ResetInput(d).codeInput = NoIC
    BY ResetInputSame DEF Quiet, ResetInput, Instance
  <1> QED  BY <1>1, <1>2, <1>3 DEF CloseInputWindow

LEMMA ShownQuiet ==
    ASSUME NEW d \in Instance
    PROVE  /\ Quiet(d, ShowInputSpeed(d))
           /\ ShowInputWindowTriggering => ShowInputSpeed(d).clientPreedit = NoIC
           /\ Quiet(d, CommitPreedit(d))
           /\ d.CurrentIC # NoIC => CommitPreedit(d).clientPreedit = NoIC
  BY WindowQuiet DEF ShowInputSpeed, CommitPreedit

LEMMA SwitchIMInternalSwitches ==
    ASSUME NEW d \in Instance, NEW index \in Int, NEW skipZero \in BOOLEAN
    PROVE  /\ Switches(d, SwitchIMInternal(d, index, skipZero))
           /\ SwitchIMInternal(d, index, skipZero).iIMIndex =
                IF skipZero /\ NextIMIndex(d, index) = 0 THEN 1
                ELSE NextIMIndex(d, index)
           /\ SwitchIMInternal(d, index, skipZero).lastIMIndex =
                IF FirstAsInactive
                     /\ SwitchIMInternal(d, index, skipZero).iIMIndex # 0
                THEN SwitchIMInternal(d, index, skipZero).iIMIndex
                ELSE d.lastIMIndex
  <1> DEFINE next == NextIMIndex(d, index)
             new == IF skipZero /\ next = 0 THEN 1 ELSE next
             last == IF FirstAsInactive /\ new # 0 THEN new ELSE d.lastIMIndex
             w == CleanInputWindow(d)
             e == ResetInput(w)
             f == [e EXCEPT !.iIMIndex = new, !.lastIMIndex = last]
  <1>1. SwitchIMInternal(d, index, skipZero) = f  BY DEF SwitchIMInternal
  <1>2. SameContexts(d, f)  BY <1>1, SwitchIMInternalSame
  <1>3. w \in Instance /\ w.clientPreedit = NoIC /\ w.imcount = d.imcount
    BY WindowQuiet DEF Quiet, SameContexts
  <1> HIDE DEF w
  <1>4. /\ e \in Instance /\ e.codeInput = NoIC /\ e.clientPreedit = NoIC
        /\ e.imcount = d.imcount
    BY <1>3, WindowQuiet DEF Quiet, SameContexts, Owner
  <1> HIDE DEF e, new, last
  <1>5. /\ f.iIMIndex = new /\ f.lastIMIndex = last
        /\ f.codeInput = NoIC /\ f.clientPreedit = NoIC
        /\ f.imcount = d.imcount
    BY <1>4 DEF Instance
  <1> HIDE DEF f
  <1> QED  BY <1>1, <1>2, <1>5 DEF Switches, new, last

\* SwitchIM with firstAsInactive never selects the first input method.
LEMMA SwitchIMSwitches ==
    ASSUME NEW d \in Instance, NEW index \in Int, index >= -1
    PROVE  /\ Switches(d, SwitchIM(d, index))
           /\ FirstAsInactive =>
                /\ IMRange(SwitchIM(d, index))
                /\ d.imcount > 1 => SwitchIM(d, index).iIMIndex # 0
  <1> DEFINE e == SwitchIM(d, index)
  <1>1. /\ Switches(d, e)
        /\ e.iIMIndex = IF FirstAsInactive /\ NextIMIndex(d, index) = 0 THEN 1
                        ELSE NextIMIndex(d, index)
        /\ e.lastIMIndex = IF FirstAsInactive /\ e.iIMIndex # 0
                           THEN e.iIMIndex ELSE d.lastIMIndex
    BY SwitchIMInternalSwitches, ConfigAssumption DEF SwitchIM
  <1>2. /\ d.imcount \in 0 .. IMCount
        /\ d.imcount > 0 => NextIMIndex(d, index) \in 0 .. d.imcount - 1
    BY NextIMIndexType DEF Instance
  <1> QED  BY <1>1, <1>2, IMAssumption DEF IMRange, Switches

\* A new list selects one of its input methods, and not the first.
LEMMA UpdateIMListSwitches ==
    ASSUME NEW d \in Instance, NEW count \in 0 .. IMCount,
           NEW current \in CurrentIndices(count)
    PROVE  LET e == UpdateIMList(d, count, current)
           IN  /\ SameContexts(d, e) /\ e.imcount = count
               /\ e.clientPreedit = NoIC /\ e.codeInput = NoIC
               /\ FirstAsInactive =>
                    IMRange(e) /\ (count > 1 => e.iIMIndex # 0)
  <1> DEFINE m == [d EXCEPT !.imcount = count, !.iIMIndex = current]
  <1>1. current \in Int /\ current >= -1 /\ current \in -1 .. IMCount
    BY IMAssumption DEF CurrentIndices
  <1>2. SameContexts(d, m) /\ m.imcount = count
    BY <1>1 DEF SameContexts, Instance
  <1>3. UpdateIMList(d, count, current) = SwitchIM(m, current)
    BY DEF UpdateIMList
  <1> HIDE DEF m
  <1>4. /\ Switches(m, SwitchIM(m, current))
        /\ FirstAsInactive => /\ IMRange(SwitchIM(m, current))
                              /\ count > 1 => SwitchIM(m, current).iIMIndex # 0
    BY <1>1, <1>2, SwitchIMSwitches DEF SameContexts
  <1> QED  BY <1>2, <1>3, <1>4, SameContextsTransitive DEF Switches

LEMMA SwitchToFirst ==
    ASSUME NEW d \in Instance, d.imcount > 0
    PROVE  /\ Switches(d, SwitchIMInternal(d, 0, FALSE))
           /\ SwitchIMInternal(d, 0, FALSE).iIMIndex = 0
           /\ SwitchIMInternal(d, 0, FALSE).lastIMIndex = d.lastIMIndex
  <1> DEFINE e == SwitchIMInternal(d, 0, FALSE)
  <1>1. /\ Switches(d, e)
        /\ e.iIMIndex = NextIMIndex(d, 0)
        /\ e.lastIMIndex = IF FirstAsInactive /\ e.iIMIndex # 0
                           THEN e.iIMIndex ELSE d.lastIMIndex
    <2>1. 0 \in Int /\ FALSE \in BOOLEAN  OBVIOUS
    <2> QED  BY <2>1, SwitchIMInternalSwitches, Zenon
  <1> SUFFICES Switches(d, e) /\ e.iIMIndex = 0 /\ e.lastIMIndex = d.lastIMIndex
    OBVIOUS
  <1> HIDE DEF e
  <1>2. NextIMIndex(d, 0) = 0  BY DEF NextIMIndex, Instance
  <1> QED  BY <1>1, <1>2

\* Functions that leave the states alone respect what is said of states.
LEMMA SameRespects ==
    ASSUME NEW d \in Instance, NEW e, SameContexts(d, e), TextKept(d, e),
           SharedFirst(d) /\ IMMatches(d) => IMMatches(e) /\ IMSettled(d, e)
    PROVE  Respects(d, e)
  <1>1. Keeps(d, e)  BY SameContextsKeeps
  <1>2. \A C : ProgramGroups(d, C) => Together(e, C)
    BY DEF ProgramGroups, Together, SameContexts
  <1>3. ToldGroups(d) => AllTold(e)
    BY DEF ToldGroups, AllTold, SameContexts
  <1>4. \A s \in Slots : e.rec[s].app = d.rec[s].app  BY DEF SameContexts
  <1> QED  BY <1>1, <1>2, <1>3, <1>4 DEF Respects

LEMMA QuietRespects ==
    ASSUME NEW d \in Instance, NEW e, Quiet(d, e)
    PROVE  Respects(d, e)
  <1>1. SameContexts(d, e) /\ TextKept(d, e)
    BY DEF Quiet, TextKept, SameContexts
  <1>2. IMMatches(d) => IMMatches(e) /\ IMSettled(d, e)
    BY DEF Quiet, SameContexts, IMMatches, IMRange, IMActive, IMSettled,
           GetCurrentState
  <1> QED  BY <1>1, <1>2, SameRespects

LEMMA RespectsItself ==
    ASSUME NEW d \in Instance
    PROVE  Respects(d, d)
  BY WindowQuiet, QuietRespects

-----------------------------------------------------------------------------
(* State changes. *)

\* e is d with the contexts of "on", and no others, turned to st.
Turned(d, e, on, st) ==
    /\ e.globalState = st
    /\ \A s \in Slots :
         /\ e.rec[s].app = d.rec[s].app
         /\ s \in on => e.rec[s].state = st
         /\ s \notin on => e.rec[s] = d.rec[s]

ToldKept(d, e, on) ==
    \A s \in Slots : s \in on /\ Told(d.rec[s]) => Told(e.rec[s])

\* A change of the contexts Affected names keeps programs together and
\* clients informed.
LEMMA TurnedRespects ==
    ASSUME NEW d \in Instance, NEW e, NEW ic \in d.ic_list, NEW foreign, NEW st,
           Keeps(d, e), TextKept(d, e),
           Turned(d, e, Affected(d, ic, foreign), st),
           ToldGroups(d) => /\ ToldKept(d, e, Affected(d, ic, foreign))
                            /\ FirstAsInactive => st # "closed",
           SharedFirst(d) /\ IMMatches(d) => IMMatches(e) /\ IMSettled(d, e)
    PROVE  Respects(d, e)
  <1> DEFINE on == Affected(d, ic, foreign)
  <1>1. /\ d.ic_list \subseteq Slots /\ e.ic_list = d.ic_list
        /\ \A s \in Slots : e.rec[s].app = d.rec[s].app
    BY DEF Keeps, Frame, Instance, Turned
  <1>2. ASSUME NEW C, ProgramGroups(d, C) PROVE Together(e, C)
    <2> SUFFICES ASSUME NEW s \in d.ic_list, NEW t \in d.ic_list,
                        SameApplication(d.rec[s], d.rec[t]),
                        d.rec[s].app \notin C
                 PROVE  e.rec[s].state = e.rec[t].state
      BY <1>1 DEF Together, SameApplication
    <2>1. /\ d.rec[t].app = d.rec[s].app /\ d.rec[s].app # NoApp
          /\ ~Controls(d.rec[s]) /\ ~Controls(d.rec[t])
      BY <1>2 DEF SameApplication, ProgramGroups, AppCovers
    <2>2. on = {r \in d.ic_list : /\ SameApplication(d.rec[r], d.rec[ic])
                                  /\ r = ic \/ ~Controls(d.rec[r])}
      BY <1>2 DEF ProgramGroups, OneFrontend, Affected
    <2>3. s \in on <=> t \in on
      BY <2>1, <2>2 DEF SameApplication
    <2>4. d.rec[s].state = d.rec[t].state
      BY <1>2 DEF ProgramGroups, Together
    <2> HIDE DEF on
    <2>5. CASE s \in on
      BY <1>1, <2>3, <2>5 DEF Turned, on
    <2>6. CASE s \notin on
      BY <1>1, <2>3, <2>4, <2>6 DEF Turned, on
    <2> QED  BY <2>5, <2>6
  <1> HIDE DEF on
  <1>3. ASSUME ToldGroups(d) PROVE AllTold(e)
    <2>1. ASSUME NEW s \in d.ic_list
          PROVE  /\ Told(e.rec[s])
                 /\ FirstAsInactive => e.rec[s].state # "closed"
      <3>1. s \in Slots /\ Told(d.rec[s])
        BY <1>1, <1>3 DEF ToldGroups, AllTold
      <3>2. CASE s \in on
        BY <1>3, <3>1, <3>2 DEF ToldKept, Turned, on
      <3>3. CASE s \notin on
        <4>1. e.rec[s] = d.rec[s]  BY <3>1, <3>3 DEF Turned, on
        <4> QED  BY <1>3, <3>1, <4>1 DEF ToldGroups, AllTold
      <3> QED  BY <3>2, <3>3
    <2>2. FirstAsInactive => e.globalState # "closed"
      BY <1>3 DEF Turned
    <2> QED  BY <1>1, <2>1, <2>2 DEF AllTold
  <1> QED  BY <1>1, <1>2, <1>3 DEF Respects

\* Under ShareState_All without control, all contexts are affected.
LEMMA AllAffected ==
    ASSUME NEW d \in Instance, NEW ic \in d.ic_list, NEW foreign, SharedFirst(d)
    PROVE  Affected(d, ic, foreign) = d.ic_list
  BY DEF SharedFirst, Uncontrolled, Affected

LEMMA EnableIMTurns ==
    ASSUME NEW d \in Instance, NEW ic \in d.ic_list, NEW foreign,
           NEW keepState \in BOOLEAN
    PROVE  LET e == EnableIM(d, ic, keepState, foreign)
               on == Affected(d, ic, foreign)
           IN  /\ Turned(d, e, on, "active")
               /\ TextKept(d, e)
               /\ ToldKept(d, e, on)
               /\ FirstAsInactive /\ IMRange(d) => IMMatches(e)
  <1> DEFINE on == Affected(d, ic, foreign)
             rec == [s \in Slots |-> IF s \in on THEN EnableRec(d.rec[s])
                                                 ELSE d.rec[s]]
             set == [d EXCEPT !.globalState = "active", !.rec = rec]
             triggered == IF d.CurrentIC \in on /\ GetCurrentState(d) = "closed"
                          THEN ShowInputSpeed(set) ELSE set
             reset == IF d.CurrentIC \in on /\ ~keepState
                      THEN ResetInput(triggered) ELSE triggered
             done == IF FirstAsInactive /\ GetCurrentState(reset) = "active"
                                        /\ reset.iIMIndex = 0
                     THEN SwitchIM(reset, reset.lastIMIndex) ELSE reset
  <1>1. d.rec \in [Slots -> InputContextRec]  BY DEF Instance
  <1>2. ic # NoIC  BY SlotsAssumption DEF Instance
  <1>3. EnableIM(d, ic, keepState, foreign) = done
    BY <1>2 DEF EnableIM, on, set, rec
  <1> HIDE DEF on
  <1>4. ASSUME NEW r \in InputContextRec
        PROVE  /\ EnableRec(r) \in InputContextRec
               /\ EnableRec(r).app = r.app
               /\ EnableRec(r).state = "active"
               /\ Told(r) => Told(EnableRec(r))
    BY DEF EnableRec, InputContextRec, ContextState, Told
  <1>5. /\ rec \in [Slots -> InputContextRec]
        /\ \A s \in Slots :
             /\ rec[s].app = d.rec[s].app
             /\ s \in on => rec[s].state = "active"
             /\ s \notin on => rec[s] = d.rec[s]
             /\ s \in on /\ Told(d.rec[s]) => Told(rec[s])
    BY <1>1, <1>4
  <1> HIDE DEF rec
  <1>6. /\ set \in Instance
        /\ set.rec = rec /\ set.globalState = "active"
        /\ set.CurrentIC = d.CurrentIC /\ set.imcount = d.imcount
        /\ set.iIMIndex = d.iIMIndex /\ set.lastIMIndex = d.lastIMIndex
        /\ set.clientPreedit = d.clientPreedit /\ set.codeInput = d.codeInput
    BY <1>5 DEF Instance, ContextState
  <1> HIDE DEF set
  <1>7. Quiet(set, reset)
    <2>1. Quiet(set, triggered)  BY <1>6, WindowQuiet, ShownQuiet
    <2>2. triggered \in Instance  BY <2>1 DEF Quiet, SameContexts
    <2> HIDE DEF triggered
    <2>3. Quiet(triggered, ResetInput(triggered))  BY <2>2, WindowQuiet
    <2> QED  BY <2>1, <2>3, QuietTransitive
  <1> HIDE DEF reset
  <1>8. reset \in Instance /\ reset.lastIMIndex \in Int /\ reset.lastIMIndex >= -1
    BY <1>7 DEF Quiet, SameContexts, Instance
  <1>9. done = reset \/ Switches(reset, done)
    BY <1>8, SwitchIMSwitches
  <1>10. /\ done.rec = rec /\ done.globalState = "active"
         /\ TextKept(d, done)
    BY <1>6, <1>7, <1>9 DEF Quiet, Switches, SameContexts, TextKept
  <1>11. ASSUME FirstAsInactive, IMRange(d) PROVE IMMatches(done)
    <2>1. IMRange(reset)  BY <1>6, <1>7, <1>11 DEF Quiet, IMRange
    <2>2. CASE GetCurrentState(reset) = "active" /\ reset.iIMIndex = 0
      BY <1>8, <1>11, <2>2, SwitchIMSwitches DEF IMMatches, IMActive, Switches
    <2>3. CASE ~(GetCurrentState(reset) = "active" /\ reset.iIMIndex = 0)
      BY <1>11, <2>1, <2>3 DEF IMMatches, IMActive
    <2> QED  BY <2>2, <2>3
  <1> SUFFICES /\ Turned(d, done, on, "active")
               /\ TextKept(d, done)
               /\ ToldKept(d, done, on)
               /\ FirstAsInactive /\ IMRange(d) => IMMatches(done)
    BY <1>3 DEF on
  <1> HIDE DEF done
  <1> QED  BY <1>5, <1>10, <1>11 DEF Turned, ToldKept

\* The state ChangeIMState changes to.
Opposite(d, ic) == IF d.rec[ic].state = "inactive" THEN "active" ELSE "inactive"

\* The input method fits a context of state st.
IMFits(e, st) ==
    e.imcount > 1 => /\ st = "active" => e.iIMIndex # 0
                     /\ st = "inactive" => e.iIMIndex = 0

LEMMA ChangeIMStateTurns ==
    ASSUME NEW d \in Instance, NEW ic \in d.ic_list, NEW foreign
    PROVE  LET e == ChangeIMState(d, ic, foreign)
               on == Affected(d, ic, foreign)
           IN  /\ Turned(d, e, on, Opposite(d, ic))
               /\ TextKept(d, e)
               /\ DoubleSwitchKey \/ (\A s \in on : d.rec[s].state # "closed")
                    => ToldKept(d, e, on)
               /\ FirstAsInactive /\ IMRange(d) =>
                    IMRange(e) /\ IMFits(e, Opposite(d, ic))
  <1> DEFINE st == Opposite(d, ic)
             on == Affected(d, ic, foreign)
             switched ==
               IF ~FirstAsInactive THEN d
               ELSE IF st = "active" THEN SwitchIM(d, d.lastIMIndex)
               ELSE SwitchIMInternal(d, 0, FALSE)
             changed == {s \in on : d.rec[s].state # st}
             recs == [s \in Slots |-> IF s \in changed
                                      THEN [d.rec[s] EXCEPT !.state = st]
                                      ELSE d.rec[s]]
             set == [switched EXCEPT !.globalState = st, !.rec = recs]
             done == IF d.CurrentIC \notin changed THEN set
                     ELSE IF st = "active" THEN ResetInput(set)
                     ELSE CloseInputWindow(ResetInput(set))
  <1>1. ic # NoIC  BY SlotsAssumption DEF Instance
  <1>2. ChangeIMState(d, ic, foreign) = done
    BY <1>1 DEF ChangeIMState, Opposite
  <1> HIDE DEF on
  <1>3. st \in {"active", "inactive"}  BY DEF Opposite
  <1> HIDE DEF st
  <1>4. /\ SameContexts(d, switched) /\ switched.imcount = d.imcount
        /\ switched.clientPreedit \in {d.clientPreedit, NoIC}
        /\ switched.codeInput \in {d.codeInput, NoIC}
        /\ FirstAsInactive /\ IMRange(d) =>
             IMRange(switched) /\ IMFits(switched, st)
    <2>1. d.lastIMIndex \in Int /\ d.lastIMIndex >= -1  BY DEF Instance
    <2>2. SameContexts(d, d)  BY DEF SameContexts
    <2> DEFINE a == SwitchIM(d, d.lastIMIndex)
               b == SwitchIMInternal(d, 0, FALSE)
    <2>3. /\ Switches(d, a)
          /\ FirstAsInactive =>
               IMRange(a) /\ (d.imcount > 1 => a.iIMIndex # 0)
      BY <2>1, SwitchIMSwitches
    <2>4. /\ Switches(d, b)
          /\ d.imcount > 0 => b.iIMIndex = 0 /\ b.lastIMIndex = d.lastIMIndex
      <3>1. 0 \in Int /\ FALSE \in BOOLEAN  OBVIOUS
      <3> QED  BY <3>1, SwitchIMInternalSwitches, SwitchToFirst, Zenon
    <2>5. switched = IF ~FirstAsInactive THEN d ELSE IF st = "active" THEN a ELSE b
      OBVIOUS
    <2> HIDE DEF a, b, switched
    <2>6. IMRange(d) => IMRange(b) /\ (d.imcount > 1 => b.iIMIndex = 0)
      BY <2>4 DEF IMRange, Switches, Instance
    <2>7. CASE ~FirstAsInactive  BY <2>2, <2>5, <2>7
    <2>8. CASE FirstAsInactive /\ st = "active"
      BY <2>3, <2>5, <2>8 DEF Switches, IMFits
    <2>9. CASE FirstAsInactive /\ st # "active"
      BY <2>4, <2>5, <2>6, <2>9 DEF Switches, IMFits
    <2> QED  BY <2>7, <2>8, <2>9
  <1> HIDE DEF switched
  <1>5. d.rec \in [Slots -> InputContextRec]  BY DEF Instance
  <1>6. ASSUME NEW r \in InputContextRec
        PROVE  LET q == [r EXCEPT !.state = st]
               IN  /\ q \in InputContextRec
                   /\ q.app = r.app /\ q.state = st
                   /\ DoubleSwitchKey \/ r.state # "closed" =>
                        (Told(r) => Told(q))
    BY <1>3 DEF InputContextRec, ContextState, Told
  <1>7. /\ recs \in [Slots -> InputContextRec]
        /\ \A s \in Slots :
             /\ recs[s].app = d.rec[s].app
             /\ s \in on => recs[s].state = st
             /\ s \notin on => recs[s] = d.rec[s]
             /\ s \in on /\ (DoubleSwitchKey \/ d.rec[s].state # "closed") =>
                  (Told(d.rec[s]) => Told(recs[s]))
    BY <1>5, <1>6
  <1> HIDE DEF recs, changed
  <1>8. /\ set \in Instance
        /\ set.rec = recs /\ set.globalState = st
        /\ set.CurrentIC = d.CurrentIC /\ set.imcount = d.imcount
        /\ set.iIMIndex = switched.iIMIndex
        /\ set.lastIMIndex = switched.lastIMIndex
        /\ set.clientPreedit = switched.clientPreedit
        /\ set.codeInput = switched.codeInput
    BY <1>3, <1>4, <1>7 DEF Instance, ContextState, SameContexts
  <1> HIDE DEF set
  <1>9. Quiet(set, done)
    <2>1. Quiet(set, set) /\ Quiet(set, ResetInput(set))  BY <1>8, WindowQuiet
    <2>2. ResetInput(set) \in Instance  BY <2>1 DEF Quiet, SameContexts
    <2>3. Quiet(ResetInput(set), CloseInputWindow(ResetInput(set)))
      BY <2>2, WindowQuiet
    <2> QED  BY <2>1, <2>3, QuietTransitive
  <1> HIDE DEF done
  <1>10. /\ done.rec = recs /\ done.globalState = st
         /\ TextKept(d, done)
    BY <1>4, <1>8, <1>9 DEF Quiet, SameContexts, TextKept
  <1>11. FirstAsInactive /\ IMRange(d) => IMRange(done) /\ IMFits(done, st)
    BY <1>4, <1>8, <1>9 DEF Quiet, IMRange, IMFits
  <1>12. Turned(d, done, on, st)  BY <1>7, <1>10 DEF Turned
  <1>13. DoubleSwitchKey \/ (\A s \in on : d.rec[s].state # "closed") =>
           ToldKept(d, done, on)
    BY <1>7, <1>10 DEF ToldKept
  <1> QED  BY <1>2, <1>10, <1>11, <1>12, <1>13 DEF on, st

LEMMA CloseIMTurns ==
    ASSUME NEW d \in Instance, NEW ic \in d.ic_list, NEW foreign,
           ~(FirstAsInactive /\ ~Controls(d.rec[ic]))
    PROVE  LET e == CloseIM(d, ic, foreign)
               on == Affected(d, ic, foreign)
           IN  /\ Turned(d, e, on, "closed")
               /\ TextKept(d, e)
               /\ ToldKept(d, e, on)
  <1> DEFINE on == Affected(d, ic, foreign)
             recs == [s \in Slots |-> IF s \in on THEN CloseRec(d.rec[s])
                                                  ELSE d.rec[s]]
             set == [d EXCEPT !.globalState = "closed", !.rec = recs]
             done == IF d.CurrentIC \in on THEN CloseInputWindow(set) ELSE set
  <1>1. ic # NoIC  BY SlotsAssumption DEF Instance
  <1>2. CloseIM(d, ic, foreign) = done  BY <1>1 DEF CloseIM
  <1> HIDE DEF on
  <1>3. d.rec \in [Slots -> InputContextRec]  BY DEF Instance
  <1>4. ASSUME NEW r \in InputContextRec
        PROVE  /\ CloseRec(r) \in InputContextRec
               /\ CloseRec(r).app = r.app /\ CloseRec(r).state = "closed"
               /\ Told(CloseRec(r))
    BY DEF CloseRec, InputContextRec, ContextState, Told
  <1>5. /\ recs \in [Slots -> InputContextRec]
        /\ \A s \in Slots :
             /\ recs[s].app = d.rec[s].app
             /\ s \in on => recs[s].state = "closed" /\ Told(recs[s])
             /\ s \notin on => recs[s] = d.rec[s]
    BY <1>3, <1>4
  <1> HIDE DEF recs
  <1>6. /\ set \in Instance
        /\ set.rec = recs /\ set.globalState = "closed"
        /\ set.CurrentIC = d.CurrentIC /\ set.imcount = d.imcount
        /\ set.clientPreedit = d.clientPreedit /\ set.codeInput = d.codeInput
    BY <1>5 DEF Instance, ContextState
  <1> HIDE DEF set
  <1>7. Quiet(set, done)  BY <1>6, WindowQuiet
  <1> HIDE DEF done
  <1>8. /\ done.rec = recs /\ done.globalState = "closed"
        /\ TextKept(d, done)
    BY <1>6, <1>7 DEF Quiet, SameContexts, TextKept
  <1> QED  BY <1>2, <1>5, <1>8 DEF Turned, ToldKept, on

\* A context that is not closed has no closed context in its group.
LEMMA GroupOpen ==
    ASSUME NEW d \in Instance, NEW ic \in d.ic_list, NEW foreign,
           ToldGroups(d), d.rec[ic].state # "closed"
    PROVE  \A s \in Affected(d, ic, foreign) : d.rec[s].state # "closed"
  <1>1. CASE ShareState = "All"
    BY <1>1 DEF ToldGroups, Coherent, Affected
  <1>2. CASE ShareState = "None"
    BY <1>2 DEF Affected
  <1>3. CASE ShareState = "PerProgram"
    BY <1>3 DEF ToldGroups, OneFrontend, Together, Affected, SameApplication
  <1> QED  BY <1>1, <1>2, <1>3, ConfigAssumption

\* When all contexts are turned to st, so is the one with the focus.
LEMMA TurnedCurrent ==
    ASSUME NEW d \in Instance, NEW e, NEW ic \in d.ic_list, NEW foreign, NEW st,
           FocusOK(d), SharedFirst(d), TextKept(d, e),
           Turned(d, e, Affected(d, ic, foreign), st)
    PROVE  GetCurrentState(e) \in {st, "closed"}
  <1>1. Affected(d, ic, foreign) = d.ic_list  BY AllAffected
  <1>2. e.CurrentIC # NoIC => e.CurrentIC \in d.ic_list /\ e.CurrentIC \in Slots
    BY DEF FocusOK, TextKept, Instance
  <1> QED  BY <1>1, <1>2 DEF Turned, GetCurrentState

LEMMA EnableIMMatches ==
    ASSUME NEW d \in Instance, FocusOK(d), NEW ic \in d.ic_list, NEW foreign,
           NEW keepState \in BOOLEAN, SharedFirst(d), IMRange(d)
    PROVE  /\ IMMatches(EnableIM(d, ic, keepState, foreign))
           /\ GetCurrentState(EnableIM(d, ic, keepState, foreign)) # "inactive"
  <1> DEFINE e == EnableIM(d, ic, keepState, foreign)
  <1>1. /\ Turned(d, e, Affected(d, ic, foreign), "active") /\ TextKept(d, e)
        /\ IMMatches(e)
    BY EnableIMTurns DEF SharedFirst
  <1> HIDE DEF e
  <1>2. GetCurrentState(e) \in {"active", "closed"}  BY <1>1, TurnedCurrent
  <1> QED  BY <1>1, <1>2 DEF e

LEMMA EnableIMRespects ==
    ASSUME NEW d \in Instance, FocusOK(d), NEW ic \in d.ic_list \union {NoIC},
           NEW foreign, NEW keepState \in BOOLEAN
    PROVE  Respects(d, EnableIM(d, ic, keepState, foreign))
  <1> DEFINE e == EnableIM(d, ic, keepState, foreign)
  <1>1. CASE ic = NoIC
    BY <1>1, RespectsItself DEF EnableIM
  <1>2. CASE ic # NoIC
    <2>1. ic \in d.ic_list /\ ic \in Slots \union {NoIC}  BY <1>2 DEF Instance
    <2>2. Keeps(d, e)  BY <2>1, EnableIMKeeps
    <2>3. /\ Turned(d, e, Affected(d, ic, foreign), "active")
          /\ TextKept(d, e)
          /\ ToldKept(d, e, Affected(d, ic, foreign))
      BY <2>1, EnableIMTurns
    <2>4. SharedFirst(d) /\ IMMatches(d) => IMMatches(e) /\ IMSettled(d, e)
      BY <2>1, EnableIMMatches DEF IMMatches, IMSettled
    <2> HIDE DEF e
    <2>5. Respects(d, e)  BY <2>1, <2>2, <2>3, <2>4, TurnedRespects
    <2> QED  BY <2>5 DEF e
  <1> QED  BY <1>1, <1>2

LEMMA ChangeIMStateRespects ==
    ASSUME NEW d \in Instance, FocusOK(d), NEW ic \in d.ic_list \union {NoIC},
           NEW foreign,
           ic # NoIC /\ ToldGroups(d) /\ ~DoubleSwitchKey =>
             \A s \in Affected(d, ic, foreign) : d.rec[s].state # "closed"
    PROVE  Respects(d, ChangeIMState(d, ic, foreign))
  <1> DEFINE e == ChangeIMState(d, ic, foreign)
             st == Opposite(d, ic)
  <1>1. CASE ic = NoIC
    BY <1>1, RespectsItself DEF ChangeIMState
  <1>2. CASE ic # NoIC
    <2>1. ic \in d.ic_list /\ ic \in Slots \union {NoIC}  BY <1>2 DEF Instance
    <2>2. Keeps(d, e)  BY <2>1, ChangeIMStateKeeps
    <2>3. /\ Turned(d, e, Affected(d, ic, foreign), st)
          /\ TextKept(d, e)
          /\ ToldGroups(d) => ToldKept(d, e, Affected(d, ic, foreign))
          /\ FirstAsInactive /\ IMRange(d) => IMRange(e) /\ IMFits(e, st)
      BY <1>2, <2>1, ChangeIMStateTurns
    <2>4. st \in {"active", "inactive"}  BY DEF Opposite
    <2> HIDE DEF e, st
    <2>5. SharedFirst(d) /\ IMMatches(d) => IMMatches(e) /\ IMSettled(d, e)
      BY <2>1, <2>3, <2>4, TurnedCurrent
         DEF SharedFirst, IMMatches, IMActive, IMSettled, IMFits
    <2>6. Respects(d, e)  BY <2>1, <2>2, <2>3, <2>4, <2>5, TurnedRespects
    <2> QED  BY <2>6 DEF e
  <1> QED  BY <1>1, <1>2

LEMMA CloseIMRespects ==
    ASSUME NEW d \in Instance, FocusOK(d), NEW ic \in d.ic_list \union {NoIC},
           NEW foreign
    PROVE  Respects(d, CloseIM(d, ic, foreign))
  <1> DEFINE e == CloseIM(d, ic, foreign)
  <1>1. CASE ic = NoIC
    BY <1>1, RespectsItself DEF CloseIM
  <1>2. CASE ic # NoIC /\ FirstAsInactive /\ ~Controls(d.rec[ic])
    <2>1. e = ChangeIMState(d, ic, foreign)  BY <1>2 DEF CloseIM
    <2>2. ToldGroups(d) =>
            \A s \in Affected(d, ic, foreign) : d.rec[s].state # "closed"
      BY <1>2, GroupOpen DEF ToldGroups, AllTold
    <2> QED  BY <2>1, <2>2, ChangeIMStateRespects
  <1>3. CASE ic # NoIC /\ ~(FirstAsInactive /\ ~Controls(d.rec[ic]))
    <2>1. ic \in d.ic_list /\ ic \in Slots \union {NoIC}  BY <1>3 DEF Instance
    <2>2. Keeps(d, e)  BY <2>1, CloseIMKeeps
    <2>3. /\ Turned(d, e, Affected(d, ic, foreign), "closed")
          /\ TextKept(d, e)
          /\ ToldKept(d, e, Affected(d, ic, foreign))
      BY <1>3, <2>1, CloseIMTurns
    <2>4. ToldGroups(d) => ~FirstAsInactive
      BY <1>3, <2>1 DEF ToldGroups, Uncontrolled
    <2>5. ~SharedFirst(d)
      BY <1>3, <2>1 DEF SharedFirst, Uncontrolled
    <2> HIDE DEF e
    <2>6. Respects(d, e)  BY <2>1, <2>2, <2>3, <2>4, <2>5, TurnedRespects
    <2> QED  BY <2>6 DEF e
  <1> QED  BY <1>1, <1>2, <1>3

-----------------------------------------------------------------------------
(* Keys. *)

\* ChangeIMState of the current context, when it is not closed or the double
\* switch key does it.
LEMMA ChangeCurrentRespects ==
    ASSUME NEW d \in Instance, FocusOK(d), NEW foreign,
           DoubleSwitchKey \/ GetCurrentState(d) # "closed"
    PROVE  Respects(d, ChangeIMState(d, d.CurrentIC, foreign))
  <1>1. d.CurrentIC \in d.ic_list \union {NoIC}  BY DEF FocusOK
  <1>2. ASSUME GetCurrentState(d) # "closed", ToldGroups(d)
        PROVE  \A s \in Affected(d, d.CurrentIC, foreign) :
                 d.rec[s].state # "closed"
    <2>1. d.CurrentIC \in d.ic_list /\ d.rec[d.CurrentIC].state # "closed"
      BY <1>1, <1>2 DEF GetCurrentState
    <2> QED  BY <1>2, <2>1, GroupOpen
  <1> QED  BY <1>1, <1>2, ChangeIMStateRespects

LEMMA RespectsQuiet ==
    ASSUME NEW d \in Instance, NEW e, NEW f, Respects(d, e), Quiet(e, f)
    PROVE  Respects(d, f)
  <1>1. e \in Instance  BY DEF Respects, Keeps, Frame
  <1> QED  BY <1>1, QuietRespects, RespectsTransitive

LEMMA ProcessTriggerKeyRespects ==
    ASSUME NEW d \in Instance, FocusOK(d), NEW foreign
    PROVE  Respects(d, ProcessTriggerKey(d, foreign))
  <1> DEFINE e == ChangeIMState(d, d.CurrentIC, foreign)
  <1>1. ProcessTriggerKey(d, foreign) =
          IF GetCurrentState(d) = "inactive" THEN ShowInputSpeed(e)
          ELSE CloseIM(d, d.CurrentIC, foreign)
    BY DEF ProcessTriggerKey
  <1>2. GetCurrentState(d) = "inactive" => Respects(d, e)
    BY ChangeCurrentRespects
  <1>3. Respects(d, CloseIM(d, d.CurrentIC, foreign))
    BY CloseIMRespects DEF FocusOK
  <1> HIDE DEF e
  <1>4. Respects(d, e) => Respects(d, ShowInputSpeed(e))
    <2>1. Respects(d, e) => e \in Instance  BY DEF Respects, Keeps, Frame
    <2> QED  BY <2>1, ShownQuiet, RespectsQuiet
  <1> QED  BY <1>1, <1>2, <1>3, <1>4

LEMMA ProcessSwitchKeyRespects ==
    ASSUME NEW d \in Instance, FocusOK(d), NEW foreign
    PROVE  Respects(d, ProcessSwitchKey(d, foreign))
  <1> DEFINE e == ShowInputSpeed(d)
  <1>1. ProcessSwitchKey(d, foreign) =
          IF DoubleSwitchKey THEN ChangeIMState(d, d.CurrentIC, foreign)
          ELSE CASE GetCurrentState(d) = "closed" -> d
                 [] GetCurrentState(d) = "inactive" ->
                      ChangeIMState(e, d.CurrentIC, foreign)
                 [] OTHER -> ChangeIMState(d, d.CurrentIC, foreign)
    BY DEF ProcessSwitchKey
  <1>2. Quiet(d, e)  BY ShownQuiet
  <1> HIDE DEF e
  <1>3. ASSUME GetCurrentState(d) # "closed"
        PROVE  Respects(d, ChangeIMState(e, d.CurrentIC, foreign))
    <2>1. /\ e \in Instance /\ FocusOK(e) /\ e.CurrentIC = d.CurrentIC
          /\ GetCurrentState(e) # "closed"
      BY <1>2, <1>3 DEF Quiet, SameContexts, FocusOK, GetCurrentState
    <2>2. Respects(e, ChangeIMState(e, d.CurrentIC, foreign))
      BY <2>1, ChangeCurrentRespects
    <2>3. Respects(d, e)  BY <1>2, QuietRespects
    <2> QED  BY <2>2, <2>3, RespectsTransitive
  <1>4. DoubleSwitchKey \/ GetCurrentState(d) # "closed" =>
          Respects(d, ChangeIMState(d, d.CurrentIC, foreign))
    BY ChangeCurrentRespects
  <1> QED  BY <1>1, <1>3, <1>4, RespectsItself

LEMMA ProcessInputKeyRespects ==
    ASSUME NEW d \in Instance, NEW key
    PROVE  Respects(d, ProcessInputKey(d, key))
  <1> DEFINE composed == Compose(d)
             committed == CommitComposed(d)
  <1>1. ProcessInputKey(d, key) \in {d, composed, committed}
    BY DEF ProcessInputKey
  <1>2. Respects(d, composed)
    <2> DEFINE owner == IF d.codeInput = NoIC THEN d.CurrentIC ELSE d.codeInput
               e == [d EXCEPT !.codeInput = owner, !.clientPreedit = d.CurrentIC]
    <2>1. owner \in Owner /\ d.CurrentIC \in Owner  BY DEF Instance, Owner
    <2>2. composed = e  BY DEF Compose
    <2>3. owner \in {d.codeInput, NoIC, d.CurrentIC}  OBVIOUS
    <2> HIDE DEF owner
    <2>4. /\ SameContexts(d, e) /\ TextKept(d, e)
          /\ e.iIMIndex = d.iIMIndex /\ e.lastIMIndex = d.lastIMIndex
      BY <2>1, <2>3 DEF SameContexts, Instance, TextKept
    <2> HIDE DEF e
    <2>5. IMMatches(d) => IMMatches(e) /\ IMSettled(d, e)
      BY <2>4 DEF SameContexts, TextKept, IMMatches, IMRange, IMActive, IMSettled,
                  GetCurrentState
    <2> QED  BY <2>2, <2>4, <2>5, SameRespects
  <1>3. Respects(d, committed)
    <2>1. Quiet(d, CleanInputWindow(d))  BY WindowQuiet
    <2>2. CleanInputWindow(d) \in Instance  BY <2>1 DEF Quiet, SameContexts
    <2>3. Quiet(d, committed)
      BY <2>1, <2>2, WindowQuiet, QuietTransitive DEF CommitComposed
    <2> QED  BY <2>3, QuietRespects
  <1> HIDE DEF composed, committed
  <1> QED  BY <1>1, <1>2, <1>3, RespectsItself

\* SwitchIM is respectful unless the context is inactive.
LEMMA SwitchIMRespects ==
    ASSUME NEW d \in Instance, NEW index \in Int, index >= -1,
           FirstAsInactive => GetCurrentState(d) # "inactive"
    PROVE  Respects(d, SwitchIM(d, index))
  <1> DEFINE e == SwitchIM(d, index)
  <1>1. /\ Switches(d, e)
        /\ FirstAsInactive => IMRange(e) /\ (d.imcount > 1 => e.iIMIndex # 0)
    BY SwitchIMSwitches
  <1> HIDE DEF e
  <1>2. SameContexts(d, e) /\ TextKept(d, e)
    BY <1>1 DEF Switches, SameContexts, TextKept
  <1>3. SharedFirst(d) => IMMatches(e) /\ IMSettled(d, e)
    BY <1>1, <1>2 DEF SharedFirst, IMMatches, IMActive, IMSettled,
                      GetCurrentState, SameContexts, TextKept
  <1>4. Respects(d, e)  BY <1>2, <1>3, SameRespects
  <1> QED  BY <1>4 DEF e

LEMMA ProcessKeyRespects ==
    ASSUME NEW d \in Instance, FocusOK(d), NEW key, NEW foreign
    PROVE  Respects(d, ProcessKey(d, key, foreign))
  <1>1. Respects(d, d)  BY RespectsItself
  <1>2. Respects(d, ProcessTriggerKey(d, foreign))  BY ProcessTriggerKeyRespects
  <1>3. Respects(d, ProcessSwitchKey(d, foreign))  BY ProcessSwitchKeyRespects
  <1>4. GetCurrentState(d) = "active" => Respects(d, SwitchIM(d, -1))
    <2>1. -1 \in Int /\ -1 >= -1  OBVIOUS
    <2> QED  BY <2>1, SwitchIMRespects
  <1>5. Respects(d, ProcessInputKey(d, key))  BY ProcessInputKeyRespects
  <1> QED  BY <1>1, <1>2, <1>3, <1>4, <1>5 DEF ProcessKey

-----------------------------------------------------------------------------
(* Focus. *)

\* The contexts and their states are the same; the focus may have moved.
SameStates(d, e) ==
    /\ e \in Instance /\ e.imcount = d.imcount
    /\ e.ic_list = d.ic_list /\ e.free_list = d.free_list
    /\ e.maxid = d.maxid
    /\ e.rec = d.rec /\ e.globalState = d.globalState

\* A focus handler leaves no text behind and matches the input method to the
\* context it focuses.
Focuses(d, e) ==
    /\ SameStates(d, e)
    /\ FocusOK(d) => FocusOK(e)
    /\ e.clientPreedit = NoIC
    /\ e.CurrentIC # NoIC => e.codeInput = NoIC
    /\ FirstAsInactive /\ IMRange(d) =>
         IMRange(e) /\ IMFits(e, GetCurrentState(e))

LEMMA SetCurrentICSame ==
    ASSUME NEW d \in Instance, NEW ic \in d.ic_list \union {NoIC}
    PROVE  LET e == SetCurrentIC(d, ic)
           IN  /\ SameStates(d, e)
               /\ e.CurrentIC = ic
               /\ e.iIMIndex = d.iIMIndex /\ e.lastIMIndex = d.lastIMIndex
               /\ e.clientPreedit = d.clientPreedit
               /\ e.codeInput = d.codeInput
  <1>1. ic \in Slots \union {NoIC}  BY DEF Instance
  <1> QED  BY <1>1 DEF SetCurrentIC, SameStates, Instance

LEMMA OnInputFocusMatches ==
    ASSUME NEW d \in Instance
    PROVE  LET e == OnInputFocus(d)
           IN  /\ SameContexts(d, e) /\ e.imcount = d.imcount
               /\ e.clientPreedit = NoIC /\ e.codeInput = NoIC
               /\ FirstAsInactive /\ IMRange(d) =>
                    IMRange(e) /\ IMFits(e, GetCurrentState(e))
  <1> DEFINE e == ResetInput(d)
             state == GetCurrentState(e)
             remembered == IF e.iIMIndex # 0
                           THEN [e EXCEPT !.lastIMIndex = e.iIMIndex] ELSE e
             a == SwitchIM(e, e.lastIMIndex)
             b == SwitchIMInternal(remembered, 0, FALSE)
             f == CASE FirstAsInactive /\ state = "active" -> a
                    [] FirstAsInactive /\ state = "inactive" -> b
                    [] OTHER -> e
             done == CloseInputWindow(f)
  <1>1. OnInputFocus(d) = done  BY DEF OnInputFocus
  <1>2. Quiet(d, e) /\ e.codeInput = NoIC  BY WindowQuiet
  <1> HIDE DEF e
  <1>3. e \in Instance /\ SameContexts(d, e)  BY <1>2 DEF Quiet, SameContexts
  <1>4. /\ Switches(e, a)
        /\ FirstAsInactive => IMRange(a) /\ (e.imcount > 1 => a.iIMIndex # 0)
    <2>1. e.lastIMIndex \in Int /\ e.lastIMIndex >= -1  BY <1>3 DEF Instance
    <2> QED  BY <1>3, <2>1, SwitchIMSwitches
  <1>5. /\ SameContexts(e, remembered) /\ remembered.imcount = e.imcount
        /\ remembered.lastIMIndex = IF e.iIMIndex # 0 THEN e.iIMIndex
                                                      ELSE e.lastIMIndex
    BY <1>3 DEF SameContexts, Instance
  <1> HIDE DEF remembered
  <1>6. /\ Switches(remembered, b)
        /\ e.imcount > 0 => /\ b.iIMIndex = 0
                            /\ b.lastIMIndex = remembered.lastIMIndex
    <2>1. remembered \in Instance  BY <1>5 DEF SameContexts
    <2>2. 0 \in Int /\ FALSE \in BOOLEAN  OBVIOUS
    <2> QED
      BY <1>5, <2>1, <2>2, SwitchIMInternalSwitches, SwitchToFirst, Zenon
  <1>7. SameContexts(e, b) /\ b.codeInput = NoIC /\ b.imcount = e.imcount
    BY <1>5, <1>6, SameContextsTransitive DEF Switches
  <1> HIDE DEF a, b
  <1>8. IMRange(e) => IMRange(b) /\ (e.imcount > 1 => b.iIMIndex = 0)
    <2>1. e.imcount \in Int  BY <1>3 DEF Instance
    <2> QED  BY <1>5, <1>6, <1>7, <2>1 DEF IMRange
  <1>9. SameContexts(e, f) /\ f.codeInput = NoIC /\ f.imcount = e.imcount
    BY <1>2, <1>3, <1>4, <1>7 DEF Switches, SameContexts
  <1>10. FirstAsInactive /\ IMRange(d) => IMRange(f) /\ IMFits(f, state)
    <2>1. IMRange(d) => IMRange(e)  BY <1>2 DEF Quiet, IMRange
    <2> HIDE DEF state
    <2> QED  BY <1>4, <1>7, <1>8, <2>1 DEF IMFits, Switches
  <1>11. state = GetCurrentState(f)
    BY <1>9 DEF SameContexts, GetCurrentState
  <1> HIDE DEF f, state
  <1>12. Quiet(f, done) /\ done.clientPreedit = NoIC
    BY <1>9, WindowQuiet DEF SameContexts
  <1> HIDE DEF done
  <1>13. /\ done.codeInput = NoIC /\ SameContexts(d, done)
         /\ done.imcount = d.imcount
    BY <1>2, <1>3, <1>9, <1>12, SameContextsTransitive DEF Quiet
  <1>14. GetCurrentState(done) = GetCurrentState(f)
    BY <1>12 DEF Quiet, SameContexts, GetCurrentState
  <1>15. FirstAsInactive /\ IMRange(d) =>
           IMRange(done) /\ IMFits(done, GetCurrentState(done))
    BY <1>10, <1>11, <1>12, <1>14 DEF IMFits, IMRange, Quiet
  <1> QED  BY <1>1, <1>12, <1>13, <1>15

LEMMA FocusInFocuses ==
    ASSUME NEW d \in Instance, NEW ic \in d.ic_list
    PROVE  Respects(d, FocusIn(d, ic)) \/ Focuses(d, FocusIn(d, ic))
  <1> DEFINE e == IF d.CurrentIC \notin {NoIC, ic} THEN CommitPreedit(d) ELSE d
             f == SetCurrentIC(e, ic)
             done == OnInputFocus(f)
  <1>1. FocusIn(d, ic) = IF d.CurrentIC = ic THEN d ELSE done
    BY DEF FocusIn
  <1>2. Quiet(d, e)  BY WindowQuiet, ShownQuiet
  <1> HIDE DEF e
  <1>3. e \in Instance /\ e.ic_list = d.ic_list
    BY <1>2 DEF Quiet, SameContexts
  <1>4. /\ SameStates(e, f) /\ f.CurrentIC = ic
        /\ f.iIMIndex = e.iIMIndex /\ f.lastIMIndex = e.lastIMIndex
    BY <1>3, SetCurrentICSame
  <1> HIDE DEF f
  <1>5. /\ SameContexts(f, done) /\ done.imcount = f.imcount
        /\ done.clientPreedit = NoIC /\ done.codeInput = NoIC
        /\ FirstAsInactive /\ IMRange(f) =>
             IMRange(done) /\ IMFits(done, GetCurrentState(done))
    BY <1>4, OnInputFocusMatches DEF SameStates
  <1> HIDE DEF done
  <1>6. SameStates(d, done) /\ FocusOK(done)
    BY <1>2, <1>4, <1>5 DEF Quiet, SameContexts, SameStates, FocusOK
  <1>7. IMRange(d) => IMRange(f)
    BY <1>2, <1>4 DEF Quiet, SameStates, IMRange
  <1>8. Focuses(d, done)  BY <1>5, <1>6, <1>7 DEF Focuses
  <1> QED  BY <1>1, <1>8, RespectsItself

LEMMA FocusOutFocuses ==
    ASSUME NEW d \in Instance
    PROVE  Focuses(d, FocusOut(d))
  <1> DEFINE e == CommitPreedit(d)
             f == CloseInputWindow(e)
             done == SetCurrentIC(f, NoIC)
  <1>1. FocusOut(d) = done  BY DEF FocusOut
  <1>2. Quiet(d, e)  BY ShownQuiet
  <1> HIDE DEF e
  <1>3. Quiet(d, f) /\ f.clientPreedit = NoIC
    BY <1>2, WindowQuiet, QuietTransitive DEF Quiet, SameContexts
  <1> HIDE DEF f
  <1>4. f \in Instance  BY <1>3 DEF Quiet, SameContexts
  <1>5. /\ SameStates(f, done) /\ done.CurrentIC = NoIC
        /\ done.iIMIndex = f.iIMIndex /\ done.lastIMIndex = f.lastIMIndex
        /\ done.clientPreedit = f.clientPreedit
    BY <1>4, SetCurrentICSame
  <1> HIDE DEF done
  <1>6. SameStates(d, done)
    BY <1>3, <1>5 DEF Quiet, SameContexts, SameStates
  <1>7. IMRange(d) => IMRange(done) /\ IMFits(done, GetCurrentState(done))
    BY <1>3, <1>5 DEF Quiet, SameStates, IMRange, IMFits, GetCurrentState
  <1> QED  BY <1>1, <1>3, <1>5, <1>6, <1>7 DEF Focuses, FocusOK

-----------------------------------------------------------------------------
(* Creation, destruction and capabilities. *)

\* e is d without the context ic.
Removes(d, e, ic) ==
    /\ e \in Instance
    /\ e.ic_list = d.ic_list \ {ic}
    /\ \A s \in e.ic_list : e.rec[s] = d.rec[s]
    /\ e.globalState = d.globalState
    /\ e.CurrentIC = IF d.CurrentIC = ic THEN NoIC ELSE d.CurrentIC
    /\ e.imcount = d.imcount
    /\ e.iIMIndex = d.iIMIndex /\ e.lastIMIndex = d.lastIMIndex
    /\ d.CurrentIC = ic => e.clientPreedit = NoIC
    /\ e.clientPreedit \in
         {NoIC, IF d.clientPreedit = ic THEN GoneIC ELSE d.clientPreedit}
    /\ e.codeInput = IF d.codeInput = ic THEN GoneIC ELSE d.codeInput

\* e is d but for the capabilities of ic.
Reflags(d, e, ic, flags) ==
    /\ e \in Instance
    /\ e.ic_list = d.ic_list
    /\ \A s \in Slots : /\ e.rec[s].frontendid = d.rec[s].frontendid
                        /\ e.rec[s].app = d.rec[s].app
                        /\ e.rec[s].state = d.rec[s].state
                        /\ e.rec[s].told = d.rec[s].told
                        /\ e.rec[s].contextCaps \in {d.rec[s].contextCaps, flags}
    /\ e.globalState = d.globalState /\ e.CurrentIC = d.CurrentIC
    /\ e.imcount = d.imcount
    /\ e.iIMIndex = d.iIMIndex /\ e.lastIMIndex = d.lastIMIndex
    /\ e.clientPreedit = d.clientPreedit /\ e.codeInput = d.codeInput

\* e is d with a new context, r, which may have taken the focus if nobody
\* had it.
Adds(d, e, slot, r) ==
    /\ e \in Instance
    /\ slot \in Slots \ d.ic_list
    /\ e.ic_list = d.ic_list \union {slot}
    /\ e.rec[slot] = r
    /\ \A s \in d.ic_list : e.rec[s] = d.rec[s]
    /\ e.globalState = d.globalState
    /\ \/ e.CurrentIC = d.CurrentIC
       \/ /\ r.frontendid = "xim"
          /\ d.CurrentIC = NoIC /\ e.CurrentIC = slot
    /\ e.imcount = d.imcount
    /\ e.iIMIndex = d.iIMIndex /\ e.lastIMIndex = d.lastIMIndex
    /\ e.clientPreedit = d.clientPreedit /\ e.codeInput = d.codeInput

\* r may stand for a new context: it is in the state of its application, if
\* a context of that is open, and its client is told the truth.
Joins(d, r) ==
    /\ NewContext(d, r)
    /\ ShareState = "PerProgram" =>
         \A s \in d.ic_list :
           d.rec[s].frontendid = r.frontendid /\ SameApplication(d.rec[s], r) =>
             \E t \in d.ic_list : /\ d.rec[t].frontendid = r.frontendid
                                  /\ SameApplication(d.rec[t], r)
                                  /\ d.rec[t].state = r.state
    /\ 1 \notin ClientVersions => ~Controls(r)
    /\ AllTold(d) /\ ~Controls(r) =>
         /\ Told(r)
         /\ FirstAsInactive => r.state # "closed"

LEMMA DestroyICRemoves ==
    ASSUME NEW d \in Instance, NEW ic \in d.ic_list
    PROVE  Removes(d, DestroyIC(d, ic), ic)
  <1> DEFINE w == CloseInputWindow(d)
             out == SetCurrentIC(w, NoIC)
             e == IF d.CurrentIC = ic THEN out ELSE d
             code == IF e.codeInput = ic THEN GoneIC ELSE e.codeInput
             preedit == IF e.clientPreedit = ic THEN GoneIC ELSE e.clientPreedit
             recs == [e.rec EXCEPT ![ic] = NullRec]
             f == [e EXCEPT !.ic_list = e.ic_list \ {ic},
                            !.free_list = e.free_list \union {ic},
                            !.rec = recs,
                            !.codeInput = code, !.clientPreedit = preedit]
  <1>1. ic \in Slots /\ ic # NoIC  BY SlotsAssumption DEF Instance
  <1>2. DestroyIC(d, ic) = f  BY DEF DestroyIC
  <1>3. /\ e \in Instance /\ e.rec = d.rec /\ e.ic_list = d.ic_list
        /\ e.globalState = d.globalState
        /\ e.CurrentIC = IF d.CurrentIC = ic THEN NoIC ELSE d.CurrentIC
        /\ e.imcount = d.imcount
        /\ e.iIMIndex = d.iIMIndex /\ e.lastIMIndex = d.lastIMIndex
        /\ e.codeInput = d.codeInput
        /\ e.clientPreedit = IF d.CurrentIC = ic THEN NoIC ELSE d.clientPreedit
    <2>1. Quiet(d, w) /\ w.clientPreedit = NoIC  BY WindowQuiet
    <2>2. w.codeInput = d.codeInput
      BY DEF CloseInputWindow, CleanInputWindow, Instance
    <2> HIDE DEF w
    <2>3. w \in Instance  BY <2>1 DEF Quiet, SameContexts
    <2>4. /\ SameStates(w, out) /\ out.CurrentIC = NoIC
          /\ out.iIMIndex = w.iIMIndex /\ out.lastIMIndex = w.lastIMIndex
          /\ out.clientPreedit = w.clientPreedit /\ out.codeInput = w.codeInput
      BY <2>3, SetCurrentICSame
    <2> HIDE DEF out
    <2> QED  BY <2>1, <2>2, <2>4 DEF Quiet, SameContexts, SameStates
  <1> HIDE DEF e
  <1>4. code \in Owner /\ preedit \in Owner  BY <1>3 DEF Instance, Owner
  <1>5. /\ recs \in [Slots -> InputContextRec]
        /\ \A s \in Slots \ {ic} : recs[s] = d.rec[s]
    BY <1>1, <1>3, NullRecType DEF Instance
  <1>6. /\ code = IF d.codeInput = ic THEN GoneIC ELSE d.codeInput
        /\ preedit \in
             {NoIC, IF d.clientPreedit = ic THEN GoneIC ELSE d.clientPreedit}
        /\ d.CurrentIC = ic => preedit = NoIC
    BY <1>1, <1>3
  <1> HIDE DEF code, preedit, recs
  <1>7. /\ f \in Instance /\ f.rec = recs
        /\ f.ic_list = d.ic_list \ {ic}
        /\ f.globalState = d.globalState
        /\ f.CurrentIC = IF d.CurrentIC = ic THEN NoIC ELSE d.CurrentIC
        /\ f.imcount = d.imcount
        /\ f.iIMIndex = d.iIMIndex /\ f.lastIMIndex = d.lastIMIndex
        /\ f.clientPreedit = preedit /\ f.codeInput = code
    BY <1>1, <1>3, <1>4, <1>5 DEF Instance
  <1> HIDE DEF f
  <1>8. \A s \in f.ic_list : f.rec[s] = d.rec[s]
    BY <1>5, <1>7 DEF Instance
  <1>9. Removes(d, f, ic)  BY <1>6, <1>7, <1>8 DEF Removes
  <1> QED  BY <1>2, <1>9

LEMMA SetCapacityReflags ==
    ASSUME NEW d \in Instance, NEW ic \in d.ic_list, NEW flags \in SUBSET Capacity
    PROVE  Reflags(d, [d EXCEPT !.rec[ic].contextCaps = flags], ic, flags)
  <1> DEFINE recs == [d.rec EXCEPT ![ic] = [@ EXCEPT !.contextCaps = flags]]
             f == [d EXCEPT !.rec = recs]
  <1>1. ic \in Slots  BY DEF Instance
  <1>2. [d EXCEPT !.rec[ic].contextCaps = flags] = f  OBVIOUS
  <1>3. /\ recs \in [Slots -> InputContextRec]
        /\ \A s \in Slots :
             /\ recs[s].frontendid = d.rec[s].frontendid
             /\ recs[s].app = d.rec[s].app
             /\ recs[s].state = d.rec[s].state
             /\ recs[s].told = d.rec[s].told
             /\ recs[s].contextCaps \in {d.rec[s].contextCaps, flags}
    BY <1>1 DEF Instance, InputContextRec
  <1> HIDE DEF recs
  <1>4. /\ f \in Instance /\ f.rec = recs
        /\ f.ic_list = d.ic_list /\ f.imcount = d.imcount
        /\ f.globalState = d.globalState /\ f.CurrentIC = d.CurrentIC
        /\ f.iIMIndex = d.iIMIndex /\ f.lastIMIndex = d.lastIMIndex
        /\ f.clientPreedit = d.clientPreedit /\ f.codeInput = d.codeInput
    BY <1>3 DEF Instance
  <1> HIDE DEF f
  <1> QED  BY <1>2, <1>3, <1>4 DEF Reflags

LEMMA CreateICAdds ==
    ASSUME NEW d, Orderly(d), NEW slot \in FreshSlots(d), NEW r \in InputContextRec,
           NEW frontend \in Frontends
    PROVE  LET f == [CreateIC(d, slot, r) EXCEPT !.maxid[frontend] = @ + 1]
           IN  Adds(d, f, slot, r) /\ f.CurrentIC = d.CurrentIC
  <1> DEFINE recs == [d.rec EXCEPT ![slot] = r]
             ids == [d.maxid EXCEPT ![frontend] = @ + 1]
             e == [d EXCEPT !.free_list = d.free_list \ {slot},
                            !.ic_list = d.ic_list \union {slot}, !.rec = recs]
             f == [e EXCEPT !.maxid = ids]
  <1>1. d \in Instance /\ slot \in Slots /\ slot \notin d.ic_list
          /\ d.ic_list \subseteq Slots
    BY DEF Orderly, Instance, FreshSlots
  <1>2. [CreateIC(d, slot, r) EXCEPT !.maxid[frontend] = @ + 1] = f
    BY <1>1 DEF CreateIC, Instance
  <1>3. /\ recs \in [Slots -> InputContextRec] /\ recs[slot] = r
        /\ \A s \in d.ic_list : recs[s] = d.rec[s]
    BY <1>1 DEF Instance
  <1>4. ids \in [Frontends -> Nat]  BY <1>1 DEF Instance, Frontends
  <1> HIDE DEF recs, ids
  <1>5. /\ e \in Instance /\ e.rec = recs /\ e.imcount = d.imcount
        /\ e.ic_list = d.ic_list \union {slot}
        /\ e.globalState = d.globalState /\ e.CurrentIC = d.CurrentIC
        /\ e.iIMIndex = d.iIMIndex /\ e.lastIMIndex = d.lastIMIndex
        /\ e.clientPreedit = d.clientPreedit /\ e.codeInput = d.codeInput
    BY <1>1, <1>3 DEF Instance
  <1> HIDE DEF e
  <1>6. /\ f \in Instance /\ f.rec = recs /\ f.imcount = d.imcount
        /\ f.ic_list = d.ic_list \union {slot}
        /\ f.globalState = d.globalState /\ f.CurrentIC = d.CurrentIC
        /\ f.iIMIndex = d.iIMIndex /\ f.lastIMIndex = d.lastIMIndex
        /\ f.clientPreedit = d.clientPreedit /\ f.codeInput = d.codeInput
    BY <1>4, <1>5 DEF Instance
  <1> HIDE DEF f
  <1>7. Adds(d, f, slot, r) /\ f.CurrentIC = d.CurrentIC
    BY <1>1, <1>3, <1>6 DEF Adds
  <1> QED  BY <1>2, <1>7

\* A set of numbers has a smallest one.
LEMMA SmallestOf ==
    ASSUME NEW T \in SUBSET Nat, T # {}
    PROVE  \E n \in T : \A m \in T : n <= m
  <1> DEFINE R == OpToRel(<, Nat)
  <1>1. IsWellFoundedOn(R, Nat)  BY NatLessThanWellFounded
  <1>2. \A x, y \in Nat : <<y, x>> \in R <=> y < x  BY DEF OpToRel
  <1> HIDE DEF R
  <1>3. PICK n \in T : \A m \in T : ~(<<m, n>> \in R)  BY <1>1, WFMin, Zenon
  <1>4. ASSUME NEW m \in T PROVE n <= m
    <2>1. n \in Nat /\ m \in Nat  OBVIOUS
    <2>2. ~(m < n)  BY <1>2, <1>3, <2>1
    <2> QED  BY <2>1, <2>2
  <1> QED  BY <1>4

\* A new context finds the state of its application, when that is open.
LEMMA StateFromOpenApplication ==
    ASSUME NEW d, Orderly(d), NEW r \in InputContextRec
    PROVE  LET same == {s \in d.ic_list : d.rec[s].frontendid = r.frontendid
                                            /\ SameApplication(d.rec[s], r)}
               st == StateFromSameApplication(d, r)
           IN  /\ same = {} => st = r.state
               /\ same # {} => \E t \in same : d.rec[t].state = st
  <1> DEFINE same == {s \in d.ic_list : d.rec[s].frontendid = r.frontendid
                                          /\ SameApplication(d.rec[s], r)}
             newest == {s \in same : \A t \in same : d.rec[t].id <= d.rec[s].id}
             first == CHOOSE s \in newest : TRUE
             bound == d.maxid["ipc"] + d.maxid["xim"]
             below == {bound - d.rec[s].id : s \in same}
             st == StateFromSameApplication(d, r)
  <1>1. st = IF newest = {} THEN r.state ELSE d.rec[first].state
    BY DEF StateFromSameApplication
  <1>2. bound \in Nat /\ \A s \in same : /\ d.rec[s].id \in Nat
                                        /\ d.rec[s].id <= bound
    <2>1. d \in Instance  BY DEF Orderly
    <2>2. d.maxid["ipc"] \in Nat /\ d.maxid["xim"] \in Nat
      BY <2>1 DEF Instance, Frontends
    <2>3. \A s \in same : /\ d.rec[s].id \in Nat
                          /\ d.rec[s].frontendid \in {"ipc", "xim"}
      BY <2>1 DEF Instance, InputContextRec, Frontends
    <2>4. \A s \in same :
            /\ d.rec[s].frontendid = "ipc" => d.rec[s].id < d.maxid["ipc"]
            /\ d.rec[s].frontendid = "xim" => d.rec[s].id <= d.maxid["xim"]
      BY DEF Orderly
    <2> HIDE DEF same
    <2> QED  BY <2>2, <2>3, <2>4
  <1>3. ASSUME same # {} PROVE newest # {}
    <2> HIDE DEF same, bound
    <2>1. below \in SUBSET Nat /\ below # {}  BY <1>2, <1>3
    <2>2. PICK n \in below : \A m \in below : n <= m  BY <2>1, SmallestOf
    <2>3. PICK s \in same : n = bound - d.rec[s].id  BY <2>2
    <2>4. ASSUME NEW t \in same PROVE d.rec[t].id <= d.rec[s].id
      <3>1. bound - d.rec[s].id <= bound - d.rec[t].id  BY <2>2, <2>3
      <3>2. d.rec[s].id \in Nat /\ d.rec[t].id \in Nat /\ bound \in Nat  BY <1>2
      <3> QED  BY <3>1, <3>2
    <2> QED  BY <2>3, <2>4
  <1>4. newest # {} => first \in newest  OBVIOUS
  <1>5. newest \subseteq same  OBVIOUS
  <1> SUFFICES /\ same = {} => st = r.state
               /\ same # {} => \E t \in same : d.rec[t].state = st
    OBVIOUS
  <1> HIDE DEF same, newest, first, st
  <1> QED  BY <1>1, <1>3, <1>4, <1>5

\* With firstAsInactive a new context is not closed.
LEMMA NewStateOpen ==
    ASSUME NEW d \in Instance, AllTold(d), FirstAsInactive
    PROVE  StateForNewIC(d) # "closed"
  BY ConfigAssumption DEF AllTold, StateForNewIC

LEMMA IPCNewRecJoins ==
    ASSUME NEW d, Orderly(d), NEW version \in ClientVersions,
           NEW app \in Apps \union {NoApp}
    PROVE  /\ Joins(d, IPCNewRec(d, version, app))
           /\ IPCNewRec(d, version, app).frontendid = "ipc"
  <1> DEFINE state == StateForNewIC(d)
             r == [NullRec EXCEPT !.frontendid = "ipc", !.id = d.maxid["ipc"],
                                  !.state = state]
             v1 == [r EXCEPT !.state = "closed", !.contextCaps = {"control"}]
             named == [r EXCEPT !.app = app]
             same == {s \in d.ic_list : d.rec[s].frontendid = named.frontendid
                                          /\ SameApplication(d.rec[s], named)}
             shared == StateFromSameApplication(d, named)
             v2 == IF ShareState = "PerProgram"
                   THEN [named EXCEPT !.state = shared] ELSE named
             told == [v2 EXCEPT !.told = v2.state # "closed"]
             done == IF version = 1 THEN v1 ELSE told
  <1>1. d \in Instance /\ d.maxid["ipc"] \in Nat /\ d.ic_list \subseteq Slots
    BY DEF Orderly, Instance, Frontends
  <1>2. state \in ContextState  BY <1>1, StateForNewICType
  <1>3. AllTold(d) /\ FirstAsInactive => state # "closed"
    BY <1>1, NewStateOpen
  <1>4. IPCNewRec(d, version, app) = done  BY DEF IPCNewRec
  <1>5. NewContext(d, done) /\ done.frontendid = "ipc"
    BY <1>4, IPCNewRecNew
  <1> HIDE DEF state
  <1>6. v1.app = NoApp /\ Controls(v1)
    BY <1>1, <1>2
       DEF NullRec, InputContextRec, Frontends, ContextState, Capacity, Controls
  <1>7. /\ named \in InputContextRec /\ named.frontendid = "ipc"
        /\ named.app = app /\ named.contextCaps = {} /\ named.state = state
    BY <1>1, <1>2 DEF NullRec, InputContextRec, Frontends, ContextState
  <1> HIDE DEF v1, named
  <1>8. /\ shared \in ContextState
        /\ same = {} => shared = named.state
        /\ same # {} => \E t \in same : d.rec[t].state = shared
    BY <1>1, <1>7, StateFromSameApplicationType, StateFromOpenApplication
  <1>9. AllTold(d) /\ FirstAsInactive => shared # "closed"
    BY <1>1, <1>3, <1>7, <1>8 DEF AllTold
  <1> HIDE DEF shared
  <1>10. /\ v2 \in InputContextRec
         /\ v2.frontendid = "ipc" /\ v2.app = app /\ v2.contextCaps = {}
         /\ ShareState = "PerProgram" => v2.state = shared
         /\ AllTold(d) /\ FirstAsInactive => v2.state # "closed"
    BY <1>3, <1>7, <1>8, <1>9 DEF InputContextRec
  <1> HIDE DEF v2
  <1>11. /\ told.frontendid = "ipc" /\ told.app = app /\ told.contextCaps = {}
         /\ told.state = v2.state /\ (told.told <=> v2.state # "closed")
    BY <1>10 DEF InputContextRec
  <1> HIDE DEF told
  <1>12. CASE version = 1
    <2>1. done = v1  BY <1>12
    <2> HIDE DEF done, same
    <2> QED  BY <1>4, <1>5, <1>6, <1>12, <2>1 DEF Joins, SameApplication
  <1>13. CASE version # 1
    <2>1. done = told  BY <1>13
    <2> HIDE DEF done
    <2>2. ~Controls(done) /\ Told(done)
      BY <1>11, <2>1 DEF Controls, Told
    <2>3. AllTold(d) /\ FirstAsInactive => done.state # "closed"
      BY <1>10, <1>11, <2>1
    <2>4. ASSUME ShareState = "PerProgram", NEW s \in d.ic_list,
                 d.rec[s].frontendid = done.frontendid,
                 SameApplication(d.rec[s], done)
          PROVE  \E t \in d.ic_list : /\ d.rec[t].frontendid = done.frontendid
                                      /\ SameApplication(d.rec[t], done)
                                      /\ d.rec[t].state = done.state
      <3>1. /\ done.frontendid = named.frontendid /\ done.app = named.app
            /\ done.state = shared
        BY <1>7, <1>10, <1>11, <2>1, <2>4
      <3>2. s \in same  BY <2>4, <3>1 DEF SameApplication
      <3>3. PICK t \in same : d.rec[t].state = shared  BY <1>8, <3>2
      <3> QED  BY <3>1, <3>3 DEF SameApplication
    <2> HIDE DEF same
    <2> QED  BY <1>4, <1>5, <2>2, <2>3, <2>4 DEF Joins
  <1> QED  BY <1>12, <1>13

LEMMA XimNewRecJoins ==
    ASSUME NEW d, Orderly(d), NEW connection \in Apps
    PROVE  /\ Joins(d, XimNewRec(d, connection))
           /\ XimNewRec(d, connection).frontendid = "xim"
  <1> DEFINE state == StateForNewIC(d)
             id == d.maxid["xim"] + 1
             r == [NullRec EXCEPT !.frontendid = "xim", !.id = id,
                                  !.app = connection, !.state = state]
             same == {s \in d.ic_list : d.rec[s].frontendid = r.frontendid
                                          /\ SameApplication(d.rec[s], r)}
             shared == StateFromSameApplication(d, r)
             done == IF ShareState = "PerProgram"
                     THEN [r EXCEPT !.state = shared] ELSE r
  <1>1. d \in Instance /\ d.maxid["xim"] \in Nat /\ d.ic_list \subseteq Slots
    BY DEF Orderly, Instance, Frontends
  <1>2. state \in ContextState /\ id \in Nat  BY <1>1, StateForNewICType
  <1>3. AllTold(d) /\ FirstAsInactive => state # "closed"
    BY <1>1, NewStateOpen
  <1>4. XimNewRec(d, connection) = done  BY DEF XimNewRec
  <1>5. NewContext(d, done) /\ done.frontendid = "xim"
    BY <1>4, XimNewRecNew
  <1> HIDE DEF state, id
  <1>6. /\ r \in InputContextRec /\ r.frontendid = "xim"
        /\ r.app = connection /\ r.contextCaps = {} /\ r.state = state
    BY <1>2 DEF NullRec, InputContextRec, Frontends, ContextState
  <1> HIDE DEF r
  <1>7. /\ shared \in ContextState
        /\ same = {} => shared = r.state
        /\ same # {} => \E t \in same : d.rec[t].state = shared
    BY <1>1, <1>6, StateFromSameApplicationType, StateFromOpenApplication
  <1>8. AllTold(d) /\ FirstAsInactive => shared # "closed"
    BY <1>1, <1>3, <1>6, <1>7 DEF AllTold
  <1> HIDE DEF shared
  <1>9. /\ done.frontendid = r.frontendid /\ done.app = r.app
        /\ done.contextCaps = {}
        /\ ShareState = "PerProgram" => done.state = shared
        /\ AllTold(d) /\ FirstAsInactive => done.state # "closed"
    BY <1>3, <1>6, <1>7, <1>8 DEF InputContextRec
  <1> HIDE DEF done
  <1>10. ~Controls(done) /\ Told(done)
    BY <1>6, <1>9 DEF Controls, Told
  <1>11. ASSUME ShareState = "PerProgram", NEW s \in d.ic_list,
                d.rec[s].frontendid = done.frontendid,
                SameApplication(d.rec[s], done)
         PROVE  \E t \in d.ic_list : /\ d.rec[t].frontendid = done.frontendid
                                     /\ SameApplication(d.rec[t], done)
                                     /\ d.rec[t].state = done.state
    <2>1. s \in same  BY <1>9, <1>11 DEF SameApplication
    <2>2. PICK t \in same : d.rec[t].state = shared  BY <1>7, <2>1
    <2> QED  BY <1>9, <1>11, <2>2 DEF SameApplication
  <1> HIDE DEF same
  <1> QED  BY <1>4, <1>5, <1>9, <1>10, <1>11 DEF Joins

-----------------------------------------------------------------------------
(* The user's controls. *)

\* A step that respects the instance; nothing changes the state of no context.
Steady(d, e) ==
    /\ Respects(d, e)
    /\ d.ic_list = {} => e.globalState = d.globalState

\* A new list, and the click on the main window's icon, change the input method
\* whatever the state is.
Reselects(d, e) ==
    /\ \/ MainWindowIcon /\ e = SwitchIM(d, -1)
       \/ \E count \in 0 .. IMCount : \E current \in CurrentIndices(count) :
            e = UpdateIMList(d, count, current)
    /\ SameContexts(d, e)
    /\ e.clientPreedit = NoIC /\ e.codeInput = NoIC
    /\ FirstAsInactive => IMRange(e) /\ (e.imcount > 1 => e.iIMIndex # 0)

\* What a context affects depends on nothing a state change touches.
LEMMA SameAffected ==
    ASSUME NEW d \in Instance, NEW e, Frame(d, e), NEW ic \in d.ic_list, NEW foreign,
           \A s \in Slots : e.rec[s].app = d.rec[s].app
    PROVE  Affected(e, ic, foreign) = Affected(d, ic, foreign)
  <1>1. ic \in Slots /\ d.ic_list \subseteq Slots /\ e.ic_list = d.ic_list
    BY DEF Instance, Frame
  <1>2. \A s \in Slots : /\ e.rec[s].frontendid = d.rec[s].frontendid
                         /\ Controls(e.rec[s]) <=> Controls(d.rec[s])
                         /\ SameApplication(e.rec[s], e.rec[ic])
                              <=> SameApplication(d.rec[s], d.rec[ic])
    BY <1>1 DEF Frame, Controls, SameApplication
  <1>3. CASE ShareState = "All"
    BY <1>1, <1>2, <1>3 DEF Affected
  <1>4. CASE ShareState = "None"
    BY <1>1, <1>2, <1>4 DEF Affected
  <1>5. CASE ShareState = "PerProgram"
    <2> DEFINE G(r) ==
                 {s \in d.ic_list :
                    IF r[s].frontendid = r[ic].frontendid
                    THEN SameApplication(r[s], r[ic]) ELSE s \in foreign}
    <2>1. G(e.rec) = G(d.rec)  BY <1>1, <1>2
    <2>2. /\ Affected(e, ic, foreign) =
               {s \in G(e.rec) : s = ic \/ ~Controls(e.rec[s])}
          /\ Affected(d, ic, foreign) =
               {s \in G(d.rec) : s = ic \/ ~Controls(d.rec[s])}
      BY <1>1, <1>5 DEF Affected
    <2>3. G(d.rec) \subseteq Slots  BY <1>1
    <2> HIDE DEF G
    <2> QED  BY <1>2, <2>1, <2>2, <2>3
  <1> QED  BY <1>3, <1>4, <1>5, ConfigAssumption

\* fcitx-remote's "inactivate": the contexts just enabled are not closed.
LEMMA InactivateRespects ==
    ASSUME NEW d \in Instance, FocusOK(d), NEW ic \in d.ic_list, NEW foreign
    PROVE  Respects(d, ChangeIMState(EnableIM(d, ic, FALSE, foreign), ic, foreign))
  <1> DEFINE e == EnableIM(d, ic, FALSE, foreign)
             on == Affected(d, ic, foreign)
  <1>1. 0 \in Int /\ FALSE \in BOOLEAN  OBVIOUS
  <1>2. Respects(d, e)  BY <1>1, EnableIMRespects, Zenon
  <1>3. Turned(d, e, on, "active")  BY <1>1, EnableIMTurns, Zenon
  <1> HIDE DEF e
  <1>4. /\ e \in Instance /\ FocusOK(e) /\ ic \in e.ic_list
        /\ Affected(e, ic, foreign) = on
    BY <1>2, SameAffected DEF Respects, Keeps, Frame
  <1>5. on \subseteq Slots
    <2>1. d.ic_list \subseteq Slots  BY DEF Instance
    <2>2. CASE ShareState = "All"  BY <2>1, <2>2 DEF Affected
    <2>3. CASE ShareState = "None"  BY <2>1, <2>3 DEF Affected
    <2>4. CASE ShareState = "PerProgram"  BY <2>1, <2>4 DEF Affected
    <2> QED  BY <2>2, <2>3, <2>4, ConfigAssumption
  <1>6. \A s \in Affected(e, ic, foreign) : e.rec[s].state # "closed"
    BY <1>3, <1>4, <1>5 DEF Turned
  <1>7. Respects(e, ChangeIMState(e, ic, foreign))
    BY <1>4, <1>6, ChangeIMStateRespects
  <1> QED  BY <1>2, <1>7, RespectsTransitive DEF e

\* The menu selects an input method and then enables the context.
LEMMA SwitchThenEnableRespects ==
    ASSUME NEW d \in Instance, FocusOK(d), NEW ic \in d.ic_list, NEW foreign,
           NEW index \in Int, index >= -1
    PROVE  Respects(d, EnableIM(SwitchIM(d, index), ic, FALSE, foreign))
  <1> DEFINE e == SwitchIM(d, index)
             f == EnableIM(e, ic, FALSE, foreign)
             on == Affected(d, ic, foreign)
  <1>1. 0 \in Int /\ FALSE \in BOOLEAN  OBVIOUS
  <1>2. Switches(d, e) /\ (FirstAsInactive => IMRange(e))
    BY SwitchIMSwitches
  <1> HIDE DEF e
  <1>3. /\ SameContexts(d, e) /\ e \in Instance /\ TextKept(d, e)
        /\ e.ic_list = d.ic_list /\ e.rec = d.rec
    BY <1>2 DEF Switches, SameContexts, TextKept
  <1>4. Keeps(d, e)  BY <1>3, SameContextsKeeps
  <1>5. FocusOK(e) /\ ic \in e.ic_list /\ Affected(e, ic, foreign) = on
    BY <1>3, <1>4, SameAffected DEF Keeps
  <1>6. Respects(e, f)  BY <1>1, <1>3, <1>5, EnableIMRespects, Zenon
  <1>7. Turned(e, f, on, "active") /\ ToldKept(e, f, on)
    BY <1>1, <1>3, <1>5, EnableIMTurns, Zenon
  <1>8. SharedFirst(d) => SharedFirst(e)
    BY <1>3 DEF SharedFirst, Uncontrolled, Coherent, SameContexts
  <1>9. SharedFirst(d) => IMMatches(f) /\ IMSettled(d, f)
    <2>1. SharedFirst(d) => IMRange(e)  BY <1>2 DEF SharedFirst
    <2>2. SharedFirst(d) => IMMatches(f) /\ GetCurrentState(f) # "inactive"
      BY <1>1, <1>3, <1>5, <1>8, <2>1, EnableIMMatches, Zenon
    <2> QED  BY <2>2 DEF IMSettled
  <1> HIDE DEF f
  <1>10. Keeps(d, f)  BY <1>4, <1>6, KeepsTransitive DEF Respects
  <1>11. TextKept(d, f)  BY <1>3, <1>6 DEF Respects, TextKept
  <1>12. Turned(d, f, on, "active") /\ ToldKept(d, f, on)
    BY <1>3, <1>7 DEF Turned, ToldKept
  <1>13. Respects(d, f)  BY <1>9, <1>10, <1>11, <1>12, TurnedRespects
  <1> QED  BY <1>13 DEF e, f

LEMMA RemoteProcessEventSteady ==
    ASSUME Orderly(inst), inst.CurrentIC # NoIC, NEW cmd \in Commands,
           RemoteProcessEvent(cmd)
    PROVE  Steady(inst, inst')
  <1> DEFINE ic == inst.CurrentIC
  <1>1. inst \in Instance /\ FocusOK(inst) /\ ic \in inst.ic_list
    BY DEF Orderly, FocusOK
  <1>2. PICK foreign :
          \/ inst' = EnableIM(inst, ic, FALSE, foreign)
          \/ inst' = CloseIM(inst, ic, foreign)
          \/ inst' = ChangeIMState(EnableIM(inst, ic, FALSE, foreign), ic, foreign)
          \/ /\ GetCurrentStatev2(inst) # "closed"
             /\ inst' = ChangeIMState(inst, ic, foreign)
    BY DEF RemoteProcessEvent, Commands
  <1>3. 0 \in Int /\ FALSE \in BOOLEAN  OBVIOUS
  <1>4. Respects(inst, EnableIM(inst, ic, FALSE, foreign))
    BY <1>1, <1>3, EnableIMRespects, Zenon
  <1>5. Respects(inst, CloseIM(inst, ic, foreign))
    BY <1>1, CloseIMRespects
  <1>6. Respects(inst, ChangeIMState(EnableIM(inst, ic, FALSE, foreign), ic, foreign))
    BY <1>1, InactivateRespects
  <1>7. GetCurrentStatev2(inst) # "closed" =>
          Respects(inst, ChangeIMState(inst, ic, foreign))
    BY <1>1, ChangeCurrentRespects DEF GetCurrentStatev2
  <1> QED  BY <1>1, <1>2, <1>4, <1>5, <1>6, <1>7 DEF Steady

LEMMA ClickLogoSteady ==
    ASSUME Orderly(inst), inst.CurrentIC # NoIC, ClickLogo
    PROVE  Steady(inst, inst')
  <1> DEFINE ic == inst.CurrentIC
  <1>1. inst \in Instance /\ FocusOK(inst) /\ ic \in inst.ic_list
    BY DEF Orderly, FocusOK
  <1>2. PICK foreign : \/ inst' = EnableIM(inst, ic, FALSE, foreign)
                       \/ inst' = CloseIM(inst, ic, foreign)
    BY DEF ClickLogo
  <1>3. 0 \in Int /\ FALSE \in BOOLEAN  OBVIOUS
  <1>4. Respects(inst, EnableIM(inst, ic, FALSE, foreign))
    BY <1>1, <1>3, EnableIMRespects, Zenon
  <1>5. Respects(inst, CloseIM(inst, ic, foreign))  BY <1>1, CloseIMRespects
  <1> QED  BY <1>1, <1>2, <1>4, <1>5 DEF Steady

LEMMA IMMenuActionSteady ==
    ASSUME Orderly(inst), NEW index \in 0 .. IMCount - 1, IMMenuAction(index)
    PROVE  Steady(inst, inst')
  <1> DEFINE ic == inst.CurrentIC
             d == SwitchIM(inst, index)
  <1>1. inst \in Instance /\ FocusOK(inst) /\ ic \in inst.ic_list \union {NoIC}
    BY DEF Orderly, FocusOK
  <1>2. PICK foreign :
          \/ inst' = CloseIM(inst, ic, foreign)
          \/ GetCurrentState(d) # "active" /\ inst' = EnableIM(d, ic, FALSE, foreign)
          \/ GetCurrentState(d) = "active" /\ inst' = d
    BY DEF IMMenuAction
  <1>3. index \in Int /\ index >= -1  OBVIOUS
  <1>4. SameContexts(inst, d)  BY <1>1, <1>3, SwitchIMSame
  <1>5. GetCurrentState(d) = GetCurrentState(inst)
    BY <1>4 DEF SameContexts, GetCurrentState
  <1>6. CASE ic = NoIC
    <2>1. inst' = inst \/ inst' = d
      BY <1>2, <1>6 DEF CloseIM, EnableIM
    <2>2. Respects(inst, d)
      BY <1>1, <1>3, <1>6, SwitchIMRespects DEF GetCurrentState
    <2> HIDE DEF d
    <2> QED  BY <1>1, <1>4, <2>1, <2>2, RespectsItself DEF Steady, SameContexts
  <1>7. CASE ic # NoIC
    <2>1. ic \in inst.ic_list  BY <1>1, <1>7
    <2>2. Respects(inst, CloseIM(inst, ic, foreign))  BY <1>1, CloseIMRespects
    <2>3. Respects(inst, EnableIM(d, ic, FALSE, foreign))
      BY <1>1, <1>3, <2>1, SwitchThenEnableRespects
    <2>4. GetCurrentState(inst) = "active" => Respects(inst, d)
      BY <1>1, <1>3, SwitchIMRespects
    <2> HIDE DEF d
    <2> QED  BY <1>2, <1>5, <2>1, <2>2, <2>3, <2>4 DEF Steady
  <1> QED  BY <1>6, <1>7

LEMMA SwitchVKSteady ==
    ASSUME Orderly(inst), SwitchVK
    PROVE  Steady(inst, inst')
  <1> DEFINE ic == inst.CurrentIC
             d == CloseInputWindow(inst)
  <1>1. inst \in Instance /\ FocusOK(inst) /\ ic \in inst.ic_list \union {NoIC}
    BY DEF Orderly, FocusOK
  <1>2. PICK foreign : \/ ic # NoIC /\ inst' = EnableIM(d, ic, TRUE, foreign)
                       \/ inst' = d
    BY DEF SwitchVK
  <1>3. Quiet(inst, d)  BY <1>1, WindowQuiet
  <1> HIDE DEF d
  <1>4. Respects(inst, d)  BY <1>1, <1>3, QuietRespects
  <1>5. d \in Instance /\ FocusOK(d) /\ d.ic_list = inst.ic_list
          /\ d.globalState = inst.globalState
    BY <1>1, <1>3 DEF Quiet, SameContexts, FocusOK
  <1>6. 0 \in Int /\ TRUE \in BOOLEAN  OBVIOUS
  <1>7. Respects(d, EnableIM(d, ic, TRUE, foreign))
    BY <1>1, <1>5, <1>6, EnableIMRespects, Zenon
  <1>8. Respects(inst, EnableIM(d, ic, TRUE, foreign))
    BY <1>1, <1>4, <1>7, RespectsTransitive
  <1> QED  BY <1>1, <1>2, <1>4, <1>5, <1>8 DEF Steady

LEMMA NewListReselects ==
    ASSUME Orderly(inst), NEW count \in 0 .. IMCount,
           NEW current \in CurrentIndices(count),
           inst' = UpdateIMList(inst, count, current)
    PROVE  Reselects(inst, inst')
  <1> DEFINE e == UpdateIMList(inst, count, current)
  <1>1. inst \in Instance  BY DEF Orderly
  <1>2. /\ SameContexts(inst, e) /\ e.imcount = count
        /\ e.clientPreedit = NoIC /\ e.codeInput = NoIC
        /\ FirstAsInactive => IMRange(e) /\ (count > 1 => e.iIMIndex # 0)
    BY <1>1, UpdateIMListSwitches
  <1>3. inst' = e  OBVIOUS
  <1> QED  BY <1>2, <1>3 DEF Reselects

LEMMA ControlsNextSteady ==
    ASSUME Orderly(inst), ControlsNext
    PROVE  Steady(inst, inst') \/ Reselects(inst, inst')
  <1>1. CASE ClickIMIcon
    <2> DEFINE e == SwitchIM(inst, -1)
    <2>1. -1 \in Int /\ -1 >= -1 /\ inst \in Instance  BY DEF Orderly
    <2>2. /\ Switches(inst, e)
          /\ FirstAsInactive => IMRange(e) /\ (inst.imcount > 1 => e.iIMIndex # 0)
      BY <2>1, SwitchIMSwitches
    <2>3. MainWindowIcon /\ inst' = e  BY <1>1 DEF ClickIMIcon
    <2> QED  BY <2>2, <2>3 DEF Reselects, Switches
  <1>2. CASE ReloadConfig
    BY <1>2, NewListReselects DEF ReloadConfig
  <1> QED
    BY <1>1, <1>2, RemoteProcessEventSteady, ClickLogoSteady, IMMenuActionSteady,
       SwitchVKSteady DEF ControlsNext

-----------------------------------------------------------------------------
(* What an event does to the instance. *)

\* A context takes the focus without FocusIn: a key or a new context of the
\* XIM frontend while nobody has it, or XIMTriggerNotifyHandler.
Moves(d, e) ==
    /\ "xim" \in LoadedFrontends \/ ~KeysNeedFocus
    /\ \E ic \in d.ic_list :
         /\ Respects(SetCurrentIC(d, ic), e)
         /\ \/ d.CurrentIC = NoIC
            \/ /\ "xim" \in LoadedFrontends
               /\ ShowInputWindowTriggering => e.clientPreedit = NoIC

StepOf(d, e) ==
    \/ Steady(d, e)
    \/ Reselects(d, e)
    \/ Focuses(d, e)
    \/ Moves(d, e)
    \/ \E ic \in d.ic_list : Removes(d, e, ic)
    \/ \E ic \in d.ic_list, flags \in SUBSET ClientCaps : Reflags(d, e, ic, flags)
    \/ \E slot, r : /\ Joins(d, r) /\ r.frontendid \in LoadedFrontends
                    /\ Adds(d, e, slot, r)

LEMMA IPCProcessKeyStep ==
    ASSUME Orderly(inst), NEW ic \in inst.ic_list, NEW key, IPCProcessKey(ic, key)
    PROVE  StepOf(inst, inst')
  <1> DEFINE moved == SetCurrentIC(inst, ic)
             d == IF inst.CurrentIC = NoIC THEN moved ELSE inst
  <1>1. inst \in Instance /\ FocusOK(inst)  BY DEF Orderly
  <1>2. /\ inst.CurrentIC = NoIC => ~KeysNeedFocus
        /\ \/ \E foreign : inst' = EnableIM(d, ic, FALSE, foreign)
           \/ \E foreign : inst' = ProcessKey(d, key, foreign)
    BY DEF IPCProcessKey
  <1>3. SameStates(inst, moved) /\ moved.CurrentIC = ic
    BY <1>1, SetCurrentICSame
  <1>4. inst.CurrentIC = NoIC => d = moved  OBVIOUS
  <1>5. inst.CurrentIC # NoIC => d = inst  OBVIOUS
  <1> HIDE DEF moved, d
  <1>6. d \in Instance /\ FocusOK(d) /\ ic \in d.ic_list
    BY <1>1, <1>3, <1>4, <1>5 DEF SameStates, FocusOK
  <1>7. Respects(d, inst')
    <2>1. ASSUME NEW foreign, inst' = EnableIM(d, ic, FALSE, foreign)
          PROVE  Respects(d, inst')
      <3>1. 0 \in Int /\ FALSE \in BOOLEAN  OBVIOUS
      <3>2. Respects(d, EnableIM(d, ic, FALSE, foreign))
        BY <1>6, <3>1, EnableIMRespects, Zenon
      <3> QED  BY <2>1, <3>2
    <2>2. ASSUME NEW foreign, inst' = ProcessKey(d, key, foreign)
          PROVE  Respects(d, inst')
      BY <1>6, <2>2, ProcessKeyRespects
    <2> QED  BY <1>2, <2>1, <2>2
  <1>8. CASE inst.CurrentIC = NoIC
    <2>1. Respects(moved, inst') /\ ~KeysNeedFocus
      BY <1>2, <1>4, <1>7, <1>8
    <2>2. Moves(inst, inst')  BY <1>8, <2>1 DEF Moves, moved
    <2> QED  BY <2>2 DEF StepOf
  <1>9. CASE inst.CurrentIC # NoIC
    <2>1. Respects(inst, inst')  BY <1>5, <1>7, <1>9
    <2>2. Steady(inst, inst')  BY <1>1, <1>9, <2>1 DEF Steady, FocusOK
    <2> QED  BY <2>2 DEF StepOf
  <1> QED  BY <1>8, <1>9

\* A respectful step of a client's context.
LEMMA RespectsStep ==
    ASSUME NEW ic \in inst.ic_list, Respects(inst, inst')
    PROVE  StepOf(inst, inst')
  BY DEF Steady, StepOf

LEMMA IpcNextStep ==
    ASSUME Orderly(inst), "ipc" \in LoadedFrontends, IpcNext
    PROVE  StepOf(inst, inst')
  <1>1. inst \in Instance /\ FocusOK(inst)  BY DEF Orderly
  <1>2. ASSUME NEW version \in ClientVersions, NEW app \in Apps \union {NoApp},
               IPCCreateIC(version, app)
        PROVE  StepOf(inst, inst')
    <2> DEFINE r == IPCNewRec(inst, version, app)
    <2>1. PICK slot \in FreshSlots(inst) :
            inst' = [CreateIC(inst, slot, r) EXCEPT !.maxid["ipc"] = @ + 1]
      BY <1>2 DEF IPCCreateIC
    <2>2. Joins(inst, r) /\ r.frontendid = "ipc"  BY IPCNewRecJoins
    <2> HIDE DEF r
    <2>3. r \in InputContextRec /\ "ipc" \in Frontends
      BY <2>2 DEF Joins, NewContext, Frontends
    <2>4. Adds(inst, inst', slot, r)  BY <2>1, <2>3, CreateICAdds
    <2> QED  BY <2>2, <2>4 DEF StepOf
  <1>3. ASSUME NEW id \in 0 .. MaxId - 1, IPCCall(id)
        PROVE  StepOf(inst, inst')
    <2> DEFINE ic == FindIC(inst, "ipc", id)
    <2>1. ic \in inst.ic_list  BY <1>3, FindICListed DEF IPCCall
    <2>2. \/ IPCEnableIC(ic)
          \/ IPCCloseIC(ic)
          \/ IPCICFocusIn(ic)
          \/ IPCICFocusOut(ic)
          \/ IPCICReset(ic)
          \/ \E flags \in SUBSET ClientCaps : IPCSetCapacity(ic, flags)
          \/ IPCDestroyIC(ic)
          \/ \E key \in Keys : IPCProcessKey(ic, key)
      BY <1>3 DEF IPCCall
    <2> HIDE DEF ic
    <2>3. CASE IPCEnableIC(ic)
      <3>1. PICK foreign : inst' = EnableIM(inst, ic, FALSE, foreign)
        BY <2>3 DEF IPCEnableIC
      <3>2. 0 \in Int /\ FALSE \in BOOLEAN  OBVIOUS
      <3>3. Respects(inst, EnableIM(inst, ic, FALSE, foreign))
        BY <1>1, <2>1, <3>2, EnableIMRespects, Zenon
      <3> QED  BY <2>1, <3>1, <3>3, RespectsStep
    <2>4. CASE IPCCloseIC(ic)
      BY <1>1, <2>1, <2>4, CloseIMRespects, RespectsStep DEF IPCCloseIC
    <2>5. CASE IPCICFocusIn(ic)
      <3>1. Respects(inst, inst') \/ Focuses(inst, inst')
        BY <1>1, <2>1, <2>5, FocusInFocuses DEF IPCICFocusIn
      <3> QED  BY <2>1, <3>1, RespectsStep DEF StepOf
    <2>6. CASE IPCICFocusOut(ic)
      BY <1>1, <2>6, FocusOutFocuses DEF IPCICFocusOut, StepOf
    <2>7. CASE IPCICReset(ic)
      <3> DEFINE w == CloseInputWindow(inst)
      <3>1. Quiet(inst, w)  BY <1>1, WindowQuiet
      <3>2. inst' = ResetInput(w)  BY <2>7 DEF IPCICReset
      <3> HIDE DEF w
      <3>3. Quiet(w, inst')  BY <3>1, <3>2, WindowQuiet DEF Quiet, SameContexts
      <3>4. Respects(inst, inst')
        BY <1>1, <3>1, <3>3, QuietTransitive, QuietRespects
      <3> QED  BY <2>1, <3>4, RespectsStep
    <2>8. ASSUME NEW flags \in SUBSET ClientCaps, IPCSetCapacity(ic, flags)
          PROVE  StepOf(inst, inst')
      <3>1. flags \in SUBSET Capacity  BY IpcAssumption
      <3>2. Reflags(inst, inst', ic, flags)
        BY <1>1, <2>1, <2>8, <3>1, SetCapacityReflags DEF IPCSetCapacity
      <3> QED  BY <2>1, <3>2 DEF StepOf
    <2>9. CASE IPCDestroyIC(ic)
      BY <1>1, <2>1, <2>9, DestroyICRemoves DEF IPCDestroyIC, StepOf
    <2>10. CASE \E key \in Keys : IPCProcessKey(ic, key)
      BY <2>1, <2>10, IPCProcessKeyStep
    <2> QED  BY <2>2, <2>3, <2>4, <2>5, <2>6, <2>7, <2>8, <2>9, <2>10
  <1>4. CASE IPCSetPropertyIMList
    BY <1>4, NewListReselects DEF IPCSetPropertyIMList, StepOf
  <1> QED  BY <1>2, <1>3, <1>4 DEF IpcNext

LEMMA XIMCreateICStep ==
    ASSUME Orderly(inst), "xim" \in LoadedFrontends, NEW connection \in Apps,
           XIMCreateICHandler(connection)
    PROVE  StepOf(inst, inst')
  <1> DEFINE r == XimNewRec(inst, connection)
             d(slot) == [CreateIC(inst, slot, r) EXCEPT !.maxid["xim"] = @ + 1]
  <1>1. PICK slot \in FreshSlots(inst) :
          inst' = IF d(slot).CurrentIC = NoIC THEN SetCurrentIC(d(slot), slot)
                                              ELSE d(slot)
    BY DEF XIMCreateICHandler
  <1>2. Joins(inst, r) /\ r.frontendid = "xim"  BY XimNewRecJoins
  <1> DEFINE e == d(slot)
             f == SetCurrentIC(e, slot)
  <1> HIDE DEF r
  <1>3. r \in InputContextRec /\ "xim" \in Frontends
    BY <1>2 DEF Joins, NewContext, Frontends
  <1>4. Adds(inst, e, slot, r) /\ e.CurrentIC = inst.CurrentIC
    BY <1>3, CreateICAdds
  <1>5. inst' = IF e.CurrentIC = NoIC THEN f ELSE e  BY <1>1
  <1> HIDE DEF e
  <1>6. e \in Instance /\ slot \in e.ic_list  BY <1>4 DEF Adds
  <1>7. /\ SameStates(e, f) /\ f.CurrentIC = slot
        /\ f.iIMIndex = e.iIMIndex /\ f.lastIMIndex = e.lastIMIndex
        /\ f.clientPreedit = e.clientPreedit /\ f.codeInput = e.codeInput
    BY <1>6, SetCurrentICSame
  <1> HIDE DEF f
  <1>8. e.CurrentIC = NoIC => Adds(inst, f, slot, r)
    BY <1>2, <1>4, <1>7 DEF Adds, SameStates
  <1>9. Adds(inst, inst', slot, r)  BY <1>4, <1>5, <1>8
  <1> QED  BY <1>2, <1>9 DEF StepOf

LEMMA XIMTriggerNotifyStep ==
    ASSUME Orderly(inst), "xim" \in LoadedFrontends, NEW ic \in inst.ic_list,
           XIMTriggerNotifyHandler(ic)
    PROVE  StepOf(inst, inst')
  <1> DEFINE d == SetCurrentIC(inst, ic)
  <1>1. inst \in Instance  BY DEF Orderly
  <1>2. PICK foreign : inst' = ShowInputSpeed(EnableIM(d, ic, FALSE, foreign))
    BY DEF XIMTriggerNotifyHandler
  <1> DEFINE e == EnableIM(d, ic, FALSE, foreign)
  <1>3. inst' = ShowInputSpeed(e)  BY <1>2
  <1>4. SameStates(inst, d) /\ d.CurrentIC = ic  BY <1>1, SetCurrentICSame
  <1>5. 0 \in Int /\ FALSE \in BOOLEAN  OBVIOUS
  <1>6. d \in Instance /\ FocusOK(d) /\ ic \in d.ic_list
    BY <1>4 DEF SameStates, FocusOK
  <1>7. Respects(d, e)
    <2> HIDE DEF d
    <2> QED  BY <1>5, <1>6, EnableIMRespects, Zenon
  <1> HIDE DEF e
  <1>8. e \in Instance  BY <1>7 DEF Respects, Keeps, Frame
  <1>9. /\ Quiet(e, inst')
        /\ ShowInputWindowTriggering => inst'.clientPreedit = NoIC
    BY <1>3, <1>8, ShownQuiet
  <1>10. Respects(d, inst')
    <2> HIDE DEF d
    <2> QED  BY <1>6, <1>7, <1>9, RespectsQuiet
  <1>11. Moves(inst, inst')  BY <1>9, <1>10 DEF Moves
  <1> QED  BY <1>11 DEF StepOf

LEMMA XIMProcessKeyStep ==
    ASSUME Orderly(inst), "xim" \in LoadedFrontends, NEW id, NEW key,
           XIMProcessKey(id, key)
    PROVE  StepOf(inst, inst')
  <1> DEFINE found == FindIC(inst, "xim", id)
             moved == SetCurrentIC(inst, found)
             d == IF inst.CurrentIC = NoIC THEN moved ELSE inst
             ic == IF d.CurrentIC # NoIC /\ CurrentXimId(d) = id
                   THEN d.CurrentIC ELSE found
  <1>1. inst \in Instance /\ FocusOK(inst)  BY DEF Orderly
  <1>2. found \in inst.ic_list \union {NoIC}  BY FindICListed
  <1>3. /\ d.CurrentIC # NoIC /\ ic # NoIC
        /\ \/ \E foreign : inst' = ProcessKey(d, key, foreign)
           \/ \E foreign : inst' = EnableIM(d, ic, FALSE, foreign)
           \/ inst' = d
    BY DEF XIMProcessKey
  <1> HIDE DEF found
  <1>4. SameStates(inst, moved) /\ moved.CurrentIC = found
    BY <1>1, <1>2, SetCurrentICSame
  <1>5. inst.CurrentIC = NoIC => d = moved  OBVIOUS
  <1>6. inst.CurrentIC # NoIC => d = inst  OBVIOUS
  <1>7. ic \in {d.CurrentIC, found}  OBVIOUS
  <1> HIDE DEF moved, d, ic
  <1>8. d \in Instance /\ FocusOK(d) /\ d.ic_list = inst.ic_list
    BY <1>1, <1>2, <1>4, <1>5, <1>6 DEF SameStates, FocusOK
  <1>9. ic \in d.ic_list  BY <1>2, <1>3, <1>7, <1>8 DEF FocusOK
  <1>10. Respects(d, inst')
    <2>1. ASSUME NEW foreign, inst' = EnableIM(d, ic, FALSE, foreign)
          PROVE  Respects(d, inst')
      <3>1. 0 \in Int /\ FALSE \in BOOLEAN  OBVIOUS
      <3>2. Respects(d, EnableIM(d, ic, FALSE, foreign))
        BY <1>8, <1>9, <3>1, EnableIMRespects, Zenon
      <3> QED  BY <2>1, <3>2
    <2>2. ASSUME NEW foreign, inst' = ProcessKey(d, key, foreign)
          PROVE  Respects(d, inst')
      BY <1>8, <2>2, ProcessKeyRespects
    <2>3. inst' = d => Respects(d, inst')  BY <1>8, RespectsItself
    <2> QED  BY <1>3, <2>1, <2>2, <2>3
  <1>11. CASE inst.CurrentIC = NoIC
    <2>1. Respects(moved, inst') /\ found \in inst.ic_list
      BY <1>2, <1>3, <1>4, <1>5, <1>10, <1>11
    <2>2. Moves(inst, inst')  BY <1>11, <2>1 DEF Moves, moved
    <2> QED  BY <2>2 DEF StepOf
  <1>12. CASE inst.CurrentIC # NoIC
    BY <1>6, <1>8, <1>9, <1>10, <1>12, RespectsStep
  <1> QED  BY <1>11, <1>12

LEMMA XimNextStep ==
    ASSUME Orderly(inst), "xim" \in LoadedFrontends, XimNext
    PROVE  StepOf(inst, inst')
  <1>1. inst \in Instance  BY DEF Orderly
  <1>2. CASE \E connection \in Apps : XIMCreateICHandler(connection)
    BY <1>2, XIMCreateICStep
  <1>3. CASE XIMCloseHandler
    <2>1. Quiet(inst, inst')  BY <1>1, <1>3, WindowQuiet DEF XIMCloseHandler
    <2>2. Steady(inst, inst')
      BY <1>1, <2>1, QuietRespects DEF Steady, Quiet, SameContexts
    <2> QED  BY <2>2 DEF StepOf
  <1>4. ASSUME NEW id \in 1 .. MaxId,
               \/ XIMDestroyICHandler(FindIC(inst, "xim", id))
               \/ XIMSetFocusHandler(FindIC(inst, "xim", id))
               \/ XIMUnsetFocusHandler(id)
               \/ XIMTriggerNotifyHandler(FindIC(inst, "xim", id))
               \/ \E key \in Keys : XIMProcessKey(id, key)
        PROVE  StepOf(inst, inst')
    <2> DEFINE ic == FindIC(inst, "xim", id)
    <2>1. ic # NoIC => ic \in inst.ic_list  BY FindICListed
    <2>2. \/ XIMDestroyICHandler(ic)
          \/ XIMSetFocusHandler(ic)
          \/ XIMUnsetFocusHandler(id)
          \/ XIMTriggerNotifyHandler(ic)
          \/ \E key \in Keys : XIMProcessKey(id, key)
      BY <1>4
    <2> HIDE DEF ic
    <2>3. CASE XIMDestroyICHandler(ic)
      BY <1>1, <2>1, <2>3, DestroyICRemoves DEF XIMDestroyICHandler, StepOf
    <2>4. CASE XIMSetFocusHandler(ic)
      <3>1. ic \in inst.ic_list  BY <2>1, <2>4 DEF XIMSetFocusHandler
      <3>2. Respects(inst, inst') \/ Focuses(inst, inst')
        BY <1>1, <2>4, <3>1, FocusInFocuses DEF XIMSetFocusHandler
      <3> QED  BY <3>1, <3>2, RespectsStep DEF StepOf
    <2>5. CASE XIMUnsetFocusHandler(id)
      BY <1>1, <2>5, FocusOutFocuses DEF XIMUnsetFocusHandler, StepOf
    <2>6. CASE XIMTriggerNotifyHandler(ic)
      <3>1. ic # NoIC  BY <2>6 DEF XIMTriggerNotifyHandler
      <3> QED  BY <2>1, <2>6, <3>1, XIMTriggerNotifyStep
    <2>7. CASE \E key \in Keys : XIMProcessKey(id, key)
      BY <2>7, XIMProcessKeyStep
    <2> QED  BY <2>2, <2>3, <2>4, <2>5, <2>6, <2>7
  <1> QED  BY <1>2, <1>3, <1>4 DEF XimNext

LEMMA EventStep ==
    ASSUME Orderly(inst), Event
    PROVE  StepOf(inst, inst')
  <1>1. CASE "ipc" \in LoadedFrontends /\ IpcNext  BY <1>1, IpcNextStep
  <1>2. CASE "xim" \in LoadedFrontends /\ XimNext  BY <1>2, XimNextStep
  <1>3. CASE ControlsNext  BY <1>3, ControlsNextSteady DEF StepOf
  <1> QED  BY <1>1, <1>2, <1>3 DEF Event

-----------------------------------------------------------------------------
(* What a step keeps, kind by kind. *)

LEMMA MovesOver ==
    ASSUME NEW d \in Instance, NEW e, Moves(d, e)
    PROVE  \E m \in Instance :
             /\ SameStates(d, m) /\ Respects(m, e)
             /\ m.clientPreedit = d.clientPreedit
             /\ \/ d.CurrentIC = NoIC
                \/ /\ "xim" \in LoadedFrontends
                   /\ ShowInputWindowTriggering => e.clientPreedit = NoIC
  <1>1. PICK ic \in d.ic_list :
          /\ Respects(SetCurrentIC(d, ic), e)
          /\ \/ d.CurrentIC = NoIC
             \/ /\ "xim" \in LoadedFrontends
                /\ ShowInputWindowTriggering => e.clientPreedit = NoIC
    BY DEF Moves
  <1> DEFINE m == SetCurrentIC(d, ic)
  <1>2. SameStates(d, m) /\ m.clientPreedit = d.clientPreedit
    BY SetCurrentICSame
  <1>3. m \in Instance /\ Respects(m, e)  BY <1>1, <1>2 DEF SameStates
  <1> HIDE DEF m
  <1> QED  BY <1>1, <1>2, <1>3

\* A D-Bus or XIM context is of a frontend that was loaded.
FromLoaded(d) == \A s \in d.ic_list : d.rec[s].frontendid \in LoadedFrontends

\* Steps keep the frontends, and without a client that asks for control no
\* context gets it.
LEMMA StepKeepsOwners ==
    ASSUME NEW d, Orderly(d), NEW e, StepOf(d, e)
    PROVE  /\ FromLoaded(d) => FromLoaded(e)
           /\ Uncontrolled(d) /\ 1 \notin ClientVersions /\ "control" \notin ClientCaps
                => Uncontrolled(e)
  <1>1. d \in Instance /\ d.ic_list \subseteq Slots  BY DEF Orderly, Instance
  <1> DEFINE Goal == /\ FromLoaded(d) => FromLoaded(e)
                     /\ Uncontrolled(d) /\ 1 \notin ClientVersions
                          /\ "control" \notin ClientCaps => Uncontrolled(e)
  <1>2. ASSUME NEW m, m.rec = d.rec, m.ic_list = d.ic_list, Frame(m, e)
        PROVE  Goal
    BY <1>1, <1>2 DEF Frame, FromLoaded, Uncontrolled, Controls
  <1>3. CASE Steady(d, e)  BY <1>2, <1>3 DEF Steady, Respects, Keeps
  <1>4. CASE Reselects(d, e) \/ Focuses(d, e)
    <2>1. e.rec = d.rec /\ e.ic_list = d.ic_list
      BY <1>4 DEF Reselects, Focuses, SameContexts, SameStates
    <2> QED  BY <2>1 DEF FromLoaded, Uncontrolled
  <1>5. CASE Moves(d, e)
    BY <1>1, <1>2, <1>5, MovesOver DEF SameStates, Respects, Keeps
  <1>6. ASSUME NEW ic \in d.ic_list, Removes(d, e, ic) PROVE Goal
    BY <1>6 DEF Removes, FromLoaded, Uncontrolled
  <1>7. ASSUME NEW ic, NEW flags \in SUBSET ClientCaps, Reflags(d, e, ic, flags)
        PROVE  Goal
    BY <1>1, <1>7 DEF Reflags, FromLoaded, Uncontrolled, Controls
  <1>8. ASSUME NEW slot, NEW r, Joins(d, r), r.frontendid \in LoadedFrontends,
               Adds(d, e, slot, r)
        PROVE  Goal
    BY <1>8 DEF Adds, Joins, FromLoaded, Uncontrolled
  <1> QED  BY <1>3, <1>4, <1>5, <1>6, <1>7, <1>8 DEF StepOf

\* The contexts of a program stay together.
LEMMA StepKeepsPrograms ==
    ASSUME NEW d, Orderly(d), NEW e, StepOf(d, e), FromLoaded(d),
           NEW f, LoadedFrontends \subseteq {f},
           NEW C, ShareState = "PerProgram", AppCovers(d, C), Together(d, C)
    PROVE  Together(e, C)
  <1>1. d \in Instance /\ d.ic_list \subseteq Slots  BY DEF Orderly, Instance
  <1>2. ProgramGroups(d, C)
    BY DEF ProgramGroups, OneFrontend, FromLoaded
  <1>3. CASE Steady(d, e)  BY <1>2, <1>3 DEF Steady, Respects
  <1>4. CASE Reselects(d, e) \/ Focuses(d, e)
    <2>1. e.rec = d.rec /\ e.ic_list = d.ic_list
      BY <1>4 DEF Reselects, Focuses, SameContexts, SameStates
    <2> QED  BY <2>1 DEF Together
  <1>5. CASE Moves(d, e)
    <2>1. PICK m \in Instance : SameStates(d, m) /\ Respects(m, e)
      BY <1>1, <1>5, MovesOver
    <2>2. ProgramGroups(m, C)
      BY <1>2, <2>1
         DEF SameStates, ProgramGroups, OneFrontend, AppCovers, Together
    <2> QED  BY <2>1, <2>2 DEF Respects
  <1>6. ASSUME NEW ic \in d.ic_list, Removes(d, e, ic) PROVE Together(e, C)
    BY <1>6 DEF Removes, Together
  <1>7. ASSUME NEW ic, NEW flags, Reflags(d, e, ic, flags) PROVE Together(e, C)
    BY <1>1, <1>7 DEF Reflags, Together, SameApplication
  <1>8. ASSUME NEW slot, NEW r, Joins(d, r), r.frontendid \in LoadedFrontends,
               Adds(d, e, slot, r)
        PROVE  Together(e, C)
    <2>1. /\ e.ic_list = d.ic_list \union {slot} /\ slot \notin d.ic_list
          /\ e.rec[slot] = r /\ \A s \in d.ic_list : e.rec[s] = d.rec[s]
      BY <1>8 DEF Adds
    <2>2. \A s \in d.ic_list : d.rec[s].frontendid = r.frontendid
      BY <1>8 DEF FromLoaded
    <2>3. ASSUME NEW s \in d.ic_list, SameApplication(d.rec[s], r),
                 d.rec[s].app \notin C
          PROVE  d.rec[s].state = r.state
      <3>1. PICK t \in d.ic_list : /\ SameApplication(d.rec[t], r)
                                   /\ d.rec[t].state = r.state
        BY <1>8, <2>2, <2>3 DEF Joins
      <3>2. SameApplication(d.rec[s], d.rec[t])
        BY <2>3, <3>1 DEF SameApplication
      <3> QED  BY <2>3, <3>1, <3>2 DEF Together
    <2>4. \A r1, r2 : SameApplication(r1, r2) =>
                        SameApplication(r2, r1) /\ r1.app = r2.app
      BY DEF SameApplication
    <2>5. ASSUME NEW s \in e.ic_list, NEW t \in e.ic_list,
                 SameApplication(e.rec[s], e.rec[t]), e.rec[s].app \notin C
          PROVE  e.rec[s].state = e.rec[t].state
      <3>1. CASE s = slot /\ t = slot  BY <3>1
      <3>2. CASE s = slot /\ t # slot
        <4>1. t \in d.ic_list /\ e.rec[t] = d.rec[t] /\ e.rec[s] = r
          BY <2>1, <3>2
        <4>2. SameApplication(d.rec[t], r) /\ d.rec[t].app \notin C
          BY <2>4, <2>5, <4>1
        <4> QED  BY <2>3, <4>1, <4>2
      <3>3. CASE s # slot /\ t = slot
        <4>1. s \in d.ic_list /\ e.rec[s] = d.rec[s] /\ e.rec[t] = r
          BY <2>1, <3>3
        <4> QED  BY <2>3, <2>5, <4>1
      <3>4. CASE s # slot /\ t # slot
        <4>1. /\ s \in d.ic_list /\ t \in d.ic_list
              /\ e.rec[s] = d.rec[s] /\ e.rec[t] = d.rec[t]
          BY <2>1, <3>4
        <4> QED  BY <2>5, <4>1 DEF Together
      <3> QED  BY <3>1, <3>2, <3>3, <3>4
    <2> QED  BY <2>5 DEF Together
  <1> QED  BY <1>3, <1>4, <1>5, <1>6, <1>7, <1>8 DEF StepOf

\* Clients stay informed.
LEMMA StepKeepsTold ==
    ASSUME NEW d, Orderly(d), NEW e, StepOf(d, e), ToldGroups(d),
           1 \notin ClientVersions
    PROVE  AllTold(e)
  <1>1. d \in Instance /\ d.ic_list \subseteq Slots  BY DEF Orderly, Instance
  <1>2. AllTold(d)  BY DEF ToldGroups
  <1>3. CASE Steady(d, e)  BY <1>3 DEF Steady, Respects
  <1>4. CASE Reselects(d, e) \/ Focuses(d, e)
    <2>1. /\ e.rec = d.rec /\ e.ic_list = d.ic_list
          /\ e.globalState = d.globalState
      BY <1>4 DEF Reselects, Focuses, SameContexts, SameStates
    <2> QED  BY <1>2, <2>1 DEF AllTold
  <1>5. CASE Moves(d, e)
    <2>1. PICK m \in Instance : SameStates(d, m) /\ Respects(m, e)
      BY <1>1, <1>5, MovesOver
    <2>2. ToldGroups(m)
      BY <2>1 DEF SameStates, ToldGroups, Uncontrolled, Coherent, OneFrontend,
                  Together, AllTold
    <2> QED  BY <2>1, <2>2 DEF Respects
  <1>6. ASSUME NEW ic \in d.ic_list, Removes(d, e, ic) PROVE AllTold(e)
    BY <1>2, <1>6 DEF Removes, AllTold
  <1>7. ASSUME NEW ic, NEW flags, Reflags(d, e, ic, flags) PROVE AllTold(e)
    BY <1>1, <1>2, <1>7 DEF Reflags, AllTold, Told
  <1>8. ASSUME NEW slot, NEW r, Joins(d, r), Adds(d, e, slot, r)
        PROVE  AllTold(e)
    <2>1. Told(r) /\ (FirstAsInactive => r.state # "closed")
      BY <1>2, <1>8 DEF Joins
    <2> QED  BY <1>2, <1>8, <2>1 DEF Adds, AllTold
  <1> QED  BY <1>3, <1>4, <1>5, <1>6, <1>7, <1>8 DEF StepOf

\* The preedit on display stays the current context's.
PreeditOwned(d) == d.clientPreedit \in {NoIC, d.CurrentIC}

LEMMA StepKeepsPreedit ==
    ASSUME NEW d, Orderly(d), NEW e, StepOf(d, e), PreeditOwned(d),
           "xim" \in LoadedFrontends => ShowInputWindowTriggering
    PROVE  PreeditOwned(e)
  <1>1. d \in Instance /\ NoIC \notin d.ic_list
    BY SlotsAssumption DEF Orderly, Instance
  <1>2. CASE Steady(d, e) \/ Reselects(d, e)
    BY <1>2 DEF Steady, Respects, Reselects, TextKept, PreeditOwned
  <1>3. CASE Focuses(d, e)  BY <1>3 DEF Focuses, PreeditOwned
  <1>4. CASE Moves(d, e)
    <2>1. PICK m \in Instance :
            /\ Respects(m, e) /\ m.clientPreedit = d.clientPreedit
            /\ \/ d.CurrentIC = NoIC
               \/ /\ "xim" \in LoadedFrontends
                  /\ ShowInputWindowTriggering => e.clientPreedit = NoIC
      BY <1>1, <1>4, MovesOver
    <2>2. CASE d.CurrentIC = NoIC
      BY <2>1, <2>2 DEF Respects, TextKept, PreeditOwned
    <2>3. CASE "xim" \in LoadedFrontends /\ e.clientPreedit = NoIC
      BY <2>3 DEF PreeditOwned
    <2> QED  BY <2>1, <2>2, <2>3
  <1>5. ASSUME NEW ic \in d.ic_list, Removes(d, e, ic) PROVE PreeditOwned(e)
    BY <1>1, <1>5 DEF Removes, PreeditOwned
  <1>6. ASSUME NEW ic, NEW flags, Reflags(d, e, ic, flags) PROVE PreeditOwned(e)
    BY <1>6 DEF Reflags, PreeditOwned
  <1>7. ASSUME NEW slot, NEW r, Adds(d, e, slot, r) PROVE PreeditOwned(e)
    BY <1>7 DEF Adds, PreeditOwned
  <1> QED  BY <1>2, <1>3, <1>4, <1>5, <1>6, <1>7 DEF StepOf

\* The buffer stays the current context's, as long as the focus is only ever
\* moved by FocusIn.
BufferOwned(d) == d.CurrentIC # NoIC => d.codeInput \in {NoIC, d.CurrentIC}

LEMMA StepKeepsBuffer ==
    ASSUME NEW d, Orderly(d), NEW e, StepOf(d, e), BufferOwned(d),
           "xim" \notin LoadedFrontends, KeysNeedFocus
    PROVE  BufferOwned(e)
  <1>1. d \in Instance /\ NoIC \notin d.ic_list
    BY SlotsAssumption DEF Orderly, Instance
  <1>2. CASE Steady(d, e) \/ Reselects(d, e)
    BY <1>2 DEF Steady, Respects, Reselects, TextKept, BufferOwned
  <1>3. CASE Focuses(d, e)  BY <1>3 DEF Focuses, BufferOwned
  <1>4. ~Moves(d, e)  BY DEF Moves
  <1>5. ASSUME NEW ic \in d.ic_list, Removes(d, e, ic) PROVE BufferOwned(e)
    BY <1>1, <1>5 DEF Removes, BufferOwned
  <1>6. ASSUME NEW ic, NEW flags, Reflags(d, e, ic, flags) PROVE BufferOwned(e)
    BY <1>6 DEF Reflags, BufferOwned
  <1>7. ASSUME NEW slot, NEW r, r.frontendid \in LoadedFrontends, Adds(d, e, slot, r)
        PROVE  BufferOwned(e)
    BY <1>7 DEF Adds, BufferOwned
  <1> QED  BY <1>2, <1>3, <1>4, <1>5, <1>6, <1>7 DEF StepOf

\* The input method stays matched to the state of the current context.
LEMMA StepKeepsMatch ==
    ASSUME NEW d, Orderly(d), NEW e, StepOf(d, e), SharedFirst(d), IMMatches(d),
           "xim" \notin LoadedFrontends, KeysNeedFocus
    PROVE  IMMatches(e) /\ (IMSettled(d, e) \/ Reselects(d, e))
  <1>1. /\ d \in Instance /\ NoIC \notin d.ic_list
        /\ d.CurrentIC \in d.ic_list \union {NoIC} /\ d.ic_list \subseteq Slots
    BY SlotsAssumption DEF Orderly, Instance, FocusOK
  <1>2. CASE Steady(d, e)  BY <1>2 DEF Steady, Respects
  <1>3. ~Moves(d, e)  BY DEF Moves
  <1>4. CASE Focuses(d, e)
    BY <1>4 DEF Focuses, SharedFirst, IMMatches, IMActive, IMSettled, IMFits
  <1>5. ASSUME NEW ic \in d.ic_list, Removes(d, e, ic)
        PROVE  IMMatches(e) /\ IMSettled(d, e)
    BY <1>1, <1>5
       DEF Removes, IMMatches, IMRange, IMActive, IMSettled, GetCurrentState
  <1>6. ASSUME NEW ic, NEW flags, Reflags(d, e, ic, flags)
        PROVE  IMMatches(e) /\ IMSettled(d, e)
    BY <1>1, <1>6
       DEF Reflags, IMMatches, IMRange, IMActive, IMSettled, GetCurrentState
  <1>7. ASSUME NEW slot, NEW r, r.frontendid \in LoadedFrontends, Adds(d, e, slot, r)
        PROVE  IMMatches(e) /\ IMSettled(d, e)
    BY <1>1, <1>7
       DEF Adds, IMMatches, IMRange, IMActive, IMSettled, GetCurrentState
  <1>8. CASE Reselects(d, e)
    BY <1>8 DEF Reselects, SharedFirst, IMMatches, IMActive
  <1> QED  BY <1>2, <1>3, <1>4, <1>5, <1>6, <1>7, <1>8 DEF StepOf

-----------------------------------------------------------------------------
(* The theorems.  Each property has an inductive invariant of its own,     *)
(* beside IInv, which gives the order of the lists and the focus.          *)

LEMMA StepFromNext ==
    ASSUME IInv, Next
    PROVE  /\ Orderly(inst) /\ StepOf(inst, inst')
           /\ Advances(inst, inst')
           /\ controlled' = (controlled \ (Slots \ inst'.ic_list))
                              \union ControlledNow(inst')
  BY EventStep, EventAdvances DEF IInv, Next

LEMMA InitFacts ==
    ASSUME Init
    PROVE  /\ inst \in Instance
           /\ inst.ic_list = {} /\ inst.CurrentIC = NoIC
           /\ inst.globalState = DefaultIMState
           /\ inst.clientPreedit = NoIC /\ inst.codeInput = NoIC
           /\ FirstAsInactive => IMMatches(inst)
           /\ controlled = {}
  <1>1. PICK count \in 0 .. IMCount : \E saved \in CurrentIndices(count) :
          inst = InitInstance(count, saved)
    BY DEF Init
  <1>2. PICK saved \in CurrentIndices(count) : inst = InitInstance(count, saved)
    BY <1>1
  <1> DEFINE loaded == UpdateIMList(BlankInstance, count, saved)
             selected == SwitchIM(loaded, loaded.iIMIndex)
  <1>3. /\ BlankInstance \in Instance /\ loaded \in Instance
        /\ inst \in Instance
        /\ inst.ic_list = {} /\ inst.CurrentIC = NoIC
        /\ inst.globalState = DefaultIMState
        /\ inst.imcount = selected.imcount /\ inst.iIMIndex = selected.iIMIndex
        /\ inst.lastIMIndex = selected.iIMIndex
        /\ inst.clientPreedit = selected.clientPreedit
        /\ inst.codeInput = selected.codeInput
    BY <1>2, InitInstanceFacts
  <1> HIDE DEF loaded
  <1>4. loaded.iIMIndex \in Int /\ loaded.iIMIndex >= -1  BY <1>3 DEF Instance
  <1>5. /\ Switches(loaded, selected)
        /\ FirstAsInactive =>
             IMRange(selected) /\ (loaded.imcount > 1 => selected.iIMIndex # 0)
    BY <1>3, <1>4, SwitchIMSwitches
  <1> HIDE DEF selected
  <1>6. inst.imcount \in Int  BY <1>3 DEF Instance
  <1>7. FirstAsInactive => IMMatches(inst)
    BY <1>3, <1>5, <1>6
       DEF IMMatches, IMRange, IMActive, Switches, GetCurrentState
  <1> QED  BY <1>3, <1>5, <1>7 DEF Init, Switches

\* The preedit on display belongs to the context with the focus: of the D-Bus
\* frontend always; with the XIM frontend, whose trigger notice moves the
\* focus without committing, when the input window is shown on triggering.
THEOREM PreeditCorrect ==
    ASSUME "xim" \in LoadedFrontends => ShowInputWindowTriggering
    PROVE  Spec => []PreeditBelongsToCurrent
  <1>1. Init => PreeditBelongsToCurrent
    BY InitFacts DEF PreeditBelongsToCurrent
  <1>2. PreeditBelongsToCurrent /\ IInv /\ [Next]_vars => PreeditBelongsToCurrent'
    <2>1. ASSUME PreeditBelongsToCurrent, IInv, Next
          PROVE  PreeditBelongsToCurrent'
      <3>1. PreeditOwned(inst')
        BY <2>1, StepFromNext, StepKeepsPreedit
           DEF PreeditBelongsToCurrent, PreeditOwned
      <3> QED  BY <3>1 DEF PreeditBelongsToCurrent, PreeditOwned
    <2>2. PreeditBelongsToCurrent /\ UNCHANGED vars => PreeditBelongsToCurrent'
      BY DEF PreeditBelongsToCurrent, vars
    <2> QED  BY <2>1, <2>2
  <1> QED  BY <1>1, <1>2, IInvInvariant, PTL DEF Spec

\* Nothing is committed to a context it was not typed in, as long as the
\* focus is only ever moved by the handlers for it.
THEOREM BufferCorrect ==
    ASSUME "xim" \notin LoadedFrontends, KeysNeedFocus
    PROVE  Spec => []TextStaysInItsContext
  <1>1. Init => TextStaysInItsContext
    BY InitFacts DEF TextStaysInItsContext
  <1>2. TextStaysInItsContext /\ IInv /\ [Next]_vars => TextStaysInItsContext'
    <2>1. ASSUME TextStaysInItsContext, IInv, Next
          PROVE  TextStaysInItsContext'
      <3>1. BufferOwned(inst')
        BY <2>1, StepFromNext, StepKeepsBuffer
           DEF TextStaysInItsContext, BufferOwned
      <3> QED  BY <3>1 DEF TextStaysInItsContext, BufferOwned
    <2>2. TextStaysInItsContext /\ UNCHANGED vars => TextStaysInItsContext'
      BY DEF TextStaysInItsContext, vars
    <2> QED  BY <2>1, <2>2
  <1> QED  BY <1>1, <1>2, IInvInvariant, PTL DEF Spec

\* ProgramStateCoherent is inductive with the history covering the programs
\* whose clients control their states.
ProgramInv ==
    /\ FromLoaded(inst)
    /\ ShareState = "PerProgram" =>
         AppCovers(inst, controlled) /\ Together(inst, controlled)

LEMMA NextProgramInv ==
    ASSUME NEW f, LoadedFrontends \subseteq {f}, IInv, ProgramInv, Next
    PROVE  ProgramInv'
  <1>1. /\ Orderly(inst) /\ StepOf(inst, inst') /\ Orderly(inst')
        /\ controlled' = (controlled \ (Slots \ inst'.ic_list))
                           \union ControlledNow(inst')
    BY StepFromNext DEF Advances
  <1>2. FromLoaded(inst')  BY <1>1, StepKeepsOwners DEF ProgramInv
  <1>3. ASSUME ShareState = "PerProgram"
        PROVE  AppCovers(inst', controlled') /\ Together(inst', controlled')
    <2>1. AppCovers(inst', controlled')
      BY <1>1 DEF AppCovers, ControlledNow
    <2>2. Together(inst', controlled)
      BY <1>1, <1>3, StepKeepsPrograms DEF ProgramInv
    <2>3. ASSUME NEW s \in inst'.ic_list, inst'.rec[s].app # NoApp,
                 inst'.rec[s].app \notin controlled'
          PROVE  inst'.rec[s].app \notin controlled
      <3>1. inst'.rec[s].app \in Apps
        BY <1>1, <2>3 DEF Orderly, Instance, InputContextRec
      <3> QED  BY <1>1, <2>3, <3>1, AppsAssumption
    <2>4. Together(inst', controlled')
      BY <2>2, <2>3 DEF Together, SameApplication
    <2> QED  BY <2>1, <2>4
  <1> QED  BY <1>2, <1>3 DEF ProgramInv, FromLoaded, AppCovers, Together

\* ShareStateAmongWindow=PerProgram keeps the contexts of a program in one
\* state, when one frontend is loaded: a frontend does not know the programs
\* of another.
THEOREM ProgramStateCorrect ==
    ASSUME NEW f, LoadedFrontends \subseteq {f}
    PROVE  Spec => []ProgramStateCoherent
  <1>1. Init => ProgramInv
    BY InitFacts DEF ProgramInv, FromLoaded, AppCovers, Together
  <1>2. ProgramInv /\ IInv /\ [Next]_vars => ProgramInv'
    <2>1. ProgramInv /\ UNCHANGED vars => ProgramInv'
      BY DEF ProgramInv, FromLoaded, AppCovers, Together, vars
    <2> QED  BY <2>1, NextProgramInv
  <1>3. ProgramInv => ProgramStateCoherent
    BY DEF ProgramInv, Together, ProgramStateCoherent, Free
  <1> QED  BY <1>1, <1>2, <1>3, IInvInvariant, PTL DEF Spec

\* What clients were told is inductive together with the coherence of the
\* groups a change reaches.
ToldInv == ToldGroups(inst) /\ FromLoaded(inst)

LEMMA NextToldInv ==
    ASSUME 1 \notin ClientVersions, "control" \notin ClientCaps,
           ShareState = "PerProgram" => \E f : LoadedFrontends \subseteq {f},
           IInv, ToldInv, Next
    PROVE  ToldInv'
  <1>1. /\ Orderly(inst) /\ StepOf(inst, inst') /\ Advances(inst, inst')
    BY StepFromNext
  <1>2. FromLoaded(inst') /\ Uncontrolled(inst')
    BY <1>1, StepKeepsOwners DEF ToldInv, ToldGroups
  <1>3. ASSUME ShareState = "All" PROVE Coherent(inst', {})
    <2>1. {} \in SUBSET Slots /\ Covers(inst, {}) /\ Coherent(inst, {})
      BY <1>3 DEF ToldInv, ToldGroups, Uncontrolled, Covers
    <2>2. \A s \in inst'.ic_list :
            Controls(inst'.rec[s]) \/ inst'.rec[s].state = inst'.globalState
      BY <1>1, <1>3, <2>1 DEF Advances
    <2> QED  BY <1>2, <2>2 DEF Coherent, Uncontrolled
  <1>4. ASSUME ShareState = "PerProgram"
        PROVE  OneFrontend(inst') /\ Together(inst', {})
    <2>1. PICK f : LoadedFrontends \subseteq {f}  BY <1>4
    <2>2. AppCovers(inst, {}) /\ Together(inst, {})
      BY <1>4 DEF ToldInv, ToldGroups, Uncontrolled, AppCovers
    <2>3. Together(inst', {})
      BY <1>1, <1>4, <2>1, <2>2, StepKeepsPrograms DEF ToldInv
    <2>4. OneFrontend(inst')  BY <1>2, <2>1 DEF FromLoaded, OneFrontend
    <2> QED  BY <2>3, <2>4
  <1>5. AllTold(inst')  BY <1>1, StepKeepsTold DEF ToldInv
  <1>6. ToldGroups(inst')  BY <1>2, <1>3, <1>4, <1>5 DEF ToldGroups
  <1> QED
    BY <1>2, <1>6
       DEF ToldInv, ToldGroups, FromLoaded, Uncontrolled, Coherent, OneFrontend,
           Together, AllTold

\* Every D-Bus client that leaves its state to the daemon knows whether its
\* context is enabled, in every sharing mode; with the double switch key it
\* may not know that it was opened, but is never told so wrongly.
THEOREM ClientToldCorrect ==
    ASSUME 1 \notin ClientVersions, "control" \notin ClientCaps,
           ShareState = "PerProgram" => \E f : LoadedFrontends \subseteq {f}
    PROVE  Spec => []ClientToldState
  <1>1. Init => ToldInv
    BY InitFacts, ConfigAssumption
       DEF ToldInv, ToldGroups, FromLoaded, Uncontrolled, Coherent, OneFrontend,
           Together, AllTold
  <1>2. ToldInv /\ IInv /\ [Next]_vars => ToldInv'
    <2>1. ToldInv /\ UNCHANGED vars => ToldInv'
      BY DEF ToldInv, ToldGroups, FromLoaded, Uncontrolled, Coherent, OneFrontend,
             Together, AllTold, vars
    <2> QED  BY <2>1, NextToldInv
  <1>3. ToldInv => ClientToldState
    BY DEF ToldInv, ToldGroups, AllTold, Told, ClientToldState
  <1> QED  BY <1>1, <1>2, <1>3, IInvInvariant, PTL DEF Spec

\* One shared state, without contexts that control their own.
SharedInv == Uncontrolled(inst) /\ Coherent(inst, {})

LEMMA InitSharedInv == Init => SharedInv
  BY InitFacts DEF SharedInv, Uncontrolled, Coherent

LEMMA NextSharedInv ==
    ASSUME ShareState = "All", 1 \notin ClientVersions, "control" \notin ClientCaps,
           IInv, SharedInv, Next
    PROVE  /\ Uncontrolled(inst') /\ Coherent(inst', {})
           /\ SharedInv'
  <1>1. Uncontrolled(inst')
    BY StepFromNext, StepKeepsOwners DEF SharedInv
  <1>2. Coherent(inst', {})
    <2>1. {} \in SUBSET Slots /\ Covers(inst, {})
      BY DEF SharedInv, Uncontrolled, Covers
    <2>2. \A s \in inst'.ic_list :
            Controls(inst'.rec[s]) \/ inst'.rec[s].state = inst'.globalState
      BY <2>1, StepFromNext DEF Advances, SharedInv
    <2> QED  BY <1>1, <2>2 DEF Coherent, Uncontrolled
  <1> QED  BY <1>1, <1>2 DEF SharedInv, Uncontrolled, Coherent

\* With firstAsInactive and one shared state, the input method in use follows
\* the state of the current context, whatever list of input methods the
\* profile and the clients set.  A context that takes the focus without
\* FocusIn is not matched, so the XIM frontend is left out.
THEOREM IMFollowsStateCorrect ==
    ASSUME ShareState = "All", 1 \notin ClientVersions, "control" \notin ClientCaps,
           "xim" \notin LoadedFrontends, KeysNeedFocus
    PROVE  Spec => IMFollowsState
  <1> DEFINE Inv == SharedInv /\ (FirstAsInactive => IMMatches(inst))
             Follows ==
               FirstAsInactive /\ inst'.imcount > 1 =>
                 /\ inst'.lastIMIndex \in 1 .. inst'.imcount - 1
                 /\ inst'.iIMIndex \in 0 .. inst'.imcount - 1
                 /\ GetCurrentState(inst') = "active" => inst'.iIMIndex # 0
                 /\ GetCurrentState(inst') = "inactive" =>
                      \/ inst'.iIMIndex = 0
                      \/ ReselectIM
                      \/ /\ GetCurrentState(inst) = "inactive"
                         /\ inst'.CurrentIC = inst.CurrentIC
                         /\ inst'.iIMIndex = inst.iIMIndex
  <1>1. Init => Inv  BY InitSharedInv, InitFacts
  <1>2. ASSUME Inv, IInv, Next PROVE Inv' /\ Follows
    <2>1. SharedInv'  BY <1>2, NextSharedInv
    <2>2. ASSUME FirstAsInactive
          PROVE  /\ IMMatches(inst')
                 /\ IMSettled(inst, inst') \/ Reselects(inst, inst')
      <3>1. SharedFirst(inst) /\ IMMatches(inst)
        BY <1>2, <2>2 DEF SharedFirst, SharedInv
      <3> QED  BY <1>2, <3>1, StepFromNext, StepKeepsMatch
    <2>3. (FirstAsInactive => IMMatches(inst))'
      BY <2>2 DEF IMMatches, IMRange, IMActive, GetCurrentState
    <2>4. Reselects(inst, inst') => ReselectIM
      BY DEF Reselects, ReselectIM, ClickIMIcon, ReloadConfig
    <2>5. Follows
      BY <2>2, <2>4 DEF IMMatches, IMRange, IMActive, IMSettled
    <2> QED  BY <2>1, <2>3, <2>5
  <1>3. Inv /\ UNCHANGED vars => Inv'
    BY DEF SharedInv, Uncontrolled, Coherent, IMMatches, IMRange, IMActive,
           GetCurrentState, vars
  <1> HIDE DEF Inv, Follows
  <1>4. Inv /\ IInv /\ [Next]_vars => Inv' /\ [Follows]_vars
    BY <1>2, <1>3
  <1>5. [][Follows]_vars => IMFollowsState
    BY PTL DEF Follows, IMFollowsState
  <1> QED  BY <1>1, <1>4, <1>5, IInvInvariant, PTL DEF Spec

-----------------------------------------------------------------------------
(* The refinement of SharedMode: what a step is there, kind by kind.       *)

LEMMA SharedModeStep ==
    ASSUME ShareState = "All", 1 \notin ClientVersions, "control" \notin ClientCaps,
           "xim" \notin LoadedFrontends, KeysNeedFocus,
           IInv, SharedInv, Next
    PROVE  Shared!Next \/ UNCHANGED Shared!vars
  <1>1. /\ Orderly(inst) /\ Orderly(inst') /\ StepOf(inst, inst')
        /\ inst \in Instance /\ inst' \in Instance
    BY StepFromNext DEF Advances, Orderly
  <1>2. Coherent(inst', {}) /\ Coherent(inst, {})
    BY NextSharedInv DEF SharedInv
  <1>3. /\ inst.ic_list \subseteq Slots /\ inst'.ic_list \subseteq Slots
        /\ inst'.globalState \in ContextState
        /\ inst'.CurrentIC \in inst'.ic_list \union {NoIC}
    BY <1>1 DEF Instance, Orderly, FocusOK
  <1>4. [s \in inst'.ic_list |-> inst'.rec[s].state] =
          [s \in inst'.ic_list |-> inst'.globalState]
    BY <1>2 DEF Coherent
  <1>5. CASE Steady(inst, inst')
    <2>1. inst'.ic_list = inst.ic_list /\ inst'.CurrentIC = inst.CurrentIC
      BY <1>5 DEF Steady, Respects, Keeps, Frame, TextKept
    <2>2. CASE inst.ic_list = {}
      <3>1. inst'.globalState = inst.globalState  BY <1>5, <2>2 DEF Steady
      <3>2. [s \in inst'.ic_list |-> inst'.rec[s].state] =
              [s \in inst.ic_list |-> inst.rec[s].state]
        BY <2>1, <2>2
      <3> QED  BY <2>1, <3>1, <3>2 DEF Shared!vars
    <2>3. CASE inst.ic_list # {}
      <3>1. PICK m \in Shared!Modes : m = inst'.globalState
        BY <1>3 DEF Shared!Modes, ContextState
      <3>2. Shared!SetMode(m)
        BY <1>4, <2>1, <2>3, <3>1 DEF Shared!SetMode
      <3> QED  BY <3>2 DEF Shared!Next
    <2> QED  BY <2>2, <2>3
  <1>6. CASE Reselects(inst, inst')
    BY <1>6 DEF Reselects, SameContexts, Shared!vars
  <1>7. CASE Focuses(inst, inst')
    <2>1. /\ inst'.ic_list = inst.ic_list /\ inst'.rec = inst.rec
          /\ inst'.globalState = inst.globalState
      BY <1>7 DEF Focuses, SameStates
    <2>2. Shared!MoveFocus(inst'.CurrentIC)
      BY <1>3, <2>1 DEF Shared!MoveFocus
    <2>3. inst'.CurrentIC \in Slots \union {NoIC}  BY <1>3
    <2> QED  BY <2>2, <2>3 DEF Shared!Next
  <1>8. ~Moves(inst, inst')  BY DEF Moves
  <1>9. ASSUME NEW ic \in inst.ic_list, Removes(inst, inst', ic)
        PROVE  Shared!Next
    <2>1. Shared!Close(ic)  BY <1>9 DEF Removes, Shared!Close
    <2> QED  BY <1>3, <2>1 DEF Shared!Next
  <1>10. ASSUME NEW ic, NEW flags, Reflags(inst, inst', ic, flags)
         PROVE  UNCHANGED Shared!vars
    BY <1>3, <1>10 DEF Reflags, Shared!vars
  <1>11. ASSUME NEW slot, NEW r, r.frontendid \in LoadedFrontends,
                Adds(inst, inst', slot, r)
         PROVE  Shared!Next
    <2>1. Shared!Open(slot) /\ slot \in Slots
      BY <1>4, <1>11 DEF Adds, Shared!Open
    <2> QED  BY <2>1 DEF Shared!Next
  <1> QED  BY <1>1, <1>5, <1>6, <1>7, <1>8, <1>9, <1>10, <1>11 DEF StepOf

\* ShareStateAmongWindow=All is one shared mode: every step of the daemon is
\* a step of SharedMode or changes nothing the user sees.
THEOREM SharedModeImplemented ==
    ASSUME ShareState = "All", 1 \notin ClientVersions, "control" \notin ClientCaps,
           "xim" \notin LoadedFrontends, KeysNeedFocus
    PROVE  Spec => ImplementsSharedMode
  <1>1. Init => SharedInv /\ Shared!Init
    BY InitSharedInv, InitFacts DEF Shared!Init
  <1>2. SharedInv /\ IInv /\ [Next]_vars => SharedInv'
    <2>1. SharedInv /\ UNCHANGED vars => SharedInv'
      BY DEF SharedInv, Uncontrolled, Coherent, vars
    <2> QED  BY <2>1, NextSharedInv
  <1>3. SharedInv /\ IInv /\ [Next]_vars => [Shared!Next]_(Shared!vars)
    <2>1. UNCHANGED vars => UNCHANGED Shared!vars  BY DEF vars, Shared!vars
    <2> QED  BY <2>1, SharedModeStep
  <1> QED
    BY <1>1, <1>2, <1>3, IInvInvariant, PTL
       DEF Spec, ImplementsSharedMode, Shared!Spec
=============================================================================
