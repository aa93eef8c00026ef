------------------------- MODULE InputDaemonProofs -------------------------
(***************************************************************************)
(* What InputDaemon keeps true for every set of contexts, applications and *)
(* input methods and every configuration: the types, the consistency of    *)
(* the lists, the focus and the ids, and the coherence of the shared state.*)
(*                                                                         *)
(* The library functions fall in two groups.  Most leave the lists, the    *)
(* ids and the capabilities of all contexts alone (Frame); the lemmas on   *)
(* them are stated once and serve every handler that calls them.  Only     *)
(* CreateIC and DestroyIC change the lists.                                *)
(***************************************************************************)
EXTENDS InputDaemon, TLAPS

\* e has the contexts of d: its lists, counters and, of each context, all
\* but the state.
Frame(d, e) ==
    /\ e \in Instance
    /\ e.ic_list = d.ic_list
    /\ e.free_list = d.free_list
    /\ e.maxid = d.maxid
    /\ \A s \in Slots : /\ e.rec[s].frontendid = d.rec[s].frontendid
                        /\ e.rec[s].id = d.rec[s].id
                        /\ e.rec[s].contextCaps = d.rec[s].contextCaps

\* The focus is on a context or on none.
FocusOK(d) == d.CurrentIC \in d.ic_list \union {NoIC}

\* All contexts outside C are in the global state.
Coherent(d, C) == \A s \in d.ic_list \ C : d.rec[s].state = d.globalState

\* C holds at least the contexts that control their state.
Covers(d, C) == \A s \in d.ic_list : Controls(d.rec[s]) => s \in C

\* What every function but CreateIC, DestroyIC and SetCapacity does to the
\* instance.
Keeps(d, e) ==
    /\ Frame(d, e)
    /\ FocusOK(d) => FocusOK(e)
    /\ \A C \in SUBSET Slots :
         ShareState = "All" /\ Covers(d, C) /\ Coherent(d, C) => Coherent(e, C)

\* The part of the instance that frames and coherence are about.
SameContexts(d, e) ==
    /\ e \in Instance
    /\ e.ic_list = d.ic_list /\ e.free_list = d.free_list
    /\ e.maxid = d.maxid /\ e.CurrentIC = d.CurrentIC
    /\ e.rec = d.rec /\ e.globalState = d.globalState

LEMMA FrameTransitive ==
    ASSUME NEW d, NEW e, NEW f, Frame(d, e), Frame(e, f)
    PROVE  Frame(d, f)
  BY DEF Frame

LEMMA KeepsTransitive ==
    ASSUME NEW d \in Instance, NEW e, NEW f, Keeps(d, e), Keeps(e, f)
    PROVE  Keeps(d, f)
  <1>1. Frame(d, f)  BY FrameTransitive DEF Keeps
  <1>2. FocusOK(d) => FocusOK(f)  BY DEF Keeps
  <1>3. ASSUME NEW C \in SUBSET Slots,
               ShareState = "All", Covers(d, C), Coherent(d, C)
        PROVE  Coherent(f, C)
    <2>1. Covers(e, C)
      BY <1>3 DEF Covers, Controls, Keeps, Frame, Instance
    <2>2. Coherent(e, C)  BY <1>3 DEF Keeps
    <2> QED  BY <1>3, <2>1, <2>2 DEF Keeps
  <1> QED  BY <1>1, <1>2, <1>3 DEF Keeps

LEMMA SameContextsKeeps ==
    ASSUME NEW d \in Instance, NEW e, SameContexts(d, e)
    PROVE  Keeps(d, e)
  BY DEF SameContexts, Keeps, Frame, FocusOK, Coherent

LEMMA SameContextsTransitive ==
    ASSUME NEW d, NEW e, NEW f, SameContexts(d, e), SameContexts(e, f)
    PROVE  SameContexts(d, f)
  BY DEF SameContexts

-----------------------------------------------------------------------------
(* Input window, buffer and input method. *)

LEMMA CleanInputWindowSame ==
    ASSUME NEW d \in Instance
    PROVE  SameContexts(d, CleanInputWindow(d))
  BY DEF SameContexts, CleanInputWindow, Instance, Owner

LEMMA CloseInputWindowSame ==
    ASSUME NEW d \in Instance
    PROVE  SameContexts(d, CloseInputWindow(d))
  BY CleanInputWindowSame DEF CloseInputWindow

LEMMA ResetInputSame ==
    ASSUME NEW d \in Instance
    PROVE  SameContexts(d, ResetInput(d))
  BY DEF SameContexts, ResetInput, Instance, Owner

LEMMA NextIMIndexType ==
    ASSUME NEW d \in Instance, NEW index \in Int
    PROVE  /\ NextIMIndex(d, index) \in -1 .. IMCount - 1
           /\ index >= -1 /\ d.imcount > 0 =>
                NextIMIndex(d, index) \in 0 .. d.imcount - 1
  <1>1. d.iIMIndex \in -1 .. IMCount /\ d.imcount \in 0 .. IMCount
    BY DEF Instance
  <1> QED  BY <1>1, IMAssumption DEF NextIMIndex

LEMMA SwitchIMInternalSame ==
    ASSUME NEW d \in Instance, NEW index \in Int, NEW skipZero \in BOOLEAN
    PROVE  SameContexts(d, SwitchIMInternal(d, index, skipZero))
  <1> DEFINE next == NextIMIndex(d, index)
             new == IF skipZero /\ next = 0 THEN 1 ELSE next
             last == IF FirstAsInactive /\ new # 0 THEN new ELSE d.lastIMIndex
             e == ResetInput(CleanInputWindow(d))
  <1>1. new \in -1 .. IMCount
    BY NextIMIndexType, IMAssumption
  <1>2. last \in -1 .. IMCount
    BY <1>1 DEF Instance
  <1>3. SameContexts(d, e)
    <2>1. CleanInputWindow(d) \in Instance
      BY CleanInputWindowSame DEF SameContexts
    <2> QED
      BY <2>1, CleanInputWindowSame, ResetInputSame, SameContextsTransitive
  <1>4. SwitchIMInternal(d, index, skipZero)
          = [e EXCEPT !.iIMIndex = new, !.lastIMIndex = last]
    BY DEF SwitchIMInternal
  <1> HIDE DEF new, last, e
  <1> QED  BY <1>1, <1>2, <1>3, <1>4 DEF SameContexts, Instance

LEMMA SwitchIMSame ==
    ASSUME NEW d \in Instance, NEW index \in Int
    PROVE  SameContexts(d, SwitchIM(d, index))
  BY SwitchIMInternalSame, ConfigAssumption DEF SwitchIM

\* A new list leaves the contexts alone.
LEMMA UpdateIMListSame ==
    ASSUME NEW d \in Instance, NEW count \in 0 .. IMCount,
           NEW current \in CurrentIndices(count)
    PROVE  SameContexts(d, UpdateIMList(d, count, current))
  <1> DEFINE e == [d EXCEPT !.imcount = count, !.iIMIndex = current]
  <1>1. current \in Int /\ current \in -1 .. IMCount
    BY IMAssumption DEF CurrentIndices
  <1>2. SameContexts(d, e)  BY <1>1 DEF SameContexts, Instance
  <1>3. UpdateIMList(d, count, current) = SwitchIM(e, current)
    BY DEF UpdateIMList
  <1> HIDE DEF e
  <1>4. SameContexts(e, SwitchIM(e, current))
    BY <1>1, <1>2, SwitchIMSame DEF SameContexts
  <1> QED  BY <1>2, <1>3, <1>4, SameContextsTransitive

LEMMA ShowInputSpeedSame ==
    ASSUME NEW d \in Instance
    PROVE  SameContexts(d, ShowInputSpeed(d))
  <1>1. SameContexts(d, d)  BY DEF SameContexts
  <1> QED  BY <1>1, CleanInputWindowSame DEF ShowInputSpeed

LEMMA CommitPreeditSame ==
    ASSUME NEW d \in Instance
    PROVE  SameContexts(d, CommitPreedit(d))
  <1>1. SameContexts(d, d)  BY DEF SameContexts
  <1> QED  BY <1>1, CleanInputWindowSame DEF CommitPreedit

-----------------------------------------------------------------------------
(* State changes. *)

LEMMA EnableRecType ==
    ASSUME NEW r \in InputContextRec
    PROVE  /\ EnableRec(r) \in InputContextRec
           /\ EnableRec(r).frontendid = r.frontendid
           /\ EnableRec(r).id = r.id
           /\ EnableRec(r).contextCaps = r.contextCaps
           /\ EnableRec(r).state = "active"
  BY DEF EnableRec, InputContextRec, ContextState

LEMMA CloseRecType ==
    ASSUME NEW r \in InputContextRec
    PROVE  /\ CloseRec(r) \in InputContextRec
           /\ CloseRec(r).frontendid = r.frontendid
           /\ CloseRec(r).id = r.id
           /\ CloseRec(r).contextCaps = r.contextCaps
           /\ CloseRec(r).state = "closed"
  BY DEF CloseRec, InputContextRec, ContextState

\* e is d with the contexts of "on" and the global state set to st.
Uniform(d, e, st, on) ==
    /\ e \in Instance
    /\ e.ic_list = d.ic_list /\ e.free_list = d.free_list
    /\ e.maxid = d.maxid /\ e.CurrentIC = d.CurrentIC
    /\ e.globalState = st
    /\ \A s \in Slots : /\ e.rec[s].frontendid = d.rec[s].frontendid
                        /\ e.rec[s].id = d.rec[s].id
                        /\ e.rec[s].contextCaps = d.rec[s].contextCaps
                        /\ s \in on => e.rec[s].state = st

\* "on" has every context outside C that may not control its state.
Reaches(d, on) ==
    \A C \in SUBSET Slots :
      ShareState = "All" /\ Covers(d, C) => d.ic_list \ C \subseteq on

LEMMA UniformKeeps ==
    ASSUME NEW d \in Instance, NEW e, NEW st, NEW on,
           Uniform(d, e, st, on), Reaches(d, on)
    PROVE  Keeps(d, e)
  <1>1. Frame(d, e)  BY DEF Frame, Uniform
  <1>2. FocusOK(d) => FocusOK(e)  BY DEF FocusOK, Uniform
  <1>3. ASSUME NEW C \in SUBSET Slots, ShareState = "All", Covers(d, C)
        PROVE  Coherent(e, C)
    <2>1. d.ic_list \ C \subseteq on  BY <1>3 DEF Reaches
    <2>2. d.ic_list \subseteq Slots  BY DEF Instance
    <2> QED  BY <2>1, <2>2 DEF Coherent, Uniform
  <1> QED  BY <1>1, <1>2, <1>3 DEF Keeps

\* Under ShareState_All a change reaches every context outside C.
LEMMA AffectedReaches ==
    ASSUME NEW d \in Instance, NEW ic, NEW foreign
    PROVE  Reaches(d, Affected(d, ic, foreign))
  BY DEF Reaches, Affected, Covers

LEMMA SetStateUniform ==
    ASSUME NEW d \in Instance, NEW e, SameContexts(d, e),
           NEW st \in ContextState, NEW on,
           NEW recs \in [Slots -> InputContextRec],
           \A s \in Slots : /\ recs[s].frontendid = d.rec[s].frontendid
                            /\ recs[s].id = d.rec[s].id
                            /\ recs[s].contextCaps = d.rec[s].contextCaps
                            /\ s \in on => recs[s].state = st
    PROVE  Uniform(d, [e EXCEPT !.globalState = st, !.rec = recs], st, on)
  <1> DEFINE f == [e EXCEPT !.globalState = st, !.rec = recs]
  <1>1. /\ f \in Instance
        /\ f.ic_list = d.ic_list /\ f.free_list = d.free_list
        /\ f.maxid = d.maxid /\ f.CurrentIC = d.CurrentIC
        /\ f.globalState = st /\ f.rec = recs
    BY DEF SameContexts, Instance
  <1> SUFFICES Uniform(d, f, st, on)  OBVIOUS
  <1> HIDE DEF f
  <1> QED  BY <1>1 DEF Uniform

LEMMA EnableIMKeeps ==
    ASSUME NEW d \in Instance, NEW ic \in Slots \union {NoIC}, NEW foreign,
           NEW keepState \in BOOLEAN
    PROVE  /\ Keeps(d, EnableIM(d, ic, keepState, foreign))
           /\ EnableIM(d, ic, keepState, foreign).CurrentIC = d.CurrentIC
  <1> DEFINE on == Affected(d, ic, foreign)
             rec == [s \in Slots |-> IF s \in on THEN EnableRec(d.rec[s])
                                                 ELSE d.rec[s]]
             set == [d EXCEPT !.globalState = "active", !.rec = rec]
             triggered == IF d.CurrentIC \in on /\ GetCurrentState(d) = "closed"
                          THEN ShowInputSpeed(set) ELSE set
             reset == IF d.CurrentIC \in on /\ ~keepState
                      THEN ResetInput(triggered) ELSE triggered
             done == IF FirstAsInactive /\ GetCurrentState(reset) = "active"
                                        /\ reset.iIMIndex = 0
                     THEN SwitchIM(reset, reset.lastIMIndex) ELSE reset
  <1>0. Reaches(d, on)  BY AffectedReaches
  <1> HIDE DEF on
  <1>1. d.rec \in [Slots -> InputContextRec]  BY DEF Instance
  <1>2. /\ rec \in [Slots -> InputContextRec]
        /\ \A s \in Slots : /\ rec[s].frontendid = d.rec[s].frontendid
                            /\ rec[s].id = d.rec[s].id
                            /\ rec[s].contextCaps = d.rec[s].contextCaps
                            /\ s \in on => rec[s].state = "active"
    BY <1>1, EnableRecType
  <1> HIDE DEF rec
  <1>3. Uniform(d, set, "active", on)
    BY <1>2, SetStateUniform DEF SameContexts, ContextState
  <1> HIDE DEF set
  <1>4. Keeps(d, set)  BY <1>0, <1>3, UniformKeeps
  <1>5. SameContexts(set, done)
    <2>1. SameContexts(set, triggered)
      BY <1>3, ShowInputSpeedSame DEF SameContexts, Uniform
    <2> HIDE DEF triggered
    <2>2. SameContexts(set, reset)
      <3>1. triggered \in Instance  BY <2>1 DEF SameContexts
      <3> QED  BY <2>1, <3>1, ResetInputSame, SameContextsTransitive
    <2> HIDE DEF reset
    <2>3. reset \in Instance /\ reset.lastIMIndex \in Int
      BY <2>2 DEF SameContexts, Instance
    <2> QED  BY <2>2, <2>3, SwitchIMSame, SameContextsTransitive
  <1>6. EnableIM(d, ic, keepState, foreign) = IF ic = NoIC THEN d ELSE done
    BY DEF EnableIM, on, set, rec
  <1> HIDE DEF done
  <1>7. Keeps(d, done) /\ done.CurrentIC = d.CurrentIC
    BY <1>3, <1>4, <1>5, SameContextsKeeps, KeepsTransitive
       DEF SameContexts, Uniform
  <1>8. Keeps(d, d)  BY SameContextsKeeps DEF SameContexts
  <1> QED  BY <1>6, <1>7, <1>8

LEMMA ChangeIMStateKeeps ==
    ASSUME NEW d \in Instance, NEW ic \in Slots \union {NoIC}, NEW foreign
    PROVE  /\ Keeps(d, ChangeIMState(d, ic, foreign))
           /\ ChangeIMState(d, ic, foreign).CurrentIC = d.CurrentIC
  <1> DEFINE objectState ==
               IF d.rec[ic].state = "inactive" THEN "active" ELSE "inactive"
             switched ==
               IF ~FirstAsInactive THEN d
               ELSE IF objectState = "active" THEN SwitchIM(d, d.lastIMIndex)
               ELSE SwitchIMInternal(d, 0, FALSE)
             on == Affected(d, ic, foreign)
             changed == {s \in on : d.rec[s].state # objectState}
             recs == [s \in Slots |->
                        IF s \in changed
                        THEN [d.rec[s] EXCEPT !.state = objectState]
                        ELSE d.rec[s]]
             set == [switched EXCEPT !.globalState = objectState, !.rec = recs]
             done == IF d.CurrentIC \notin changed THEN set
                     ELSE IF objectState = "active" THEN ResetInput(set)
                     ELSE CloseInputWindow(ResetInput(set))
  <1>0. Reaches(d, on)  BY AffectedReaches
  <1> HIDE DEF on
  <1>1. objectState \in ContextState  BY DEF ContextState
  <1>2. ChangeIMState(d, ic, foreign) = IF ic = NoIC THEN d ELSE done
    BY DEF ChangeIMState, on
  <1> HIDE DEF objectState
  <1>3. SameContexts(d, switched)
    <2>1. d.lastIMIndex \in Int  BY DEF Instance
    <2>2. SameContexts(d, d)  BY DEF SameContexts
    <2>3. SameContexts(d, SwitchIM(d, d.lastIMIndex))
      BY <2>1, SwitchIMSame
    <2>4. SameContexts(d, SwitchIMInternal(d, 0, FALSE))
      <3>1. 0 \in Int /\ FALSE \in BOOLEAN  OBVIOUS
      <3> QED  BY <3>1, SwitchIMInternalSame, Zenon
    <2> QED  BY <2>2, <2>3, <2>4
  <1> HIDE DEF switched
  <1>4. d.rec \in [Slots -> InputContextRec]  BY DEF Instance
  <1>5. /\ recs \in [Slots -> InputContextRec]
        /\ \A s \in Slots : /\ recs[s].frontendid = d.rec[s].frontendid
                            /\ recs[s].id = d.rec[s].id
                            /\ recs[s].contextCaps = d.rec[s].contextCaps
                            /\ s \in on => recs[s].state = objectState
    BY <1>1, <1>4 DEF InputContextRec
  <1> HIDE DEF recs, changed
  <1>6. Uniform(d, set, objectState, on)
    BY <1>1, <1>3, <1>5, SetStateUniform
  <1> HIDE DEF set
  <1>7. SameContexts(set, done)
    <2>1. set \in Instance  BY <1>6 DEF Uniform
    <2>2. SameContexts(set, set)  BY <2>1 DEF SameContexts
    <2>3. SameContexts(set, ResetInput(set))  BY <2>1, ResetInputSame
    <2>4. ResetInput(set) \in Instance  BY <2>3 DEF SameContexts
    <2>5. SameContexts(set, CloseInputWindow(ResetInput(set)))
      BY <2>3, <2>4, CloseInputWindowSame, SameContextsTransitive
    <2> QED  BY <2>2, <2>3, <2>5
  <1> HIDE DEF done
  <1>8. Keeps(d, set)  BY <1>0, <1>6, UniformKeeps
  <1>9. Keeps(d, done) /\ done.CurrentIC = d.CurrentIC
    BY <1>6, <1>7, <1>8, SameContextsKeeps, KeepsTransitive
       DEF SameContexts, Uniform
  <1>10. Keeps(d, d)  BY SameContextsKeeps DEF SameContexts
  <1> QED  BY <1>2, <1>9, <1>10

LEMMA CloseIMKeeps ==
    ASSUME NEW d \in Instance, NEW ic \in Slots \union {NoIC}, NEW foreign
    PROVE  /\ Keeps(d, CloseIM(d, ic, foreign))
           /\ CloseIM(d, ic, foreign).CurrentIC = d.CurrentIC
  <1> DEFINE on == Affected(d, ic, foreign)
             recs == [s \in Slots |-> IF s \in on THEN CloseRec(d.rec[s])
                                                  ELSE d.rec[s]]
             set == [d EXCEPT !.globalState = "closed", !.rec = recs]
             done == IF d.CurrentIC \in on THEN CloseInputWindow(set) ELSE set
  <1>0. Reaches(d, on)  BY AffectedReaches
  <1>1. CloseIM(d, ic, foreign) =
          IF ic = NoIC THEN d
          ELSE IF FirstAsInactive /\ ~Controls(d.rec[ic])
          THEN ChangeIMState(d, ic, foreign) ELSE done
    BY DEF CloseIM
  <1> HIDE DEF on
  <1>2. d.rec \in [Slots -> InputContextRec]  BY DEF Instance
  <1>3. /\ recs \in [Slots -> InputContextRec]
        /\ \A s \in Slots : /\ recs[s].frontendid = d.rec[s].frontendid
                            /\ recs[s].id = d.rec[s].id
                            /\ recs[s].contextCaps = d.rec[s].contextCaps
                            /\ s \in on => recs[s].state = "closed"
    BY <1>2, CloseRecType
  <1> HIDE DEF recs
  <1>4. Uniform(d, set, "closed", on)
    BY <1>3, SetStateUniform DEF SameContexts, ContextState
  <1> HIDE DEF set
  <1>5. SameContexts(set, done)
    <2>1. set \in Instance  BY <1>4 DEF Uniform
    <2>2. SameContexts(set, set)  BY <2>1 DEF SameContexts
    <2> QED  BY <2>1, <2>2, CloseInputWindowSame
  <1> HIDE DEF done
  <1>6. Keeps(d, set)  BY <1>0, <1>4, UniformKeeps
  <1>7. Keeps(d, done) /\ done.CurrentIC = d.CurrentIC
    BY <1>4, <1>5, <1>6, SameContextsKeeps, KeepsTransitive
       DEF SameContexts, Uniform
  <1>8. Keeps(d, d)  BY SameContextsKeeps DEF SameContexts
  <1> QED  BY <1>1, <1>7, <1>8, ChangeIMStateKeeps

LEMMA KeepsItself ==
    ASSUME NEW d \in Instance
    PROVE  Keeps(d, d)
  BY SameContextsKeeps DEF SameContexts

\* The three state changes without the side remark on the focus.
LEMMA StateChangesKeep ==
    ASSUME NEW d \in Instance, NEW ic \in Slots \union {NoIC}, NEW foreign
    PROVE  /\ Keeps(d, EnableIM(d, ic, FALSE, foreign))
           /\ Keeps(d, EnableIM(d, ic, TRUE, foreign))
           /\ Keeps(d, CloseIM(d, ic, foreign))
           /\ Keeps(d, ChangeIMState(d, ic, foreign))
  <1>1. FALSE \in BOOLEAN /\ TRUE \in BOOLEAN  OBVIOUS
  <1>2. /\ Keeps(d, EnableIM(d, ic, FALSE, foreign))
        /\ Keeps(d, EnableIM(d, ic, TRUE, foreign))
    BY <1>1, EnableIMKeeps, Zenon
  <1> QED  BY <1>2, CloseIMKeeps, ChangeIMStateKeeps

-----------------------------------------------------------------------------
(* Focus. *)

LEMMA SetCurrentICKeeps ==
    ASSUME NEW d \in Instance, NEW ic \in d.ic_list \union {NoIC}
    PROVE  Keeps(d, SetCurrentIC(d, ic))
  <1>1. ic \in Slots \union {NoIC}  BY DEF Instance
  <1> DEFINE e == SetCurrentIC(d, ic)
  <1>2. /\ e \in Instance /\ e.CurrentIC = ic
        /\ e.ic_list = d.ic_list /\ e.free_list = d.free_list
        /\ e.maxid = d.maxid /\ e.rec = d.rec
        /\ e.globalState = d.globalState
    BY <1>1 DEF SetCurrentIC, Instance
  <1> SUFFICES Keeps(d, e)  OBVIOUS
  <1> HIDE DEF e
  <1> QED  BY <1>2 DEF Keeps, Frame, FocusOK, Coherent

LEMMA OnInputFocusSame ==
    ASSUME NEW d \in Instance
    PROVE  SameContexts(d, OnInputFocus(d))
  <1> DEFINE e == ResetInput(d)
             remembered == IF e.iIMIndex # 0
                           THEN [e EXCEPT !.lastIMIndex = e.iIMIndex] ELSE e
             f == CASE FirstAsInactive /\ GetCurrentState(e) = "active" ->
                         SwitchIM(e, e.lastIMIndex)
                    [] FirstAsInactive /\ GetCurrentState(e) = "inactive" ->
                         SwitchIMInternal(remembered, 0, FALSE)
                    [] OTHER -> e
  <1>1. OnInputFocus(d) = CloseInputWindow(f)  BY DEF OnInputFocus
  <1>2. SameContexts(d, e)  BY ResetInputSame
  <1> HIDE DEF e
  <1>3. e \in Instance  BY <1>2 DEF SameContexts
  <1>4. SameContexts(e, e)  BY <1>3 DEF SameContexts
  <1>5. SameContexts(e, remembered)  BY <1>3 DEF SameContexts, Instance
  <1> HIDE DEF remembered
  <1>6. SameContexts(e, SwitchIM(e, e.lastIMIndex))
    <2>1. e.lastIMIndex \in Int  BY <1>3 DEF Instance
    <2> QED  BY <1>3, <2>1, SwitchIMSame
  <1>7. SameContexts(e, SwitchIMInternal(remembered, 0, FALSE))
    <2>1. 0 \in Int /\ FALSE \in BOOLEAN  OBVIOUS
    <2>2. remembered \in Instance  BY <1>5 DEF SameContexts
    <2>3. SameContexts(remembered, SwitchIMInternal(remembered, 0, FALSE))
      BY <2>1, <2>2, SwitchIMInternalSame, Zenon
    <2> QED  BY <1>5, <2>3, SameContextsTransitive
  <1>8. SameContexts(e, f)  BY <1>4, <1>6, <1>7
  <1> HIDE DEF f
  <1>9. f \in Instance  BY <1>8 DEF SameContexts
  <1> QED
    BY <1>1, <1>2, <1>8, <1>9, CloseInputWindowSame, SameContextsTransitive

LEMMA FocusInKeeps ==
    ASSUME NEW d \in Instance, NEW ic \in d.ic_list
    PROVE  Keeps(d, FocusIn(d, ic))
  <1> DEFINE e == IF d.CurrentIC \notin {NoIC, ic} THEN CommitPreedit(d) ELSE d
             f == SetCurrentIC(e, ic)
  <1>1. FocusIn(d, ic) = IF d.CurrentIC = ic THEN d ELSE OnInputFocus(f)
    BY DEF FocusIn
  <1>2. SameContexts(d, e)  BY CommitPreeditSame DEF SameContexts
  <1> HIDE DEF e
  <1>3. Keeps(d, e)  BY <1>2, SameContextsKeeps
  <1>4. e \in Instance /\ e.ic_list = d.ic_list  BY <1>2 DEF SameContexts
  <1>5. Keeps(e, f)  BY <1>4, SetCurrentICKeeps
  <1> HIDE DEF f
  <1>6. f \in Instance  BY <1>5 DEF Keeps, Frame
  <1>7. Keeps(f, OnInputFocus(f))
    BY <1>6, OnInputFocusSame, SameContextsKeeps
  <1>8. Keeps(d, f)  BY <1>3, <1>5, KeepsTransitive
  <1>9. Keeps(d, OnInputFocus(f))  BY <1>7, <1>8, KeepsTransitive
  <1> QED  BY <1>1, <1>9, KeepsItself

LEMMA FocusOutKeeps ==
    ASSUME NEW d \in Instance
    PROVE  Keeps(d, FocusOut(d))
  <1> DEFINE e == CommitPreedit(d)
             f == CloseInputWindow(e)
  <1>1. SameContexts(d, e)  BY CommitPreeditSame
  <1> HIDE DEF e
  <1>2. e \in Instance  BY <1>1 DEF SameContexts
  <1>3. SameContexts(d, f)
    BY <1>1, <1>2, CloseInputWindowSame, SameContextsTransitive
  <1>4. FocusOut(d) = SetCurrentIC(f, NoIC)  BY DEF FocusOut, e
  <1> HIDE DEF f
  <1>5. f \in Instance  BY <1>3 DEF SameContexts
  <1>6. Keeps(f, SetCurrentIC(f, NoIC))  BY <1>5, SetCurrentICKeeps
  <1> QED  BY <1>3, <1>4, <1>6, SameContextsKeeps, KeepsTransitive

-----------------------------------------------------------------------------
(* Keys. *)

LEMMA ProcessTriggerKeyKeeps ==
    ASSUME NEW d \in Instance, NEW foreign
    PROVE  Keeps(d, ProcessTriggerKey(d, foreign))
  <1> DEFINE e == ChangeIMState(d, d.CurrentIC, foreign)
  <1>1. d.CurrentIC \in Slots \union {NoIC}  BY DEF Instance
  <1>2. Keeps(d, e) /\ Keeps(d, CloseIM(d, d.CurrentIC, foreign))
    BY <1>1, StateChangesKeep
  <1>3. ProcessTriggerKey(d, foreign) =
          IF GetCurrentState(d) = "inactive" THEN ShowInputSpeed(e)
          ELSE CloseIM(d, d.CurrentIC, foreign)
    BY DEF ProcessTriggerKey
  <1> HIDE DEF e
  <1>4. e \in Instance  BY <1>2 DEF Keeps, Frame
  <1>5. Keeps(e, ShowInputSpeed(e))
    BY <1>4, ShowInputSpeedSame, SameContextsKeeps
  <1>6. Keeps(d, ShowInputSpeed(e))  BY <1>2, <1>5, KeepsTransitive
  <1> QED  BY <1>2, <1>3, <1>6

LEMMA ProcessSwitchKeyKeeps ==
    ASSUME NEW d \in Instance, NEW foreign
    PROVE  Keeps(d, ProcessSwitchKey(d, foreign))
  <1> DEFINE e == ShowInputSpeed(d)
  <1>1. d.CurrentIC \in Slots \union {NoIC}  BY DEF Instance
  <1>2. Keeps(d, ChangeIMState(d, d.CurrentIC, foreign))
    BY <1>1, StateChangesKeep
  <1>3. SameContexts(d, e)  BY ShowInputSpeedSame
  <1>4. ProcessSwitchKey(d, foreign) =
          IF DoubleSwitchKey THEN ChangeIMState(d, d.CurrentIC, foreign)
          ELSE CASE GetCurrentState(d) = "closed" -> d
                 [] GetCurrentState(d) = "inactive" ->
                      ChangeIMState(e, d.CurrentIC, foreign)
                 [] OTHER -> ChangeIMState(d, d.CurrentIC, foreign)
    BY DEF ProcessSwitchKey
  <1> HIDE DEF e
  <1>5. e \in Instance /\ Keeps(d, e)
    BY <1>3, SameContextsKeeps DEF SameContexts
  <1>6. Keeps(e, ChangeIMState(e, d.CurrentIC, foreign))
    BY <1>1, <1>5, StateChangesKeep
  <1>7. Keeps(d, ChangeIMState(e, d.CurrentIC, foreign))
    BY <1>5, <1>6, KeepsTransitive
  <1> QED  BY <1>2, <1>4, <1>7, KeepsItself

LEMMA ProcessInputKeySame ==
    ASSUME NEW d \in Instance, NEW key
    PROVE  SameContexts(d, ProcessInputKey(d, key))
  <1>1. SameContexts(d, d)  BY DEF SameContexts
  <1>2. SameContexts(d, Compose(d))
    <2> DEFINE owner == IF d.codeInput = NoIC THEN d.CurrentIC ELSE d.codeInput
               e == [d EXCEPT !.codeInput = owner, !.clientPreedit = d.CurrentIC]
    <2>1. owner \in Owner /\ d.CurrentIC \in Owner  BY DEF Instance, Owner
    <2>2. Compose(d) = e  BY DEF Compose
    <2> HIDE DEF owner
    <2>3. SameContexts(d, e)  BY <2>1 DEF SameContexts, Instance
    <2> HIDE DEF e
    <2> QED  BY <2>2, <2>3
  <1>3. SameContexts(d, CommitComposed(d))
    <2>1. SameContexts(d, CleanInputWindow(d))  BY CleanInputWindowSame
    <2>2. CleanInputWindow(d) \in Instance  BY <2>1 DEF SameContexts
    <2> QED
      BY <2>1, <2>2, ResetInputSame, SameContextsTransitive DEF CommitComposed
  <1> QED  BY <1>1, <1>2, <1>3 DEF ProcessInputKey

LEMMA ProcessKeyKeeps ==
    ASSUME NEW d \in Instance, NEW key, NEW foreign
    PROVE  Keeps(d, ProcessKey(d, key, foreign))
  <1>1. Keeps(d, d)  BY KeepsItself
  <1>2. Keeps(d, ProcessTriggerKey(d, foreign))  BY ProcessTriggerKeyKeeps
  <1>3. Keeps(d, ProcessSwitchKey(d, foreign))  BY ProcessSwitchKeyKeeps
  <1>4. Keeps(d, SwitchIM(d, -1))
    <2>1. -1 \in Int  OBVIOUS
    <2> QED  BY <2>1, SwitchIMSame, SameContextsKeeps
  <1>5. Keeps(d, ProcessInputKey(d, key))
    BY ProcessInputKeySame, SameContextsKeeps
  <1> QED  BY <1>1, <1>2, <1>3, <1>4, <1>5 DEF ProcessKey

-----------------------------------------------------------------------------
(* The invariant of the instance, and the steps. *)

\* The lists are disjoint, the focus is on a listed context or none, ids name
\* contexts, and a frontend has given out no id past its counter.
Orderly(d) ==
    /\ d \in Instance
    /\ d.ic_list \intersect d.free_list = {}
    /\ FocusOK(d)
    /\ \A s, t \in d.ic_list :
         d.rec[s].frontendid = d.rec[t].frontendid /\ d.rec[s].id = d.rec[t].id
         => s = t
    /\ \A s \in d.ic_list :
         /\ d.rec[s].frontendid = "ipc" => d.rec[s].id < d.maxid["ipc"]
         /\ d.rec[s].frontendid = "xim" => d.rec[s].id <= d.maxid["xim"]

\* A step from d to e: e is in order, and if the contexts outside C shared
\* one state they still do, but for those that control their state.
Advances(d, e) ==
    /\ Orderly(e)
    /\ \A C \in SUBSET Slots :
         ShareState = "All" /\ Covers(d, C) /\ Coherent(d, C) =>
           \A s \in e.ic_list :
             s \in C \/ Controls(e.rec[s]) \/ e.rec[s].state = e.globalState

LEMMA KeepsAdvances ==
    ASSUME NEW d, NEW e, Orderly(d), Keeps(d, e)
    PROVE  Advances(d, e)
  <1>1. Orderly(e)
    <2>1. d \in Instance /\ e \in Instance  BY DEF Orderly, Keeps, Frame
    <2>2. e.ic_list \subseteq Slots  BY <2>1 DEF Instance
    <2>3. /\ e.ic_list \intersect e.free_list = {}
          /\ FocusOK(e)
      BY DEF Orderly, Keeps, Frame
    <2>4. \A s, t \in e.ic_list :
            e.rec[s].frontendid = e.rec[t].frontendid
              /\ e.rec[s].id = e.rec[t].id => s = t
      BY <2>2 DEF Orderly, Keeps, Frame
    <2>5. \A s \in e.ic_list :
            /\ e.rec[s].frontendid = "ipc" => e.rec[s].id < e.maxid["ipc"]
            /\ e.rec[s].frontendid = "xim" => e.rec[s].id <= e.maxid["xim"]
      BY <2>2 DEF Orderly, Keeps, Frame
    <2> QED  BY <2>1, <2>3, <2>4, <2>5 DEF Orderly
  <1>2. ASSUME NEW C \in SUBSET Slots,
               ShareState = "All", Covers(d, C), Coherent(d, C),
               NEW s \in e.ic_list
        PROVE  s \in C \/ e.rec[s].state = e.globalState
    BY <1>2 DEF Keeps, Coherent
  <1> QED  BY <1>1, <1>2 DEF Advances

LEMMA NullRecType == NullRec \in InputContextRec
  BY DEF NullRec, InputContextRec, Frontends, ContextState

LEMMA DestroyICAdvances ==
    ASSUME NEW d, Orderly(d), NEW ic \in d.ic_list
    PROVE  Advances(d, DestroyIC(d, ic))
  <1> DEFINE w == CloseInputWindow(d)
             out == SetCurrentIC(w, NoIC)
             e == IF d.CurrentIC = ic THEN out ELSE d
             code == IF e.codeInput = ic THEN GoneIC ELSE e.codeInput
             preedit == IF e.clientPreedit = ic THEN GoneIC ELSE e.clientPreedit
             recs == [e.rec EXCEPT ![ic] = NullRec]
             f == [e EXCEPT !.ic_list = e.ic_list \ {ic},
                            !.free_list = e.free_list \union {ic},
                            !.rec = recs,
                            !.codeInput = code, !.clientPreedit = preedit]
  <1>1. d \in Instance /\ ic \in Slots  BY DEF Orderly, Instance
  <1>2. DestroyIC(d, ic) = f  BY DEF DestroyIC
  <1>3. /\ e \in Instance /\ e.rec = d.rec
        /\ e.ic_list = d.ic_list /\ e.free_list = d.free_list
        /\ e.maxid = d.maxid /\ e.globalState = d.globalState
        /\ e.CurrentIC = IF d.CurrentIC = ic THEN NoIC ELSE d.CurrentIC
    <2>1. SameContexts(d, w)  BY <1>1, CloseInputWindowSame
    <2> HIDE DEF w
    <2>2. /\ out \in Instance /\ out.CurrentIC = NoIC /\ out.rec = w.rec
          /\ out.ic_list = w.ic_list /\ out.free_list = w.free_list
          /\ out.maxid = w.maxid /\ out.globalState = w.globalState
      BY <2>1 DEF SameContexts, SetCurrentIC, Instance
    <2> HIDE DEF out
    <2> QED  BY <1>1, <2>1, <2>2 DEF SameContexts
  <1> HIDE DEF e
  <1>4. code \in Owner /\ preedit \in Owner  BY <1>3 DEF Instance, Owner
  <1>5. /\ recs \in [Slots -> InputContextRec]
        /\ \A s \in Slots \ {ic} : recs[s] = d.rec[s]
    BY <1>1, <1>3, NullRecType DEF Instance
  <1> HIDE DEF code, preedit, recs
  <1>6. /\ f \in Instance /\ f.rec = recs
        /\ f.ic_list = d.ic_list \ {ic}
        /\ f.free_list = d.free_list \union {ic}
        /\ f.maxid = d.maxid /\ f.globalState = d.globalState
        /\ f.CurrentIC = IF d.CurrentIC = ic THEN NoIC ELSE d.CurrentIC
    BY <1>1, <1>3, <1>4, <1>5 DEF Instance
  <1> HIDE DEF f
  <1>7. \A s \in f.ic_list : s \in d.ic_list /\ s \in Slots /\ f.rec[s] = d.rec[s]
    BY <1>1, <1>5, <1>6 DEF Instance
  <1>8. Orderly(f)
    <2>1. f.ic_list \intersect f.free_list = {} /\ FocusOK(f)
      BY <1>6 DEF Orderly, FocusOK
    <2>2. \A s, t \in f.ic_list :
            f.rec[s].frontendid = f.rec[t].frontendid
              /\ f.rec[s].id = f.rec[t].id => s = t
      BY <1>7 DEF Orderly
    <2>3. \A s \in f.ic_list :
            /\ f.rec[s].frontendid = "ipc" => f.rec[s].id < f.maxid["ipc"]
            /\ f.rec[s].frontendid = "xim" => f.rec[s].id <= f.maxid["xim"]
      BY <1>6, <1>7 DEF Orderly
    <2> QED  BY <1>6, <2>1, <2>2, <2>3 DEF Orderly
  <1>9. ASSUME NEW C \in SUBSET Slots, Coherent(d, C), NEW s \in f.ic_list
        PROVE  s \in C \/ f.rec[s].state = f.globalState
    BY <1>6, <1>7, <1>9 DEF Coherent
  <1> QED  BY <1>2, <1>8, <1>9 DEF Advances

LEMMA SetCapacityAdvances ==
    ASSUME NEW d, Orderly(d), NEW ic \in d.ic_list, NEW flags \in SUBSET Capacity
    PROVE  Advances(d, [d EXCEPT !.rec[ic].contextCaps = flags])
  <1> DEFINE recs == [d.rec EXCEPT ![ic] = [@ EXCEPT !.contextCaps = flags]]
             f == [d EXCEPT !.rec = recs]
  <1>1. d \in Instance /\ ic \in Slots  BY DEF Orderly, Instance
  <1>2. [d EXCEPT !.rec[ic].contextCaps = flags] = f  OBVIOUS
  <1>3. /\ recs \in [Slots -> InputContextRec]
        /\ \A s \in Slots : /\ recs[s].frontendid = d.rec[s].frontendid
                            /\ recs[s].id = d.rec[s].id
                            /\ recs[s].state = d.rec[s].state
    BY <1>1 DEF Instance, InputContextRec
  <1> HIDE DEF recs
  <1>4. /\ f \in Instance /\ f.rec = recs
        /\ f.ic_list = d.ic_list /\ f.free_list = d.free_list
        /\ f.maxid = d.maxid /\ f.globalState = d.globalState
        /\ f.CurrentIC = d.CurrentIC
    BY <1>1, <1>3 DEF Instance
  <1> HIDE DEF f
  <1>5. \A s \in f.ic_list : /\ s \in d.ic_list
                            /\ f.rec[s].frontendid = d.rec[s].frontendid
                            /\ f.rec[s].id = d.rec[s].id
                            /\ f.rec[s].state = d.rec[s].state
    BY <1>1, <1>3, <1>4 DEF Instance
  <1>6. Orderly(f)
    <2>1. f.ic_list \intersect f.free_list = {} /\ FocusOK(f)
      BY <1>4 DEF Orderly, FocusOK
    <2>2. \A s, t \in f.ic_list :
            f.rec[s].frontendid = f.rec[t].frontendid
              /\ f.rec[s].id = f.rec[t].id => s = t
      BY <1>5 DEF Orderly
    <2>3. \A s \in f.ic_list :
            /\ f.rec[s].frontendid = "ipc" => f.rec[s].id < f.maxid["ipc"]
            /\ f.rec[s].frontendid = "xim" => f.rec[s].id <= f.maxid["xim"]
      BY <1>4, <1>5 DEF Orderly
    <2> QED  BY <1>4, <2>1, <2>2, <2>3 DEF Orderly
  <1>7. ASSUME NEW C \in SUBSET Slots, Coherent(d, C), NEW s \in f.ic_list
        PROVE  s \in C \/ f.rec[s].state = f.globalState
    BY <1>4, <1>5, <1>7 DEF Coherent
  <1> QED  BY <1>2, <1>6, <1>7 DEF Advances

\* A new context is of its frontend, has an id the frontend has not given out
\* and, when all share one state, that state unless it controls its own.
NewContext(d, r) ==
    /\ r \in InputContextRec
    /\ r.frontendid = "ipc" => r.id = d.maxid["ipc"]
    /\ r.frontendid = "xim" => r.id = d.maxid["xim"] + 1
    /\ ShareState = "All" => Controls(r) \/ r.state = d.globalState

LEMMA CreateICAdvances ==
    ASSUME NEW d, Orderly(d), NEW slot \in FreshSlots(d), NEW r,
           NewContext(d, r), NEW frontend \in Frontends, r.frontendid = frontend
    PROVE  Advances(d, [CreateIC(d, slot, r) EXCEPT !.maxid[frontend] = @ + 1])
  <1> DEFINE recs == [d.rec EXCEPT ![slot] = r]
             ids == [d.maxid EXCEPT ![frontend] = @ + 1]
             e == [d EXCEPT !.free_list = d.free_list \ {slot},
                            !.ic_list = d.ic_list \union {slot}, !.rec = recs]
             f == [e EXCEPT !.maxid = ids]
  <1>1. d \in Instance /\ slot \in Slots /\ slot \notin d.ic_list
    BY DEF Orderly, Instance, FreshSlots
  <1>2. [CreateIC(d, slot, r) EXCEPT !.maxid[frontend] = @ + 1] = f
    BY <1>1 DEF CreateIC, Instance
  <1>3. /\ recs \in [Slots -> InputContextRec] /\ recs[slot] = r
        /\ \A s \in Slots \ {slot} : recs[s] = d.rec[s]
    BY <1>1 DEF Instance, NewContext
  <1>4. /\ ids \in [Frontends -> Nat]
        /\ ids[frontend] = d.maxid[frontend] + 1
        /\ \A g \in Frontends : ids[g] >= d.maxid[g]
    BY <1>1 DEF Instance, Frontends
  <1> HIDE DEF recs, ids
  <1>5. /\ e \in Instance /\ e.rec = recs
        /\ e.ic_list = d.ic_list \union {slot}
        /\ e.free_list = d.free_list \ {slot}
        /\ e.globalState = d.globalState /\ e.CurrentIC = d.CurrentIC
    BY <1>1, <1>3 DEF Instance
  <1> HIDE DEF e
  <1>6. /\ f \in Instance /\ f.rec = recs /\ f.maxid = ids
        /\ f.ic_list = d.ic_list \union {slot}
        /\ f.free_list = d.free_list \ {slot}
        /\ f.globalState = d.globalState /\ f.CurrentIC = d.CurrentIC
    BY <1>4, <1>5 DEF Instance
  <1> HIDE DEF f
  <1>7. /\ f.rec[slot] = r
        /\ \A s \in f.ic_list \ {slot} : /\ s \in d.ic_list /\ s \in Slots
                                       /\ f.rec[s] = d.rec[s]
    BY <1>1, <1>3, <1>6 DEF Instance
  <1>8. Orderly(f)
    <2>1. f.ic_list \intersect f.free_list = {} /\ FocusOK(f)
      BY <1>6 DEF Orderly, FocusOK
    <2>2. \A s \in d.ic_list :
            d.rec[s].frontendid = frontend => d.rec[s].id # r.id
      <3>1. \A s \in d.ic_list : d.rec[s].id \in Nat
        BY <1>1 DEF Instance, InputContextRec
      <3>2. d.maxid \in [Frontends -> Nat]  BY <1>1 DEF Instance
      <3> QED  BY <3>1, <3>2 DEF Orderly, NewContext, Frontends
    <2>3. \A s, t \in f.ic_list :
            f.rec[s].frontendid = f.rec[t].frontendid
              /\ f.rec[s].id = f.rec[t].id => s = t
      BY <1>7, <2>2 DEF Orderly
    <2>4. ASSUME NEW s \in f.ic_list
          PROVE  /\ f.rec[s].frontendid = "ipc" => f.rec[s].id < f.maxid["ipc"]
                 /\ f.rec[s].frontendid = "xim" => f.rec[s].id <= f.maxid["xim"]
      <3>1. d.maxid \in [Frontends -> Nat]  BY <1>1 DEF Instance
      <3>2. CASE s = slot
        BY <1>4, <1>6, <1>7, <3>1, <3>2 DEF NewContext, Frontends
      <3>3. CASE s # slot
        <4>1. s \in d.ic_list /\ f.rec[s] = d.rec[s]  BY <1>7, <3>3
        <4>2. d.rec[s].id \in Nat  BY <1>1, <4>1 DEF Instance, InputContextRec
        <4> QED
          BY <1>4, <1>6, <3>1, <4>1, <4>2 DEF Orderly, Frontends
      <3> QED  BY <3>2, <3>3
    <2> QED  BY <1>6, <2>1, <2>3, <2>4 DEF Orderly
  <1>9. ASSUME NEW C \in SUBSET Slots, ShareState = "All", Coherent(d, C),
               NEW s \in f.ic_list
        PROVE  s \in C \/ Controls(f.rec[s]) \/ f.rec[s].state = f.globalState
    BY <1>6, <1>7, <1>9 DEF Coherent, NewContext
  <1> QED  BY <1>2, <1>8, <1>9 DEF Advances

\* XIMCreateICHandler may give the new context the focus.
LEMMA FocusAdvances ==
    ASSUME NEW d, NEW e, Advances(d, e), NEW ic \in e.ic_list
    PROVE  Advances(d, SetCurrentIC(e, ic))
  <1> DEFINE f == SetCurrentIC(e, ic)
  <1>1. e \in Instance /\ Orderly(e)  BY DEF Advances, Orderly
  <1>2. Orderly(f)  BY <1>1, SetCurrentICKeeps, KeepsAdvances DEF Advances
  <1>3. /\ f.ic_list = e.ic_list /\ f.rec = e.rec
        /\ f.globalState = e.globalState
    BY <1>1 DEF SetCurrentIC, Instance
  <1> SUFFICES Advances(d, f)  OBVIOUS
  <1> HIDE DEF f
  <1> QED  BY <1>2, <1>3 DEF Advances

-----------------------------------------------------------------------------
(* The events. *)

\* The handlers that neither create nor destroy nor reflag a context.
LEMMA KeepingStep ==
    ASSUME Orderly(inst), Keeps(inst, inst')
    PROVE  Advances(inst, inst')
  BY KeepsAdvances

LEMMA StateFromSameApplicationType ==
    ASSUME NEW d \in Instance, NEW r \in InputContextRec
    PROVE  StateFromSameApplication(d, r) \in ContextState
  <1> DEFINE same == {s \in d.ic_list : d.rec[s].frontendid = r.frontendid
                                          /\ SameApplication(d.rec[s], r)}
             newest == {s \in same : \A t \in same : d.rec[t].id <= d.rec[s].id}
             first == CHOOSE s \in newest : TRUE
  <1>1. StateFromSameApplication(d, r) =
          IF newest = {} THEN r.state ELSE d.rec[first].state
    BY DEF StateFromSameApplication
  <1>2. newest \subseteq Slots  BY DEF Instance
  <1> HIDE DEF newest
  <1>3. newest # {} => first \in Slots  BY <1>2
  <1> HIDE DEF first
  <1>4. \A s \in Slots : d.rec[s].state \in ContextState
    BY DEF Instance, InputContextRec
  <1>5. r.state \in ContextState  BY DEF InputContextRec
  <1> QED  BY <1>1, <1>3, <1>4, <1>5

LEMMA StateForNewICType ==
    ASSUME NEW d \in Instance
    PROVE  /\ StateForNewIC(d) \in ContextState
           /\ ShareState = "All" => StateForNewIC(d) = d.globalState
  BY ConfigAssumption DEF StateForNewIC, Instance

LEMMA IPCNewRecNew ==
    ASSUME NEW d, Orderly(d), NEW version, NEW app \in Apps \union {NoApp}
    PROVE  /\ NewContext(d, IPCNewRec(d, version, app))
           /\ IPCNewRec(d, version, app).frontendid = "ipc"
  <1> DEFINE state == StateForNewIC(d)
             r == [NullRec EXCEPT !.frontendid = "ipc", !.id = d.maxid["ipc"],
                                  !.state = state]
             v1 == [r EXCEPT !.state = "closed", !.contextCaps = {"control"}]
             named == [r EXCEPT !.app = app]
             shared == StateFromSameApplication(d, named)
             v2 == IF ShareState = "PerProgram"
                   THEN [named EXCEPT !.state = shared] ELSE named
             told == [v2 EXCEPT !.told = v2.state # "closed"]
  <1>1. d \in Instance /\ d.maxid["ipc"] \in Nat
    BY DEF Orderly, Instance, Frontends
  <1>2. state \in ContextState /\ (ShareState = "All" => state = d.globalState)
    BY <1>1, StateForNewICType
  <1> HIDE DEF state
  <1>3. /\ v1 \in InputContextRec /\ v1.frontendid = "ipc"
        /\ v1.id = d.maxid["ipc"] /\ Controls(v1)
    BY <1>1, <1>2
       DEF NullRec, InputContextRec, Frontends, ContextState, Capacity, Controls
  <1>4. /\ named \in InputContextRec /\ named.frontendid = "ipc"
        /\ named.id = d.maxid["ipc"] /\ named.state = state
    BY <1>1, <1>2 DEF NullRec, InputContextRec, Frontends, ContextState
  <1>5. IPCNewRec(d, version, app) = IF version = 1 THEN v1 ELSE told
    BY DEF IPCNewRec, state
  <1> HIDE DEF v1, named
  <1>6. shared \in ContextState  BY <1>1, <1>4, StateFromSameApplicationType
  <1> HIDE DEF shared
  <1>7. /\ v2 \in InputContextRec /\ v2.frontendid = "ipc"
        /\ v2.id = d.maxid["ipc"]
        /\ ShareState = "All" => v2.state = d.globalState
    BY <1>2, <1>4, <1>6 DEF InputContextRec
  <1> HIDE DEF v2
  <1>8. /\ told \in InputContextRec /\ told.frontendid = "ipc"
        /\ told.id = d.maxid["ipc"] /\ told.state = v2.state
    BY <1>7 DEF InputContextRec
  <1> HIDE DEF told
  <1> QED  BY <1>3, <1>5, <1>7, <1>8 DEF NewContext

LEMMA XimNewRecNew ==
    ASSUME NEW d, Orderly(d), NEW connection \in Apps
    PROVE  /\ NewContext(d, XimNewRec(d, connection))
           /\ XimNewRec(d, connection).frontendid = "xim"
  <1> DEFINE state == StateForNewIC(d)
             id == d.maxid["xim"] + 1
             r == [NullRec EXCEPT !.frontendid = "xim", !.id = id,
                                  !.app = connection, !.state = state]
             shared == StateFromSameApplication(d, r)
             done == IF ShareState = "PerProgram"
                     THEN [r EXCEPT !.state = shared] ELSE r
  <1>1. d \in Instance /\ d.maxid["xim"] \in Nat
    BY DEF Orderly, Instance, Frontends
  <1>2. state \in ContextState /\ (ShareState = "All" => state = d.globalState)
    BY <1>1, StateForNewICType
  <1>3. XimNewRec(d, connection) = done  BY DEF XimNewRec
  <1>4. id \in Nat /\ id = d.maxid["xim"] + 1  BY <1>1
  <1> HIDE DEF state, id
  <1>5. /\ r \in InputContextRec /\ r.frontendid = "xim"
        /\ r.id = id /\ r.state = state
    BY <1>2, <1>4 DEF NullRec, InputContextRec, Frontends, ContextState
  <1> HIDE DEF r
  <1>6. shared \in ContextState  BY <1>1, <1>5, StateFromSameApplicationType
  <1> HIDE DEF shared
  <1>7. /\ done \in InputContextRec /\ done.frontendid = "xim"
        /\ done.id = id
        /\ ShareState = "All" => done.state = d.globalState
    BY <1>2, <1>5, <1>6 DEF InputContextRec
  <1> HIDE DEF done
  <1> QED  BY <1>3, <1>7, <1>4 DEF NewContext

\* The context an id finds is one of the frontend's, or none.
LEMMA FindICListed ==
    ASSUME NEW d, NEW frontend, NEW id
    PROVE  FindIC(d, frontend, id) \in d.ic_list \union {NoIC}
  <1> DEFINE found == {s \in d.ic_list : d.rec[s].frontendid = frontend
                                           /\ d.rec[s].id = id}
             ic == CHOOSE s \in found : TRUE
  <1>1. FindIC(d, frontend, id) = IF found = {} THEN NoIC ELSE ic
    BY DEF FindIC
  <1>2. found \subseteq d.ic_list  OBVIOUS
  <1> HIDE DEF found
  <1>3. found # {} => ic \in found  OBVIOUS
  <1> QED  BY <1>1, <1>2, <1>3

LEMMA IPCCreateICAdvances ==
    ASSUME Orderly(inst), NEW version, NEW app \in Apps \union {NoApp},
           IPCCreateIC(version, app)
    PROVE  Advances(inst, inst')
  <1> DEFINE r == IPCNewRec(inst, version, app)
  <1>1. PICK slot \in FreshSlots(inst) :
          inst' = [CreateIC(inst, slot, r) EXCEPT !.maxid["ipc"] = @ + 1]
    BY DEF IPCCreateIC
  <1>2. NewContext(inst, r) /\ r.frontendid = "ipc"  BY IPCNewRecNew
  <1>3. "ipc" \in Frontends  BY DEF Frontends
  <1> HIDE DEF r
  <1> QED  BY <1>1, <1>2, <1>3, CreateICAdvances

LEMMA IPCProcessKeyKeeps ==
    ASSUME Orderly(inst), NEW ic \in inst.ic_list, NEW key,
           IPCProcessKey(ic, key)
    PROVE  Keeps(inst, inst')
  <1> DEFINE d == IF inst.CurrentIC = NoIC THEN SetCurrentIC(inst, ic) ELSE inst
  <1>1. inst \in Instance  BY DEF Orderly
  <1>2. ic \in Slots  BY <1>1 DEF Instance
  <1>3. Keeps(inst, d)  BY <1>1, SetCurrentICKeeps, KeepsItself
  <1>4. \/ \E foreign \in ForeignAnswers(ic) : inst' = EnableIM(d, ic, FALSE, foreign)
        \/ \E foreign \in ForeignAnswers(d.CurrentIC) :
             inst' = ProcessKey(d, key, foreign)
    BY DEF IPCProcessKey
  <1> HIDE DEF d
  <1>5. d \in Instance  BY <1>3 DEF Keeps, Frame
  <1>6. Keeps(d, inst')
    <2>1. ASSUME NEW foreign, inst' = EnableIM(d, ic, FALSE, foreign)
          PROVE  Keeps(d, inst')
      BY <1>2, <1>5, <2>1, StateChangesKeep
    <2>2. ASSUME NEW foreign, inst' = ProcessKey(d, key, foreign)
          PROVE  Keeps(d, inst')
      BY <1>5, <2>2, ProcessKeyKeeps
    <2> QED  BY <1>4, <2>1, <2>2
  <1> QED  BY <1>1, <1>3, <1>6, KeepsTransitive

LEMMA IpcNextAdvances ==
    ASSUME Orderly(inst), IpcNext
    PROVE  Advances(inst, inst')
  <1>1. inst \in Instance  BY DEF Orderly
  <1>2. CASE \E version \in ClientVersions, app \in Apps \union {NoApp} :
               IPCCreateIC(version, app)
    BY <1>2, IPCCreateICAdvances
  <1>3. CASE \E id \in 0 .. MaxId - 1 : IPCCall(id)
    <2>1. PICK id \in 0 .. MaxId - 1 : IPCCall(id)  BY <1>3
    <2> DEFINE ic == FindIC(inst, "ipc", id)
    <2>2. ic \in inst.ic_list
      BY <2>1, FindICListed DEF IPCCall
    <2>3. \/ IPCEnableIC(ic)
          \/ IPCCloseIC(ic)
          \/ IPCICFocusIn(ic)
          \/ IPCICFocusOut(ic)
          \/ IPCICReset(ic)
          \/ \E flags \in SUBSET ClientCaps : IPCSetCapacity(ic, flags)
          \/ IPCDestroyIC(ic)
          \/ \E key \in Keys : IPCProcessKey(ic, key)
      BY <2>1 DEF IPCCall
    <2> HIDE DEF ic
    <2>4. ic \in Slots \union {NoIC}  BY <1>1, <2>2 DEF Instance
    <2>5. CASE IPCEnableIC(ic)
      BY <1>1, <2>4, <2>5, StateChangesKeep, KeepingStep DEF IPCEnableIC
    <2>6. CASE IPCCloseIC(ic)
      BY <1>1, <2>4, <2>6, StateChangesKeep, KeepingStep DEF IPCCloseIC
    <2>7. CASE IPCICFocusIn(ic)
      BY <1>1, <2>2, <2>7, FocusInKeeps, KeepingStep DEF IPCICFocusIn
    <2>8. CASE IPCICFocusOut(ic)
      BY <1>1, <2>8, FocusOutKeeps, KeepingStep DEF IPCICFocusOut
    <2>9. CASE IPCICReset(ic)
      <3> DEFINE w == CloseInputWindow(inst)
      <3>1. SameContexts(inst, w)  BY <1>1, CloseInputWindowSame
      <3>2. inst' = ResetInput(w)  BY <2>9 DEF IPCICReset
      <3> HIDE DEF w
      <3>3. SameContexts(w, ResetInput(w))
        BY <3>1, ResetInputSame DEF SameContexts
      <3>4. SameContexts(inst, inst')  BY <3>1, <3>2, <3>3, SameContextsTransitive
      <3> QED  BY <1>1, <3>4, SameContextsKeeps, KeepingStep
    <2>10. CASE \E flags \in SUBSET ClientCaps : IPCSetCapacity(ic, flags)
      <3>1. PICK flags \in SUBSET ClientCaps : IPCSetCapacity(ic, flags)  BY <2>10
      <3>2. flags \in SUBSET Capacity  BY IpcAssumption
      <3> QED  BY <2>2, <3>1, <3>2, SetCapacityAdvances DEF IPCSetCapacity
    <2>11. CASE IPCDestroyIC(ic)
      BY <2>2, <2>11, DestroyICAdvances DEF IPCDestroyIC
    <2>12. CASE \E key \in Keys : IPCProcessKey(ic, key)
      BY <2>2, <2>12, IPCProcessKeyKeeps, KeepingStep
    <2> QED  BY <2>3, <2>5, <2>6, <2>7, <2>8, <2>9, <2>10, <2>11, <2>12
  <1>4. CASE IPCSetPropertyIMList
    BY <1>1, <1>4, UpdateIMListSame, SameContextsKeeps, KeepingStep
       DEF IPCSetPropertyIMList
  <1> QED  BY <1>2, <1>3, <1>4 DEF IpcNext

LEMMA XIMCreateICAdvances ==
    ASSUME Orderly(inst), NEW connection \in Apps, XIMCreateICHandler(connection)
    PROVE  Advances(inst, inst')
  <1> DEFINE r == XimNewRec(inst, connection)
             d(slot) == [CreateIC(inst, slot, r) EXCEPT !.maxid["xim"] = @ + 1]
  <1>1. PICK slot \in FreshSlots(inst) :
          inst' = IF d(slot).CurrentIC = NoIC THEN SetCurrentIC(d(slot), slot)
                                              ELSE d(slot)
    BY DEF XIMCreateICHandler
  <1>2. NewContext(inst, r) /\ r.frontendid = "xim"  BY XimNewRecNew
  <1>3. "xim" \in Frontends  BY DEF Frontends
  <1> DEFINE e == d(slot)
  <1> HIDE DEF r
  <1>4. Advances(inst, e)  BY <1>2, <1>3, CreateICAdvances
  <1>5. slot \in e.ic_list
    <2>1. inst \in Instance /\ slot \in Slots
      BY DEF Orderly, FreshSlots, Instance
    <2> QED  BY <2>1 DEF CreateIC, Instance
  <1>6. inst' = IF e.CurrentIC = NoIC THEN SetCurrentIC(e, slot) ELSE e
    BY <1>1
  <1> HIDE DEF e
  <1> QED  BY <1>4, <1>5, <1>6, FocusAdvances

LEMMA XIMTriggerNotifyKeeps ==
    ASSUME Orderly(inst), NEW ic \in inst.ic_list, XIMTriggerNotifyHandler(ic)
    PROVE  Keeps(inst, inst')
  <1> DEFINE d == SetCurrentIC(inst, ic)
  <1>1. inst \in Instance  BY DEF Orderly
  <1>2. ic \in Slots  BY <1>1 DEF Instance
  <1>3. Keeps(inst, d)  BY <1>1, SetCurrentICKeeps
  <1>4. PICK foreign : inst' = ShowInputSpeed(EnableIM(d, ic, FALSE, foreign))
    BY DEF XIMTriggerNotifyHandler
  <1> DEFINE e == EnableIM(d, ic, FALSE, foreign)
  <1>5. inst' = ShowInputSpeed(e)  BY <1>4
  <1> HIDE DEF d
  <1>6. d \in Instance  BY <1>3 DEF Keeps, Frame
  <1>7. Keeps(d, e)  BY <1>2, <1>6, StateChangesKeep
  <1> HIDE DEF e
  <1>8. e \in Instance  BY <1>7 DEF Keeps, Frame
  <1>9. Keeps(e, inst')
    BY <1>5, <1>8, ShowInputSpeedSame, SameContextsKeeps
  <1>10. Keeps(inst, e)  BY <1>1, <1>3, <1>7, KeepsTransitive
  <1> QED  BY <1>1, <1>9, <1>10, KeepsTransitive

LEMMA XIMProcessKeyKeeps ==
    ASSUME Orderly(inst), NEW id, NEW key, XIMProcessKey(id, key)
    PROVE  Keeps(inst, inst')
  <1> DEFINE found == FindIC(inst, "xim", id)
             d == IF inst.CurrentIC = NoIC THEN SetCurrentIC(inst, found)
                                           ELSE inst
             ic == IF d.CurrentIC # NoIC /\ CurrentXimId(d) = id
                   THEN d.CurrentIC ELSE found
  <1>1. inst \in Instance  BY DEF Orderly
  <1>2. found \in inst.ic_list \union {NoIC}  BY FindICListed
  <1>3. /\ ic # NoIC
        /\ \/ \E foreign \in ForeignAnswers(d.CurrentIC) :
                inst' = ProcessKey(d, key, foreign)
           \/ \E foreign \in ForeignAnswers(ic) :
                inst' = EnableIM(d, ic, FALSE, foreign)
           \/ inst' = d
    BY DEF XIMProcessKey
  <1> HIDE DEF found
  <1>4. Keeps(inst, d)  BY <1>1, <1>2, SetCurrentICKeeps, KeepsItself
  <1> HIDE DEF d
  <1>5. d \in Instance  BY <1>4 DEF Keeps, Frame
  <1>6. ic \in Slots \union {NoIC}  BY <1>1, <1>2, <1>5 DEF Instance
  <1> HIDE DEF ic
  <1>7. Keeps(d, inst')
    <2>1. ASSUME NEW foreign, inst' = ProcessKey(d, key, foreign)
          PROVE  Keeps(d, inst')
      BY <1>5, <2>1, ProcessKeyKeeps
    <2>2. ASSUME NEW foreign, inst' = EnableIM(d, ic, FALSE, foreign)
          PROVE  Keeps(d, inst')
      BY <1>5, <1>6, <2>2, StateChangesKeep
    <2>3. inst' = d => Keeps(d, inst')  BY <1>5, KeepsItself
    <2> QED  BY <1>3, <2>1, <2>2, <2>3
  <1> QED  BY <1>1, <1>4, <1>7, KeepsTransitive

LEMMA XimNextAdvances ==
    ASSUME Orderly(inst), XimNext
    PROVE  Advances(inst, inst')
  <1>1. inst \in Instance  BY DEF Orderly
  <1>2. CASE \E connection \in Apps : XIMCreateICHandler(connection)
    BY <1>2, XIMCreateICAdvances
  <1>3. CASE XIMCloseHandler
    BY <1>1, <1>3, CloseInputWindowSame, SameContextsKeeps, KeepingStep
       DEF XIMCloseHandler
  <1>4. ASSUME NEW id \in 1 .. MaxId,
               \/ XIMDestroyICHandler(FindIC(inst, "xim", id))
               \/ XIMSetFocusHandler(FindIC(inst, "xim", id))
               \/ XIMUnsetFocusHandler(id)
               \/ XIMTriggerNotifyHandler(FindIC(inst, "xim", id))
               \/ \E key \in Keys : XIMProcessKey(id, key)
        PROVE  Advances(inst, inst')
    <2> DEFINE ic == FindIC(inst, "xim", id)
    <2>1. ic # NoIC => ic \in inst.ic_list  BY FindICListed
    <2>2. \/ XIMDestroyICHandler(ic)
          \/ XIMSetFocusHandler(ic)
          \/ XIMUnsetFocusHandler(id)
          \/ XIMTriggerNotifyHandler(ic)
          \/ \E key \in Keys : XIMProcessKey(id, key)
      BY <1>4
    <2> HIDE DEF ic
    <2>3. CASE XIMDestroyICHandler(ic)
      BY <2>1, <2>3, DestroyICAdvances DEF XIMDestroyICHandler
    <2>4. CASE XIMSetFocusHandler(ic)
      BY <1>1, <2>1, <2>4, FocusInKeeps, KeepingStep DEF XIMSetFocusHandler
    <2>5. CASE XIMUnsetFocusHandler(id)
      BY <1>1, <2>5, FocusOutKeeps, KeepingStep DEF XIMUnsetFocusHandler
    <2>6. CASE XIMTriggerNotifyHandler(ic)
      <3>1. ic # NoIC  BY <2>6 DEF XIMTriggerNotifyHandler
      <3> QED  BY <2>1, <2>6, <3>1, XIMTriggerNotifyKeeps, KeepingStep
    <2>7. CASE \E key \in Keys : XIMProcessKey(id, key)
      BY <2>7, XIMProcessKeyKeeps, KeepingStep
    <2> QED  BY <2>2, <2>3, <2>4, <2>5, <2>6, <2>7
  <1> QED  BY <1>2, <1>3, <1>4 DEF XimNext

LEMMA ControlsNextKeeps ==
    ASSUME Orderly(inst), ControlsNext
    PROVE  Keeps(inst, inst')
  <1> DEFINE ic == inst.CurrentIC
  <1>1. inst \in Instance  BY DEF Orderly
  <1>2. ic \in Slots \union {NoIC}  BY <1>1 DEF Instance
  <1>3. ASSUME NEW cmd \in Commands, RemoteProcessEvent(cmd)
        PROVE  Keeps(inst, inst')
    <2>1. PICK foreign :
            \/ inst' = EnableIM(inst, ic, FALSE, foreign)
            \/ inst' = CloseIM(inst, ic, foreign)
            \/ inst' = ChangeIMState(EnableIM(inst, ic, FALSE, foreign), ic, foreign)
            \/ inst' = ChangeIMState(inst, ic, foreign)
      BY <1>3 DEF RemoteProcessEvent, Commands
    <2> DEFINE e == EnableIM(inst, ic, FALSE, foreign)
    <2>2. Keeps(inst, e)  BY <1>1, <1>2, StateChangesKeep
    <2>3. /\ Keeps(inst, CloseIM(inst, ic, foreign))
          /\ Keeps(inst, ChangeIMState(inst, ic, foreign))
      BY <1>1, <1>2, StateChangesKeep
    <2>4. \/ inst' = e
          \/ inst' = CloseIM(inst, ic, foreign)
          \/ inst' = ChangeIMState(e, ic, foreign)
          \/ inst' = ChangeIMState(inst, ic, foreign)
      BY <2>1
    <2> HIDE DEF e
    <2>5. Keeps(e, ChangeIMState(e, ic, foreign))
      <3>1. e \in Instance  BY <2>2 DEF Keeps, Frame
      <3> QED  BY <1>2, <3>1, StateChangesKeep
    <2>6. Keeps(inst, ChangeIMState(e, ic, foreign))
      BY <1>1, <2>2, <2>5, KeepsTransitive
    <2> QED  BY <2>2, <2>3, <2>4, <2>6
  <1>4. CASE ClickLogo
    BY <1>1, <1>2, <1>4, StateChangesKeep DEF ClickLogo
  <1>5. ASSUME NEW index \in 0 .. IMCount - 1, IMMenuAction(index)
        PROVE  Keeps(inst, inst')
    <2> DEFINE d == SwitchIM(inst, index)
    <2>1. Keeps(inst, d)  BY <1>1, SwitchIMSame, SameContextsKeeps
    <2>2. PICK foreign : \/ inst' = CloseIM(inst, ic, foreign)
                         \/ inst' = EnableIM(d, ic, FALSE, foreign)
                         \/ inst' = d
      BY <1>5 DEF IMMenuAction
    <2> HIDE DEF d
    <2>3. d \in Instance  BY <2>1 DEF Keeps, Frame
    <2>4. Keeps(d, EnableIM(d, ic, FALSE, foreign))
      BY <1>2, <2>3, StateChangesKeep
    <2>5. Keeps(inst, EnableIM(d, ic, FALSE, foreign))
      BY <1>1, <2>1, <2>4, KeepsTransitive
    <2> QED  BY <1>1, <1>2, <2>1, <2>2, <2>5, StateChangesKeep
  <1>6. CASE ClickIMIcon
    <2>1. -1 \in Int  OBVIOUS
    <2> QED
      BY <1>1, <1>6, <2>1, SwitchIMSame, SameContextsKeeps DEF ClickIMIcon
  <1>7. CASE SwitchVK
    <2> DEFINE d == CloseInputWindow(inst)
    <2>1. Keeps(inst, d)  BY <1>1, CloseInputWindowSame, SameContextsKeeps
    <2>2. PICK foreign : inst' = EnableIM(d, ic, TRUE, foreign) \/ inst' = d
      BY <1>7 DEF SwitchVK
    <2> HIDE DEF d
    <2>3. d \in Instance  BY <2>1 DEF Keeps, Frame
    <2>4. Keeps(d, EnableIM(d, ic, TRUE, foreign))
      BY <1>2, <2>3, StateChangesKeep
    <2>5. Keeps(inst, EnableIM(d, ic, TRUE, foreign))
      BY <1>1, <2>1, <2>4, KeepsTransitive
    <2> QED  BY <2>1, <2>2, <2>5
  <1>8. CASE ReloadConfig
    BY <1>1, <1>8, UpdateIMListSame, SameContextsKeeps DEF ReloadConfig
  <1> QED  BY <1>3, <1>4, <1>5, <1>6, <1>7, <1>8 DEF ControlsNext

-----------------------------------------------------------------------------
(* The inductive invariant.  ListsOK alone is not inductive: that a new id *)
(* is fresh needs the counters to bound the ids given out.  Nor is         *)
(* SharedStateCoherent: that a change reaches all free contexts needs the  *)
(* history to cover every context that controls its state.                 *)

IInv ==
    /\ Orderly(inst)
    /\ controlled \subseteq Slots \union Apps \union {NoApp}
    /\ Covers(inst, controlled)
    /\ ShareState = "All" => Coherent(inst, controlled)

\* The instance before a frontend runs.
BlankInstance ==
    [ic_list |-> {}, free_list |-> {}, rec |-> [s \in Slots |-> NullRec],
     CurrentIC |-> NoIC, globalState |-> DefaultIMState,
     imcount |-> 0, iIMIndex |-> 0, lastIMIndex |-> 0,
     codeInput |-> NoIC, clientPreedit |-> NoIC,
     maxid |-> [f \in Frontends |-> 0]]

LEMMA InitInstanceFacts ==
    ASSUME NEW count \in 0 .. IMCount, NEW saved \in CurrentIndices(count)
    PROVE  LET d == InitInstance(count, saved)
               loaded == UpdateIMList(BlankInstance, count, saved)
               selected == SwitchIM(loaded, loaded.iIMIndex)
           IN  /\ BlankInstance \in Instance
               /\ loaded \in Instance /\ selected \in Instance
               /\ d \in Instance
               /\ d.ic_list = {} /\ d.free_list = {} /\ d.CurrentIC = NoIC
               /\ d.globalState = DefaultIMState
               /\ d.imcount = selected.imcount /\ d.iIMIndex = selected.iIMIndex
               /\ d.lastIMIndex = selected.iIMIndex
               /\ d.clientPreedit = selected.clientPreedit
               /\ d.codeInput = selected.codeInput
  <1> DEFINE recs == [s \in Slots |-> NullRec]
             ids == [f \in Frontends |-> 0]
             blank == BlankInstance
             loaded == UpdateIMList(blank, count, saved)
             selected == SwitchIM(loaded, loaded.iIMIndex)
             d == [selected EXCEPT !.lastIMIndex = selected.iIMIndex]
  <1>1. recs \in [Slots -> InputContextRec]  BY NullRecType
  <1>2. ids \in [Frontends -> Nat]  OBVIOUS
  <1>3. blank = [ic_list |-> {}, free_list |-> {}, rec |-> recs,
                 CurrentIC |-> NoIC, globalState |-> DefaultIMState,
                 imcount |-> 0, iIMIndex |-> 0, lastIMIndex |-> 0,
                 codeInput |-> NoIC, clientPreedit |-> NoIC, maxid |-> ids]
    BY DEF BlankInstance
  <1>4. InitInstance(count, saved) = d
    BY DEF InitInstance, BlankInstance
  <1> HIDE DEF recs, ids, blank
  <1>5. /\ blank \in Instance
        /\ blank.ic_list = {} /\ blank.free_list = {} /\ blank.CurrentIC = NoIC
        /\ blank.globalState = DefaultIMState
    BY <1>1, <1>2, <1>3, ConfigAssumption, IMAssumption DEF Instance, Owner
  <1>6. SameContexts(blank, loaded)  BY <1>5, UpdateIMListSame
  <1> HIDE DEF loaded
  <1>7. loaded \in Instance /\ loaded.iIMIndex \in Int
    BY <1>6 DEF SameContexts, Instance
  <1>8. SameContexts(loaded, selected)  BY <1>7, SwitchIMSame
  <1> HIDE DEF selected
  <1>9. selected \in Instance  BY <1>8 DEF SameContexts
  <1>10. /\ d \in Instance
         /\ d.ic_list = selected.ic_list /\ d.free_list = selected.free_list
         /\ d.CurrentIC = selected.CurrentIC
         /\ d.globalState = selected.globalState
         /\ d.imcount = selected.imcount /\ d.iIMIndex = selected.iIMIndex
         /\ d.lastIMIndex = selected.iIMIndex
         /\ d.clientPreedit = selected.clientPreedit
         /\ d.codeInput = selected.codeInput
    BY <1>9 DEF Instance
  <1> HIDE DEF d
  <1>11. /\ d.ic_list = {} /\ d.free_list = {} /\ d.CurrentIC = NoIC
         /\ d.globalState = DefaultIMState
    BY <1>5, <1>6, <1>8, <1>10 DEF SameContexts
  <1> QED
    BY <1>4, <1>5, <1>7, <1>9, <1>10, <1>11 DEF blank, loaded, selected

LEMMA InitIInv == Init => IInv
  <1> SUFFICES ASSUME Init PROVE IInv  OBVIOUS
  <1>1. PICK count \in 0 .. IMCount : \E saved \in CurrentIndices(count) :
          inst = InitInstance(count, saved)
    BY DEF Init
  <1>2. PICK saved \in CurrentIndices(count) : inst = InitInstance(count, saved)
    BY <1>1
  <1>3. inst \in Instance  BY <1>2, InitInstanceFacts
  <1>4. inst.ic_list = {} /\ inst.free_list = {} /\ inst.CurrentIC = NoIC
    BY <1>2, InitInstanceFacts
  <1>5. Orderly(inst)  BY <1>3, <1>4 DEF Orderly, FocusOK
  <1>6. controlled = {}  BY DEF Init
  <1> QED  BY <1>4, <1>5, <1>6 DEF IInv, Covers, Coherent

LEMMA EventAdvances ==
    ASSUME Orderly(inst), Event
    PROVE  Advances(inst, inst')
  BY IpcNextAdvances, XimNextAdvances, ControlsNextKeeps, KeepingStep DEF Event

LEMMA NextIInv == IInv /\ [Next]_vars => IInv'
  <1> SUFFICES ASSUME IInv, [Next]_vars PROVE IInv'  OBVIOUS
  <1>1. CASE UNCHANGED vars
    BY <1>1 DEF IInv, vars, Orderly, FocusOK, Covers, Coherent
  <1>2. CASE Next
    <2> DEFINE C == controlled \intersect Slots
    <2>1. Advances(inst, inst')  BY <1>2, EventAdvances DEF IInv, Next
    <2>2. controlled' = (controlled \ (Slots \ inst'.ic_list))
                          \union ControlledNow(inst')
      BY <1>2 DEF Next
    <2>3. Orderly(inst') /\ inst' \in Instance /\ inst \in Instance
      BY <2>1 DEF Advances, Orderly, IInv
    <2>4. inst'.ic_list \subseteq Slots /\ inst.ic_list \subseteq Slots
      BY <2>3 DEF Instance
    <2>5. ControlledNow(inst') \subseteq Slots \union Apps \union {NoApp}
      BY <2>3, <2>4 DEF ControlledNow, Instance, InputContextRec
    <2>6. controlled' \subseteq Slots \union Apps \union {NoApp}
      BY <2>2, <2>5 DEF IInv
    <2>7. \A s \in inst'.ic_list : Controls(inst'.rec[s]) => s \in controlled'
      BY <2>2 DEF ControlledNow
    <2>8. ASSUME ShareState = "All"
          PROVE  \A s \in inst'.ic_list \ controlled' :
                   inst'.rec[s].state = inst'.globalState
      <3>1. Covers(inst, C) /\ Coherent(inst, C)
        BY <2>4, <2>8 DEF IInv, Covers, Coherent
      <3>2. \A s \in inst'.ic_list :
              \/ s \in C
              \/ Controls(inst'.rec[s])
              \/ inst'.rec[s].state = inst'.globalState
        BY <2>1, <2>8, <3>1 DEF Advances
      <3>3. \A s \in inst'.ic_list : s \in C => s \in controlled'
        BY <2>2
      <3> QED  BY <2>7, <3>2, <3>3
    <2>9. Orderly(inst)'  BY <2>3 DEF Orderly, FocusOK
    <2>10. Covers(inst, controlled)'  BY <2>7 DEF Covers
    <2>11. (ShareState = "All" => Coherent(inst, controlled))'
      BY <2>8 DEF Coherent
    <2> QED  BY <2>6, <2>9, <2>10, <2>11 DEF IInv
  <1> QED  BY <1>1, <1>2

LEMMA IInvInvariant == Spec => []IInv
  BY InitIInv, NextIInv, PTL DEF Spec

\* Every field of the instance keeps its type: in particular no call of
\* FcitxInstanceSwitchIM leaves the index beyond one past the longest list.
THEOREM TypeCorrect == Spec => []TypeOK
  <1>1. IInv => TypeOK  BY DEF IInv, TypeOK, Orderly
  <1> QED  BY <1>1, IInvInvariant, PTL

\* However many contexts, frontends and applications there are, no context is
\* on both lists, the focus is on a living context, and an id names one
\* context of its frontend.
THEOREM ListsCorrect == Spec => []ListsOK
  <1>1. IInv => ListsOK  BY DEF IInv, ListsOK, Orderly, FocusOK
  <1> QED  BY <1>1, IInvInvariant, PTL

\* ShareStateAmongWindow=All keeps all contexts whose clients leave the state
\* to the daemon in the global state, for every configuration of the rest.
THEOREM SharedStateCorrect == Spec => []SharedStateCoherent
  <1>1. IInv => SharedStateCoherent
    BY DEF IInv, SharedStateCoherent, Coherent, Free
  <1> QED  BY <1>1, IInvInvariant, PTL
=============================================================================
