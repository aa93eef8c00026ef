--------------------------- MODULE InputMethodList ---------------------------
(* The list of input methods: availimes and imes of FcitxInstance, the      *)
(* profile that remembers them, and the loading of a method on first use.   *)
(* SwitchIM and UpdateIMList call each other; the calls in progress are a   *)
(* stack, because a signal may find the daemon between any two steps.       *)
EXTENDS Integers, Sequences, FiniteSets

CONSTANTS
    Methods,        \* uniqueName of every installed input method
    NoMethod,       \* no name: the default of IMName, "" in the file
    Addons,
    NoAddon,
    Owner,          \* [Methods -> Addons]
    ByConfigFile,   \* addons with IMRM_CONFIGFILE; the others register themselves
    Priority,       \* [Methods -> the priority given to RegisterIM]
    FilePriority,   \* [Methods -> the priority in the inputmethod file]
    NameOrder,      \* [Methods -> the place of the name in the order of strcmp]
    PrefixOf,       \* [Methods -> the methods whose name starts with this one's]
    Uses,           \* [Methods -> the addon a function of which Init calls, or NoAddon]
    BrokenSets,     \* sets of methods that their addon may fail to register
    SettableLists,  \* values of the D-Bus property IMList that clients set
    MaxDepth,       \* bound on the calls in progress
    MaxRuns,        \* bound on the starts of the daemon
    MaxChanges      \* bound on the calls and signals of one run

VARIABLES
    inst,       \* FcitxInstance, lost when the daemon ends
    disk,       \* ~/.config/fcitx/profile
    life,       \* "down", "boot" (inside FcitxInstanceCreate) or "up"
    setup,      \* what does not change: the broken methods, firstAsInactive
    count,      \* the starts so far, and the calls and signals of this run
    promise     \* what the properties compare with, see Promise

vars == <<inst, disk, life, setup, count, promise>>

ASSUME MethodsAssumption ==
    /\ IsFiniteSet(Methods) /\ Methods # {}
    /\ NoMethod \notin Methods
    /\ BrokenSets \subseteq SUBSET Methods

ASSUME OwnersAssumption ==
    /\ NoAddon \notin Addons
    /\ Owner \in [Methods -> Addons] /\ Uses \in [Methods -> Addons \union {NoAddon}]

\* strcmp tells names apart, and a name starts with itself.
ASSUME NamesAssumption ==
    /\ Priority \in [Methods -> Int] /\ FilePriority \in [Methods -> Int]
    /\ NameOrder \in [Methods -> Int]
    /\ \A m, n \in Methods : NameOrder[m] = NameOrder[n] => m = n
    /\ PrefixOf \in [Methods -> SUBSET Methods]
    /\ \A m \in Methods : m \in PrefixOf[m]

ASSUME BoundsAssumption == MaxDepth \in Nat /\ MaxDepth >= 2 /\ MaxRuns \in Nat /\ MaxChanges \in Nat

Entry(m, on) == [name |-> m, on |-> on]
NoProfile == [imName |-> NoMethod, imList |-> <<>>]

\* avail: availimes; loaded: which Create of its owner registered a name, 0
\* while it is not initialized; created: the calls of Create per addon; imes:
\* the enabled methods, as copies of entries of availimes.
Entries == [name: Methods, on: BOOLEAN]
Profiles == [imName: Methods \union {NoMethod}, imList: Seq(Entries)]
Frames == [at: {"boot", "booted", "clear", "listed", "unlisted", "load", "reload", "init",
                "save", "write"},
           method: Methods \union {NoMethod}, old: Int, list: Seq(Entries)]
IMs == [name: Methods, klass: Nat]
Instance == [avail: SUBSET Methods, loaded: [Methods -> Nat], created: [Addons -> Nat],
             imes: Seq(IMs),
             iIMIndex: Int, lastIMIndex: Int, profile: Profiles, stack: Seq(Frames)]

ASSUME ListsAssumption == SettableLists \subseteq Seq(Entries)

\* A client sends back the list it got, in another order or with other methods
\* on: a name is in it once.
ASSUME ClientsAssumption ==
    \A list \in SettableLists :
      \A i, j \in 1 .. Len(list) : list[i].name = list[j].name => i = j

\* on, off: the names a client last turned on and off, once its call returned;
\* current: the method saved when the daemon was ended between two calls;
\* lost: since the last call a method that was to be loaded left the list.
Promise == [on: SUBSET Methods, off: SUBSET Methods,
            current: Methods \union {NoMethod}, lost: BOOLEAN]

------------------------------------------------------------------------------
(* Lookups                                                                  *)

NamesOf(list) == {list[i].name : i \in 1 .. Len(list)}

\* The elements of list that are in S, in their order.
Kept(list, S) ==
    LET kept[i \in 0 .. Len(list)] ==
          IF i = 0 THEN <<>>
          ELSE IF list[i] \in S THEN Append(kept[i - 1], list[i]) ELSE kept[i - 1]
    IN kept[Len(list)]

Turned(list, on) == Kept(list, [name: Methods, on: {on}])
TurnedOn(list) == Turned(list, TRUE)

\* FcitxInstanceGetIMIndexByName: the first entry when there is none.
GetIMIndexByName(list, m) ==
    IF m \in NamesOf(list)
    THEN (CHOOSE i \in 1 .. Len(list) :
            list[i].name = m /\ \A j \in 1 .. i - 1 : list[j].name # m) - 1
    ELSE 0

\* utarray_eltptr
HasElement(list, index) == index \in 0 .. Len(list) - 1
Element(list, index) == list[index + 1]

PriorityOf(m) == IF inst.loaded[m] = 0 THEN FilePriority[m] ELSE Priority[m]

\* IMPriorityCmp
Before(m, n) ==
    \/ PriorityOf(m) < PriorityOf(n)
    \/ PriorityOf(m) = PriorityOf(n) /\ NameOrder[m] < NameOrder[n]

\* The names of S as they are sorted.
Sorted(S) ==
    [k \in 1 .. Cardinality(S) |->
       CHOOSE m \in S : Cardinality({n \in S : Before(n, m)}) = k - 1]

PRIORITY_DISABLE == 100

\* The inputmethod files: none is off by default, and the name of none starts
\* that of another method.
ASSUME FilesAssumption ==
    \A m \in Methods :
      Owner[m] \in ByConfigFile => PrefixOf[m] = {m} /\ FilePriority[m] < PRIORITY_DISABLE

Names(list) == [i \in 1 .. Len(list) |-> list[i].name]
Copies(names) == [i \in 1 .. Len(names) |-> [name |-> names[i], klass |-> inst.loaded[names[i]]]]
Switched(names, on) == [i \in 1 .. Len(names) |-> Entry(names[i], on)]

\* Mutant: an entry turned off is added as well.
ListedOff(list) == Copies(Kept(Names(list), inst.avail))

\* The methods a list of the profile turns on.
Listed(list) == Copies(Kept(Names(TurnedOn(list)), inst.avail))

\* The methods it does not know (IMIsInIMNameList: a name is known when a
\* listed one starts with it), unless they are off by default.
Unlisted(list) ==
    Copies(Sorted({m \in inst.avail : /\ PrefixOf[m] \intersect NamesOf(list) = {}
                                      /\ PriorityOf(m) < PRIORITY_DISABLE}))

\* Mutant: the first method is written as the current one.
SyncedFirst ==
    [imName |-> IF inst.imes = <<>> THEN NoMethod ELSE inst.imes[1].name,
     imList |-> Switched(Names(inst.imes), TRUE)
                \o Switched(Sorted(inst.avail \ NamesOf(inst.imes)), FALSE)]

\* FilterIMName and FilterIMList: the profile written for the state in memory.
\* In which order the methods that are off stand does not matter: a list is
\* asked for those that are on.
Synced ==
    LET index == IF setup.firstAsInactive /\ inst.iIMIndex = 0 /\ inst.lastIMIndex # 0
                 THEN inst.lastIMIndex ELSE inst.iIMIndex
    IN [imName |-> IF HasElement(inst.imes, index) THEN Element(inst.imes, index).name
                   ELSE NoMethod,
        imList |-> Switched(Names(inst.imes), TRUE)
                   \o Switched(Sorted(inst.avail \ NamesOf(inst.imes)), FALSE)]

------------------------------------------------------------------------------
(* Loading                                                                  *)

\* The methods Create of an addon registers; FcitxInstanceRegisterIM refuses a
\* priority of 0.
Registers(a) == {m \in Methods \ setup.broken : Owner[m] = a /\ Priority[m] > 0}

\* FcitxInstanceLoadIM: Create is called whether or not the addon was loaded
\* before, and an entry that is initialized is not registered again.  An addon
\* that registers nothing is one whose library fails to load.
LoadIM(a) ==
    IF a = NoAddon \/ Registers(a) = {} THEN inst
    ELSE [inst EXCEPT
            !.avail = @ \union Registers(a),
            !.loaded = [m \in Methods |-> IF m \in Registers(a) /\ @[m] = 0
                                          THEN inst.created[a] + 1 ELSE @[m]],
            !.created[a] = @ + 1]

------------------------------------------------------------------------------
(* Calls in progress                                                        *)

Frame(at, method, old) == [at |-> at, method |-> method, old |-> old, list |-> <<>>]
UpdateIMList == Frame("clear", NoMethod, 0)

Top == inst.stack[Len(inst.stack)]
Below == SubSeq(inst.stack, 1, Len(inst.stack) - 1)
GoOn(at) == Append(Below, [Top EXCEPT !.at = at])

\* A step of the call in progress.
At(at) ==
    /\ life # "down"
    /\ inst.stack # <<>>
    /\ Top.at = at
    /\ UNCHANGED <<setup, count>>

\* The index a save is decided on: the one firstAsInactive returns to.
Remembered(index, last) == IF index = 0 /\ last # 0 THEN last ELSE index

\* Mutant: the method after the last one is selected.
SelectedNoWrap(n, current, index, skipZero) ==
    LET i == CASE index >= n -> n - 1
               [] index < n /\ index >= 0 -> index
               [] index < n /\ index = -1 -> current + 1
               [] index < n /\ index = -2 -> IF current > 0 THEN current - 1 ELSE n - 1
    IN IF skipZero /\ i = 0 THEN 1 ELSE i

\* The index SwitchIM selects among n methods; -1 and -2 ask for the next and
\* the previous one.  Without methods it is -1.
Selected(n, current, index, skipZero) ==
    LET i == CASE index >= n -> n - 1
               [] index < n /\ index >= 0 -> index
               [] index < n /\ index = -1 -> IF current >= n - 1 THEN 0 ELSE current + 1
               [] index < n /\ index = -2 -> IF current > 0 THEN current - 1 ELSE n - 1
    IN IF skipZero /\ i = 0 THEN 1 ELSE i

\* FcitxInstanceSwitchIMInternal up to the lazy load: the state s with this
\* call on its stack.
SwitchIM(s, index, skipZero) ==
    LET new == Selected(Len(s.imes), s.iIMIndex, index, skipZero)
        old == Remembered(s.iIMIndex, s.lastIMIndex)
        lazy == HasElement(s.imes, new) /\ Element(s.imes, new).klass = 0
    IN [s EXCEPT !.iIMIndex = new,
                 !.stack = Append(@, IF lazy THEN Frame("load", Element(s.imes, new).name, old)
                                     ELSE Frame("init", NoMethod, old))]

\* Mutant: the list keeps its copies when the method is loaded.
LoadInPlace ==
    /\ At("load")
    /\ inst' = [LoadIM(Owner[Top.method]) EXCEPT !.stack = GoOn("init")]
    /\ UNCHANGED <<disk, life, promise>>

\* Mutant: an entry its addon does not register stays in the list.
LoadWithoutErase ==
    /\ At("load")
    /\ Len(inst.stack) < MaxDepth
    /\ inst' = [LoadIM(Owner[Top.method]) EXCEPT
                  !.stack = Append(GoOn("reload"), UpdateIMList)]
    /\ UNCHANGED <<disk, life, promise>>

\* Lazy load; an entry its addon does not register is erased.
Load ==
    /\ At("load")
    /\ Len(inst.stack) < MaxDepth
    /\ inst' = [LoadIM(Owner[Top.method]) EXCEPT
                  !.avail = IF LoadIM(Owner[Top.method]).loaded[Top.method] = 0
                            THEN @ \ {Top.method} ELSE @,
                  !.stack = Append(GoOn("reload"), UpdateIMList)]
    /\ UNCHANGED <<disk, life, promise>>

\* The method is looked up in the new list; the first one if it is gone.
Reload ==
    /\ At("reload")
    /\ inst' = [inst EXCEPT !.iIMIndex = GetIMIndexByName(inst.imes, Top.method),
                            !.stack = GoOn("init")]
    /\ promise' = [promise EXCEPT !.lost = @ \/ Top.method \notin NamesOf(inst.imes)]
    /\ UNCHANGED <<disk, life>>

\* Init of the method: TableInit calls a function of the pinyin addon, which
\* FcitxModuleInvokeFunction loads if it never was.  The profile is saved when
\* the remembered index changed.
InitIM ==
    /\ At("init")
    /\ LET current == HasElement(inst.imes, inst.iIMIndex)
           im == Element(inst.imes, inst.iIMIndex)
           uses == IF current /\ im.klass # 0 THEN Uses[im.name] ELSE NoAddon
           fresh == uses # NoAddon /\ inst.created[uses] = 0
           last == IF setup.firstAsInactive /\ inst.iIMIndex # 0 THEN inst.iIMIndex
                   ELSE inst.lastIMIndex
           new == Remembered(inst.iIMIndex, last)
       IN inst' = [(IF fresh THEN LoadIM(uses) ELSE inst) EXCEPT
                     !.lastIMIndex = last,
                     !.stack = IF new # Top.old THEN GoOn("save") ELSE Below]
    /\ UNCHANGED <<disk, life, promise>>

------------------------------------------------------------------------------
(* FcitxInstanceUpdateIMList and FcitxProfileSave                           *)

\* The list of the profile is taken apart, imes is cleared.
Clear ==
    /\ At("clear")
    /\ inst' = [inst EXCEPT !.imes = <<>>,
                            !.stack = Append(Below, [Top EXCEPT !.at = "listed",
                                                                !.list = inst.profile.imList])]
    /\ UNCHANGED <<disk, life, promise>>

AddListed ==
    /\ At("listed")
    /\ inst' = [inst EXCEPT !.imes = Listed(Top.list), !.stack = GoOn("unlisted")]
    /\ UNCHANGED <<disk, life, promise>>

\* Mutant: only the switch saves, when the remembered index changed.
AddUnlistedUnsaved ==
    /\ At("unlisted")
    /\ Len(inst.stack) < MaxDepth
    /\ LET imes == inst.imes \o Unlisted(Top.list)
           index == GetIMIndexByName(imes, inst.profile.imName)
       IN inst' = SwitchIM([inst EXCEPT !.imes = imes, !.iIMIndex = index, !.stack = Below],
                           index, setup.firstAsInactive)
    /\ UNCHANGED <<disk, life, promise>>

AddUnlisted ==
    /\ At("unlisted")
    /\ Len(inst.stack) < MaxDepth
    /\ \E imes \in {inst.imes \o Unlisted(Top.list)} :
         LET index == GetIMIndexByName(imes, inst.profile.imName)
         IN inst' = SwitchIM([inst EXCEPT !.imes = imes, !.iIMIndex = index,
                                          !.stack = GoOn("save")],
                             index, setup.firstAsInactive)
    /\ UNCHANGED <<disk, life, promise>>

\* fopen with "w" empties the file; the options are written by fclose.
OpenProfile ==
    /\ At("save")
    /\ inst' = [inst EXCEPT !.profile = Synced, !.stack = GoOn("write")]
    /\ disk' = NoProfile
    /\ UNCHANGED <<life, promise>>

WriteProfile ==
    /\ At("write")
    /\ inst' = [inst EXCEPT !.stack = Below]
    /\ disk' = inst.profile
    /\ UNCHANGED <<life, promise>>

------------------------------------------------------------------------------
(* Calls from outside, when no call is in progress                          *)

AtRest == life = "up" /\ inst.stack = <<>>

Call ==
    /\ AtRest
    /\ count.changes < MaxChanges
    /\ count' = [count EXCEPT !.changes = @ + 1]
    /\ UNCHANGED <<disk, life, setup>>

\* A key, the menu or the panel selects a method.
SwitchTo(index) ==
    /\ Call
    /\ inst' = SwitchIM(inst, index, setup.firstAsInactive)
    /\ promise' = [promise EXCEPT !.current = NoMethod, !.lost = FALSE]

\* firstAsInactive: turning inactive selects the first method, turning active
\* the one before.
TurnInactive ==
    /\ Call
    /\ setup.firstAsInactive
    /\ inst' = SwitchIM(inst, 0, FALSE)
    /\ promise' = [promise EXCEPT !.current = NoMethod, !.lost = FALSE]

TurnActive ==
    /\ Call
    /\ setup.firstAsInactive
    /\ inst.iIMIndex = 0
    /\ inst' = SwitchIM(inst, inst.lastIMIndex, TRUE)
    /\ promise' = [promise EXCEPT !.current = NoMethod, !.lost = FALSE]

\* IPCSetPropertyIMList
SetIMList(list) ==
    /\ Call
    /\ inst' = [inst EXCEPT !.profile.imList = list, !.stack = <<UpdateIMList>>]
    /\ promise' = [on |-> NamesOf(TurnedOn(list)),
                   off |-> inst.avail \intersect NamesOf(Turned(list, FALSE)),
                   current |-> NoMethod, lost |-> FALSE]

ReloadConfig ==
    /\ Call
    /\ inst' = [inst EXCEPT !.profile = disk, !.stack = <<UpdateIMList>>]
    /\ promise' = [promise EXCEPT !.current = NoMethod, !.lost = FALSE]

------------------------------------------------------------------------------
(* The process                                                              *)

\* FcitxProfileLoad and FcitxInstanceLoadAllIM: the methods of the inputmethod
\* files are registered empty, the other addons are loaded at once.
Start ==
    /\ life = "down"
    /\ count.runs < MaxRuns
    /\ LET byFile == {m \in Methods : Owner[m] \in ByConfigFile}
           atOnce == UNION {Registers(a) : a \in Addons \ ByConfigFile}
       IN inst' = [avail |-> byFile \union atOnce,
                   loaded |-> [m \in Methods |-> IF m \in atOnce THEN 1 ELSE 0],
                   created |-> [a \in Addons |-> IF a \notin ByConfigFile /\ Registers(a) # {}
                                                 THEN 1 ELSE 0],
                   imes |-> <<>>, iIMIndex |-> 0, lastIMIndex |-> 0, profile |-> disk,
                   stack |-> <<Frame("boot", NoMethod, 0), UpdateIMList>>]
    /\ life' = "boot"
    /\ count' = [runs |-> count.runs + 1, changes |-> 0]
    /\ promise' = [promise EXCEPT !.lost = FALSE]
    /\ UNCHANGED <<disk, setup>>

\* FcitxInstanceCreate goes on: the method of the profile is selected again.
Boot ==
    /\ At("boot")
    /\ LET index == GetIMIndexByName(inst.imes, inst.profile.imName)
       IN inst' = SwitchIM([inst EXCEPT !.iIMIndex = index, !.stack = GoOn("booted")],
                           index, setup.firstAsInactive)
    /\ UNCHANGED <<disk, life, promise>>

Booted ==
    /\ At("booted")
    /\ inst' = [inst EXCEPT !.lastIMIndex = inst.iIMIndex, !.stack = Below]
    /\ life' = "up"
    /\ UNCHANGED <<disk, promise>>

\* OnException saves the profile for the state it finds.  While UpdateIMList
\* takes over the list of the profile, that overwrites or empties it: what a
\* client just asked for is lost.
Saved(current) ==
    LET taken == inst.stack # <<>> /\ Top.at \in {"clear", "listed"}
    IN /\ inst' = [inst EXCEPT !.profile = Synced]
       /\ disk' = Synced
       /\ promise' = [promise EXCEPT !.on = IF taken THEN {} ELSE @,
                                     !.off = IF taken THEN {} ELSE @,
                                     !.current = current]

\* The method in use; while firstAsInactive has it off, the one that returns.
InUse ==
    LET index == IF setup.firstAsInactive /\ inst.iIMIndex = 0 THEN inst.lastIMIndex
                 ELSE inst.iIMIndex
    IN IF HasElement(inst.imes, index) THEN Element(inst.imes, index).name ELSE NoMethod

\* SIGTERM and SIGINT end the daemon, SIGHUP and others do not.
Terminate ==
    /\ life = "up"
    /\ Saved(IF AtRest /\ ~promise.lost THEN InUse ELSE NoMethod)
    /\ life' = "down"
    /\ UNCHANGED <<setup, count>>

Hangup ==
    /\ life = "up"
    /\ count.changes < MaxChanges
    /\ Saved(NoMethod)
    /\ count' = [count EXCEPT !.changes = @ + 1]
    /\ UNCHANGED <<life, setup>>

\* SIGSEGV and SIGKILL save nothing, nor does any signal that finds the daemon
\* inside FcitxInstanceCreate: the handler's instance is still NULL.
Kill ==
    /\ life # "down"
    /\ life' = "down"
    /\ promise' = [promise EXCEPT !.on = IF AtRest THEN @ ELSE {},
                                  !.off = IF AtRest THEN @ ELSE {},
                                  !.current = NoMethod]
    /\ UNCHANGED <<inst, disk, setup, count>>

------------------------------------------------------------------------------

Init ==
    /\ inst = [avail |-> {}, loaded |-> [m \in Methods |-> 0],
               created |-> [a \in Addons |-> 0], imes |-> <<>>, iIMIndex |-> 0,
               lastIMIndex |-> 0, profile |-> NoProfile, stack |-> <<>>]
    /\ disk = NoProfile
    /\ life = "down"
    /\ setup \in [broken: BrokenSets, firstAsInactive: BOOLEAN]
    /\ count = [runs |-> 0, changes |-> 0]
    /\ promise = [on |-> {}, off |-> {}, current |-> NoMethod, lost |-> FALSE]

Step ==
    \/ Load \/ Reload \/ InitIM
    \/ Clear \/ AddListed \/ AddUnlisted
    \/ OpenProfile \/ WriteProfile
    \/ Boot \/ Booted

Outside ==
    \/ \E index \in {-2, -1} \union (0 .. Len(inst.imes) - 1) : SwitchTo(index)
    \/ TurnInactive \/ TurnActive
    \/ \E list \in SettableLists : SetIMList(list)
    \/ ReloadConfig
    \/ Start \/ Terminate \/ Hangup \/ Kill

Next == Step \/ Outside

\* The event thread goes on with the call it is in; nobody has to call it.
Spec == Init /\ [][Next]_vars /\ WF_vars(Step)

------------------------------------------------------------------------------
(* Properties                                                               *)

\* Every field has its type, an index names at most the place after as many
\* entries as there are methods, and the calls nest no deeper than MaxDepth.
TypeOK ==
    /\ inst \in Instance
    /\ {inst.iIMIndex, inst.lastIMIndex} \subseteq -1 .. Cardinality(Methods)
    /\ disk \in Profiles
    /\ promise \in Promise
    /\ Len(inst.stack) <= MaxDepth

\* The method that gets the keys exists and is initialized, as its entry of
\* availimes says: ProcessKey calls its DoInput without a check.  It may be
\* another one only when a method that was to be loaded left the list: then
\* the first one is current, loaded or not.
CurrentUsable ==
    AtRest /\ ~promise.lost =>
      /\ Len(inst.imes) > (IF setup.firstAsInactive THEN 1 ELSE 0)
           => HasElement(inst.imes, inst.iIMIndex)
      /\ HasElement(inst.imes, inst.iIMIndex) =>
           LET im == Element(inst.imes, inst.iIMIndex)
           IN im.klass # 0 /\ im.klass = inst.loaded[im.name]

\* Between two calls the file holds the list in use: a save was neither
\* forgotten nor written for a list that changed afterwards.
ListSaved ==
    AtRest => /\ disk.imList = inst.profile.imList
              /\ Len(TurnedOn(disk.imList)) = Len(inst.imes)
              /\ \A i \in 1 .. Len(inst.imes) :
                   TurnedOn(disk.imList)[i].name = inst.imes[i].name

\* What a client turned on or off stays so, through switches, failed loads,
\* reloads, signals and restarts.
ChoiceKept ==
    AtRest => /\ promise.on \intersect inst.avail \subseteq NamesOf(inst.imes)
              /\ promise.off \intersect NamesOf(inst.imes) = {}

\* A daemon ended by a signal between two calls comes back with the method that
\* was in use, or that firstAsInactive had off and was to return.
CurrentRestored ==
    AtRest /\ promise.current # NoMethod /\ ~promise.lost =>
      /\ HasElement(inst.imes, inst.iIMIndex)
      /\ Element(inst.imes, inst.iIMIndex).name = promise.current

\* Every call returns, however many methods its nested calls load or erase.
CallsEnd == inst.stack # <<>> ~> (inst.stack = <<>> \/ life = "down")
=============================================================================
