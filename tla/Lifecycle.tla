------------------------------ MODULE Lifecycle ------------------------------
(***************************************************************************)
(* The life of the daemon process: FcitxInstanceCreate resolves the        *)
(* dependencies of the addons and loads them category by category, the     *)
(* event thread runs, FcitxInstanceEnd saves and destroys, and the main    *)
(* thread, which waits for a semaphore, leaves.  Any start may fail half   *)
(* way: addons are missing, disabled or broken.                            *)
(***************************************************************************)
EXTENDS Naturals, Sequences, FiniteSets, Functions

CONSTANTS
  Addon,          \* names of addons
  NoAddon,
  Category,       \* of every addon: "module", "im", "ui" or "frontend"
  Depend,         \* addons named in its Dependency
  Needs,          \* addons without which its Create returns NULL
  Fallback,       \* its UIFallback, or NoAddon
  EventModule,    \* modules with ProcessEvent and SetFD
  SelfRegistered, \* input method addons that register their methods in Create
  Setups,         \* the situations a process is started in, see setup
  MaxExits        \* requests to exit

ASSUME LifecycleAssumption ==
  /\ NoAddon \notin Addon /\ MaxExits \in Nat
  /\ Category \in [Addon -> {"module", "im", "ui", "frontend"}]
  /\ Depend \in [Addon -> SUBSET Addon] /\ Needs \in [Addon -> SUBSET Addon]
  /\ Fallback \in [Addon -> Addon \cup {NoAddon}]
  /\ \A a \in Addon : Needs[a] \subseteq Depend[a]

Of(category) == {a \in Addon : Category[a] = category}

\* The addons fcitx comes with: none depends on one that depends on another,
\* nor on a user interface; Create of a module gives up for want of no other
\* addon, that of others for want of a module only, and that of a frontend for
\* want of the module its clients are heard through.
ASSUME DependenciesAssumption ==
  /\ \A a \in Addon : \A d \in Depend[a] : Depend[d] = {} /\ Category[d] # "ui"
  /\ \A a \in Addon : Needs[a] \subseteq Of("module")
  /\ \A a \in Of("module") : Needs[a] = {}
  /\ \A a \in Of("frontend") : Needs[a] \intersect EventModule # {}
  /\ SelfRegistered \subseteq Of("im")

\* The fallback of an interface is another one.
ASSUME FallbackAssumption ==
  \A a \in Of("ui") : Fallback[a] # NoAddon => Fallback[a] \in Of("ui") \ {a}

\* An addon has one file; the priorities tell the interfaces apart.
ASSUME SetupsAssumption ==
  \A s \in Setups :
    /\ s.files \in Seq(Addon)
    /\ \A i, j \in DOMAIN s.files : s.files[i] = s.files[j] => i = j
    /\ s.enabled \subseteq Range(s.files)
    /\ s.priority \in [Addon -> Nat]
    /\ \A a, b \in Of("ui") : s.priority[a] = s.priority[b] => a = b

VARIABLES
  setup,   \* files: the addons in the order their files are read; priority;
           \* enabled: by their files; broken: Create fails; uiname: the
           \* argument of -u; option: "run", or "help" for -h and -v
  inst,    \* addons: the array, every element with name and bEnabled; made:
           \* addons with an instance; eventmodules, frontends; ims: addons
           \* with methods in availimes; ui, uinormal, uifallback
  at,      \* what the main and the event thread do next
  sem,     \* the semaphore the main thread waits for
  profile, \* the file: "current", "torn" between fopen and fclose, "default"
  unsaved, \* what the dictionaries learnt "before" and "after" the first
           \* FcitxInstanceEnd and is not in their files
  exits,   \* requests to exit
  ends,    \* calls of FcitxInstanceEnd
  flags    \* "loaded": the profile was read; "crashed"

past == <<exits, ends, flags>>
vars == <<setup, inst, at, sem, profile, unsaved, past>>

Thread == {"main", "event"}
Gone   == at["main"] = "gone"
Goes(t, where) == at' = [at EXCEPT ![t] = where]

-----------------------------------------------------------------------------
(* addon.c                                                                  *)

\* FcitxAddonsLoad: by priority; utarray_sort leaves files of the same
\* priority in the order they were read in.
Load(files) ==
  LET before(i, j) == \/ setup.priority[files[i]] < setup.priority[files[j]]
                      \/ setup.priority[files[i]] = setup.priority[files[j]] /\ i < j
  IN [k \in DOMAIN files |->
        files[CHOOSE i \in DOMAIN files :
                Cardinality({j \in DOMAIN files : before(j, i)}) = k - 1]]

First(places) == CHOOSE i \in places : \A j \in places : i <= j
Index(addons, a) == CHOOSE i \in DOMAIN addons : addons[i].name = a
Present(addons, a) == \E i \in DOMAIN addons : addons[i].name = a

\* FcitxAddonsIsAddonAvailable
Available(addons, a) == \E i \in DOMAIN addons : addons[i].name = a /\ addons[i].bEnabled

\* The first enabled user interface, or the one named on the command line,
\* whether it is enabled or not; 0 if there is none.
UIAddon(addons) ==
  LET UI == {i \in DOMAIN addons : Category[addons[i].name] = "ui"}
      candidates == IF setup.uiname = NoAddon THEN {i \in UI : addons[i].bEnabled}
                    ELSE {i \in UI : addons[i].name = setup.uiname}
  IN IF candidates = {} THEN 0
     ELSE First(candidates)

ChooseUI(addons) ==
  LET u == UIAddon(addons)
  IN [i \in DOMAIN addons |->
        IF Category[addons[i].name] = "ui"
          THEN [addons[i] EXCEPT !.bEnabled = (i = u)] ELSE addons[i]]

\* Mutant: the two stay where they are.
EnableFallbackInPlace(addons) ==
  LET u == UIAddon(addons)
  IN IF u = 0 \/ ~Present(addons, Fallback[addons[u].name]) THEN addons
     ELSE [addons EXCEPT ![Index(addons, Fallback[addons[u].name])].bEnabled = TRUE]

\* The fallback of the chosen interface is enabled, and put behind it.
EnableFallback(addons) ==
  LET u == UIAddon(addons)
  IN IF u = 0 \/ ~Present(addons, Fallback[addons[u].name]) THEN addons
     ELSE LET f == Index(addons, Fallback[addons[u].name])
              on == [addons EXCEPT ![f].bEnabled = TRUE]
          IN IF f < u THEN [on EXCEPT ![u] = on[f], ![f] = on[u]] ELSE on

\* Mutant: a dependency only has to be installed.
CheckDependenciesInstalled(addons) ==
  [i \in DOMAIN addons |->
     [addons[i] EXCEPT !.bEnabled = @ /\ \A d \in Depend[addons[i].name] : Present(addons, d)]]

\* One pass over the array, for `remove` is never set again: an addon sees
\* the verdict on those before it, and those after it as they were.
CheckDependencies(addons) ==
  LET stays[i \in DOMAIN addons] ==
        /\ addons[i].bEnabled
        /\ \A d \in Depend[addons[i].name] :
             \E j \in DOMAIN addons :
               addons[j].name = d /\ IF j < i THEN stays[j] ELSE addons[j].bEnabled
  IN [i \in DOMAIN addons |-> [addons[i] EXCEPT !.bEnabled = stays[i]]]

-----------------------------------------------------------------------------
(* Loading                                                                  *)

\* The places of the enabled addons of a kind.
Enabled(d, kind) == {i \in DOMAIN d.addons : d.addons[i].bEnabled /\ d.addons[i].name \in kind}

\* Create of an addon succeeds; the frontends and the user interfaces give up
\* when the module they work through has no instance.
Creates(d, a) == a \notin setup.broken /\ Needs[a] \subseteq d.made

\* The enabled addons of a kind whose Create succeeds, called in the order of
\* the array.
Created(d, kind) ==
  LET creates[i \in DOMAIN d.addons] ==
        /\ i \in Enabled(d, kind)
        /\ d.addons[i].name \notin setup.broken
        /\ \A n \in Needs[d.addons[i].name] :
             n \in d.made \/ \E j \in 1 .. i - 1 : d.addons[j].name = n /\ creates[j]
  IN {d.addons[i].name : i \in {j \in DOMAIN d.addons : creates[j]}}

\* FcitxModuleLoad
ModuleLoad(d) ==
  LET new == Created(d, Of("module"))
  IN [d EXCEPT !.made = @ \cup new, !.eventmodules = new \intersect EventModule]

\* FcitxInstanceLoadAllIM: methods with a file are registered without their
\* addon, which is loaded on first use (see InputMethodList).
LoadAllIM(d) ==
  LET self == Created(d, SelfRegistered)
      files == {d.addons[i].name : i \in Enabled(d, Of("im") \ SelfRegistered)}
  IN [d EXCEPT !.made = @ \cup self, !.ims = self \cup files]

Made(d, a) == [d EXCEPT !.made = @ \cup {a}]

\* FcitxUILoad: the first enabled interface that can be created, and then its
\* fallback.
UILoad(d) ==
  LET uis == {i \in Enabled(d, Of("ui")) : Creates(d, d.addons[i].name)}
  IN IF uis = {} THEN d
     ELSE LET normal == d.addons[First(uis)].name
              e == [Made(d, normal) EXCEPT !.uinormal = normal, !.ui = normal]
              back == Fallback[normal]
          IN IF back \in Addon /\ Available(e.addons, back) /\ Creates(e, back)
               THEN [Made(e, back) EXCEPT !.uifallback = back]
               ELSE e

\* FcitxInstanceLoadFrontend
LoadFrontend(d) ==
  LET new == Created(d, Of("frontend"))
  IN [d EXCEPT !.made = @ \cup new, !.frontends = new]

-----------------------------------------------------------------------------
(* FcitxInstanceCreate, on the main thread                                  *)

\* FcitxInstanceEnd begins; it saves first.
Ends(t) == /\ Goes(t, "save")
           /\ ends' = ends + 1
           /\ UNCHANGED <<exits, flags>>

\* What FcitxAddonsLoad reads.
WithAddons(d) ==
  LET sorted == Load(setup.files)
  IN [d EXCEPT !.addons = [i \in DOMAIN sorted |->
                             [name |-> sorted[i], bEnabled |-> sorted[i] \in setup.enabled]]]

\* ProcessOption stands before FcitxProfileLoad: help and version go to
\* error_exit, where FcitxInstanceEnd is called as well.  Descriptions of the
\* configuration that are not installed would lead there too.
ProcessOption ==
  /\ at["main"] = "options"
  /\ IF setup.option = "help"
       THEN Ends("main") /\ UNCHANGED inst
       ELSE /\ Goes("main", "resolve")
            /\ inst' = WithAddons(inst)
            /\ flags' = flags \cup {"loaded"}
            /\ UNCHANGED <<exits, ends>>
  /\ UNCHANGED <<setup, sem, profile, unsaved>>

Resolved(addons) == [inst EXCEPT !.addons = addons]

\* FcitxInstanceResolveAddonDependency, in its three parts.  After the first
\* the chosen interface is the only one that UIAddon finds.
Resolve ==
  \/ /\ at["main"] = "resolve"
     /\ inst' = Resolved(ChooseUI(inst.addons))
     /\ Goes("main", "fallback")
     /\ UNCHANGED <<setup, sem, profile, unsaved, past>>
  \/ /\ at["main"] = "fallback"
     /\ inst' = Resolved(EnableFallback(inst.addons))
     /\ Goes("main", "dependencies")
     /\ UNCHANGED <<setup, sem, profile, unsaved, past>>
  \/ /\ at["main"] = "dependencies"
     /\ inst' = Resolved(CheckDependencies(inst.addons))
     /\ Goes("main", "modules")
     /\ UNCHANGED <<setup, sem, profile, unsaved, past>>

LoadModules ==
  /\ at["main"] = "modules"
  /\ inst' = ModuleLoad(inst)
  /\ Goes("main", "ims")
  /\ UNCHANGED <<setup, sem, profile, unsaved, past>>

LoadIMs ==
  /\ at["main"] = "ims"
  /\ inst' = LoadAllIM(inst)
  /\ IF inst'.ims = {} THEN Ends("main") ELSE Goes("main", "ui") /\ UNCHANGED past
  /\ UNCHANGED <<setup, sem, profile, unsaved>>

LoadUI ==
  /\ at["main"] = "ui"
  /\ inst' = UILoad(inst)
  /\ Goes("main", "frontends")
  /\ UNCHANGED <<setup, sem, profile, unsaved, past>>

\* Mutant: without a frontend the daemon just does not start its thread.
LoadFrontendsSilently ==
  /\ at["main"] = "frontends"
  /\ inst' = LoadFrontend(inst)
  /\ at' = [at EXCEPT !["main"] = "wait",
                       !["event"] = IF inst'.frontends = {} THEN "none" ELSE "loop"]
  /\ UNCHANGED <<setup, sem, profile, unsaved, past>>

\* The last thing FcitxInstanceCreate does is to start the event thread.
LoadFrontends ==
  /\ at["main"] = "frontends"
  /\ inst' = LoadFrontend(inst)
  /\ IF inst'.frontends = {} THEN Ends("main")
     ELSE at' = [at EXCEPT !["main"] = "wait", !["event"] = "loop"] /\ UNCHANGED past
  /\ UNCHANGED <<setup, sem, profile, unsaved>>

-----------------------------------------------------------------------------
(* FcitxInstanceEnd, on either thread                                       *)

\* FcitxProfileSave opens the file, which truncates it ...
OpenProfile(t) ==
  /\ at[t] = "save"
  /\ profile' = "torn"
  /\ Goes(t, "write")
  /\ UNCHANGED <<setup, inst, sem, unsaved, past>>

\* ... and writes it: defaults, when the profile was never read.  Then
\* FcitxInstanceSaveAllIM.
WriteAll(t) ==
  /\ at[t] = "write"
  /\ profile' = IF "loaded" \in flags THEN "current" ELSE "default"
  /\ unsaved' = {}
  /\ Goes(t, "destroy")
  /\ UNCHANGED <<setup, inst, sem, past>>

WithoutUI(d) == [d EXCEPT !.ui = NoAddon, !.uinormal = NoAddon, !.uifallback = NoAddon]

\* The interfaces are destroyed once, their pointers are reset.  Contexts are
\* destroyed and stay in the list: a second call crashes if there is one.
DestroyAll(t) ==
  /\ at[t] = "destroy"
  /\ inst' = WithoutUI(inst)
  /\ \/ Goes(t, "post") /\ UNCHANGED flags
     \/ /\ ends > 1
        /\ at' = [th \in Thread |-> "gone"]
        /\ flags' = flags \cup {"crashed"}
  /\ UNCHANGED <<setup, sem, profile, unsaved, exits, ends>>

\* sem_post; the event thread returns to its handler and to the loop.
Post(t) ==
  /\ at[t] = "post"
  /\ sem' = sem + 1
  /\ Goes(t, IF t = "main" THEN "wait" ELSE "loop")
  /\ UNCHANGED <<setup, inst, profile, unsaved, past>>

-----------------------------------------------------------------------------
(* The running daemon                                                       *)

\* A handler of the event thread teaches an input method a word, perhaps
\* one whose Destroy was called; the filters of the bus stay in place.
Learn ==
  /\ at["event"] = "loop"
  /\ unsaved' = unsaved \cup {IF ends = 0 THEN "before" ELSE "after"}
  /\ UNCHANGED <<setup, inst, at, sem, profile, past>>

\* Mutant: the main thread is woken first.
ExitPostsFirst ==
  /\ at["event"] = "loop"
  /\ exits < MaxExits
  /\ at' = [at EXCEPT !["event"] = "save"]
  /\ sem' = sem + 1
  /\ ends' = ends + 1 /\ exits' = exits + 1
  /\ UNCHANGED <<setup, inst, profile, unsaved, flags>>

\* A client, the panel or the menu asks the daemon to exit; also after it was
\* asked before, as long as the process is there.
Exit ==
  /\ at["event"] = "loop"
  /\ exits < MaxExits
  /\ at' = [at EXCEPT !["event"] = "save"]
  /\ ends' = ends + 1 /\ exits' = exits + 1
  /\ UNCHANGED <<setup, inst, sem, profile, unsaved, flags>>

\* WaitForEnd
MainWakes ==
  /\ at["main"] = "wait"
  /\ sem > 0
  /\ sem' = sem - 1
  /\ Goes("main", "leave")
  /\ UNCHANGED <<setup, inst, profile, unsaved, past>>

\* main returns; the event thread goes with the process wherever it is.
ProcessEnds ==
  /\ at["main"] = "leave"
  /\ at' = [t \in Thread |-> "gone"]
  /\ UNCHANGED <<setup, inst, sem, profile, unsaved, past>>

\* SIGTERM on either thread: no lock is held, because bMutexInited is never
\* set.  OnException reads the global `instance`, which main sets when
\* FcitxInstanceCreate returns; before that it crashes.
Terminate ==
  /\ ~Gone
  /\ at' = [t \in Thread |-> "gone"]
  /\ IF at["event"] = "none" /\ ~(at["main"] = "wait" /\ sem > 0) /\ at["main"] # "leave"
       THEN /\ flags' = flags \cup {"crashed"}
            /\ UNCHANGED <<profile, unsaved>>
       ELSE /\ profile' = IF "loaded" \in flags THEN "current" ELSE "default"
            /\ unsaved' = {}
            /\ UNCHANGED flags
  /\ UNCHANGED <<setup, inst, sem, exits, ends>>

-----------------------------------------------------------------------------
Init ==
  /\ setup \in Setups
  /\ inst = [addons |-> <<>>, made |-> {}, eventmodules |-> {},
             frontends |-> {}, ims |-> {}, ui |-> NoAddon,
             uinormal |-> NoAddon, uifallback |-> NoAddon]
  /\ at = [t \in Thread |-> IF t = "main" THEN "options" ELSE "none"]
  /\ sem = 0
  /\ profile = "current"
  /\ unsaved = {}
  /\ exits = 0 /\ ends = 0 /\ flags = {}

End(t) == OpenProfile(t) \/ WriteAll(t) \/ DestroyAll(t) \/ Post(t)

MainStep == \/ ProcessOption \/ Resolve \/ LoadModules \/ LoadIMs \/ LoadUI
            \/ LoadFrontends \/ End("main") \/ MainWakes \/ ProcessEnds

Next == MainStep \/ End("event") \/ Learn \/ Exit \/ Terminate

\* Both threads run; nobody is bound to ask for the exit.
Spec == Init /\ [][Next]_vars /\ WF_vars(MainStep) /\ WF_vars(End("event"))

-----------------------------------------------------------------------------
(* Properties                                                               *)

\* What an addon needs to be loaded, whatever the order of the files: its
\* dependencies are enabled, and those its Create needs can be loaded too.
Works(a) ==
  /\ a \in setup.enabled \/ Category[a] = "ui"
  /\ Depend[a] \subseteq setup.enabled
  /\ a \notin setup.broken /\ Needs[a] \intersect setup.broken = {}

\* The interface the user gets: the one asked for, else the enabled one with
\* the lowest priority number.
Wanted(a) ==
  /\ Category[a] = "ui"
  /\ a \in Range(setup.files)
  /\ IF setup.uiname # NoAddon THEN a = setup.uiname
     ELSE /\ a \in setup.enabled
          /\ \A b \in setup.enabled :
               Category[b] = "ui" => setup.priority[a] <= setup.priority[b]

\* The daemon draws with the wanted interface if that can be created, with
\* its fallback standing by, and else with the fallback, wherever their
\* priorities put them in the array (addon.c:162).
InterfaceReady ==
  at["main"] \in {"frontends", "wait"} /\ ends = 0 =>
    \A a \in Addon : Wanted(a) =>
      LET back == IF Present(inst.addons, Fallback[a]) /\ Works(Fallback[a])
                    THEN Fallback[a] ELSE NoAddon
      IN IF Works(a) THEN inst.uinormal = a /\ inst.uifallback = back
                     ELSE inst.uinormal = back /\ inst.uifallback = NoAddon

\* One pass over the dependencies is enough for the addons fcitx comes with:
\* in a daemon that goes on a module, frontend or self-registering method is
\* loaded exactly if it works (addon.c:176), and no frontend comes before its
\* module.  So there is a module whose events wake the daemon: RunInstance
\* returns when there is no descriptor to wait for, and the process would wait
\* for ever (instance.c:243).
WorkingAddonsLoaded ==
  at["event"] = "loop" =>
    /\ \A a \in setup.enabled :
         Category[a] # "ui" /\ (Category[a] = "im" => a \in SelfRegistered) =>
           (a \in inst.made <=> Works(a))
    /\ inst.eventmodules # {}

\* The process leaves by its own will only when what was learnt before is
\* saved and the profile is whole (core/fcitx.c:88).  A second request while
\* the main thread leaves opens the profile again.
SavedOnExit ==
  Gone /\ "crashed" \notin flags /\ setup.option = "run" =>
    /\ "before" \notin unsaved
    /\ ends <= 1 => profile = "current"

\* A start becomes a daemon that runs or a process that ends, and once
\* FcitxInstanceEnd was called the process ends.
StartsOrEnds == /\ <>(at["event"] = "loop" \/ Gone)
                /\ ends > 0 ~> Gone
=============================================================================
