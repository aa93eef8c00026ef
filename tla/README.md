# Verification of fcitx

TLA+ models of the fcitx input method framework, the model-checking runs about
them and the theorems proved about them.  fcitx is one daemon: client programs
(GTK, Qt, X11) ask it for *input contexts*, give one of them the focus and send
it their keys; the daemon runs the current input method on them and returns
preedit and committed text.  Nearly all of the daemon's logic runs on one thread, on
global state that every client's requests change.  What is hard to get right is
therefore seldom a data race and mostly the interleaving of requests: each
handler is short, but what one leaves behind is what the next, of another client,
finds.  Around it are processes that come and go: the clients, the panel, and the
daemon itself.

Source paths below are relative to `src/` of the repository (`lib/` stands for
`src/lib/fcitx/`).

## Inventory

| component | source | state | operations | modelled in |
|---|---|---|---|---|
| Input contexts and focus | `lib/frontend.c`, `lib/instance.c`, `lib/ui.c` | `ic_list`, `free_list`, `CurrentIC`, per context: id, frontend, flags, state | create, find, destroy, set current, focus | `InputContext` |
| Input method states | `lib/ime.c` | per-context state, `globalState`, length of the list, current and last input method | enable, close, change, switch, new list | `InputContext` |
| D-Bus frontend | `src/frontend/ipc/ipc.c` | `maxid`, per context: application | two CreateIC methods, ten methods of a context | `IpcFrontend` |
| XIM frontend | `src/frontend/xim/*.c` | `icid`, per context: connection | protocol requests | `XimFrontend` |
| Remote socket, menus, tray, virtual keyboard | `src/module/remote`, `src/module/vk`, `src/ui/classic`, `src/ui/kimpanel` | none of their own that matters here | the calls that change a state | `UserControls` |
| Key processing | `lib/ime.c` 393-712 | `keyReleased`, `lastKeyPressedTime` | the phases of `FcitxInstanceProcessKey` | `KeyPipeline`; effect on contexts in `InputContext` |
| Candidate list | `lib/candidate.c` | words, page, page size | insert, remove, resize, page, focus, choose | `CandidateList` |
| Input method list | `lib/ime.c` 170-390, 1304-1400, `lib/profile.c` | `availimes`, `imes`, the profile | register, load lazily, switch, reorder, save, read | `InputMethodList` |
| Messages and user-interface state | `lib/ui.c` | messages with change flags, update flags, the interface in use | update, move, close, switch to the fallback and back | `UserInterface` (without messages) |
| Event loop | `lib/instance.c` 212-249 | update flags, descriptors | ask the modules, draw, sleep | `UserInterface` |
| Process start, end and signals | `lib/instance.c` 101-210, 252-306, `src/core` | two threads, the semaphore | create, end, wait, signal handler | `Lifecycle`; the signals on the list in `InputMethodList` |
| Hooks and contexts | `lib/hook.c`, `lib/context.c` | ordered hook lists; watched variables | register, run, set, watch | not modelled |
| Addons | `lib/addon.c`, `lib/module.c`, loaders in `ime.c`, `ui.c`, `frontend.c` | addons, enabled or not, and their instances | sort, choose the interface, check dependencies, load | `Lifecycle` |
| Configuration | `lib/configfile.c`, `src/lib/fcitx-config` | options | parse, bind, hot keys | options are CONSTANTS |
| GTK and Qt clients | `src/frontend/gtk2/client.c`, `fcitximcontext.c`, `src/frontend/qt` | proxies, `id`, `enable`, pending calls | connect, create, send keys, restart | `ClientConnection` (GTK: connection and keys) |
| Input methods | `src/im/pinyin`, `src/im/table`, `src/im/qw` | raw buffer, dictionaries, parsers | compose, look up, choose, learn | composing and choosing of pinyin in `KeyPipeline`; parsers and dictionaries not modelled |
| Text modules | `src/module/{autoeng,punc,quickphrase,fullwidthchar,chttrans}` | small automata | filters of keys and text | not modelled; `KeyPipeline` lets a filter take any key |
| D-Bus and X11 modules | `src/module/dbus`, `src/module/x11` | connection, filters, queues of Xlib and libdbus | turns in the event loop | `UserInterface` |
| Vendored code, tools, data | `lib/imdkit` copies, `src/lib/fcitx-utils` uthash, `src/tools`, `data`, `po` | | | out of scope |

### How the components interact

Clients call frontends (D-Bus methods or XIM requests); a frontend finds the
context by its id and calls the library.  Menus, the tray icon, the
`fcitx-remote` socket and key presses call the same library functions on the
context with the focus.  The library calls back into the frontend of a context
to tell its client (EnableIM and CloseIM signals, preedit, commit), to ask
whether two contexts are of one application, and into the user interface.
There are no messages between these components: they share the one
`FcitxInstance`.  Its lock (`FcitxInstanceLock`) locks nothing, because
`bMutexInited` is never set.

The processes around the daemon do talk in messages: a client to the daemon and
to the bus, which tells it when the daemon's name changes hands; the panel to
`kimpanel`; a signal to either thread.  The main thread only waits for a
semaphore that `FcitxInstanceEnd` posts, and then leaves the process with the
event thread in it.

### What is hard

* Requests of several clients interleave in any order, and a context can
  disappear between any two of them.
* A change of state of one context is a change of state of many
  (`ShareStateAmongWindow`), and every one of them has a client to be told.
* Raw buffer, preedit and current input method are global, contexts are not.
* With `FirstAsInactive` the current input method encodes the state, so two
  pieces of state must move together through every handler.
* The same number identifies contexts of different frontends, and private data
  of one frontend is read by another.
* Between clients and daemon: asynchronous calls, restarts of the daemon, and
  notices of the bus that come in between.
* `SwitchIM` and `UpdateIMList` call each other while they change the list they
  walk, load code that can fail, and save a file in between; a signal saves from
  whatever it finds.
* Drawing talks to the X server and to the bus, so it may move what `select`
  waits for out of the socket.
* A start can fail at every addon, and has to end in a daemon that works or in
  the end of the process.

`PROJECT.json` lists each hazard at its line with the properties that watch it.

### What makes each component correct

* contexts: lists disjoint, focus never dangling, ids unique (`ListsOK`);
* states: one mode for all, or per program (`SharedStateCoherent`,
  `ProgramStateCoherent`, `ImplementsSharedMode`), clients told the truth
  (`ClientToldState`), `FirstAsInactive` encoded faithfully (`IMFollowsState`);
* text: no preedit of another context on display, no raw text carried to
  another context (`PreeditBelongsToCurrent`, `TextStaysInItsContext`);
* keys: a release acts only for the press right before it
  (`ReleaseNeedsItsPress`), no key stays down for a client (`NoStuckKeys`), text
  is committed once and in order (`TextCommittedOnce`, `NoKeyOvertakesText`);
* candidates: what is drawn is the page, what is chosen is what is drawn, every
  word can be reached (`DrawnIsPage`, `ChoosesWhatIsDrawn`, `PagingCoversList`),
  and the window on display is not out of date (`WindowShowsInput`);
* the list of input methods: the current one can take a key (`CurrentUsable`),
  the file and the list agree (`ListSaved`), what a client turned on stays on
  (`ChoiceKept`), a restart comes back to the same method (`CurrentRestored`),
  and every call returns (`CallsEnd`);
* clients: a context of their own (`ContextIsMine`), every key used once
  (`KeysOnce`) and settled (`KeysSettle`), and the daemon found again
  (`Reconnects`);
* event loop and interfaces: a loop that sleeps has drawn (`AsleepDrawn`) and
  left no queue full (`NothingStranded`), it comes to rest (`Settles`), and the
  input is shown by the interface the user sees, once (`InterfaceFollowsPanel`,
  `OneWindow`);
* process: what can work is loaded (`WorkingAddonsLoaded`), the wanted interface
  draws (`InterfaceReady`), nothing learnt is lost on exit (`SavedOnExit`), and
  every start becomes a daemon or ends (`StartsOrEnds`).

## Modules

`InputContext` holds the state and the library.  The instance is one record in
the variable `inst`, and every library function is an operator from instance to
instance, named as in the code without its `Fcitx...` prefix; a handler that
calls three functions is their composition and is one step, because the daemon
dispatches one event at a time (`RunInstance`).  `IpcFrontend`, `XimFrontend`
and `UserControls` each EXTEND it with one action per request or control.
`InputDaemon` composes them: its `Next` is one event of any of them, and the
history variable `controlled` remembers which contexts have been under their
client's control since they were created.  `SharedMode` is what
`ShareStateAmongWindow=All` promises, and `InputDaemon` implements it.

How the state corresponds to the code:

* `ic_list`, `free_list` are sets of structures.  The order of the list matters
  twice, and is the order of ids: `FcitxInstanceFindIC` and
  `FcitxInstanceSetICStateFromSameApplication` take the newest.
* `rec[s].told` is what a D-Bus client was last told about its context:
  CreateICv2's reply, then EnableIM and CloseIM signals.  CreateIC (v1) tells
  nothing, and such a client starts from "closed".
* `codeInput` and `clientPreedit` are the raw buffer and the client preedit,
  abstracted to the context they belong to.
* `imcount` is the length of the list of input methods.  The IMList property and a
  reload replace the list in any state of the contexts (`UpdateIMList`); which methods
  the new profile names is open, the other options are fixed.
* Key events are abstracted to the five that matter for contexts: the trigger,
  the switch key (its release, or its second press with `DoubleSwitchKey`), the key
  that changes the input method, a key the input method composes with, and one that
  commits.
* Under `PerProgram` the library asks the frontend of the caller about contexts
  of every frontend, and the callback reads their private data as its own
  type.  What it answers is left open (`ForeignAnswers`).

Abstracted away: the text itself, cursor positions, the surrounding-text and
preedit flags, the accounting of typing time, logging.  Memory is bounded by
`Slots`, the contexts ever created by `MaxId`.

`CandidateList` is `candidate.c`: one operator per function of its interface, on
a record of words, page and page size.  Its own state machine is the list in the
hands of everybody who may touch it: input methods fill it, modules append,
insert and remove, keys page, a reload of the configuration changes the page
size.

`KeyPipeline` is `FcitxInstanceProcessKey` for one D-Bus context that keeps the
focus, seen from the keyboard: held keys produce press and release events with
the modifiers X reports, a clock runs between them, other programs
(`fcitx-remote`, tray, panel) act between any two, and the window is drawn when
the event loop gets to it.  It takes the list from `CandidateList` by INSTANCE.
A phase of the code is an operator that yields the set of its results `[d, ret]`,
`d` the instance and `ret` the flags of `INPUT_RETURN_VALUE`; the phases run in
the code's order, each only if the flags of the one before let it.  The input
method is pinyin, abstracted to the length of the raw buffer (`code`), of what
has been parsed (`find`) and the number of words it finds, which is open.
`lastPress`, `clientDown` and `committed` are history variables: what was
pressed last, which keys the client believes to be down, what the last event
committed.  Left out: the right-hand Ctrl+Shift chord, the hot keys that reload,
save or toggle a status, `IRV_DISPLAY_LAST`, and `FirstAsInactive`, which
`InputContext` has.

`InputMethodList` is the list of input methods of a daemon that is started, used,
ended by signals and started again.  `FcitxInstanceSwitchIM`,
`FcitxInstanceUpdateIMList` and the loading of an addon call each other; `inst.stack`
holds the calls in progress, one step of a call is one action, and a signal may
find the daemon between any two of them.  `disk` is the profile file, which a
signal may find between `fopen` and `fclose`.  An addon that registers its methods
itself is created at start; the others are registered from their files and created
on first use, where any of their methods may fail to appear (`setup`).  `promise`
is a history variable: what clients last asked for and what was saved last.

`ClientConnection` is one GTK client (`client.c` and the key path of
`fcitximcontext.c`), the daemon as far as it answers, and the bus.  The daemon
dies and is started again; every incarnation has its number, and a proxy of
dbus-glib is bound to one.  `inbox` is what the client has not dispatched:
replies, the notices that the name changed hands and that an incarnation is gone,
and signals.  Calls are cancelled with their proxy, fail, or time out.  Both the
asynchronous mode and the blocking one (`FCITX_ENABLE_SYNC_MODE`) are there.

`UserInterface` is `RunInstance`: one action per turn of a module, one for the
drawing, one for `select`.  A socket and the queue of its library are two
sequences, because `select` sees only the first.  What is on display is a version
number; `screen` has one for the window of each interface.  `ui.client` says whether
the context with the focus draws its window itself, when the daemon's windows are left
as they are.  The panel is a process
of the environment that starts, announces itself, is replaced and dies.

`Lifecycle` is the process from `main` to its end: `FcitxInstanceCreate` step by
step on the main thread, then both threads, `FcitxInstanceEnd` in its four parts
on whichever thread called it, the semaphore, requests to exit and signals.
`setup` is the situation a process is started in: the order in which the files of
the addons are read, their priorities, which are enabled, whose `Create` fails,
and the arguments.  `MCLifecycle` gives it the addons fcitx comes with, as their
`.conf` files describe them.

## Runs

`MCInputDaemon` gives TLC the symmetry of the daemon's contexts,
`MCKeyPipeline`, `MCInputMethodList` and `MCLifecycle` give configurations, methods
and addons; the other modules are checked as they are.

| run | configuration | what it shows |
|---|---|---|
| `shared` | `ShareState_All`, D-Bus and XIM contexts with ids that meet, both CreateIC versions, the control flag set and cleared at any time, keys before any focus, the double switch key | `SharedStateCoherent`: only a context that has had the control flag ever differs from the global state; `ListsOK`, `PreeditBelongsToCurrent`, `TypeOK` |
| `shared_v2` | `ShareState_All`, CreateICv2, password contexts, up to two input methods, a single switch key, menus and tray | `ClientToldState`: the signals a client got add up to its state; `TextStaysInItsContext`; `ImplementsSharedMode`: the whole daemon is one shared mode |
| `program` | `ShareState_PerProgram`, clients with and without a name | `ProgramStateCoherent`: contexts of one program agree through creation, destruction and focus |
| `first` | `FirstAsInactive`, up to three input methods, lists set and reloaded at any time, the main window's icon | `IMFollowsState`: state and current input method move together |
| `candidates` | five words, page sizes 2, 3 and one out of range, every user of the list, reloads at any time | `DrawnIsPage`, `ChoosesWhatIsDrawn`, `PagingCoversList`, `TypeOK` |
| `keys` | three configurations: Shift as switch and as selection key with remind mode; a double switch key, Ctrl+Shift as trigger, filters that take any key and Enter that commits; the first with Enter and clicks on the words instead of Control; `fcitx-remote` and clicks of the panel between any two keys | `ReleaseNeedsItsPress`, `NoStuckKeys`, `PageKeyTurnsPage`, `WindowShowsInput`, `TextCommittedOnce`, `NoKeyOvertakesText`, `ShownPageExists`, `TypeOK` |
| `imlist` | pinyin, shuangpin, quwei and wubi of three addons, some of which do not appear; switches, the IMList property, reloads, signals at any step, two runs of the daemon | `CurrentUsable`, `ListSaved`, `ChoiceKept`, `CurrentRestored`, `CallsEnd`, `TypeOK` |
| `connection` | two incarnations of the daemon, two keys, another program, a switch elsewhere, a timeout; asynchronous or blocking | `ContextIsMine`, `KeysOnce`, `KeysSettle`, `Reconnects` |
| `interface` | X events, messages and commands, contexts that draw themselves, with and without a second interface, a panel that comes and goes three times | `AsleepDrawn`, `NothingStranded`, `InterfaceFollowsPanel`, `OneWindow`, `Settles` |
| `lifecycle` | ten addons in two orders with two sets of priorities, any two of them disabled or broken, four values of `-u`, `-h`; two requests to exit and signals at any point | `InterfaceReady`, `WorkingAddonsLoaded`, `SavedOnExit`, `StartsOrEnds` |
| `violation_*` | the smallest instance that shows it | one finding each, see below |

### Bounds

`Slots` is the number of living contexts, three: the context that changes, one
of its group and one that must not follow, with one to be destroyed and its
structure used again by another client.  `MaxId` bounds the contexts ever
created; with `MaxId` = `Slots` or more each structure can be reused and the
ids of the XIM frontend (from 1) and of the D-Bus frontend (from 0) meet.  `shared`,
where both frontends and every key take part, has two contexts ever created per
frontend and three living: two D-Bus contexts and one of XIM or the reverse, of which
two have the id 1.  `IMCount` is the longest list of input methods the profile can
ask for; lists from none to `IMCount` methods come at start, by the IMList property
and by reloads.  Three are the least for which "next", "previous" and "last used"
differ, in `first`; the other properties do not depend on the method.
One application name and the missing name give both outcomes of
`SameApplication`.
`SlotSymmetry` permutes structures, which no operator orders; `shared_v2` checks a
temporal formula and runs without it.

`KeysNeedFocus` is the one assumption about clients: a client sends keys only
when a context has the focus.  A key that comes while nobody has it makes the
daemon set the focus without resetting the buffer (`IPCProcessKey`), and
`shared` and `violation_unfocus_xim` run without the assumption; the
properties about text and about `FirstAsInactive` need it.
`DoubleSwitchKey` is FALSE in `shared_v2`, whose `ClientToldState` then says more (see
below), and TRUE in the other runs of the daemon.  An input method of `InputContext`
is loaded already: what a method that is loaded on its first use, or fails to, does to
list and index is `InputMethodList`'s.

Five words with pages of two and three give full, partial, first, middle and
last pages; a size of 11 is replaced by 5 (`PageSize`), which gives a single
page.  In `KeyPipeline` the raw buffer has one or two letters (`MaxCode`): empty,
used up by a word, and partly used up.  The input method finds no word, one, or
four, that is more than the page size of three.  Time counts in units of 250 ms,
the default of `TimeInterval`, up to 500 ms, the limit of a release.
`WindowShowsInput` does not speak of the configuration with the request to enable a
context that is already active: `FcitxInstanceEnableIM` then resets the input and
does not draw the window again (`lib/ime.c:1014`).

Four methods of three addons give an addon with two methods of which one may be
missing, one that registers itself, and one whose priority changes when it is
loaded.  Three changes (`MaxChanges`) in a run are a switch that loads, a list set by a
client and a reload or a signal, in any order.  Nine nested calls (`MaxDepth`) are
more than these need: a call that met the bound would not return, and `CallsEnd` says
that all do.  Two incarnations of the daemon (`MaxDaemons`)
are an old and a new one, which is what a stale reply, a stale number or a stale
notice needs; the other program's context (`MaxOthers`) makes the numbers of two
incarnations differ.  Two events (`MaxEvents`) and three changes of the panel
(`MaxPanel`) suffice for an event behind another in each queue, and for a panel
that starts, is replaced and dies.  Two faults are enough because no addon fcitx comes with depends on
an addon that itself depends on another.  Two requests to exit (`MaxExits`) are one more than the daemon
expects.

### Fairness

The daemon's handlers run to their end within one event, so what most models say is
what may never happen, and their runs assume no fairness.  Four runs check
liveness:

* `imlist`: `WF_vars(Step)`, a call that was entered goes on; it runs on one thread
  and waits for nothing.  A signal may still end it.
* `connection`: `WF_vars(ClientStep)` and `WF_vars(Serve)`, the client's main loop
  dispatches what it received and a daemon that runs serves what it was sent.  The
  daemon may die at any time, timeouts may strike, and nobody is bound to type or
  to start the daemon: `Reconnects` speaks of a daemon that stays.
* `interface`: `WF_vars(Loop)`, the event thread runs.  Nothing is bound to arrive.
* `lifecycle`: `WF_vars(MainStep)` and `WF_vars(End("event"))`, both threads are
  scheduled.  Nobody is bound to ask for the exit.

These four, and none of the others, say `CHECK_DEADLOCK FALSE`: a daemon that ended, a
client that was closed and an event loop to which nothing more arrives do stop.

## Findings

Each is a run that TLC ends with a counterexample, and an entry of
`PROJECT.json` with the line of the code and the line it contradicts.

* `UnfocusItsContext`: `XIM_UNSET_IC_FOCUS` of an XIM client takes the focus from a
  D-Bus context that happens to have the same id (`ximhandler.c:84`).
* `DoublePressInTime`: the time of the last key is overwritten before the interval
  of a double press is measured, so any two presses are a double press
  (`lib/ime.c:490`).

### Behaviours the properties leave room for

The models show these too; the properties are stated so that they do not claim
the opposite.

* Under `PerProgram` a context without application name is in no group, not even
  its own: `EnableIC` changes only the global state (`lib/ime.c:974`,
  `ipc.c:828`).  `ProgramStateCoherent` speaks of clients with a name.
* Under `PerProgram` the callback of one frontend reads the private data of
  contexts of the others (`lib/ime.c:973`; `frontend.c:115` asks first).
  `program` runs with one frontend.
* With `FirstAsInactive` closing is a toggle: `fcitx-remote -c` on an inactive
  context makes it active (`lib/ime.c:1028`).
* The switch key in a context that controls its own state takes closed contexts
  of others to inactive and tells nobody (`lib/ime.c:1143`).  `ClientToldState`
  runs with clients that leave their state to the daemon.
* `FcitxInstanceCloseIM` keeps the raw buffer, and Enter in the closed D-Bus
  context commits it (`lib/ime.c:1079`, 844).  `TextCommittedOnce` does not say
  in which state text is committed.
* In remind mode the raw buffer of the word just committed stays, and Enter
  commits it again while phrases are prompted (`py.c:1327`).  `TextCommittedOnce`
  does not speak of remind mode.
* With Ctrl+Shift as trigger, the release of the chord closes an inactive context
  without looking at `keyReleased` (`lib/ime.c:453`).  `ReleaseNeedsItsPress` leaves
  that case out.
* `fcitx-remote -o` on an active context resets the words and asks for no redraw.
* A larger page size loaded while a later page is on display leaves the current page
  past the end of the list (`lib/ime.c:904`), and `table.c:289` reads the first word
  of that page unasked.  `ShownPageExists` holds without such a reload, and
  `CurrentPageCorrect` is proved for that case.
* With `FirstAsInactive` three events select an input method and ask for no state: a
  click on the main window's icon (`MainWindow.c:650`), the setter of IMList and a
  reload, both through `FcitxInstanceUpdateIMList`, which skips index 0
  (`lib/ime.c:1364`).  An inactive context then has another method than the first
  until the state or the focus changes; `IMFollowsState` allows that and nothing else.
  Of a list of one method, index 1 is past the end; the property speaks of longer ones.
* The second press of the double switch key does not ask whether the context is closed
  (`lib/ime.c:510`): a closed context becomes inactive, and `ChangeIMState` tells the
  client nothing.  With `DoubleSwitchKey`, `ClientToldState` says only that a client told
  its context is open has an open one; without it, also the converse.

Input method list:

* A signal while `UpdateIMList` takes over `profile->imList` saves the list halfway,
  which overwrites the user's; `ChoiceKept` speaks of calls that returned.
* A method that is to be loaded and does not appear leaves index 0 current, loaded
  or not, and the next key calls its `DoInput`, which is NULL (`lib/ime.c:547`).
  `CurrentUsable` excludes exactly this (`promise.lost`).  A method lost this way is
  not saved as turned off.
* The priority of quwei is 0 in its file and 100 in its code, so a default order
  depends on whether it was loaded.  Names are compared up to the length of one of
  them (`lib/ime.c:1393`), which no name of the bundled methods meets.
* `lastIMIndex` makes a switch to index 0 go unsaved (`lib/ime.c:730`).  An addon
  loaded for a function it offers (`module.c:109`) is created again when its method
  is chosen.

Clients:

* A stale reply to CreateICv2 binds the old number to the new owner, perhaps to the
  context of another program, until the notice that the old incarnation is gone is
  dispatched (`client.c:217`).  Keys sent in between go there or are cancelled.
* A client that opens while the daemon starts gets CreateICv2 twice, and one of the
  contexts is never used.  After a timeout or an error of CreateICv2 the client has
  no context until the daemon changes.
* After an error `_fcitx_im_context_process_key_cb` reads `ret` uninitialised
  (`fcitximcontext.c:535`); keys that were pending when the daemon died are
  swallowed.  In blocking mode a key of a daemon that died may be both handled and
  delivered.
* An EnableIM signal sent before the client's match reached the bus is lost, and
  keys are then withheld from the daemon.  Text may overtake keys that are put
  back, and focus is not announced again after a restart; neither is modelled.

Event loop and interfaces:

* A switch between the interfaces asks for no redraw, so `AsleepDrawn` leaves out the
  time from a switch to the next update.
* For a context with `CAPACITY_CLIENT_SIDE_UI` no window of the daemon is drawn, moved or closed
  (`lib/ui.c:81`, 846).  If it takes the focus while the context before it has a window on
  display, that window stays until another context gets the focus, which clears it.
  `AsleepDrawn` does not speak of the time in between, nor of a context that takes the
  focus with a key, or new flags, and without FocusIn, up to the next update.
* `FcitxUISwitchToFallback` looks for the tray (`tray.c:213`), which may fill the queue
  of Xlib when the turn of its module is over; the events then wait for the next
  wake-up (`NothingStranded`, `loop.late`).  The same goes for a flush in the turn of
  the remote or the X11 module, whose handlers send signals to the panel and to clients.
* When the panel is restarted quickly, two windows show the input until its
  announcement is dispatched (`OneWindow`).
* Clicks of the panel carry an index of the list that was drawn (`kimpanel.c:647`),
  and flags that drawing itself set would be reset undrawn; no code does so.

Process:

* `fcitx -h` and `-v` go to `error_exit`, where `FcitxInstanceEnd` writes a profile that
  was never read (`lib/instance.c:207`): defaults take the place of the user's list.
  `SavedOnExit` speaks of other starts.
* The dependencies are checked in one pass (`addon.c:176`), so an addon with a chain
  of them may stay enabled; the chains of the bundled addons are short enough.
* A second request to exit while the main thread leaves runs `FcitxInstanceEnd` again:
  it opens the profile, which the end of the process may leave empty, and destroys
  contexts a second time, which crashes if there are any.
* A signal before `FcitxInstanceCreate` returns makes the handler use a NULL
  `instance`.

## Proofs

`InputDaemonProofs` proves for *every* set of contexts, applications and input
methods and every configuration:

* `TypeCorrect`: `Spec => []TypeOK`;
* `ListsCorrect`: `Spec => []ListsOK`;
* `SharedStateCorrect`: `Spec => []SharedStateCoherent`.

The assumptions are the named `ASSUME`s of the modules, which TLC evaluates on
every run: the special values are no contexts, the options have their types,
there is at least one input method, and fewer contexts are created than the XIM
id has values.

The three properties are not inductive one by one.  Ids stay unique only
because every id is below its frontend's counter (D-Bus numbers before it
counts, XIM after), and the shared state stays coherent only if every context
that has the control flag *now* is among those that have had it.  The inductive
invariant is

    IInv == Orderly(inst) /\ controlled is typed
            /\ Covers(inst, controlled)
            /\ (ShareState = "All" => Coherent(inst, controlled))

with `Orderly` the types, the disjoint lists, the focus, unique ids and the
bound of ids by the counters.

The argument follows the layers of the code.  Most library functions leave the
lists, the ids and the flags alone and keep a coherent set of contexts coherent
(`Keeps`); this is proved once per function, and composes, so a handler that
calls three functions is covered by three lemmas.  `EnableIM`, `ChangeIMState`
and `CloseIM` keep coherence because what `Affected` leaves out controls its own
state.  Only `CreateIC`, `DestroyIC` and `SetCapacity` change lists or flags;
each has its lemma (`...Advances`), and creation is where `StateForNewIC`, ids
and counters meet.  One lemma per frontend joins its actions.

`InputModeProofs` rests on it and proves, again for every set of contexts, applications
and input methods:

| theorem | property | hypotheses |
|---|---|---|
| `PreeditCorrect` | `PreeditBelongsToCurrent` | with XIM loaded, `ShowInputWindowTriggering` |
| `BufferCorrect` | `TextStaysInItsContext` | XIM is not loaded, `KeysNeedFocus` |
| `ProgramStateCorrect` | `ProgramStateCoherent` | one frontend is loaded |
| `ClientToldCorrect` | `ClientToldState` | clients of version 2 that leave their state to the daemon; under `PerProgram`, one frontend |
| `IMFollowsStateCorrect` | `IMFollowsState` | `ShareState_All`, such clients, no XIM, `KeysNeedFocus` |
| `SharedModeImplemented` | `ImplementsSharedMode` | the same |

A hypothesis is there because TLC has a counterexample without it.
`XIMTriggerNotifyHandler` moves the focus and does not commit the preedit, which shows
when the input window is not shown on triggering; the callback of one frontend reads the
private data of the other's contexts under `PerProgram`; the other modes of sharing, the
control flag, and the keys named under "Bounds" are the programs' own ways out
of one shared mode.

Here the lemmas say more of a library function than that it keeps the lists: what it
does to the text, to the applications of the contexts and to their states (`Respects`).
Every event of the frontends and the controls is then one of few kinds (`StepOf`): it
respects the instance (`Steady`), selects an input method (`Reselects`), moves the focus
with `FocusIn` and `FocusOut` or without (`Focuses`, `Moves`), or adds, removes or
re-flags a context (`Adds`, `Removes`, `Reflags`).  Each invariant is proved for the
kinds, not for every handler.  For
`ProgramStateCoherent` a new context must copy a context of its own program: that the
newest one exists is the minimum of a set of numbers (`SmallestOf`), which the library's
theorem on well-founded orders gives without an operator parameter.

`CandidateListProofs` proves for every set of words, list length and configured
page size:

* `TypeCorrect`: `Spec => []TypeOK` of the candidate list;
* `DrawnCorrect`, `ChoiceCorrect` and `PagingCorrect`: `DrawnIsPage`,
  `ChoosesWhatIsDrawn` and `PagingCoversList`, in every state and without hypotheses;
* `CurrentPageCorrect`: if no addon edits the list and no reload changes the
  page size while words are shown, `Spec => []CurrentPageExists`.

The walks over the list are recursive functions, and the provers cannot be given an
induction rule; each is proved equal to a closed form (the walk is the sequence of the
words from the first place of the page on, the n-th page is the smaller of n and the
last page) by taking the smallest argument where they differ.  `CurrentPageExists` needs
the strengthening `PageInside`: an empty list is on page 0, otherwise a word appended to
it would leave the page behind the list.  Paging multiplies the page by its size;
`SetPageSize` lets ten sizes through, so the arithmetic is linear case by case
(`CountedPageStarts`, `DivisionBounds`).

`KeyPipelineProofs` proves all the properties of the `keys` run, for every keyboard,
configuration, length of the raw buffer and number of words: `TypeCorrect`,
`NoKeyIsStuck`, `WindowIsRight`, `ShownPageCorrect`, `ReleaseHasItsPress`,
`CommittedOnce`, `NoKeyOvertakes`, `PageKeyTurns`.  The invariant is

    IInv == Types /\ InputKept /\ ArmedByLastPress /\ NoStuckKeys /\ WindowShowsInput

`ArmedByLastPress` says that `keyReleased` names the last key pressed, with its time, and
that the client was not given its press; `InputKept` that remind mode is on only where it
is configured and that only an active context holds input; the types include that a list
of words is on one of its pages.  A key is a chain of phases on a record of buffers; each phase keeps a relation to the record the
key began with (`Good`), which says what may still happen to the key, and
`ProcessInputReturnValue` turns it into what happened (`Done`).  `NoKeyOvertakesText`
follows the held text along the chain (`Held`).  For the words the lemmas of
`CandidateListProofs` are instantiated, after it was shown that the instance meets their
assumptions (`ListAssumptions`).

`ClientConnectionProofs` proves `ContextCorrect` (`ContextIsMine`) and `KeysCorrect`
(`KeysOnce`) for any number of incarnations of the daemon, keys, other contexts, toggles
and timeouts.  Both say what a client knows from a queue that is late, so the invariant
speaks of what is in the queues and of its order.  The names of the incarnations come in
their order and the name of the running one comes last (`NoticesInOrder`); a CreateICv2
call, its request and its answer belong to the incarnation of `client->proxy`, or the
notice that this one is gone follows (`CallBelongs`, `CreatedBelongs`); a context of the
running incarnation is there only after its name was dispatched (`NamedFirst`), which is
why a name that is dispatched later cancels no live call.  A key is used once because its
request is the only trace of it in the daemon and its answer says what the daemon did
(`KeyInOnePlace`), and because its call is made through the client's proxy
(`KeyOfItsProxy`).

`UserInterfaceProofs` proves `NothingIsStranded`, `SleepingIsDrawn`, `InterfaceIsVisible`
and `OneWindowAtATime` (`NothingStranded`, `AsleepDrawn`, `InterfaceFollowsPanel`,
`OneWindow`) for any number of events and changes of the panel.  The invariant follows the
turns of the event loop: a module that had its turn left nothing in its library's queue
(`Drained`), what is not drawn yet is noted in the flags (`Drawn`), only an interface in
use shows a window (`WindowsKnown`), and the interface in use is the right one or the last
message about the panel that is under way will set it right (`PanelKnown`).

`LifecycleProofs` proves `SavedOnExitCorrect`, `Spec => []SavedOnExit`, for every set of
addons, situation and number of requests to exit.  `SavedOnExit` says something only of
a process that is gone, so the invariant follows it through its phases (`Starting`,
`Running`, `Ending` on either thread, `Saved`): until the first `FcitxInstanceEnd` posts
the semaphore the main thread cannot leave, and it posts last.  `Saved` says that
nothing learnt before is left, and that the profile is whole unless
`FcitxInstanceEnd` was called again.  One lemma per phase shows that every step of it
stays in a phase.

It also proves `InterfaceReadyCorrect` and `WorkingAddonsCorrect`, for every set of
addons, files, priorities, arguments and failures.  Both follow from `LoadInv`, which says
what the array of the addons and the instance are at each step of `FcitxInstanceCreate`:

| before the step | the array | the instance |
|---|---|---|
| choose the interface | `AsRead`: an element per file, by priority | nothing loaded |
| enable its fallback | `Chosen`: of the interfaces only the wanted one is enabled | nothing loaded |
| check dependencies | `Backed`: also its fallback, and that one behind it | nothing loaded |
| load modules | `Checked`: an addon is enabled if its dependencies are too | nothing loaded |
| load the rest | `Checked` | the addons of the kinds before that work (`LoadedOf`), then the interfaces (`ReadyUI`) |

That sorting puts every file in one place of the array is shown by counting
(`SortedPlaces`), that the swap keeps the array with an explicit permutation
(`FallbackBehind`).  The check of the dependencies and the loaders are recursive
functions along the array; `OnePass` and `CreatedFacts` show that they are what a
definition without recursion says.  After the start only `FcitxInstanceEnd` changes what
is loaded, and it takes the interfaces only (`LaterStep`).

These two rest on what the installed `.conf` files and the `Create` functions are like
(`DependenciesAssumption`): what an addon depends on depends on nothing itself and is no
interface; `Create` fails for want of a module only, and that of a module for want of
none; a frontend needs a module that has a descriptor.  With longer chains one pass does not
check them all, since `remove` is never set again (`addon.c:176`).
`FallbackAssumption`: a fallback is another interface.  `SetupsAssumption`: an addon has
one file, and the interfaces differ in priority; of two with the same priority the order
of the directory would decide.

`InputMethodListProofs` proves, for every set of methods and addons, every set of methods
that fail to load, every list clients set and any number of switches, reloads, signals and
starts:

| theorem | property | inductive invariant |
|---|---|---|
| `UsableCorrect` | `CurrentUsable` | `Types /\ Known /\ ReloadsWait /\ Settled` |
| `SavedCorrect` | `ListSaved` | `Types /\ Saving` |
| `TypeCorrect` | `TypeOK` | `Types /\ Distinct /\ Bounds` |
| `ChoiceCorrect` | `ChoiceKept` | `Types /\ Distinct /\ Saving /\ Inventory /\ OnTop /\ Lists /\ Enabled` |
| `RestoredCorrect` | `CurrentRestored` | `ChoiceInv /\ ReloadsWait /\ Taken /\ Recalled /\ Restoring`, where `ChoiceInv` is the invariant above |

The properties speak of a daemon between two calls, so the invariants have to speak of
the stack of calls.  An entry of `imes` is a copy made before or after its method was
loaded (`Known`), and a stale one may be under the keys only as long as a call is in
progress.  The frame of a call that loaded its method waits under an `UpdateIMList` that
is about to begin, or the list was rebuilt and holds the method as it was loaded
(`ReloadsWait`); nested switches in between do not undo that.  `Settled` carries the
chosen entry to the end of the call.  `Saving` says that while file and list differ some
call in progress has yet to save; the outer `UpdateIMList` saves once more after
the switch inside it did.

`ChoiceKept` follows what a client asked for: in the list taken over from the profile or
on top of the stack (`Lists`), then in the entries (`Enabled`), then in the list written
by the next save, which a later start reads.  A method that failed to load is removed from
`availimes` and so from the saved list, and is back with the next start: `Inventory` says
which methods may be missing, and `Keeps` what a list may say of them.

`CurrentRestored` relates two daemons: the one that a signal ended between two calls, and
the next one up to its first call.  Three things make the method come back.

* `Taken`: during a start only the list of the profile is taken over, and when every
  method it turns on is available the entries begin with its methods, in its order.  So
  the method of the profile is in the list, at the place where it was.
* `Recalled`: with `firstAsInactive` a daemon that is up always knows a method to return
  to, `lastIMIndex` is not 0.  Otherwise `FcitxProfileSave` would write the first method
  as the current one, and the next start, which skips the first, would select another.
  `lastIMIndex` starts at 0; it is the first `UpdateIMList`, inside
  `FcitxInstanceCreate`, that sets it.  `Making` follows this call through the loads and saves
  nested in it: whatever it remembers is loaded by the time the list is complete, so that
  the second selection, of `FcitxInstanceCreate` itself, finds the method of the profile
  loaded (`BootSelects`) and ends with an index that is not 0 (`Selecting`).
* `Restoring`: the file asks for the method, by its name, among the methods it turns on,
  and not as the first one under `firstAsInactive` (`Asks`).  A start tracks it
  (`Tracks`): the profile keeps asking for it through every save of the start, no call in
  progress loads another method, and it is current from each selection on.  The
  alternative is that its addon did not register it: then a call is still to look
  it up (`Losing`), and when it does not find it that is remembered in `promise.lost`, the
  exception the property states.

Two assumptions belong to `ChoiceCorrect` and `RestoredCorrect`.  `ClientsAssumption`: a client that sets the
property IMList names a method once, as the list it reads from that property does.  A
list with a name twice would put two entries into `imes`.  `FilesAssumption`: an `inputmethod/*.conf` file gives no priority of 100 or more,
and no method has a name that starts another's; the files of pinyin, shuangpin and quwei
say 5, 5 and 0.  Without it, a method that a list turned on and that failed to load would
be in no list after the next start, hidden or off by default.  Loading changes
the priority of quwei from 0 to 100, the hazard at `ime.c:1355`, and the theorem covers
it: what a client turned on is in the list from then on and the priority no longer
counts.

Before the steps come the helpers: what the filter of a list (`Kept`), the sorted list
(`Sorted`), the index of a name (`GetIMIndexByName`) and the profile written (`Synced`)
return, each from its definition.  `Kept` is a recursive function, and its lemma takes the
smallest prefix on which it would be wrong.  `Sorted` is a choice per place: that there is
one method with k methods before it is shown by counting.

No safety property that a run checks is left without a theorem.
The liveness properties (`CallsEnd`, `KeysSettle`, `Reconnects`, `Settles`,
`StartsOrEnds`) are out of the reach of the prover.

## Plan

Done, in this order: `InputContext`, `IpcFrontend`, `XimFrontend`,
`UserControls`, `InputDaemon` with `SharedMode`, `InputDaemonProofs`,
`CandidateList`, `KeyPipeline`, `CandidateListProofs`, `InputMethodList`,
`ClientConnection`, `UserInterface`, `Lifecycle`, `LifecycleProofs`, `InputModeProofs`,
`UserInterfaceProofs`, `KeyPipelineProofs`, `ClientConnectionProofs`,
`InputMethodListProofs`.

Worth modelling when there is a reason to: hooks and watched variables, the text
modules as filters in `KeyPipeline`, the order of records in a table.

## Not modelled

Two thirds of the code is data or belongs to others: a table of characters
(`utf8_in_gb18030.h`, 63,000 lines), compose and key tables, the XIM protocol library
IMdkit, uthash and utarray.  They are used through their effect.  Drawing, skins, X11
properties, the wording of messages, logging and translations have no state the
properties speak of.  The parsers of pinyin and the dictionaries of pinyin and table
methods transform text; the models take what they find as open, which is more than
they can do.  The command-line tools convert files offline.  The Qt client follows
the GTK client in another language and is not modelled a second time.  The
`PROJECT.json` notes say for every component what is left out.
