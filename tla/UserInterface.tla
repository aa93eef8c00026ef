--------------------------- MODULE UserInterface ---------------------------
(***************************************************************************)
(* The event loop of the daemon (RunInstance in src/lib/fcitx/instance.c),  *)
(* the modules it asks in turn for their events, and the two user           *)
(* interfaces it draws with: the panel, a process that kimpanel talks to   *)
(* over D-Bus, and the classic interface it falls back to when the panel   *)
(* is gone.  Xlib and libdbus have queues of their own: talking to the X   *)
(* server or to the bus may move there what waits in the socket, and       *)
(* select does not see it.  A drawing panel shows what it is told at once. *)
(***************************************************************************)
EXTENDS Naturals, Sequences

CONSTANTS
  MaxEvents,  \* X events, bus messages and commands that arrive in all
  MaxPanel    \* times the panel starts, announces itself or goes away

ASSUME InterfaceAssumption == {MaxEvents, MaxPanel} \subseteq Nat

VARIABLES
  loop,   \* at: the phase; order: the event modules; turn: the one whose
          \* ProcessEvent runs; flag: instance->uiflag; ready: the last select
          \* found the bus readable; late: a queue was filled after the turn
          \* of its module in this pass
  x11,    \* events in the socket and in the queue of Xlib
  bus,    \* messages in the socket and in the queue of libdbus
  remote, \* connections of fcitx-remote that were not accepted
  input,  \* what there is to show: a version, 0 when there is nothing
  ui,     \* now: the interface in use; fallback: whether there is a second;
          \* client: the context with the focus draws its window itself
          \* (CAPACITY_CLIENT_SIDE_UI)
  screen, \* the version in the window of each interface, 0: no window
  panel,  \* st: the panel process; missed: the panel, the interface or who
          \* draws changed since the last update of the window
  count   \* what happened so far, for the bounds

vars == <<loop, x11, bus, remote, input, ui, screen, panel, count>>

Nothing == 0
Events  == {"key", "cursor", "focus", "taken", "signal", "query"}

Asleep == loop.at = "select"
Module == loop.order[loop.turn]
Fetched(q) == [sock |-> <<>>, lib |-> q.lib \o q.sock]

\* The module had its turn in this pass.
TurnOver(m) == \E i \in 1 .. (loop.turn - 1) : loop.order[i] = m

-----------------------------------------------------------------------------
(* What handlers do                                                         *)

\* FcitxUISwitchToFallback.  Nothing is drawn; ClassicUIResume looks for the
\* tray, and the answer of the X server brings the events before it.
SwitchToFallback ==
  IF ui.fallback /\ ui.now = "kimpanel"
    THEN /\ ui' = [ui EXCEPT !.now = "classic"]
         /\ panel' = [panel EXCEPT !.missed = TRUE]
         /\ x11' = Fetched(x11)
         /\ loop' = [loop EXCEPT !.late = @ \/ (TurnOver("x11") /\ x11.sock # <<>>)]
         /\ UNCHANGED screen
    ELSE UNCHANGED <<ui, screen, panel, x11, loop>>

\* Mutant: the window of the interface that is left stays.
ResumeLeavesWindow ==
  IF ui.fallback /\ ui.now = "classic"
    THEN /\ ui' = [ui EXCEPT !.now = "kimpanel"]
         /\ panel' = [panel EXCEPT !.missed = TRUE]
         /\ UNCHANGED <<screen, x11, loop>>
    ELSE UNCHANGED <<ui, screen, panel, x11, loop>>

\* FcitxUIResumeFromFallback: ClassicUISuspend closes the windows.
ResumeFromFallback ==
  IF ui.fallback /\ ui.now = "classic"
    THEN /\ ui' = [ui EXCEPT !.now = "kimpanel"]
         /\ screen' = [screen EXCEPT !.classic = Nothing]
         /\ panel' = [panel EXCEPT !.missed = TRUE]
         /\ UNCHANGED <<x11, loop>>
    ELSE UNCHANGED <<ui, screen, panel, x11, loop>>

\* Mutant: only the announcement of a panel switches the interface.
PanelMessageIgnoresLoss(e) ==
  /\ IF e = "PanelCreated" THEN ResumeFromFallback
                           ELSE UNCHANGED <<ui, screen, panel, x11, loop>>
  /\ UNCHANGED <<input, count>>

\* KimpanelDBusFilter for PanelCreated and for the loss of the panel's name,
\* KimpanelServiceExistCallback for the answer of the bus at the start.
PanelMessage(e) ==
  /\ CASE e = "PanelCreated" -> ResumeFromFallback
       [] e \in {"PanelGone", "NoPanel"} -> SwitchToFallback
       [] OTHER -> UNCHANGED <<ui, screen, panel, x11, loop>>
  /\ UNCHANGED <<input, count>>

\* What an event asks the loop to draw: a state that is switched without an
\* update only sends a signal, and a query does neither.
Asks(e) == CASE e \in {"key", "focus"} -> {"update"}
             [] e = "cursor" -> {"move"}
             [] OTHER -> {}

\* An event of a client or of the user, from any module.  A key changes what
\* there is to show; FocusIn and FocusOut clear it.  A context whose flags
\* are replaced, or that takes the focus without FocusIn, asks for nothing.
\* The new context draws its window itself in one of the ways of clients.
Event(e, clients) ==
  /\ IF e = "key"
       THEN /\ input' \in {Nothing, count.versions + 1}
            /\ count' = [count EXCEPT !.versions = @ + 1]
       ELSE /\ input' = IF e = "focus" THEN Nothing ELSE input
            /\ UNCHANGED count
  /\ IF e \in {"focus", "taken"}
       THEN \E client \in clients :
              /\ ui' = [ui EXCEPT !.client = client]
              /\ panel' = [panel EXCEPT !.missed = @ \/ (e = "taken" /\ ui.client /\ ~client)]
       ELSE UNCHANGED <<ui, panel>>
  /\ UNCHANGED screen

\* A handler that sends over the bus flushes, and a flush that has to wait for
\* the socket reads as well, be it after the turn of the module of the bus.
ReadLate(reads) == reads /\ TurnOver("dbus") /\ bus.sock # <<>>

-----------------------------------------------------------------------------
(* RunInstance                                                              *)

\* The next module, or the drawing once all had their turn.
NextTurn(l) == IF l.turn < Len(l.order) THEN [l EXCEPT !.turn = @ + 1, !.at = "module"]
                                        ELSE [l EXCEPT !.at = "draw"]

\* X11ProcessEvent handles events until neither queue holds any.  A context
\* of an XIM client never draws its window.
X11ProcessEvent ==
  /\ loop.at = "module" /\ Module = "x11"
  /\ LET waiting == Fetched(x11)
         e == Head(waiting.lib)
     IN IF waiting.lib = <<>>
          THEN /\ loop' = NextTurn(loop)
               /\ UNCHANGED <<x11, bus, input, ui, screen, panel, count>>
          ELSE \E reads \in BOOLEAN :
                 /\ reads => e # "query"
                 /\ bus' = IF reads THEN Fetched(bus) ELSE bus
                 /\ x11' = [waiting EXCEPT !.lib = Tail(@)]
                 /\ loop' = [loop EXCEPT !.flag = @ \cup Asks(e),
                                         !.late = @ \/ ReadLate(reads)]
                 /\ Event(e, {FALSE})
  /\ UNCHANGED remote

\* DBusProcessEvent first handles the watches select found ready ...
DBusHandleWatches ==
  /\ loop.at = "module" /\ Module = "dbus"
  /\ bus' = IF loop.ready THEN Fetched(bus) ELSE bus
  /\ loop' = [loop EXCEPT !.at = "dispatch"]
  /\ UNCHANGED <<x11, remote, input, ui, screen, panel, count>>

\* ... then dispatches until libdbus has no message left.
DBusDispatch ==
  /\ loop.at = "dispatch"
  /\ IF bus.lib = <<>>
       THEN /\ loop' = NextTurn(loop)
            /\ UNCHANGED <<bus, x11, input, ui, screen, panel, count>>
       ELSE LET e == Head(bus.lib)
                rest == [bus EXCEPT !.lib = Tail(@)]
            IN /\ IF e \in Events
                    THEN /\ loop' = [loop EXCEPT !.flag = @ \cup Asks(e)]
                         /\ Event(e, BOOLEAN)
                         /\ UNCHANGED x11
                    ELSE PanelMessage(e)
               /\ bus' \in {rest, Fetched(rest)}
  /\ UNCHANGED remote

\* RemoteProcessEvent accepts one connection.  What it switches clears what
\* there is to show.
RemoteProcessEvent ==
  /\ loop.at = "module" /\ Module = "remote"
  /\ IF remote = <<>>
       THEN /\ loop' = NextTurn(loop)
            /\ UNCHANGED <<remote, bus, input, count>>
       ELSE \E reads \in BOOLEAN :
              /\ reads => Head(remote) # "query"
              /\ bus' = IF reads THEN Fetched(bus) ELSE bus
              /\ remote' = Tail(remote)
              /\ loop' = NextTurn([loop EXCEPT
                           !.flag = @ \cup Asks(Head(remote)),
                           !.late = @ \/ ReadLate(reads)])
              /\ IF Head(remote) = "key"
                   THEN /\ input' = Nothing
                        /\ count' = [count EXCEPT !.versions = @ + 1]
                   ELSE UNCHANGED <<input, count>>
  /\ UNCHANGED <<x11, ui, screen, panel>>

\* A pass of the loop begins.
Pass(l) == [l EXCEPT !.at = "module", !.turn = 1, !.flag = {}, !.late = FALSE]

\* FcitxUIUpdateInputWindowReal draws with the interface in use: kimpanel
\* sends signals, which nobody hears when there is no panel.  For a context
\* that draws itself it sends a signal and leaves every window as it is.
Updated ==
  IF ui.client THEN screen
  ELSE [screen EXCEPT ![ui.now] = IF ui.now = "kimpanel" /\ panel.st # "ready"
                                    THEN Nothing ELSE input]

Refreshes == "update" \in loop.flag /\ ~ui.client

\* Mutant: what drawing brought in is left for the next time.
DrawAndSleep ==
  /\ loop.at = "draw"
  /\ screen' = IF "update" \in loop.flag THEN Updated ELSE screen
  /\ panel' = [panel EXCEPT !.missed = @ /\ ~Refreshes]
  /\ x11' = IF loop.flag # {} /\ ui.now = "classic" THEN Fetched(x11) ELSE x11
  /\ loop' = [loop EXCEPT !.at = "select"]
  /\ UNCHANGED <<bus, remote, input, ui, count>>

\* Mutant: a move takes the place of the update.
DrawMovesOnly ==
  /\ loop.at = "draw"
  /\ screen' = IF loop.flag = {"update"} THEN Updated ELSE screen
  /\ panel' = [panel EXCEPT !.missed = @ /\ ~Refreshes]
  /\ loop' = IF loop.flag # {} THEN Pass(loop) ELSE [loop EXCEPT !.at = "select"]
  /\ UNCHANGED <<x11, bus, remote, input, ui, count>>

\* The window is moved and updated as the handlers asked.  The classic
\* interface may ask the X server where and whether there is a window;
\* kimpanel, and an update of the preedit or of the window of a client, flush
\* a signal.  Both may fill the queues, so the loop goes round again unless
\* there was nothing to draw.
Draw ==
  /\ loop.at = "draw"
  /\ screen' = IF "update" \in loop.flag THEN Updated ELSE screen
  /\ panel' = [panel EXCEPT !.missed = @ /\ ~Refreshes]
  /\ \E asks, sends \in BOOLEAN :
       /\ asks => loop.flag # {} /\ ui.now = "classic" /\ ~ui.client
       /\ sends => \/ "update" \in loop.flag
                   \/ loop.flag # {} /\ ui.now = "kimpanel" /\ ~ui.client
       /\ x11' = IF asks THEN Fetched(x11) ELSE x11
       /\ bus' = IF sends THEN Fetched(bus) ELSE bus
  /\ loop' = IF loop.flag # {} THEN Pass(loop) ELSE [loop EXCEPT !.at = "select"]
  /\ UNCHANGED <<remote, input, ui, count>>

\* Mutant: the flags are not reset.
SelectKeepsFlags ==
  /\ Asleep
  /\ x11.sock # <<>> \/ bus.sock # <<>> \/ remote # <<>>
  /\ loop' = [loop EXCEPT !.at = "module", !.turn = 1, !.ready = FALSE]
  /\ UNCHANGED <<x11, bus, remote, input, ui, screen, panel, count>>

\* select returns when a socket is readable.
Select ==
  /\ Asleep
  /\ x11.sock # <<>> \/ bus.sock # <<>> \/ remote # <<>>
  /\ loop' = [Pass(loop) EXCEPT !.ready = bus.sock # <<>>]
  /\ UNCHANGED <<x11, bus, remote, input, ui, screen, panel, count>>

Loop == \/ X11ProcessEvent \/ DBusHandleWatches \/ DBusDispatch
        \/ RemoteProcessEvent \/ Draw \/ Select

-----------------------------------------------------------------------------
(* The world around the daemon                                              *)

Arrive ==
  /\ count.events < MaxEvents
  /\ \/ \E e \in {"key", "focus", "taken", "query"} : x11' = [x11 EXCEPT !.sock = Append(@, e)]
        /\ UNCHANGED <<bus, remote>>
     \/ \E e \in Events : bus' = [bus EXCEPT !.sock = Append(@, e)]
        /\ UNCHANGED <<x11, remote>>
     \/ \E e \in {"key", "signal", "query"} : remote' = Append(remote, e)
        /\ UNCHANGED <<x11, bus>>
  /\ count' = [count EXCEPT !.events = @ + 1]
  /\ UNCHANGED <<loop, input, ui, screen, panel>>

Tell(message) == bus' = [bus EXCEPT !.sock = Append(@, message)]

\* The panel takes its name, announces itself, is replaced by another one, or
\* goes away.
PanelStep(from, to) ==
  /\ count.panel < MaxPanel
  /\ panel.st = from
  /\ panel' = [st |-> to, missed |-> TRUE]
  /\ screen' = [screen EXCEPT !.kimpanel = Nothing]
  /\ count' = [count EXCEPT !.panel = @ + 1]
  /\ UNCHANGED <<loop, x11, remote, input, ui>>

PanelStarts    == PanelStep("none", "named") /\ UNCHANGED bus
PanelReplaced  == PanelStep("ready", "named") /\ UNCHANGED bus
PanelAnnounces == PanelStep("named", "ready") /\ Tell("PanelCreated")
PanelDies      == \E st \in {"named", "ready"} :
                    PanelStep(st, "none") /\ Tell("PanelGone")

\* KimpanelCreate asked the bus whether there is a panel; the classic
\* interface was loaded as the fallback and suspended, or there is none.
\* The order of modules of one priority is not fixed.
Init ==
  /\ \E order \in {<<"x11", "dbus", "remote">>, <<"dbus", "x11", "remote">>} :
       loop = [at |-> "module", order |-> order, turn |-> 1, flag |-> {},
               ready |-> FALSE, late |-> FALSE]
  /\ \E st \in {"none", "named", "ready"} :
       /\ panel = [st |-> st, missed |-> TRUE]
       /\ bus = [sock |-> <<IF st = "none" THEN "NoPanel" ELSE "Panel">>,
                 lib |-> <<>>]
  /\ x11 = [sock |-> <<>>, lib |-> <<>>]
  /\ remote = <<>>
  /\ input = Nothing
  /\ \E fallback \in BOOLEAN : ui = [now |-> "kimpanel", fallback |-> fallback,
                                       client |-> FALSE]
  /\ screen = [kimpanel |-> Nothing, classic |-> Nothing]
  /\ count = [events |-> 0, versions |-> 0, panel |-> 0]

Next == Loop \/ Arrive \/ PanelStarts \/ PanelReplaced \/ PanelAnnounces \/ PanelDies

\* The thread of the loop runs; nobody is bound to send anything.
Spec == Init /\ [][Next]_vars /\ WF_vars(Loop)

-----------------------------------------------------------------------------
(* Properties                                                               *)

\* When the loop sleeps, the window shows what there is to show
\* (instance.c:229), unless the interface or the panel changed since the last
\* update, or a context takes over the focus or new flags: none of these asks
\* for one.  While the context with the focus draws its window itself, the
\* window of the context before it stays as it was (ui.c:846); FocusIn of the
\* next one mends that.
AsleepDrawn ==
  /\ Asleep /\ ~ui.client /\ ~panel.missed
  /\ ui.now = "classic" \/ panel.st = "ready"
  =>
    screen[ui.now] = input

\* When the loop sleeps, nothing is left in the queues that select does not
\* watch (instance.c:231), however drawing filled them.  The exception is a
\* handler that fills a queue when its module had its turn and asks for no
\* drawing.
NothingStranded ==
  Asleep /\ ~loop.late => x11.lib = <<>> /\ bus.lib = <<>>

\* Once the messages about the panel are dispatched, the interface in use is
\* one the user can see: the panel when it announced itself, the fallback
\* when it is gone (kimpanel.c:761, 796, 1408).
InterfaceFollowsPanel ==
  ui.fallback /\ Asleep /\ bus.sock = <<>> /\ bus.lib = <<>> =>
    /\ panel.st = "ready" => ui.now = "kimpanel"
    /\ panel.st = "none" => ui.now = "classic"

\* The input is shown in two windows at most until the announcement of the
\* panel that shows it is dispatched (kimpanel.c:761).
OneWindow ==
  screen.kimpanel # Nothing /\ screen.classic # Nothing =>
    \E i \in DOMAIN (bus.lib \o bus.sock) : (bus.lib \o bus.sock)[i] = "PanelCreated"

\* When nothing more arrives, the loop handles everything the sockets hold
\* and sleeps; it does not go round for ever (instance.c:217).
Settles ==
  <>[](Asleep /\ x11.sock = <<>> /\ bus.sock = <<>> /\ remote = <<>>)

=============================================================================
