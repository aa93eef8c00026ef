-------------------------- MODULE ClientConnection --------------------------
(***************************************************************************)
(* The GTK client (src/frontend/gtk2/client.c and the key path of          *)
(* fcitximcontext.c) and the daemon it talks to over D-Bus, which may die  *)
(* and be started again.  A proxy of dbus-glib is bound to one incarnation *)
(* of the daemon: the bus tells the client when the name changes hands and *)
(* when an incarnation is gone, in the order in which messages reach the   *)
(* client.  Releasing a proxy cancels its calls: their callbacks never run.*)
(* The window of the client has the focus all the time, and committed text *)
(* and preedit are left out.                                               *)
(***************************************************************************)
EXTENDS Naturals, Sequences, FiniteSets

CONSTANTS
  MaxDaemons,  \* incarnations of the daemon
  MaxKeys,     \* keys the user types
  MaxOthers,   \* contexts other programs create in one incarnation
  MaxToggles,  \* times the user switches the input method elsewhere
  MaxTimeouts  \* calls whose answer takes longer than libdbus waits

ASSUME ConnectionAssumption ==
  {MaxDaemons, MaxKeys, MaxOthers, MaxToggles, MaxTimeouts} \subseteq Nat

VARIABLES
  daemon,   \* up: the owner of the name (0: nobody); lives: incarnations so
            \* far; ctx: the contexts of the incarnation, number 0 first;
            \* requests: calls it has not dispatched
  client,   \* st; sync: FCITX_ENABLE_SYNC_MODE; proxy: the incarnation of
            \* client->proxy (0: NULL); call: the CreateICv2 call under way
            \* (0: none); calls: such calls so far; failed: the last one
            \* ended with an error; ic: client->icproxy; enable; waiting:
            \* the key of a blocking call (0: none)
  inbox,    \* messages of the bus the client has not dispatched
  keys,     \* for every key st: what became of it; to: the incarnation it
            \* was sent to; stale: sent through the proxy of a context that
            \* another incarnation created; failed: the call ended in an error
  consumed, \* keys the daemon answered with 1
  used      \* toggles and timeouts so far

vars == <<daemon, client, inbox, keys, consumed, used>>

Daemons == 1 .. MaxDaemons
Keys    == 1 .. MaxKeys
Nobody  == 0
NoIC    == [owner |-> Nobody, id |-> 0]

IsOpen == client.st = "open"

\* IsFcitxIMClientValid
Valid(c) == c.proxy # Nobody /\ c.ic # NoIC

Pending(k) == keys[k].st \in {"pending", "waiting"}

\* The context `id` of the incarnation that runs.
Alive(id) == id < Len(daemon.ctx) /\ daemon.ctx[id + 1].alive

-----------------------------------------------------------------------------
(* Messages.  The bus drops what is sent to an incarnation that is gone;    *)
(* its error reply reaches the client after the notice that cancels the    *)
(* call.                                                                    *)

ToDaemon(owner, request) ==
  IF owner = daemon.up THEN [daemon EXCEPT !.requests = Append(@, request)]
                       ELSE daemon

Received(messages) == IF IsOpen THEN inbox \o messages ELSE inbox

Name(owner)         == [type |-> "name", owner |-> owner]
Gone(owner)         == [type |-> "gone", owner |-> owner]
Created(call, i, b) == [type |-> "created", call |-> call, id |-> i, on |-> b]
Answer(k, ret)      == [type |-> "answer", key |-> k, ret |-> ret]
Signal(name, ic)    == [type |-> name, ic |-> ic]

\* A signal of a context reaches the client only once its proxy is there:
\* before that the bus has no match rule for it.
Signalled(name, id) ==
  LET ic == [owner |-> daemon.up, id |-> id]
  IN IF client.ic = ic THEN <<Signal(name, ic)>> ELSE <<>>

-----------------------------------------------------------------------------
(* client.c                                                                 *)

\* g_object_unref of the proxies: the calls made through them are cancelled.
Cancelled == [k \in Keys |-> IF keys[k].st = "pending"
                               THEN [keys[k] EXCEPT !.st = "cancelled"]
                               ELSE keys[k]]

\* FcitxIMClientCreateIC asks the bus for the owner and calls CreateICv2.
CreateIC(c) ==
  IF daemon.up = Nobody
    THEN /\ client' = [c EXCEPT !.proxy = Nobody, !.call = 0]
         /\ UNCHANGED daemon
    ELSE /\ client' = [c EXCEPT !.proxy = daemon.up, !.call = c.calls + 1,
                                !.calls = @ + 1, !.failed = FALSE]
         /\ daemon' = ToDaemon(daemon.up, [type |-> "create",
                                           call |-> c.calls + 1])

\* FcitxIMClientOpen
Open ==
  /\ client.st = "new"
  /\ CreateIC([client EXCEPT !.st = "open"])
  /\ UNCHANGED <<inbox, keys, consumed, used>>

\* FcitxIMClientClose; the proxies go and with them the calls under way.
Close ==
  /\ IsOpen
  /\ client.waiting = 0
  /\ daemon' = IF client.ic # NoIC
                 THEN ToDaemon(client.ic.owner, [type |-> "destroy",
                                                 id |-> client.ic.id])
                 ELSE daemon
  /\ client' = [client EXCEPT !.st = "closed", !.proxy = Nobody, !.ic = NoIC,
                              !.call = 0]
  /\ keys' = Cancelled
  /\ inbox' = <<>>
  /\ UNCHANGED <<consumed, used>>

\* Mutant: the proxies go, and no context is asked for.
NameChangedOnlyReleases(m) ==
  IF m.owner = Nobody
    THEN UNCHANGED <<daemon, client, keys>>
    ELSE /\ client' = [client EXCEPT !.ic = NoIC, !.proxy = Nobody, !.call = 0]
         /\ keys' = Cancelled
         /\ UNCHANGED daemon

\* _changed_cb: only an owner that is not empty matters.
NameChanged(m) ==
  IF m.owner = Nobody
    THEN UNCHANGED <<daemon, client, keys>>
    ELSE /\ CreateIC([client EXCEPT !.ic = NoIC,
                                    !.enable = @ \/ client.proxy # Nobody])
         /\ keys' = Cancelled

\* Mutant: the proxy of the context outlives the other one.
DestroyedKeepsContext(m) ==
  IF client.proxy = m.owner
    THEN /\ client' = [client EXCEPT !.proxy = Nobody, !.call = 0, !.enable = TRUE]
         /\ UNCHANGED <<daemon, keys>>
    ELSE UNCHANGED <<daemon, client, keys>>

\* _destroy_cb of the proxy, when dbus-glib learns that its owner is gone;
\* the callback of the context passes false to SetEnabled, which sets true.
Destroyed(m) ==
  IF client.proxy = m.owner
    THEN /\ client' = [client EXCEPT !.proxy = Nobody, !.ic = NoIC,
                                     !.call = 0, !.enable = TRUE]
         /\ keys' = Cancelled
         /\ UNCHANGED daemon
    ELSE UNCHANGED <<daemon, client, keys>>

\* FcitxIMClientCreateICCallback asks for the owner again: the number is of
\* the incarnation that answered, the proxy of the one that runs.
ICCreated(m) ==
  IF client.call = m.call
    THEN /\ client' = [client EXCEPT !.call = 0, !.enable = m.on,
                         !.ic = IF daemon.up = Nobody THEN NoIC
                                ELSE [owner |-> daemon.up, id |-> m.id]]
         /\ UNCHANGED <<daemon, keys>>
    ELSE UNCHANGED <<daemon, client, keys>>

\* Mutant: the test of `ret` is the wrong way round.
KeyAnsweredInverted(m) ==
  /\ \E ret \in IF m.ret = "error" THEN {"handled", "ignored"} ELSE {m.ret} :
       keys' = IF keys[m.key].st # "pending" THEN keys
               ELSE [keys EXCEPT ![m.key].st =
                       IF ret = "handled" THEN "putback" ELSE "dropped",
                                 ![m.key].failed = m.ret = "error"]
  /\ UNCHANGED <<daemon, client>>

\* _fcitx_im_context_process_key_cb; after an error `ret` is what the stack
\* held.  The event of a key that was not handled is put back.
KeyAnswered(m) ==
  /\ \E ret \in IF m.ret = "error" THEN {"handled", "ignored"} ELSE {m.ret} :
       keys' = IF keys[m.key].st # "pending" THEN keys
               ELSE [keys EXCEPT ![m.key].st =
                       IF ret = "ignored" THEN "putback" ELSE "dropped",
                                 ![m.key].failed = m.ret = "error"]
  /\ UNCHANGED <<daemon, client>>

\* The signals EnableIM and CloseIM: both end in SetEnabled, which ignores
\* its argument.
Switched(m) ==
  /\ client' = IF m.ic = client.ic THEN [client EXCEPT !.enable = TRUE]
                                   ELSE client
  /\ UNCHANGED <<daemon, keys>>

\* The client dispatches the next message, unless it waits in a call.
Dispatch ==
  /\ IsOpen
  /\ client.waiting = 0
  /\ inbox # <<>>
  /\ LET m == Head(inbox)
     IN \/ m.type = "name" /\ NameChanged(m)
        \/ m.type = "gone" /\ Destroyed(m)
        \/ m.type = "created" /\ ICCreated(m)
        \/ m.type = "answer" /\ KeyAnswered(m)
        \/ m.type \in {"EnableIM", "CloseIM"} /\ Switched(m)
  /\ inbox' = Tail(inbox)
  /\ UNCHANGED <<consumed, used>>

-----------------------------------------------------------------------------
(* fcitximcontext.c                                                         *)

\* fcitx_im_context_filter_keypress for the next key: the client does not
\* bother the daemon when it has no context, or with a key that is not the
\* trigger while it believes the context closed.
FilterKeypress(k, trigger) ==
  /\ IsOpen
  /\ client.waiting = 0
  /\ keys[k].st = "none"
  /\ \A j \in 1 .. (k - 1) : keys[j].st # "none"
  /\ IF Valid(client) /\ (client.enable \/ trigger)
       THEN /\ keys' = [keys EXCEPT ![k] =
                          [st |-> IF client.sync THEN "waiting" ELSE "pending",
                           to |-> client.ic.owner, failed |-> FALSE,
                           stale |-> client.ic.owner # client.proxy]]
            /\ client' = [client EXCEPT !.waiting =
                                          IF client.sync THEN k ELSE 0]
            /\ daemon' = ToDaemon(client.ic.owner,
                                  [type |-> "key", id |-> client.ic.id,
                                   key |-> k, trigger |-> trigger])
       ELSE /\ keys' = [keys EXCEPT ![k].st = "delivered"]
            /\ UNCHANGED <<client, daemon>>
  /\ UNCHANGED <<inbox, consumed, used>>

\* FcitxIMClientProcessKeySync returns: the answer is taken out of the queue,
\* the messages before it stay.  An error, also that of the bus for a daemon
\* that died, makes it -1, and the key goes to the application.
ProcessKeySync ==
  /\ client.waiting # 0
  /\ \/ /\ client.waiting \in Keys
        /\ keys[client.waiting].to # daemon.up
        /\ \A i \in DOMAIN inbox :
             ~(inbox[i].type = "answer" /\ inbox[i].key = client.waiting)
        /\ keys' = [keys EXCEPT ![client.waiting].st = "delivered",
                                ![client.waiting].failed = TRUE]
        /\ UNCHANGED inbox
     \/ \E i \in DOMAIN inbox :
          /\ inbox[i].type = "answer"
          /\ inbox[i].key = client.waiting
          /\ keys' = [keys EXCEPT ![client.waiting].st =
                        IF inbox[i].ret = "handled" THEN "dropped"
                                                    ELSE "delivered",
                                 ![client.waiting].failed =
                        inbox[i].ret = "error"]
          /\ inbox' = SubSeq(inbox, 1, i - 1)
                        \o SubSeq(inbox, i + 1, Len(inbox))
  /\ client' = [client EXCEPT !.waiting = 0]
  /\ UNCHANGED <<daemon, consumed, used>>

\* libdbus gives a call up: for a key that is an error, after CreateICv2 the
\* client has a proxy and no context, and nothing makes it try again.
TimeOut ==
  /\ used.timeouts < MaxTimeouts
  /\ \/ \E k \in Keys :
          /\ Pending(k)
          /\ \E st \in IF keys[k].st = "waiting" THEN {"delivered"}
                        ELSE {"putback", "dropped"} :
               keys' = [keys EXCEPT ![k].st = st, ![k].failed = TRUE]
          /\ client' = [client EXCEPT !.waiting = 0]
     \/ /\ client.call # 0
        /\ client.waiting = 0
        /\ client' = [client EXCEPT !.call = 0, !.failed = TRUE,
                                    !.enable = FALSE]
        /\ UNCHANGED keys
  /\ used' = [used EXCEPT !.timeouts = @ + 1]
  /\ UNCHANGED <<daemon, inbox, consumed>>

\* The event that was put back comes round with the mark of an ignored key
\* and goes to the application.
PutBackKey(k) ==
  /\ client.waiting = 0
  /\ keys[k].st = "putback"
  /\ keys' = [keys EXCEPT ![k].st = "delivered"]
  /\ UNCHANGED <<daemon, client, inbox, consumed, used>>

-----------------------------------------------------------------------------
(* The daemon                                                               *)

\* The daemon takes the name.
Start ==
  /\ daemon.up = Nobody
  /\ daemon.lives < MaxDaemons
  /\ daemon' = [up |-> daemon.lives + 1, lives |-> daemon.lives + 1,
                ctx |-> <<>>, requests |-> <<>>]
  /\ inbox' = Received(<<Name(daemon.lives + 1)>>)
  /\ UNCHANGED <<client, keys, consumed, used>>

\* The daemon ends or crashes: the bus tells of the name, then of the
\* connection.
Stop ==
  /\ daemon.up # Nobody
  /\ daemon' = [daemon EXCEPT !.up = Nobody, !.ctx = <<>>, !.requests = <<>>]
  /\ inbox' = Received(<<Name(Nobody), Gone(daemon.up)>>)
  /\ UNCHANGED <<client, keys, consumed, used>>

Context(by, on) == [by |-> by, alive |-> TRUE, on |-> on]

\* IPCCreateIC for another program.
OtherCreates ==
  /\ daemon.up # Nobody
  /\ Cardinality({i \in DOMAIN daemon.ctx : daemon.ctx[i].by = "other"}) < MaxOthers
  /\ daemon' = [daemon EXCEPT !.ctx = Append(@, Context("other", FALSE))]
  /\ UNCHANGED <<client, inbox, keys, consumed, used>>

\* The user switches the state that contexts share, somewhere else.
ToggleElsewhere(id) ==
  /\ used.toggles < MaxToggles
  /\ Alive(id)
  /\ LET on == ~daemon.ctx[id + 1].on
     IN /\ daemon' = [daemon EXCEPT !.ctx[id + 1].on = on]
        /\ inbox' = Received(Signalled(IF on THEN "EnableIM" ELSE "CloseIM", id))
  /\ used' = [used EXCEPT !.toggles = @ + 1]
  /\ UNCHANGED <<client, keys, consumed>>

\* IPCCreateIC: numbers are never given twice.  The state may be one that
\* contexts share.
ServeCreate(r, d) ==
  /\ \E on \in BOOLEAN :
       /\ daemon' = [d EXCEPT !.ctx = Append(@, Context("client", on))]
       /\ inbox' = Received(<<Created(r.call, Len(d.ctx), on)>>)
  /\ UNCHANGED consumed

\* DestroyIC
ServeDestroy(r, d) ==
  /\ daemon' = IF Alive(r.id) THEN [d EXCEPT !.ctx[r.id + 1].alive = FALSE]
                              ELSE d
  /\ UNCHANGED <<inbox, consumed>>

\* Mutant: a key for a context that is not there gets no answer.
ServeKeySilent(r, d) ==
  /\ daemon' = d
  /\ IF Alive(r.id)
       THEN /\ inbox' = Received(<<Answer(r.key, "handled")>>)
            /\ consumed' = consumed \cup {r.key}
       ELSE UNCHANGED <<inbox, consumed>>

\* IPCProcessKey: nobody handles the path of a context that is not there, and
\* libdbus answers with an error.  The trigger switches the context, another
\* key is handled as the input method likes.
ServeKey(r, d) ==
  IF ~Alive(r.id)
    THEN /\ daemon' = d
         /\ inbox' = Received(<<Answer(r.key, "error")>>)
         /\ UNCHANGED consumed
    ELSE \E ret \in {"handled", "ignored"} :
           /\ r.trigger => ret = "handled"
           /\ ret = "handled" => r.trigger \/ d.ctx[r.id + 1].on
           /\ daemon' = IF r.trigger THEN [d EXCEPT !.ctx[r.id + 1].on = ~@]
                                     ELSE d
           /\ inbox' = Received(
                (IF r.trigger
                   THEN Signalled(IF d.ctx[r.id + 1].on THEN "CloseIM"
                                                        ELSE "EnableIM", r.id)
                   ELSE <<>>) \o <<Answer(r.key, ret)>>)
           /\ consumed' = IF ret = "handled" THEN consumed \cup {r.key}
                                             ELSE consumed

\* DBusProcessEvent dispatches the next call.
Serve ==
  /\ daemon.requests # <<>>
  /\ LET r == Head(daemon.requests)
         d == [daemon EXCEPT !.requests = Tail(@)]
     IN \/ r.type = "create" /\ ServeCreate(r, d)
        \/ r.type = "destroy" /\ ServeDestroy(r, d)
        \/ r.type = "key" /\ ServeKey(r, d)
  /\ UNCHANGED <<client, keys, used>>

-----------------------------------------------------------------------------
Init ==
  /\ daemon = [up |-> Nobody, lives |-> 0, ctx |-> <<>>, requests |-> <<>>]
  /\ \E sync \in BOOLEAN :
       client = [st |-> "new", sync |-> sync, failed |-> FALSE, proxy |-> Nobody,
                 call |-> 0, calls |-> 0, ic |-> NoIC, enable |-> FALSE, waiting |-> 0]
  /\ inbox = <<>>
  /\ keys = [k \in Keys |-> [st |-> "none", to |-> Nobody, failed |-> FALSE,
                           stale |-> FALSE]]
  /\ consumed = {}
  /\ used = [toggles |-> 0, timeouts |-> 0]

\* Steps the client's main loop takes by itself.
ClientStep == Dispatch \/ ProcessKeySync \/ \E k \in Keys : PutBackKey(k)

Next ==
  \/ Open
  \/ Close
  \/ ClientStep
  \/ \E k \in Keys, trigger \in BOOLEAN : FilterKeypress(k, trigger)
  \/ TimeOut
  \/ Start
  \/ Stop
  \/ OtherCreates
  \/ \E id \in 0 .. (Len(daemon.ctx) - 1) : ToggleElsewhere(id)
  \/ Serve

\* The main loops of both programs go on; nobody is bound to start a daemon,
\* to type or to open a client.
Spec == Init /\ [][Next]_vars /\ WF_vars(ClientStep) /\ WF_vars(Serve)

-----------------------------------------------------------------------------
(* Properties                                                               *)

\* The proxy of the context is bound to a context the daemon created for this
\* client (client.c:217).  It may be another program's, or nobody's, only as
\* long as the notice that an incarnation is gone waits to be dispatched,
\* and that notice releases it.
ContextIsMine ==
  client.ic # NoIC =>
    \/ /\ client.ic.owner = client.proxy
       /\ client.proxy = daemon.up
       /\ Alive(client.ic.id)
       /\ daemon.ctx[client.ic.id + 1].by = "client"
    \/ \E i \in DOMAIN inbox : inbox[i] = Gone(client.proxy)

\* What the user types is neither lost nor used twice: a key goes to the
\* application or the daemon handles it.  The exceptions: the call for the
\* key failed, its incarnation is gone, the key went to a context of another
\* incarnation, or the client was closed with the key under way.
KeysOnce ==
  \A k \in Keys :
    /\ keys[k].st \in {"putback", "delivered"} =>
         k \notin consumed \/ keys[k].failed
    /\ keys[k].st = "dropped" => k \in consumed \/ keys[k].failed
    /\ keys[k].st = "cancelled" =>
         keys[k].to # daemon.up \/ keys[k].stale \/ ~IsOpen

\* A key never stays under way: it is answered, fails, or is cancelled with
\* its incarnation (fcitximcontext.c:508).
KeysSettle == \A k \in Keys : Pending(k) ~> ~Pending(k)

\* An open client and a daemon that stays find each other, whatever happened
\* before, unless the call that creates the context failed (client.c:147).
Reconnects ==
  \A d \in Daemons :
    <>[](IsOpen /\ daemon.up = d) =>
      <>[](client.failed \/ (Valid(client) /\ client.ic.owner = d
                                           /\ client.proxy = d))

=============================================================================
