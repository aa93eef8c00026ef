------------------------ MODULE UserInterfaceProofs ------------------------
(***************************************************************************)
(* What the event loop and the switching between the panel and the classic *)
(* interface keep true, however many events arrive and however often the   *)
(* panel starts and dies: nothing is left behind in a queue select does    *)
(* not watch, the window shows the input while the loop sleeps, and the    *)
(* interface in use follows the panel.                                     *)
(*                                                                         *)
(* The loop's phases carry the first two (Drained, Drawn).  The last is    *)
(* about messages on their way: the interface is the right one, or the     *)
(* last message about the panel, in libdbus or still in the socket, is the *)
(* one that will set it right (PanelKnown).                                *)
(***************************************************************************)
EXTENDS UserInterface, SequenceTheorems, TLAPS

\* What the bus says about the panel, and all it can deliver.
PanelMessages == {"PanelCreated", "PanelGone", "NoPanel"}
Messages      == Events \cup PanelMessages \cup {"Panel"}

Orders == {<<"x11", "dbus", "remote">>, <<"dbus", "x11", "remote">>}
Names  == {"kimpanel", "classic"}

Loops  == [at : {"module", "dispatch", "draw", "select"}, order : Orders,
           turn : 1 .. 3, flag : SUBSET {"update", "move"},
           ready : BOOLEAN, late : BOOLEAN]
Queues == [sock : Seq(Messages), lib : Seq(Messages)]
Panels == [st : {"none", "named", "ready"}, missed : BOOLEAN]
Uis    == [now : Names, fallback : BOOLEAN, client : BOOLEAN]

Types ==
  /\ loop \in Loops
  /\ x11 \in Queues
  /\ bus \in Queues
  /\ remote \in Seq(Events)
  /\ input \in Nat
  /\ ui \in Uis
  /\ screen \in [Names -> Nat]
  /\ panel \in Panels
  /\ count \in [events : Nat, versions : Nat, panel : Nat]

\* The messages of a queue in the order they are handled.
Pending(q) == q.lib \o q.sock

\* The last message about the panel is one of S; there is none.
LastIn(q, S) ==
  \E i \in 1 .. Len(q) :
     q[i] \in S /\ \A j \in i + 1 .. Len(q) : q[j] \notin PanelMessages
NoneIn(q) == \A i \in 1 .. Len(q) : q[i] \notin PanelMessages

\* Once all that is pending is dispatched, the interface is this one.
EndsWith(S, interface) ==
  LastIn(Pending(bus), S) \/ (NoneIn(Pending(bus)) /\ ui.now = interface)

PanelKnown ==
  ui.fallback =>
    /\ panel.st = "ready" => EndsWith({"PanelCreated"}, "kimpanel")
    /\ panel.st = "none" => EndsWith({"PanelGone", "NoPanel"}, "classic")

\* Only a panel that announced itself shows anything, and only an interface
\* in use has a classic window.
WindowsKnown ==
  /\ screen["kimpanel"] # Nothing => panel.st = "ready"
  /\ screen["classic"] # Nothing => ui.now = "classic"
  /\ ui.now = "classic" => ui.fallback

\* The module had its turn in the pass that goes on or just ended.
Over(l, m) == \/ l.at \in {"draw", "select"}
              \/ \E i \in 1 .. (l.turn - 1) : l.order[i] = m

\* A module that had its turn left nothing in its queue.
Drained ==
  /\ loop.at = "dispatch" => Module = "dbus"
  /\ ~loop.late => /\ Over(loop, "x11") => x11.lib = <<>>
                   /\ Over(loop, "dbus") => bus.lib = <<>>

\* What is not drawn yet is noted in the flags.
Drawn ==
  /\ Asleep => loop.flag = {}
  /\ ~panel.missed /\ ~ui.client /\ (ui.now = "classic" \/ panel.st = "ready")
       /\ "update" \notin loop.flag => screen[ui.now] = input

-----------------------------------------------------------------------------
(* Queues                                                                   *)

\* Reading the socket neither loses nor reorders a message.
LEMMA FetchKeepsPending ==
  ASSUME NEW q \in Queues
  PROVE  /\ Fetched(q) \in Queues
         /\ Pending(q) \in Seq(Messages)
         /\ Pending(Fetched(q)) = Pending(q)
         /\ Fetched(q).lib = Pending(q)
         /\ Fetched(q).sock = <<>>
         /\ q.sock = <<>> => Fetched(q).lib = q.lib
  <1>1. q.lib \in Seq(Messages) /\ q.sock \in Seq(Messages)
    BY DEF Queues
  <1>2. q.lib \o q.sock \in Seq(Messages)
    BY <1>1, ConcatProperties
  <1>3. (q.lib \o q.sock) \o <<>> = q.lib \o q.sock
    BY <1>2, ConcatEmptySeq
  <1>4. q.sock = <<>> => q.lib \o q.sock = q.lib
    BY <1>1, ConcatEmptySeq
  <1>5. <<>> \in Seq(Messages)
    OBVIOUS
  <1>6. QED
    BY <1>1, <1>2, <1>3, <1>4, <1>5 DEF Fetched, Pending, Queues

\* Giving a queue another half.
LEMMA HalfReplaced ==
  ASSUME NEW q \in Queues, NEW s \in Seq(Messages)
  PROVE  /\ [q EXCEPT !.sock = s] = [sock |-> s, lib |-> q.lib]
         /\ [q EXCEPT !.lib = s] = [sock |-> q.sock, lib |-> s]
         /\ [q EXCEPT !.sock = s] \in Queues
         /\ [q EXCEPT !.lib = s] \in Queues
  BY DEF Queues

LEMMA TailOfConcat ==
  ASSUME NEW s \in Seq(Messages), NEW r \in Seq(Messages), s # <<>>
  PROVE  s \o r # <<>> /\ Head(s \o r) = Head(s) /\ Tail(s \o r) = Tail(s) \o r
  <1>1. /\ s \o r \in Seq(Messages)
        /\ Len(s \o r) = Len(s) + Len(r)
        /\ \A i \in 1 .. Len(s) + Len(r) :
             (s \o r)[i] = IF i <= Len(s) THEN s[i] ELSE r[i - Len(s)]
    BY ConcatProperties
  <1>2. /\ Tail(s) \in Seq(Messages)
        /\ Len(Tail(s)) = Len(s) - 1
        /\ \A i \in 1 .. Len(Tail(s)) : Tail(s)[i] = s[i + 1]
    BY HeadTailProperties
  <1>3. Len(s) \in Nat /\ Len(s) > 0 /\ Len(r) \in Nat
    OBVIOUS
  <1>4. /\ Tail(s) \o r \in Seq(Messages)
        /\ Len(Tail(s) \o r) = Len(Tail(s)) + Len(r)
        /\ \A i \in 1 .. Len(Tail(s)) + Len(r) :
             (Tail(s) \o r)[i] = IF i <= Len(Tail(s)) THEN Tail(s)[i]
                                                     ELSE r[i - Len(Tail(s))]
    BY <1>2, ConcatProperties
  <1>5. s \o r # <<>>
    BY <1>1, <1>3
  <1>6. /\ Tail(s \o r) \in Seq(Messages)
        /\ Len(Tail(s \o r)) = Len(s \o r) - 1
        /\ \A i \in 1 .. Len(Tail(s \o r)) : Tail(s \o r)[i] = (s \o r)[i + 1]
    BY <1>1, <1>5, HeadTailProperties
  <1> DEFINE p == s \o r
             t == Tail(s) \o r
             u == Tail(s \o r)
  <1>7. u = t
    <2>1. u \in Seq(Messages) /\ t \in Seq(Messages)
      BY <1>4, <1>6
    <2>2. Len(u) = Len(t) /\ Len(t) = Len(s) - 1 + Len(r)
      BY <1>1, <1>2, <1>3, <1>4, <1>6
    <2>3. ASSUME NEW i \in 1 .. Len(t)  PROVE u[i] = t[i]
      <3>1. i \in Nat /\ i >= 1 /\ i <= Len(s) - 1 + Len(r)
        BY <1>3, <2>2, <2>3
      <3>2. u[i] = p[i + 1]
        BY <1>6, <2>2, <2>3
      <3>3. p[i + 1] = IF i + 1 <= Len(s) THEN s[i + 1] ELSE r[i + 1 - Len(s)]
        BY <1>1, <1>3, <3>1
      <3>4. t[i] = IF i <= Len(s) - 1 THEN s[i + 1] ELSE r[i - (Len(s) - 1)]
        BY <1>2, <1>3, <1>4, <3>1
      <3>5. QED
        BY <1>3, <3>1, <3>2, <3>3, <3>4
    <2>4. QED
      BY <2>1, <2>2, <2>3, SeqEqual
  <1>8. Head(p) = p[1] /\ Head(s) = s[1] /\ p[1] = s[1]
    <2>1. Head(s) = s[1]
      OBVIOUS
    <2>2. p[1] = s[1]
      BY <1>1, <1>3
    <2>3. p \in Seq(Messages) /\ p # <<>>
      BY <1>1, <1>5
    <2>4. Head(p) = p[1]
      <3> HIDE DEF p
      <3> QED  BY <2>3
    <2>5. QED
      BY <2>1, <2>2, <2>4
  <1>9. QED
    BY <1>5, <1>7, <1>8

\* A message that arrives is the last one pending.
LEMMA ArrivalIsLast ==
  ASSUME NEW q \in Queues, NEW m \in Messages
  PROVE  /\ [q EXCEPT !.sock = Append(@, m)] \in Queues
         /\ Pending([q EXCEPT !.sock = Append(@, m)]) = Append(Pending(q), m)
         /\ [q EXCEPT !.sock = Append(@, m)].lib = q.lib
  <1> DEFINE l == q.lib
             s == q.sock
             a == Append(s, m)
  <1>1. l \in Seq(Messages) /\ s \in Seq(Messages)
    BY DEF Queues
  <1> HIDE DEF l, s
  <1>2. a \in Seq(Messages)
    BY <1>1, AppendProperties
  <1>3. l \o a = Append(l \o s, m)
    <2>1. <<m>> \in Seq(Messages)
      OBVIOUS
    <2>2. a = s \o <<m>>
      BY <1>1, AppendIsConcat
    <2>3. l \o s \in Seq(Messages)
      BY <1>1, ConcatProperties
    <2>4. Append(l \o s, m) = (l \o s) \o <<m>>
      BY <2>3, AppendIsConcat
    <2>5. (l \o s) \o <<m>> = l \o (s \o <<m>>)
      BY <1>1, <2>1, ConcatAssociative
    <2>6. QED
      BY <2>2, <2>4, <2>5
  <1> HIDE DEF a
  <1>4. [q EXCEPT !.sock = a] = [sock |-> a, lib |-> l] /\ [q EXCEPT !.sock = a] \in Queues
    BY <1>2, HalfReplaced DEF l
  <1>5. [q EXCEPT !.sock = Append(@, m)] = [q EXCEPT !.sock = a]
    BY DEF a, s
  <1>6. Pending([q EXCEPT !.sock = Append(@, m)]) = l \o a
    BY <1>4, <1>5 DEF Pending
  <1>7. QED
    BY <1>3, <1>4, <1>5, <1>6 DEF Pending, l, s

\* Dispatching a message takes the first one.
LEMMA DispatchTakesFirst ==
  ASSUME NEW q \in Queues, q.lib # <<>>
  PROVE  /\ [q EXCEPT !.lib = Tail(@)] \in Queues
         /\ Head(q.lib) \in Messages
         /\ Pending(q) # <<>>
         /\ Head(Pending(q)) = Head(q.lib)
         /\ Pending([q EXCEPT !.lib = Tail(@)]) = Tail(Pending(q))
         /\ [q EXCEPT !.lib = Tail(@)].lib = Tail(q.lib)
  <1> DEFINE l == q.lib
             s == q.sock
             t == Tail(l)
  <1>1. l \in Seq(Messages) /\ s \in Seq(Messages) /\ l # <<>>
    BY DEF Queues
  <1> HIDE DEF l, s
  <1>2. Head(l) \in Messages /\ t \in Seq(Messages)
    BY <1>1, HeadTailProperties
  <1>3. l \o s # <<>> /\ Head(l \o s) = Head(l) /\ Tail(l \o s) = t \o s
    BY <1>1, TailOfConcat
  <1> HIDE DEF t
  <1>4. [q EXCEPT !.lib = t] = [sock |-> s, lib |-> t] /\ [q EXCEPT !.lib = t] \in Queues
    BY <1>2, HalfReplaced DEF s
  <1>5. [q EXCEPT !.lib = Tail(@)] = [q EXCEPT !.lib = t]
    BY DEF t, l
  <1>6. Pending([q EXCEPT !.lib = Tail(@)]) = t \o s
    BY <1>4, <1>5 DEF Pending
  <1>7. [q EXCEPT !.lib = Tail(@)].lib = t
    BY <1>4, <1>5
  <1>8. QED
    BY <1>2, <1>3, <1>4, <1>5, <1>6, <1>7 DEF Pending, l, s, t

\* What a message that arrives changes.
LEMMA LastAfterArrival ==
  ASSUME NEW q \in Seq(Messages), NEW m \in Messages, NEW S \in SUBSET PanelMessages
  PROVE  /\ m \in S => LastIn(Append(q, m), S)
         /\ m \notin PanelMessages /\ LastIn(q, S) => LastIn(Append(q, m), S)
         /\ m \notin PanelMessages /\ NoneIn(q) => NoneIn(Append(q, m))
  <1> DEFINE a == Append(q, m)
  <1>1. /\ Len(q) \in Nat
        /\ Len(a) = Len(q) + 1
        /\ \A i \in 1 .. Len(q) : a[i] = q[i]
        /\ a[Len(q) + 1] = m
    BY AppendProperties, LenProperties
  <1> HIDE DEF a
  <1>2. ASSUME m \in S  PROVE LastIn(a, S)
    <2>1. Len(a) \in 1 .. Len(a) /\ a[Len(a)] \in S
      BY <1>1, <1>2
    <2>2. \A j \in Len(a) + 1 .. Len(a) : a[j] \notin PanelMessages
      BY <1>1
    <2>3. QED
      BY <2>1, <2>2 DEF LastIn
  <1>3. ASSUME m \notin PanelMessages, LastIn(q, S)  PROVE LastIn(a, S)
    <2>1. PICK i \in 1 .. Len(q) :
            q[i] \in S /\ \A j \in i + 1 .. Len(q) : q[j] \notin PanelMessages
      BY <1>3 DEF LastIn
    <2>2. i \in 1 .. Len(a) /\ a[i] \in S
      BY <1>1, <2>1
    <2>3. \A j \in i + 1 .. Len(a) : a[j] \notin PanelMessages
      BY <1>1, <1>3, <2>1
    <2>4. QED
      BY <2>2, <2>3 DEF LastIn
  <1>4. ASSUME m \notin PanelMessages, NoneIn(q)  PROVE NoneIn(a)
    BY <1>1, <1>4 DEF NoneIn
  <1>5. QED
    BY <1>2, <1>3, <1>4 DEF a

\* What dispatching the first message changes.
LEMMA LastAfterDispatch ==
  ASSUME NEW q \in Seq(Messages), q # <<>>, NEW S \in SUBSET PanelMessages
  PROVE  /\ NoneIn(q) => Head(q) \notin PanelMessages /\ NoneIn(Tail(q))
         /\ LastIn(q, S) => \/ LastIn(Tail(q), S)
                            \/ NoneIn(Tail(q)) /\ Head(q) \in S
  <1> DEFINE t == Tail(q)
  <1>1. /\ Len(q) \in Nat /\ Len(q) > 0
        /\ Len(t) = Len(q) - 1
        /\ \A i \in 1 .. Len(q) - 1 : t[i] = q[i + 1]
        /\ Head(q) = q[1]
    BY HeadTailProperties, LenProperties
  <1> HIDE DEF t
  <1>2. ASSUME NoneIn(q)  PROVE Head(q) \notin PanelMessages /\ NoneIn(t)
    BY <1>1, <1>2 DEF NoneIn
  <1>3. ASSUME LastIn(q, S), ~ LastIn(t, S)  PROVE NoneIn(t) /\ Head(q) \in S
    <2>1. PICK i \in 1 .. Len(q) :
            q[i] \in S /\ \A j \in i + 1 .. Len(q) : q[j] \notin PanelMessages
      BY <1>3 DEF LastIn
    <2>2. i = 1
      <3>1. SUFFICES ASSUME i # 1  PROVE FALSE
        OBVIOUS
      <3>2. i - 1 \in 1 .. Len(t) /\ t[i - 1] \in S
        BY <1>1, <2>1, <3>1
      <3>3. \A j \in (i - 1) + 1 .. Len(t) : t[j] \notin PanelMessages
        BY <1>1, <2>1, <3>1
      <3>4. QED
        BY <1>3, <3>2, <3>3 DEF LastIn
    <2>3. QED
      BY <1>1, <2>1, <2>2 DEF NoneIn
  <1>4. QED
    BY <1>2, <1>3 DEF t

-----------------------------------------------------------------------------
(* The loop                                                                 *)

LEMMA LoopFields ==
  ASSUME NEW l \in Loops
  PROVE  /\ l.at \in {"module", "dispatch", "draw", "select"}
         /\ l.order \in Orders /\ Len(l.order) = 3
         /\ l.turn \in 1 .. 3 /\ l.flag \in SUBSET {"update", "move"}
         /\ l.order[3] = "remote"
         /\ \/ l.order[1] = "x11" /\ l.order[2] = "dbus"
            \/ l.order[1] = "dbus" /\ l.order[2] = "x11"
  <1>1. l.order \in Orders
    BY DEF Loops
  <1>2. l.order = <<"x11", "dbus", "remote">> \/ l.order = <<"dbus", "x11", "remote">>
    BY <1>1 DEF Orders
  <1>3. Len(l.order) = 3 /\ l.order[3] = "remote"
    BY <1>2
  <1>4. \/ l.order[1] = "x11" /\ l.order[2] = "dbus"
        \/ l.order[1] = "dbus" /\ l.order[2] = "x11"
    BY <1>2
  <1>5. QED
    BY <1>1, <1>3, <1>4 DEF Loops

\* The next module has its turn; after the last one the window is drawn.
LEMMA NextTurnFacts ==
  ASSUME NEW l \in Loops
  PROVE  /\ NextTurn(l) \in Loops
         /\ NextTurn(l).order = l.order
         /\ NextTurn(l).flag = l.flag
         /\ NextTurn(l).late = l.late
         /\ NextTurn(l).at \in {"module", "draw"}
         /\ l.at = "module" \/ l.at = "dispatch" =>
              \A m \in {"x11", "dbus", "remote"} :
                Over(NextTurn(l), m) => Over(l, m) \/ l.order[l.turn] = m
  <1>1. Len(l.order) = 3 /\ l.turn \in 1 .. 3
    BY LoopFields
  <1>2. CASE l.turn < 3
    <2>1. NextTurn(l) = [l EXCEPT !.turn = l.turn + 1, !.at = "module"]
      BY <1>1, <1>2 DEF NextTurn
    <2>2. NextTurn(l) = [at |-> "module", order |-> l.order, turn |-> l.turn + 1,
                         flag |-> l.flag, ready |-> l.ready, late |-> l.late]
      BY <2>1 DEF Loops
    <2>3. l.turn + 1 \in 1 .. 3
      BY <1>1, <1>2
    <2>4. NextTurn(l) \in Loops
      BY <2>2, <2>3 DEF Loops
    <2>5. /\ NextTurn(l).at = "module" /\ NextTurn(l).turn = l.turn + 1
          /\ NextTurn(l).order = l.order /\ NextTurn(l).flag = l.flag
          /\ NextTurn(l).late = l.late
      BY <2>2
    <2>6. ASSUME NEW m, Over(NextTurn(l), m)  PROVE Over(l, m) \/ l.order[l.turn] = m
      <3>1. PICK i \in 1 .. (NextTurn(l).turn - 1) : NextTurn(l).order[i] = m
        BY <2>5, <2>6 DEF Over
      <3>2. i \in 1 .. l.turn /\ l.order[i] = m
        BY <1>1, <2>5, <3>1
      <3>3. QED
        BY <1>1, <3>2 DEF Over
    <2>7. QED
      BY <2>4, <2>5, <2>6
  <1>3. CASE l.turn = 3
    <2>1. NextTurn(l) = [l EXCEPT !.at = "draw"]
      BY <1>1, <1>3 DEF NextTurn
    <2>2. NextTurn(l) = [at |-> "draw", order |-> l.order, turn |-> l.turn,
                         flag |-> l.flag, ready |-> l.ready, late |-> l.late]
      BY <2>1 DEF Loops
    <2>3. NextTurn(l) \in Loops
      BY <2>2 DEF Loops
    <2>4. ASSUME NEW m \in {"x11", "dbus", "remote"}
          PROVE Over(l, m) \/ l.order[l.turn] = m
      <3>1. \E i \in 1 .. 3 : l.order[i] = m
        BY LoopFields
      <3>2. QED
        BY <1>3, <3>1 DEF Over
    <2>5. QED
      BY <2>2, <2>3, <2>4
  <1>4. QED
    BY <1>1, <1>2, <1>3

LEMMA PhaseSet ==
  ASSUME NEW l \in Loops, NEW a \in {"module", "dispatch", "draw", "select"}
  PROVE  /\ [l EXCEPT !.at = a] \in Loops
         /\ [l EXCEPT !.at = a].at = a
         /\ [l EXCEPT !.at = a].order = l.order /\ [l EXCEPT !.at = a].turn = l.turn
         /\ [l EXCEPT !.at = a].flag = l.flag /\ [l EXCEPT !.at = a].late = l.late
  <1>1. [l EXCEPT !.at = a] = [at |-> a, order |-> l.order, turn |-> l.turn,
          flag |-> l.flag, ready |-> l.ready, late |-> l.late]
    BY DEF Loops
  <1>2. QED
    BY <1>1 DEF Loops

LEMMA FlagSet ==
  ASSUME NEW l \in Loops, NEW f \in SUBSET {"update", "move"}
  PROVE  /\ [l EXCEPT !.flag = f] \in Loops
         /\ [l EXCEPT !.flag = f].flag = f
         /\ [l EXCEPT !.flag = f].at = l.at /\ [l EXCEPT !.flag = f].late = l.late
         /\ [l EXCEPT !.flag = f].order = l.order
         /\ [l EXCEPT !.flag = f].turn = l.turn
  <1>1. [l EXCEPT !.flag = f] = [at |-> l.at, order |-> l.order, turn |-> l.turn,
          flag |-> f, ready |-> l.ready, late |-> l.late]
    BY DEF Loops
  <1>2. QED
    BY <1>1 DEF Loops

LEMMA LateSet ==
  ASSUME NEW l \in Loops, NEW b \in BOOLEAN
  PROVE  /\ [l EXCEPT !.late = b] \in Loops
         /\ [l EXCEPT !.late = b].late = b
         /\ [l EXCEPT !.late = b].at = l.at /\ [l EXCEPT !.late = b].flag = l.flag
         /\ [l EXCEPT !.late = b].order = l.order
         /\ [l EXCEPT !.late = b].turn = l.turn
  <1>1. [l EXCEPT !.late = b] = [at |-> l.at, order |-> l.order, turn |-> l.turn,
          flag |-> l.flag, ready |-> l.ready, late |-> b]
    BY DEF Loops
  <1>2. QED
    BY <1>1 DEF Loops

LEMMA ReadySet ==
  ASSUME NEW l \in Loops, NEW b \in BOOLEAN
  PROVE  /\ [l EXCEPT !.ready = b] \in Loops
         /\ [l EXCEPT !.ready = b].late = l.late
         /\ [l EXCEPT !.ready = b].at = l.at /\ [l EXCEPT !.ready = b].flag = l.flag
         /\ [l EXCEPT !.ready = b].order = l.order
         /\ [l EXCEPT !.ready = b].turn = l.turn
  <1>1. [l EXCEPT !.ready = b] = [at |-> l.at, order |-> l.order, turn |-> l.turn,
          flag |-> l.flag, ready |-> b, late |-> l.late]
    BY DEF Loops
  <1>2. QED
    BY <1>1 DEF Loops

LEMMA TurnSet ==
  ASSUME NEW l \in Loops, NEW t \in 1 .. 3
  PROVE  /\ [l EXCEPT !.turn = t] \in Loops
         /\ [l EXCEPT !.turn = t].turn = t
         /\ [l EXCEPT !.turn = t].at = l.at /\ [l EXCEPT !.turn = t].order = l.order
         /\ [l EXCEPT !.turn = t].flag = l.flag /\ [l EXCEPT !.turn = t].late = l.late
  <1>1. [l EXCEPT !.turn = t] = [at |-> l.at, order |-> l.order, turn |-> t,
          flag |-> l.flag, ready |-> l.ready, late |-> l.late]
    BY DEF Loops
  <1>2. QED
    BY <1>1 DEF Loops

\* A pass begins with the first module.
LEMMA PassFacts ==
  ASSUME NEW l \in Loops
  PROVE  /\ Pass(l) \in Loops
         /\ Pass(l).at = "module" /\ Pass(l).flag = {} /\ Pass(l).late = FALSE
         /\ Pass(l).order = l.order /\ Pass(l).turn = 1
         /\ \A m : ~ Over(Pass(l), m)
  <1>1. /\ FALSE \in BOOLEAN /\ 1 \in 1 .. 3 /\ {} \in SUBSET {"update", "move"}
        /\ "module" \in {"module", "dispatch", "draw", "select"}
    OBVIOUS
  <1> DEFINE a == [l EXCEPT !.at = "module"]
             b == [a EXCEPT !.turn = 1]
             c == [b EXCEPT !.flag = {}]
             d == [c EXCEPT !.late = FALSE]
  <1>2. Pass(l) = d
    BY DEF Pass, Loops
  <1>3. a \in Loops /\ a.at = "module" /\ a.order = l.order
    BY <1>1, PhaseSet, Zenon
  <1> HIDE DEF a
  <1>4. b \in Loops /\ b.at = "module" /\ b.order = l.order /\ b.turn = 1
    BY <1>1, <1>3, TurnSet, Zenon
  <1> HIDE DEF b
  <1>5. c \in Loops /\ c.at = "module" /\ c.order = l.order /\ c.turn = 1 /\ c.flag = {}
    BY <1>1, <1>4, FlagSet, Zenon
  <1> HIDE DEF c
  <1>6. /\ d \in Loops /\ d.at = "module" /\ d.order = l.order /\ d.turn = 1
        /\ d.flag = {} /\ d.late = FALSE
    BY <1>1, <1>5, LateSet, Zenon
  <1> HIDE DEF d
  <1>7. QED
    BY <1>2, <1>6 DEF Over

\* A window is drawn or closed.
LEMMA ScreenSet ==
  ASSUME NEW s \in [Names -> Nat], NEW n \in Nat
  PROVE  /\ [s EXCEPT !.kimpanel = n] \in [Names -> Nat]
         /\ [s EXCEPT !.kimpanel = n]["kimpanel"] = n
         /\ [s EXCEPT !.kimpanel = n]["classic"] = s["classic"]
         /\ [s EXCEPT !.classic = n] \in [Names -> Nat]
         /\ [s EXCEPT !.classic = n]["classic"] = n
         /\ [s EXCEPT !.classic = n]["kimpanel"] = s["kimpanel"]
         /\ \A x \in Names : /\ [s EXCEPT ![x] = n] \in [Names -> Nat]
                             /\ [s EXCEPT ![x] = n][x] = n
                             /\ \A y \in Names : y # x => [s EXCEPT ![x] = n][y] = s[y]
  BY DEF Names

LEMMA CountSet ==
  ASSUME NEW c \in [events : Nat, versions : Nat, panel : Nat]
  PROVE  /\ [c EXCEPT !.events = @ + 1] \in [events : Nat, versions : Nat, panel : Nat]
         /\ [c EXCEPT !.versions = @ + 1] \in [events : Nat, versions : Nat, panel : Nat]
         /\ [c EXCEPT !.panel = @ + 1] \in [events : Nat, versions : Nat, panel : Nat]
  OBVIOUS

LEMMA InterfaceSet ==
  ASSUME NEW u \in Uis, NEW n \in Names
  PROVE  /\ [u EXCEPT !.now = n] \in Uis
         /\ [u EXCEPT !.now = n].now = n
         /\ [u EXCEPT !.now = n].fallback = u.fallback
         /\ [u EXCEPT !.now = n].client = u.client
  BY DEF Uis

LEMMA ClientSet ==
  ASSUME NEW u \in Uis, NEW c \in BOOLEAN
  PROVE  /\ [u EXCEPT !.client = c] \in Uis
         /\ [u EXCEPT !.client = c].now = u.now
         /\ [u EXCEPT !.client = c].fallback = u.fallback
         /\ [u EXCEPT !.client = c].client = c
  BY DEF Uis

LEMMA MissedSet ==
  ASSUME NEW p \in Panels, NEW b \in BOOLEAN
  PROVE  /\ [p EXCEPT !.missed = b] \in Panels
         /\ [p EXCEPT !.missed = b].missed = b
         /\ [p EXCEPT !.missed = b].st = p.st
  BY DEF Panels

-----------------------------------------------------------------------------
(* Steps that leave a part of the invariant alone                           *)

\* Everything the steps keep.
IInv == Types /\ Drained /\ Drawn /\ WindowsKnown /\ PanelKnown

\* The module whose turn it is did not have it yet.
LEMMA NotOverYet ==
  ASSUME NEW l \in Loops, l.at \in {"module", "dispatch"}
  PROVE  ~ Over(l, l.order[l.turn])
  <1>1. SUFFICES ASSUME NEW i \in 1 .. (l.turn - 1), l.order[i] = l.order[l.turn]
                 PROVE FALSE
    BY DEF Over
  <1>2. l.turn \in 1 .. 3 /\ i \in 1 .. 3 /\ i < l.turn
    BY LoopFields
  <1>3. l.order = <<"x11", "dbus", "remote">> \/ l.order = <<"dbus", "x11", "remote">>
    BY LoopFields DEF Orders
  <1>4. (i = 1 /\ l.turn = 2) \/ (i = 1 /\ l.turn = 3) \/ (i = 2 /\ l.turn = 3)
    BY <1>2
  <1>5. QED
    BY <1>1, <1>3, <1>4

\* The queue of libdbus is read or not; the panel and the interfaces stay.
LEMMA PanelKept ==
  ASSUME PanelKnown, Pending(bus)' = Pending(bus), panel'.st = panel.st,
         ui'.now = ui.now, ui'.fallback = ui.fallback
  PROVE  PanelKnown'
  BY DEF PanelKnown, EndsWith

LEMMA WindowsKept ==
  ASSUME WindowsKnown, screen' = screen, panel'.st = panel.st,
         ui'.now = ui.now, ui'.fallback = ui.fallback
  PROVE  WindowsKnown'
  BY DEF WindowsKnown

\* Handlers ask for a drawing when they change the input.
LEMMA DrawnKept ==
  ASSUME Drawn, UNCHANGED <<ui, screen, panel>>, loop'.at # "select",
         loop.flag \subseteq loop'.flag,
         input' # input => "update" \in loop'.flag
  PROVE  Drawn'
  BY DEF Drawn, Asleep

\* Nothing pending means nothing in the library's queue.
LEMMA EmptyPending ==
  ASSUME NEW q \in Queues, Fetched(q).lib = <<>>
  PROVE  q.lib = <<>>
  <1> DEFINE l == q.lib
             s == q.sock
  <1>1. l \in Seq(Messages) /\ s \in Seq(Messages) /\ l \o s = <<>>
    BY DEF Queues, Fetched
  <1> HIDE DEF l, s
  <1>2. Len(l \o s) = Len(l) + Len(s)
    BY <1>1, ConcatProperties
  <1>3. Len(l) = 0
    BY <1>1, <1>2
  <1>4. QED
    BY <1>1, <1>3 DEF l

\* What an event changes, whoever it comes from: the input, and who draws.
LEMMA EventKeeps ==
  ASSUME Types, Drawn, NEW e, NEW clients \in SUBSET BOOLEAN, Event(e, clients),
         loop'.at # "select", loop'.flag = loop.flag \cup Asks(e)
  PROVE  /\ input' \in Nat /\ count' \in [events : Nat, versions : Nat, panel : Nat]
         /\ ui' \in Uis /\ ui'.now = ui.now /\ ui'.fallback = ui.fallback
         /\ panel' \in Panels /\ panel'.st = panel.st
         /\ screen' = screen
         /\ Drawn'
  <1>1. /\ count.versions \in Nat /\ input \in Nat /\ ui \in Uis /\ panel \in Panels
        /\ count \in [events : Nat, versions : Nat, panel : Nat]
    BY DEF Types
  <1>2. input' \in Nat /\ count' \in [events : Nat, versions : Nat, panel : Nat]
    <2>1. CASE e = "key"
      <3>1. /\ input' \in {Nothing, count.versions + 1}
            /\ count' = [count EXCEPT !.versions = @ + 1]
        BY <2>1 DEF Event
      <3>2. input' \in Nat
        BY <1>1, <3>1 DEF Nothing
      <3>3. QED
        BY <1>1, <3>1, <3>2, CountSet
    <2>2. CASE e # "key"
      BY <1>1, <2>2 DEF Event, Nothing
    <2>3. QED
      BY <2>1, <2>2
  <1>3. screen' = screen
    BY DEF Event
  <1>4. input' # input => "update" \in loop'.flag
    BY DEF Event, Asks
  <1>5. CASE e \in {"focus", "taken"}
    <2>1. PICK client \in clients :
            /\ ui' = [ui EXCEPT !.client = client]
            /\ panel' = [panel EXCEPT !.missed = @ \/ (e = "taken" /\ ui.client /\ ~client)]
      BY <1>5 DEF Event
    <2> DEFINE b == panel.missed \/ (e = "taken" /\ ui.client /\ ~client)
    <2>2. b \in BOOLEAN /\ client \in BOOLEAN
      OBVIOUS
    <2>3. panel' = [panel EXCEPT !.missed = b]
      BY <2>1
    <2>4. ~b => ~panel.missed /\ (e # "taken" \/ ~ui.client \/ client)
      OBVIOUS
    <2> HIDE DEF b
    <2>5. /\ ui' \in Uis /\ ui'.now = ui.now /\ ui'.fallback = ui.fallback
          /\ ui'.client = client
      BY <1>1, <2>1, <2>2, ClientSet
    <2>6. panel' \in Panels /\ panel'.missed = b /\ panel'.st = panel.st
      BY <1>1, <2>2, <2>3, MissedSet, Zenon
    <2>7. Drawn'
      <3>1. SUFFICES ASSUME ~b, ~client, ui.now = "classic" \/ panel.st = "ready",
                            "update" \notin loop'.flag
                     PROVE  screen[ui.now] = input'
        BY <1>3, <2>5, <2>6 DEF Drawn, Asleep
      <3>2. e = "taken" /\ input' = input
        BY <1>4, <1>5, <3>1 DEF Asks
      <3>3. ~panel.missed /\ ~ui.client /\ "update" \notin loop.flag
        BY <2>4, <3>1, <3>2
      <3>4. QED
        BY <3>1, <3>2, <3>3 DEF Drawn
    <2>8. QED
      BY <1>2, <1>3, <2>5, <2>6, <2>7
  <1>6. CASE e \notin {"focus", "taken"}
    <2>1. UNCHANGED <<ui, panel>>
      BY <1>6 DEF Event
    <2>2. Drawn'
      BY <1>3, <1>4, <2>1, DrawnKept
    <2>3. QED
      BY <1>1, <1>2, <1>3, <2>1, <2>2
  <1>7. QED
    BY <1>5, <1>6

LEMMA AsksFlags == \A e : Asks(e) \in SUBSET {"update", "move"}
  BY DEF Asks

\* A handler of another module reads what waits in the socket of the bus only
\* before the turn of the bus, or the pass is noted as late.
LEMMA ReadKeeps ==
  ASSUME NEW reads \in BOOLEAN, bus \in Queues,
         bus' = IF reads THEN Fetched(bus) ELSE bus
  PROVE  /\ bus' \in Queues /\ Pending(bus') = Pending(bus)
         /\ TurnOver("dbus") /\ ~ReadLate(reads) => bus'.lib = bus.lib
  BY FetchKeepsPending DEF ReadLate

-----------------------------------------------------------------------------
(* The event modules                                                        *)

LEMMA X11Keeps ==
  ASSUME IInv, X11ProcessEvent
  PROVE  IInv'
  <1> USE DEF IInv
  <1> DEFINE waiting == Fetched(x11)
  <1>1. /\ loop \in Loops /\ loop.at = "module" /\ Module = "x11"
        /\ x11 \in Queues /\ waiting \in Queues
        /\ bus \in Queues /\ UNCHANGED remote
    BY FetchKeepsPending DEF X11ProcessEvent, Types
  <1>2. ~ Over(loop, "x11")
    BY <1>1, NotOverYet DEF Module
  <1>3. CASE waiting.lib = <<>>
    <2>1. /\ loop' = NextTurn(loop)
          /\ UNCHANGED <<x11, bus, input, ui, screen, panel, count>>
      BY <1>3 DEF X11ProcessEvent
    <2>2. /\ loop' \in Loops /\ loop'.flag = loop.flag /\ loop'.late = loop.late
          /\ loop'.at \in {"module", "draw"}
          /\ Over(loop', "dbus") => Over(loop, "dbus")
      BY <1>1, <2>1, NextTurnFacts DEF Module
    <2>3. x11.lib = <<>>
      BY <1>1, <1>3, EmptyPending
    <2>4. Types'
      BY <1>1, <2>1, <2>2 DEF Types
    <2>5. Drained'
      BY <1>1, <2>1, <2>2, <2>3 DEF Drained
    <2>6. Drawn'
      BY <1>1, <2>1, <2>2, DrawnKept
    <2>7. WindowsKnown' /\ PanelKnown'
      BY <2>1, WindowsKept, PanelKept DEF Pending
    <2>8. QED
      BY <2>4, <2>5, <2>6, <2>7
  <1>4. CASE waiting.lib # <<>>
    <2> DEFINE e == Head(waiting.lib)
               f == loop.flag \cup Asks(e)
    <2>1. PICK reads \in BOOLEAN :
            /\ bus' = IF reads THEN Fetched(bus) ELSE bus
            /\ x11' = [waiting EXCEPT !.lib = Tail(@)]
            /\ loop' = [loop EXCEPT !.flag = f, !.late = @ \/ ReadLate(reads)]
            /\ Event(e, {FALSE})
      BY <1>4 DEF X11ProcessEvent
    <2> DEFINE late == loop.late \/ ReadLate(reads)
    <2>2. f \in SUBSET {"update", "move"}
      BY <1>1, LoopFields, AsksFlags
    <2>3. late \in BOOLEAN /\ (~ late => ~ loop.late /\ ~ ReadLate(reads))
      BY Zenon
    <2>4. loop' = [[loop EXCEPT !.flag = f] EXCEPT !.late = late]
      BY <1>1, <2>1 DEF Loops
    <2>5. f = loop.flag \cup Asks(e)
      OBVIOUS
    <2> HIDE DEF e, f, late
    <2> DEFINE m == [loop EXCEPT !.flag = f]
    <2>6. /\ m \in Loops /\ m.flag = f /\ m.at = "module" /\ m.order = loop.order
          /\ m.turn = loop.turn
      BY <1>1, <2>2, FlagSet
    <2> HIDE DEF m
    <2>7. /\ loop' \in Loops /\ loop'.flag = f /\ loop'.at = "module"
          /\ loop'.late = late /\ loop'.order = loop.order /\ loop'.turn = loop.turn
      BY <2>3, <2>4, <2>6, LateSet DEF m
    <2>8. x11' \in Queues
      BY <1>1, <1>4, <2>1, DispatchTakesFirst
    <2>9. /\ bus' \in Queues /\ Pending(bus') = Pending(bus)
          /\ TurnOver("dbus") /\ ~ReadLate(reads) => bus'.lib = bus.lib
      BY <1>1, <2>1, ReadKeeps
    <2>10. {FALSE} \in SUBSET BOOLEAN
      OBVIOUS
    <2>11. /\ input' \in Nat /\ count' \in [events : Nat, versions : Nat, panel : Nat]
           /\ ui' \in Uis /\ ui'.now = ui.now /\ ui'.fallback = ui.fallback
           /\ panel' \in Panels /\ panel'.st = panel.st
           /\ screen' = screen
           /\ Drawn'
      BY <2>1, <2>5, <2>7, <2>10, EventKeeps
    <2>12. Types'
      BY <1>1, <2>7, <2>8, <2>9, <2>11 DEF Types
    <2>13. Drained'
      <3>1. \A x : (Over(loop', x) <=> TurnOver(x)) /\ (Over(loop, x) <=> TurnOver(x))
        BY <1>1, <2>7 DEF Over, TurnOver
      <3>2. ~ Over(loop', "x11")
        BY <1>2, <3>1
      <3>3. ASSUME ~ loop'.late, Over(loop', "dbus")  PROVE bus'.lib = <<>>
        BY <2>3, <2>7, <2>9, <3>1, <3>3 DEF Drained
      <3>4. QED
        BY <2>7, <3>2, <3>3 DEF Drained
    <2>14. WindowsKnown' /\ PanelKnown'
      BY <2>9, <2>11, WindowsKept, PanelKept DEF Pending
    <2>15. QED
      BY <2>11, <2>12, <2>13, <2>14
  <1>5. QED
    BY <1>3, <1>4

LEMMA WatchesKeep ==
  ASSUME IInv, DBusHandleWatches
  PROVE  IInv'
  <1> USE DEF IInv
  <1>1. /\ loop \in Loops /\ loop.at = "module" /\ Module = "dbus"
        /\ bus \in Queues
        /\ UNCHANGED <<x11, remote, input, ui, screen, panel, count>>
        /\ loop' = [loop EXCEPT !.at = "dispatch"]
        /\ bus' = IF loop.ready THEN Fetched(bus) ELSE bus
    BY DEF DBusHandleWatches, Types
  <1>2. ~ Over(loop, "dbus")
    BY <1>1, NotOverYet DEF Module
  <1>3. /\ loop' \in Loops /\ loop'.flag = loop.flag /\ loop'.at = "dispatch"
        /\ loop'.late = loop.late /\ loop'.order = loop.order /\ loop'.turn = loop.turn
    BY <1>1, PhaseSet
  <1>4. bus' \in Queues /\ Pending(bus') = Pending(bus)
    BY <1>1, FetchKeepsPending
  <1>5. Types'
    BY <1>1, <1>3, <1>4 DEF Types
  <1>6. Drained'
    <2>1. \A m : Over(loop', m) <=> Over(loop, m)
      BY <1>1, <1>3 DEF Over
    <2>2. QED
      BY <1>1, <1>2, <1>3, <2>1 DEF Drained, Module
  <1>7. Drawn'
    BY <1>1, <1>3, DrawnKept
  <1>8. WindowsKnown' /\ PanelKnown'
    BY <1>1, <1>4, WindowsKept, PanelKept DEF Pending
  <1>9. QED
    BY <1>5, <1>6, <1>7, <1>8

\* A message is dispatched, and its handler may read the socket.
TakesFirst ==
  LET rest == [bus EXCEPT !.lib = Tail(@)] IN bus' \in {rest, Fetched(rest)}

LEMMA TakesFirstFacts ==
  ASSUME bus \in Queues, bus.lib # <<>>, TakesFirst
  PROVE  /\ bus' \in Queues /\ Pending(bus) \in Seq(Messages) /\ Pending(bus) # <<>>
         /\ Head(Pending(bus)) = Head(bus.lib) /\ Head(bus.lib) \in Messages
         /\ Pending(bus') = Tail(Pending(bus))
  <1> DEFINE rest == [bus EXCEPT !.lib = Tail(@)]
  <1>1. /\ rest \in Queues /\ Pending(bus) # <<>> /\ Head(bus.lib) \in Messages
        /\ Head(Pending(bus)) = Head(bus.lib) /\ Pending(rest) = Tail(Pending(bus))
    BY DispatchTakesFirst
  <1>2. bus' = rest \/ bus' = Fetched(rest)
    BY DEF TakesFirst
  <1> HIDE DEF rest
  <1>3. QED
    BY <1>1, <1>2, FetchKeepsPending

\* Switching away from the panel, which is gone.
LEMMA SwitchKeeps ==
  ASSUME IInv, loop.at = "dispatch", bus.lib # <<>>,
         Head(bus.lib) \in {"PanelGone", "NoPanel"},
         TakesFirst,
         SwitchToFallback, UNCHANGED <<input, count, remote>>
  PROVE  IInv'
  <1> USE DEF IInv
  <1>1. /\ loop \in Loops /\ Module = "dbus" /\ x11 \in Queues /\ bus \in Queues
        /\ ui \in Uis /\ panel \in Panels
    BY DEF Types, Drained
  <1>2. ~ Over(loop, "dbus")
    BY <1>1, NotOverYet DEF Module
  <1>3. /\ bus' \in Queues /\ Pending(bus) \in Seq(Messages) /\ Pending(bus) # <<>>
        /\ Head(Pending(bus)) \in {"PanelGone", "NoPanel"}
        /\ Pending(bus') = Tail(Pending(bus))
    BY <1>1, TakesFirstFacts
  \* The message that is handled was the last one about the panel, or another
  \* one of its kind follows, or a panel announced itself since.
  <1>4. ui'.fallback = ui.fallback /\ (ui.fallback => ui'.now = "classic") /\ panel'.st = panel.st
        => PanelKnown'
    <2>1. SUFFICES ASSUME ui'.fallback = ui.fallback, ui.fallback,
                          ui'.now = "classic", panel'.st = panel.st
                   PROVE  PanelKnown'
      BY DEF PanelKnown
    <2>2. ASSUME panel.st = "ready"  PROVE EndsWith({"PanelCreated"}, "kimpanel")'
      <3>1. ~ NoneIn(Pending(bus))
        BY <1>3, LastAfterDispatch DEF PanelMessages
      <3>2. LastIn(Pending(bus), {"PanelCreated"})
        BY <2>1, <2>2, <3>1 DEF PanelKnown, EndsWith
      <3>3. LastIn(Tail(Pending(bus)), {"PanelCreated"})
        BY <1>3, <3>2, LastAfterDispatch DEF PanelMessages
      <3>4. QED
        BY <1>3, <3>3 DEF EndsWith
    <2>3. ASSUME panel.st = "none"
          PROVE  EndsWith({"PanelGone", "NoPanel"}, "classic")'
      <3>1. ~ NoneIn(Pending(bus))
        BY <1>3, LastAfterDispatch DEF PanelMessages
      <3>2. LastIn(Pending(bus), {"PanelGone", "NoPanel"})
        BY <2>1, <2>3, <3>1 DEF PanelKnown, EndsWith
      <3>3. \/ LastIn(Tail(Pending(bus)), {"PanelGone", "NoPanel"})
            \/ NoneIn(Tail(Pending(bus)))
        BY <1>3, <3>2, LastAfterDispatch DEF PanelMessages
      <3>4. QED
        BY <1>3, <2>1, <3>3 DEF EndsWith
    <2>4. QED
      BY <2>1, <2>2, <2>3 DEF PanelKnown
  <1>5. CASE ui.fallback /\ ui.now = "kimpanel"
    <2> DEFINE late == loop.late \/ (TurnOver("x11") /\ x11.sock # <<>>)
    <2>1. /\ ui' = [ui EXCEPT !.now = "classic"]
          /\ panel' = [panel EXCEPT !.missed = TRUE]
          /\ x11' = Fetched(x11)
          /\ loop' = [loop EXCEPT !.late = late]
          /\ screen' = screen
      BY <1>5 DEF SwitchToFallback
    <2>2. late \in BOOLEAN
      OBVIOUS
    <2>3. ~ late => ~ loop.late /\ (TurnOver("x11") => x11.sock = <<>>)
      OBVIOUS
    <2> HIDE DEF late
    <2>4. /\ loop' \in Loops /\ loop'.late = late /\ loop'.at = "dispatch"
          /\ loop'.flag = loop.flag /\ loop'.order = loop.order /\ loop'.turn = loop.turn
      BY <1>1, <2>1, <2>2, LateSet
    <2>5. x11' \in Queues /\ (x11.sock = <<>> => x11'.lib = x11.lib)
      BY <1>1, <2>1, FetchKeepsPending
    <2>6. /\ ui' \in Uis
          /\ ui'.now = "classic" /\ ui'.fallback = ui.fallback
      BY <1>1, <2>1, InterfaceSet DEF Names
    <2>7. TRUE \in BOOLEAN
      OBVIOUS
    <2>8. panel' \in Panels /\ panel'.st = panel.st /\ panel'.missed = TRUE
      BY <1>1, <2>1, <2>7, MissedSet, Zenon
    <2>9. Types'
      BY <1>3, <2>1, <2>4, <2>5, <2>6, <2>8 DEF Types
    <2>10. Drained'
      <3>1. \A m : Over(loop', m) <=> TurnOver(m)
        BY <2>4 DEF Over, TurnOver
      <3>2. \A m : Over(loop, m) <=> TurnOver(m)
        BY DEF Over, TurnOver
      <3>3. ASSUME ~ loop'.late, Over(loop', "x11")  PROVE x11'.lib = <<>>
        BY <2>3, <2>4, <2>5, <3>1, <3>2, <3>3 DEF Drained
      <3>4. ~ Over(loop', "dbus")
        BY <1>2, <3>1, <3>2
      <3>5. QED
        BY <1>1, <2>4, <3>3, <3>4 DEF Drained, Module
    <2>11. Drawn'
      BY <2>4, <2>8 DEF Drawn, Asleep
    <2>12. WindowsKnown'
      BY <1>5, <2>1, <2>6, <2>8 DEF WindowsKnown
    <2>13. PanelKnown'
      BY <1>4, <2>6, <2>8
    <2>14. QED
      BY <2>9, <2>10, <2>11, <2>12, <2>13
  <1>6. CASE ~ (ui.fallback /\ ui.now = "kimpanel")
    <2>1. UNCHANGED <<ui, screen, panel, x11, loop>>
      BY <1>6 DEF SwitchToFallback
    <2>2. Types'
      BY <1>3, <2>1 DEF Types
    <2>3. Drained'
      BY <1>2, <2>1 DEF Drained, Module
    <2>4. Drawn'
      BY <2>1, DrawnKept
    <2>5. WindowsKnown'
      BY <2>1, WindowsKept
    <2>6. ui.fallback => ui.now = "classic"
      BY <1>1, <1>6 DEF Names, Uis
    <2>7. PanelKnown'
      BY <1>4, <2>1, <2>6
    <2>8. QED
      BY <2>2, <2>3, <2>4, <2>5, <2>7
  <1>7. QED
    BY <1>5, <1>6

\* Coming back to a panel that announced itself.
LEMMA ResumeKeeps ==
  ASSUME IInv, loop.at = "dispatch", bus.lib # <<>>,
         Head(bus.lib) = "PanelCreated",
         TakesFirst,
         ResumeFromFallback, UNCHANGED <<input, count, remote>>
  PROVE  IInv'
  <1> USE DEF IInv
  <1>1. /\ loop \in Loops /\ Module = "dbus" /\ x11 \in Queues /\ bus \in Queues
        /\ ui \in Uis /\ panel \in Panels
        /\ screen \in [Names -> Nat]
    BY DEF Types, Drained
  <1>2. ~ Over(loop, "dbus")
    BY <1>1, NotOverYet DEF Module
  <1>3. /\ bus' \in Queues /\ Pending(bus) \in Seq(Messages) /\ Pending(bus) # <<>>
        /\ Head(Pending(bus)) = "PanelCreated"
        /\ Pending(bus') = Tail(Pending(bus))
    BY <1>1, TakesFirstFacts
  <1>4. ui'.fallback = ui.fallback /\ (ui.fallback => ui'.now = "kimpanel") /\ panel'.st = panel.st
        => PanelKnown'
    <2>1. SUFFICES ASSUME ui'.fallback = ui.fallback, ui.fallback,
                          ui'.now = "kimpanel", panel'.st = panel.st
                   PROVE  PanelKnown'
      BY DEF PanelKnown
    <2>2. ASSUME panel.st = "ready"  PROVE EndsWith({"PanelCreated"}, "kimpanel")'
      <3>1. ~ NoneIn(Pending(bus))
        BY <1>3, LastAfterDispatch DEF PanelMessages
      <3>2. LastIn(Pending(bus), {"PanelCreated"})
        BY <2>1, <2>2, <3>1 DEF PanelKnown, EndsWith
      <3>3. \/ LastIn(Tail(Pending(bus)), {"PanelCreated"})
            \/ NoneIn(Tail(Pending(bus)))
        BY <1>3, <3>2, LastAfterDispatch DEF PanelMessages
      <3>4. QED
        BY <1>3, <2>1, <3>3 DEF EndsWith
    <2>3. ASSUME panel.st = "none"
          PROVE  EndsWith({"PanelGone", "NoPanel"}, "classic")'
      <3>1. ~ NoneIn(Pending(bus))
        BY <1>3, LastAfterDispatch DEF PanelMessages
      <3>2. LastIn(Pending(bus), {"PanelGone", "NoPanel"})
        BY <2>1, <2>3, <3>1 DEF PanelKnown, EndsWith
      <3>3. LastIn(Tail(Pending(bus)), {"PanelGone", "NoPanel"})
        BY <1>3, <3>2, LastAfterDispatch DEF PanelMessages
      <3>4. QED
        BY <1>3, <3>3 DEF EndsWith
    <2>4. QED
      BY <2>1, <2>2, <2>3 DEF PanelKnown
  <1>5. CASE ui.fallback /\ ui.now = "classic"
    <2>1. /\ ui' = [ui EXCEPT !.now = "kimpanel"]
          /\ panel' = [panel EXCEPT !.missed = TRUE]
          /\ screen' = [screen EXCEPT !.classic = Nothing]
          /\ UNCHANGED <<x11, loop>>
      BY <1>5 DEF ResumeFromFallback
    <2>2. /\ ui' \in Uis
          /\ ui'.now = "kimpanel" /\ ui'.fallback = ui.fallback
      BY <1>1, <2>1, InterfaceSet DEF Names
    <2>3. TRUE \in BOOLEAN
      OBVIOUS
    <2>4. panel' \in Panels /\ panel'.st = panel.st /\ panel'.missed = TRUE
      BY <1>1, <2>1, <2>3, MissedSet, Zenon
    <2>5. /\ screen' \in [Names -> Nat] /\ screen'["classic"] = Nothing
          /\ screen'["kimpanel"] = screen["kimpanel"]
      BY <1>1, <2>1, ScreenSet DEF Nothing
    <2>6. Types'
      BY <1>3, <2>1, <2>2, <2>4, <2>5 DEF Types
    <2>7. Drained'
      BY <1>2, <2>1 DEF Drained, Module
    <2>8. Drawn'
      BY <2>1, <2>4 DEF Drawn, Asleep
    <2>9. WindowsKnown'
      BY <2>2, <2>4, <2>5 DEF WindowsKnown
    <2>10. PanelKnown'
      BY <1>4, <2>2, <2>4
    <2>11. QED
      BY <2>6, <2>7, <2>8, <2>9, <2>10
  <1>6. CASE ~ (ui.fallback /\ ui.now = "classic")
    <2>1. UNCHANGED <<ui, screen, panel, x11, loop>>
      BY <1>6 DEF ResumeFromFallback
    <2>2. Types'
      BY <1>3, <2>1 DEF Types
    <2>3. Drained'
      BY <1>2, <2>1 DEF Drained, Module
    <2>4. Drawn'
      BY <2>1, DrawnKept
    <2>5. WindowsKnown'
      BY <2>1, WindowsKept
    <2>6. ui.fallback => ui.now = "kimpanel"
      BY <1>1, <1>6 DEF Names, Uis
    <2>7. PanelKnown'
      BY <1>4, <2>1, <2>6
    <2>8. QED
      BY <2>2, <2>3, <2>4, <2>5, <2>7
  <1>7. QED
    BY <1>5, <1>6

LEMMA DispatchKeeps ==
  ASSUME IInv, DBusDispatch
  PROVE  IInv'
  <1> USE DEF IInv
  <1>1. /\ loop \in Loops /\ loop.at = "dispatch" /\ Module = "dbus"
        /\ bus \in Queues /\ UNCHANGED remote
    BY DEF DBusDispatch, Types, Drained
  <1>2. ~ Over(loop, "dbus")
    BY <1>1, NotOverYet DEF Module
  <1>3. CASE bus.lib = <<>>
    <2>1. /\ loop' = NextTurn(loop)
          /\ UNCHANGED <<bus, x11, input, ui, screen, panel, count>>
      BY <1>3 DEF DBusDispatch
    <2>2. /\ loop' \in Loops /\ loop'.flag = loop.flag /\ loop'.late = loop.late
          /\ loop'.at \in {"module", "draw"}
          /\ Over(loop', "x11") => Over(loop, "x11")
      BY <1>1, <2>1, NextTurnFacts DEF Module
    <2>3. Types'
      BY <1>1, <2>1, <2>2 DEF Types
    <2>4. Drained'
      BY <1>3, <2>1, <2>2 DEF Drained
    <2>5. Drawn'
      BY <2>1, <2>2, DrawnKept
    <2>6. WindowsKnown' /\ PanelKnown'
      BY <2>1, WindowsKept, PanelKept DEF Pending
    <2>7. QED
      BY <2>3, <2>4, <2>5, <2>6
  <1>4. CASE bus.lib # <<>>
    <2> DEFINE e == Head(bus.lib)
    <2>1. /\ TakesFirst
          /\ IF e \in Events
               THEN /\ loop' = [loop EXCEPT !.flag = @ \cup Asks(e)]
                    /\ Event(e, BOOLEAN)
                    /\ UNCHANGED x11
               ELSE PanelMessage(e)
      BY <1>4 DEF DBusDispatch, TakesFirst
    <2>2. /\ bus' \in Queues /\ Pending(bus) \in Seq(Messages) /\ Pending(bus) # <<>>
          /\ Head(Pending(bus)) = e /\ e \in Messages
          /\ Pending(bus') = Tail(Pending(bus))
      BY <1>1, <1>4, <2>1, TakesFirstFacts
    <2> HIDE DEF e
    \* A message that is not about the panel.
    <2>3. ASSUME e \notin PanelMessages, panel'.st = panel.st,
                 ui'.now = ui.now, ui'.fallback = ui.fallback
          PROVE  PanelKnown'
      <3>1. ASSUME NEW S \in SUBSET PanelMessages, NEW i, EndsWith(S, i)
            PROVE  EndsWith(S, i)'
        <4>1. \/ LastIn(Pending(bus'), S)
              \/ NoneIn(Pending(bus')) /\ ui.now = i
          BY <2>2, <2>3, <3>1, LastAfterDispatch DEF EndsWith
        <4>2. QED
          BY <2>3, <4>1 DEF EndsWith
      <3>2. {"PanelCreated"} \in SUBSET PanelMessages
            /\ {"PanelGone", "NoPanel"} \in SUBSET PanelMessages
        BY DEF PanelMessages
      <3>3. QED
        BY <2>3, <3>1, <3>2 DEF PanelKnown
    <2>4. CASE e \in Events
      <3> DEFINE f == loop.flag \cup Asks(e)
      <3>1. loop' = [loop EXCEPT !.flag = f] /\ Event(e, BOOLEAN) /\ UNCHANGED x11
        BY <2>1, <2>4
      <3>2. f \in SUBSET {"update", "move"}
        BY <1>1, LoopFields, AsksFlags
      <3>3. f = loop.flag \cup Asks(e)
        OBVIOUS
      <3> HIDE DEF f
      <3>4. /\ loop' \in Loops /\ loop'.flag = f /\ loop'.at = "dispatch"
            /\ loop'.late = loop.late /\ loop'.order = loop.order
            /\ loop'.turn = loop.turn
        BY <1>1, <3>1, <3>2, FlagSet
      <3>5. BOOLEAN \in SUBSET BOOLEAN
        OBVIOUS
      <3>6. /\ input' \in Nat /\ count' \in [events : Nat, versions : Nat, panel : Nat]
            /\ ui' \in Uis /\ ui'.now = ui.now /\ ui'.fallback = ui.fallback
            /\ panel' \in Panels /\ panel'.st = panel.st
            /\ screen' = screen
            /\ Drawn'
        BY <3>1, <3>3, <3>4, <3>5, EventKeeps
      <3>7. Types'
        BY <1>1, <2>2, <3>1, <3>4, <3>6 DEF Types
      <3>8. Drained'
        <4>1. \A m : Over(loop', m) <=> Over(loop, m)
          BY <1>1, <3>4 DEF Over
        <4>2. QED
          BY <1>1, <1>2, <3>1, <3>4, <4>1 DEF Drained, Module
      <3>9. WindowsKnown'
        BY <3>6, WindowsKept
      <3>10. PanelKnown'
        BY <2>3, <2>4, <3>6 DEF Events, PanelMessages
      <3>11. QED
        BY <3>6, <3>7, <3>8, <3>9, <3>10
    <2>5. CASE e \notin Events
      <3>1. PanelMessage(e)
        BY <2>1, <2>5
      <3>2. UNCHANGED <<input, count>>
        BY <3>1 DEF PanelMessage
      <3>3. CASE e = "PanelCreated"
        <4>1. ResumeFromFallback
          BY <3>1, <3>3 DEF PanelMessage
        <4>2. QED
          BY <1>1, <1>4, <2>1, <3>2, <3>3, <4>1, ResumeKeeps DEF e
      <3>4. CASE e \in {"PanelGone", "NoPanel"}
        <4>1. SwitchToFallback
          BY <3>1, <3>4 DEF PanelMessage
        <4>2. QED
          BY <1>1, <1>4, <2>1, <3>2, <3>4, <4>1, SwitchKeeps DEF e
      <3>5. CASE e \notin PanelMessages
        <4>1. UNCHANGED <<ui, screen, panel, x11, loop>>
          BY <3>1, <3>5 DEF PanelMessage, PanelMessages
        <4>2. Types'
          BY <1>1, <2>2, <3>2, <4>1 DEF Types
        <4>3. Drained'
          BY <1>2, <4>1 DEF Drained, Module
        <4>4. Drawn'
          BY <1>1, <3>2, <4>1, DrawnKept
        <4>5. WindowsKnown' /\ PanelKnown'
          BY <2>3, <3>5, <4>1, WindowsKept
        <4>6. QED
          BY <4>2, <4>3, <4>4, <4>5
      <3>6. QED
        BY <3>3, <3>4, <3>5 DEF PanelMessages
    <2>6. QED
      BY <2>4, <2>5
  <1>5. QED
    BY <1>3, <1>4

LEMMA RemoteKeeps ==
  ASSUME IInv, RemoteProcessEvent
  PROVE  IInv'
  <1> USE DEF IInv
  <1>1. /\ loop \in Loops /\ loop.at = "module" /\ Module = "remote"
        /\ bus \in Queues /\ remote \in Seq(Events)
        /\ UNCHANGED <<x11, ui, screen, panel>>
    BY DEF RemoteProcessEvent, Types
  <1>2. CASE remote = <<>>
    <2>1. loop' = NextTurn(loop) /\ UNCHANGED <<remote, bus, input, count>>
      BY <1>2 DEF RemoteProcessEvent
    <2>2. /\ loop' \in Loops /\ loop'.flag = loop.flag /\ loop'.late = loop.late
          /\ loop'.at \in {"module", "draw"}
          /\ Over(loop', "x11") => Over(loop, "x11")
          /\ Over(loop', "dbus") => Over(loop, "dbus")
      BY <1>1, <2>1, NextTurnFacts DEF Module
    <2>3. Types'
      BY <1>1, <2>1, <2>2 DEF Types
    <2>4. Drained'
      BY <1>1, <2>1, <2>2 DEF Drained
    <2>5. Drawn'
      BY <1>1, <2>1, <2>2, DrawnKept
    <2>6. WindowsKnown' /\ PanelKnown'
      BY <1>1, <2>1, WindowsKept, PanelKept DEF Pending
    <2>7. QED
      BY <2>3, <2>4, <2>5, <2>6
  <1>3. CASE remote # <<>>
    <2> DEFINE key == Head(remote) = "key"
               f == loop.flag \cup Asks(Head(remote))
               Late(reads) == loop.late \/ ReadLate(reads)
    <2>1. PICK reads \in BOOLEAN :
            /\ bus' = IF reads THEN Fetched(bus) ELSE bus
            /\ remote' = Tail(remote)
            /\ loop' = NextTurn([loop EXCEPT !.flag = f, !.late = Late(reads)])
            /\ key => /\ input' = Nothing
                      /\ count' = [count EXCEPT !.versions = @ + 1]
            /\ ~ key => UNCHANGED <<input, count>>
      BY <1>3 DEF RemoteProcessEvent
    <2> DEFINE late == Late(reads)
    <2>2. f \in SUBSET {"update", "move"} /\ (key => "update" \in f) /\ loop.flag \subseteq f
      BY <1>1, LoopFields, AsksFlags DEF Asks
    <2>3. /\ late \in BOOLEAN
          /\ ~ late => ~ loop.late /\ ~ ReadLate(reads)
      BY Zenon
    <2>4. [loop EXCEPT !.flag = f, !.late = late]
            = [[loop EXCEPT !.flag = f] EXCEPT !.late = late]
      BY <1>1 DEF Loops
    <2>5. loop' = NextTurn([loop EXCEPT !.flag = f, !.late = late])
      BY <2>1
    <2> HIDE DEF key, f, Late, late
    <2> DEFINE m == [loop EXCEPT !.flag = f]
               n == [m EXCEPT !.late = late]
    <2>6. /\ m \in Loops /\ m.flag = f /\ m.at = "module" /\ m.order = loop.order
          /\ m.turn = loop.turn
      BY <1>1, <2>2, FlagSet
    <2> HIDE DEF m
    <2>7. /\ n \in Loops /\ n.flag = f /\ n.at = "module" /\ n.order = loop.order
          /\ n.turn = loop.turn /\ n.late = late
      BY <2>3, <2>6, LateSet
    <2>8. loop' = NextTurn(n)
      BY <2>4, <2>5 DEF m
    <2> HIDE DEF n
    <2>9. /\ loop' \in Loops /\ loop'.flag = f /\ loop'.late = late
          /\ loop'.at \in {"module", "draw"}
          /\ Over(loop', "x11") => Over(n, "x11")
          /\ Over(loop', "dbus") => Over(n, "dbus")
      BY <1>1, <2>7, <2>8, NextTurnFacts DEF Module
    <2>10. \A x : Over(n, x) <=> TurnOver(x)
      BY <2>7 DEF Over, TurnOver
    <2>11. bus' \in Queues /\ Pending(bus') = Pending(bus)
           /\ (TurnOver("dbus") /\ ~ ReadLate(reads) => bus'.lib = bus.lib)
      BY <1>1, <2>1, ReadKeeps
    <2>12. count \in [events : Nat, versions : Nat, panel : Nat] /\ input \in Nat
      BY DEF Types
    <2>13. input' \in Nat /\ count' \in [events : Nat, versions : Nat, panel : Nat]
      BY <2>1, <2>12, CountSet DEF Nothing
    <2>14. remote' \in Seq(Events)
      BY <1>1, <1>3, <2>1, HeadTailProperties
    <2>15. Types'
      BY <1>1, <2>9, <2>11, <2>13, <2>14 DEF Types
    <2>16. Drained'
      <3>1. ASSUME ~ loop'.late, Over(loop', "x11")  PROVE x11'.lib = <<>>
        BY <1>1, <2>3, <2>9, <2>10, <3>1 DEF Drained, Over, TurnOver
      <3>2. ASSUME ~ loop'.late, Over(loop', "dbus")  PROVE bus'.lib = <<>>
        <4>1. TurnOver("dbus") /\ ~ loop.late /\ ~ ReadLate(reads)
          BY <2>3, <2>9, <2>10, <3>2
        <4>2. bus.lib = <<>>
          BY <4>1 DEF Drained, Over, TurnOver
        <4>3. QED
          BY <2>11, <4>1, <4>2
      <3>3. QED
        BY <2>9, <3>1, <3>2 DEF Drained
    <2>17. Drawn'
      BY <1>1, <2>1, <2>2, <2>9, DrawnKept
    <2>18. WindowsKnown' /\ PanelKnown'
      BY <1>1, <2>11, WindowsKept, PanelKept DEF Pending
    <2>19. QED
      BY <2>15, <2>16, <2>17, <2>18
  <1>4. QED
    BY <1>2, <1>3

-----------------------------------------------------------------------------
(* Drawing and sleeping                                                     *)

\* An update shows the input in the interface in use, if anybody looks.
LEMMA UpdatedFacts ==
  ASSUME Types, WindowsKnown
  PROVE  /\ Updated \in [Names -> Nat]
         /\ ~ui.client /\ (ui.now = "classic" \/ panel.st = "ready") =>
              Updated[ui.now] = input
         /\ Updated["kimpanel"] # Nothing => panel.st = "ready"
         /\ Updated["classic"] # Nothing => ui.now = "classic"
  <1> DEFINE n == IF ui.now = "kimpanel" /\ panel.st # "ready" THEN Nothing ELSE input
  <1>1. /\ screen \in [Names -> Nat] /\ ui.now \in Names /\ n \in Nat
        /\ Updated = IF ui.client THEN screen ELSE [screen EXCEPT ![ui.now] = n]
    BY DEF Types, Uis, Updated, Nothing
  <1>2. /\ ui.now = "classic" \/ panel.st = "ready" => n = input
        /\ ui.now = "kimpanel" /\ panel.st # "ready" => n = Nothing
    BY DEF Names
  <1> HIDE DEF n
  <1>3. CASE ~ui.client
    <2>1. /\ Updated \in [Names -> Nat] /\ Updated[ui.now] = n
          /\ \A y \in Names : y # ui.now => Updated[y] = screen[y]
      BY <1>1, <1>3, ScreenSet
    <2>2. QED
      BY <1>1, <1>2, <2>1 DEF WindowsKnown, Names
  <1>4. CASE ui.client
    BY <1>1, <1>4 DEF WindowsKnown
  <1>5. QED
    BY <1>3, <1>4

LEMMA DrawKeeps ==
  ASSUME IInv, Draw
  PROVE  IInv'
  <1> USE DEF IInv
  <1> DEFINE b == panel.missed /\ ~Refreshes
  <1>1. /\ loop \in Loops /\ x11 \in Queues /\ bus \in Queues /\ panel \in Panels
        /\ loop.at = "draw"
        /\ screen' = IF "update" \in loop.flag THEN Updated ELSE screen
        /\ panel' = [panel EXCEPT !.missed = b]
        /\ loop' = IF loop.flag # {} THEN Pass(loop) ELSE [loop EXCEPT !.at = "select"]
        /\ UNCHANGED <<remote, input, ui, count>>
    BY DEF Draw, Types
  <1>2. PICK asks \in BOOLEAN, sends \in BOOLEAN :
          /\ asks \/ sends => loop.flag # {}
          /\ x11' = IF asks THEN Fetched(x11) ELSE x11
          /\ bus' = IF sends THEN Fetched(bus) ELSE bus
    BY DEF Draw, Refreshes
  <1>3. b \in BOOLEAN /\ (~ b => ~ panel.missed \/ "update" \in loop.flag)
    BY Zenon DEF Refreshes
  <1> HIDE DEF b
  <1>4. panel' \in Panels /\ panel'.missed = b /\ panel'.st = panel.st
    BY <1>1, <1>3, MissedSet
  <1>5. /\ x11' \in Queues /\ bus' \in Queues /\ Pending(bus') = Pending(bus)
        /\ loop.flag = {} => x11' = x11 /\ bus' = bus
    BY <1>1, <1>2, FetchKeepsPending
  <1>6. /\ screen' \in [Names -> Nat]
        /\ screen'["kimpanel"] # Nothing => panel.st = "ready"
        /\ screen'["classic"] # Nothing => ui.now = "classic"
        /\ "update" \in loop.flag /\ ~ui.client
             /\ (ui.now = "classic" \/ panel.st = "ready")
             => screen'[ui.now] = input
        /\ "update" \notin loop.flag => screen' = screen
    BY <1>1, UpdatedFacts DEF WindowsKnown, Types
  <1>7. /\ loop' \in Loops /\ loop'.flag = {} /\ loop'.at \in {"module", "select"}
        /\ loop.flag # {} => loop'.at = "module" /\ \A m : ~ Over(loop', m)
        /\ loop.flag = {} => loop'.late = loop.late
    BY <1>1, PassFacts, PhaseSet
  <1>8. Types'
    BY <1>1, <1>4, <1>5, <1>6, <1>7 DEF Types
  <1>9. Drained'
    <2>1. Over(loop, "x11") /\ Over(loop, "dbus")
      BY <1>1 DEF Over
    <2>2. CASE loop.flag # {}
      BY <1>7, <2>2 DEF Drained
    <2>3. CASE loop.flag = {}
      BY <1>5, <1>7, <2>1, <2>3 DEF Drained
    <2>4. QED
      BY <2>2, <2>3
  <1>10. Drawn'
    <2>1. SUFFICES ASSUME ~ b, ~ui.client, ui.now = "classic" \/ panel.st = "ready"
                   PROVE  screen'[ui.now] = input
      BY <1>1, <1>4, <1>7 DEF Drawn
    <2>2. CASE "update" \in loop.flag
      BY <1>6, <2>1, <2>2
    <2>3. CASE "update" \notin loop.flag
      BY <1>3, <1>6, <2>1, <2>3 DEF Drawn
    <2>4. QED
      BY <2>2, <2>3
  <1>11. WindowsKnown'
    BY <1>1, <1>4, <1>6 DEF WindowsKnown
  <1>12. PanelKnown'
    BY <1>1, <1>4, <1>5, PanelKept DEF Pending
  <1>13. QED
    BY <1>8, <1>9, <1>10, <1>11, <1>12

LEMMA SelectKeeps ==
  ASSUME IInv, Select
  PROVE  IInv'
  <1> USE DEF IInv
  <1> DEFINE p == Pass(loop)
             b == bus.sock # <<>>
  <1>1. /\ loop \in Loops /\ loop.at = "select"
        /\ loop' = [p EXCEPT !.ready = b]
        /\ UNCHANGED <<x11, bus, remote, input, ui, screen, panel, count>>
    BY DEF Select, Types, Asleep
  <1>2. b \in BOOLEAN
    OBVIOUS
  <1>3. /\ p \in Loops /\ p.at = "module" /\ p.flag = {} /\ p.turn = 1
    BY <1>1, PassFacts
  <1> HIDE DEF p, b
  <1>4. loop' \in Loops /\ loop'.at = "module" /\ loop'.flag = {} /\ loop'.turn = 1
    BY <1>1, <1>2, <1>3, ReadySet
  <1>5. Types'
    BY <1>1, <1>4 DEF Types
  <1>6. Drained'
    <2>1. \A m : ~ Over(loop', m)
      BY <1>4 DEF Over
    <2>2. QED
      BY <1>4, <2>1 DEF Drained
  <1>7. Drawn'
    BY <1>1, <1>4 DEF Drawn, Asleep
  <1>8. WindowsKnown' /\ PanelKnown'
    BY <1>1, WindowsKept, PanelKept DEF Pending
  <1>9. QED
    BY <1>5, <1>6, <1>7, <1>8

-----------------------------------------------------------------------------
(* The world around the daemon                                              *)

LEMMA ArriveKeeps ==
  ASSUME IInv, Arrive
  PROVE  IInv'
  <1> USE DEF IInv
  <1>1. /\ x11 \in Queues /\ bus \in Queues /\ remote \in Seq(Events)
        /\ count \in [events : Nat, versions : Nat, panel : Nat]
        /\ count' = [count EXCEPT !.events = @ + 1]
        /\ UNCHANGED <<loop, input, ui, screen, panel>>
    BY DEF Arrive, Types
  <1>2. count' \in [events : Nat, versions : Nat, panel : Nat]
    BY <1>1, CountSet
  <1>3. /\ x11' \in Queues /\ x11'.lib = x11.lib
        /\ bus' \in Queues /\ bus'.lib = bus.lib
        /\ remote' \in Seq(Events)
        /\ \/ Pending(bus') = Pending(bus)
           \/ \E e \in Events : Pending(bus') = Append(Pending(bus), e)
    <2>1. CASE \E e \in {"key", "focus", "taken", "query"} :
                 x11' = [x11 EXCEPT !.sock = Append(@, e)] /\ UNCHANGED <<bus, remote>>
      BY <1>1, <2>1, ArrivalIsLast DEF Messages, Events
    <2>2. CASE \E e \in Events :
                 bus' = [bus EXCEPT !.sock = Append(@, e)] /\ UNCHANGED <<x11, remote>>
      BY <1>1, <2>2, ArrivalIsLast DEF Messages
    <2>3. CASE \E e \in {"key", "signal", "query"} :
                 remote' = Append(remote, e) /\ UNCHANGED <<x11, bus>>
      <3>1. PICK e \in {"key", "signal", "query"} :
              remote' = Append(remote, e) /\ UNCHANGED <<x11, bus>>
        BY <2>3
      <3>2. e \in Events
        BY DEF Events
      <3>3. QED
        BY <1>1, <3>1, <3>2, AppendProperties
    <2>4. QED
      BY <2>1, <2>2, <2>3 DEF Arrive
  <1>4. Types'
    BY <1>1, <1>2, <1>3 DEF Types
  <1>5. Drained'
    BY <1>1, <1>3 DEF Drained, Module
  <1>6. Drawn'
    BY <1>1 DEF Drawn, Asleep
  <1>7. WindowsKnown'
    BY <1>1, WindowsKept
  <1>8. PanelKnown'
    <2>1. CASE Pending(bus') = Pending(bus)
      BY <1>1, <2>1, PanelKept DEF Pending
    <2>2. CASE \E e \in Events : Pending(bus') = Append(Pending(bus), e)
      <3>1. PICK e \in Events : Pending(bus') = Append(Pending(bus), e)
        BY <2>2
      <3>2. e \in Messages /\ e \notin PanelMessages /\ Pending(bus) \in Seq(Messages)
        BY <1>1, FetchKeepsPending DEF Messages, Events, PanelMessages
      <3>3. ASSUME NEW S \in SUBSET PanelMessages, NEW i, EndsWith(S, i)
            PROVE  EndsWith(S, i)'
        <4>1. \/ LastIn(Pending(bus'), S)
              \/ NoneIn(Pending(bus')) /\ ui.now = i
          BY <3>1, <3>2, <3>3, LastAfterArrival DEF EndsWith
        <4>2. QED
          BY <1>1, <4>1 DEF EndsWith
      <3>4. {"PanelCreated"} \in SUBSET PanelMessages
            /\ {"PanelGone", "NoPanel"} \in SUBSET PanelMessages
        BY DEF PanelMessages
      <3>5. QED
        BY <1>1, <3>3, <3>4 DEF PanelKnown
    <2>3. QED
      BY <1>3, <2>1, <2>2
  <1>9. QED
    BY <1>4, <1>5, <1>6, <1>7, <1>8

\* The panel appears, is replaced or goes away; it says so when it announced
\* itself or is gone.
LEMMA PanelStepKeeps ==
  ASSUME IInv, NEW from, NEW to \in {"none", "named", "ready"}, PanelStep(from, to),
         \/ to = "named" /\ UNCHANGED bus
         \/ to = "ready" /\ Tell("PanelCreated")
         \/ to = "none" /\ Tell("PanelGone")
  PROVE  IInv'
  <1> USE DEF IInv
  <1>1. /\ bus \in Queues /\ screen \in [Names -> Nat]
        /\ count \in [events : Nat, versions : Nat, panel : Nat]
        /\ panel' = [st |-> to, missed |-> TRUE]
        /\ screen' = [screen EXCEPT !.kimpanel = Nothing]
        /\ count' = [count EXCEPT !.panel = @ + 1]
        /\ UNCHANGED <<loop, x11, remote, input, ui>>
    BY DEF PanelStep, Types
  <1>2. panel' \in Panels /\ panel'.st = to /\ panel'.missed
    BY <1>1 DEF Panels
  <1>3. /\ screen' \in [Names -> Nat] /\ screen'["kimpanel"] = Nothing
        /\ screen'["classic"] = screen["classic"]
    BY <1>1, ScreenSet DEF Nothing
  <1>4. count' \in [events : Nat, versions : Nat, panel : Nat]
    BY <1>1, CountSet
  <1>5. bus' \in Queues /\ bus'.lib = bus.lib
    BY <1>1, ArrivalIsLast DEF Tell, Messages, PanelMessages
  <1>6. Types'
    BY <1>1, <1>2, <1>3, <1>4, <1>5 DEF Types
  <1>7. Drained'
    BY <1>1, <1>5 DEF Drained, Module
  <1>8. Drawn'
    BY <1>1, <1>2 DEF Drawn, Asleep
  <1>9. WindowsKnown'
    BY <1>1, <1>3 DEF WindowsKnown
  <1>10. PanelKnown'
    <2>1. Pending(bus) \in Seq(Messages)
      BY <1>1, FetchKeepsPending
    <2>2. CASE to = "named"
      BY <1>2, <2>2 DEF PanelKnown
    <2>3. CASE to = "ready"
      <3>1. Pending(bus') = Append(Pending(bus), "PanelCreated")
        BY <1>1, <2>3, ArrivalIsLast DEF Tell, Messages, PanelMessages
      <3>2. LastIn(Pending(bus'), {"PanelCreated"})
        BY <2>1, <3>1, LastAfterArrival DEF Messages, PanelMessages
      <3>3. QED
        BY <1>2, <2>3, <3>2 DEF PanelKnown, EndsWith
    <2>4. CASE to = "none"
      <3>1. Pending(bus') = Append(Pending(bus), "PanelGone")
        BY <1>1, <2>4, ArrivalIsLast DEF Tell, Messages, PanelMessages
      <3> DEFINE S == {"PanelGone", "NoPanel"}
      <3>2. S \in SUBSET PanelMessages /\ "PanelGone" \in S /\ "PanelGone" \in Messages
        BY DEF Messages, PanelMessages
      <3> HIDE DEF S
      <3>3. LastIn(Pending(bus'), S)
        BY <2>1, <3>1, <3>2, LastAfterArrival
      <3>4. QED
        BY <1>2, <2>4, <3>3 DEF PanelKnown, EndsWith, S
    <2>5. QED
      BY <2>2, <2>3, <2>4
  <1>11. QED
    BY <1>6, <1>7, <1>8, <1>9, <1>10

-----------------------------------------------------------------------------
(* The theorems                                                             *)

LEMMA InitIInv == Init => IInv
  <1> SUFFICES ASSUME Init  PROVE IInv
    OBVIOUS
  <1>1. PICK order \in {<<"x11", "dbus", "remote">>, <<"dbus", "x11", "remote">>} :
          loop = [at |-> "module", order |-> order, turn |-> 1, flag |-> {},
                  ready |-> FALSE, late |-> FALSE]
    BY DEF Init
  <1>2. PICK st \in {"none", "named", "ready"} :
          /\ panel = [st |-> st, missed |-> TRUE]
          /\ bus = [sock |-> <<IF st = "none" THEN "NoPanel" ELSE "Panel">>,
                    lib |-> <<>>]
    BY DEF Init
  <1>3. PICK fallback \in BOOLEAN :
          ui = [now |-> "kimpanel", fallback |-> fallback, client |-> FALSE]
    BY DEF Init
  <1>4. /\ x11 = [sock |-> <<>>, lib |-> <<>>] /\ remote = <<>> /\ input = 0
        /\ screen = [kimpanel |-> 0, classic |-> 0]
        /\ count = [events |-> 0, versions |-> 0, panel |-> 0]
    BY DEF Init, Nothing
  <1>5. loop \in Loops /\ loop.at = "module" /\ loop.turn = 1 /\ loop.flag = {}
    BY <1>1 DEF Loops, Orders
  <1> DEFINE m == IF st = "none" THEN "NoPanel" ELSE "Panel"
  <1>6. /\ m \in Messages /\ (st = "none" => m = "NoPanel") /\ (st = "ready" => m = "Panel")
        /\ bus = [sock |-> <<m>>, lib |-> <<>>]
    BY <1>2 DEF Messages, PanelMessages
  <1> HIDE DEF m
  <1>7. <<m>> \in Seq(Messages) /\ <<>> \in Seq(Messages)
    BY <1>6
  <1>8. bus \in Queues /\ Pending(bus) = <<m>>
    <2>1. <<>> \o <<m>> = <<m>>
      BY <1>7, ConcatEmptySeq
    <2>2. QED
      BY <1>6, <1>7, <2>1 DEF Queues, Pending
  <1>9. x11 \in Queues /\ remote \in Seq(Events)
    BY <1>4 DEF Queues
  <1>10. screen \in [Names -> Nat] /\ screen["kimpanel"] = 0 /\ screen["classic"] = 0
    BY <1>4 DEF Names
  <1>11. Types
    BY <1>2, <1>3, <1>4, <1>5, <1>8, <1>9, <1>10
       DEF Types, Panels, Names, Uis
  <1>12. Drained
    BY <1>5 DEF Drained, Over
  <1>13. Drawn
    BY <1>2, <1>5 DEF Drawn, Asleep
  <1>14. WindowsKnown
    BY <1>3, <1>10 DEF WindowsKnown, Nothing
  <1>15. PanelKnown
    <2>1. ASSUME st = "none"  PROVE LastIn(<<m>>, {"PanelGone", "NoPanel"})
      BY <1>6, <2>1 DEF LastIn
    <2>2. ASSUME st = "ready"  PROVE NoneIn(<<m>>)
      BY <1>6, <2>2 DEF NoneIn, PanelMessages
    <2>3. QED
      BY <1>2, <1>3, <1>8, <2>1, <2>2 DEF PanelKnown, EndsWith
  <1>16. QED
    BY <1>11, <1>12, <1>13, <1>14, <1>15 DEF IInv

LEMMA StepIInv == IInv /\ [Next]_vars => IInv'
  <1> SUFFICES ASSUME IInv, [Next]_vars  PROVE IInv'
    OBVIOUS
  <1>1. CASE X11ProcessEvent
    BY <1>1, X11Keeps
  <1>2. CASE DBusHandleWatches
    BY <1>2, WatchesKeep
  <1>3. CASE DBusDispatch
    BY <1>3, DispatchKeeps
  <1>4. CASE RemoteProcessEvent
    BY <1>4, RemoteKeeps
  <1>5. CASE Draw
    BY <1>5, DrawKeeps
  <1>6. CASE Select
    BY <1>6, SelectKeeps
  <1>7. CASE Arrive
    BY <1>7, ArriveKeeps
  <1>8. CASE PanelStarts
    BY <1>8, PanelStepKeeps DEF PanelStarts
  <1>9. CASE PanelReplaced
    BY <1>9, PanelStepKeeps DEF PanelReplaced
  <1>10. CASE PanelAnnounces
    BY <1>10, PanelStepKeeps DEF PanelAnnounces
  <1>11. CASE PanelDies
    BY <1>11, PanelStepKeeps DEF PanelDies
  <1>12. CASE UNCHANGED vars
    <2>1. UNCHANGED <<loop, x11, bus, remote, input, ui, screen, panel, count>>
      BY <1>12 DEF vars
    <2>2. Types' /\ Drained' /\ Drawn'
      BY <2>1 DEF IInv, Types, Drained, Drawn, Module, Asleep
    <2>3. WindowsKnown' /\ PanelKnown'
      BY <2>1, WindowsKept, PanelKept DEF IInv, Pending
    <2>4. QED
      BY <2>2, <2>3 DEF IInv
  <1>13. QED
    BY <1>1, <1>2, <1>3, <1>4, <1>5, <1>6, <1>7, <1>8, <1>9, <1>10, <1>11, <1>12
       DEF Next, Loop

LEMMA AlwaysIInv == Spec => []IInv
  BY InitIInv, StepIInv, PTL DEF Spec

\* Whatever arrives and whenever, the loop does not sleep on messages that a
\* library already holds, unless a handler fetched them after the turn of
\* their module (instance.c:217-250).
THEOREM NothingIsStranded == Spec => []NothingStranded
  <1>1. IInv => NothingStranded
    <2> SUFFICES ASSUME Drained, Asleep, ~ loop.late
                 PROVE  x11.lib = <<>> /\ bus.lib = <<>>
      BY DEF IInv, NothingStranded
    <2>1. Over(loop, "x11") /\ Over(loop, "dbus")
      BY DEF Over, Asleep
    <2>2. QED
      BY <2>1 DEF Drained
  <1>2. QED
    BY <1>1, AlwaysIInv, PTL

\* Whatever the handlers asked for in a pass, the window of the interface in
\* use shows the input when the loop sleeps, unless the context with the focus
\* draws its window itself, or the interface, the panel or who draws changed
\* since the last update (instance.c:229, ui.c:838).
THEOREM SleepingIsDrawn == Spec => []AsleepDrawn
  <1>1. IInv => AsleepDrawn
    <2> SUFFICES ASSUME Drawn, Asleep, ~ ui.client, ~ panel.missed,
                        ui.now = "classic" \/ panel.st = "ready"
                 PROVE  screen[ui.now] = input
      BY DEF IInv, AsleepDrawn
    <2>1. "update" \notin loop.flag
      BY DEF Drawn
    <2>2. QED
      BY <2>1 DEF Drawn
  <1>2. QED
    BY <1>1, AlwaysIInv, PTL

\* However often the panel starts, announces itself, is replaced or dies, the
\* interface in use is one the user can see once the messages about it are
\* handled (kimpanel.c:761, 796, 1408).
THEOREM InterfaceIsVisible == Spec => []InterfaceFollowsPanel
  <1>1. IInv => InterfaceFollowsPanel
    <2> SUFFICES ASSUME Types, PanelKnown, ui.fallback, bus.sock = <<>>, bus.lib = <<>>
                 PROVE  /\ panel.st = "ready" => ui.now = "kimpanel"
                        /\ panel.st = "none" => ui.now = "classic"
      BY DEF IInv, InterfaceFollowsPanel
    <2>1. Pending(bus) = <<>>
      <3>1. <<>> \in Seq(Messages)
        OBVIOUS
      <3>2. <<>> \o <<>> = <<>>
        BY <3>1, ConcatEmptySeq
      <3>3. QED
        BY <3>2 DEF Pending
    <2>2. \A S : ~ LastIn(Pending(bus), S)
      BY <2>1 DEF LastIn
    <2>3. QED
      BY <2>2 DEF PanelKnown, EndsWith
  <1>2. QED
    BY <1>1, AlwaysIInv, PTL

\* Two windows show the input at the same time only while the announcement
\* of the panel is on its way (kimpanel.c:761).
THEOREM OneWindowAtATime == Spec => []OneWindow
  <1>1. IInv => OneWindow
    <2> SUFFICES ASSUME IInv, screen.kimpanel # Nothing, screen.classic # Nothing
                 PROVE  \E i \in DOMAIN (bus.lib \o bus.sock) :
                          (bus.lib \o bus.sock)[i] = "PanelCreated"
      BY DEF OneWindow
    <2>1. screen \in [Names -> Nat] /\ bus \in Queues
      BY DEF IInv, Types
    <2>2. screen["kimpanel"] # Nothing /\ screen["classic"] # Nothing
      BY <2>1 DEF Names
    <2>3. panel.st = "ready" /\ ui.now = "classic" /\ ui.fallback
      BY <2>2 DEF IInv, WindowsKnown
    <2>4. EndsWith({"PanelCreated"}, "kimpanel")
      BY <2>3 DEF IInv, PanelKnown
    <2>5. LastIn(Pending(bus), {"PanelCreated"})
      BY <2>3, <2>4 DEF EndsWith
    <2>6. PICK i \in 1 .. Len(Pending(bus)) : Pending(bus)[i] = "PanelCreated"
      BY <2>5 DEF LastIn
    <2>7. Pending(bus) \in Seq(Messages)
      BY <2>1, FetchKeepsPending
    <2>8. DOMAIN Pending(bus) = 1 .. Len(Pending(bus))
      BY <2>7, LenProperties
    <2>9. QED
      BY <2>6, <2>8 DEF Pending
  <1>2. QED
    BY <1>1, AlwaysIInv, PTL

=============================================================================
