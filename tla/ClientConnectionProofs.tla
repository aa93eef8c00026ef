----------------------- MODULE ClientConnectionProofs -----------------------
(***************************************************************************)
(* The client has a context of its own and uses every key once, for any    *)
(* number of incarnations of the daemon, keys, other contexts, toggles and *)
(* timeouts.                                                               *)
(*                                                                         *)
(* The client learns what happened to the daemon from its queue, late and  *)
(* in order; the operators below say what is in a queue and what is before *)
(* what, and the lemmas on queues how a step changes that.  The proxy of a *)
(* context is right because a CreateICv2 call, its request, its answer and *)
(* the context it makes all belong to the incarnation of client->proxy     *)
(* (CallBelongs, CreatedBelongs), or the notice that this one is gone is   *)
(* still in the queue.  A key is used once because its call is in one      *)
(* place only (KeyInOnePlace), and a call is cancelled only with its       *)
(* incarnation because a context never answers before the name of its      *)
(* incarnation was dispatched (NoticesInOrder, NamedFirst).                *)
(***************************************************************************)
EXTENDS ClientConnection, SequenceTheorems, TLAPS

\* What is in a queue, and what is in it before what.
In(s) == {s[i] : i \in DOMAIN s}
Before(s, a, b) == \E i, j \in DOMAIN s : i < j /\ s[i] = a /\ s[j] = b

ICs == [owner : Nat, id : Nat]

Messages ==
    [type : {"name", "gone"}, owner : Nat]
      \union [type : {"created"}, call : Nat, id : Nat, on : BOOLEAN]
      \union [type : {"answer"}, key : Keys, ret : {"handled", "ignored", "error"}]
      \union [type : {"EnableIM", "CloseIM"}, ic : ICs]

Requests ==
    [type : {"create"}, call : Nat]
      \union [type : {"destroy"}, id : Nat]
      \union [type : {"key"}, id : Nat, key : Keys, trigger : BOOLEAN]

Contexts == [by : {"client", "other"}, alive : BOOLEAN, on : BOOLEAN]

DaemonStates ==
    [up : Nat, lives : Nat, ctx : Seq(Contexts), requests : Seq(Requests)]

Clients ==
    [st : {"new", "open", "closed"}, sync : BOOLEAN, failed : BOOLEAN, proxy : Nat,
     call : Nat, calls : Nat, ic : ICs, enable : BOOLEAN, waiting : Nat]

KeyStates ==
    [st : {"none", "pending", "waiting", "putback", "dropped", "delivered", "cancelled"},
     to : Nat, failed : BOOLEAN, stale : BOOLEAN]

Types ==
    /\ daemon \in DaemonStates
    /\ client \in Clients
    /\ inbox \in Seq(Messages)
    /\ keys \in [Keys -> KeyStates]

\* A context of this client that is there.
Mine(id) ==
    id < Len(daemon.ctx) /\ daemon.ctx[id + 1].alive /\ daemon.ctx[id + 1].by = "client"

\* The notice that releases the proxies is in the queue.
Forsaken == Gone(client.proxy) \in In(inbox)

\* A daemon that is not there has no contexts and no requests.
Incarnations ==
    IF daemon.up = Nobody THEN daemon.ctx = <<>> /\ daemon.requests = <<>>
    ELSE daemon.up = daemon.lives

\* A client that is not open has nothing under way.
ShutIsIdle ==
    ~IsOpen => /\ client.proxy = Nobody /\ client.call = 0 /\ client.ic = NoIC
               /\ inbox = <<>>

\* The bus tells of incarnations in their order, and of every one.
NoticesInOrder ==
    /\ \A m \in In(inbox) :
         /\ m.type = "gone" => m.owner \in 1 .. daemon.lives /\ m.owner # daemon.up
         /\ m.type = "name" /\ m.owner # Nobody =>
              /\ m.owner <= daemon.lives
              /\ daemon.up # Nobody => Name(daemon.up) \in In(inbox)
    /\ \A m, n \in In(inbox) :
         m.type = "name" /\ n.type = "name" /\ Nobody \notin {m.owner, n.owner}
           /\ Before(inbox, m, n) => m.owner < n.owner

\* The request of the call under way waits in the incarnation of the proxy; a
\* context is given up only with the client.
CallBelongs ==
    /\ client.call <= client.calls /\ client.proxy <= daemon.lives
    /\ \A r \in In(daemon.requests) :
         /\ r.type = "create" =>
              /\ r.call \in 1 .. client.calls
              /\ r.call = client.call => daemon.up = client.proxy
         /\ r.type = "destroy" => client.st = "closed"

\* The answer to the call under way is of the proxy's incarnation and tells of
\* a context of this client; it comes after the name.
CreatedBelongs ==
    \A m \in In(inbox) :
      m.type = "created" =>
        /\ m.call \in 1 .. client.calls
        /\ m.call = client.call =>
             /\ Forsaken \/ (daemon.up = client.proxy /\ Mine(m.id))
             /\ Nobody # daemon.up /\ daemon.up = client.proxy =>
                  ~Before(inbox, m, Name(daemon.up))

\* A context of the running incarnation comes after the name of it.
NamedFirst ==
    client.ic # NoIC =>
      /\ client.ic.owner \in 1 .. daemon.lives
      /\ client.ic.owner = client.proxy /\ client.proxy = daemon.up =>
           Name(daemon.up) \notin In(inbox)

\* The request of a key is the only trace of it in the daemon, and its answer
\* tells what the daemon did.
KeyInOnePlace ==
    /\ \A r \in In(daemon.requests) :
         r.type = "key" =>
           /\ keys[r.key].st # "none"
           /\ r.key \notin consumed
           /\ Answer(r.key, "ignored") \notin In(inbox)
           /\ keys[r.key].st \in {"putback", "delivered"} => keys[r.key].failed
    /\ \A r, q \in In(daemon.requests) :
         r.type = "key" /\ q.type = "key" /\ r.key = q.key => ~Before(daemon.requests, r, q)
    /\ \A m \in In(inbox) :
         m.type = "answer" =>
           /\ keys[m.key].st # "none"
           /\ m.ret = "handled" => m.key \in consumed
           /\ m.ret = "ignored" => m.key \notin consumed
    /\ \A k \in Keys :
         keys[k].st = "none" => k \notin consumed

\* The call of a key is made through the proxy it was sent through, of an
\* incarnation whose name was dispatched.
KeyOfItsProxy ==
    \A k \in Keys :
      /\ keys[k].to <= daemon.lives
      /\ keys[k].st \in {"pending", "cancelled"} => keys[k].to # Nobody
      /\ keys[k].st = "pending" /\ ~keys[k].stale =>
           /\ keys[k].to = client.proxy
           /\ keys[k].to = daemon.up => Name(daemon.up) \notin In(inbox)
      /\ keys[k].st = "cancelled" => client.st # "new"

\* What is true of the client, the daemon and what is between them; and of the
\* keys.
Bound ==
    /\ Incarnations
    /\ ShutIsIdle
    /\ NoticesInOrder
    /\ CallBelongs
    /\ CreatedBelongs
    /\ ContextIsMine
    /\ NamedFirst

Used ==
    /\ KeyInOnePlace
    /\ KeyOfItsProxy
    /\ KeysOnce

IInv == Types /\ Bound /\ Used

-----------------------------------------------------------------------------
(* Queues. *)

\* The places and the members of a queue.
LEMMA SequenceFacts ==
    ASSUME NEW M, NEW s \in Seq(M)
    PROVE  /\ Len(s) \in Nat /\ DOMAIN s = 1 .. Len(s)
           /\ \A i \in 1 .. Len(s) : s[i] \in M
  OBVIOUS

\* A queue holds what was put in.
LEMMA InQueue ==
    ASSUME NEW M, NEW s \in Seq(M)
    PROVE  In(s) \subseteq M
  BY DEF In

\* A queue of nothing, of one and of two.
LEMMA ShortQueues ==
    /\ In(<<>>) = {}
    /\ \A a, b : ~ Before(<<>>, a, b)
    /\ \A x : In(<<x>>) = {x}
    /\ \A x, a, b : ~ Before(<<x>>, a, b)
    /\ \A x, y : In(<<x, y>>) = {x, y}
    /\ \A x, y, a, b : Before(<<x, y>>, a, b) => a = x /\ b = y
  <1>1. In(<<>>) = {} /\ \A a, b : ~ Before(<<>>, a, b)
    BY DEF In, Before
  <1>2. ASSUME NEW x
        PROVE  In(<<x>>) = {x} /\ \A a, b : ~ Before(<<x>>, a, b)
    <2>1. DOMAIN <<x>> = {1} /\ <<x>>[1] = x
      OBVIOUS
    <2>2. QED
      BY <2>1 DEF In, Before
  <1>3. ASSUME NEW x, NEW y
        PROVE  In(<<x, y>>) = {x, y} /\ \A a, b : Before(<<x, y>>, a, b) => a = x /\ b = y
    <2>1. DOMAIN <<x, y>> = {1, 2} /\ <<x, y>>[1] = x /\ <<x, y>>[2] = y
      OBVIOUS
    <2>2. QED
      BY <2>1 DEF In, Before
  <1>4. QED
    BY <1>1, <1>2, <1>3

\* Taking the first one out.
LEMMA TakeFirst ==
    ASSUME NEW M, NEW s \in Seq(M), s # <<>>
    PROVE  /\ Head(s) \in M /\ Tail(s) \in Seq(M)
           /\ Head(s) \in In(s)
           /\ In(s) = {Head(s)} \union In(Tail(s))
           /\ \A a, b : Before(Tail(s), a, b) => Before(s, a, b)
           /\ \A b \in In(Tail(s)) : Before(s, Head(s), b)
  <1> DEFINE t == Tail(s)
             n == Len(s)
  <1>1. n \in Nat /\ n > 0 /\ DOMAIN s = 1 .. n /\ Head(s) = s[1]
    BY EmptySeq
  <1>2. t \in Seq(M) /\ Len(t) = n - 1 /\ DOMAIN t = 1 .. n - 1
    BY <1>1
  <1>3. \A i \in 1 .. n - 1 : t[i] = s[i + 1]
    BY <1>1
  <1>4. Head(s) \in M /\ Head(s) \in In(s)
    BY <1>1, InQueue DEF In
  <1> HIDE DEF t, n
  <1>5. In(s) = {s[1]} \union In(t)
    <2>1. ASSUME NEW x \in In(s)  PROVE x = s[1] \/ x \in In(t)
      <3>1. PICK i \in 1 .. n : x = s[i]
        BY <1>1, <2>1 DEF In
      <3>2. CASE i = 1
        BY <3>1, <3>2
      <3>3. CASE i # 1
        <4>1. i - 1 \in 1 .. n - 1 /\ (i - 1) + 1 = i
          BY <1>1, <3>3
        <4>2. t[i - 1] = x
          BY <1>3, <3>1, <4>1
        <4>3. QED
          BY <1>2, <4>1, <4>2 DEF In
      <3>4. QED
        BY <3>2, <3>3
    <2>2. ASSUME NEW x \in In(t)  PROVE x \in In(s)
      <3>1. PICK i \in 1 .. n - 1 : x = t[i]
        BY <1>2, <2>2 DEF In
      <3>2. i + 1 \in 1 .. n /\ x = s[i + 1]
        BY <1>1, <1>3, <3>1
      <3>3. QED
        BY <1>1, <3>2 DEF In
    <2>3. s[1] \in In(s)
      BY <1>1, <1>4
    <2>4. QED
      BY <2>1, <2>2, <2>3
  <1>6. ASSUME NEW a, NEW b, Before(t, a, b)  PROVE Before(s, a, b)
    <2>1. PICK i \in 1 .. n - 1, j \in 1 .. n - 1 : i < j /\ t[i] = a /\ t[j] = b
      BY <1>2, <1>6 DEF Before
    <2>2. i + 1 \in 1 .. n /\ j + 1 \in 1 .. n /\ i + 1 < j + 1 /\ s[i + 1] = a /\ s[j + 1] = b
      BY <1>1, <1>3, <2>1
    <2>3. QED
      BY <1>1, <2>2 DEF Before
  <1>7. ASSUME NEW b \in In(t)  PROVE Before(s, s[1], b)
    <2>1. PICK i \in 1 .. n - 1 : b = t[i]
      BY <1>2, <1>7 DEF In
    <2>2. 1 \in 1 .. n /\ i + 1 \in 1 .. n /\ 1 < i + 1 /\ s[i + 1] = b
      BY <1>1, <1>3, <2>1
    <2>3. QED
      BY <1>1, <2>2 DEF Before
  <1>8. QED
    BY <1>1, <1>2, <1>4, <1>5, <1>6, <1>7 DEF t

\* Putting others at the end.
LEMMA PutLast ==
    ASSUME NEW M, NEW s \in Seq(M), NEW t \in Seq(M)
    PROVE  /\ s \o t \in Seq(M)
           /\ In(s \o t) = In(s) \union In(t)
           /\ \A a, b : Before(s \o t, a, b) =>
                Before(s, a, b) \/ Before(t, a, b) \/ (a \in In(s) /\ b \in In(t))
  <1> DEFINE c == s \o t
             m == Len(s)
             n == Len(t)
  <1>1. m \in Nat /\ n \in Nat /\ DOMAIN s = 1 .. m /\ DOMAIN t = 1 .. n
    OBVIOUS
  <1>2. c \in Seq(M) /\ Len(c) = m + n /\ DOMAIN c = 1 .. m + n
    BY <1>1
  <1>3. \A i \in 1 .. m + n : c[i] = IF i <= m THEN s[i] ELSE t[i - m]
    BY <1>1
  <1> HIDE DEF c, m, n
  <1>4. \A i \in 1 .. m + n : (i \in 1 .. m /\ c[i] = s[i]) \/ (i - m \in 1 .. n /\ i > m /\ c[i] = t[i - m])
    BY <1>1, <1>3
  <1>5. In(c) = In(s) \union In(t)
    <2>1. ASSUME NEW x \in In(c)  PROVE x \in In(s) \union In(t)
      BY <1>1, <1>2, <1>4, <2>1 DEF In
    <2>2. ASSUME NEW x \in In(s)  PROVE x \in In(c)
      <3>1. PICK i \in 1 .. m : x = s[i]
        BY <1>1, <2>2 DEF In
      <3>2. i \in 1 .. m + n /\ c[i] = x
        BY <1>1, <1>3, <3>1
      <3>3. QED
        BY <1>2, <3>2 DEF In
    <2>3. ASSUME NEW x \in In(t)  PROVE x \in In(c)
      <3>1. PICK i \in 1 .. n : x = t[i]
        BY <1>1, <2>3 DEF In
      <3>2. i + m \in 1 .. m + n /\ ~(i + m <= m) /\ (i + m) - m = i
        BY <1>1, <3>1
      <3>3. c[i + m] = x
        BY <1>3, <3>1, <3>2
      <3>4. QED
        BY <1>2, <3>2, <3>3 DEF In
    <2>4. QED
      BY <2>1, <2>2, <2>3
  <1>6. ASSUME NEW a, NEW b, Before(c, a, b)
        PROVE  Before(s, a, b) \/ Before(t, a, b) \/ (a \in In(s) /\ b \in In(t))
    <2>1. PICK i \in 1 .. m + n, j \in 1 .. m + n : i < j /\ c[i] = a /\ c[j] = b
      BY <1>2, <1>6 DEF Before
    <2>2. CASE i \in 1 .. m /\ j \in 1 .. m
      <3>1. s[i] = a /\ s[j] = b
        BY <1>1, <1>4, <2>1, <2>2
      <3>2. QED
        BY <1>1, <2>1, <2>2, <3>1 DEF Before
    <2>3. CASE i > m /\ j > m
      <3>1. i - m \in 1 .. n /\ j - m \in 1 .. n /\ i - m < j - m /\ t[i - m] = a /\ t[j - m] = b
        BY <1>1, <1>4, <2>1, <2>3
      <3>2. QED
        BY <1>1, <3>1 DEF Before
    <2>4. CASE i \in 1 .. m /\ j > m
      <3>1. s[i] = a /\ j - m \in 1 .. n /\ t[j - m] = b
        BY <1>1, <1>4, <2>1, <2>4
      <3>2. QED
        BY <1>1, <2>4, <3>1 DEF In
    <2>5. QED
      BY <1>1, <2>1, <2>2, <2>3, <2>4
  <1>7. QED
    BY <1>2, <1>5, <1>6 DEF c

\* Putting one at the end.
LEMMA PutOne ==
    ASSUME NEW M, NEW s \in Seq(M), NEW x \in M
    PROVE  /\ Append(s, x) \in Seq(M)
           /\ In(Append(s, x)) = In(s) \union {x}
           /\ \A a, b : Before(Append(s, x), a, b) => Before(s, a, b) \/ (a \in In(s) /\ b = x)
  <1> DEFINE t == <<x>>
  <1>1. t \in Seq(M) /\ Append(s, x) = s \o t
    OBVIOUS
  <1>2. In(t) = {x} /\ \A a, b : ~ Before(t, a, b)
    BY ShortQueues
  <1> HIDE DEF t
  <1>3. /\ s \o t \in Seq(M)
        /\ In(s \o t) = In(s) \union In(t)
        /\ \A a, b : Before(s \o t, a, b) =>
             Before(s, a, b) \/ Before(t, a, b) \/ (a \in In(s) /\ b \in In(t))
    BY <1>1, PutLast
  <1>4. QED
    BY <1>1, <1>2, <1>3

\* Taking one out of the middle.
LEMMA TakeOut ==
    ASSUME NEW M, NEW s \in Seq(M), NEW i \in DOMAIN s
    PROVE  LET t == SubSeq(s, 1, i - 1) \o SubSeq(s, i + 1, Len(s))
           IN  /\ t \in Seq(M)
               /\ In(t) \subseteq In(s)
               /\ In(s) \subseteq In(t) \union {s[i]}
               /\ \A a, b : Before(t, a, b) => Before(s, a, b)
  <1> DEFINE u == SubSeq(s, 1, i - 1)
             v == SubSeq(s, i + 1, Len(s))
             t == u \o v
             n == Len(s)
  <1>1. n \in Nat /\ DOMAIN s = 1 .. n /\ i \in 1 .. n
    OBVIOUS
  <1>2. u \in Seq(M) /\ Len(u) = i - 1 /\ \A k \in 1 .. i - 1 : u[k] = s[k]
    BY <1>1
  <1>3. v \in Seq(M) /\ Len(v) = n - i /\ \A k \in 1 .. n - i : v[k] = s[i + k]
    BY <1>1
  <1> HIDE DEF u, v, n
  <1>4. t \in Seq(M) /\ Len(t) = n - 1 /\ DOMAIN t = 1 .. n - 1
    <2>1. t \in Seq(M) /\ Len(t) = Len(u) + Len(v)
      <3>1. u \in Seq(M) /\ v \in Seq(M)
        BY <1>2, <1>3
      <3>2. QED
        BY <3>1, ConcatProperties
    <2>2. Len(t) = n - 1
      BY <1>1, <1>2, <1>3, <2>1
    <2>3. QED
      BY <2>1, <2>2
  <1>5. \A k \in 1 .. n - 1 : t[k] = IF k < i THEN s[k] ELSE s[k + 1]
    <2> SUFFICES ASSUME NEW k \in 1 .. n - 1  PROVE t[k] = IF k < i THEN s[k] ELSE s[k + 1]
      OBVIOUS
    <2>1. t[k] = IF k <= i - 1 THEN u[k] ELSE v[k - (i - 1)]
      BY <1>1, <1>2, <1>3
    <2>2. CASE k < i
      BY <1>1, <1>2, <2>1, <2>2
    <2>3. CASE ~ (k < i)
      <3>1. k - (i - 1) \in 1 .. n - i /\ i + (k - (i - 1)) = k + 1 /\ ~ (k <= i - 1)
        BY <1>1, <2>3
      <3>2. QED
        BY <1>3, <2>1, <2>3, <3>1
    <2>4. QED
      BY <2>2, <2>3
  <1> HIDE DEF t
  <1>6. \A k \in 1 .. n - 1 : \E l \in 1 .. n : t[k] = s[l] /\ l = (IF k < i THEN k ELSE k + 1)
    BY <1>1, <1>5
  <1>7. In(t) \subseteq In(s)
    BY <1>1, <1>4, <1>6 DEF In
  <1>8. ASSUME NEW x \in In(s), x # s[i]  PROVE x \in In(t)
    <2>1. PICK k \in 1 .. n : x = s[k]
      BY <1>1, <1>8 DEF In
    <2>2. k # i
      BY <1>8, <2>1
    <2>3. CASE k < i
      <3>1. k \in 1 .. n - 1 /\ t[k] = x
        BY <1>1, <1>5, <2>1, <2>3
      <3>2. QED
        BY <1>4, <3>1 DEF In
    <2>4. CASE k > i
      <3>1. k - 1 \in 1 .. n - 1 /\ ~ (k - 1 < i) /\ (k - 1) + 1 = k
        BY <1>1, <2>4
      <3>2. t[k - 1] = x
        BY <1>5, <2>1, <3>1
      <3>3. QED
        BY <1>4, <3>1, <3>2 DEF In
    <2>5. QED
      BY <1>1, <2>2, <2>3, <2>4
  <1>9. ASSUME NEW a, NEW b, Before(t, a, b)  PROVE Before(s, a, b)
    <2>1. PICK k \in 1 .. n - 1, l \in 1 .. n - 1 : k < l /\ t[k] = a /\ t[l] = b
      BY <1>4, <1>9 DEF Before
    <2>2. PICK p \in 1 .. n : t[k] = s[p] /\ p = (IF k < i THEN k ELSE k + 1)
      BY <1>6
    <2>3. PICK q \in 1 .. n : t[l] = s[q] /\ q = (IF l < i THEN l ELSE l + 1)
      BY <1>6
    <2>4. p < q
      BY <1>1, <2>1, <2>2, <2>3
    <2>5. QED
      BY <1>1, <2>1, <2>2, <2>3, <2>4 DEF Before
  <1>10. QED
    BY <1>4, <1>7, <1>8, <1>9 DEF t, u, v, n

-----------------------------------------------------------------------------
(* Messages, requests and the records they are sent to. *)

\* What a message of each type is made of.
LEMMA MessageFields ==
    ASSUME NEW m \in Messages
    PROVE  /\ m.type = "name" => m.owner \in Nat /\ m = Name(m.owner)
           /\ m.type = "gone" => m.owner \in Nat /\ m = Gone(m.owner)
           /\ m.type = "created" => /\ m.call \in Nat /\ m.id \in Nat /\ m.on \in BOOLEAN
                                    /\ m = Created(m.call, m.id, m.on)
           /\ m.type = "answer" => /\ m.key \in Keys /\ m.ret \in {"handled", "ignored", "error"}
                                   /\ m = Answer(m.key, m.ret)
           /\ m.type \in {"name", "gone", "created", "answer", "EnableIM", "CloseIM"}
  BY DEF Messages, Name, Gone, Created, Answer, Signal

\* The messages the bus and the daemon make are messages.
LEMMA MessagesMade ==
    /\ \A o \in Nat : Name(o) \in Messages /\ Gone(o) \in Messages
    /\ \A c \in Nat, i \in Nat, b \in BOOLEAN : Created(c, i, b) \in Messages
    /\ \A k \in Keys, ret \in {"handled", "ignored", "error"} : Answer(k, ret) \in Messages
    /\ \A name \in {"EnableIM", "CloseIM"}, ic \in ICs : Signal(name, ic) \in Messages
  BY DEF Messages, Name, Gone, Created, Answer, Signal

\* What they are.
LEMMA MessageTypes ==
    /\ \A o : Name(o).type = "name" /\ Name(o).owner = o
    /\ \A o : Gone(o).type = "gone" /\ Gone(o).owner = o
    /\ \A c, i, b : /\ Created(c, i, b).type = "created"
                    /\ Created(c, i, b).call = c /\ Created(c, i, b).id = i
    /\ \A k, ret : /\ Answer(k, ret).type = "answer"
                   /\ Answer(k, ret).key = k /\ Answer(k, ret).ret = ret
    /\ \A name, ic : Signal(name, ic).type = name
  BY DEF Name, Gone, Created, Answer, Signal

\* What a request of each type is made of.
LEMMA RequestFields ==
    ASSUME NEW r \in Requests
    PROVE  /\ r.type = "create" => r.call \in Nat
           /\ r.type = "destroy" => r.id \in Nat
           /\ r.type = "key" => r.id \in Nat /\ r.key \in Keys /\ r.trigger \in BOOLEAN
           /\ r.type \in {"create", "destroy", "key"}
  BY DEF Requests

\* The fields of the daemon and of the client.
LEMMA StateFields ==
    ASSUME Types
    PROVE  /\ daemon.up \in Nat /\ daemon.lives \in Nat
           /\ daemon.ctx \in Seq(Contexts) /\ daemon.requests \in Seq(Requests)
           /\ client.st \in {"new", "open", "closed"} /\ client.proxy \in Nat
           /\ client.call \in Nat /\ client.calls \in Nat /\ client.ic \in ICs
           /\ client.ic.owner \in Nat /\ client.ic.id \in Nat /\ client.waiting \in Nat
           /\ client.sync \in BOOLEAN /\ client.failed \in BOOLEAN /\ client.enable \in BOOLEAN
           /\ NoIC \in ICs /\ NoIC.owner = 0 /\ Nobody = 0
  BY DEF Types, DaemonStates, Clients, ICs, NoIC, Nobody

\* What a key is known to be.
LEMMA KeyFields ==
    ASSUME Types, NEW k \in Keys
    PROVE  /\ keys[k] \in KeyStates /\ keys[k].to \in Nat
           /\ keys[k].failed \in BOOLEAN /\ keys[k].stale \in BOOLEAN
           /\ keys[k].st \in {"none", "pending", "waiting", "putback", "dropped", "delivered",
                              "cancelled"}
  BY DEF Types, KeyStates

\* A call reaches the incarnation it is made for, or nobody.
LEMMA SentTo ==
    ASSUME Types, NEW owner \in Nat, NEW r \in Requests
    PROVE  LET d == ToDaemon(owner, r)
           IN  /\ d \in DaemonStates
               /\ d.up = daemon.up /\ d.lives = daemon.lives /\ d.ctx = daemon.ctx
               /\ owner = daemon.up => d.requests = Append(daemon.requests, r)
               /\ owner # daemon.up => d.requests = daemon.requests
  <1> DEFINE q == Append(daemon.requests, r)
             e == [daemon EXCEPT !.requests = q]
  <1>1. q \in Seq(Requests)
    BY StateFields
  <1>2. ToDaemon(owner, r) = IF owner = daemon.up THEN e ELSE daemon
    BY DEF ToDaemon
  <1> HIDE DEF q
  <1>3. e \in DaemonStates /\ e.up = daemon.up /\ e.lives = daemon.lives /\ e.ctx = daemon.ctx
        /\ e.requests = q
    BY <1>1 DEF Types, DaemonStates
  <1> HIDE DEF e
  <1>4. daemon \in DaemonStates
    BY DEF Types
  <1>5. QED
    BY <1>2, <1>3, <1>4 DEF q

\* ContextIsMine in terms of queues.
LEMMA MineMeans ==
    ASSUME Types
    PROVE  ContextIsMine <=>
             (client.ic # NoIC =>
                \/ client.ic.owner = client.proxy /\ client.proxy = daemon.up /\ Mine(client.ic.id)
                \/ Forsaken)
  BY DEF ContextIsMine, Mine, Alive, Forsaken, In

\* The same of the next state.
LEMMA MineMeansNext ==
    ASSUME Types'
    PROVE  ContextIsMine' <=>
             (client'.ic # NoIC =>
                \/ client'.ic.owner = client'.proxy /\ client'.proxy = daemon'.up
                     /\ Mine(client.ic.id)'
                \/ Forsaken')
  BY DEF ContextIsMine, Mine, Alive, Forsaken, In

Notices == {"name", "gone", "created"}

\* A step that leaves the connection alone: the incarnation, the proxies and
\* the notices stay; the call under way may be given up.
LEMMA BoundKept ==
    ASSUME Types, Types', Bound,
           client'.st = client.st, client'.proxy = client.proxy, client'.calls = client.calls,
           client'.ic = client.ic, client'.call \in {client.call, 0},
           daemon'.up = daemon.up, daemon'.lives = daemon.lives,
           daemon.up = Nobody => daemon'.ctx = <<>> /\ daemon'.requests = <<>>,
           \A r \in In(daemon'.requests) : r.type # "key" => r \in In(daemon.requests),
           IsOpen => \A id \in Nat : Mine(id) => Mine(id)',
           ~IsOpen => inbox' = <<>>,
           \A m \in In(inbox') : m.type \in Notices => m \in In(inbox),
           daemon.up # Nobody /\ Name(daemon.up) \in In(inbox) => Name(daemon.up) \in In(inbox'),
           Forsaken => Gone(client.proxy) \in In(inbox'),
           \A m, n : m.type \in Notices /\ n.type \in Notices /\ Before(inbox', m, n) =>
             Before(inbox, m, n)
    PROVE  Bound'
  <1>1. Incarnations' /\ ShutIsIdle'
    BY StateFields DEF Bound, Incarnations, ShutIsIdle, IsOpen
  <1>2. Forsaken => Forsaken'
    BY DEF Forsaken
  <1>3. \A o : Name(o) \in In(inbox') => Name(o) \in In(inbox)
    BY MessageTypes DEF Notices
  <1>4. NoticesInOrder'
    BY <1>3 DEF Bound, NoticesInOrder, Notices
  <1>5. CallBelongs'
    BY StateFields DEF Bound, CallBelongs
  <1>6. ~IsOpen => In(inbox') = {} /\ client.ic = NoIC
    BY ShortQueues DEF Bound, ShutIsIdle
  <1>7. CreatedBelongs'
    <2> SUFFICES ASSUME NEW m \in In(inbox'), m.type = "created"
                 PROVE  /\ m.call \in 1 .. client'.calls
                        /\ m.call = client'.call =>
                             /\ Forsaken' \/ (daemon'.up = client'.proxy /\ Mine(m.id)')
                             /\ Nobody # daemon'.up /\ daemon'.up = client'.proxy =>
                                  ~Before(inbox', m, Name(daemon'.up))
      BY DEF CreatedBelongs
    <2>1. m \in In(inbox) /\ IsOpen /\ m.id \in Nat
      BY <1>6, InQueue, MessageFields DEF Notices, Types
    <2>2. /\ m.call \in 1 .. client.calls
          /\ m.call = client.call =>
               /\ Forsaken \/ (daemon.up = client.proxy /\ Mine(m.id))
               /\ Nobody # daemon.up /\ daemon.up = client.proxy =>
                    ~Before(inbox, m, Name(daemon.up))
      BY <2>1 DEF Bound, CreatedBelongs
    <2>3. m.call = client'.call => m.call = client.call
      BY <2>2, StateFields
    <2>4. Before(inbox', m, Name(daemon.up)) => Before(inbox, m, Name(daemon.up))
      BY MessageTypes DEF Notices
    <2>5. QED
      BY <1>2, <2>1, <2>2, <2>3, <2>4
  <1>8. ContextIsMine'
    <2>1. client.ic # NoIC => (Mine(client.ic.id) => Mine(client.ic.id)')
      <3>1. client.ic.id \in Nat /\ client'.ic.id = client.ic.id
        BY StateFields
      <3>2. QED
        BY <1>6, <3>1 DEF Mine
    <2>2. QED
      BY <1>2, <2>1, MineMeans, MineMeansNext DEF Bound
  <1>9. NamedFirst'
    BY <1>3 DEF Bound, NamedFirst
  <1>10. QED
    BY <1>1, <1>4, <1>5, <1>7, <1>8, <1>9 DEF Bound

\* A step that leaves all notices where they are.
LEMMA QuietBound ==
    ASSUME Types, Types', Bound,
           client'.st = client.st, client'.proxy = client.proxy, client'.calls = client.calls,
           client'.ic = client.ic, client'.call \in {client.call, 0},
           daemon'.up = daemon.up, daemon'.lives = daemon.lives,
           daemon.up = Nobody => daemon'.ctx = <<>> /\ daemon'.requests = <<>>,
           \A r \in In(daemon'.requests) : r.type # "key" => r \in In(daemon.requests),
           IsOpen => \A id \in Nat : Mine(id) => Mine(id)',
           ~IsOpen => inbox' = <<>>,
           \A m \in In(inbox') : m.type \in Notices => m \in In(inbox),
           \A m \in In(inbox) : m.type \in Notices => m \in In(inbox'),
           \A m, n : m.type \in Notices /\ n.type \in Notices /\ Before(inbox', m, n) =>
             Before(inbox, m, n)
    PROVE  Bound'
  <1>1. Name(daemon.up) \in In(inbox) => Name(daemon.up) \in In(inbox')
    BY MessageTypes DEF Notices
  <1>2. Forsaken => Gone(client.proxy) \in In(inbox')
    BY MessageTypes DEF Notices, Forsaken
  <1>3. QED
    BY <1>1, <1>2, BoundKept

\* A step that leaves the keys alone: no key is sent or answered, the proxy
\* stays and its incarnation at most goes.
LEMMA QuietKeys ==
    ASSUME Types, Types', Used, keys' = keys, consumed' = consumed,
           client'.proxy = client.proxy, client'.st = client.st,
           daemon.lives <= daemon'.lives,
           \/ daemon'.up = daemon.up /\ (Name(daemon.up) \in In(inbox') => Name(daemon.up) \in In(inbox))
           \/ daemon'.up = Nobody
           \/ daemon'.up > daemon.lives,
           \A r \in In(daemon'.requests) : r.type = "key" => r \in In(daemon.requests),
           \A r, q : Before(daemon'.requests, r, q) /\ r.type = "key" /\ q.type = "key" =>
             Before(daemon.requests, r, q),
           \A m \in In(inbox') : m.type = "answer" => m \in In(inbox)
    PROVE  Used'
  <1>1. KeyInOnePlace'
    <2>1. \A k, ret : Answer(k, ret) \in In(inbox') => Answer(k, ret) \in In(inbox)
      BY MessageTypes
    <2>2. QED
      BY <2>1 DEF Used, KeyInOnePlace
  <1>2. KeyOfItsProxy'
    <2> SUFFICES ASSUME NEW k \in Keys
                 PROVE  /\ keys[k].to <= daemon'.lives
                        /\ keys[k].st \in {"pending", "cancelled"} => keys[k].to # Nobody
                        /\ keys[k].st = "pending" /\ ~keys[k].stale =>
                             /\ keys[k].to = client.proxy
                             /\ keys[k].to = daemon'.up => Name(daemon'.up) \notin In(inbox')
                        /\ keys[k].st = "cancelled" => client.st # "new"
      BY DEF KeyOfItsProxy
    <2>1. /\ keys[k].to <= daemon.lives
          /\ keys[k].st \in {"pending", "cancelled"} => keys[k].to # Nobody
          /\ keys[k].st = "pending" /\ ~keys[k].stale =>
               /\ keys[k].to = client.proxy
               /\ keys[k].to = daemon.up => Name(daemon.up) \notin In(inbox)
          /\ keys[k].st = "cancelled" => client.st # "new"
      BY DEF Used, KeyOfItsProxy
    <2>2. daemon'.up \in Nat /\ daemon'.lives \in Nat /\ keys[k].to \in Nat /\ daemon.lives \in Nat
      BY KeyFields, StateFields DEF Types, DaemonStates
    <2>3. QED
      BY <2>1, <2>2
  <1>3. KeysOnce'
    <2> SUFFICES ASSUME NEW k \in Keys
                 PROVE  /\ keys[k].st \in {"putback", "delivered"} =>
                             k \notin consumed \/ keys[k].failed
                        /\ keys[k].st = "dropped" => k \in consumed \/ keys[k].failed
                        /\ keys[k].st = "cancelled" =>
                             keys[k].to # daemon'.up \/ keys[k].stale \/ ~IsOpen
      BY DEF KeysOnce, IsOpen
    <2>1. /\ keys[k].to <= daemon.lives
          /\ keys[k].st \in {"pending", "cancelled"} => keys[k].to # Nobody
      BY DEF Used, KeyOfItsProxy
    <2>2. daemon'.up \in Nat /\ keys[k].to \in Nat /\ daemon.lives \in Nat
      BY KeyFields, StateFields DEF Types, DaemonStates
    <2>3. /\ keys[k].st \in {"putback", "delivered"} => k \notin consumed \/ keys[k].failed
          /\ keys[k].st = "dropped" => k \in consumed \/ keys[k].failed
          /\ keys[k].st = "cancelled" => keys[k].to # daemon.up \/ keys[k].stale \/ ~IsOpen
      BY DEF Used, KeysOnce
    <2>4. keys[k].st = "cancelled" /\ keys[k].to # daemon.up => keys[k].to # daemon'.up
      BY <2>1, <2>2 DEF Nobody
    <2>5. QED
      BY <2>3, <2>4
  <1>4. QED
    BY <1>1, <1>2, <1>3 DEF Used

-----------------------------------------------------------------------------
(* The keys. *)

\* Messages of the bus and the daemon go to the end of an open client's queue.
LEMMA ReceivedFacts ==
    ASSUME Types, NEW ms \in Seq(Messages)
    PROVE  LET q == Received(ms)
           IN  /\ q \in Seq(Messages)
               /\ ~IsOpen => q = inbox
               /\ IsOpen => In(q) = In(inbox) \union In(ms)
               /\ In(inbox) \subseteq In(q) /\ In(q) \subseteq In(inbox) \union In(ms)
               /\ \A a, b : Before(q, a, b) =>
                    Before(inbox, a, b) \/ Before(ms, a, b) \/ (a \in In(inbox) /\ b \in In(ms))
  <1> DEFINE c == inbox \o ms
  <1>1. inbox \in Seq(Messages)
    BY DEF Types
  <1>2. /\ c \in Seq(Messages)
        /\ In(c) = In(inbox) \union In(ms)
        /\ \A a, b : Before(c, a, b) =>
             Before(inbox, a, b) \/ Before(ms, a, b) \/ (a \in In(inbox) /\ b \in In(ms))
    BY <1>1, PutLast
  <1>3. Received(ms) = IF IsOpen THEN c ELSE inbox
    BY DEF Received
  <1> HIDE DEF c
  <1>4. QED
    BY <1>1, <1>2, <1>3

\* Setting what became of a key.
LEMMA KeySet ==
    ASSUME Types, NEW k \in Keys, NEW st \in {"putback", "dropped", "delivered"}
    PROVE  LET n == [keys EXCEPT ![k].st = st]
           IN  /\ n \in [Keys -> KeyStates]
               /\ n[k].st = st /\ n[k].failed = keys[k].failed
               /\ n[k].to = keys[k].to /\ n[k].stale = keys[k].stale
               /\ \A j \in Keys \ {k} : n[j] = keys[j]
  BY DEF Types, KeyStates

Settled(k, st, ret) == [keys EXCEPT ![k].st = st, ![k].failed = ret = "error"]

\* Setting what became of a key whose call is over.
LEMMA KeySettled ==
    ASSUME Types, NEW k \in Keys, NEW st \in {"putback", "dropped", "delivered"}, NEW ret
    PROVE  /\ Settled(k, st, ret) \in [Keys -> KeyStates]
           /\ Settled(k, st, ret)[k].st = st
           /\ ret = "error" => Settled(k, st, ret)[k].failed
           /\ Settled(k, st, ret)[k].to = keys[k].to
           /\ Settled(k, st, ret)[k].stale = keys[k].stale
           /\ \A j \in Keys \ {k} : Settled(k, st, ret)[j] = keys[j]
  BY DEF Types, KeyStates, Settled

\* A key that is in one place settles rightly.
LEMMA OneKeySettles ==
    ASSUME Types, Types', Used, NEW k \in Keys,
           \A j \in Keys \ {k} : keys'[j] = keys[j],
           keys'[k].to = keys[k].to, keys'[k].stale = keys[k].stale,
           keys'[k].st \in {"putback", "dropped", "delivered"},
           keys'[k].st = "dropped" => k \in consumed \/ keys'[k].failed,
           keys'[k].st \in {"putback", "delivered"} =>
             \/ keys'[k].failed
             \/ /\ k \notin consumed
                /\ \A r \in In(daemon.requests) : ~ (r.type = "key" /\ r.key = k),
           consumed' = consumed, daemon' = daemon,
           client'.proxy = client.proxy, client'.st = client.st,
           In(inbox') \subseteq In(inbox)
    PROVE  Used'
  <1>1. daemon.requests \in Seq(Requests) /\ inbox \in Seq(Messages)
    BY DEF Types, DaemonStates
  <1>2. \A r \in In(daemon.requests) : r.type = "key" => r.key \in Keys
    BY <1>1, InQueue, RequestFields
  <1>3. \A m \in In(inbox) : m.type = "answer" => m.key \in Keys
    BY <1>1, InQueue, MessageFields
  <1>4. KeyInOnePlace'
    <2>1. ASSUME NEW r \in In(daemon.requests), r.type = "key"
          PROVE  /\ keys'[r.key].st # "none"
                 /\ r.key \notin consumed
                 /\ Answer(r.key, "ignored") \notin In(inbox')
                 /\ keys'[r.key].st \in {"putback", "delivered"} => keys'[r.key].failed
      <3>1. CASE r.key = k
        BY <2>1, <3>1 DEF Used, KeyInOnePlace
      <3>2. CASE r.key # k
        <4>1. keys'[r.key] = keys[r.key]
          BY <1>2, <2>1, <3>2
        <4>2. QED
          BY <2>1, <4>1 DEF Used, KeyInOnePlace
      <3>3. QED
        BY <3>1, <3>2
    <2>2. ASSUME NEW m \in In(inbox'), m.type = "answer"
          PROVE  /\ keys'[m.key].st # "none"
                 /\ m.ret = "handled" => m.key \in consumed
                 /\ m.ret = "ignored" => m.key \notin consumed
      <3>1. m \in In(inbox) /\ m.key \in Keys
        BY <1>3, <2>2
      <3>2. QED
        BY <2>2, <3>1 DEF Used, KeyInOnePlace
    <2>3. \A j \in Keys : keys'[j].st = "none" => j \notin consumed
      BY DEF Used, KeyInOnePlace
    <2>4. \A r, q \in In(daemon.requests) :
            r.type = "key" /\ q.type = "key" /\ r.key = q.key => ~Before(daemon.requests, r, q)
      BY DEF Used, KeyInOnePlace
    <2>5. QED
      BY <2>1, <2>2, <2>3, <2>4 DEF KeyInOnePlace
  <1>5. KeyOfItsProxy'
    BY DEF Used, KeyOfItsProxy
  <1>6. KeysOnce'
    <2> SUFFICES ASSUME NEW j \in Keys
                 PROVE  /\ keys'[j].st \in {"putback", "delivered"} =>
                             j \notin consumed \/ keys'[j].failed
                        /\ keys'[j].st = "dropped" => j \in consumed \/ keys'[j].failed
                        /\ keys'[j].st = "cancelled" =>
                             keys'[j].to # daemon.up \/ keys'[j].stale \/ ~IsOpen
      BY DEF KeysOnce, IsOpen
    <2>1. CASE j = k
      BY <2>1
    <2>2. CASE j # k
      <3>1. keys'[j] = keys[j]
        BY <2>2
      <3>2. QED
        BY <3>1 DEF Used, KeysOnce
    <2>3. QED
      BY <2>1, <2>2
  <1>7. QED
    BY <1>4, <1>5, <1>6 DEF Used

\* The connection is as it was when nothing but keys, answers and the signals
\* of a context come or go.
LEMMA KeysOnlyBound ==
    ASSUME Types, Types', Bound, daemon' = daemon,
           client'.st = client.st, client'.proxy = client.proxy, client'.calls = client.calls,
           client'.ic = client.ic, client'.call \in {client.call, 0},
           ~IsOpen => inbox' = inbox,
           In(inbox') \subseteq In(inbox),
           \A m \in In(inbox) : m.type \in Notices => m \in In(inbox'),
           \A m, n : Before(inbox', m, n) => Before(inbox, m, n)
    PROVE  Bound'
  <1>1. daemon.up = Nobody => daemon'.ctx = <<>> /\ daemon'.requests = <<>>
    BY DEF Bound, Incarnations
  <1>2. \A id \in Nat : Mine(id) => Mine(id)'
    BY DEF Mine
  <1>3. ~IsOpen => inbox' = <<>>
    BY DEF Bound, ShutIsIdle
  <1>4. QED
    BY <1>1, <1>2, <1>3, QuietBound

\* PutBackKey: the event of a key nobody handled.
LEMMA PutBackKeeps ==
    ASSUME IInv, NEW k \in Keys, PutBackKey(k)
    PROVE  IInv'
  <1>1. Types /\ Bound /\ Used
    BY DEF IInv
  <1> DEFINE n == [keys EXCEPT ![k].st = "delivered"]
  <1>2. /\ n \in [Keys -> KeyStates]
        /\ n[k].st = "delivered" /\ n[k].failed = keys[k].failed
        /\ n[k].to = keys[k].to /\ n[k].stale = keys[k].stale
        /\ \A j \in Keys \ {k} : n[j] = keys[j]
    BY <1>1, KeySet
  <1>3. keys' = n /\ keys[k].st = "putback"
        /\ daemon' = daemon /\ client' = client /\ inbox' = inbox /\ consumed' = consumed
    BY DEF PutBackKey
  <1> HIDE DEF n
  <1>4. Types'
    BY <1>1, <1>2, <1>3 DEF Types
  <1>5. keys[k].failed \/ (k \notin consumed
                             /\ \A r \in In(daemon.requests) : ~ (r.type = "key" /\ r.key = k))
    BY <1>1, <1>3 DEF Used, KeysOnce, KeyInOnePlace
  <1>6. Used'
    BY <1>1, <1>2, <1>3, <1>4, <1>5, OneKeySettles
  <1>7. Bound'
    BY <1>1, <1>3, <1>4, KeysOnlyBound
  <1>8. QED
    BY <1>4, <1>6, <1>7 DEF IInv

\* TimeOut: libdbus gives up a call for a key, or CreateICv2.
LEMMA TimeOutKeeps ==
    ASSUME IInv, TimeOut
    PROVE  IInv'
  <1>1. Types /\ Bound /\ Used
    BY DEF IInv
  <1>2. daemon' = daemon /\ inbox' = inbox /\ consumed' = consumed
    BY DEF TimeOut
  <1>3. ASSUME NEW k \in Keys, Pending(k), NEW st \in {"putback", "dropped", "delivered"},
               keys' = [keys EXCEPT ![k].st = st, ![k].failed = TRUE],
               client' = [client EXCEPT !.waiting = 0]
        PROVE  IInv'
    <2> DEFINE n == Settled(k, st, "error")
    <2>1. /\ n \in [Keys -> KeyStates]
          /\ n[k].st = st /\ n[k].failed
          /\ n[k].to = keys[k].to /\ n[k].stale = keys[k].stale
          /\ \A j \in Keys \ {k} : n[j] = keys[j]
      BY <1>1, KeySettled
    <2>2. keys' = n
      <3>1. ("error" = "error") = TRUE
        OBVIOUS
      <3>2. QED
        BY <1>3, <3>1 DEF Settled
    <2> HIDE DEF n
    <2>3. /\ client' \in Clients
          /\ client'.st = client.st /\ client'.proxy = client.proxy
          /\ client'.calls = client.calls /\ client'.ic = client.ic /\ client'.call = client.call
      BY <1>1, <1>3 DEF Types, Clients
    <2>4. Types'
      BY <1>1, <1>2, <2>1, <2>2, <2>3 DEF Types
    <2>5. Used'
      BY <1>1, <1>2, <2>1, <2>2, <2>3, <2>4, OneKeySettles
    <2>6. Bound'
      BY <1>1, <1>2, <2>3, <2>4, KeysOnlyBound
    <2>7. QED
      BY <2>4, <2>5, <2>6 DEF IInv
  <1>4. ASSUME client' = [client EXCEPT !.call = 0, !.failed = TRUE, !.enable = FALSE],
               keys' = keys
        PROVE  IInv'
    <2>1. /\ client' \in Clients
          /\ client'.st = client.st /\ client'.proxy = client.proxy
          /\ client'.calls = client.calls /\ client'.ic = client.ic /\ client'.call = 0
      BY <1>1, <1>4 DEF Types, Clients
    <2>2. Types'
      BY <1>1, <1>2, <1>4, <2>1 DEF Types
    <2>3. Used'
      BY <1>1, <1>2, <1>4, <2>1, <2>2, StateFields, QuietKeys
    <2>4. Bound'
      BY <1>1, <1>2, <2>1, <2>2, KeysOnlyBound
    <2>5. QED
      BY <2>2, <2>3, <2>4 DEF IInv
  <1>5. \/ \E k \in Keys : \E st \in {"putback", "dropped", "delivered"} :
             /\ Pending(k) /\ keys' = [keys EXCEPT ![k].st = st, ![k].failed = TRUE]
             /\ client' = [client EXCEPT !.waiting = 0]
        \/ /\ client' = [client EXCEPT !.call = 0, !.failed = TRUE, !.enable = FALSE]
           /\ keys' = keys
    BY DEF TimeOut
  <1>6. QED
    BY <1>3, <1>4, <1>5

\* An answer the client has tells whether the daemon handled the key.
LEMMA AnswerTells ==
    ASSUME Types, Used, NEW m \in In(inbox), m.type = "answer"
    PROVE  /\ m \in Messages /\ m.key \in Keys /\ m.ret \in {"handled", "ignored", "error"}
           /\ m.ret = "handled" => m.key \in consumed
           /\ m.ret = "ignored" =>
                /\ m.key \notin consumed
                /\ \A r \in In(daemon.requests) : ~ (r.type = "key" /\ r.key = m.key)
  <1>1. m \in Messages
    BY InQueue DEF Types
  <1>2. m.key \in Keys /\ m.ret \in {"handled", "ignored", "error"} /\ m = Answer(m.key, m.ret)
    BY <1>1, MessageFields
  <1>3. /\ m.ret = "handled" => m.key \in consumed
        /\ m.ret = "ignored" => m.key \notin consumed
    BY DEF Used, KeyInOnePlace
  <1>4. ASSUME m.ret = "ignored", NEW r \in In(daemon.requests), r.type = "key", r.key = m.key
        PROVE  FALSE
    BY <1>2, <1>4 DEF Used, KeyInOnePlace
  <1>5. QED
    BY <1>1, <1>2, <1>3, <1>4

\* ProcessKeySync: the answer to a blocking call, or the error of the bus.
LEMMA SyncKeeps ==
    ASSUME IInv, ProcessKeySync
    PROVE  IInv'
  <1>1. Types /\ Bound /\ Used
    BY DEF IInv
  <1> DEFINE w == client.waiting
  <1>2. /\ daemon' = daemon /\ consumed' = consumed
        /\ client' = [client EXCEPT !.waiting = 0] /\ w # 0
    BY DEF ProcessKeySync
  <1>3. /\ client' \in Clients
        /\ client'.st = client.st /\ client'.proxy = client.proxy
        /\ client'.calls = client.calls /\ client'.ic = client.ic /\ client'.call = client.call
    BY <1>1, <1>2 DEF Types, Clients
  <1>4. ASSUME NEW k \in Keys, NEW st \in {"dropped", "delivered"}, NEW ret,
               keys' = Settled(k, st, ret),
               st = "dropped" => k \in consumed \/ ret = "error",
               st = "delivered" =>
                 \/ ret = "error"
                 \/ /\ k \notin consumed
                    /\ \A r \in In(daemon.requests) : ~ (r.type = "key" /\ r.key = k),
               inbox' \in Seq(Messages), In(inbox') \subseteq In(inbox),
               ~IsOpen => inbox' = inbox,
               \A m \in In(inbox) : m.type \in Notices => m \in In(inbox'),
               \A m, n : Before(inbox', m, n) => Before(inbox, m, n)
        PROVE  IInv'
    <2> DEFINE n == Settled(k, st, ret)
    <2>1. /\ n \in [Keys -> KeyStates]
          /\ n[k].st = st /\ (ret = "error" => n[k].failed)
          /\ n[k].to = keys[k].to /\ n[k].stale = keys[k].stale
          /\ \A j \in Keys \ {k} : n[j] = keys[j]
      <3>1. st \in {"putback", "dropped", "delivered"}
        OBVIOUS
      <3>2. QED
        BY <1>1, <3>1, KeySettled
    <2>2. keys' = n
      BY <1>4
    <2> HIDE DEF n
    <2>3. Types'
      BY <1>1, <1>2, <1>3, <1>4, <2>1, <2>2 DEF Types
    <2>4. Used'
      <3>1. /\ keys'[k].st \in {"putback", "dropped", "delivered"}
            /\ keys'[k].st = "dropped" => k \in consumed \/ keys'[k].failed
            /\ keys'[k].st \in {"putback", "delivered"} =>
                 \/ keys'[k].failed
                 \/ /\ k \notin consumed
                    /\ \A r \in In(daemon.requests) : ~ (r.type = "key" /\ r.key = k)
        BY <1>4, <2>1, <2>2
      <3>2. In(inbox') \subseteq In(inbox)
        BY <1>4
      <3>3. QED
        BY <1>1, <1>2, <1>3, <2>1, <2>2, <2>3, <3>1, <3>2, OneKeySettles
    <2>5. Bound'
      BY <1>1, <1>2, <1>3, <1>4, <2>3, KeysOnlyBound
    <2>6. QED
      BY <2>3, <2>4, <2>5 DEF IInv
  <1>5. CASE /\ w \in Keys
             /\ keys' = [keys EXCEPT ![w].st = "delivered", ![w].failed = TRUE]
             /\ inbox' = inbox
    <2>1. inbox \in Seq(Messages)
      BY <1>1 DEF Types
    <2>2. keys' = Settled(w, "delivered", "error")
      <3>1. ("error" = "error") = TRUE
        OBVIOUS
      <3>2. QED
        BY <1>5, <3>1 DEF Settled
    <2>3. QED
      BY <1>4, <1>5, <2>1, <2>2
  <1>6. ASSUME NEW i \in DOMAIN inbox, inbox[i].type = "answer", inbox[i].key = w,
               keys' = [keys EXCEPT ![w].st = IF inbox[i].ret = "handled" THEN "dropped"
                                                                          ELSE "delivered",
                                    ![w].failed = inbox[i].ret = "error"],
               inbox' = SubSeq(inbox, 1, i - 1) \o SubSeq(inbox, i + 1, Len(inbox))
        PROVE  IInv'
    <2> DEFINE m == inbox[i]
               st == IF m.ret = "handled" THEN "dropped" ELSE "delivered"
    <2>1. m \in In(inbox) /\ inbox \in Seq(Messages)
      BY <1>1 DEF In, Types
    <2>2. m.type = "answer" /\ m.key = w
      BY <1>6
    <2>3. /\ inbox' \in Seq(Messages) /\ In(inbox') \subseteq In(inbox)
          /\ In(inbox) \subseteq In(inbox') \union {m}
          /\ \A a, b : Before(inbox', a, b) => Before(inbox, a, b)
      BY <1>6, <2>1, TakeOut
    <2>4. keys' = Settled(w, st, m.ret)
      BY <1>6 DEF Settled
    <2> HIDE DEF m
    <2>5. /\ w \in Keys /\ m.ret \in {"handled", "ignored", "error"}
          /\ m.ret = "handled" => w \in consumed
          /\ m.ret = "ignored" =>
               /\ w \notin consumed
               /\ \A r \in In(daemon.requests) : ~ (r.type = "key" /\ r.key = w)
      <3>1. /\ m.key \in Keys /\ m.ret \in {"handled", "ignored", "error"}
            /\ m.ret = "handled" => m.key \in consumed
            /\ m.ret = "ignored" =>
                 /\ m.key \notin consumed
                 /\ \A r \in In(daemon.requests) : ~ (r.type = "key" /\ r.key = m.key)
        BY <1>1, <2>1, <2>2, AnswerTells
      <3>2. QED
        BY <2>2, <3>1
    <2>6. /\ st \in {"dropped", "delivered"}
          /\ st = "dropped" => w \in consumed \/ m.ret = "error"
          /\ st = "delivered" =>
               \/ m.ret = "error"
               \/ /\ w \notin consumed
                  /\ \A r \in In(daemon.requests) : ~ (r.type = "key" /\ r.key = w)
      BY <2>5
    <2> HIDE DEF st
    <2>7. \A n \in In(inbox) : n.type \in Notices => n \in In(inbox')
      BY <2>2, <2>3 DEF Notices
    <2>8. IsOpen
      <3>1. inbox # <<>>
        BY <1>6
      <3>2. QED
        BY <1>1, <3>1 DEF Bound, ShutIsIdle
    <2>9. QED
      BY <1>4, <2>3, <2>4, <2>5, <2>6, <2>7, <2>8
  <1>7. QED
    BY <1>5, <1>6 DEF ProcessKeySync

\* FilterKeypress: a key is sent to the context, or goes on to the application.
LEMMA FilterKeeps ==
    ASSUME IInv, NEW k \in Keys, NEW trigger \in BOOLEAN, FilterKeypress(k, trigger)
    PROVE  IInv'
  <1>1. Types /\ Bound /\ Used
    BY DEF IInv
  <1>2. IsOpen /\ keys[k].st = "none" /\ inbox' = inbox /\ consumed' = consumed
    BY DEF FilterKeypress
  <1>3. /\ k \notin consumed
        /\ \A r \in In(daemon.requests) : ~ (r.type = "key" /\ r.key = k)
        /\ \A m \in In(inbox) : ~ (m.type = "answer" /\ m.key = k)
    BY <1>1, <1>2 DEF Used, KeyInOnePlace
  <1> DEFINE ic == client.ic
             new == [st |-> IF client.sync THEN "waiting" ELSE "pending",
                     to |-> ic.owner, failed |-> FALSE, stale |-> ic.owner # client.proxy]
             r == [type |-> "key", id |-> ic.id, key |-> k, trigger |-> trigger]
             d == ToDaemon(ic.owner, r)
  <1>4. CASE /\ Valid(client) /\ keys' = [keys EXCEPT ![k] = new]
             /\ client' = [client EXCEPT !.waiting = IF client.sync THEN k ELSE 0]
             /\ daemon' = d
    <2>1. /\ ic.owner \in 1 .. daemon.lives /\ ic.id \in Nat /\ ic.owner \in Nat
          /\ ic.owner = client.proxy /\ client.proxy = daemon.up =>
               Name(daemon.up) \notin In(inbox)
      BY <1>1, <1>4, StateFields DEF Valid, Bound, NamedFirst
    <2>2. r \in Requests /\ r.type = "key" /\ r.key = k
      BY <2>1 DEF Requests
    <2>3. /\ new.st \in {"waiting", "pending"} /\ new.to = ic.owner
          /\ new.failed = FALSE /\ new.stale = (ic.owner # client.proxy) /\ new \in KeyStates
      BY <2>1 DEF KeyStates
    <2> HIDE DEF r
    <2>4. /\ d \in DaemonStates /\ d.up = daemon.up /\ d.lives = daemon.lives
          /\ d.ctx = daemon.ctx
          /\ d.requests = Append(daemon.requests, r) \/ d.requests = daemon.requests
      BY <1>1, <2>1, <2>2, SentTo
    <2>5. /\ In(d.requests) \subseteq In(daemon.requests) \union {r}
          /\ \A a, b : Before(d.requests, a, b) =>
               Before(daemon.requests, a, b) \/ (a \in In(daemon.requests) /\ b = r)
      <3>1. daemon.requests \in Seq(Requests)
        BY <1>1, StateFields
      <3>2. CASE d.requests = daemon.requests
        BY <3>2
      <3>3. CASE d.requests = Append(daemon.requests, r)
        BY <2>2, <3>1, <3>3, PutOne
      <3>4. QED
        BY <2>4, <3>2, <3>3
    <2> HIDE DEF d, new
    <2>6. /\ keys' \in [Keys -> KeyStates] /\ keys'[k] = new
          /\ \A j \in Keys \ {k} : keys'[j] = keys[j]
      BY <1>1, <1>4, <2>3 DEF Types
    <2>7. /\ client' \in Clients
          /\ client'.st = client.st /\ client'.proxy = client.proxy /\ client'.ic = client.ic
          /\ client'.call = client.call /\ client'.calls = client.calls
      <3>1. (IF client.sync THEN k ELSE 0) \in Nat
        BY ConnectionAssumption DEF Keys
      <3>2. QED
        BY <1>1, <1>4, <3>1 DEF Types, Clients
    <2>8. daemon' = d
      BY <1>4
    <2>9. Types'
      BY <1>1, <1>2, <2>4, <2>6, <2>7, <2>8 DEF Types
    <2>10. Bound'
      <3>1. daemon.up = Nobody => daemon'.ctx = <<>> /\ daemon'.requests = <<>>
        <4>1. daemon.up = Nobody => daemon.ctx = <<>> /\ d.requests = daemon.requests
                                      /\ daemon.requests = <<>>
          <5>1. daemon.up = Nobody => ic.owner # daemon.up
            BY <2>1 DEF Nobody
          <5>2. ic.owner # daemon.up => d.requests = daemon.requests
            BY <1>1, <2>1, <2>2, SentTo DEF d
          <5>3. QED
            BY <1>1, <5>1, <5>2 DEF Bound, Incarnations
        <4>2. QED
          BY <2>4, <2>8, <4>1
      <3>2. \A q \in In(daemon'.requests) : q.type # "key" => q \in In(daemon.requests)
        BY <2>2, <2>5, <2>8
      <3>3. \A id \in Nat : Mine(id) => Mine(id)'
        BY <2>4, <2>8 DEF Mine
      <3>4. QED
        BY <1>1, <1>2, <2>4, <2>7, <2>8, <2>9, <3>1, <3>2, <3>3, QuietBound
    <2>11. KeyInOnePlace'
      <3>1. ASSUME NEW q \in In(d.requests), q.type = "key"
            PROVE  /\ keys'[q.key].st # "none"
                   /\ q.key \notin consumed
                   /\ Answer(q.key, "ignored") \notin In(inbox)
                   /\ keys'[q.key].st \in {"putback", "delivered"} => keys'[q.key].failed
        <4>1. CASE q = r
          <5>1. q.key = k /\ Answer(k, "ignored") \notin In(inbox)
            BY <1>3, <2>2, <4>1, MessageTypes
          <5>2. QED
            BY <1>3, <2>3, <2>6, <5>1
        <4>2. CASE q # r
          <5>1. q \in In(daemon.requests) /\ q.key # k /\ q.key \in Keys
            <6>1. q \in In(daemon.requests)
              BY <2>5, <3>1, <4>2
            <6>2. q \in Requests
              BY <1>1, <6>1, InQueue, StateFields
            <6>3. QED
              BY <1>3, <3>1, <6>1, <6>2, RequestFields
          <5>2. keys'[q.key] = keys[q.key]
            BY <2>6, <5>1
          <5>3. QED
            BY <1>1, <3>1, <5>1, <5>2 DEF Used, KeyInOnePlace
        <4>3. QED
          BY <4>1, <4>2
      <3>2. ASSUME NEW p \in In(d.requests), NEW q \in In(d.requests), p.type = "key",
                   q.type = "key", p.key = q.key, Before(d.requests, p, q)
            PROVE  FALSE
        <4>1. CASE Before(daemon.requests, p, q)
          <5>1. p \in In(daemon.requests) /\ q \in In(daemon.requests)
            BY <4>1 DEF Before, In
          <5>2. QED
            BY <1>1, <3>2, <4>1, <5>1 DEF Used, KeyInOnePlace
        <4>2. CASE p \in In(daemon.requests) /\ q = r
          BY <1>3, <2>2, <3>2, <4>2
        <4>3. QED
          BY <2>5, <3>2, <4>1, <4>2
      <3>3. ASSUME NEW m \in In(inbox), m.type = "answer"
            PROVE  /\ keys'[m.key].st # "none"
                   /\ m.ret = "handled" => m.key \in consumed
                   /\ m.ret = "ignored" => m.key \notin consumed
        <4>1. m.key \in Keys /\ m.key # k
          BY <1>1, <1>3, <3>3, AnswerTells
        <4>2. keys'[m.key] = keys[m.key]
          BY <2>6, <4>1
        <4>3. QED
          BY <1>1, <3>3, <4>2 DEF Used, KeyInOnePlace
      <3>4. \A j \in Keys : keys'[j].st = "none" => j \notin consumed
        BY <1>1, <1>3, <2>6 DEF Used, KeyInOnePlace
      <3>5. QED
        BY <1>2, <2>8, <3>1, <3>2, <3>3, <3>4 DEF KeyInOnePlace
    <2>12. KeyOfItsProxy'
      <3> SUFFICES ASSUME NEW j \in Keys
                   PROVE  /\ keys'[j].to <= daemon.lives
                          /\ keys'[j].st \in {"pending", "cancelled"} => keys'[j].to # Nobody
                          /\ keys'[j].st = "pending" /\ ~keys'[j].stale =>
                               /\ keys'[j].to = client.proxy
                               /\ keys'[j].to = daemon.up => Name(daemon.up) \notin In(inbox)
                          /\ keys'[j].st = "cancelled" => client.st # "new"
        BY <1>2, <2>4, <2>7, <2>8 DEF KeyOfItsProxy
      <3>1. CASE j = k
        <4>1. ic.owner <= daemon.lives /\ ic.owner # Nobody
          BY <1>1, <2>1, StateFields DEF Nobody
        <4>2. ~keys'[k].stale => ic.owner = client.proxy
          BY <2>3, <2>6
        <4>3. QED
          BY <2>1, <2>3, <2>6, <3>1, <4>1, <4>2
      <3>2. CASE j # k
        <4>1. keys'[j] = keys[j]
          BY <2>6, <3>2
        <4>2. QED
          BY <1>1, <4>1 DEF Used, KeyOfItsProxy
      <3>3. QED
        BY <3>1, <3>2
    <2>13. KeysOnce'
      <3> SUFFICES ASSUME NEW j \in Keys
                   PROVE  /\ keys'[j].st \in {"putback", "delivered"} =>
                               j \notin consumed \/ keys'[j].failed
                          /\ keys'[j].st = "dropped" => j \in consumed \/ keys'[j].failed
                          /\ keys'[j].st = "cancelled" =>
                               keys'[j].to # daemon.up \/ keys'[j].stale \/ ~IsOpen
        BY <1>2, <2>4, <2>7, <2>8 DEF KeysOnce, IsOpen
      <3>1. CASE j = k
        BY <2>3, <2>6, <3>1
      <3>2. CASE j # k
        <4>1. keys'[j] = keys[j]
          BY <2>6, <3>2
        <4>2. QED
          BY <1>1, <4>1 DEF Used, KeysOnce
      <3>3. QED
        BY <3>1, <3>2
    <2>14. QED
      BY <2>9, <2>10, <2>11, <2>12, <2>13 DEF IInv, Used
  <1>5. CASE keys' = [keys EXCEPT ![k].st = "delivered"] /\ client' = client /\ daemon' = daemon
    <2> DEFINE n == [keys EXCEPT ![k].st = "delivered"]
    <2>1. /\ n \in [Keys -> KeyStates]
          /\ n[k].st = "delivered" /\ n[k].failed = keys[k].failed
          /\ n[k].to = keys[k].to /\ n[k].stale = keys[k].stale
          /\ \A j \in Keys \ {k} : n[j] = keys[j]
      BY <1>1, KeySet
    <2>2. keys' = n
      BY <1>5
    <2> HIDE DEF n
    <2>3. Types'
      BY <1>1, <1>2, <1>5, <2>1, <2>2 DEF Types
    <2>4. Used'
      BY <1>1, <1>2, <1>3, <1>5, <2>1, <2>2, <2>3, OneKeySettles
    <2>5. Bound'
      BY <1>1, <1>2, <1>5, <2>3, KeysOnlyBound
    <2>6. QED
      BY <2>3, <2>4, <2>5 DEF IInv
  <1>6. QED
    BY <1>4, <1>5 DEF FilterKeypress

\* Dispatch of the answer to a key.
LEMMA AnswerKeeps ==
    ASSUME IInv, inbox # <<>>, IsOpen, Head(inbox).type = "answer", KeyAnswered(Head(inbox)),
           inbox' = Tail(inbox), consumed' = consumed
    PROVE  IInv'
  <1> DEFINE m == Head(inbox)
             k == m.key
  <1>1. Types /\ Bound /\ Used /\ inbox \in Seq(Messages)
    BY DEF IInv, Types
  <1>2. /\ m \in In(inbox) /\ Tail(inbox) \in Seq(Messages)
        /\ In(inbox) = {m} \union In(Tail(inbox))
        /\ \A a, b : Before(Tail(inbox), a, b) => Before(inbox, a, b)
    BY <1>1, TakeFirst
  <1>3. m.type = "answer" /\ client' = client /\ daemon' = daemon
    BY DEF KeyAnswered
  <1>4. \/ keys' = keys
        \/ \E ret \in {"handled", "ignored"} :
             /\ m.ret = "error" \/ ret = m.ret
             /\ keys' = Settled(k, IF ret = "ignored" THEN "putback" ELSE "dropped", m.ret)
    <2>1. KeyAnswered(m)
      OBVIOUS
    <2>2. PICK ret \in IF m.ret = "error" THEN {"handled", "ignored"} ELSE {m.ret} :
            keys' = IF keys[m.key].st # "pending" THEN keys
                    ELSE [keys EXCEPT ![m.key].st =
                            IF ret = "ignored" THEN "putback" ELSE "dropped",
                                      ![m.key].failed = m.ret = "error"]
      BY <2>1 DEF KeyAnswered
    <2>3. ret \in {"handled", "ignored"} /\ (m.ret = "error" \/ ret = m.ret)
      BY <1>1, <1>2, <1>3, AnswerTells
    <2>4. QED
      BY <2>2, <2>3 DEF Settled
  <1> HIDE DEF m
  <1>5. /\ k \in Keys
        /\ m.ret = "handled" => k \in consumed
        /\ m.ret = "ignored" =>
             /\ k \notin consumed
             /\ \A r \in In(daemon.requests) : ~ (r.type = "key" /\ r.key = k)
    BY <1>1, <1>2, <1>3, AnswerTells
  <1> HIDE DEF k
  <1>6. In(inbox') \subseteq In(inbox) /\ \A n \in In(inbox) : n.type \in Notices => n \in In(inbox')
    BY <1>2, <1>3 DEF Notices
  <1>7. ASSUME Types'  PROVE Bound'
    BY <1>1, <1>2, <1>3, <1>6, <1>7, KeysOnlyBound
  <1>8. CASE keys' = keys
    <2>1. Types'
      BY <1>1, <1>2, <1>3, <1>8 DEF Types
    <2>2. Used'
      BY <1>1, <1>3, <1>6, <1>8, <2>1, StateFields, QuietKeys
    <2>3. QED
      BY <1>7, <2>1, <2>2 DEF IInv
  <1>9. ASSUME NEW ret \in {"handled", "ignored"}, m.ret = "error" \/ ret = m.ret,
               keys' = Settled(k, IF ret = "ignored" THEN "putback" ELSE "dropped", m.ret)
        PROVE  IInv'
    <2> DEFINE st == IF ret = "ignored" THEN "putback" ELSE "dropped"
               n == Settled(k, st, m.ret)
    <2>1. st \in {"putback", "dropped", "delivered"} /\ st \in {"putback", "dropped"}
      OBVIOUS
    <2>2. /\ st = "dropped" => m.ret = "error" \/ k \in consumed
          /\ st = "putback" =>
               \/ m.ret = "error"
               \/ /\ k \notin consumed
                  /\ \A r \in In(daemon.requests) : ~ (r.type = "key" /\ r.key = k)
      BY <1>5, <1>9
    <2> HIDE DEF st
    <2>3. /\ n \in [Keys -> KeyStates]
          /\ n[k].st = st /\ (m.ret = "error" => n[k].failed)
          /\ n[k].to = keys[k].to /\ n[k].stale = keys[k].stale
          /\ \A j \in Keys \ {k} : n[j] = keys[j]
      BY <1>1, <1>5, <2>1, KeySettled
    <2>4. keys' = n
      BY <1>9 DEF st
    <2> HIDE DEF n
    <2>5. Types'
      BY <1>1, <1>2, <1>3, <2>3, <2>4 DEF Types
    <2>6. Used'
      <3>1. /\ keys'[k].st \in {"putback", "dropped", "delivered"}
            /\ keys'[k].st = "dropped" => k \in consumed \/ keys'[k].failed
            /\ keys'[k].st \in {"putback", "delivered"} =>
                 \/ keys'[k].failed
                 \/ /\ k \notin consumed
                    /\ \A r \in In(daemon.requests) : ~ (r.type = "key" /\ r.key = k)
        BY <2>1, <2>2, <2>3, <2>4
      <3>2. QED
        BY <1>1, <1>3, <1>5, <1>6, <2>3, <2>4, <2>5, <3>1, OneKeySettles
    <2>7. QED
      BY <1>7, <2>5, <2>6 DEF IInv
  <1>10. QED
    BY <1>4, <1>8, <1>9

\* Dispatch of the signals of a context.
LEMMA SignalKeeps ==
    ASSUME IInv, inbox # <<>>, IsOpen, Head(inbox).type \in {"EnableIM", "CloseIM"},
           Switched(Head(inbox)), inbox' = Tail(inbox), consumed' = consumed
    PROVE  IInv'
  <1> DEFINE m == Head(inbox)
  <1>1. Types /\ Bound /\ Used /\ inbox \in Seq(Messages)
    BY DEF IInv, Types
  <1>2. /\ m \in In(inbox) /\ Tail(inbox) \in Seq(Messages)
        /\ In(inbox) = {m} \union In(Tail(inbox))
        /\ \A a, b : Before(Tail(inbox), a, b) => Before(inbox, a, b)
    BY <1>1, TakeFirst
  <1>3. keys' = keys /\ daemon' = daemon
        /\ (client' = client \/ client' = [client EXCEPT !.enable = TRUE])
    BY DEF Switched
  <1>4. /\ client' \in Clients
        /\ client'.st = client.st /\ client'.proxy = client.proxy /\ client'.ic = client.ic
        /\ client'.call = client.call /\ client'.calls = client.calls
    BY <1>1, <1>3 DEF Types, Clients
  <1>5. In(inbox') \subseteq In(inbox) /\ \A n \in In(inbox) : n.type \in Notices => n \in In(inbox')
    BY <1>2 DEF Notices
  <1>6. Types'
    BY <1>1, <1>2, <1>3, <1>4 DEF Types
  <1>7. Used'
    BY <1>1, <1>3, <1>4, <1>5, <1>6, StateFields, QuietKeys
  <1>8. Bound'
    BY <1>1, <1>2, <1>3, <1>4, <1>5, <1>6, KeysOnlyBound
  <1>9. QED
    BY <1>6, <1>7, <1>8 DEF IInv

-----------------------------------------------------------------------------
(* The daemon. *)

\* What is before another is in the queue, and so is the other.
LEMMA BeforeIn ==
    \A s, a, b : Before(s, a, b) => a \in In(s) /\ b \in In(s)
  BY DEF Before, In

\* A context is added, a context is set.
LEMMA ContextAdded ==
    ASSUME NEW d \in DaemonStates, NEW c \in Contexts
    PROVE  LET e == [d EXCEPT !.ctx = Append(@, c)]
           IN  /\ e \in DaemonStates /\ e.up = d.up /\ e.lives = d.lives
               /\ e.requests = d.requests /\ Len(e.ctx) = Len(d.ctx) + 1
               /\ \A i \in 1 .. Len(d.ctx) : e.ctx[i] = d.ctx[i]
               /\ e.ctx[Len(d.ctx) + 1] = c
               /\ Len(d.ctx) \in Nat
  <1> DEFINE x == Append(d.ctx, c)
             e == [d EXCEPT !.ctx = x]
  <1>1. d.ctx \in Seq(Contexts)
    BY DEF DaemonStates
  <1>2. /\ x \in Seq(Contexts) /\ Len(x) = Len(d.ctx) + 1 /\ Len(d.ctx) \in Nat
        /\ \A i \in 1 .. Len(d.ctx) : x[i] = d.ctx[i]
        /\ x[Len(d.ctx) + 1] = c
    BY <1>1
  <1> HIDE DEF x
  <1>3. e \in DaemonStates /\ e.up = d.up /\ e.lives = d.lives /\ e.requests = d.requests
        /\ e.ctx = x
    BY <1>2 DEF DaemonStates
  <1> HIDE DEF e
  <1>4. QED
    BY <1>2, <1>3 DEF e, x

\* Switching a context leaves whose it is.
LEMMA ContextSwitched ==
    ASSUME NEW d \in DaemonStates, NEW i \in 1 .. Len(d.ctx), NEW on, on \in BOOLEAN
    PROVE  LET e == [d EXCEPT !.ctx[i].on = on]
           IN  /\ e \in DaemonStates /\ e.up = d.up /\ e.lives = d.lives
               /\ e.requests = d.requests /\ Len(e.ctx) = Len(d.ctx)
               /\ \A j \in 1 .. Len(d.ctx) :
                    e.ctx[j].by = d.ctx[j].by /\ e.ctx[j].alive = d.ctx[j].alive
  <1> DEFINE c == [d.ctx[i] EXCEPT !.on = on]
             x == [d.ctx EXCEPT ![i] = c]
             e == [d EXCEPT !.ctx = x]
  <1>1. d.ctx \in Seq(Contexts) /\ d.ctx[i] \in Contexts
    BY DEF DaemonStates
  <1>2. c \in Contexts /\ c.by = d.ctx[i].by /\ c.alive = d.ctx[i].alive
    BY <1>1 DEF Contexts
  <1> HIDE DEF c
  <1>3. /\ x \in Seq(Contexts) /\ Len(x) = Len(d.ctx)
        /\ \A j \in 1 .. Len(d.ctx) : x[j] = IF j = i THEN c ELSE d.ctx[j]
    BY <1>1, <1>2
  <1> HIDE DEF x
  <1>4. e \in DaemonStates /\ e.up = d.up /\ e.lives = d.lives /\ e.requests = d.requests
        /\ e.ctx = x
    BY <1>3 DEF DaemonStates
  <1>5. [d EXCEPT !.ctx[i].on = on] = e
    BY DEF e, x, c
  <1> HIDE DEF e
  <1>6. QED
    BY <1>2, <1>3, <1>4, <1>5

\* Destroying one.
LEMMA ContextDropped ==
    ASSUME NEW d \in DaemonStates, NEW i \in 1 .. Len(d.ctx)
    PROVE  LET e == [d EXCEPT !.ctx[i].alive = FALSE]
           IN  /\ e \in DaemonStates /\ e.up = d.up /\ e.lives = d.lives
               /\ e.requests = d.requests
  <1> DEFINE c == [d.ctx[i] EXCEPT !.alive = FALSE]
             x == [d.ctx EXCEPT ![i] = c]
             e == [d EXCEPT !.ctx = x]
  <1>1. d.ctx \in Seq(Contexts) /\ d.ctx[i] \in Contexts
    BY DEF DaemonStates
  <1>2. c \in Contexts
    BY <1>1 DEF Contexts
  <1> HIDE DEF c
  <1>3. x \in Seq(Contexts)
    BY <1>1, <1>2
  <1> HIDE DEF x
  <1>4. e \in DaemonStates /\ e.up = d.up /\ e.lives = d.lives /\ e.requests = d.requests
    BY <1>3 DEF DaemonStates
  <1>5. [d EXCEPT !.ctx[i].alive = FALSE] = e
    BY DEF e, x, c
  <1> HIDE DEF e
  <1>6. QED
    BY <1>4, <1>5

\* The contexts of the client survive when others are added and switched.
LEMMA MineStays ==
    ASSUME Types, NEW id \in Nat, Mine(id), daemon'.ctx \in Seq(Contexts),
           Len(daemon.ctx) <= Len(daemon'.ctx),
           \A j \in 1 .. Len(daemon.ctx) : /\ daemon'.ctx[j].by = daemon.ctx[j].by
                                           /\ daemon'.ctx[j].alive = daemon.ctx[j].alive
    PROVE  Mine(id)'
  <1> DEFINE l == Len(daemon.ctx)
             n == Len(daemon'.ctx)
  <1>1. l \in Nat /\ n \in Nat
    BY StateFields
  <1>2. id < l /\ l <= n
    BY DEF Mine
  <1> HIDE DEF l, n
  <1>3. id < n /\ id + 1 \in 1 .. l
    BY <1>1, <1>2
  <1>4. QED
    BY <1>3 DEF Mine, l, n

\* The signal of a context, if the client can hear it.
LEMMA SignalledFacts ==
    ASSUME Types, NEW name \in {"EnableIM", "CloseIM"}, NEW id \in Nat
    PROVE  /\ Signalled(name, id) \in Seq(Messages)
           /\ \A m \in In(Signalled(name, id)) : m.type \in {"EnableIM", "CloseIM"}
  <1> DEFINE ic == [owner |-> daemon.up, id |-> id]
             m == Signal(name, ic)
  <1>1. ic \in ICs
    BY StateFields DEF ICs
  <1> HIDE DEF ic
  <1>2. m \in Messages /\ m.type = name
    BY <1>1, MessagesMade, MessageTypes
  <1> HIDE DEF m
  <1>3. <<m>> \in Seq(Messages) /\ In(<<m>>) = {m}
    BY <1>2, ShortQueues
  <1>4. <<>> \in Seq(Messages) /\ In(<<>>) = {}
    BY ShortQueues
  <1>5. Signalled(name, id) = <<m>> \/ Signalled(name, id) = <<>>
    BY DEF Signalled, m, ic
  <1>6. QED
    BY <1>2, <1>3, <1>4, <1>5

\* OtherCreates: a context of another program.
LEMMA OtherKeeps ==
    ASSUME IInv, OtherCreates
    PROVE  IInv'
  <1>1. Types /\ Bound /\ Used /\ daemon \in DaemonStates
    BY DEF IInv, Types
  <1>2. /\ daemon' = [daemon EXCEPT !.ctx = Append(@, Context("other", FALSE))]
        /\ client' = client /\ inbox' = inbox /\ keys' = keys /\ consumed' = consumed
        /\ daemon.up # Nobody
    BY DEF OtherCreates
  <1>3. Context("other", FALSE) \in Contexts
    BY DEF Context, Contexts
  <1>4. /\ daemon' \in DaemonStates /\ daemon'.up = daemon.up /\ daemon'.lives = daemon.lives
        /\ daemon'.requests = daemon.requests /\ Len(daemon'.ctx) = Len(daemon.ctx) + 1
        /\ \A i \in 1 .. Len(daemon.ctx) : daemon'.ctx[i] = daemon.ctx[i]
        /\ Len(daemon.ctx) \in Nat
    BY <1>1, <1>2, <1>3, ContextAdded
  <1>5. Types'
    BY <1>1, <1>2, <1>4 DEF Types
  <1>6. \A id \in Nat : Mine(id) => Mine(id)'
    <2>1. Len(daemon.ctx) <= Len(daemon'.ctx) /\ daemon'.ctx \in Seq(Contexts)
      BY <1>4 DEF DaemonStates
    <2>2. QED
      BY <1>1, <1>4, <2>1, MineStays
  <1>7. Bound'
    BY <1>1, <1>2, <1>4, <1>5, <1>6, QuietBound DEF Bound, ShutIsIdle
  <1>8. Used'
    BY <1>1, <1>2, <1>4, <1>5, StateFields, QuietKeys
  <1>9. QED
    BY <1>5, <1>7, <1>8 DEF IInv

\* ToggleElsewhere: a context is switched by the user.
LEMMA ToggleKeeps ==
    ASSUME IInv, NEW id \in 0 .. (Len(daemon.ctx) - 1), ToggleElsewhere(id)
    PROVE  IInv'
  <1>1. Types /\ Bound /\ Used /\ daemon \in DaemonStates /\ daemon.ctx \in Seq(Contexts)
    BY StateFields DEF IInv, Types
  <1> DEFINE on == ~daemon.ctx[id + 1].on
             ms == Signalled(IF on THEN "EnableIM" ELSE "CloseIM", id)
  <1>2. /\ daemon' = [daemon EXCEPT !.ctx[id + 1].on = on] /\ inbox' = Received(ms)
        /\ client' = client /\ keys' = keys /\ consumed' = consumed
    BY DEF ToggleElsewhere
  <1>3. id + 1 \in 1 .. Len(daemon.ctx) /\ id \in Nat
    BY <1>1
  <1>4. on \in BOOLEAN
    OBVIOUS
  <1> HIDE DEF on
  <1>5. /\ daemon' \in DaemonStates /\ daemon'.up = daemon.up /\ daemon'.lives = daemon.lives
        /\ daemon'.requests = daemon.requests /\ Len(daemon'.ctx) = Len(daemon.ctx)
        /\ \A j \in 1 .. Len(daemon.ctx) : /\ daemon'.ctx[j].by = daemon.ctx[j].by
                                           /\ daemon'.ctx[j].alive = daemon.ctx[j].alive
    BY <1>1, <1>2, <1>3, <1>4, ContextSwitched
  <1>6. ms \in Seq(Messages) /\ \A m \in In(ms) : m.type \in {"EnableIM", "CloseIM"}
    BY <1>1, <1>3, SignalledFacts
  <1> HIDE DEF ms
  <1>7. /\ inbox' \in Seq(Messages) /\ (~IsOpen => inbox' = inbox)
        /\ In(inbox) \subseteq In(inbox') /\ In(inbox') \subseteq In(inbox) \union In(ms)
        /\ \A a, b : Before(inbox', a, b) =>
             Before(inbox, a, b) \/ Before(ms, a, b) \/ (a \in In(inbox) /\ b \in In(ms))
    BY <1>1, <1>2, <1>6, ReceivedFacts
  <1>8. Types'
    BY <1>1, <1>2, <1>5, <1>7 DEF Types
  <1>9. \A i \in Nat : Mine(i) => Mine(i)'
    <2>1. Len(daemon.ctx) <= Len(daemon'.ctx) /\ daemon'.ctx \in Seq(Contexts)
      BY <1>1, <1>5 DEF DaemonStates
    <2>2. QED
      BY <1>1, <1>5, <2>1, MineStays
  <1>10. /\ \A m \in In(inbox') : m.type \in Notices \union {"answer"} => m \in In(inbox)
         /\ \A m, n : m.type \in Notices /\ n.type \in Notices /\ Before(inbox', m, n) =>
              Before(inbox, m, n)
    BY <1>6, <1>7, BeforeIn DEF Notices
  <1>11. Bound'
    <2>1. \A m \in In(inbox') : m.type \in Notices => m \in In(inbox)
      BY <1>10
    <2>2. ~IsOpen => inbox' = <<>>
      BY <1>1, <1>7 DEF Bound, ShutIsIdle
    <2>3. daemon.up = Nobody => daemon'.ctx = <<>> /\ daemon'.requests = <<>>
      <3>1. daemon.up # Nobody
        <4>1. daemon.ctx # <<>>
          BY <1>1, <1>3
        <4>2. QED
          BY <1>1, <4>1 DEF Bound, Incarnations
      <3>2. QED
        BY <3>1
    <2>4. QED
      BY <1>1, <1>2, <1>5, <1>7, <1>8, <1>9, <1>10, <2>1, <2>2, <2>3, QuietBound
  <1>12. Used'
    <2>1. Name(daemon.up) \in In(inbox') => Name(daemon.up) \in In(inbox)
      BY <1>10, MessageTypes DEF Notices
    <2>2. \A m \in In(inbox') : m.type = "answer" => m \in In(inbox)
      BY <1>10
    <2>3. QED
      BY <1>1, <1>2, <1>5, <1>8, <2>1, <2>2, StateFields, QuietKeys
  <1>13. QED
    BY <1>8, <1>11, <1>12 DEF IInv

\* Taking a request out of the daemon's queue.
LEMMA ServeTakes ==
    ASSUME Types, daemon.requests # <<>>
    PROVE  LET r == Head(daemon.requests)
               d == [daemon EXCEPT !.requests = Tail(@)]
           IN  /\ d \in DaemonStates /\ d.up = daemon.up /\ d.lives = daemon.lives
               /\ d.ctx = daemon.ctx /\ d.requests = Tail(daemon.requests)
               /\ r \in Requests /\ r \in In(daemon.requests)
               /\ In(d.requests) \subseteq In(daemon.requests)
               /\ \A a, b : Before(d.requests, a, b) => Before(daemon.requests, a, b)
               /\ \A b \in In(d.requests) : Before(daemon.requests, r, b)
  <1> DEFINE t == Tail(daemon.requests)
             d == [daemon EXCEPT !.requests = t]
             r == Head(daemon.requests)
  <1>1. daemon.requests \in Seq(Requests)
    BY StateFields
  <1>2. /\ r \in Requests /\ t \in Seq(Requests) /\ r \in In(daemon.requests)
        /\ In(daemon.requests) = {r} \union In(t)
        /\ \A a, b : Before(t, a, b) => Before(daemon.requests, a, b)
        /\ \A b \in In(t) : Before(daemon.requests, r, b)
    BY <1>1, TakeFirst
  <1> HIDE DEF t, r
  <1>3. d \in DaemonStates /\ d.up = daemon.up /\ d.lives = daemon.lives
        /\ d.ctx = daemon.ctx /\ d.requests = t
    BY <1>2 DEF Types, DaemonStates
  <1> HIDE DEF d
  <1>4. QED
    BY <1>2, <1>3 DEF d, t, r

\* IPCCreateIC for the client.
LEMMA ServeCreateKeeps ==
    ASSUME IInv, daemon.requests # <<>>, Head(daemon.requests).type = "create",
           ServeCreate(Head(daemon.requests), [daemon EXCEPT !.requests = Tail(@)]),
           client' = client, keys' = keys
    PROVE  IInv'
  <1> DEFINE r == Head(daemon.requests)
             d == [daemon EXCEPT !.requests = Tail(@)]
  <1>1. Types /\ Bound /\ Used
    BY DEF IInv
  <1>2. /\ d \in DaemonStates /\ d.up = daemon.up /\ d.lives = daemon.lives
        /\ d.ctx = daemon.ctx
        /\ r \in Requests /\ r \in In(daemon.requests)
        /\ In(d.requests) \subseteq In(daemon.requests)
        /\ \A a, b : Before(d.requests, a, b) => Before(daemon.requests, a, b)
    BY <1>1, ServeTakes
  <1>3. PICK on \in BOOLEAN :
          /\ daemon' = [d EXCEPT !.ctx = Append(@, Context("client", on))]
          /\ inbox' = Received(<<Created(r.call, Len(d.ctx), on)>>)
    BY DEF ServeCreate
  <1>4. r.type = "create" /\ consumed' = consumed
    BY DEF ServeCreate
  <1> DEFINE c == Context("client", on)
             m == Created(r.call, Len(d.ctx), on)
  <1> HIDE DEF r, d
  <1>5. c \in Contexts /\ c.by = "client" /\ c.alive
    BY DEF Contexts, Context
  <1> HIDE DEF c
  <1>6. /\ daemon' \in DaemonStates /\ daemon'.up = d.up /\ daemon'.lives = d.lives
        /\ daemon'.requests = d.requests /\ Len(daemon'.ctx) = Len(d.ctx) + 1
        /\ \A i \in 1 .. Len(d.ctx) : daemon'.ctx[i] = d.ctx[i]
        /\ daemon'.ctx[Len(d.ctx) + 1] = c /\ Len(d.ctx) \in Nat
    BY <1>2, <1>3, <1>5, ContextAdded DEF c
  <1>7. r.call \in Nat
    BY <1>2, <1>4, RequestFields
  <1>8. m \in Messages /\ m.type = "created" /\ m.call = r.call /\ m.id = Len(d.ctx)
    BY <1>6, <1>7, MessagesMade, MessageTypes
  <1>9. inbox' = Received(<<m>>)
    BY <1>3
  <1> HIDE DEF m
  <1>10. /\ inbox' \in Seq(Messages) /\ (~IsOpen => inbox' = inbox)
         /\ In(inbox) \subseteq In(inbox') /\ In(inbox') \subseteq In(inbox) \union {m}
         /\ \A a, b : Before(inbox', a, b) =>
              Before(inbox, a, b) \/ (a \in In(inbox) /\ b = m)
    <2>1. <<m>> \in Seq(Messages) /\ In(<<m>>) = {m} /\ \A a, b : ~ Before(<<m>>, a, b)
      BY <1>8, ShortQueues
    <2>2. QED
      BY <1>1, <1>9, <2>1, ReceivedFacts
  <1>11. Types'
    BY <1>1, <1>6, <1>10 DEF Types
  <1>12. \A id \in Nat : Mine(id) => Mine(id)'
    <2>1. Len(daemon.ctx) <= Len(daemon'.ctx) /\ daemon'.ctx \in Seq(Contexts)
      BY <1>2, <1>6 DEF DaemonStates
    <2>2. QED
      BY <1>1, <1>2, <1>6, <2>1, MineStays
  <1>13. \A id \in Nat : id = Len(d.ctx) => Mine(id)'
    BY <1>5, <1>6 DEF Mine
  <1>14. daemon.up # Nobody /\ daemon'.up = daemon.up /\ daemon'.lives = daemon.lives
    BY <1>1, <1>2, <1>6 DEF Bound, Incarnations
  <1>15. Name(daemon.up) \in In(inbox') => Name(daemon.up) \in In(inbox)
    BY <1>8, <1>10, MessageTypes
  <1>16. Incarnations' /\ ShutIsIdle'
    BY <1>1, <1>10, <1>14 DEF Bound, Incarnations, ShutIsIdle, IsOpen
  <1>17. NoticesInOrder'
    <2>1. \A n \in In(inbox') : n.type \in {"gone", "name"} => n \in In(inbox)
      BY <1>8, <1>10
    <2>2. \A a, b : Before(inbox', a, b) /\ b.type = "name" => Before(inbox, a, b)
      BY <1>8, <1>10
    <2>3. QED
      BY <1>1, <1>10, <1>14, <2>1, <2>2 DEF Bound, NoticesInOrder
  <1>18. CallBelongs'
    BY <1>1, <1>2, <1>6, <1>14 DEF Bound, CallBelongs
  <1>19. Forsaken => Forsaken'
    BY <1>10 DEF Forsaken
  <1>20. CreatedBelongs'
    <2> SUFFICES ASSUME NEW n \in In(inbox'), n.type = "created"
                 PROVE  /\ n.call \in 1 .. client.calls
                        /\ n.call = client.call =>
                             /\ Forsaken' \/ (daemon.up = client.proxy /\ Mine(n.id)')
                             /\ Nobody # daemon.up /\ daemon.up = client.proxy =>
                                  ~Before(inbox', n, Name(daemon.up))
      BY <1>14 DEF CreatedBelongs
    <2>1. ~Before(inbox, n, Name(daemon.up)) => ~Before(inbox', n, Name(daemon.up))
      BY <1>8, <1>10, MessageTypes
    <2>2. CASE n \in In(inbox)
      <3>1. n.id \in Nat
        BY <1>1, <2>2, InQueue, MessageFields DEF Types
      <3>2. QED
        BY <1>1, <1>12, <1>19, <2>1, <2>2, <3>1 DEF Bound, CreatedBelongs
    <2>3. CASE n \notin In(inbox)
      <3>1. n = m
        BY <1>10, <2>3
      <3>2. r.call \in 1 .. client.calls /\ (r.call = client.call => daemon.up = client.proxy)
        BY <1>1, <1>2, <1>4 DEF Bound, CallBelongs
      <3>3. ~Before(inbox, n, Name(daemon.up))
        BY <2>3, BeforeIn
      <3>4. Mine(n.id)'
        BY <1>6, <1>8, <1>13, <3>1
      <3>5. QED
        BY <1>8, <2>1, <3>1, <3>2, <3>3, <3>4
    <2>4. QED
      BY <2>2, <2>3
  <1>21. ContextIsMine'
    <2>1. client.ic.id \in Nat
      BY <1>1, StateFields
    <2>2. QED
      BY <1>1, <1>11, <1>12, <1>14, <1>19, <2>1, MineMeans, MineMeansNext DEF Bound
  <1>22. NamedFirst'
    BY <1>1, <1>14, <1>15 DEF Bound, NamedFirst
  <1>23. Used'
    <2>1. \A n \in In(inbox') : n.type = "answer" => n \in In(inbox)
      BY <1>8, <1>10
    <2>2. QED
      BY <1>1, <1>2, <1>4, <1>6, <1>11, <1>14, <1>15, <2>1, StateFields, QuietKeys
  <1>24. QED
    BY <1>11, <1>16, <1>17, <1>18, <1>20, <1>21, <1>22, <1>23 DEF IInv, Bound

\* DestroyIC, when the client is closed.
LEMMA ServeDestroyKeeps ==
    ASSUME IInv, daemon.requests # <<>>, Head(daemon.requests).type = "destroy",
           ServeDestroy(Head(daemon.requests), [daemon EXCEPT !.requests = Tail(@)]),
           client' = client, keys' = keys
    PROVE  IInv'
  <1> DEFINE r == Head(daemon.requests)
             d == [daemon EXCEPT !.requests = Tail(@)]
  <1>1. Types /\ Bound /\ Used
    BY DEF IInv
  <1>2. /\ d \in DaemonStates /\ d.up = daemon.up /\ d.lives = daemon.lives
        /\ d.ctx = daemon.ctx
        /\ r \in Requests /\ r \in In(daemon.requests)
        /\ In(d.requests) \subseteq In(daemon.requests)
        /\ \A a, b : Before(d.requests, a, b) => Before(daemon.requests, a, b)
    BY <1>1, ServeTakes
  <1>3. /\ daemon' = d \/ (Alive(r.id) /\ daemon' = [d EXCEPT !.ctx[r.id + 1].alive = FALSE])
        /\ r.type = "destroy" /\ inbox' = inbox /\ consumed' = consumed
    BY DEF ServeDestroy
  <1> HIDE DEF r, d
  <1>4. ~IsOpen /\ inbox = <<>>
    BY <1>1, <1>2, <1>3 DEF Bound, CallBelongs, ShutIsIdle, IsOpen
  <1>5. /\ daemon' \in DaemonStates /\ daemon'.up = daemon.up /\ daemon'.lives = daemon.lives
        /\ daemon'.requests = d.requests
    <2>1. CASE Alive(r.id) /\ daemon' = [d EXCEPT !.ctx[r.id + 1].alive = FALSE]
      <3>1. r.id \in Nat /\ daemon.ctx \in Seq(Contexts) /\ r.id < Len(daemon.ctx)
        BY <1>1, <1>2, <1>3, <2>1, RequestFields, StateFields DEF Alive
      <3>2. r.id + 1 \in 1 .. Len(d.ctx)
        BY <1>2, <3>1
      <3>3. QED
        BY <1>2, <2>1, <3>2, ContextDropped
    <2>2. QED
      BY <1>2, <1>3, <2>1
  <1>6. daemon.up # Nobody
    BY <1>1 DEF Bound, Incarnations
  <1>7. Types'
    BY <1>1, <1>3, <1>5 DEF Types
  <1>8. Bound'
    BY <1>1, <1>2, <1>3, <1>4, <1>5, <1>6, <1>7, QuietBound
  <1>9. Used'
    BY <1>1, <1>2, <1>3, <1>5, <1>7, StateFields, QuietKeys
  <1>10. QED
    BY <1>7, <1>8, <1>9 DEF IInv

\* IPCProcessKey.
LEMMA ServeKeyKeeps ==
    ASSUME IInv, daemon.requests # <<>>, Head(daemon.requests).type = "key",
           ServeKey(Head(daemon.requests), [daemon EXCEPT !.requests = Tail(@)]),
           client' = client, keys' = keys
    PROVE  IInv'
  <1> DEFINE r == Head(daemon.requests)
             d == [daemon EXCEPT !.requests = Tail(@)]
             k == r.key
  <1>1. Types /\ Bound /\ Used
    BY DEF IInv
  <1>2. /\ d \in DaemonStates /\ d.up = daemon.up /\ d.lives = daemon.lives
        /\ d.ctx = daemon.ctx
        /\ r \in Requests /\ r \in In(daemon.requests)
        /\ In(d.requests) \subseteq In(daemon.requests)
        /\ \A a, b : Before(d.requests, a, b) => Before(daemon.requests, a, b)
        /\ \A b \in In(d.requests) : Before(daemon.requests, r, b)
    BY <1>1, ServeTakes
  <1>3. ServeKey(r, d) /\ r.type = "key"
    OBVIOUS
  <1> HIDE DEF r, d
  <1>4. k \in Keys /\ r.id \in Nat
    BY <1>2, <1>3, RequestFields
  <1>5. \E ms \in Seq(Messages), ret \in {"handled", "ignored", "error"} :
          /\ inbox' = Received(ms)
          /\ \A m \in In(ms) : m.type \in {"EnableIM", "CloseIM"} \/ m = Answer(k, ret)
          /\ consumed' = IF ret = "handled" THEN consumed \union {k} ELSE consumed
          /\ daemon' \in DaemonStates /\ daemon'.up = d.up /\ daemon'.lives = d.lives
          /\ daemon'.requests = d.requests /\ Len(daemon'.ctx) = Len(d.ctx)
          /\ \A j \in 1 .. Len(d.ctx) :
               daemon'.ctx[j].by = d.ctx[j].by /\ daemon'.ctx[j].alive = d.ctx[j].alive
    <2>1. CASE ~Alive(r.id)
      <3> DEFINE m == Answer(k, "error")
      <3>1. daemon' = d /\ inbox' = Received(<<m>>) /\ consumed' = consumed
        BY <1>3, <2>1 DEF ServeKey
      <3>2. m \in Messages
        BY <1>4, MessagesMade
      <3> HIDE DEF m
      <3>3. <<m>> \in Seq(Messages) /\ In(<<m>>) = {m}
        BY <3>2, ShortQueues
      <3>4. \A n \in In(<<m>>) : n = Answer(k, "error")
        BY <3>3 DEF m
      <3>5. "error" \in {"handled", "ignored", "error"} /\ "error" # "handled"
        OBVIOUS
      <3>6. QED
        BY <1>2, <3>1, <3>3, <3>4, <3>5
    <2>2. CASE Alive(r.id)
      <3>1. PICK ret \in {"handled", "ignored"} :
              /\ daemon' = IF r.trigger THEN [d EXCEPT !.ctx[r.id + 1].on = ~@] ELSE d
              /\ inbox' = Received(
                   (IF r.trigger
                      THEN Signalled(IF d.ctx[r.id + 1].on THEN "CloseIM" ELSE "EnableIM", r.id)
                      ELSE <<>>) \o <<Answer(r.key, ret)>>)
              /\ consumed' = IF ret = "handled" THEN consumed \union {r.key} ELSE consumed
        BY <1>3, <2>2 DEF ServeKey
      <3> DEFINE s == IF r.trigger
                      THEN Signalled(IF d.ctx[r.id + 1].on THEN "CloseIM" ELSE "EnableIM", r.id)
                      ELSE <<>>
                 m == Answer(k, ret)
                 ms == s \o <<m>>
                 on == ~d.ctx[r.id + 1].on
      <3>2. s \in Seq(Messages) /\ \A n \in In(s) : n.type \in {"EnableIM", "CloseIM"}
        <4>1. CASE r.trigger
          BY <1>1, <1>4, <4>1, SignalledFacts
        <4>2. CASE ~r.trigger
          BY <4>2, ShortQueues
        <4>3. QED
          BY <4>1, <4>2
      <3>3. m \in Messages
        BY <1>4, MessagesMade
      <3>4. inbox' = Received(ms)
        BY <3>1
      <3>5. consumed' = IF ret = "handled" THEN consumed \union {k} ELSE consumed
        BY <3>1
      <3>6. daemon' = IF r.trigger THEN [d EXCEPT !.ctx[r.id + 1].on = on] ELSE d
        BY <3>1
      <3>7. on \in BOOLEAN
        OBVIOUS
      <3> HIDE DEF s, m, on
      <3>8. <<m>> \in Seq(Messages) /\ In(<<m>>) = {m}
        BY <3>3, ShortQueues
      <3>9. ms \in Seq(Messages) /\ In(ms) = In(s) \union {m}
        BY <3>2, <3>8, PutLast
      <3> HIDE DEF ms
      <3>10. /\ daemon' \in DaemonStates /\ daemon'.up = d.up /\ daemon'.lives = d.lives
             /\ daemon'.requests = d.requests /\ Len(daemon'.ctx) = Len(d.ctx)
             /\ \A j \in 1 .. Len(d.ctx) :
                  daemon'.ctx[j].by = d.ctx[j].by /\ daemon'.ctx[j].alive = d.ctx[j].alive
        <4>1. CASE r.trigger
          <5>1. r.id < Len(d.ctx) /\ Len(d.ctx) \in Nat
            BY <1>1, <1>2, <2>2, StateFields DEF Alive
          <5>2. r.id + 1 \in 1 .. Len(d.ctx)
            BY <1>4, <5>1
          <5>3. QED
            BY <1>2, <3>6, <3>7, <4>1, <5>2, ContextSwitched
        <4>2. CASE ~r.trigger
          BY <1>2, <3>6, <4>2
        <4>3. QED
          BY <4>1, <4>2
      <3>11. \A n \in In(ms) : n.type \in {"EnableIM", "CloseIM"} \/ n = Answer(k, ret)
        BY <3>2, <3>9 DEF m
      <3>12. ret \in {"handled", "ignored", "error"}
        OBVIOUS
      <3>13. QED
        BY <3>4, <3>5, <3>9, <3>10, <3>11, <3>12
    <2>3. QED
      BY <2>1, <2>2
  <1>6. PICK ms \in Seq(Messages), ret \in {"handled", "ignored", "error"} :
          /\ inbox' = Received(ms)
          /\ \A m \in In(ms) : m.type \in {"EnableIM", "CloseIM"} \/ m = Answer(k, ret)
          /\ consumed' = IF ret = "handled" THEN consumed \union {k} ELSE consumed
          /\ daemon' \in DaemonStates /\ daemon'.up = d.up /\ daemon'.lives = d.lives
          /\ daemon'.requests = d.requests /\ Len(daemon'.ctx) = Len(d.ctx)
          /\ \A j \in 1 .. Len(d.ctx) :
               daemon'.ctx[j].by = d.ctx[j].by /\ daemon'.ctx[j].alive = d.ctx[j].alive
    BY <1>5
  <1>7. /\ inbox' \in Seq(Messages) /\ (~IsOpen => inbox' = inbox)
        /\ In(inbox) \subseteq In(inbox') /\ In(inbox') \subseteq In(inbox) \union In(ms)
        /\ \A a, b : Before(inbox', a, b) =>
             Before(inbox, a, b) \/ Before(ms, a, b) \/ (a \in In(inbox) /\ b \in In(ms))
    BY <1>1, <1>6, ReceivedFacts
  <1>8. Types'
    BY <1>1, <1>6, <1>7 DEF Types
  <1>9. \A i \in Nat : Mine(i) => Mine(i)'
    <2>1. Len(daemon.ctx) <= Len(daemon'.ctx) /\ daemon'.ctx \in Seq(Contexts)
      BY <1>2, <1>6 DEF DaemonStates
    <2>2. QED
      BY <1>1, <1>2, <1>6, <2>1, MineStays
  <1>10. /\ \A m \in In(inbox') : m.type \in Notices => m \in In(inbox)
         /\ \A m, n : m.type \in Notices /\ n.type \in Notices /\ Before(inbox', m, n) =>
              Before(inbox, m, n)
         /\ \A m \in In(inbox') : m.type = "answer" => m \in In(inbox) \/ m = Answer(k, ret)
    BY <1>6, <1>7, BeforeIn, MessageTypes DEF Notices
  <1>11. Bound'
    <2>1. ~IsOpen => inbox' = <<>>
      BY <1>1, <1>7 DEF Bound, ShutIsIdle
    <2>2. daemon.up # Nobody
      BY <1>1 DEF Bound, Incarnations
    <2>3. QED
      BY <1>1, <1>2, <1>6, <1>7, <1>8, <1>9, <1>10, <2>1, <2>2, QuietBound
  <1>12. /\ keys[k].st # "none" /\ k \notin consumed /\ Answer(k, "ignored") \notin In(inbox)
         /\ keys[k].st \in {"putback", "delivered"} => keys[k].failed
    BY <1>1, <1>2, <1>3 DEF Used, KeyInOnePlace
  <1>13. \A q \in In(d.requests) : q.type = "key" => q.key # k
    BY <1>1, <1>2, <1>3 DEF Used, KeyInOnePlace
  <1>14. /\ consumed \subseteq consumed' /\ consumed' \subseteq consumed \union {k}
         /\ ret = "handled" => k \in consumed'
         /\ ret # "handled" => consumed' = consumed
    BY <1>6
  <1>15. KeyInOnePlace'
    <2>1. ASSUME NEW q \in In(d.requests), q.type = "key"
          PROVE  /\ keys[q.key].st # "none"
                 /\ q.key \notin consumed'
                 /\ Answer(q.key, "ignored") \notin In(inbox')
                 /\ keys[q.key].st \in {"putback", "delivered"} => keys[q.key].failed
      <3>1. /\ keys[q.key].st # "none"
            /\ q.key \notin consumed
            /\ Answer(q.key, "ignored") \notin In(inbox)
            /\ keys[q.key].st \in {"putback", "delivered"} => keys[q.key].failed
        BY <1>1, <1>2, <2>1 DEF Used, KeyInOnePlace
      <3>2. q.key # k
        BY <1>13, <2>1
      <3>3. Answer(q.key, "ignored") # Answer(k, ret)
        BY <3>2, MessageTypes
      <3>4. QED
        BY <1>10, <1>14, <3>1, <3>2, <3>3, MessageTypes
    <2>2. \A p, q \in In(d.requests) :
            p.type = "key" /\ q.type = "key" /\ p.key = q.key => ~Before(d.requests, p, q)
      BY <1>1, <1>2 DEF Used, KeyInOnePlace
    <2>3. ASSUME NEW m \in In(inbox'), m.type = "answer"
          PROVE  /\ keys[m.key].st # "none"
                 /\ m.ret = "handled" => m.key \in consumed'
                 /\ m.ret = "ignored" => m.key \notin consumed'
      <3>1. CASE m \in In(inbox)
        <4>1. /\ keys[m.key].st # "none"
              /\ m.ret = "handled" => m.key \in consumed
              /\ m.ret = "ignored" => m.key \notin consumed
          BY <1>1, <2>3, <3>1 DEF Used, KeyInOnePlace
        <4>2. m = Answer(m.key, m.ret)
          BY <1>1, <2>3, <3>1, InQueue, MessageFields DEF Types
        <4>3. m.ret = "ignored" => m.key # k
          BY <1>12, <3>1, <4>2
        <4>4. QED
          BY <1>14, <4>1, <4>3
      <3>2. CASE m = Answer(k, ret)
        <4>1. m.key = k /\ m.ret = ret
          BY <3>2, MessageTypes
        <4>2. QED
          BY <1>12, <1>14, <4>1
      <3>3. QED
        BY <1>10, <2>3, <3>1, <3>2
    <2>4. \A j \in Keys : keys[j].st = "none" => j \notin consumed'
      BY <1>1, <1>12, <1>14 DEF Used, KeyInOnePlace
    <2>5. QED
      BY <1>6, <2>1, <2>2, <2>3, <2>4 DEF KeyInOnePlace
  <1>16. KeyOfItsProxy'
    <2>1. Name(daemon.up) \in In(inbox') => Name(daemon.up) \in In(inbox)
      BY <1>10, MessageTypes DEF Notices
    <2>2. QED
      BY <1>1, <1>2, <1>6, <2>1 DEF Used, KeyOfItsProxy
  <1>17. KeysOnce'
    <2> SUFFICES ASSUME NEW j \in Keys
                 PROVE  /\ keys[j].st \in {"putback", "delivered"} =>
                             j \notin consumed' \/ keys[j].failed
                        /\ keys[j].st = "dropped" => j \in consumed' \/ keys[j].failed
                        /\ keys[j].st = "cancelled" =>
                             keys[j].to # daemon.up \/ keys[j].stale \/ ~IsOpen
      BY <1>2, <1>6 DEF KeysOnce, IsOpen
    <2>1. /\ keys[j].st \in {"putback", "delivered"} => j \notin consumed \/ keys[j].failed
          /\ keys[j].st = "dropped" => j \in consumed \/ keys[j].failed
          /\ keys[j].st = "cancelled" => keys[j].to # daemon.up \/ keys[j].stale \/ ~IsOpen
      BY <1>1 DEF Used, KeysOnce
    <2>2. QED
      BY <1>12, <1>14, <2>1
  <1>18. QED
    BY <1>8, <1>11, <1>15, <1>16, <1>17 DEF IInv, Used

\* The daemon takes the name.
LEMMA StartKeeps ==
    ASSUME IInv, Start
    PROVE  IInv'
  <1>1. Types /\ Bound /\ Used
    BY DEF IInv
  <1> DEFINE n == daemon.lives + 1
             m == Name(n)
  <1>2. /\ daemon' = [up |-> n, lives |-> n, ctx |-> <<>>, requests |-> <<>>]
        /\ inbox' = Received(<<m>>) /\ daemon.up = Nobody
        /\ client' = client /\ keys' = keys /\ consumed' = consumed
    BY DEF Start
  <1>3. n \in Nat /\ n > daemon.lives /\ daemon.lives \in Nat /\ n # Nobody
    BY <1>1, StateFields
  <1>4. m \in Messages /\ m.type = "name" /\ m.owner = n
    BY <1>3, MessagesMade, MessageTypes
  <1>5. m = Name(n)
    OBVIOUS
  <1> HIDE DEF n, m
  <1>6. /\ inbox' \in Seq(Messages) /\ (~IsOpen => inbox' = inbox)
        /\ IsOpen => m \in In(inbox')
        /\ In(inbox) \subseteq In(inbox') /\ In(inbox') \subseteq In(inbox) \union {m}
        /\ \A a, b : Before(inbox', a, b) =>
             Before(inbox, a, b) \/ (a \in In(inbox) /\ b = m)
    <2>1. <<m>> \in Seq(Messages) /\ In(<<m>>) = {m} /\ \A a, b : ~ Before(<<m>>, a, b)
      BY <1>4, ShortQueues
    <2>2. QED
      BY <1>1, <1>2, <2>1, ReceivedFacts
  <1>7. daemon' \in DaemonStates
    <2>1. <<>> \in Seq(Contexts) /\ <<>> \in Seq(Requests)
      OBVIOUS
    <2>2. QED
      BY <1>2, <1>3, <2>1 DEF DaemonStates
  <1>8. Types'
    BY <1>1, <1>2, <1>6, <1>7 DEF Types
  <1>9. daemon'.up = n /\ daemon'.lives = n /\ In(daemon'.requests) = {}
        /\ \A a, b : ~ Before(daemon'.requests, a, b)
    BY <1>2, ShortQueues
  <1>10. Incarnations' /\ ShutIsIdle'
    BY <1>1, <1>2, <1>3, <1>6 DEF Bound, Incarnations, ShutIsIdle, IsOpen
  <1>11. ~IsOpen => In(inbox') = {}
    BY <1>1, <1>6, ShortQueues DEF Bound, ShutIsIdle
  <1>12. \A a \in In(inbox) : a.type = "name" => a.owner <= daemon.lives /\ a.owner \in Nat
    <2> SUFFICES ASSUME NEW a \in In(inbox), a.type = "name"
                 PROVE  a.owner <= daemon.lives /\ a.owner \in Nat
      OBVIOUS
    <2>1. a.owner \in Nat
      BY <1>1, InQueue, MessageFields DEF Types
    <2>2. QED
      BY <1>1, <1>3, <2>1 DEF Bound, NoticesInOrder, Nobody
  <1>13. NoticesInOrder'
    <2>1. ASSUME NEW a \in In(inbox')
          PROVE  /\ a.type = "gone" => a.owner \in 1 .. n /\ a.owner # n
                 /\ a.type = "name" /\ a.owner # Nobody =>
                      a.owner <= n /\ Name(n) \in In(inbox')
      <3>1. CASE a \in In(inbox)
        <4>1. a.type = "gone" => a.owner \in 1 .. daemon.lives
          BY <1>1, <3>1 DEF Bound, NoticesInOrder
        <4>2. a.type = "gone" => a.owner \in 1 .. n /\ a.owner # n
          BY <1>3, <4>1
        <4>3. a.type = "name" => a.owner <= n
          BY <1>3, <1>12, <3>1
        <4>4. QED
          BY <1>5, <1>6, <1>11, <4>2, <4>3
      <3>2. CASE a = m
        BY <1>3, <1>4, <1>5, <1>6, <1>11, <2>1, <3>2
      <3>3. QED
        BY <1>6, <3>1, <3>2
    <2>2. ASSUME NEW a \in In(inbox'), NEW b \in In(inbox'), a.type = "name", b.type = "name",
                 a.owner # Nobody, b.owner # Nobody, Before(inbox', a, b)
          PROVE  a.owner < b.owner
      <3>1. CASE Before(inbox, a, b)
        <4>1. a \in In(inbox) /\ b \in In(inbox)
          BY <3>1, BeforeIn
        <4>2. QED
          BY <1>1, <2>2, <3>1, <4>1 DEF Bound, NoticesInOrder
      <3>2. CASE a \in In(inbox) /\ b = m
        <4>1. a.owner <= daemon.lives /\ a.owner \in Nat /\ b.owner = n
          BY <1>4, <1>12, <2>2, <3>2
        <4>2. QED
          BY <1>3, <4>1
      <3>3. QED
        BY <1>6, <2>2, <3>1, <3>2
    <2>3. QED
      BY <1>9, <2>1, <2>2 DEF NoticesInOrder
  <1>14. client.proxy <= daemon.lives /\ client.proxy # n /\ client.proxy <= n
         /\ client.call <= client.calls
    <2>1. client.proxy <= daemon.lives /\ client.call <= client.calls
      BY <1>1 DEF Bound, CallBelongs
    <2>2. client.proxy \in Nat
      BY <1>1, StateFields
    <2>3. QED
      BY <1>3, <2>1, <2>2
  <1>15. CallBelongs'
    BY <1>2, <1>9, <1>14 DEF CallBelongs
  <1>16. \A id \in Nat : ~ Mine(id)
    <2>1. Len(daemon.ctx) = 0
      BY <1>1, <1>2 DEF Bound, Incarnations
    <2>2. QED
      BY <2>1 DEF Mine
  <1>17. Forsaken => Forsaken'
    BY <1>2, <1>6 DEF Forsaken
  <1>18. CreatedBelongs'
    <2> SUFFICES ASSUME NEW a \in In(inbox'), a.type = "created"
                 PROVE  /\ a.call \in 1 .. client.calls
                        /\ a.call = client.call => Forsaken'
      BY <1>2, <1>9, <1>14 DEF CreatedBelongs
    <2>1. a \in In(inbox)
      BY <1>4, <1>6
    <2>2. a.id \in Nat
      BY <1>1, <2>1, InQueue, MessageFields DEF Types
    <2>3. QED
      BY <1>1, <1>16, <1>17, <2>1, <2>2 DEF Bound, CreatedBelongs
  <1>19. ContextIsMine'
    <2>1. client.ic.id \in Nat
      BY <1>1, StateFields
    <2>2. client.ic # NoIC => Forsaken'
      BY <1>1, <1>16, <1>17, <2>1, MineMeans DEF Bound
    <2>3. QED
      BY <1>2, <1>8, <2>2, MineMeansNext
  <1>20. NamedFirst'
    <2>1. client.ic # NoIC => client.ic.owner \in 1 .. daemon.lives
      BY <1>1 DEF Bound, NamedFirst
    <2>2. client.ic # NoIC => client.ic.owner \in 1 .. n
      BY <1>3, <2>1
    <2>3. QED
      BY <1>2, <1>9, <1>14, <2>2 DEF NamedFirst
  <1>21. Used'
    <2>1. \A a \in In(inbox') : a.type = "answer" => a \in In(inbox)
      BY <1>4, <1>6
    <2>2. daemon'.up > daemon.lives /\ daemon.lives <= daemon'.lives
      BY <1>3, <1>9
    <2>3. QED
      BY <1>1, <1>2, <1>8, <1>9, <2>1, <2>2, QuietKeys
  <1>22. QED
    BY <1>8, <1>10, <1>13, <1>15, <1>18, <1>19, <1>20, <1>21 DEF IInv, Bound

\* The daemon ends or crashes.
LEMMA StopKeeps ==
    ASSUME IInv, Stop
    PROVE  IInv'
  <1>1. Types /\ Bound /\ Used
    BY DEF IInv
  <1> DEFINE m == Name(Nobody)
             g == Gone(daemon.up)
  <1>2. /\ daemon' = [daemon EXCEPT !.up = Nobody, !.ctx = <<>>, !.requests = <<>>]
        /\ inbox' = Received(<<m, g>>) /\ daemon.up # Nobody
        /\ client' = client /\ keys' = keys /\ consumed' = consumed
    BY DEF Stop
  <1>3. daemon.up \in Nat /\ daemon.lives \in Nat /\ daemon.up = daemon.lives
        /\ daemon.up \in 1 .. daemon.lives
    BY <1>1, <1>2, StateFields DEF Bound, Incarnations
  <1>4. /\ m \in Messages /\ m.type = "name" /\ m.owner = Nobody
        /\ g \in Messages /\ g.type = "gone" /\ g.owner = daemon.up
    BY <1>3, MessagesMade, MessageTypes DEF Nobody
  <1>5. g = Gone(daemon.up)
    OBVIOUS
  <1> HIDE DEF m, g
  <1>6. /\ inbox' \in Seq(Messages) /\ (~IsOpen => inbox' = inbox)
        /\ IsOpen => g \in In(inbox')
        /\ In(inbox) \subseteq In(inbox') /\ In(inbox') \subseteq In(inbox) \union {m, g}
        /\ \A a, b : Before(inbox', a, b) => Before(inbox, a, b) \/ b \in {m, g}
    <2>1. <<m, g>> \in Seq(Messages) /\ In(<<m, g>>) = {m, g}
          /\ \A a, b : Before(<<m, g>>, a, b) => b = g
      BY <1>4, ShortQueues
    <2>2. QED
      BY <1>1, <1>2, <2>1, ReceivedFacts
  <1>7. /\ daemon' \in DaemonStates /\ daemon'.up = Nobody /\ daemon'.lives = daemon.lives
        /\ daemon'.ctx = <<>> /\ daemon'.requests = <<>>
    <2>1. <<>> \in Seq(Contexts) /\ <<>> \in Seq(Requests) /\ Nobody \in Nat
      BY DEF Nobody
    <2>2. QED
      BY <1>1, <1>2, <2>1 DEF Types, DaemonStates
  <1>8. Types'
    BY <1>1, <1>2, <1>6, <1>7 DEF Types
  <1>9. In(daemon'.requests) = {} /\ \A a, b : ~ Before(daemon'.requests, a, b)
    BY <1>7, ShortQueues
  <1>10. Incarnations' /\ ShutIsIdle'
    BY <1>1, <1>2, <1>6, <1>7 DEF Bound, Incarnations, ShutIsIdle, IsOpen
  <1>11. ~IsOpen => In(inbox') = {} /\ client.ic = NoIC
    BY <1>1, <1>6, ShortQueues DEF Bound, ShutIsIdle
  <1>12. NoticesInOrder'
    <2>1. ASSUME NEW a \in In(inbox')
          PROVE  /\ a.type = "gone" => a.owner \in 1 .. daemon.lives /\ a.owner # Nobody
                 /\ a.type = "name" /\ a.owner # Nobody => a.owner <= daemon.lives
      <3>1. CASE a \in In(inbox)
        BY <1>1, <3>1 DEF Bound, NoticesInOrder, Nobody
      <3>2. CASE a = m
        BY <1>4, <3>2
      <3>3. CASE a = g
        BY <1>2, <1>3, <1>4, <3>3
      <3>4. QED
        BY <1>6, <3>1, <3>2, <3>3
    <2>2. ASSUME NEW a \in In(inbox'), NEW b \in In(inbox'), a.type = "name", b.type = "name",
                 a.owner # Nobody, b.owner # Nobody, Before(inbox', a, b)
          PROVE  a.owner < b.owner
      <3>1. Before(inbox, a, b)
        BY <1>4, <1>6, <2>2
      <3>2. a \in In(inbox) /\ b \in In(inbox)
        BY <3>1, BeforeIn
      <3>3. QED
        BY <1>1, <2>2, <3>1, <3>2 DEF Bound, NoticesInOrder
    <2>3. QED
      BY <1>7, <2>1, <2>2 DEF NoticesInOrder
  <1>13. CallBelongs'
    BY <1>1, <1>2, <1>7, <1>9 DEF Bound, CallBelongs
  <1>14. Forsaken => Forsaken'
    BY <1>2, <1>6 DEF Forsaken
  <1>15. IsOpen /\ daemon.up = client.proxy => Forsaken'
    <2>1. daemon.up = client.proxy => g = Gone(client.proxy)
      BY <1>5
    <2>2. QED
      BY <1>2, <1>6, <2>1 DEF Forsaken
  <1>16. CreatedBelongs'
    <2> SUFFICES ASSUME NEW a \in In(inbox'), a.type = "created"
                 PROVE  /\ a.call \in 1 .. client.calls
                        /\ a.call = client.call => Forsaken'
      BY <1>2, <1>7 DEF CreatedBelongs
    <2>1. a \in In(inbox) /\ IsOpen
      BY <1>4, <1>6, <1>11
    <2>2. QED
      BY <1>1, <1>14, <1>15, <2>1 DEF Bound, CreatedBelongs
  <1>17. ContextIsMine'
    <2>1. client.ic # NoIC => Forsaken'
      BY <1>1, <1>11, <1>14, <1>15, MineMeans DEF Bound
    <2>2. QED
      BY <1>2, <1>8, <2>1, MineMeansNext
  <1>18. NamedFirst'
    BY <1>1, <1>2, <1>7 DEF Bound, NamedFirst, Nobody
  <1>19. Used'
    <2>1. \A a \in In(inbox') : a.type = "answer" => a \in In(inbox)
      BY <1>4, <1>6
    <2>2. daemon'.up = Nobody /\ daemon.lives <= daemon'.lives
      BY <1>3, <1>7
    <2>3. QED
      BY <1>1, <1>2, <1>8, <1>9, <2>1, <2>2, QuietKeys
  <1>20. QED
    BY <1>8, <1>10, <1>12, <1>13, <1>16, <1>17, <1>18, <1>19 DEF IInv, Bound

-----------------------------------------------------------------------------
(* The client. *)

\* Dispatching a message leaves the notices in order: of the names, the one of
\* the running incarnation is the last.
LEMMA NoticesTail ==
    ASSUME Types, Bound, inbox # <<>>, inbox' = Tail(inbox),
           daemon'.up = daemon.up, daemon'.lives = daemon.lives
    PROVE  NoticesInOrder'
  <1> DEFINE m == Head(inbox)
             t == Tail(inbox)
  <1>1. inbox \in Seq(Messages)
    BY DEF Types
  <1>2. /\ m \in In(inbox) /\ In(inbox) = {m} \union In(t)
        /\ \A a, b : Before(t, a, b) => Before(inbox, a, b)
        /\ \A b \in In(t) : Before(inbox, m, b)
    BY <1>1, TakeFirst
  <1>3. inbox' = t
    OBVIOUS
  <1> HIDE DEF m, t
  <1>4. ASSUME NEW n \in In(t), n.type = "name", n.owner # Nobody, daemon.up # Nobody
        PROVE  Name(daemon.up) \in In(t)
    <2>1. n \in In(inbox) /\ Before(inbox, m, n)
      BY <1>2
    <2>2. n.owner \in Nat
      BY <1>1, <1>4, <2>1, InQueue, MessageFields
    <2>3. n.owner <= daemon.lives /\ daemon.up = daemon.lives /\ Name(daemon.up) \in In(inbox)
      BY <1>4, <2>1 DEF Bound, NoticesInOrder, Incarnations
    <2>4. m # Name(daemon.up)
      <3>1. SUFFICES ASSUME m = Name(daemon.up)  PROVE FALSE
        OBVIOUS
      <3>2. m.type = "name" /\ m.owner = daemon.up
        BY <3>1, MessageTypes
      <3>3. daemon.up < n.owner
        BY <1>2, <1>4, <2>1, <3>2 DEF Bound, NoticesInOrder
      <3>4. QED
        BY <2>2, <2>3, <3>3, StateFields
    <2>5. QED
      BY <1>2, <2>3, <2>4
  <1>5. QED
    BY <1>2, <1>3, <1>4 DEF Bound, NoticesInOrder

\* FcitxIMClientCreateIC: the client has the proxy of the running incarnation
\* and a call under way, or neither.
LEMMA Asks ==
    ASSUME Types, NEW c \in Clients, CreateIC(c)
    PROVE  /\ client' \in Clients /\ client'.st = c.st /\ client'.ic = c.ic
           /\ daemon' \in DaemonStates
           /\ daemon'.up = daemon.up /\ daemon'.lives = daemon.lives /\ daemon'.ctx = daemon.ctx
           /\ \/ /\ client'.proxy = Nobody /\ client'.call = 0 /\ client'.calls = c.calls
                 /\ daemon'.requests = daemon.requests
              \/ /\ daemon.up # Nobody /\ client'.proxy = daemon.up
                 /\ client'.call = c.calls + 1 /\ client'.calls = c.calls + 1
                 /\ daemon'.requests = Append(daemon.requests,
                                              [type |-> "create", call |-> c.calls + 1])
  <1>1. c.calls \in Nat /\ daemon.up \in Nat /\ daemon \in DaemonStates /\ c.proxy \in Nat
    BY StateFields DEF Types, Clients
  <1>2. CASE daemon.up = Nobody
    <2>1. client' = [c EXCEPT !.proxy = 0, !.call = 0] /\ daemon' = daemon
      BY <1>2 DEF CreateIC, Nobody
    <2>2. /\ client' \in Clients /\ client'.st = c.st /\ client'.ic = c.ic
          /\ client'.proxy = 0 /\ client'.call = 0 /\ client'.calls = c.calls
      BY <2>1 DEF Clients
    <2>3. QED
      BY <1>1, <2>1, <2>2 DEF Nobody
  <1>3. CASE daemon.up # Nobody
    <2> DEFINE n == c.calls + 1
               r == [type |-> "create", call |-> n]
    <2>1. n \in Nat
      BY <1>1
    <2>2. r \in Requests
      BY <2>1 DEF Requests
    <2>3. client' = [c EXCEPT !.proxy = daemon.up, !.call = n, !.calls = n, !.failed = FALSE]
          /\ daemon' = ToDaemon(daemon.up, r)
      BY <1>3 DEF CreateIC
    <2> HIDE DEF n, r
    <2>4. /\ client' \in Clients /\ client'.st = c.st /\ client'.ic = c.ic
          /\ client'.proxy = daemon.up /\ client'.call = n /\ client'.calls = n
      BY <1>1, <2>1, <2>3 DEF Clients
    <2>5. /\ daemon' \in DaemonStates
          /\ daemon'.up = daemon.up /\ daemon'.lives = daemon.lives /\ daemon'.ctx = daemon.ctx
          /\ daemon'.requests = Append(daemon.requests, r)
      BY <1>1, <2>2, <2>3, SentTo
    <2>6. QED
      BY <1>3, <2>4, <2>5 DEF n, r
  <1>4. QED
    BY <1>2, <1>3

\* A client that has just let its proxies go, and perhaps asked again, is bound
\* rightly.
LEMMA FreshBound ==
    ASSUME Types, Types', Bound, NoticesInOrder',
           client.st # "closed", client'.st = "open", client'.ic = NoIC,
           daemon'.up = daemon.up, daemon'.lives = daemon.lives, daemon'.ctx = daemon.ctx,
           \/ /\ client'.proxy = Nobody /\ client'.call = 0 /\ client'.calls = client.calls
              /\ daemon'.requests = daemon.requests
           \/ /\ daemon.up # Nobody /\ client'.proxy = daemon.up
              /\ client'.call = client.calls + 1 /\ client'.calls = client.calls + 1
              /\ daemon'.requests = Append(daemon.requests,
                                           [type |-> "create", call |-> client.calls + 1]),
           In(inbox') \subseteq In(inbox)
    PROVE  Bound'
  <1>1. client.calls \in Nat /\ daemon.up \in Nat /\ daemon.lives \in Nat
        /\ daemon.requests \in Seq(Requests)
    BY StateFields
  <1>2. Incarnations' /\ ShutIsIdle'
    BY DEF Bound, Incarnations, ShutIsIdle, IsOpen
  <1>3. /\ client'.calls \in {client.calls, client.calls + 1}
        /\ client'.call = 0 \/ client'.call = client.calls + 1
        /\ client'.call <= client'.calls /\ client'.proxy <= daemon.lives
    BY <1>1 DEF Bound, Incarnations, Nobody
  <1>4. \A r \in In(daemon'.requests) :
          \/ r \in In(daemon.requests)
          \/ r.type = "create" /\ r.call = client.calls + 1 /\ client'.calls = client.calls + 1
               /\ client'.proxy = daemon.up
    <2> DEFINE q == [type |-> "create", call |-> client.calls + 1]
    <2>1. q \in Requests /\ q.type = "create" /\ q.call = client.calls + 1
      BY <1>1 DEF Requests
    <2> HIDE DEF q
    <2>2. In(Append(daemon.requests, q)) = In(daemon.requests) \union {q}
      BY <1>1, <2>1, PutOne
    <2>3. QED
      BY <2>1, <2>2 DEF q
  <1>5. CallBelongs'
    <2>1. ASSUME NEW r \in In(daemon'.requests)
          PROVE  /\ r.type = "create" =>
                      /\ r.call \in 1 .. client'.calls
                      /\ r.call = client'.call => daemon.up = client'.proxy
                 /\ r.type = "destroy" => client'.st = "closed"
      <3>1. CASE r \in In(daemon.requests)
        <4>1. r.type # "destroy" /\ (r.type = "create" => r.call \in 1 .. client.calls)
          BY <3>1 DEF Bound, CallBelongs
        <4>2. QED
          BY <1>1, <1>3, <4>1
      <3>2. CASE r \notin In(daemon.requests)
        BY <1>1, <1>4, <2>1, <3>2
      <3>3. QED
        BY <3>1, <3>2
    <2>2. QED
      BY <1>3, <2>1 DEF CallBelongs
  <1>6. CreatedBelongs'
    <2>1. ASSUME NEW m \in In(inbox'), m.type = "created"
          PROVE  m.call \in 1 .. client'.calls /\ m.call # client'.call
      <3>1. m.call \in 1 .. client.calls
        BY <2>1 DEF Bound, CreatedBelongs
      <3>2. QED
        BY <1>1, <1>3, <3>1
    <2>2. QED
      BY <2>1 DEF CreatedBelongs
  <1>7. ContextIsMine' /\ NamedFirst'
    BY DEF ContextIsMine, NamedFirst
  <1>8. QED
    BY <1>2, <1>5, <1>6, <1>7 DEF Bound

\* g_object_unref of the proxies: what becomes of the keys under way.
LEMMA CancelledFacts ==
    ASSUME Types
    PROVE  /\ Cancelled \in [Keys -> KeyStates]
           /\ \A k \in Keys :
                /\ Cancelled[k].to = keys[k].to /\ Cancelled[k].stale = keys[k].stale
                /\ Cancelled[k].failed = keys[k].failed
                /\ Cancelled[k].st = IF keys[k].st = "pending" THEN "cancelled" ELSE keys[k].st
  <1>1. ASSUME NEW k \in Keys
        PROVE  LET x == [keys[k] EXCEPT !.st = "cancelled"]
               IN  /\ x \in KeyStates /\ x.to = keys[k].to /\ x.stale = keys[k].stale
                   /\ x.failed = keys[k].failed /\ x.st = "cancelled"
    <2>1. keys[k] \in KeyStates
      BY DEF Types
    <2>2. QED
      BY <2>1 DEF KeyStates
  <1>2. \A k \in Keys : keys[k] \in KeyStates
    BY DEF Types
  <1>3. QED
    BY <1>1, <1>2 DEF Cancelled

\* The calls of an incarnation are cancelled only when that one is gone.
LEMMA CancelKeeps ==
    ASSUME Types, Types', Used, keys' = Cancelled, consumed' = consumed,
           daemon'.up = daemon.up, daemon'.lives = daemon.lives, IsOpen, client'.st # "new",
           \A k \in Keys : keys[k].st = "pending" /\ ~keys[k].stale =>
             keys[k].to # daemon.up \/ client'.st = "closed",
           \A r \in In(daemon'.requests) : r.type = "key" => r \in In(daemon.requests),
           \A r, q : Before(daemon'.requests, r, q) /\ r.type = "key" /\ q.type = "key" =>
             Before(daemon.requests, r, q),
           \A m \in In(inbox') : m.type = "answer" => m \in In(inbox)
    PROVE  Used'
  <1>1. \A k \in Keys :
          /\ keys'[k].to = keys[k].to /\ keys'[k].stale = keys[k].stale
          /\ keys'[k].failed = keys[k].failed
          /\ keys'[k].st = IF keys[k].st = "pending" THEN "cancelled" ELSE keys[k].st
    BY CancelledFacts
  <1>2. \A r \in In(daemon.requests) : r.type = "key" => r.key \in Keys
    BY InQueue, RequestFields, StateFields
  <1>3. \A m \in In(inbox) : m.type = "answer" => m.key \in Keys
    BY InQueue, MessageFields DEF Types
  <1>4. KeyInOnePlace'
    <2>1. ASSUME NEW r \in In(daemon'.requests), r.type = "key"
          PROVE  /\ keys'[r.key].st # "none"
                 /\ r.key \notin consumed
                 /\ Answer(r.key, "ignored") \notin In(inbox')
                 /\ keys'[r.key].st \in {"putback", "delivered"} => keys'[r.key].failed
      <3>1. r \in In(daemon.requests) /\ r.key \in Keys
        BY <1>2, <2>1
      <3>2. /\ keys[r.key].st # "none"
            /\ r.key \notin consumed
            /\ Answer(r.key, "ignored") \notin In(inbox)
            /\ keys[r.key].st \in {"putback", "delivered"} => keys[r.key].failed
        BY <2>1, <3>1 DEF Used, KeyInOnePlace
      <3>3. Answer(r.key, "ignored") \notin In(inbox')
        BY <3>2, MessageTypes
      <3>4. QED
        BY <1>1, <3>1, <3>2, <3>3
    <2>2. \A r, q \in In(daemon'.requests) :
            r.type = "key" /\ q.type = "key" /\ r.key = q.key =>
              ~Before(daemon'.requests, r, q)
      BY DEF Used, KeyInOnePlace
    <2>3. ASSUME NEW m \in In(inbox'), m.type = "answer"
          PROVE  /\ keys'[m.key].st # "none"
                 /\ m.ret = "handled" => m.key \in consumed
                 /\ m.ret = "ignored" => m.key \notin consumed
      BY <1>1, <1>3, <2>3 DEF Used, KeyInOnePlace
    <2>4. \A k \in Keys : keys'[k].st = "none" => k \notin consumed
      BY <1>1 DEF Used, KeyInOnePlace
    <2>5. QED
      BY <2>1, <2>2, <2>3, <2>4 DEF KeyInOnePlace
  <1>5. KeyOfItsProxy'
    <2>1. ASSUME NEW k \in Keys
          PROVE  /\ keys'[k].to <= daemon.lives
                 /\ keys'[k].st # "pending"
                 /\ keys'[k].st = "cancelled" => keys'[k].to # Nobody
      <3>1. /\ keys[k].to <= daemon.lives
            /\ keys[k].st \in {"pending", "cancelled"} => keys[k].to # Nobody
        BY DEF Used, KeyOfItsProxy
      <3>2. keys'[k].to = keys[k].to
        BY <1>1
      <3>3. keys'[k].st = IF keys[k].st = "pending" THEN "cancelled" ELSE keys[k].st
        BY <1>1
      <3>4. keys'[k].st # "pending"
        BY <3>3
      <3>5. keys'[k].st = "cancelled" => keys[k].st \in {"pending", "cancelled"}
        BY <3>3
      <3>6. QED
        BY <3>1, <3>2, <3>4, <3>5
    <2>2. QED
      BY <2>1 DEF KeyOfItsProxy
  <1>6. KeysOnce'
    <2>1. ASSUME NEW k \in Keys
          PROVE  /\ keys'[k].st \in {"putback", "delivered"} =>
                      k \notin consumed \/ keys'[k].failed
                 /\ keys'[k].st = "dropped" => k \in consumed \/ keys'[k].failed
                 /\ keys'[k].st = "cancelled" =>
                      keys'[k].to # daemon.up \/ keys'[k].stale \/ client'.st = "closed"
      <3>1. /\ keys[k].st \in {"putback", "delivered"} => k \notin consumed \/ keys[k].failed
            /\ keys[k].st = "dropped" => k \in consumed \/ keys[k].failed
            /\ keys[k].st = "cancelled" => keys[k].to # daemon.up \/ keys[k].stale
        BY DEF Used, KeysOnce
      <3>2. QED
        BY <1>1, <3>1
    <2>2. QED
      BY <2>1 DEF KeysOnce, IsOpen
  <1>7. QED
    BY <1>4, <1>5, <1>6 DEF Used

\* What dispatching a message does to the queue.
LEMMA Dispatching ==
    ASSUME Types, inbox # <<>>, inbox' = Tail(inbox)
    PROVE  /\ inbox' \in Seq(Messages) /\ Head(inbox) \in Messages
           /\ Head(inbox) \in In(inbox)
           /\ In(inbox) = {Head(inbox)} \union In(inbox')
           /\ \A a, b : Before(inbox', a, b) => Before(inbox, a, b)
           /\ \A b \in In(inbox') : Before(inbox, Head(inbox), b)
  <1>1. inbox \in Seq(Messages)
    BY DEF Types
  <1>2. QED
    BY <1>1, TakeFirst

\* A notice that changes neither the proxies nor the keys.
LEMMA NoticeIgnored ==
    ASSUME IInv, inbox # <<>>, IsOpen, inbox' = Tail(inbox), consumed' = consumed,
           daemon' = daemon, client' = client, keys' = keys,
           daemon.up # Nobody => Head(inbox) # Name(daemon.up),
           Head(inbox) # Gone(client.proxy)
    PROVE  IInv'
  <1>1. Types /\ Bound /\ Used
    BY DEF IInv
  <1>2. /\ inbox' \in Seq(Messages) /\ In(inbox) = {Head(inbox)} \union In(inbox')
        /\ \A a, b : Before(inbox', a, b) => Before(inbox, a, b)
    BY <1>1, Dispatching
  <1>3. Types'
    BY <1>1, <1>2 DEF Types
  <1>4. Bound'
    <2>1. daemon.up = Nobody => daemon'.ctx = <<>> /\ daemon'.requests = <<>>
      BY <1>1 DEF Bound, Incarnations
    <2>2. \A id \in Nat : Mine(id) => Mine(id)'
      BY DEF Mine
    <2>3. Forsaken => Gone(client.proxy) \in In(inbox')
      BY <1>2 DEF Forsaken
    <2>4. QED
      BY <1>1, <1>2, <1>3, <2>1, <2>2, <2>3, BoundKept
  <1>5. Used'
    BY <1>1, <1>2, <1>3, StateFields, QuietKeys
  <1>6. QED
    BY <1>3, <1>4, <1>5 DEF IInv

\* FcitxIMClientOpen: no key was sent before, so none was cancelled.
LEMMA OpenKeeps ==
    ASSUME IInv, Open
    PROVE  IInv'
  <1> DEFINE c == [client EXCEPT !.st = "open"]
             q == [type |-> "create", call |-> client.calls + 1]
  <1>1. Types /\ Bound /\ Used
    BY DEF IInv
  <1>2. CreateIC(c) /\ client.st = "new" /\ inbox' = inbox /\ keys' = keys
        /\ consumed' = consumed
    BY DEF Open
  <1>3. c \in Clients /\ c.st = "open" /\ c.ic = client.ic /\ c.calls = client.calls
    BY <1>1 DEF Types, Clients
  <1> HIDE DEF c
  <1>4. client.ic = NoIC /\ client.proxy = Nobody /\ client.call = 0 /\ inbox = <<>>
    BY <1>1, <1>2 DEF Bound, ShutIsIdle, IsOpen
  <1>5. /\ client' \in Clients /\ client'.st = "open" /\ client'.ic = NoIC
        /\ daemon' \in DaemonStates
        /\ daemon'.up = daemon.up /\ daemon'.lives = daemon.lives /\ daemon'.ctx = daemon.ctx
        /\ \/ /\ client'.proxy = Nobody /\ client'.call = 0 /\ client'.calls = client.calls
              /\ daemon'.requests = daemon.requests
           \/ /\ daemon.up # Nobody /\ client'.proxy = daemon.up
              /\ client'.call = client.calls + 1 /\ client'.calls = client.calls + 1
              /\ daemon'.requests = Append(daemon.requests, q)
    BY <1>1, <1>2, <1>3, <1>4, Asks
  <1>6. Types'
    BY <1>1, <1>2, <1>5 DEF Types
  <1>7. NoticesInOrder'
    <2>1. In(inbox') = {}
      BY <1>2, <1>4, ShortQueues
    <2>2. QED
      BY <2>1 DEF NoticesInOrder
  <1>8. Bound'
    BY <1>1, <1>2, <1>5, <1>6, <1>7, FreshBound
  <1>9. /\ \A r \in In(daemon'.requests) : r.type = "key" => r \in In(daemon.requests)
        /\ \A r, p : Before(daemon'.requests, r, p) /\ r.type = "key" /\ p.type = "key" =>
             Before(daemon.requests, r, p)
    <2>1. client.calls + 1 \in Nat /\ daemon.requests \in Seq(Requests)
      BY <1>1, StateFields
    <2>2. q \in Requests /\ q.type = "create"
      BY <2>1 DEF Requests
    <2> HIDE DEF q
    <2>3. /\ In(Append(daemon.requests, q)) = In(daemon.requests) \union {q}
          /\ \A a, b : Before(Append(daemon.requests, q), a, b) =>
               Before(daemon.requests, a, b) \/ (a \in In(daemon.requests) /\ b = q)
      BY <2>1, <2>2, PutOne
    <2>4. CASE daemon'.requests = daemon.requests
      BY <2>4
    <2>5. CASE daemon'.requests = Append(daemon.requests, q)
      BY <2>2, <2>3, <2>5
    <2>6. QED
      BY <1>5, <2>4, <2>5
  <1>10. \A k \in Keys : /\ keys[k].st # "cancelled"
                         /\ keys[k].st = "pending" => keys[k].stale
    BY <1>1, <1>2, <1>4 DEF Used, KeyOfItsProxy
  <1>11. Used'
    <2>1. KeyInOnePlace'
      BY <1>1, <1>2, <1>9 DEF Used, KeyInOnePlace
    <2>2. KeyOfItsProxy'
      BY <1>1, <1>2, <1>5, <1>10 DEF Used, KeyOfItsProxy
    <2>3. KeysOnce'
      BY <1>1, <1>2, <1>10 DEF Used, KeysOnce
    <2>4. QED
      BY <2>1, <2>2, <2>3 DEF Used
  <1>12. QED
    BY <1>6, <1>8, <1>11 DEF IInv

\* FcitxIMClientClose: everything under way is let go.
LEMMA CloseKeeps ==
    ASSUME IInv, Close
    PROVE  IInv'
  <1> DEFINE q == [type |-> "destroy", id |-> client.ic.id]
  <1>1. Types /\ Bound /\ Used /\ daemon \in DaemonStates
    BY DEF IInv, Types
  <1>2. /\ IsOpen /\ inbox' = <<>> /\ keys' = Cancelled /\ consumed' = consumed
        /\ daemon' = IF client.ic # NoIC THEN ToDaemon(client.ic.owner, q) ELSE daemon
        /\ client' = [client EXCEPT !.st = "closed", !.proxy = 0, !.ic = NoIC, !.call = 0]
    BY DEF Close, Nobody
  <1>3. /\ client' \in Clients /\ client'.st = "closed" /\ client'.proxy = 0
        /\ client'.ic = NoIC /\ client'.call = 0 /\ client'.calls = client.calls
    BY <1>1, <1>2, StateFields DEF Types, Clients
  <1>4. q \in Requests /\ q.type = "destroy"
    BY <1>1, StateFields DEF Requests
  <1> HIDE DEF q
  <1>5. /\ daemon' \in DaemonStates
        /\ daemon'.up = daemon.up /\ daemon'.lives = daemon.lives /\ daemon'.ctx = daemon.ctx
        /\ \/ daemon'.requests = daemon.requests
           \/ daemon'.requests = Append(daemon.requests, q) /\ daemon.up = client.ic.owner
                /\ client.ic # NoIC
    BY <1>1, <1>2, <1>4, SentTo, StateFields
  <1>6. /\ In(daemon'.requests) \subseteq In(daemon.requests) \union {q}
        /\ \A a, b : Before(daemon'.requests, a, b) =>
             Before(daemon.requests, a, b) \/ (a \in In(daemon.requests) /\ b = q)
    <2>1. daemon.requests \in Seq(Requests)
      BY <1>1, StateFields
    <2>2. CASE daemon'.requests = daemon.requests
      BY <2>2
    <2>3. CASE daemon'.requests = Append(daemon.requests, q)
      BY <1>4, <2>1, <2>3, PutOne
    <2>4. QED
      BY <1>5, <2>2, <2>3
  <1>7. Types'
    <2>1. <<>> \in Seq(Messages)
      OBVIOUS
    <2>2. QED
      BY <1>1, <1>2, <1>3, <1>5, <2>1, CancelledFacts DEF Types
  <1>8. In(inbox') = {} /\ \A a, b : ~ Before(inbox', a, b)
    BY <1>2, ShortQueues
  <1>9. Bound'
    <2>1. Incarnations'
      <3>1. client.ic # NoIC => client.ic.owner # Nobody
        <4>1. client.ic # NoIC => client.ic.owner \in 1 .. daemon.lives
          BY <1>1 DEF Bound, NamedFirst
        <4>2. QED
          BY <1>1, <4>1, StateFields DEF Nobody
      <3>2. QED
        BY <1>1, <1>5, <3>1 DEF Bound, Incarnations
    <2>2. ShutIsIdle' /\ NoticesInOrder' /\ CreatedBelongs'
      BY <1>2, <1>3, <1>8 DEF ShutIsIdle, NoticesInOrder, CreatedBelongs, Nobody
    <2>3. CallBelongs'
      <3>1. ASSUME NEW r \in In(daemon'.requests), r.type = "create"
            PROVE  r.call \in 1 .. client.calls
        BY <1>1, <1>4, <1>6, <3>1 DEF Bound, CallBelongs
      <3>2. \A r \in In(daemon'.requests) : r.type = "create" => r.call # 0
        BY <1>1, <3>1, StateFields
      <3>3. QED
        BY <1>1, <1>3, <1>5, <3>1, <3>2, StateFields DEF CallBelongs
    <2>4. ContextIsMine' /\ NamedFirst'
      BY <1>3 DEF ContextIsMine, NamedFirst
    <2>5. QED
      BY <2>1, <2>2, <2>3, <2>4 DEF Bound
  <1>10. Used'
    BY <1>1, <1>2, <1>3, <1>4, <1>5, <1>6, <1>7, <1>8, CancelKeeps
  <1>11. QED
    BY <1>7, <1>9, <1>10 DEF IInv

\* _changed_cb: the name changed hands.
LEMMA NameKeeps ==
    ASSUME IInv, inbox # <<>>, IsOpen, Head(inbox).type = "name", NameChanged(Head(inbox)),
           inbox' = Tail(inbox), consumed' = consumed
    PROVE  IInv'
  <1> DEFINE m == Head(inbox)
             c == [client EXCEPT !.ic = NoIC, !.enable = @ \/ client.proxy # Nobody]
             q == [type |-> "create", call |-> client.calls + 1]
  <1>1. Types /\ Bound /\ Used
    BY DEF IInv
  <1>2. /\ inbox' \in Seq(Messages) /\ m \in Messages /\ m \in In(inbox)
        /\ In(inbox) = {m} \union In(inbox')
        /\ \A a, b : Before(inbox', a, b) => Before(inbox, a, b)
    BY <1>1, Dispatching
  <1>3. m.type = "name" /\ m = Name(m.owner)
    BY <1>2, MessageFields
  <1>4. CASE m.owner = Nobody
    <2>1. daemon' = daemon /\ client' = client /\ keys' = keys
      BY <1>4 DEF NameChanged
    <2>2. daemon.up # Nobody => m # Name(daemon.up)
      BY <1>4, MessageTypes
    <2>3. m # Gone(client.proxy)
      BY <1>3, MessageTypes
    <2>4. QED
      BY <2>1, <2>2, <2>3, NoticeIgnored
  <1>5. CASE m.owner # Nobody
    <2>1. CreateIC(c) /\ keys' = Cancelled
      BY <1>5 DEF NameChanged
    <2>2. c \in Clients /\ c.st = "open" /\ c.ic = NoIC /\ c.calls = client.calls
      BY <1>1, StateFields DEF Types, Clients, IsOpen
    <2> HIDE DEF m, c
    <2>3. /\ client' \in Clients /\ client'.st = "open" /\ client'.ic = NoIC
          /\ daemon' \in DaemonStates
          /\ daemon'.up = daemon.up /\ daemon'.lives = daemon.lives /\ daemon'.ctx = daemon.ctx
          /\ \/ /\ client'.proxy = Nobody /\ client'.call = 0 /\ client'.calls = client.calls
                /\ daemon'.requests = daemon.requests
             \/ /\ daemon.up # Nobody /\ client'.proxy = daemon.up
                /\ client'.call = client.calls + 1 /\ client'.calls = client.calls + 1
                /\ daemon'.requests = Append(daemon.requests, q)
      BY <1>1, <2>1, <2>2, Asks
    <2>4. Types'
      BY <1>1, <1>2, <2>1, <2>3, CancelledFacts DEF Types
    <2>5. NoticesInOrder'
      BY <1>1, <2>3, NoticesTail
    <2>6. Bound'
      BY <1>1, <1>2, <2>3, <2>4, <2>5, FreshBound DEF IsOpen
    <2>7. /\ \A r \in In(daemon'.requests) : r.type = "key" => r \in In(daemon.requests)
          /\ \A r, p : Before(daemon'.requests, r, p) /\ r.type = "key" /\ p.type = "key" =>
               Before(daemon.requests, r, p)
      <3>1. client.calls + 1 \in Nat /\ daemon.requests \in Seq(Requests)
        BY <1>1, StateFields
      <3>2. q \in Requests /\ q.type = "create"
        BY <3>1 DEF Requests
      <3> HIDE DEF q
      <3>3. /\ In(Append(daemon.requests, q)) = In(daemon.requests) \union {q}
            /\ \A a, b : Before(Append(daemon.requests, q), a, b) =>
                 Before(daemon.requests, a, b) \/ (a \in In(daemon.requests) /\ b = q)
        BY <3>1, <3>2, PutOne
      <3>4. CASE daemon'.requests = daemon.requests
        BY <3>4
      <3>5. CASE daemon'.requests = Append(daemon.requests, q)
        BY <3>2, <3>3, <3>5
      <3>6. QED
        BY <2>3, <3>4, <3>5
    <2>8. \A k \in Keys : keys[k].st = "pending" /\ ~keys[k].stale => keys[k].to # daemon.up
      <3> SUFFICES ASSUME NEW k \in Keys, keys[k].st = "pending", ~keys[k].stale,
                          keys[k].to = daemon.up
                   PROVE  FALSE
        OBVIOUS
      <3>1. daemon.up # Nobody /\ Name(daemon.up) \notin In(inbox)
        BY <1>1 DEF Used, KeyOfItsProxy
      <3>2. Name(daemon.up) \in In(inbox)
        BY <1>1, <1>2, <1>3, <1>5, <3>1 DEF Bound, NoticesInOrder
      <3>3. QED
        BY <3>1, <3>2
    <2>9. Used'
      BY <1>1, <1>2, <2>1, <2>3, <2>4, <2>7, <2>8, CancelKeeps
    <2>10. QED
      BY <2>4, <2>6, <2>9 DEF IInv
  <1>6. QED
    BY <1>4, <1>5

\* _destroy_cb: the incarnation of the proxy is gone.
LEMMA GoneKeeps ==
    ASSUME IInv, inbox # <<>>, IsOpen, Head(inbox).type = "gone", Destroyed(Head(inbox)),
           inbox' = Tail(inbox), consumed' = consumed
    PROVE  IInv'
  <1> DEFINE m == Head(inbox)
  <1>1. Types /\ Bound /\ Used
    BY DEF IInv
  <1>2. /\ inbox' \in Seq(Messages) /\ m \in Messages /\ m \in In(inbox)
        /\ In(inbox) = {m} \union In(inbox')
        /\ \A a, b : Before(inbox', a, b) => Before(inbox, a, b)
    BY <1>1, Dispatching
  <1>3. m.type = "gone" /\ m = Gone(m.owner) /\ m.owner # daemon.up
    BY <1>1, <1>2, MessageFields DEF Bound, NoticesInOrder
  <1>4. CASE client.proxy # m.owner
    <2>1. daemon' = daemon /\ client' = client /\ keys' = keys
      BY <1>4 DEF Destroyed
    <2>2. m # Name(daemon.up)
      BY <1>3, MessageTypes
    <2>3. m # Gone(client.proxy)
      BY <1>4, MessageTypes
    <2>4. QED
      BY <2>1, <2>2, <2>3, NoticeIgnored
  <1>5. CASE client.proxy = m.owner
    <2>1. /\ client' = [client EXCEPT !.proxy = 0, !.ic = NoIC, !.call = 0, !.enable = TRUE]
          /\ keys' = Cancelled /\ daemon' = daemon
      BY <1>5 DEF Destroyed, Nobody
    <2> HIDE DEF m
    <2>2. /\ client' \in Clients /\ client'.st = "open" /\ client'.proxy = Nobody
          /\ client'.ic = NoIC /\ client'.call = 0 /\ client'.calls = client.calls
      BY <1>1, <2>1, StateFields DEF Types, Clients, IsOpen
    <2>3. Types'
      BY <1>1, <1>2, <2>1, <2>2, CancelledFacts DEF Types
    <2>4. NoticesInOrder'
      BY <1>1, <2>1, NoticesTail
    <2>5. Bound'
      BY <1>1, <1>2, <2>1, <2>2, <2>3, <2>4, FreshBound DEF IsOpen
    <2>6. \A k \in Keys : keys[k].st = "pending" /\ ~keys[k].stale => keys[k].to # daemon.up
      BY <1>1, <1>3, <1>5 DEF Used, KeyOfItsProxy
    <2>7. Used'
      BY <1>1, <1>2, <2>1, <2>2, <2>3, <2>6, CancelKeeps
    <2>8. QED
      BY <2>3, <2>5, <2>7 DEF IInv
  <1>6. QED
    BY <1>4, <1>5

\* FcitxIMClientCreateICCallback: the number in the answer is of a context of
\* this client in the incarnation that runs, or the notice is on its way.
LEMMA CreatedKeeps ==
    ASSUME IInv, inbox # <<>>, IsOpen, Head(inbox).type = "created", ICCreated(Head(inbox)),
           inbox' = Tail(inbox), consumed' = consumed
    PROVE  IInv'
  <1> DEFINE m == Head(inbox)
             i == IF daemon.up = Nobody THEN NoIC ELSE [owner |-> daemon.up, id |-> m.id]
  <1>1. Types /\ Bound /\ Used
    BY DEF IInv
  <1>2. /\ inbox' \in Seq(Messages) /\ m \in Messages /\ m \in In(inbox)
        /\ In(inbox) = {m} \union In(inbox')
        /\ \A a, b : Before(inbox', a, b) => Before(inbox, a, b)
        /\ \A b \in In(inbox') : Before(inbox, m, b)
    BY <1>1, Dispatching
  <1>3. m.type = "created" /\ m.id \in Nat /\ m.on \in BOOLEAN
    BY <1>2, MessageFields
  <1>4. CASE client.call # m.call
    <2>1. daemon' = daemon /\ client' = client /\ keys' = keys
      BY <1>4 DEF ICCreated
    <2>2. m # Name(daemon.up) /\ m # Gone(client.proxy)
      BY <1>3, MessageTypes
    <2>3. QED
      BY <2>1, <2>2, NoticeIgnored
  <1>5. CASE client.call = m.call
    <2>1. /\ client' = [client EXCEPT !.call = 0, !.enable = m.on, !.ic = i]
          /\ daemon' = daemon /\ keys' = keys
      BY <1>5 DEF ICCreated
    <2> HIDE DEF m
    <2>2. i \in ICs
      BY <1>1, <1>3, StateFields DEF ICs
    <2>3. /\ daemon.up = Nobody => i = NoIC
          /\ daemon.up # Nobody => i.owner = daemon.up /\ i.id = m.id
      OBVIOUS
    <2> HIDE DEF i
    <2>4. /\ client' \in Clients /\ client'.st = client.st /\ client'.proxy = client.proxy
          /\ client'.calls = client.calls /\ client'.call = 0 /\ client'.ic = i
      BY <1>1, <1>3, <2>1, <2>2 DEF Types, Clients
    <2>5. Types'
      BY <1>1, <1>2, <2>1, <2>4 DEF Types
    <2>6. Incarnations' /\ ShutIsIdle'
      BY <1>1, <2>1, <2>4 DEF Bound, Incarnations, ShutIsIdle, IsOpen
    <2>7. NoticesInOrder'
      BY <1>1, <2>1, NoticesTail
    <2>8. CallBelongs'
      <3>1. \A r \in In(daemon.requests) : r.type = "create" => r.call \in 1 .. client.calls
        BY <1>1 DEF Bound, CallBelongs
      <3>2. \A r \in In(daemon.requests) : r.type = "create" => r.call # 0
        BY <1>1, <3>1, StateFields
      <3>3. QED
        BY <1>1, <2>1, <2>4, <3>1, <3>2, StateFields DEF Bound, CallBelongs
    <2>9. CreatedBelongs'
      <3>1. \A n \in In(inbox') : n.type = "created" => n.call \in 1 .. client.calls
        BY <1>1, <1>2 DEF Bound, CreatedBelongs
      <3>2. \A n \in In(inbox') : n.type = "created" => n.call # 0
        BY <1>1, <3>1, StateFields
      <3>3. QED
        BY <2>4, <3>1, <3>2 DEF CreatedBelongs
    <2>10. /\ Forsaken \/ (daemon.up = client.proxy /\ Mine(m.id))
           /\ Nobody # daemon.up /\ daemon.up = client.proxy =>
                ~Before(inbox, m, Name(daemon.up))
      BY <1>1, <1>2, <1>3, <1>5 DEF Bound, CreatedBelongs
    <2>11. ContextIsMine'
      <3>1. Forsaken => Forsaken'
        BY <1>2, <1>3, <2>4, MessageTypes DEF Forsaken
      <3>2. ASSUME i # NoIC, ~Forsaken
            PROVE  i.owner = client.proxy /\ client.proxy = daemon.up /\ Mine(i.id)
        BY <2>3, <2>10, <3>2
      <3>3. Mine(client.ic.id)' = Mine(i.id)
        BY <2>1, <2>4 DEF Mine
      <3>4. QED
        BY <2>1, <2>4, <2>5, <3>1, <3>2, <3>3, MineMeansNext
    <2>12. NamedFirst'
      <3> SUFFICES ASSUME i # NoIC
                   PROVE  /\ i.owner \in 1 .. daemon.lives
                          /\ i.owner = client.proxy /\ client.proxy = daemon.up =>
                               Name(daemon.up) \notin In(inbox')
        BY <2>1, <2>4 DEF NamedFirst
      <3>1. daemon.up # Nobody /\ i.owner = daemon.up
        BY <2>3
      <3>2. daemon.up \in 1 .. daemon.lives
        BY <1>1, <3>1, StateFields DEF Bound, Incarnations
      <3>3. client.proxy = daemon.up => Name(daemon.up) \notin In(inbox')
        BY <1>2, <2>10, <3>1
      <3>4. QED
        BY <3>1, <3>2, <3>3
    <2>13. Used'
      BY <1>1, <1>2, <2>1, <2>4, <2>5, StateFields, QuietKeys
    <2>14. QED
      BY <2>5, <2>6, <2>7, <2>8, <2>9, <2>11, <2>12, <2>13 DEF IInv, Bound
  <1>6. QED
    BY <1>4, <1>5

\* Dispatch of the next message.
LEMMA DispatchKeeps ==
    ASSUME IInv, Dispatch
    PROVE  IInv'
  <1> DEFINE m == Head(inbox)
  <1>1. IsOpen /\ inbox # <<>> /\ inbox' = Tail(inbox) /\ consumed' = consumed
    BY DEF Dispatch
  <1>2. \/ m.type = "name" /\ NameChanged(m)
        \/ m.type = "gone" /\ Destroyed(m)
        \/ m.type = "created" /\ ICCreated(m)
        \/ m.type = "answer" /\ KeyAnswered(m)
        \/ m.type \in {"EnableIM", "CloseIM"} /\ Switched(m)
    BY DEF Dispatch
  <1>3. QED
    BY <1>1, <1>2, NameKeeps, GoneKeeps, CreatedKeeps, AnswerKeeps, SignalKeeps

\* DBusProcessEvent dispatches the next call.
LEMMA ServeKeeps ==
    ASSUME IInv, Serve
    PROVE  IInv'
  BY ServeCreateKeeps, ServeDestroyKeeps, ServeKeyKeeps DEF Serve

-----------------------------------------------------------------------------
(* The theorems. *)

\* Nothing is under way at first.
LEMMA InitKeeps == Init => IInv
  <1> SUFFICES ASSUME Init  PROVE IInv
    OBVIOUS
  <1>1. PICK sync \in BOOLEAN :
          client = [st |-> "new", sync |-> sync, failed |-> FALSE, proxy |-> Nobody,
                    call |-> 0, calls |-> 0, ic |-> NoIC, enable |-> FALSE, waiting |-> 0]
    BY DEF Init
  <1>2. /\ daemon = [up |-> Nobody, lives |-> 0, ctx |-> <<>>, requests |-> <<>>]
        /\ inbox = <<>> /\ consumed = {}
        /\ keys = [k \in Keys |-> [st |-> "none", to |-> Nobody, failed |-> FALSE,
                                   stale |-> FALSE]]
    BY DEF Init
  <1>3. Nobody \in Nat /\ NoIC \in ICs
    BY DEF Nobody, NoIC, ICs
  <1>4. Types
    <2>1. <<>> \in Seq(Contexts) /\ <<>> \in Seq(Requests) /\ <<>> \in Seq(Messages)
      OBVIOUS
    <2>2. daemon \in DaemonStates
      BY <1>2, <1>3, <2>1 DEF DaemonStates
    <2>3. client \in Clients
      BY <1>1, <1>3 DEF Clients
    <2>4. keys \in [Keys -> KeyStates]
      BY <1>2, <1>3 DEF KeyStates
    <2>5. QED
      BY <1>2, <2>1, <2>2, <2>3, <2>4 DEF Types
  <1>5. In(inbox) = {} /\ In(daemon.requests) = {}
    BY <1>2, ShortQueues
  <1>6. Bound
    <2>1. Incarnations /\ ShutIsIdle /\ ContextIsMine /\ NamedFirst
      BY <1>1, <1>2 DEF Incarnations, ShutIsIdle, ContextIsMine, NamedFirst
    <2>2. NoticesInOrder /\ CallBelongs /\ CreatedBelongs
      BY <1>1, <1>2, <1>5 DEF NoticesInOrder, CallBelongs, CreatedBelongs, Nobody
    <2>3. QED
      BY <2>1, <2>2 DEF Bound
  <1>7. Used
    BY <1>1, <1>2, <1>5 DEF Used, KeyInOnePlace, KeyOfItsProxy, KeysOnce, Nobody
  <1>8. QED
    BY <1>4, <1>6, <1>7 DEF IInv

\* Every step keeps the invariant: one case per action.
LEMMA StepKeeps == IInv /\ [Next]_vars => IInv'
  <1> SUFFICES ASSUME IInv, [Next]_vars  PROVE IInv'
    OBVIOUS
  <1>1. CASE Open
    BY <1>1, OpenKeeps
  <1>2. CASE Close
    BY <1>2, CloseKeeps
  <1>3. CASE ClientStep
    BY <1>3, DispatchKeeps, SyncKeeps, PutBackKeeps DEF ClientStep
  <1>4. CASE \E k \in Keys, trigger \in BOOLEAN : FilterKeypress(k, trigger)
    BY <1>4, FilterKeeps
  <1>5. CASE TimeOut
    BY <1>5, TimeOutKeeps
  <1>6. CASE Start
    BY <1>6, StartKeeps
  <1>7. CASE Stop
    BY <1>7, StopKeeps
  <1>8. CASE OtherCreates
    BY <1>8, OtherKeeps
  <1>9. CASE \E id \in 0 .. (Len(daemon.ctx) - 1) : ToggleElsewhere(id)
    BY <1>9, ToggleKeeps
  <1>10. CASE Serve
    BY <1>10, ServeKeeps
  <1>11. CASE UNCHANGED vars
    <2>1. /\ daemon' = daemon /\ client' = client /\ inbox' = inbox /\ keys' = keys
          /\ consumed' = consumed
      BY <1>11 DEF vars
    <2>2. Types /\ Bound /\ Used
      BY DEF IInv
    <2>3. Types'
      BY <2>1, <2>2 DEF Types
    <2>4. Bound'
      BY <2>1, <2>2, <2>3, KeysOnlyBound
    <2>5. Used'
      BY <2>1, <2>2, <2>3, StateFields, QuietKeys
    <2>6. QED
      BY <2>3, <2>4, <2>5 DEF IInv
  <1>12. QED
    BY <1>1, <1>2, <1>3, <1>4, <1>5, <1>6, <1>7, <1>8, <1>9, <1>10, <1>11 DEF Next

\* The strengthened invariant holds in every state.
THEOREM Invariance == Spec => []IInv
  BY InitKeeps, StepKeeps, PTL DEF Spec

\* The context a client sends its keys to was created for it by the daemon it
\* talks to (FcitxIMClientCreateICCallback), unless the notice that this
\* incarnation is gone is in the client's queue.
THEOREM ContextCorrect == Spec => []ContextIsMine
  <1>1. IInv => ContextIsMine
    BY DEF IInv, Bound
  <1>2. QED
    BY <1>1, Invariance, PTL

\* A key is not handed to the application when the daemon handled it, nor
\* dropped when it did not, and its call is cancelled only with its incarnation
\* (_fcitx_im_context_process_key_cb), but for calls that failed, went to
\* another incarnation's context or were under way when the client closed.
THEOREM KeysCorrect == Spec => []KeysOnce
  <1>1. IInv => KeysOnce
    BY DEF IInv, Used
  <1>2. QED
    BY <1>1, Invariance, PTL

=============================================================================
