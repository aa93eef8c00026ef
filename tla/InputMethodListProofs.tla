------------------------ MODULE InputMethodListProofs ------------------------
(***************************************************************************)
(* The list of input methods, for every set of methods and addons, every   *)
(* set of methods that fail to load, every list a client sets and any      *)
(* number of switches, reloads, signals and starts.                        *)
(*                                                                         *)
(* SwitchIM and UpdateIMList call each other, so each invariant speaks of  *)
(* the calls in progress as well as of the state.                          *)
(*                                                                         *)
(* CurrentUsable: an entry copies availimes as it was or as it is (Known); *)
(* under a call that loaded its method lies the promise that the list is   *)
(* rebuilt before the method is looked up, or was (ReloadsWait); and once  *)
(* a call has selected, the entry stays usable (Settled).                  *)
(*                                                                         *)
(* ListSaved: as long as the file is out of date a call in progress has    *)
(* yet to save, or is half-way through saving (Saving).                    *)
(*                                                                         *)
(* TypeOK: the indices are bounded because no list names a method twice    *)
(* (Distinct), and the nesting because only calls on top call.             *)
(*                                                                         *)
(* ChoiceKept: from the call of the client to the next one, what it asked  *)
(* for is in the list being taken over (Lists), from there in the entries  *)
(* (Enabled), and from there in the list that is saved; a method that is   *)
(* gone because it failed to load is in no list, and comes back with the   *)
(* next start (Inventory).                                                 *)
(*                                                                         *)
(* CurrentRestored: the list that is saved is taken over whole by the next *)
(* start unless a load fails (Taken), the daemon knows a method to return  *)
(* to while firstAsInactive has it off (Recalled), so what is saved asks   *)
(* for the method in use; the next start selects it, or lost a method on   *)
(* the way (Restoring).                                                    *)
(*                                                                         *)
(* The lemmas before these say what each helper returns - a filtered and a *)
(* sorted list, the index of a name, the stack a call leaves - and give    *)
(* each action one lemma (LoadStep, ReloadStep, ...) with what it changes, *)
(* so that the invariants are proved without unfolding the actions again.  *)
(***************************************************************************)
EXTENDS InputMethodList, SequenceTheorems, FiniteSetTheorems, NaturalsInduction,
        WellFoundedInduction, TLAPS

-----------------------------------------------------------------------------
(* The filter of a list. *)

\* A set of numbers that is not empty has a smallest one.
LEMMA SmallestNumber ==
    ASSUME NEW T \in SUBSET Nat, T # {}
    PROVE  \E n \in T : \A m \in T : n <= m
  <1> DEFINE R == OpToRel(<, Nat)
  <1>1. IsWellFoundedOn(R, Nat)
    BY NatLessThanWellFounded
  <1>2. \A x, y \in Nat : <<y, x>> \in R <=> y < x
    BY DEF OpToRel
  <1> HIDE DEF R
  <1>3. PICK n \in T : \A m \in T : ~(<<m, n>> \in R)
    BY <1>1, WFMin, Zenon
  <1>4. ASSUME NEW m \in T
        PROVE  n <= m
    <2>1. n \in Nat /\ m \in Nat
      OBVIOUS
    <2>2. ~(m < n)
      BY <1>2, <1>3, <2>1
    <2>3. QED
      BY <2>1, <2>2
  <1>5. QED
    BY <1>4

\* f is the filter of list by S, up to its m-th element.
KeepsUpTo(f, list, S, m) ==
    \A i \in 0 .. m :
      f[i] = IF i = 0 THEN <<>>
             ELSE IF list[i] \in S THEN Append(f[i - 1], list[i]) ELSE f[i - 1]

\* The function that filters a list is there, one element after the other.
LEMMA FilterExists ==
    ASSUME NEW E, NEW list \in Seq(E), NEW S, NEW n \in Nat, n <= Len(list)
    PROVE  \E f \in [0 .. n -> Seq(E)] : KeepsUpTo(f, list, S, n)
  <1> DEFINE There(m) == \E f \in [0 .. m -> Seq(E)] : KeepsUpTo(f, list, S, m)
             missing == {m \in 0 .. n : ~There(m)}
  <1>1. ASSUME missing # {}
        PROVE  FALSE
    <2>1. PICK t \in missing : \A m \in missing : t <= m
      <3>1. missing \subseteq Nat
        OBVIOUS
      <3>2. QED
        BY <1>1, <3>1, SmallestNumber
    <2>2. t \in 0 .. n /\ ~There(t)
      BY <2>1
    <2>3. CASE t = 0
      <3> DEFINE f == [i \in 0 .. 0 |-> <<>>]
      <3>1. f \in [0 .. 0 -> Seq(E)] /\ KeepsUpTo(f, list, S, 0)
        BY DEF KeepsUpTo
      <3>2. QED
        BY <2>2, <2>3, <3>1
    <2>4. CASE t # 0
      <3>1. t - 1 \in 0 .. n /\ t - 1 < t
        BY <2>2, <2>4
      <3>2. There(t - 1)
        BY <2>1, <3>1
      <3>3. PICK f \in [0 .. t - 1 -> Seq(E)] : KeepsUpTo(f, list, S, t - 1)
        BY <3>2
      <3> DEFINE last == IF list[t] \in S THEN Append(f[t - 1], list[t]) ELSE f[t - 1]
                 g == [i \in 0 .. t |-> IF i = t THEN last ELSE f[i]]
      <3>4. last \in Seq(E)
        <4>1. t \in 1 .. Len(list)
          BY <2>2, <2>4
        <4>2. list[t] \in E /\ f[t - 1] \in Seq(E)
          BY <3>1, <4>1, <2>2
        <4>3. QED
          BY <4>2
      <3>5. g \in [0 .. t -> Seq(E)]
        BY <2>2, <3>4
      <3>6. KeepsUpTo(g, list, S, t)
        <4>1. ASSUME NEW i \in 0 .. t, i # t
              PROVE  /\ i \in 0 .. t - 1 /\ g[i] = f[i]
                     /\ i # 0 => g[i - 1] = f[i - 1]
          BY <2>2, <4>1
        <4>2. g[t] = last /\ g[t - 1] = f[t - 1]
          BY <2>2, <2>4
        <4> HIDE DEF g, last
        <4>3. ASSUME NEW i \in 0 .. t
              PROVE  g[i] = IF i = 0 THEN <<>>
                            ELSE IF list[i] \in S THEN Append(g[i - 1], list[i]) ELSE g[i - 1]
          <5>1. CASE i = t
            BY <2>4, <4>2, <5>1 DEF last
          <5>2. CASE i # t
            BY <3>3, <4>1, <5>2 DEF KeepsUpTo
          <5>3. QED
            BY <5>1, <5>2
        <4>4. QED
          BY <4>3 DEF KeepsUpTo
      <3>7. QED
        BY <2>2, <3>5, <3>6
    <2>5. QED
      BY <2>3, <2>4
  <1>2. n \in 0 .. n
    OBVIOUS
  <1>3. QED
    BY <1>1, <1>2

\* What the filter's definition by recursion computes.
LEMMA KeptUnfolds ==
    ASSUME NEW E, NEW list \in Seq(E), NEW S
    PROVE  \E f : KeepsUpTo(f, list, S, Len(list)) /\ Kept(list, S) = f[Len(list)]
  <1> DEFINE n == Len(list)
             Unfold(g) == [i \in 0 .. n |->
                             IF i = 0 THEN <<>>
                             ELSE IF list[i] \in S THEN Append(g[i - 1], list[i]) ELSE g[i - 1]]
             f == CHOOSE g : g = Unfold(g)
  <1>1. n \in Nat /\ n <= Len(list)
    OBVIOUS
  <1>2. Kept(list, S) = f[n]
    BY DEF Kept
  <1>3. PICK g \in [0 .. n -> Seq(E)] : KeepsUpTo(g, list, S, n)
    BY <1>1, FilterExists
  <1>4. g = Unfold(g)
    BY <1>3 DEF KeepsUpTo
  <1>5. f = Unfold(f)
    BY <1>4
  <1> HIDE DEF f
  <1>6. KeepsUpTo(f, list, S, n)
    <2> DEFINE u == Unfold(f)
    <2>1. \A i \in 0 .. n : u[i] = IF i = 0 THEN <<>>
                                   ELSE IF list[i] \in S THEN Append(f[i - 1], list[i]) ELSE f[i - 1]
      OBVIOUS
    <2>2. u = f
      BY <1>5
    <2> HIDE DEF u
    <2>3. QED
      BY <2>1, <2>2 DEF KeepsUpTo
  <1>7. QED
    BY <1>2, <1>6

\* The filter of a list has the elements of the list that are in S, all of
\* them and no others, each once if the list has each once.
LEMMA KeptFacts ==
    ASSUME NEW E, NEW list \in Seq(E), NEW S
    PROVE  /\ Kept(list, S) \in Seq(E \intersect S)
           /\ \A k \in 1 .. Len(Kept(list, S)) :
                \E j \in 1 .. Len(list) : Kept(list, S)[k] = list[j]
           /\ \A j \in 1 .. Len(list) :
                list[j] \in S => \E k \in 1 .. Len(Kept(list, S)) : Kept(list, S)[k] = list[j]
           /\ IsInjective(list) => IsInjective(Kept(list, S))
  <1> DEFINE n == Len(list)
  <1>1. PICK f : KeepsUpTo(f, list, S, n) /\ Kept(list, S) = f[n]
    BY KeptUnfolds
  <1> DEFINE Good(i) ==
        /\ f[i] \in Seq(E \intersect S)
        /\ \A k \in 1 .. Len(f[i]) : \E j \in 1 .. i : f[i][k] = list[j]
        /\ \A j \in 1 .. i : list[j] \in S => \E k \in 1 .. Len(f[i]) : f[i][k] = list[j]
        /\ IsInjective(list) => IsInjective(f[i])
             bad == {i \in 0 .. n : ~Good(i)}
  <1>2. n \in Nat /\ n \in 0 .. n
    OBVIOUS
  <1>3. ASSUME bad # {}
        PROVE  FALSE
    <2>1. PICK t \in bad : \A i \in bad : t <= i
      <3>1. bad \subseteq Nat
        OBVIOUS
      <3>2. QED
        BY <1>3, <3>1, SmallestNumber
    <2>2. t \in 0 .. n /\ ~Good(t)
      BY <2>1
    <2>3. f[t] = IF t = 0 THEN <<>>
                 ELSE IF list[t] \in S THEN Append(f[t - 1], list[t]) ELSE f[t - 1]
      BY <1>1, <2>2 DEF KeepsUpTo
    <2>4. CASE t = 0
      <3>1. f[t] = <<>>
        BY <2>3, <2>4
      <3>2. Good(t)
        BY <2>4, <3>1 DEF IsInjective
      <3>3. QED
        BY <2>2, <3>2
    <2>5. CASE t # 0
      <3> DEFINE before == f[t - 1]
      <3>1. t - 1 \in 0 .. n /\ t - 1 < t /\ t \in 1 .. n /\ list[t] \in E
        BY <2>2, <2>5
      <3>2. Good(t - 1)
        <4> HIDE DEF bad
        <4>1. t - 1 \notin bad
          <5>1. t - 1 \in bad => t <= t - 1
            BY <2>1
          <5>2. QED
            BY <3>1, <5>1
        <4>2. QED
          BY <3>1, <4>1 DEF bad
      <3>3. \A j \in 1 .. t : j \in 1 .. t - 1 \/ j = t
        BY <3>1
      <3>4. before \in Seq(E \intersect S)
        BY <3>2
      <3>5. \A k \in 1 .. Len(before) : \E j \in 1 .. t - 1 : before[k] = list[j]
        BY <3>2
      <3>6. \A j \in 1 .. t - 1 : list[j] \in S => \E k \in 1 .. Len(before) : before[k] = list[j]
        BY <3>2
      <3>7. IsInjective(list) => IsInjective(before)
        BY <3>2
      <3>8. CASE list[t] \notin S
        <4>1. f[t] = before
          BY <2>3, <2>5, <3>8
        <4> HIDE DEF before
        <4>2. \A k \in 1 .. Len(before) : \E j \in 1 .. t : before[k] = list[j]
          BY <3>5, <3>1
        <4>3. \A j \in 1 .. t : list[j] \in S => \E k \in 1 .. Len(before) : before[k] = list[j]
          BY <3>3, <3>6, <3>8
        <4>4. QED
          BY <2>2, <3>4, <3>7, <4>1, <4>2, <4>3
      <3>9. CASE list[t] \in S
        <4> DEFINE now == Append(before, list[t])
        <4>1. f[t] = now
          BY <2>3, <2>5, <3>9
        <4> HIDE DEF before
        <4>2. /\ now \in Seq(E \intersect S) /\ Len(now) = Len(before) + 1
              /\ \A k \in 1 .. Len(before) : now[k] = before[k]
              /\ now[Len(before) + 1] = list[t]
          BY <3>1, <3>4, <3>9
        <4>3. Len(before) \in Nat
          BY <3>4
        <4> HIDE DEF now
        <4>4. \A k \in 1 .. Len(now) : k \in 1 .. Len(before) \/ k = Len(before) + 1
          BY <4>2, <4>3
        <4>5. \A k \in 1 .. Len(now) : \E j \in 1 .. t : now[k] = list[j]
          BY <3>1, <3>5, <4>2, <4>4
        <4>6. \A j \in 1 .. t : list[j] \in S => \E k \in 1 .. Len(now) : now[k] = list[j]
          <5>1. Len(before) + 1 \in 1 .. Len(now)
            BY <4>2, <4>3
          <5>2. \A k \in 1 .. Len(before) : k \in 1 .. Len(now)
            BY <4>2, <4>3
          <5>3. QED
            BY <3>3, <3>6, <4>2, <5>1, <5>2
        <4>7. ASSUME IsInjective(list)
              PROVE  IsInjective(now)
          <5>1. ASSUME NEW k \in 1 .. Len(before)
                PROVE  before[k] # list[t]
            <6>1. PICK j \in 1 .. t - 1 : before[k] = list[j]
              BY <3>5
            <6>2. j \in DOMAIN list /\ t \in DOMAIN list /\ j # t
              BY <3>1
            <6>3. QED
              BY <4>7, <6>1, <6>2 DEF IsInjective
          <5>2. DOMAIN now = 1 .. Len(now) /\ DOMAIN before = 1 .. Len(before)
            BY <3>4, <4>2
          <5>3. \A a, b \in 1 .. Len(before) : before[a] = before[b] => a = b
            BY <3>7, <4>7, <5>2 DEF IsInjective
          <5>4. QED
            BY <4>2, <4>4, <5>1, <5>2, <5>3 DEF IsInjective
        <4>8. QED
          BY <2>2, <4>1, <4>2, <4>5, <4>6, <4>7
      <3>10. QED
        BY <3>8, <3>9
    <2>6. QED
      BY <2>4, <2>5
  <1>4. Good(n)
    BY <1>2, <1>3
  <1>5. QED
    BY <1>1, <1>4

-----------------------------------------------------------------------------
(* The saved list. *)

\* A function from the numbers up to n is a list.
LEMMA ListOf ==
    ASSUME NEW S, NEW n \in Nat, NEW f \in [1 .. n -> S]
    PROVE  f \in Seq(S) /\ Len(f) = n
  OBVIOUS

\* A list of names and of the entries that turn them on or off.
LEMMA SwitchedFacts ==
    ASSUME NEW names \in Seq(Methods), NEW on \in BOOLEAN
    PROVE  /\ Switched(names, on) \in Seq(Entries)
           /\ Len(Switched(names, on)) = Len(names)
           /\ \A i \in 1 .. Len(names) :
                Switched(names, on)[i].name = names[i] /\ Switched(names, on)[i].on = on
  <1>1. Len(names) \in Nat
    OBVIOUS
  <1>2. \A i \in 1 .. Len(names) : Entry(names[i], on) \in Entries
    BY DEF Entry, Entries
  <1>3. Switched(names, on) \in [1 .. Len(names) -> Entries]
    BY <1>2 DEF Switched
  <1>4. Switched(names, on) \in Seq(Entries) /\ Len(Switched(names, on)) = Len(names)
    BY <1>1, <1>3, ListOf
  <1>5. \A i \in 1 .. Len(names) :
          Switched(names, on)[i].name = names[i] /\ Switched(names, on)[i].on = on
    BY DEF Switched, Entry
  <1>6. QED
    BY <1>4, <1>5

\* Of a list whose first part is in S and whose second part is not, the first
\* part is kept.
LEMMA KeptOfTwoParts ==
    ASSUME NEW E, NEW S, NEW on \in Seq(E), NEW off \in Seq(E),
           \A i \in 1 .. Len(on) : on[i] \in S,
           \A i \in 1 .. Len(off) : off[i] \notin S
    PROVE  Kept(on \o off, S) = on
  <1> DEFINE list == on \o off
             n == Len(list)
             a == Len(on)
  <1>1. /\ list \in Seq(E)
        /\ a \in Nat /\ n \in Nat /\ n = a + Len(off) /\ Len(off) \in Nat
        /\ \A i \in 1 .. a : list[i] = on[i] /\ list[i] \in S
        /\ \A i \in a + 1 .. n : list[i] \notin S
    <2>1. list \in Seq(E) /\ Len(list) = Len(on) + Len(off)
          /\ \A i \in 1 .. Len(list) : list[i] = IF i <= Len(on) THEN on[i] ELSE off[i - Len(on)]
      BY ConcatProperties
    <2>2. Len(on) \in Nat /\ Len(off) \in Nat
      OBVIOUS
    <2> HIDE DEF list
    <2>3. \A i \in 1 .. a : list[i] = on[i] /\ list[i] \in S
      BY <2>1, <2>2
    <2>4. ASSUME NEW i \in a + 1 .. n
          PROVE  list[i] \notin S
      <3>1. i - a \in 1 .. Len(off) /\ list[i] = off[i - a]
        BY <2>1, <2>2
      <3>2. QED
        BY <3>1
    <2>5. QED
      BY <2>1, <2>2, <2>3, <2>4
  <1> HIDE DEF list
  <1>3. PICK f : KeepsUpTo(f, list, S, n) /\ Kept(list, S) = f[n]
    BY <1>1, KeptUnfolds
  <1> DEFINE closed(i) == IF i <= a THEN SubSeq(on, 1, i) ELSE on
             bad == {i \in 0 .. n : f[i] # closed(i)}
  <1>4. ASSUME bad # {}
        PROVE  FALSE
    <2>1. PICK t \in bad : \A i \in bad : t <= i
      <3>1. bad \subseteq Nat
        OBVIOUS
      <3>2. QED
        BY <1>4, <3>1, SmallestNumber
    <2>2. t \in 0 .. n /\ f[t] # closed(t)
      BY <2>1
    <2>3. f[t] = IF t = 0 THEN <<>>
                 ELSE IF list[t] \in S THEN Append(f[t - 1], list[t]) ELSE f[t - 1]
      BY <1>3, <2>2 DEF KeepsUpTo
    <2>4. t # 0
      <3>1. SubSeq(on, 1, 0) = <<>>
        BY SubSeqEmpty, 1 \in Int, 0 \in Int, 0 < 1
      <3>2. closed(0) = <<>>
        BY <1>1, <3>1
      <3>3. QED
        BY <2>2, <2>3, <3>2
    <2>5. t - 1 \in 0 .. n /\ t \in 1 .. n
      BY <1>1, <2>2, <2>4
    <2>6. f[t - 1] = closed(t - 1)
      <3> HIDE DEF closed
      <3>1. t - 1 \in bad => t <= t - 1
        BY <2>1
      <3>2. QED
        BY <2>5, <3>1
    <2>7. CASE t <= a
      <3>1. t \in 1 .. a
        BY <2>5, <2>7
      <3>2. list[t] = on[t] /\ list[t] \in S
        BY <1>1, <3>1
      <3>3. f[t] = Append(SubSeq(on, 1, t - 1), on[t])
        BY <1>1, <2>3, <2>4, <2>6, <3>1, <3>2
      <3>4. Append(SubSeq(on, 1, t - 1), on[t]) = SubSeq(on, 1, t)
        BY <3>1
      <3>5. QED
        BY <2>2, <2>7, <3>3, <3>4
    <2>8. CASE ~(t <= a)
      <3>1. t \in a + 1 .. n
        BY <1>1, <2>5, <2>8
      <3>2. f[t] = f[t - 1]
        BY <1>1, <2>3, <2>4, <3>1
      <3>3. t - 1 <= a => t - 1 = a
        <4>1. t \in Nat /\ a \in Nat /\ t > a
          BY <1>1, <2>5, <2>8
        <4>2. QED
          BY <4>1
      <3>4. SubSeq(on, 1, a) = on
        OBVIOUS
      <3>5. closed(t - 1) = on /\ closed(t) = on
        BY <2>8, <3>3, <3>4
      <3>6. QED
        BY <2>2, <2>6, <3>2, <3>5
    <2>9. QED
      BY <2>7, <2>8
  <1>5. f[n] = closed(n)
    BY <1>1, <1>4
  <1>6. closed(n) = on
    <2>1. SubSeq(on, 1, a) = on
      OBVIOUS
    <2>2. n <= a => n = a
      BY <1>1
    <2>3. QED
      BY <2>1, <2>2
  <1>7. QED
    BY <1>3, <1>5, <1>6 DEF list

-----------------------------------------------------------------------------
(* Types. *)

LEMMA InstanceFields ==
    ASSUME NEW s \in Instance
    PROVE  /\ s.avail \in SUBSET Methods
           /\ s.loaded \in [Methods -> Nat]
           /\ s.created \in [Addons -> Nat]
           /\ s.imes \in Seq(IMs)
           /\ s.iIMIndex \in Int /\ s.lastIMIndex \in Int
           /\ s.profile \in Profiles
           /\ s.stack \in Seq(Frames)
  BY DEF Instance

LEMMA FrameFields ==
    ASSUME NEW f \in Frames
    PROVE  /\ f.at \in {"boot", "booted", "clear", "listed", "unlisted", "load", "reload",
                        "init", "save", "write"}
           /\ f.method \in Methods \union {NoMethod}
           /\ f.old \in Int /\ f.list \in Seq(Entries)
  BY DEF Frames

LEMMA NewFrame ==
    ASSUME NEW at \in {"boot", "booted", "clear", "listed", "unlisted", "load", "reload",
                       "init", "save", "write"},
           NEW m \in Methods \union {NoMethod}, NEW old \in Int
    PROVE  /\ Frame(at, m, old) \in Frames
           /\ Frame(at, m, old).at = at /\ Frame(at, m, old).method = m
           /\ Frame(at, m, old).list = <<>>
  BY DEF Frame, Frames

\* The names of a list of entries, and the copies made for a list of names.
LEMMA CopiesFacts ==
    ASSUME inst \in Instance, NEW names \in Seq(Methods)
    PROVE  /\ Copies(names) \in Seq(IMs)
           /\ Len(Copies(names)) = Len(names)
           /\ \A i \in 1 .. Len(names) :
                /\ Copies(names)[i].name = names[i]
                /\ Copies(names)[i].klass = inst.loaded[names[i]]
  <1>1. Len(names) \in Nat /\ inst.loaded \in [Methods -> Nat]
    BY InstanceFields
  <1>2. \A i \in 1 .. Len(names) : [name |-> names[i], klass |-> inst.loaded[names[i]]] \in IMs
    BY <1>1 DEF IMs
  <1>3. Copies(names) \in [1 .. Len(names) -> IMs]
    BY <1>2 DEF Copies
  <1>4. Copies(names) \in Seq(IMs) /\ Len(Copies(names)) = Len(names)
    BY <1>1, <1>3, ListOf
  <1>5. \A i \in 1 .. Len(names) :
          /\ Copies(names)[i].name = names[i]
          /\ Copies(names)[i].klass = inst.loaded[names[i]]
    BY DEF Copies
  <1>6. QED
    BY <1>4, <1>5

LEMMA NamesFacts ==
    ASSUME NEW list, list \in Seq(Entries) \/ list \in Seq(IMs)
    PROVE  /\ Names(list) \in Seq(Methods)
           /\ Len(Names(list)) = Len(list)
           /\ \A i \in 1 .. Len(list) : Names(list)[i] = list[i].name
           /\ NamesOf(list) \subseteq Methods
  <1>1. Len(list) \in Nat
    OBVIOUS
  <1>2. \A i \in 1 .. Len(list) : list[i].name \in Methods
    <2>1. CASE list \in Seq(Entries)
      <3>1. \A i \in 1 .. Len(list) : list[i] \in Entries
        BY <2>1
      <3>2. QED
        BY <3>1 DEF Entries
    <2>2. CASE list \in Seq(IMs)
      <3>1. \A i \in 1 .. Len(list) : list[i] \in IMs
        BY <2>2
      <3>2. QED
        BY <3>1 DEF IMs
    <2>3. QED
      BY <2>1, <2>2
  <1>3. Names(list) \in [1 .. Len(list) -> Methods]
    BY <1>2 DEF Names
  <1>4. Names(list) \in Seq(Methods) /\ Len(Names(list)) = Len(list)
    BY <1>1, <1>3, ListOf
  <1>5. QED
    BY <1>2, <1>4 DEF Names, NamesOf

-----------------------------------------------------------------------------
(* The order of the methods. *)

\* IMPriorityCmp is a strict order in which any two methods can be compared.
LEMMA BeforeOrders ==
    ASSUME inst \in Instance
    PROVE  /\ \A m \in Methods : ~Before(m, m)
           /\ \A m, n \in Methods : m # n => Before(m, n) \/ Before(n, m)
           /\ \A l, m, n \in Methods : Before(l, m) /\ Before(m, n) => Before(l, n)
  <1>1. \A m \in Methods : PriorityOf(m) \in Int /\ NameOrder[m] \in Int
    BY InstanceFields, NamesAssumption DEF PriorityOf
  <1>2. \A m, n \in Methods : NameOrder[m] = NameOrder[n] => m = n
    BY NamesAssumption
  <1>3. QED
    BY <1>1, <1>2 DEF Before

\* So the sorted names of a set are all of its names, each once.
LEMMA SortedFacts ==
    ASSUME inst \in Instance, NEW S \in SUBSET Methods
    PROVE  /\ Sorted(S) \in Seq(S)
           /\ Len(Sorted(S)) = Cardinality(S)
           /\ \A m \in S : \E k \in 1 .. Len(Sorted(S)) : Sorted(S)[k] = m
           /\ IsInjective(Sorted(S))
  <1> DEFINE c == Cardinality(S)
             Smaller(m) == {n \in S : Before(n, m)}
             rank == [m \in S |-> Cardinality(Smaller(m))]
  <1>1. IsFiniteSet(S) /\ c \in Nat
    BY MethodsAssumption, FS_Subset, FS_CardinalityType
  <1>2. ASSUME NEW m \in S
        PROVE  IsFiniteSet(Smaller(m)) /\ rank[m] \in 0 .. c - 1
    <2>1. IsFiniteSet(Smaller(m)) /\ Cardinality(Smaller(m)) <= c
      BY <1>1, FS_Subset
    <2>2. Cardinality(Smaller(m)) \in Nat
      BY <2>1, FS_CardinalityType
    <2>3. m \notin Smaller(m)
      BY BeforeOrders
    <2>4. Cardinality(Smaller(m)) # c
      BY <1>1, <2>3, FS_Subset
    <2>5. QED
      BY <1>1, <2>1, <2>2, <2>4
  <1>3. ASSUME NEW m \in S, NEW n \in S, Before(m, n)
        PROVE  rank[m] < rank[n]
    <2>1. Smaller(m) \subseteq Smaller(n)
      BY <1>3, BeforeOrders
    <2>2. m \in Smaller(n) /\ m \notin Smaller(m)
      BY <1>3, BeforeOrders
    <2>3. IsFiniteSet(Smaller(n)) /\ Smaller(m) \in SUBSET Smaller(n)
      BY <1>2, <2>1
    <2>4. /\ Cardinality(Smaller(m)) <= Cardinality(Smaller(n))
          /\ Cardinality(Smaller(n)) = Cardinality(Smaller(m)) => Smaller(n) = Smaller(m)
      <3> HIDE DEF Smaller
      <3>1. QED
        BY <2>3, FS_Subset
    <2>5. rank[m] = Cardinality(Smaller(m)) /\ rank[n] = Cardinality(Smaller(n))
      OBVIOUS
    <2> HIDE DEF rank
    <2>6. rank[m] \in Int /\ rank[n] \in Int
      <3>1. rank[m] \in 0 .. c - 1 /\ rank[n] \in 0 .. c - 1
        BY <1>2
      <3>2. QED
        BY <1>1, <3>1
    <2>7. QED
      BY <2>2, <2>4, <2>5, <2>6
  <1>4. \A m, n \in S : rank[m] = rank[n] => m = n
    <2>1. ASSUME NEW m \in S, NEW n \in S, m # n
          PROVE  rank[m] # rank[n]
      <3>1. rank[m] < rank[n] \/ rank[n] < rank[m]
        BY <1>3, <2>1, BeforeOrders
      <3>2. rank[m] \in 0 .. c - 1 /\ rank[n] \in 0 .. c - 1
        BY <1>2
      <3> HIDE DEF rank
      <3>3. QED
        BY <1>1, <3>1, <3>2
    <2>2. QED
      BY <2>1
  <1>5. \A k \in 0 .. c - 1 : \E m \in S : rank[m] = k
    <2>1. rank \in [S -> 0 .. c - 1]
      BY <1>2
    <2>2. IsFiniteSet(0 .. c - 1) /\ Cardinality(0 .. c - 1) = c
      <3>1. IsFiniteSet(0 .. c - 1) /\ Cardinality(0 .. c - 1) = IF 0 > c - 1 THEN 0 ELSE c - 1 - 0 + 1
        BY <1>1, FS_Interval, c - 1 \in Int, 0 \in Int
      <3>2. QED
        BY <1>1, <3>1
    <2> HIDE DEF rank
    <2>3. rank \in Injection(S, 0 .. c - 1)
      BY <1>4, <2>1 DEF Injection, IsInjective
    <2>4. rank \in Surjection(S, 0 .. c - 1)
      BY <1>1, <2>2, <2>3, FS_Injection
    <2>5. QED
      BY <2>4 DEF Surjection
  <1>6. ASSUME NEW k \in 1 .. c
        PROVE  Sorted(S)[k] \in S /\ rank[Sorted(S)[k]] = k - 1
    <2>1. Sorted(S)[k] = CHOOSE m \in S : Cardinality(Smaller(m)) = k - 1
      BY DEF Sorted
    <2>2. k - 1 \in 0 .. c - 1
      BY <1>1
    <2>3. \E m \in S : Cardinality(Smaller(m)) = k - 1
      BY <1>5, <2>2
    <2> HIDE DEF Smaller
    <2>4. Sorted(S)[k] \in S /\ Cardinality(Smaller(Sorted(S)[k])) = k - 1
      BY <2>1, <2>3
    <2>5. QED
      BY <2>4
  <1>7. Sorted(S) \in [1 .. c -> S]
    <2> DEFINE nth(k) == CHOOSE m \in S : Cardinality({n \in S : Before(n, m)}) = k - 1
    <2>1. Sorted(S) = [k \in 1 .. c |-> nth(k)]
      BY DEF Sorted
    <2> HIDE DEF nth, c
    <2>2. \A k \in 1 .. c : nth(k) \in S
      BY <1>6, <2>1
    <2>3. QED
      BY <2>1, <2>2
  <1>8. Sorted(S) \in Seq(S) /\ Len(Sorted(S)) = c /\ DOMAIN Sorted(S) = 1 .. c
    BY <1>1, <1>7, ListOf
  <1> HIDE DEF rank, c
  <1>9. IsInjective(Sorted(S))
    <2>1. ASSUME NEW j \in 1 .. c, NEW k \in 1 .. c, Sorted(S)[j] = Sorted(S)[k]
          PROVE  j = k
      <3>1. j - 1 = k - 1
        BY <1>6, <2>1
      <3>2. QED
        BY <3>1
    <2>2. QED
      BY <1>8, <2>1 DEF IsInjective
  <1>10. ASSUME NEW m \in S
         PROVE  \E k \in 1 .. c : Sorted(S)[k] = m
    <2>1. rank[m] \in 0 .. c - 1
      BY <1>2
    <2>2. rank[m] + 1 \in 1 .. c /\ (rank[m] + 1) - 1 = rank[m]
      BY <1>1, <2>1
    <2>3. Sorted(S)[rank[m] + 1] \in S /\ rank[Sorted(S)[rank[m] + 1]] = rank[m]
      BY <1>6, <2>2
    <2>4. Sorted(S)[rank[m] + 1] = m
      BY <1>4, <2>3
    <2>5. QED
      BY <2>2, <2>4
  <1>11. QED
    BY <1>8, <1>9, <1>10 DEF c

-----------------------------------------------------------------------------
(* The lists that are made: of the methods in use, and of the profile. *)

\* What a list turns on, or off.
LEMMA TurnedFacts ==
    ASSUME NEW list \in Seq(Entries), NEW on \in BOOLEAN
    PROVE  /\ Turned(list, on) \in Seq(Entries)
           /\ NamesOf(Turned(list, on)) =
                {list[i].name : i \in {j \in 1 .. Len(list) : list[j].on = on}}
           /\ IsInjective(Names(list)) => IsInjective(Names(Turned(list, on)))
  <1> DEFINE S == [name : Methods, on : {on}]
             kept == Turned(list, on)
  <1>1. kept = Kept(list, S)
    BY DEF Turned
  <1>2. \A i \in 1 .. Len(list) : list[i] \in Entries /\ (list[i] \in S <=> list[i].on = on)
    <2>1. \A i \in 1 .. Len(list) : list[i] \in Entries
      OBVIOUS
    <2>2. \A e \in Entries : e \in S <=> e.on = on
      BY DEF Entries
    <2>3. QED
      BY <2>1, <2>2
  <1> HIDE DEF S, kept
  <1>3. /\ kept \in Seq(Entries \intersect S)
        /\ \A k \in 1 .. Len(kept) : \E j \in 1 .. Len(list) : kept[k] = list[j]
        /\ \A j \in 1 .. Len(list) : list[j] \in S => \E k \in 1 .. Len(kept) : kept[k] = list[j]
        /\ IsInjective(list) => IsInjective(kept)
    <2>1. /\ Kept(list, S) \in Seq(Entries \intersect S)
          /\ \A k \in 1 .. Len(Kept(list, S)) :
               \E j \in 1 .. Len(list) : Kept(list, S)[k] = list[j]
          /\ \A j \in 1 .. Len(list) :
               list[j] \in S => \E k \in 1 .. Len(Kept(list, S)) : Kept(list, S)[k] = list[j]
          /\ IsInjective(list) => IsInjective(Kept(list, S))
      BY KeptFacts
    <2>2. QED
      BY <1>1, <2>1, Zenon
  <1>4. kept \in Seq(Entries) /\ \A k \in 1 .. Len(kept) : kept[k] \in S
    BY <1>3
  <1>5. NamesOf(kept) = {list[i].name : i \in {j \in 1 .. Len(list) : list[j].on = on}}
    <2>1. ASSUME NEW k \in 1 .. Len(kept)
          PROVE  \E j \in 1 .. Len(list) : list[j].on = on /\ kept[k].name = list[j].name
      BY <1>2, <1>3, <1>4
    <2>2. ASSUME NEW j \in 1 .. Len(list), list[j].on = on
          PROVE  \E k \in 1 .. Len(kept) : kept[k].name = list[j].name
      BY <1>2, <1>3, <2>2
    <2> DEFINE names == {list[i].name : i \in {j \in 1 .. Len(list) : list[j].on = on}}
    <2>3. NamesOf(kept) \subseteq names
      BY <2>1 DEF NamesOf
    <2>4. names \subseteq NamesOf(kept)
      <3>1. ASSUME NEW i \in 1 .. Len(list), list[i].on = on
            PROVE  list[i].name \in NamesOf(kept)
        BY <2>2, <3>1 DEF NamesOf
      <3>2. QED
        BY <3>1
    <2>5. QED
      BY <2>3, <2>4
  <1>6. ASSUME IsInjective(Names(list))
        PROVE  IsInjective(Names(kept))
    <2>1. /\ DOMAIN Names(list) = 1 .. Len(list) /\ DOMAIN list = 1 .. Len(list)
          /\ \A i \in 1 .. Len(list) : Names(list)[i] = list[i].name
      BY DEF Names
    <2>2. \A i, j \in 1 .. Len(list) : list[i].name = list[j].name => i = j
      BY <1>6, <2>1 DEF IsInjective
    <2>3. IsInjective(list)
      BY <2>1, <2>2 DEF IsInjective
    <2>4. DOMAIN kept = 1 .. Len(kept) /\ IsInjective(kept)
      BY <1>3, <1>4, <2>3
    <2>5. ASSUME NEW a \in 1 .. Len(kept), NEW b \in 1 .. Len(kept), kept[a].name = kept[b].name
          PROVE  a = b
      <3>1. PICK i \in 1 .. Len(list) : kept[a] = list[i]
        BY <1>3
      <3>2. PICK j \in 1 .. Len(list) : kept[b] = list[j]
        BY <1>3
      <3>3. i = j
        BY <2>2, <2>5, <3>1, <3>2
      <3>4. QED
        BY <2>4, <3>1, <3>2, <3>3 DEF IsInjective
    <2>6. /\ DOMAIN Names(kept) = 1 .. Len(kept)
          /\ \A i \in 1 .. Len(kept) : Names(kept)[i] = kept[i].name
      BY DEF Names
    <2>7. QED
      BY <2>5, <2>6 DEF IsInjective
  <1>7. QED
    BY <1>4, <1>5, <1>6 DEF kept

\* A list of copies of entries of availimes, as they are now.
Fresh(list) ==
    \A i \in 1 .. Len(list) : list[i].name \in inst.avail /\ list[i].klass = inst.loaded[list[i].name]

LEMMA CopiesFresh ==
    ASSUME inst \in Instance, NEW names \in Seq(inst.avail)
    PROVE  /\ Copies(names) \in Seq(IMs)
           /\ Fresh(Copies(names))
           /\ NamesOf(Copies(names)) = {names[i] : i \in 1 .. Len(names)}
           /\ IsInjective(names) => IsInjective(Names(Copies(names)))
  <1>1. names \in Seq(Methods)
    BY InstanceFields
  <1>2. /\ Copies(names) \in Seq(IMs)
        /\ Len(Copies(names)) = Len(names)
        /\ \A i \in 1 .. Len(names) :
             /\ Copies(names)[i].name = names[i]
             /\ Copies(names)[i].klass = inst.loaded[names[i]]
    BY <1>1, CopiesFacts
  <1>3. \A i \in 1 .. Len(names) : names[i] \in inst.avail
    OBVIOUS
  <1>4. Names(Copies(names)) = names
    <2>1. Names(Copies(names)) = [i \in 1 .. Len(names) |-> names[i]]
      BY <1>2 DEF Names
    <2>2. names = [i \in 1 .. Len(names) |-> names[i]]
      BY <1>1
    <2>3. QED
      BY <2>1, <2>2
  <1>5. QED
    BY <1>2, <1>3, <1>4 DEF Fresh, NamesOf

LEMMA ListedFacts ==
    ASSUME inst \in Instance, NEW list \in Seq(Entries)
    PROVE  /\ Listed(list) \in Seq(IMs)
           /\ Fresh(Listed(list))
           /\ NamesOf(Listed(list)) = inst.avail \intersect NamesOf(TurnedOn(list))
           /\ IsInjective(Names(list)) => IsInjective(Names(Listed(list)))
  <1> DEFINE on == TurnedOn(list)
             names == Names(on)
             kept == Kept(names, inst.avail)
  <1>1. on \in Seq(Entries) /\ (IsInjective(Names(list)) => IsInjective(names))
    BY TurnedFacts DEF TurnedOn
  <1> HIDE DEF on
  <1>2. /\ names \in Seq(Methods)
        /\ NamesOf(on) = {names[i] : i \in 1 .. Len(names)}
    BY <1>1, NamesFacts DEF NamesOf
  <1> HIDE DEF names
  <1>3. /\ kept \in Seq(Methods \intersect inst.avail)
        /\ \A k \in 1 .. Len(kept) : \E j \in 1 .. Len(names) : kept[k] = names[j]
        /\ \A j \in 1 .. Len(names) :
             names[j] \in inst.avail => \E k \in 1 .. Len(kept) : kept[k] = names[j]
        /\ IsInjective(names) => IsInjective(kept)
    BY <1>2, KeptFacts
  <1>4. Listed(list) = Copies(kept)
    BY DEF Listed, names, on
  <1> HIDE DEF kept
  <1>5. kept \in Seq(inst.avail)
    BY <1>3
  <1>6. {kept[k] : k \in 1 .. Len(kept)} = inst.avail \intersect NamesOf(on)
    <2>1. \A k \in 1 .. Len(kept) : kept[k] \in inst.avail
      BY <1>5
    <2>2. {kept[k] : k \in 1 .. Len(kept)} \subseteq inst.avail \intersect NamesOf(on)
      BY <1>2, <1>3, <2>1
    <2>3. inst.avail \intersect NamesOf(on) \subseteq {kept[k] : k \in 1 .. Len(kept)}
      BY <1>2, <1>3
    <2>4. QED
      BY <2>2, <2>3
  <1>7. QED
    BY <1>1, <1>3, <1>4, <1>5, <1>6, CopiesFresh DEF on

LEMMA UnlistedFacts ==
    ASSUME inst \in Instance, NEW list \in Seq(Entries)
    PROVE  /\ Unlisted(list) \in Seq(IMs)
           /\ Fresh(Unlisted(list))
           /\ NamesOf(Unlisted(list)) =
                {m \in inst.avail : /\ PrefixOf[m] \intersect NamesOf(list) = {}
                                    /\ PriorityOf(m) < PRIORITY_DISABLE}
           /\ IsInjective(Names(Unlisted(list)))
  <1> DEFINE S == {m \in inst.avail : /\ PrefixOf[m] \intersect NamesOf(list) = {}
                                      /\ PriorityOf(m) < PRIORITY_DISABLE}
             sorted == Sorted(S)
  <1>1. S \in SUBSET Methods /\ S \in SUBSET inst.avail
    BY InstanceFields
  <1>2. Unlisted(list) = Copies(sorted)
    BY DEF Unlisted
  <1> HIDE DEF S
  <1>3. /\ sorted \in Seq(S) /\ IsInjective(sorted)
        /\ \A m \in S : \E k \in 1 .. Len(sorted) : sorted[k] = m
    BY <1>1, SortedFacts
  <1> HIDE DEF sorted
  <1>4. sorted \in Seq(inst.avail)
    BY <1>1, <1>3
  <1>5. {sorted[k] : k \in 1 .. Len(sorted)} = S
    <2>1. \A k \in 1 .. Len(sorted) : sorted[k] \in S
      BY <1>3
    <2>2. QED
      BY <1>3, <2>1
  <1>6. QED
    BY <1>2, <1>3, <1>4, <1>5, CopiesFresh DEF S

\* The profile that is saved turns on the methods in use, in their order, and
\* turns off the others there are.
LEMMA SyncedFacts ==
    ASSUME inst \in Instance
    PROVE  /\ Synced \in Profiles
           /\ Len(TurnedOn(Synced.imList)) = Len(inst.imes)
           /\ \A i \in 1 .. Len(inst.imes) : TurnedOn(Synced.imList)[i].name = inst.imes[i].name
           /\ NamesOf(Turned(Synced.imList, FALSE)) = inst.avail \ NamesOf(inst.imes)
           /\ NamesOf(Synced.imList) = NamesOf(inst.imes) \union inst.avail
           /\ IsInjective(Names(inst.imes)) => IsInjective(Names(Synced.imList))
  <1> DEFINE rest == inst.avail \ NamesOf(inst.imes)
             others == Sorted(rest)
             on == Switched(Names(inst.imes), TRUE)
             off == Switched(others, FALSE)
  <1>1. inst.avail \in SUBSET Methods /\ inst.imes \in Seq(IMs)
    BY InstanceFields
  <1>2. /\ Names(inst.imes) \in Seq(Methods) /\ Len(Names(inst.imes)) = Len(inst.imes)
        /\ \A i \in 1 .. Len(inst.imes) : Names(inst.imes)[i] = inst.imes[i].name
        /\ NamesOf(inst.imes) \subseteq Methods
    BY <1>1, NamesFacts
  <1>3. /\ others \in Seq(rest) /\ others \in Seq(Methods) /\ IsInjective(others)
        /\ \A m \in rest : \E k \in 1 .. Len(others) : others[k] = m
    <2>1. rest \in SUBSET Methods
      BY <1>1
    <2> HIDE DEF rest
    <2>2. others \in Seq(rest) /\ IsInjective(others)
          /\ \A m \in rest : \E k \in 1 .. Len(others) : others[k] = m
      BY <2>1, SortedFacts
    <2>3. others \in Seq(Methods)
      BY <2>1, <2>2
    <2>4. QED
      BY <2>2, <2>3
  <1> HIDE DEF others
  <1>4. /\ on \in Seq(Entries) /\ Len(on) = Len(inst.imes)
        /\ \A i \in 1 .. Len(inst.imes) : on[i].name = inst.imes[i].name /\ on[i].on = TRUE
    <2> DEFINE names == Names(inst.imes)
    <2>1. names \in Seq(Methods) /\ Len(names) = Len(inst.imes)
          /\ \A i \in 1 .. Len(inst.imes) : names[i] = inst.imes[i].name
      BY <1>2
    <2> HIDE DEF names
    <2>2. /\ Switched(names, TRUE) \in Seq(Entries) /\ Len(Switched(names, TRUE)) = Len(names)
          /\ \A i \in 1 .. Len(names) :
               Switched(names, TRUE)[i].name = names[i] /\ Switched(names, TRUE)[i].on = TRUE
      BY <2>1, SwitchedFacts
    <2>3. QED
      BY <2>1, <2>2 DEF names
  <1>5. /\ off \in Seq(Entries) /\ Len(off) = Len(others)
        /\ \A i \in 1 .. Len(others) : off[i].name = others[i] /\ off[i].on = FALSE
    BY <1>3, SwitchedFacts
  <1>6. /\ Synced.imList = on \o off
        /\ Synced.imName \in Methods \union {NoMethod}
        /\ Synced = [imName |-> Synced.imName, imList |-> Synced.imList]
    <2> DEFINE index == IF setup.firstAsInactive /\ inst.iIMIndex = 0 /\ inst.lastIMIndex # 0
                        THEN inst.lastIMIndex ELSE inst.iIMIndex
               name == IF HasElement(inst.imes, index) THEN Element(inst.imes, index).name
                       ELSE NoMethod
    <2>1. Synced = [imName |-> name, imList |-> on \o off]
      BY DEF Synced, others, rest
    <2>2. name \in Methods \union {NoMethod}
      <3>1. CASE HasElement(inst.imes, index)
        <4>1. index \in Int
          BY InstanceFields
        <4> HIDE DEF index
        <4>2. index + 1 \in 1 .. Len(inst.imes)
          BY <1>1, <3>1, <4>1 DEF HasElement
        <4>3. Element(inst.imes, index) \in IMs
          BY <1>1, <4>2 DEF Element
        <4>4. QED
          BY <3>1, <4>3 DEF IMs
      <3>2. CASE ~HasElement(inst.imes, index)
        BY <3>2
      <3>3. QED
        BY <3>1, <3>2
    <2> HIDE DEF name, on, off
    <2>3. QED
      BY <2>1, <2>2
  <1> HIDE DEF on, off
  <1> DEFINE list == on \o off
  <1>7. /\ list \in Seq(Entries) /\ Len(list) = Len(on) + Len(off)
        /\ Len(on) \in Nat /\ Len(off) \in Nat
        /\ \A i \in 1 .. Len(list) : list[i] = IF i <= Len(on) THEN on[i] ELSE off[i - Len(on)]
    <2>1. on \in Seq(Entries) /\ off \in Seq(Entries)
      BY <1>4, <1>5
    <2>2. Len(on) \in Nat /\ Len(off) \in Nat
      BY <2>1
    <2>3. /\ list \in Seq(Entries) /\ Len(list) = Len(on) + Len(off)
          /\ \A i \in 1 .. Len(list) : list[i] = IF i <= Len(on) THEN on[i] ELSE off[i - Len(on)]
      BY <2>1, ConcatProperties
    <2>4. QED
      BY <2>2, <2>3
  <1>8. TurnedOn(list) = on
    <2>1. TurnedOn(list) = Kept(list, [name : Methods, on : {TRUE}])
      BY DEF TurnedOn, Turned
    <2>2. \A i \in 1 .. Len(on) : on[i] \in [name : Methods, on : {TRUE}]
      <3>1. \A i \in 1 .. Len(on) : on[i] \in Entries /\ on[i].on = TRUE
        BY <1>4
      <3>2. \A e \in Entries : e.on = TRUE => e \in [name : Methods, on : {TRUE}]
        BY DEF Entries
      <3>3. QED
        BY <3>1, <3>2
    <2>3. \A i \in 1 .. Len(off) : off[i] \notin [name : Methods, on : {TRUE}]
      <3>1. \A i \in 1 .. Len(off) : off[i].on = FALSE
        BY <1>5
      <3>2. QED
        BY <3>1
    <2>4. QED
      BY <1>4, <1>5, <2>1, <2>2, <2>3, KeptOfTwoParts
  <1> HIDE DEF list
  <1>9. \A i \in 1 .. Len(list) :
          \/ i \in 1 .. Len(inst.imes) /\ list[i].name = inst.imes[i].name /\ list[i].on = TRUE
          \/ /\ i - Len(inst.imes) \in 1 .. Len(others) /\ list[i].on = FALSE
             /\ list[i].name = others[i - Len(inst.imes)]
    <2>1. ASSUME NEW i \in 1 .. Len(list), i <= Len(on)
          PROVE  i \in 1 .. Len(inst.imes) /\ list[i] = on[i]
      BY <1>4, <1>7, <2>1
    <2>2. ASSUME NEW i \in 1 .. Len(list), ~(i <= Len(on))
          PROVE  i - Len(inst.imes) \in 1 .. Len(others) /\ list[i] = off[i - Len(inst.imes)]
      BY <1>4, <1>5, <1>7, <2>2
    <2>3. ASSUME NEW i \in 1 .. Len(list), i <= Len(on)
          PROVE  i \in 1 .. Len(inst.imes) /\ list[i].name = inst.imes[i].name /\ list[i].on = TRUE
      BY <1>4, <2>1, <2>3
    <2>4. ASSUME NEW i \in 1 .. Len(list), ~(i <= Len(on))
          PROVE  /\ i - Len(inst.imes) \in 1 .. Len(others) /\ list[i].on = FALSE
                 /\ list[i].name = others[i - Len(inst.imes)]
      <3>1. i - Len(inst.imes) \in 1 .. Len(others) /\ list[i] = off[i - Len(inst.imes)]
        BY <2>2, <2>4
      <3>2. QED
        BY <1>5, <3>1
    <2>5. QED
      BY <2>3, <2>4
  <1>10. /\ \A i \in 1 .. Len(inst.imes) : i \in 1 .. Len(list) /\ list[i] = on[i]
         /\ \A k \in 1 .. Len(others) :
              Len(inst.imes) + k \in 1 .. Len(list) /\ list[Len(inst.imes) + k] = off[k]
    <2>1. \A i \in 1 .. Len(inst.imes) : i \in 1 .. Len(list) /\ list[i] = on[i]
      BY <1>4, <1>7
    <2>2. ASSUME NEW k \in 1 .. Len(others)
          PROVE  Len(inst.imes) + k \in 1 .. Len(list) /\ list[Len(inst.imes) + k] = off[k]
      <3> DEFINE i == Len(inst.imes) + k
      <3>1. i \in 1 .. Len(list) /\ ~(i <= Len(on)) /\ i - Len(on) = k
        BY <1>4, <1>5, <1>7
      <3> HIDE DEF i
      <3>2. list[i] = off[k]
        BY <1>7, <3>1
      <3>3. QED
        BY <3>1, <3>2 DEF i
    <2>3. QED
      BY <2>1, <2>2
  <1>11. \A k \in 1 .. Len(others) : others[k] \in rest
    BY <1>3
  <1>12. NamesOf(Turned(list, FALSE)) = rest
    <2>1. NamesOf(Turned(list, FALSE)) =
            {list[i].name : i \in {j \in 1 .. Len(list) : list[j].on = FALSE}}
      BY <1>7, TurnedFacts
    <2>2. ASSUME NEW i \in 1 .. Len(list), list[i].on = FALSE
          PROVE  list[i].name \in rest
      BY <1>9, <1>11, <2>2
    <2>3. ASSUME NEW m \in rest
          PROVE  \E i \in 1 .. Len(list) : list[i].on = FALSE /\ list[i].name = m
      <3>1. PICK k \in 1 .. Len(others) : others[k] = m
        BY <1>3
      <3>2. /\ Len(inst.imes) + k \in 1 .. Len(list)
            /\ list[Len(inst.imes) + k].on = FALSE /\ list[Len(inst.imes) + k].name = m
        BY <1>5, <1>10, <3>1
      <3>3. QED
        BY <3>2
    <2> HIDE DEF rest
    <2>4. QED
      BY <2>1, <2>2, <2>3
  <1>13. NamesOf(list) = NamesOf(inst.imes) \union inst.avail
    <2>1. ASSUME NEW i \in 1 .. Len(list)
          PROVE  list[i].name \in NamesOf(inst.imes) \union inst.avail
      BY <1>9, <1>11 DEF NamesOf
    <2>2. ASSUME NEW i \in 1 .. Len(inst.imes)
          PROVE  inst.imes[i].name \in NamesOf(list)
      <3>1. i \in 1 .. Len(list) /\ list[i].name = inst.imes[i].name
        BY <1>4, <1>10
      <3>2. QED
        BY <3>1 DEF NamesOf
    <2>3. ASSUME NEW m \in rest
          PROVE  m \in NamesOf(list)
      <3>1. PICK k \in 1 .. Len(others) : others[k] = m
        BY <1>3
      <3>2. Len(inst.imes) + k \in 1 .. Len(list) /\ list[Len(inst.imes) + k].name = m
        BY <1>5, <1>10, <3>1
      <3>3. QED
        BY <3>2 DEF NamesOf
    <2>4. NamesOf(inst.imes) \subseteq NamesOf(list)
      BY <2>2 DEF NamesOf
    <2>5. NamesOf(list) \subseteq NamesOf(inst.imes) \union inst.avail
      BY <2>1 DEF NamesOf
    <2>6. QED
      BY <2>3, <2>4, <2>5
  <1>14. ASSUME IsInjective(Names(inst.imes))
         PROVE  IsInjective(Names(list))
    <2>1. \A i, j \in 1 .. Len(inst.imes) : inst.imes[i].name = inst.imes[j].name => i = j
      <3>1. DOMAIN Names(inst.imes) = 1 .. Len(inst.imes)
        BY DEF Names
      <3>2. QED
        BY <1>2, <1>14, <3>1 DEF IsInjective
    <2>2. \A i, j \in 1 .. Len(others) : others[i] = others[j] => i = j
      <3>1. DOMAIN others = 1 .. Len(others)
        BY <1>3
      <3>2. QED
        BY <1>3, <3>1 DEF IsInjective
    <2>3. \A i \in 1 .. Len(inst.imes), k \in 1 .. Len(others) : inst.imes[i].name # others[k]
      BY <1>11 DEF NamesOf
    <2>4. ASSUME NEW i \in 1 .. Len(list), NEW j \in 1 .. Len(list), list[i].name = list[j].name
          PROVE  i = j
      <3>1. CASE i \in 1 .. Len(inst.imes) /\ list[i].name = inst.imes[i].name
        BY <1>9, <2>1, <2>3, <2>4, <3>1
      <3>2. CASE /\ i - Len(inst.imes) \in 1 .. Len(others)
                 /\ list[i].name = others[i - Len(inst.imes)]
        <4>1. /\ j - Len(inst.imes) \in 1 .. Len(others)
              /\ list[j].name = others[j - Len(inst.imes)]
          BY <1>9, <2>3, <2>4, <3>2
        <4>2. i - Len(inst.imes) = j - Len(inst.imes)
          BY <2>2, <2>4, <3>2, <4>1
        <4>3. Len(inst.imes) \in Nat
          BY <1>1
        <4>4. QED
          BY <4>2, <4>3
      <3>3. QED
        BY <1>9, <3>1, <3>2
    <2>5. /\ DOMAIN Names(list) = 1 .. Len(list)
          /\ \A i \in 1 .. Len(list) : Names(list)[i] = list[i].name
      BY DEF Names
    <2>6. QED
      BY <2>4, <2>5 DEF IsInjective
  <1>15. Synced \in Profiles
    BY <1>6, <1>7 DEF Profiles, list
  <1>16. QED
    BY <1>4, <1>6, <1>8, <1>12, <1>13, <1>14, <1>15 DEF list

-----------------------------------------------------------------------------
(* Loading, selecting and the calls in progress. *)

\* The methods that their addon does not register, and those that a start of the
\* daemon finds.
Fails(broken) == {m \in Methods : m \in broken \/ ~(Priority[m] > 0)}
Installed(broken) == {m \in Methods : Owner[m] \in ByConfigFile \/ m \notin Fails(broken)}

LEMMA RegistersFacts ==
    \A m, a : m \in Registers(a) <=>
                m \in Methods /\ m \notin Fails(setup.broken) /\ Owner[m] = a
  BY DEF Registers, Fails

\* An addon that is loaded makes methods usable and takes nothing away.
LEMMA LoadIMFacts ==
    ASSUME inst \in Instance, NEW a \in Addons \union {NoAddon}
    PROVE  /\ LoadIM(a) \in Instance
           /\ LoadIM(a).imes = inst.imes /\ LoadIM(a).profile = inst.profile
           /\ LoadIM(a).iIMIndex = inst.iIMIndex /\ LoadIM(a).lastIMIndex = inst.lastIMIndex
           /\ LoadIM(a).stack = inst.stack
           /\ inst.avail \subseteq LoadIM(a).avail
           /\ \A m \in Methods : inst.loaded[m] # 0 => LoadIM(a).loaded[m] = inst.loaded[m]
           /\ \A m \in LoadIM(a).avail \ inst.avail : LoadIM(a).loaded[m] # 0
           /\ \A m \in Fails(setup.broken) :
                /\ LoadIM(a).loaded[m] = inst.loaded[m]
                /\ m \in LoadIM(a).avail => m \in inst.avail
           /\ \A m \in Methods \ Fails(setup.broken) :
                Owner[m] = a => LoadIM(a).loaded[m] # 0
  <1>1. CASE a = NoAddon \/ Registers(a) = {}
    <2>1. LoadIM(a) = inst
      BY <1>1 DEF LoadIM
    <2>2. \A m \in Methods \ Fails(setup.broken) : Owner[m] # a
      BY <1>1, RegistersFacts, OwnersAssumption
    <2>3. QED
      BY <2>1, <2>2, InstanceFields
  <1>2. CASE a # NoAddon /\ Registers(a) # {}
    <2> DEFINE avail == inst.avail \union Registers(a)
               loaded == [m \in Methods |-> IF m \in Registers(a) /\ inst.loaded[m] = 0
                                            THEN inst.created[a] + 1 ELSE inst.loaded[m]]
               created == [inst.created EXCEPT ![a] = @ + 1]
    <2>1. Registers(a) \subseteq Methods
      BY DEF Registers
    <2>2. inst.avail \in SUBSET Methods /\ inst.loaded \in [Methods -> Nat]
          /\ inst.created \in [Addons -> Nat] /\ a \in Addons
      BY <1>2, InstanceFields
    <2>3. avail \in SUBSET Methods /\ loaded \in [Methods -> Nat] /\ created \in [Addons -> Nat]
      BY <2>1, <2>2
    <2>4. LoadIM(a) = [inst EXCEPT !.avail = avail, !.loaded = loaded, !.created = created]
      BY <1>2 DEF LoadIM
    <2>5. \A m \in Methods : inst.loaded[m] # 0 => loaded[m] = inst.loaded[m]
      OBVIOUS
    <2>6. \A m \in avail \ inst.avail : loaded[m] # 0
      BY <2>1, <2>2
    <2>7. /\ inst.avail \subseteq avail
          /\ \A m \in Fails(setup.broken) :
               loaded[m] = inst.loaded[m] /\ (m \in avail => m \in inst.avail)
          /\ \A m \in Methods \ Fails(setup.broken) : Owner[m] = a => loaded[m] # 0
      <3>1. Fails(setup.broken) \subseteq Methods
        BY DEF Fails
      <3>2. \A m \in Fails(setup.broken) : m \notin Registers(a)
        BY RegistersFacts
      <3>3. \A m \in Methods \ Fails(setup.broken) : Owner[m] = a => m \in Registers(a)
        BY RegistersFacts
      <3>4. QED
        BY <2>2, <3>1, <3>2, <3>3
    <2> HIDE DEF avail, loaded, created
    <2>8. LoadIM(a) \in Instance
      BY <2>3, <2>4 DEF Instance
    <2>9. /\ LoadIM(a).avail = avail /\ LoadIM(a).loaded = loaded
          /\ LoadIM(a).imes = inst.imes /\ LoadIM(a).profile = inst.profile
          /\ LoadIM(a).iIMIndex = inst.iIMIndex /\ LoadIM(a).lastIMIndex = inst.lastIMIndex
          /\ LoadIM(a).stack = inst.stack
      BY <2>4 DEF Instance
    <2>10. QED
      BY <2>5, <2>6, <2>7, <2>8, <2>9
  <1>3. QED
    BY <1>1, <1>2

\* What SwitchIM selects is an entry, unless there are too few.
LEMMA SelectedFacts ==
    ASSUME NEW n \in Nat, NEW current \in Int, current >= -1,
           NEW index \in Int, index >= -2, NEW skipZero \in BOOLEAN
    PROVE  /\ Selected(n, current, index, skipZero) \in Int
           /\ Selected(n, current, index, skipZero) >= -1
           /\ \A c \in Nat \ {0} :
                n <= c /\ current <= c => Selected(n, current, index, skipZero) <= c
           /\ (n > IF skipZero THEN 1 ELSE 0) /\ (index = -2 => current <= n)
                => Selected(n, current, index, skipZero) \in 0 .. n - 1
  <1> DEFINE i == CASE index >= n -> n - 1
                    [] index < n /\ index >= 0 -> index
                    [] index < n /\ index = -1 -> IF current >= n - 1 THEN 0 ELSE current + 1
                    [] index < n /\ index = -2 -> IF current > 0 THEN current - 1 ELSE n - 1
  <1>1. CASE index >= n
    <2>1. i = n - 1
      BY <1>1
    <2>2. QED
      BY <1>1, <2>1 DEF Selected
  <1>2. CASE index < n /\ index >= 0
    <2>1. i = index
      BY <1>2
    <2>2. QED
      BY <1>2, <2>1 DEF Selected
  <1>3. CASE index < n /\ index = -1
    <2>1. i = IF current >= n - 1 THEN 0 ELSE current + 1
      BY <1>3
    <2>2. QED
      BY <1>3, <2>1 DEF Selected
  <1>4. CASE index < n /\ index = -2
    <2>1. i = IF current > 0 THEN current - 1 ELSE n - 1
      BY <1>4
    <2>2. QED
      BY <1>4, <2>1 DEF Selected
  <1>5. QED
    BY <1>1, <1>2, <1>3, <1>4

LEMMA LookupFacts ==
    ASSUME NEW list \in Seq(IMs), NEW m
    PROVE  /\ GetIMIndexByName(list, m) \in Nat
           /\ GetIMIndexByName(list, m) \in 0 .. Len(list) - 1 \/ GetIMIndexByName(list, m) = 0
           /\ m \in NamesOf(list) =>
                /\ HasElement(list, GetIMIndexByName(list, m))
                /\ Element(list, GetIMIndexByName(list, m)).name = m
  <1> DEFINE first(i) == list[i].name = m /\ \A j \in 1 .. i - 1 : list[j].name # m
  <1>1. CASE m \in NamesOf(list)
    <2> DEFINE T == {i \in 1 .. Len(list) : list[i].name = m}
    <2>1. T # {} /\ T \in SUBSET Nat
      BY <1>1 DEF NamesOf
    <2>2. PICK t \in T : \A i \in T : t <= i
      BY <2>1, SmallestNumber
    <2>3. t \in 1 .. Len(list) /\ first(t)
      <3>1. ASSUME NEW j \in 1 .. t - 1, list[j].name = m
            PROVE  FALSE
        <4>1. j \in T
          BY <2>2, <3>1
        <4>2. t <= j
          BY <2>2, <4>1
        <4>3. QED
          BY <2>2, <4>2
      <3>2. QED
        BY <2>2, <3>1
    <2> DEFINE i == CHOOSE k \in 1 .. Len(list) : first(k)
    <2>4. i \in 1 .. Len(list) /\ first(i)
      BY <2>3
    <2>5. GetIMIndexByName(list, m) = i - 1
      BY <1>1 DEF GetIMIndexByName
    <2> HIDE DEF i
    <2>6. list[(i - 1) + 1] = list[i] /\ i - 1 \in 0 .. Len(list) - 1
      BY <2>4
    <2>7. QED
      BY <2>4, <2>5, <2>6 DEF HasElement, Element
  <1>2. CASE m \notin NamesOf(list)
    BY <1>2 DEF GetIMIndexByName
  <1>3. QED
    BY <1>1, <1>2

\* The calls below the one that goes on, and the frame it leaves.
LEMMA StackFacts ==
    ASSUME inst \in Instance, inst.stack # <<>>
    PROVE  /\ Len(inst.stack) \in Nat \ {0}
           /\ Top \in Frames
           /\ Below \in Seq(Frames) /\ Len(Below) = Len(inst.stack) - 1
           /\ \A i \in 1 .. Len(inst.stack) - 1 : Below[i] = inst.stack[i]
  <1>1. inst.stack \in Seq(Frames)
    BY InstanceFields
  <1>2. QED
    BY <1>1 DEF Top, Below

LEMMA Pushed ==
    ASSUME NEW s \in Seq(Frames), NEW f \in Frames
    PROVE  /\ Append(s, f) \in Seq(Frames) /\ Len(Append(s, f)) = Len(s) + 1
           /\ \A i \in 1 .. Len(s) : Append(s, f)[i] = s[i]
           /\ Append(s, f)[Len(s) + 1] = f
           /\ Len(s) \in Nat
           /\ Append(s, f) # <<>>
  OBVIOUS

\* A call to SwitchIM is put on the stack; it loads the method or it is one
\* that is loaded, if any.
LEMMA SwitchIMFacts ==
    ASSUME NEW s \in Instance, s.iIMIndex >= -1,
           NEW index \in Int, index >= -2, NEW skipZero \in BOOLEAN,
           NEW t, t = SwitchIM(s, index, skipZero)
    PROVE  /\ t \in Instance
           /\ t.avail = s.avail /\ t.loaded = s.loaded /\ t.imes = s.imes
           /\ t.lastIMIndex = s.lastIMIndex /\ t.profile = s.profile
           /\ t.iIMIndex = Selected(Len(s.imes), s.iIMIndex, index, skipZero)
           /\ Len(t.stack) = Len(s.stack) + 1
           /\ \A i \in 1 .. Len(s.stack) : t.stack[i] = s.stack[i]
           /\ t.stack[Len(s.stack) + 1].list = <<>>
           /\ \/ /\ t.stack[Len(s.stack) + 1].at = "load"
                 /\ t.stack[Len(s.stack) + 1].method \in Methods
                 /\ t.stack[Len(s.stack) + 1].method \in NamesOf(s.imes)
              \/ /\ t.stack[Len(s.stack) + 1].at = "init"
                 /\ HasElement(s.imes, t.iIMIndex) => Element(s.imes, t.iIMIndex).klass # 0
  <1> DEFINE n == Len(s.imes)
             new == Selected(n, s.iIMIndex, index, skipZero)
             old == Remembered(s.iIMIndex, s.lastIMIndex)
             lazy == HasElement(s.imes, new) /\ Element(s.imes, new).klass = 0
             top == IF lazy THEN Frame("load", Element(s.imes, new).name, old)
                    ELSE Frame("init", NoMethod, old)
             stack == Append(s.stack, top)
  <1>1. /\ s.imes \in Seq(IMs) /\ s.stack \in Seq(Frames) /\ n \in Nat
        /\ s.iIMIndex \in Int /\ s.lastIMIndex \in Int
    BY InstanceFields
  <1>2. new \in Int
    BY <1>1, SelectedFacts
  <1>3. old \in Int
    BY <1>1 DEF Remembered
  <1> HIDE DEF new, old
  <1>4. HasElement(s.imes, new) =>
          Element(s.imes, new).name \in Methods /\ Element(s.imes, new).name \in NamesOf(s.imes)
    <2>1. HasElement(s.imes, new) => new + 1 \in 1 .. n
      BY <1>1, <1>2 DEF HasElement
    <2>2. HasElement(s.imes, new) => Element(s.imes, new) \in IMs
      BY <1>1, <2>1 DEF Element
    <2>3. HasElement(s.imes, new) => Element(s.imes, new).name \in NamesOf(s.imes)
      BY <1>1, <2>1 DEF Element, NamesOf
    <2>4. QED
      BY <2>2, <2>3 DEF IMs
  <1>5. /\ top \in Frames /\ top.list = <<>>
        /\ \/ top.at = "load" /\ top.method \in Methods /\ top.method \in NamesOf(s.imes)
           \/ top.at = "init" /\ (HasElement(s.imes, new) => Element(s.imes, new).klass # 0)
    <2>1. CASE lazy
      BY <1>3, <1>4, <2>1, NewFrame
    <2>2. CASE ~lazy
      BY <1>3, <2>2, NewFrame
    <2>3. QED
      BY <2>1, <2>2
  <1>6. t = [s EXCEPT !.iIMIndex = new, !.stack = stack]
    BY DEF SwitchIM, new, old
  <1> HIDE DEF top
  <1>7. /\ stack \in Seq(Frames) /\ Len(stack) = Len(s.stack) + 1
        /\ \A i \in 1 .. Len(s.stack) : stack[i] = s.stack[i]
        /\ stack[Len(s.stack) + 1] = top
    BY <1>1, <1>5, Pushed
  <1> HIDE DEF stack
  <1>8. /\ t \in Instance
        /\ t.avail = s.avail /\ t.loaded = s.loaded /\ t.imes = s.imes
        /\ t.lastIMIndex = s.lastIMIndex /\ t.profile = s.profile
        /\ t.iIMIndex = new /\ t.stack = stack
    BY <1>2, <1>6, <1>7 DEF Instance
  <1>9. QED
    BY <1>5, <1>7, <1>8 DEF new

-----------------------------------------------------------------------------
(* The steps of the calls in progress. *)

Places == {"boot", "booted", "clear", "listed", "unlisted", "load", "reload", "init",
           "save", "write"}

\* A call that loads names the method.
Named ==
    \A i \in 1 .. Len(inst.stack) :
      inst.stack[i].at \in {"load", "reload"} => inst.stack[i].method \in Methods

\* The state is well typed.
Types ==
    /\ inst \in Instance /\ disk \in Profiles /\ promise \in Promise
    /\ inst.iIMIndex >= -1 /\ inst.lastIMIndex >= -1
    /\ setup.firstAsInactive \in BOOLEAN
    /\ life \in {"down", "boot", "up"}
    /\ Named

\* How a step changes what is loaded: a method stays loaded, and one that
\* becomes available is.
Loads ==
    /\ \A m \in Methods : inst.loaded[m] # 0 => inst'.loaded[m] = inst.loaded[m]
    /\ \A m \in inst'.avail \ inst.avail : inst'.loaded[m] # 0

\* A method that is not registered stays as it is, or is removed.
FailsStay ==
    \A m \in Fails(setup.broken) :
      inst'.loaded[m] = inst.loaded[m] /\ (m \in inst'.avail => m \in inst.avail)

\* The first k calls in progress wait.
Wait(k) == \A i \in 1 .. k : inst'.stack[i] = inst.stack[i]

Unloaded == inst'.avail = inst.avail /\ inst'.loaded = inst.loaded
SameIndex == inst'.iIMIndex = inst.iIMIndex /\ inst'.lastIMIndex = inst.lastIMIndex

\* The call that goes on is at a place, with its method and list.
Now(k, at) ==
    /\ inst'.stack[k].at = at
    /\ inst'.stack[k].method = Top.method /\ inst'.stack[k].list = Top.list

LEMMA GoOnFacts ==
    ASSUME inst \in Instance, inst.stack # <<>>, NEW at \in Places
    PROVE  /\ GoOn(at) \in Seq(Frames) /\ Len(GoOn(at)) = Len(inst.stack)
           /\ \A i \in 1 .. Len(inst.stack) - 1 : GoOn(at)[i] = inst.stack[i]
           /\ GoOn(at)[Len(inst.stack)].at = at
           /\ GoOn(at)[Len(inst.stack)].method = Top.method
           /\ GoOn(at)[Len(inst.stack)].list = Top.list
  <1> DEFINE f == [Top EXCEPT !.at = at]
  <1>1. /\ Len(inst.stack) \in Nat \ {0} /\ Top \in Frames
        /\ Below \in Seq(Frames) /\ Len(Below) = Len(inst.stack) - 1
        /\ \A i \in 1 .. Len(inst.stack) - 1 : Below[i] = inst.stack[i]
    BY StackFacts
  <1>2. f \in Frames /\ f.at = at /\ f.method = Top.method /\ f.list = Top.list
    BY <1>1 DEF Frames, Places
  <1>3. GoOn(at) = Append(Below, f)
    BY DEF GoOn
  <1> HIDE DEF f
  <1>4. /\ Append(Below, f) \in Seq(Frames) /\ Len(Append(Below, f)) = Len(Below) + 1
        /\ \A i \in 1 .. Len(Below) : Append(Below, f)[i] = Below[i]
        /\ Append(Below, f)[Len(Below) + 1] = f
    BY <1>1, <1>2, Pushed
  <1>5. QED
    BY <1>1, <1>2, <1>3, <1>4

LEMMA LoadStep ==
    ASSUME Types, Load
    PROVE  LET n == Len(inst.stack)
           IN /\ inst' \in Instance /\ Loads
              /\ inst'.imes = inst.imes /\ inst'.profile = inst.profile /\ SameIndex
              /\ Top.method \in Methods /\ FailsStay
              /\ \A m \in inst.avail \ inst'.avail :
                   m = Top.method /\ m \in Fails(setup.broken)
              /\ inst'.loaded[Top.method] # 0 \/ Top.method \notin inst'.avail
              /\ Len(inst'.stack) = n + 1 /\ n + 1 <= MaxDepth /\ Wait(n - 1)
              /\ Now(n, "reload")
              /\ inst'.stack[n + 1].at = "clear" /\ inst'.stack[n + 1].list = <<>>
  <1> DEFINE n == Len(inst.stack)
             m == Top.method
             now == LoadIM(Owner[m])
             avail == IF now.loaded[m] = 0 THEN now.avail \ {m} ELSE now.avail
             stack == Append(GoOn("reload"), UpdateIMList)
  <1>1. /\ inst \in Instance /\ inst.stack # <<>> /\ Top.at = "load"
        /\ Len(inst.stack) < MaxDepth
    BY DEF Types, Load, At
  <1>2. m \in Methods /\ Owner[m] \in Addons \union {NoAddon}
    <2>1. Len(inst.stack) \in 1 .. Len(inst.stack) /\ Top = inst.stack[Len(inst.stack)]
      BY <1>1, StackFacts DEF Top
    <2>2. m \in Methods
      BY <1>1, <2>1 DEF Types, Named
    <2>3. QED
      BY <2>2, OwnersAssumption
  <1>3. /\ now \in Instance
        /\ now.imes = inst.imes /\ now.profile = inst.profile
        /\ now.iIMIndex = inst.iIMIndex /\ now.lastIMIndex = inst.lastIMIndex
        /\ \A k \in Methods : inst.loaded[k] # 0 => now.loaded[k] = inst.loaded[k]
        /\ \A k \in now.avail \ inst.avail : now.loaded[k] # 0
        /\ inst.avail \subseteq now.avail
        /\ \A k \in Fails(setup.broken) :
             now.loaded[k] = inst.loaded[k] /\ (k \in now.avail => k \in inst.avail)
        /\ m \notin Fails(setup.broken) => now.loaded[m] # 0
    BY <1>1, <1>2, LoadIMFacts
  <1>4. /\ stack \in Seq(Frames) /\ Len(stack) = n + 1 /\ n \in Nat \ {0}
        /\ \A i \in 1 .. n - 1 : stack[i] = inst.stack[i]
        /\ stack[n].at = "reload" /\ stack[n].method = m /\ stack[n].list = Top.list
        /\ stack[n + 1].at = "clear" /\ stack[n + 1].list = <<>>
    <2> DEFINE below == GoOn("reload")
               f == UpdateIMList
    <2>1. /\ below \in Seq(Frames) /\ Len(below) = n
          /\ \A i \in 1 .. n - 1 : below[i] = inst.stack[i]
          /\ below[n].at = "reload" /\ below[n].method = m /\ below[n].list = Top.list
      BY <1>1, GoOnFacts DEF Places
    <2>2. f \in Frames /\ f.at = "clear" /\ f.list = <<>>
      BY NewFrame DEF UpdateIMList
    <2>3. n \in Nat \ {0}
      BY <1>1, StackFacts
    <2> HIDE DEF below, f, n
    <2>4. /\ Append(below, f) \in Seq(Frames) /\ Len(Append(below, f)) = Len(below) + 1
          /\ \A i \in 1 .. Len(below) : Append(below, f)[i] = below[i]
          /\ Append(below, f)[Len(below) + 1] = f
      BY <2>1, <2>2, Pushed
    <2>5. QED
      BY <2>1, <2>2, <2>3, <2>4 DEF below, f
  <1>5. inst' = [now EXCEPT !.avail = avail, !.stack = stack]
    BY DEF Load
  <1> HIDE DEF now, stack
  <1>6. avail \in SUBSET Methods /\ avail \subseteq now.avail
    BY <1>3, InstanceFields
  <1> HIDE DEF avail
  <1>7. /\ inst' \in Instance
        /\ inst'.avail = avail /\ inst'.loaded = now.loaded /\ inst'.stack = stack
        /\ inst'.imes = now.imes /\ inst'.profile = now.profile
        /\ inst'.iIMIndex = now.iIMIndex /\ inst'.lastIMIndex = now.lastIMIndex
    BY <1>3, <1>4, <1>5, <1>6 DEF Instance
  <1>8. inst'.loaded[m] # 0 \/ m \notin inst'.avail
    BY <1>7 DEF avail
  <1>9. Loads
    BY <1>3, <1>6, <1>7 DEF Loads
  <1>10. Len(inst.stack) + 1 <= MaxDepth
    BY <1>1, <1>4, BoundsAssumption
  <1>11. FailsStay
    BY <1>3, <1>6, <1>7 DEF FailsStay
  <1>12. \A k \in inst.avail \ inst'.avail : k = m /\ k \in Fails(setup.broken)
    BY <1>2, <1>3, <1>7 DEF avail
  <1>13. QED
    BY <1>2, <1>3, <1>4, <1>7, <1>8, <1>9, <1>10, <1>11, <1>12 DEF Wait, Now, SameIndex

LEMMA ReloadStep ==
    ASSUME Types, Reload
    PROVE  LET n == Len(inst.stack)
           IN /\ inst' \in Instance /\ Unloaded
              /\ inst'.imes = inst.imes /\ inst'.profile = inst.profile
              /\ inst'.iIMIndex = GetIMIndexByName(inst.imes, Top.method)
              /\ inst'.lastIMIndex = inst.lastIMIndex
              /\ Len(inst'.stack) = n /\ Wait(n - 1) /\ Now(n, "init")
  <1> DEFINE index == GetIMIndexByName(inst.imes, Top.method)
             stack == GoOn("init")
  <1>1. inst \in Instance /\ inst.stack # <<>>
    BY DEF Types, Reload, At
  <1>2. index \in Int
    BY <1>1, InstanceFields, LookupFacts
  <1>3. /\ stack \in Seq(Frames) /\ Len(stack) = Len(inst.stack)
        /\ \A i \in 1 .. Len(inst.stack) - 1 : stack[i] = inst.stack[i]
        /\ stack[Len(inst.stack)].at = "init"
        /\ stack[Len(inst.stack)].method = Top.method
        /\ stack[Len(inst.stack)].list = Top.list
    BY <1>1, GoOnFacts DEF Places
  <1>4. inst' = [inst EXCEPT !.iIMIndex = index, !.stack = stack]
    BY DEF Reload
  <1> HIDE DEF index, stack
  <1>5. /\ inst' \in Instance
        /\ inst'.avail = inst.avail /\ inst'.loaded = inst.loaded /\ inst'.imes = inst.imes
        /\ inst'.profile = inst.profile /\ inst'.lastIMIndex = inst.lastIMIndex
        /\ inst'.iIMIndex = index /\ inst'.stack = stack
    BY <1>1, <1>2, <1>3, <1>4 DEF Instance
  <1>6. QED
    BY <1>3, <1>5 DEF Wait, Now, Unloaded, index

LEMMA InitIMStep ==
    ASSUME Types, InitIM
    PROVE  LET n == Len(inst.stack)
           IN /\ inst' \in Instance /\ Loads /\ inst.avail \subseteq inst'.avail /\ FailsStay
              /\ inst'.imes = inst.imes /\ inst'.profile = inst.profile
              /\ inst'.iIMIndex = inst.iIMIndex
              /\ inst'.lastIMIndex \in {inst.iIMIndex, inst.lastIMIndex}
              /\ inst'.lastIMIndex = IF setup.firstAsInactive /\ inst.iIMIndex # 0
                                     THEN inst.iIMIndex ELSE inst.lastIMIndex
              /\ Wait(n - 1)
              /\ \/ Len(inst'.stack) = n /\ Now(n, "save")
                 \/ Len(inst'.stack) = n - 1
  <1> DEFINE n == Len(inst.stack)
             current == HasElement(inst.imes, inst.iIMIndex)
             im == Element(inst.imes, inst.iIMIndex)
             uses == IF current /\ im.klass # 0 THEN Uses[im.name] ELSE NoAddon
             fresh == uses # NoAddon /\ inst.created[uses] = 0
             last == IF setup.firstAsInactive /\ inst.iIMIndex # 0 THEN inst.iIMIndex
                     ELSE inst.lastIMIndex
             new == Remembered(inst.iIMIndex, last)
             now == IF fresh THEN LoadIM(uses) ELSE inst
             stack == IF new # Top.old THEN GoOn("save") ELSE Below
  <1>1. /\ inst \in Instance /\ inst.stack # <<>> /\ inst.iIMIndex \in Int
        /\ inst.lastIMIndex \in Int
    BY InstanceFields DEF Types, InitIM, At
  <1>2. inst' = [now EXCEPT !.lastIMIndex = last, !.stack = stack]
    BY DEF InitIM
  <1>3. uses \in Addons \union {NoAddon}
    <2>1. ASSUME current
          PROVE  im.name \in Methods
      <3>1. inst.imes \in Seq(IMs)
        BY <1>1, InstanceFields
      <3>2. inst.iIMIndex + 1 \in 1 .. Len(inst.imes)
        BY <1>1, <2>1, <3>1 DEF HasElement
      <3>3. im \in IMs
        BY <3>1, <3>2 DEF Element
      <3>4. QED
        BY <3>3 DEF IMs
    <2> HIDE DEF current, im
    <2>2. QED
      BY <2>1, OwnersAssumption
  <1>4. last \in {inst.iIMIndex, inst.lastIMIndex}
    OBVIOUS
  <1> HIDE DEF uses, last
  <1>5. /\ now \in Instance
        /\ now.imes = inst.imes /\ now.profile = inst.profile
        /\ now.iIMIndex = inst.iIMIndex
        /\ inst.avail \subseteq now.avail
        /\ \A k \in Methods : inst.loaded[k] # 0 => now.loaded[k] = inst.loaded[k]
        /\ \A k \in now.avail \ inst.avail : now.loaded[k] # 0
        /\ \A k \in Fails(setup.broken) :
             now.loaded[k] = inst.loaded[k] /\ (k \in now.avail => k \in inst.avail)
    BY <1>1, <1>3, LoadIMFacts
  <1>6. /\ stack \in Seq(Frames)
        /\ \A i \in 1 .. n - 1 : stack[i] = inst.stack[i]
        /\ \/ /\ Len(stack) = n
              /\ stack[n].at = "save" /\ stack[n].method = Top.method /\ stack[n].list = Top.list
           \/ Len(stack) = n - 1
    BY <1>1, StackFacts, GoOnFacts DEF Places
  <1> HIDE DEF now, stack
  <1>7. /\ inst' \in Instance
        /\ inst'.avail = now.avail /\ inst'.loaded = now.loaded /\ inst'.stack = stack
        /\ inst'.imes = now.imes /\ inst'.profile = now.profile
        /\ inst'.iIMIndex = now.iIMIndex /\ inst'.lastIMIndex = last
    BY <1>1, <1>2, <1>4, <1>5, <1>6 DEF Instance
  <1>8. Loads /\ FailsStay
    BY <1>5, <1>7 DEF Loads, FailsStay
  <1>9. QED
    BY <1>4, <1>5, <1>6, <1>7, <1>8 DEF Wait, Now, last

LEMMA ClearStep ==
    ASSUME Types, Clear
    PROVE  LET n == Len(inst.stack)
           IN /\ inst' \in Instance /\ Unloaded
              /\ inst'.imes = <<>> /\ inst'.profile = inst.profile /\ SameIndex
              /\ Len(inst'.stack) = n /\ Wait(n - 1)
              /\ inst'.stack[n].at = "listed" /\ inst'.stack[n].list = inst.profile.imList
  <1> DEFINE n == Len(inst.stack)
             list == inst.profile.imList
             f == [Top EXCEPT !.at = "listed", !.list = list]
             stack == Append(Below, f)
  <1>1. inst \in Instance /\ inst.stack # <<>>
    BY DEF Types, Clear, At
  <1>2. list \in Seq(Entries)
    BY <1>1, InstanceFields DEF Profiles
  <1>3. inst' = [inst EXCEPT !.imes = <<>>, !.stack = stack]
    BY DEF Clear
  <1> HIDE DEF list
  <1>4. /\ n \in Nat \ {0} /\ Top \in Frames
        /\ Below \in Seq(Frames) /\ Len(Below) = n - 1
        /\ \A i \in 1 .. n - 1 : Below[i] = inst.stack[i]
    BY <1>1, StackFacts
  <1>5. f \in Frames /\ f.at = "listed" /\ f.list = list
    BY <1>2, <1>4 DEF Frames
  <1> HIDE DEF f
  <1>6. /\ stack \in Seq(Frames) /\ Len(stack) = Len(Below) + 1
        /\ \A i \in 1 .. Len(Below) : stack[i] = Below[i]
        /\ stack[Len(Below) + 1] = f
    BY <1>4, <1>5, Pushed
  <1> HIDE DEF stack
  <1>7. <<>> \in Seq(IMs)
    OBVIOUS
  <1>8. /\ inst' \in Instance
        /\ inst'.avail = inst.avail /\ inst'.loaded = inst.loaded /\ inst'.imes = <<>>
        /\ inst'.profile = inst.profile /\ inst'.lastIMIndex = inst.lastIMIndex
        /\ inst'.iIMIndex = inst.iIMIndex /\ inst'.stack = stack
    BY <1>1, <1>3, <1>6, <1>7 DEF Instance
  <1>9. QED
    BY <1>4, <1>5, <1>6, <1>8 DEF Wait, Unloaded, SameIndex, list

LEMMA AddListedStep ==
    ASSUME Types, AddListed
    PROVE  LET n == Len(inst.stack)
           IN /\ inst' \in Instance /\ Unloaded
              /\ inst'.imes = Listed(Top.list) /\ Top.list \in Seq(Entries)
              /\ inst'.profile = inst.profile /\ SameIndex
              /\ Len(inst'.stack) = n /\ Wait(n - 1) /\ Now(n, "unlisted")
  <1> DEFINE imes == Listed(Top.list)
             stack == GoOn("unlisted")
  <1>1. inst \in Instance /\ inst.stack # <<>>
    BY DEF Types, AddListed, At
  <1>2. inst' = [inst EXCEPT !.imes = imes, !.stack = stack]
    BY DEF AddListed
  <1>3. Top.list \in Seq(Entries)
    BY <1>1, StackFacts, FrameFields
  <1>4. imes \in Seq(IMs)
    BY <1>1, <1>3, ListedFacts
  <1>5. /\ stack \in Seq(Frames) /\ Len(stack) = Len(inst.stack)
        /\ \A i \in 1 .. Len(inst.stack) - 1 : stack[i] = inst.stack[i]
        /\ stack[Len(inst.stack)].at = "unlisted"
        /\ stack[Len(inst.stack)].method = Top.method
        /\ stack[Len(inst.stack)].list = Top.list
    BY <1>1, GoOnFacts DEF Places
  <1> HIDE DEF imes, stack
  <1>6. /\ inst' \in Instance
        /\ inst'.avail = inst.avail /\ inst'.loaded = inst.loaded /\ inst'.imes = imes
        /\ inst'.profile = inst.profile /\ inst'.lastIMIndex = inst.lastIMIndex
        /\ inst'.iIMIndex = inst.iIMIndex /\ inst'.stack = stack
    BY <1>1, <1>2, <1>4, <1>5 DEF Instance
  <1>7. QED
    BY <1>3, <1>5, <1>6 DEF Wait, Now, Unloaded, SameIndex, imes

LEMMA OpenProfileStep ==
    ASSUME Types, OpenProfile
    PROVE  LET n == Len(inst.stack)
           IN /\ inst' \in Instance /\ Unloaded
              /\ inst'.imes = inst.imes /\ inst'.profile = Synced /\ SameIndex
              /\ Len(inst'.stack) = n /\ Wait(n - 1) /\ Now(n, "write")
  <1> DEFINE profile == Synced
             stack == GoOn("write")
  <1>1. inst \in Instance /\ inst.stack # <<>>
    BY DEF Types, OpenProfile, At
  <1>2. inst' = [inst EXCEPT !.profile = profile, !.stack = stack]
    BY DEF OpenProfile
  <1>3. profile \in Profiles
    BY <1>1, SyncedFacts
  <1>4. /\ stack \in Seq(Frames) /\ Len(stack) = Len(inst.stack)
        /\ \A i \in 1 .. Len(inst.stack) - 1 : stack[i] = inst.stack[i]
        /\ stack[Len(inst.stack)].at = "write"
        /\ stack[Len(inst.stack)].method = Top.method
        /\ stack[Len(inst.stack)].list = Top.list
    BY <1>1, GoOnFacts DEF Places
  <1> HIDE DEF profile, stack
  <1>5. /\ inst' \in Instance
        /\ inst'.avail = inst.avail /\ inst'.loaded = inst.loaded /\ inst'.imes = inst.imes
        /\ inst'.profile = profile /\ inst'.lastIMIndex = inst.lastIMIndex
        /\ inst'.iIMIndex = inst.iIMIndex /\ inst'.stack = stack
    BY <1>1, <1>2, <1>3, <1>4 DEF Instance
  <1>6. QED
    BY <1>4, <1>5 DEF Wait, Now, Unloaded, SameIndex, profile

\* A call that returns.
LEMMA ReturnStep ==
    ASSUME Types, WriteProfile \/ Booted
    PROVE  LET n == Len(inst.stack)
           IN /\ inst' \in Instance /\ Unloaded
              /\ inst'.imes = inst.imes /\ inst'.profile = inst.profile
              /\ inst'.iIMIndex = inst.iIMIndex
              /\ inst'.lastIMIndex = IF Top.at = "booted" THEN inst.iIMIndex ELSE inst.lastIMIndex
              /\ Len(inst'.stack) = n - 1 /\ Wait(n - 1)
  <1>1. inst \in Instance /\ inst.stack # <<>>
    BY DEF Types, WriteProfile, Booted, At
  <1> DEFINE stack == Below
             last == IF Top.at = "booted" THEN inst.iIMIndex ELSE inst.lastIMIndex
  <1>2. inst.iIMIndex \in Int /\ inst.lastIMIndex \in Int
    BY <1>1, InstanceFields
  <1>3. \/ inst' = [inst EXCEPT !.stack = stack] /\ last = inst.lastIMIndex
        \/ inst' = [inst EXCEPT !.lastIMIndex = last, !.stack = stack]
    <2>1. CASE WriteProfile
      BY <2>1 DEF WriteProfile, At
    <2>2. CASE Booted
      BY <2>2 DEF Booted, At
    <2>3. QED
      BY <2>1, <2>2
  <1>4. /\ stack \in Seq(Frames) /\ Len(stack) = Len(inst.stack) - 1
        /\ \A i \in 1 .. Len(inst.stack) - 1 : stack[i] = inst.stack[i]
    BY <1>1, StackFacts
  <1>5. last \in Int
    BY <1>2
  <1> HIDE DEF stack, last
  <1>6. /\ inst' \in Instance
        /\ inst'.avail = inst.avail /\ inst'.loaded = inst.loaded /\ inst'.imes = inst.imes
        /\ inst'.profile = inst.profile /\ inst'.lastIMIndex = last
        /\ inst'.iIMIndex = inst.iIMIndex /\ inst'.stack = stack
    BY <1>1, <1>3, <1>4, <1>5 DEF Instance
  <1>7. QED
    BY <1>4, <1>6 DEF Wait, Unloaded, last

\* The call to SwitchIM that is the k-th one: it loads, or there is nothing to
\* load.
Called(k) ==
    /\ inst'.stack[k].list = <<>>
    /\ \/ /\ inst'.stack[k].at = "load" /\ inst'.stack[k].method \in Methods
          /\ inst'.stack[k].method \in NamesOf(inst'.imes)
       \/ /\ inst'.stack[k].at = "init"
          /\ HasElement(inst'.imes, inst'.iIMIndex) =>
               Element(inst'.imes, inst'.iIMIndex).klass # 0

\* The index it selects is that of an entry, if there are enough.
Settles(skipZero) ==
    Len(inst'.imes) > (IF skipZero THEN 1 ELSE 0) => HasElement(inst'.imes, inst'.iIMIndex)

LEMMA SwitchStep ==
    ASSUME NEW s \in Instance, s.iIMIndex >= -1,
           NEW index \in Int, index >= -2, NEW skipZero \in BOOLEAN,
           inst' = SwitchIM(s, index, skipZero)
    PROVE  /\ inst' \in Instance
           /\ inst'.avail = s.avail /\ inst'.loaded = s.loaded /\ inst'.imes = s.imes
           /\ inst'.lastIMIndex = s.lastIMIndex /\ inst'.profile = s.profile
           /\ inst'.iIMIndex >= -1
           /\ \A c \in Nat \ {0} :
                Len(s.imes) <= c /\ s.iIMIndex <= c => inst'.iIMIndex <= c
           /\ Len(inst'.stack) = Len(s.stack) + 1
           /\ \A i \in 1 .. Len(s.stack) : inst'.stack[i] = s.stack[i]
           /\ Called(Len(s.stack) + 1)
           /\ (index = -2 => s.iIMIndex <= Len(s.imes)) => Settles(skipZero)
  <1> DEFINE k == Len(s.stack) + 1
             new == Selected(Len(s.imes), s.iIMIndex, index, skipZero)
  <1>1. /\ inst' \in Instance
        /\ inst'.avail = s.avail /\ inst'.loaded = s.loaded /\ inst'.imes = s.imes
        /\ inst'.lastIMIndex = s.lastIMIndex /\ inst'.profile = s.profile
        /\ inst'.iIMIndex = new
        /\ Len(inst'.stack) = k
        /\ \A i \in 1 .. Len(s.stack) : inst'.stack[i] = s.stack[i]
        /\ inst'.stack[k].list = <<>>
        /\ \/ /\ inst'.stack[k].at = "load" /\ inst'.stack[k].method \in Methods
              /\ inst'.stack[k].method \in NamesOf(s.imes)
           \/ /\ inst'.stack[k].at = "init"
              /\ HasElement(s.imes, inst'.iIMIndex) => Element(s.imes, inst'.iIMIndex).klass # 0
    BY SwitchIMFacts
  <1>2. Len(s.imes) \in Nat /\ s.iIMIndex \in Int
    BY InstanceFields
  <1>3. /\ new \in Int /\ new >= -1
        /\ \A c \in Nat \ {0} : Len(s.imes) <= c /\ s.iIMIndex <= c => new <= c
        /\ (Len(s.imes) > IF skipZero THEN 1 ELSE 0) /\ (index = -2 => s.iIMIndex <= Len(s.imes))
             => new \in 0 .. Len(s.imes) - 1
    BY <1>2, SelectedFacts
  <1> HIDE DEF k, new
  <1>4. Called(k)
    BY <1>1 DEF Called
  <1>5. (index = -2 => s.iIMIndex <= Len(s.imes)) => Settles(skipZero)
    BY <1>1, <1>3 DEF Settles, HasElement
  <1>6. QED
    BY <1>1, <1>3, <1>4, <1>5 DEF k

LEMMA AddUnlistedStep ==
    ASSUME Types, AddUnlisted
    PROVE  LET n == Len(inst.stack)
           IN /\ inst' \in Instance /\ Unloaded
              /\ inst'.imes = inst.imes \o Unlisted(Top.list) /\ Top.list \in Seq(Entries)
              /\ inst'.profile = inst.profile
              /\ inst'.lastIMIndex = inst.lastIMIndex /\ inst'.iIMIndex >= -1
              /\ \A c \in Nat \ {0} : Len(inst'.imes) <= c => inst'.iIMIndex <= c
              /\ Len(inst'.stack) = n + 1 /\ n + 1 <= MaxDepth /\ Wait(n - 1) /\ Now(n, "save")
              /\ Called(n + 1) /\ Settles(setup.firstAsInactive)
  <1> DEFINE n == Len(inst.stack)
             imes == inst.imes \o Unlisted(Top.list)
             index == GetIMIndexByName(imes, inst.profile.imName)
             stack == GoOn("save")
             s == [inst EXCEPT !.imes = imes, !.iIMIndex = index, !.stack = stack]
  <1>1. /\ inst \in Instance /\ inst.stack # <<>> /\ n < MaxDepth
        /\ setup.firstAsInactive \in BOOLEAN
    BY DEF Types, AddUnlisted, At
  <1>2. inst' = SwitchIM(s, index, setup.firstAsInactive)
    BY DEF AddUnlisted
  <1>3. n \in Nat \ {0} /\ Top.list \in Seq(Entries)
    BY <1>1, StackFacts, FrameFields
  <1>4. imes \in Seq(IMs) /\ Len(imes) \in Nat
    <2>1. inst.imes \in Seq(IMs)
      BY <1>1, InstanceFields
    <2>2. Unlisted(Top.list) \in Seq(IMs)
      BY <1>1, <1>3, UnlistedFacts
    <2>3. QED
      BY <2>1, <2>2, ConcatProperties, LenProperties
  <1> HIDE DEF imes
  <1>5. index \in Nat /\ index \in Int /\ (index <= Len(imes) - 1 \/ index = 0)
    <2>1. index \in Nat /\ (index \in 0 .. Len(imes) - 1 \/ index = 0)
      BY <1>4, LookupFacts
    <2> HIDE DEF index
    <2>2. QED
      BY <1>4, <2>1
  <1>6. /\ stack \in Seq(Frames) /\ Len(stack) = n
        /\ \A i \in 1 .. n - 1 : stack[i] = inst.stack[i]
        /\ stack[n].at = "save" /\ stack[n].method = Top.method /\ stack[n].list = Top.list
    BY <1>1, GoOnFacts DEF Places
  <1> HIDE DEF index, stack
  <1>7. /\ s \in Instance
        /\ s.avail = inst.avail /\ s.loaded = inst.loaded /\ s.imes = imes
        /\ s.profile = inst.profile /\ s.lastIMIndex = inst.lastIMIndex
        /\ s.iIMIndex = index /\ s.stack = stack
    <2> HIDE DEF n
    <2>1. /\ inst \in Instance /\ imes \in Seq(IMs) /\ index \in Int /\ stack \in Seq(Frames)
      BY <1>1, <1>4, <1>5, <1>6
    <2>2. QED
      BY <2>1 DEF Instance
  <1> HIDE DEF s
  <1>8. /\ inst' \in Instance
        /\ inst'.avail = s.avail /\ inst'.loaded = s.loaded /\ inst'.imes = s.imes
        /\ inst'.lastIMIndex = s.lastIMIndex /\ inst'.profile = s.profile
        /\ inst'.iIMIndex >= -1
        /\ \A c \in Nat \ {0} : Len(s.imes) <= c /\ s.iIMIndex <= c => inst'.iIMIndex <= c
        /\ Len(inst'.stack) = n + 1
        /\ \A i \in 1 .. n : inst'.stack[i] = s.stack[i]
        /\ Called(n + 1) /\ Settles(setup.firstAsInactive)
    <2>1. index \in Int /\ index >= -2 /\ index # -2 /\ s.iIMIndex >= -1 /\ Len(s.stack) = n
      BY <1>5, <1>6, <1>7
    <2>2. QED
      BY <1>1, <1>2, <1>7, <2>1, SwitchStep
  <1>9. \A c \in Nat \ {0} : Len(imes) <= c => index <= c
    BY <1>4, <1>5
  <1>10. n + 1 <= MaxDepth
    BY <1>1, <1>3, BoundsAssumption
  <1>11. /\ Unloaded /\ inst'.imes = imes /\ inst'.profile = inst.profile
         /\ inst'.lastIMIndex = inst.lastIMIndex
         /\ \A c \in Nat \ {0} : Len(inst'.imes) <= c => inst'.iIMIndex <= c
    BY <1>7, <1>8, <1>9 DEF Unloaded
  <1>12. Wait(n - 1) /\ Now(n, "save")
    <2>1. n \in 1 .. n /\ \A i \in 1 .. n - 1 : i \in 1 .. n
      BY <1>3
    <2> HIDE DEF n
    <2>2. \A i \in 1 .. n : inst'.stack[i] = stack[i]
      BY <1>7, <1>8
    <2>3. QED
      BY <2>1, <2>2, <1>6 DEF Wait, Now
  <1>13. QED
    BY <1>3, <1>8, <1>10, <1>11, <1>12 DEF imes

LEMMA BootStep ==
    ASSUME Types, Boot
    PROVE  LET n == Len(inst.stack)
           IN /\ inst' \in Instance /\ Unloaded
              /\ inst'.imes = inst.imes /\ inst'.profile = inst.profile
              /\ inst'.lastIMIndex = inst.lastIMIndex /\ inst'.iIMIndex >= -1
              /\ \A c \in Nat \ {0} : Len(inst'.imes) <= c => inst'.iIMIndex <= c
              /\ Len(inst'.stack) = n + 1 /\ Wait(n - 1) /\ Now(n, "booted")
              /\ Called(n + 1) /\ Settles(setup.firstAsInactive)
  <1> DEFINE n == Len(inst.stack)
             index == GetIMIndexByName(inst.imes, inst.profile.imName)
             stack == GoOn("booted")
             s == [inst EXCEPT !.iIMIndex = index, !.stack = stack]
  <1>1. inst \in Instance /\ inst.stack # <<>> /\ setup.firstAsInactive \in BOOLEAN
    BY DEF Types, Boot, At
  <1>2. inst' = SwitchIM(s, index, setup.firstAsInactive)
    BY DEF Boot
  <1>3. n \in Nat \ {0} /\ inst.imes \in Seq(IMs) /\ Len(inst.imes) \in Nat
    BY <1>1, StackFacts, InstanceFields
  <1>4. index \in Nat /\ index \in Int /\ (index <= Len(inst.imes) - 1 \/ index = 0)
    <2>1. index \in Nat /\ (index \in 0 .. Len(inst.imes) - 1 \/ index = 0)
      BY <1>3, LookupFacts
    <2> HIDE DEF index
    <2>2. QED
      BY <1>3, <2>1
  <1>5. /\ stack \in Seq(Frames) /\ Len(stack) = n
        /\ \A i \in 1 .. n - 1 : stack[i] = inst.stack[i]
        /\ stack[n].at = "booted" /\ stack[n].method = Top.method /\ stack[n].list = Top.list
    BY <1>1, GoOnFacts DEF Places
  <1> HIDE DEF index, stack
  <1>6. /\ s \in Instance
        /\ s.avail = inst.avail /\ s.loaded = inst.loaded /\ s.imes = inst.imes
        /\ s.profile = inst.profile /\ s.lastIMIndex = inst.lastIMIndex
        /\ s.iIMIndex = index /\ s.stack = stack
    <2> HIDE DEF n
    <2>1. inst \in Instance /\ index \in Int /\ stack \in Seq(Frames)
      BY <1>1, <1>4, <1>5
    <2>2. QED
      BY <2>1 DEF Instance
  <1> HIDE DEF s
  <1>7. /\ inst' \in Instance
        /\ inst'.avail = s.avail /\ inst'.loaded = s.loaded /\ inst'.imes = s.imes
        /\ inst'.lastIMIndex = s.lastIMIndex /\ inst'.profile = s.profile
        /\ inst'.iIMIndex >= -1
        /\ \A c \in Nat \ {0} : Len(s.imes) <= c /\ s.iIMIndex <= c => inst'.iIMIndex <= c
        /\ Len(inst'.stack) = n + 1
        /\ \A i \in 1 .. n : inst'.stack[i] = s.stack[i]
        /\ Called(n + 1) /\ Settles(setup.firstAsInactive)
    <2>1. index \in Int /\ index >= -2 /\ index # -2 /\ s.iIMIndex >= -1 /\ Len(s.stack) = n
      BY <1>4, <1>5, <1>6
    <2>2. QED
      BY <1>1, <1>2, <1>6, <2>1, SwitchStep
  <1>8. \A c \in Nat \ {0} : Len(inst.imes) <= c => index <= c
    BY <1>3, <1>4
  <1>9. /\ Unloaded /\ inst'.imes = inst.imes /\ inst'.profile = inst.profile
        /\ inst'.lastIMIndex = inst.lastIMIndex
        /\ \A c \in Nat \ {0} : Len(inst'.imes) <= c => inst'.iIMIndex <= c
    BY <1>6, <1>7, <1>8 DEF Unloaded
  <1>10. Wait(n - 1) /\ Now(n, "booted")
    <2>1. n \in 1 .. n /\ \A i \in 1 .. n - 1 : i \in 1 .. n
      BY <1>3
    <2> HIDE DEF n
    <2>2. \A i \in 1 .. n : inst'.stack[i] = stack[i]
      BY <1>6, <1>7
    <2>3. QED
      BY <2>1, <2>2, <1>5 DEF Wait, Now
  <1>11. QED
    BY <1>7, <1>9, <1>10

-----------------------------------------------------------------------------
(* The steps from outside. *)

LEMMA SelectStep ==
    ASSUME Types,
           \/ \E index \in {-2, -1} \union (0 .. Len(inst.imes) - 1) : SwitchTo(index)
           \/ TurnInactive \/ TurnActive
    PROVE  /\ inst' \in Instance /\ Unloaded
           /\ inst'.imes = inst.imes /\ inst'.profile = inst.profile
           /\ inst'.lastIMIndex = inst.lastIMIndex /\ inst'.iIMIndex >= -1
           /\ \A c \in Nat \ {0} :
                Len(inst'.imes) <= c /\ inst.iIMIndex <= c => inst'.iIMIndex <= c
           /\ Len(inst'.stack) = 1 /\ Called(1)
           /\ inst.iIMIndex <= Len(inst.imes) => Settles(setup.firstAsInactive)
           /\ inst.stack = <<>>
  <1>1. /\ inst \in Instance /\ inst.iIMIndex >= -1 /\ setup.firstAsInactive \in BOOLEAN
        /\ inst.lastIMIndex \in Int /\ inst.lastIMIndex >= -1 /\ inst.stack = <<>>
    <2>1. AtRest
      BY DEF SwitchTo, TurnInactive, TurnActive, Call
    <2>2. QED
      BY <2>1, InstanceFields DEF Types, AtRest
  <1>2. PICK index \in Int, skipZero \in BOOLEAN :
          /\ index >= -2 /\ (skipZero => setup.firstAsInactive)
          /\ inst' = SwitchIM(inst, index, skipZero)
    <2>1. ASSUME NEW index \in {-2, -1} \union (0 .. Len(inst.imes) - 1), SwitchTo(index)
          PROVE  \E i \in Int, skipZero \in BOOLEAN :
                   /\ i >= -2 /\ (skipZero => setup.firstAsInactive)
                   /\ inst' = SwitchIM(inst, i, skipZero)
      <3>1. index \in Int /\ index >= -2
        <4>1. Len(inst.imes) \in Nat
          BY <1>1, InstanceFields
        <4>2. QED
          BY <4>1
      <3>2. inst' = SwitchIM(inst, index, setup.firstAsInactive)
        BY <2>1 DEF SwitchTo
      <3>3. QED
        BY <1>1, <3>1, <3>2
    <2>2. CASE TurnInactive
      <3>1. inst' = SwitchIM(inst, 0, FALSE)
        BY <2>2 DEF TurnInactive
      <3>2. 0 \in Int /\ 0 >= -2 /\ FALSE \in BOOLEAN
        OBVIOUS
      <3>3. QED
        BY <3>1, <3>2
    <2>3. CASE TurnActive
      <3>1. inst' = SwitchIM(inst, inst.lastIMIndex, TRUE) /\ setup.firstAsInactive
        BY <2>3 DEF TurnActive
      <3>2. inst.lastIMIndex >= -2 /\ TRUE \in BOOLEAN
        BY <1>1
      <3>3. QED
        BY <1>1, <3>1, <3>2
    <2>4. QED
      BY <2>1, <2>2, <2>3
  <1>3. /\ inst' \in Instance
        /\ inst'.avail = inst.avail /\ inst'.loaded = inst.loaded /\ inst'.imes = inst.imes
        /\ inst'.lastIMIndex = inst.lastIMIndex /\ inst'.profile = inst.profile
        /\ inst'.iIMIndex >= -1
        /\ \A c \in Nat \ {0} : Len(inst.imes) <= c /\ inst.iIMIndex <= c => inst'.iIMIndex <= c
        /\ Len(inst'.stack) = Len(inst.stack) + 1
        /\ Called(Len(inst.stack) + 1)
        /\ (index = -2 => inst.iIMIndex <= Len(inst.imes)) => Settles(skipZero)
    BY <1>1, <1>2, SwitchStep
  <1>4. Len(inst.stack) = 0
    BY <1>1
  <1>5. Settles(skipZero) => Settles(setup.firstAsInactive)
    <2>1. Len(inst'.imes) \in Nat
      BY <1>3, InstanceFields
    <2>2. QED
      BY <1>1, <1>2, <2>1 DEF Settles
  <1>6. QED
    BY <1>1, <1>3, <1>4, <1>5 DEF Unloaded

\* The call to UpdateIMList that starts.
Starts(k) == inst'.stack[k].at = "clear" /\ inst'.stack[k].list = <<>>

LEMMA UpdateCalls ==
    /\ UpdateIMList \in Frames /\ UpdateIMList.at = "clear" /\ UpdateIMList.list = <<>>
    /\ Frame("boot", NoMethod, 0) \in Frames /\ Frame("boot", NoMethod, 0).at = "boot"
    /\ Frame("boot", NoMethod, 0).list = <<>>
  BY NewFrame DEF UpdateIMList

LEMMA ProfileStep ==
    ASSUME Types, (\E list \in SettableLists : SetIMList(list)) \/ ReloadConfig
    PROVE  /\ inst' \in Instance /\ Unloaded
           /\ inst'.imes = inst.imes /\ SameIndex
           /\ Len(inst'.stack) = 1 /\ Starts(1)
           /\ inst'.profile \in Profiles
           /\ \/ \E list \in SettableLists : inst'.profile.imList = list
              \/ inst'.profile = disk
  <1>1. inst \in Instance /\ disk \in Profiles
    BY DEF Types
  <1>2. PICK profile \in Profiles :
          /\ inst' = [inst EXCEPT !.profile = profile, !.stack = <<UpdateIMList>>]
          /\ (\E list \in SettableLists : profile.imList = list) \/ profile = disk
    <2>1. ASSUME NEW list \in SettableLists, SetIMList(list)
          PROVE  \E profile \in Profiles :
                   /\ inst' = [inst EXCEPT !.profile = profile, !.stack = <<UpdateIMList>>]
                   /\ profile.imList = list
      <3> DEFINE profile == [inst.profile EXCEPT !.imList = list]
      <3>1. list \in Seq(Entries) /\ inst.profile \in Profiles
        BY <1>1, ListsAssumption, InstanceFields
      <3>2. profile \in Profiles /\ profile.imList = list
        BY <3>1 DEF Profiles
      <3>3. inst' = [inst EXCEPT !.profile = profile, !.stack = <<UpdateIMList>>]
        BY <2>1 DEF SetIMList
      <3> HIDE DEF profile
      <3>4. QED
        BY <3>2, <3>3
    <2>2. CASE ReloadConfig
      BY <1>1, <2>2 DEF ReloadConfig
    <2>3. QED
      BY <2>1, <2>2
  <1> DEFINE stack == <<UpdateIMList>>
  <1>3. stack \in Seq(Frames) /\ Len(stack) = 1 /\ stack[1] = UpdateIMList
    BY UpdateCalls
  <1> HIDE DEF stack
  <1>4. /\ inst' \in Instance
        /\ inst'.avail = inst.avail /\ inst'.loaded = inst.loaded /\ inst'.imes = inst.imes
        /\ inst'.lastIMIndex = inst.lastIMIndex /\ inst'.iIMIndex = inst.iIMIndex
        /\ inst'.profile = profile /\ inst'.stack = stack
    <2>1. inst' = [inst EXCEPT !.profile = profile, !.stack = stack]
      BY <1>2 DEF stack
    <2>2. QED
      BY <1>1, <1>3, <2>1 DEF Instance
  <1>5. QED
    BY <1>2, <1>3, <1>4, UpdateCalls DEF Unloaded, SameIndex, Starts

LEMMA StartStep ==
    ASSUME Types, Start
    PROVE  /\ inst' \in Instance
           /\ inst'.imes = <<>> /\ inst'.iIMIndex = 0 /\ inst'.lastIMIndex = 0
           /\ inst'.profile = disk
           /\ inst'.avail = Installed(setup.broken)
           /\ \A m \in Fails(setup.broken) : inst'.loaded[m] = 0
           /\ Len(inst'.stack) = 2 /\ Starts(2)
           /\ inst'.stack[1].at = "boot" /\ inst'.stack[1].list = <<>>
  <1> DEFINE byFile == {m \in Methods : Owner[m] \in ByConfigFile}
             atOnce == UNION {Registers(a) : a \in Addons \ ByConfigFile}
             avail == byFile \union atOnce
             loaded == [m \in Methods |-> IF m \in atOnce THEN 1 ELSE 0]
             created == [a \in Addons |-> IF a \notin ByConfigFile /\ Registers(a) # {}
                                          THEN 1 ELSE 0]
             stack == <<Frame("boot", NoMethod, 0), UpdateIMList>>
  <1>1. inst' = [avail |-> avail, loaded |-> loaded, created |-> created,
                 imes |-> <<>>, iIMIndex |-> 0, lastIMIndex |-> 0, profile |-> disk,
                 stack |-> stack]
    BY DEF Start
  <1>2. avail \in SUBSET Methods
    <2>1. \A a \in Addons : Registers(a) \subseteq Methods
      BY DEF Registers
    <2>2. QED
      BY <2>1
  <1>3. loaded \in [Methods -> Nat] /\ created \in [Addons -> Nat]
    OBVIOUS
  <1>4. /\ stack \in Seq(Frames) /\ Len(stack) = 2
        /\ stack[1] = Frame("boot", NoMethod, 0) /\ stack[2] = UpdateIMList
    BY UpdateCalls
  <1>5. disk \in Profiles /\ <<>> \in Seq(IMs) /\ 0 \in Int
    BY DEF Types
  <1>6. \A m \in Methods : m \in atOnce <=> m \notin Fails(setup.broken) /\ Owner[m] \notin ByConfigFile
    BY RegistersFacts, OwnersAssumption
  <1> HIDE DEF atOnce
  <1>7. avail = Installed(setup.broken)
    BY <1>2, <1>6 DEF Installed
  <1>8. \A m \in Fails(setup.broken) : loaded[m] = 0
    BY <1>6 DEF Fails
  <1> HIDE DEF avail, loaded, created, stack
  <1>9. /\ inst' \in Instance
        /\ inst'.imes = <<>> /\ inst'.iIMIndex = 0 /\ inst'.lastIMIndex = 0
        /\ inst'.profile = disk /\ inst'.stack = stack
        /\ inst'.avail = avail /\ inst'.loaded = loaded
    BY <1>1, <1>2, <1>3, <1>4, <1>5 DEF Instance
  <1>10. QED
    BY <1>4, <1>7, <1>8, <1>9, UpdateCalls DEF Starts

\* A signal that saves.
LEMMA SignalStep ==
    ASSUME Types, Terminate \/ Hangup
    PROVE  /\ inst' \in Instance /\ Unloaded
           /\ inst'.imes = inst.imes /\ SameIndex /\ inst'.stack = inst.stack
           /\ inst'.profile = Synced /\ disk' = Synced
  <1> DEFINE profile == Synced
  <1>1. inst \in Instance /\ profile \in Profiles
    BY SyncedFacts DEF Types
  <1>2. inst' = [inst EXCEPT !.profile = profile] /\ disk' = profile
    BY DEF Terminate, Hangup, Saved
  <1> HIDE DEF profile
  <1>3. /\ inst' \in Instance
        /\ inst'.avail = inst.avail /\ inst'.loaded = inst.loaded /\ inst'.imes = inst.imes
        /\ inst'.lastIMIndex = inst.lastIMIndex /\ inst'.iIMIndex = inst.iIMIndex
        /\ inst'.profile = profile /\ inst'.stack = inst.stack
    BY <1>1, <1>2 DEF Instance
  <1>4. QED
    BY <1>2, <1>3 DEF Unloaded, SameIndex, profile

-----------------------------------------------------------------------------
(* The state stays well typed. *)

LEMMA NamedNext ==
    ASSUME Types, Next
    PROVE  Named'
  <1> DEFINE n == Len(inst.stack)
  <1>1. Named /\ inst \in Instance /\ n \in Nat
    BY InstanceFields DEF Types
  <1>2. ASSUME inst.stack # <<>>
        PROVE  n \in Nat \ {0} /\ Top = inst.stack[n]
    BY <1>1, <1>2, StackFacts DEF Top
  <1>3. ASSUME NEW k \in Nat, Wait(k), k <= n, NEW i \in 1 .. k,
               inst'.stack[i].at \in {"load", "reload"}
        PROVE  inst'.stack[i].method \in Methods
    BY <1>1, <1>3 DEF Wait, Named
  <1>4. CASE Load
    <2>1. /\ Len(inst'.stack) = n + 1 /\ Wait(n - 1)
          /\ Now(n, "reload") /\ Top.method \in Methods
          /\ inst'.stack[n + 1].at = "clear"
      BY <1>4, LoadStep
    <2>2. n \in Nat \ {0}
      BY <1>2, <1>4 DEF Load, At
    <2>3. ASSUME NEW i \in 1 .. Len(inst'.stack), inst'.stack[i].at \in {"load", "reload"}
          PROVE  inst'.stack[i].method \in Methods
      <3>1. CASE i \in 1 .. n - 1
        BY <1>3, <2>1, <2>2, <2>3, <3>1
      <3>2. CASE i = n
        BY <2>1, <3>2 DEF Now
      <3>3. i # n + 1
        BY <2>1, <2>3
      <3>4. QED
        BY <2>1, <2>2, <2>3, <3>1, <3>2, <3>3
    <2>4. QED
      BY <2>3 DEF Named
  <1>5. CASE Reload \/ AddListed \/ OpenProfile
    <2>1. /\ Len(inst'.stack) = n /\ Wait(n - 1)
          /\ inst'.stack[n].at \in {"init", "unlisted", "write"}
      BY <1>5, ReloadStep, AddListedStep, OpenProfileStep DEF Now
    <2>2. n \in Nat \ {0}
      BY <1>2, <1>5 DEF Reload, AddListed, OpenProfile, At
    <2>3. QED
      BY <1>3, <2>1, <2>2 DEF Named
  <1>6. CASE Clear
    <2>1. /\ Len(inst'.stack) = n /\ Wait(n - 1) /\ inst'.stack[n].at = "listed"
      BY <1>6, ClearStep
    <2>2. n \in Nat \ {0}
      BY <1>2, <1>6 DEF Clear, At
    <2>3. QED
      BY <1>3, <2>1, <2>2 DEF Named
  <1>7. CASE InitIM
    <2>1. /\ Wait(n - 1)
          /\ \/ Len(inst'.stack) = n /\ inst'.stack[n].at = "save"
             \/ Len(inst'.stack) = n - 1
      BY <1>7, InitIMStep DEF Now
    <2>2. n \in Nat \ {0}
      BY <1>2, <1>7 DEF InitIM, At
    <2>3. QED
      BY <1>3, <2>1, <2>2 DEF Named
  <1>8. CASE AddUnlisted \/ Boot
    <2>1. /\ Len(inst'.stack) = n + 1 /\ Wait(n - 1)
          /\ inst'.stack[n].at \in {"save", "booted"} /\ Called(n + 1)
      BY <1>8, AddUnlistedStep, BootStep DEF Now
    <2>2. n \in Nat \ {0}
      BY <1>2, <1>8 DEF AddUnlisted, Boot, At
    <2>3. QED
      BY <1>3, <2>1, <2>2 DEF Named, Called
  <1>9. CASE WriteProfile \/ Booted
    <2>1. Len(inst'.stack) = n - 1 /\ Wait(n - 1)
      BY <1>9, ReturnStep
    <2>2. n \in Nat \ {0}
      BY <1>2, <1>9 DEF WriteProfile, Booted, At
    <2>3. QED
      BY <1>3, <2>1, <2>2 DEF Named
  <1>10. CASE \/ \E index \in {-2, -1} \union (0 .. Len(inst.imes) - 1) : SwitchTo(index)
              \/ TurnInactive \/ TurnActive
    <2>1. Len(inst'.stack) = 1 /\ Called(1)
      BY <1>10, SelectStep
    <2>2. QED
      BY <2>1 DEF Named, Called
  <1>11. CASE (\E list \in SettableLists : SetIMList(list)) \/ ReloadConfig
    <2>1. Len(inst'.stack) = 1 /\ Starts(1)
      BY <1>11, ProfileStep
    <2>2. QED
      BY <2>1 DEF Named, Starts
  <1>12. CASE Start
    <2>1. Len(inst'.stack) = 2 /\ Starts(2) /\ inst'.stack[1].at = "boot"
      BY <1>12, StartStep
    <2>2. QED
      BY <2>1 DEF Named, Starts
  <1>13. CASE Terminate \/ Hangup
    <2>1. inst'.stack = inst.stack
      BY <1>13, SignalStep
    <2>2. QED
      BY <1>1, <2>1 DEF Named
  <1>14. CASE Kill
    BY <1>1, <1>14 DEF Kill, Named
  <1>15. QED
    BY <1>4, <1>5, <1>6, <1>7, <1>8, <1>9, <1>10, <1>11, <1>12, <1>13, <1>14
       DEF Next, Step, Outside

LEMMA InUseType ==
    ASSUME inst \in Instance
    PROVE  InUse \in Methods \union {NoMethod}
  <1> DEFINE index == IF setup.firstAsInactive /\ inst.iIMIndex = 0 THEN inst.lastIMIndex
                      ELSE inst.iIMIndex
  <1>1. index \in Int /\ inst.imes \in Seq(IMs)
    BY InstanceFields
  <1>2. InUse = IF HasElement(inst.imes, index) THEN Element(inst.imes, index).name ELSE NoMethod
    BY DEF InUse
  <1> HIDE DEF index
  <1>3. CASE HasElement(inst.imes, index)
    <2>1. index + 1 \in 1 .. Len(inst.imes)
      BY <1>1, <1>3 DEF HasElement
    <2>2. Element(inst.imes, index) \in IMs
      BY <1>1, <2>1 DEF Element
    <2>3. QED
      BY <1>2, <1>3, <2>2 DEF IMs
  <1>4. CASE ~HasElement(inst.imes, index)
    BY <1>2, <1>4
  <1>5. QED
    BY <1>3, <1>4

LEMMA PromiseNext ==
    ASSUME Types, Next
    PROVE  promise' \in Promise
  <1>1. promise \in Promise /\ inst \in Instance
    BY DEF Types
  <1>2. CASE Load \/ InitIM \/ Clear \/ AddListed \/ AddUnlisted \/ OpenProfile \/ WriteProfile
             \/ Boot \/ Booted
    <2>1. promise' = promise
      BY <1>2 DEF Load, InitIM, Clear, AddListed, AddUnlisted, OpenProfile, WriteProfile,
                  Boot, Booted
    <2>2. QED
      BY <1>1, <2>1
  <1>3. CASE Reload
    <2> DEFINE gone == Top.method \notin NamesOf(inst.imes)
    <2>1. promise' = [promise EXCEPT !.lost = @ \/ gone]
      BY <1>3 DEF Reload
    <2>2. (promise.lost \/ gone) \in BOOLEAN
      BY <1>1
    <2> HIDE DEF gone
    <2>3. QED
      BY <1>1, <2>1, <2>2 DEF Promise
  <1>4. CASE \/ \E index \in {-2, -1} \union (0 .. Len(inst.imes) - 1) : SwitchTo(index)
             \/ TurnInactive \/ TurnActive \/ ReloadConfig \/ Start
    <2>1. \/ promise' = [promise EXCEPT !.current = NoMethod, !.lost = FALSE]
          \/ promise' = [promise EXCEPT !.lost = FALSE]
      BY <1>4 DEF SwitchTo, TurnInactive, TurnActive, ReloadConfig, Start
    <2>2. QED
      BY <1>1, <2>1 DEF Promise
  <1>5. CASE \E list \in SettableLists : SetIMList(list)
    <2>1. PICK list \in SettableLists : SetIMList(list)
      BY <1>5
    <2> DEFINE on == NamesOf(TurnedOn(list))
               off == inst.avail \intersect NamesOf(Turned(list, FALSE))
    <2>2. promise' = [on |-> on, off |-> off, current |-> NoMethod, lost |-> FALSE]
      BY <2>1 DEF SetIMList
    <2>3. on \subseteq Methods
      <3>1. list \in Seq(Entries)
        BY ListsAssumption
      <3>2. TurnedOn(list) \in Seq(Entries)
        BY <3>1, TurnedFacts DEF TurnedOn
      <3>3. QED
        BY <3>2, NamesFacts
    <2>4. off \subseteq Methods
      BY <1>1, InstanceFields
    <2> HIDE DEF on, off
    <2>5. QED
      BY <2>2, <2>3, <2>4 DEF Promise
  <1>6. CASE Terminate \/ Hangup
    <2>1. PICK on \in {{}, promise.on}, off \in {{}, promise.off},
               current \in Methods \union {NoMethod} :
            promise' = [promise EXCEPT !.on = on, !.off = off, !.current = current]
      <3> DEFINE taken == inst.stack # <<>> /\ Top.at \in {"clear", "listed"}
                 on == IF taken THEN {} ELSE promise.on
                 off == IF taken THEN {} ELSE promise.off
                 current == IF AtRest /\ ~promise.lost THEN InUse ELSE NoMethod
      <3>1. \/ promise' = [promise EXCEPT !.on = on, !.off = off, !.current = current]
            \/ promise' = [promise EXCEPT !.on = on, !.off = off, !.current = NoMethod]
        BY <1>6 DEF Terminate, Hangup, Saved
      <3>2. current \in Methods \union {NoMethod}
        BY <1>1, InUseType
      <3>3. on \in {{}, promise.on} /\ off \in {{}, promise.off}
        OBVIOUS
      <3> HIDE DEF on, off, current
      <3>4. QED
        BY <3>1, <3>2, <3>3
    <2>2. QED
      BY <1>1, <2>1 DEF Promise
  <1>7. CASE Kill
    <2> DEFINE on == IF AtRest THEN promise.on ELSE {}
               off == IF AtRest THEN promise.off ELSE {}
    <2>1. promise' = [promise EXCEPT !.on = on, !.off = off, !.current = NoMethod]
      BY <1>7 DEF Kill
    <2>2. on \in {{}, promise.on} /\ off \in {{}, promise.off}
      OBVIOUS
    <2> HIDE DEF on, off
    <2>3. QED
      BY <1>1, <2>1, <2>2 DEF Promise
  <1>8. QED
    BY <1>2, <1>3, <1>4, <1>5, <1>6, <1>7 DEF Next, Step, Outside

LEMMA TypesNext ==
    ASSUME Types, Next
    PROVE  Types'
  <1>1. /\ inst \in Instance /\ inst.iIMIndex >= -1 /\ inst.lastIMIndex >= -1
        /\ disk \in Profiles /\ inst.iIMIndex \in Int /\ inst.lastIMIndex \in Int
        /\ inst.profile \in Profiles
    BY InstanceFields DEF Types
  <1>2. NoProfile \in Profiles
    BY DEF NoProfile, Profiles
  <1>3. /\ inst' \in Instance /\ inst'.iIMIndex >= -1 /\ inst'.lastIMIndex >= -1
        /\ disk' \in Profiles
    <2>1. CASE Load \/ Clear \/ AddListed
      <3>1. inst' \in Instance /\ SameIndex
        BY <2>1, LoadStep, ClearStep, AddListedStep
      <3>2. disk' = disk
        BY <2>1 DEF Load, Clear, AddListed
      <3>3. QED
        BY <1>1, <3>1, <3>2 DEF SameIndex
    <2>2. CASE Reload
      <3>1. /\ inst' \in Instance /\ inst'.iIMIndex = GetIMIndexByName(inst.imes, Top.method)
            /\ inst'.lastIMIndex = inst.lastIMIndex
        BY <2>2, ReloadStep
      <3>2. GetIMIndexByName(inst.imes, Top.method) \in Nat
        BY <1>1, InstanceFields, LookupFacts
      <3>3. QED
        BY <1>1, <2>2, <3>1, <3>2 DEF Reload
    <2>3. CASE InitIM
      <3>1. /\ inst' \in Instance /\ inst'.iIMIndex = inst.iIMIndex
            /\ inst'.lastIMIndex \in {inst.iIMIndex, inst.lastIMIndex}
        BY <2>3, InitIMStep
      <3>2. QED
        BY <1>1, <2>3, <3>1 DEF InitIM
    <2>4. CASE AddUnlisted \/ Boot
      <3>1. /\ inst' \in Instance /\ inst'.iIMIndex >= -1
            /\ inst'.lastIMIndex = inst.lastIMIndex
        BY <2>4, AddUnlistedStep, BootStep
      <3>2. QED
        BY <1>1, <2>4, <3>1 DEF AddUnlisted, Boot
    <2>5. CASE OpenProfile
      <3>1. inst' \in Instance /\ SameIndex
        BY <2>5, OpenProfileStep
      <3>2. QED
        BY <1>1, <1>2, <2>5, <3>1 DEF OpenProfile, SameIndex
    <2>6. CASE WriteProfile \/ Booted
      <3>1. /\ inst' \in Instance /\ inst'.iIMIndex = inst.iIMIndex
            /\ inst'.lastIMIndex \in {inst.iIMIndex, inst.lastIMIndex}
        BY <2>6, ReturnStep
      <3>2. QED
        BY <1>1, <2>6, <3>1 DEF WriteProfile, Booted
    <2>7. CASE \/ \E index \in {-2, -1} \union (0 .. Len(inst.imes) - 1) : SwitchTo(index)
               \/ TurnInactive \/ TurnActive
      <3>1. /\ inst' \in Instance /\ inst'.iIMIndex >= -1
            /\ inst'.lastIMIndex = inst.lastIMIndex
        BY <2>7, SelectStep
      <3>2. QED
        BY <1>1, <2>7, <3>1 DEF SwitchTo, TurnInactive, TurnActive, Call
    <2>8. CASE (\E list \in SettableLists : SetIMList(list)) \/ ReloadConfig
      <3>1. inst' \in Instance /\ SameIndex
        BY <2>8, ProfileStep
      <3>2. QED
        BY <1>1, <2>8, <3>1 DEF SetIMList, ReloadConfig, Call, SameIndex
    <2>9. CASE Start
      <3>1. inst' \in Instance /\ inst'.iIMIndex = 0 /\ inst'.lastIMIndex = 0
        BY <2>9, StartStep
      <3>2. QED
        BY <1>1, <2>9, <3>1 DEF Start
    <2>10. CASE Terminate \/ Hangup
      <3>1. inst' \in Instance /\ SameIndex /\ disk' = Synced
        BY <2>10, SignalStep
      <3>2. QED
        BY <1>1, <3>1, SyncedFacts DEF SameIndex
    <2>11. CASE Kill
      BY <1>1, <2>11 DEF Kill
    <2>12. QED
      BY <2>1, <2>2, <2>3, <2>4, <2>5, <2>6, <2>7, <2>8, <2>9, <2>10, <2>11
         DEF Next, Step, Outside
  <1>4. setup' = setup /\ life' \in {"down", "boot", "up"}
    <2>1. CASE Step
      BY <2>1 DEF Types, Step, Load, Reload, InitIM, Clear, AddListed, AddUnlisted,
                  OpenProfile, WriteProfile, Boot, Booted, At
    <2>2. CASE Outside
      BY <2>2 DEF Types, Outside, SwitchTo, TurnInactive, TurnActive, SetIMList, ReloadConfig,
                  Start, Terminate, Hangup, Kill, Call
    <2>3. QED
      BY <2>1, <2>2 DEF Next
  <1>5. setup'.firstAsInactive \in BOOLEAN
    BY <1>4 DEF Types
  <1>6. Named' /\ promise' \in Promise
    BY NamedNext, PromiseNext
  <1>7. QED
    BY <1>3, <1>4, <1>5, <1>6 DEF Types

-----------------------------------------------------------------------------
(* What the entries of the list say about the methods. *)

LEMMA InitTypes ==
    ASSUME Init
    PROVE  Types
  <1> DEFINE loaded == [m \in Methods |-> 0]
             created == [a \in Addons |-> 0]
  <1>1. NoProfile \in Profiles
    BY DEF NoProfile, Profiles
  <1>2. loaded \in [Methods -> Nat] /\ created \in [Addons -> Nat]
    OBVIOUS
  <1> HIDE DEF loaded, created
  <1>3. inst = [avail |-> {}, loaded |-> loaded, created |-> created, imes |-> <<>>,
                iIMIndex |-> 0, lastIMIndex |-> 0, profile |-> NoProfile, stack |-> <<>>]
    BY DEF Init, loaded, created
  <1>4. <<>> \in Seq(IMs) /\ <<>> \in Seq(Frames)
    OBVIOUS
  <1>5. inst \in Instance
    BY <1>1, <1>2, <1>3, <1>4 DEF Instance
  <1>6. inst.iIMIndex = 0 /\ inst.lastIMIndex = 0 /\ inst.stack = <<>>
    BY <1>3
  <1>7. disk \in Profiles /\ life = "down" /\ setup.firstAsInactive \in BOOLEAN
    BY <1>1 DEF Init
  <1>8. promise \in Promise
    BY DEF Init, Promise
  <1>9. QED
    BY <1>5, <1>6, <1>7, <1>8 DEF Types, Named

\* An entry is a copy of one that is not loaded, or of one as it is loaded.
Known ==
    \A i \in 1 .. Len(inst.imes) : inst.imes[i].klass \in {0, inst.loaded[inst.imes[i].name]}

\* An entry of the next state: it was there, or it is new and copied from
\* availimes as that is.
Copied(i) ==
    /\ inst'.imes[i].name \in inst'.avail
    /\ inst'.imes[i].klass = inst'.loaded[inst'.imes[i].name]

LEMMA LoadsNext ==
    ASSUME Types, Next
    PROVE  Loads \/ Start
  <1>1. ASSUME Unloaded
        PROVE  Loads
    BY <1>1 DEF Unloaded, Loads
  <1>2. CASE Load \/ InitIM
    BY <1>2, LoadStep, InitIMStep
  <1>3. CASE Reload \/ Clear \/ AddListed \/ AddUnlisted \/ OpenProfile
    BY <1>1, <1>3, ReloadStep, ClearStep, AddListedStep, AddUnlistedStep, OpenProfileStep
  <1>4. CASE Boot \/ WriteProfile \/ Booted
    BY <1>1, <1>4, BootStep, ReturnStep
  <1>5. CASE \/ \E index \in {-2, -1} \union (0 .. Len(inst.imes) - 1) : SwitchTo(index)
             \/ TurnInactive \/ TurnActive
    BY <1>1, <1>5, SelectStep
  <1>6. CASE (\E list \in SettableLists : SetIMList(list)) \/ ReloadConfig
    BY <1>1, <1>6, ProfileStep
  <1>7. CASE Terminate \/ Hangup
    BY <1>1, <1>7, SignalStep
  <1>8. CASE Kill
    BY <1>1, <1>8 DEF Kill, Unloaded
  <1>9. QED
    BY <1>2, <1>3, <1>4, <1>5, <1>6, <1>7, <1>8 DEF Next, Step, Outside

LEMMA EntriesNext ==
    ASSUME Types, Next, NEW i \in 1 .. Len(inst'.imes)
    PROVE  \/ Loads /\ i \in 1 .. Len(inst.imes) /\ inst'.imes[i] = inst.imes[i]
           \/ Copied(i)
  <1>1. inst \in Instance /\ inst.imes \in Seq(IMs)
    BY InstanceFields DEF Types
  <1>2. CASE Load \/ Reload \/ InitIM \/ OpenProfile
    <2>1. inst'.imes = inst.imes
      BY <1>2, LoadStep, ReloadStep, InitIMStep, OpenProfileStep
    <2>2. ~Start
      BY <1>2 DEF Load, Reload, InitIM, OpenProfile, At, Start
    <2>3. QED
      BY <2>1, <2>2, LoadsNext
  <1>3. CASE Boot \/ WriteProfile \/ Booted
    <2>1. inst'.imes = inst.imes
      BY <1>3, BootStep, ReturnStep
    <2>2. ~Start
      BY <1>3 DEF Boot, WriteProfile, Booted, At, Start
    <2>3. QED
      BY <2>1, <2>2, LoadsNext
  <1>4. CASE Clear
    BY <1>4, ClearStep
  <1>5. CASE AddListed
    <2>1. /\ Unloaded /\ inst'.imes = Listed(Top.list) /\ Top.list \in Seq(Entries)
      BY <1>5, AddListedStep
    <2>2. Fresh(inst'.imes)
      BY <1>1, <2>1, ListedFacts
    <2>3. QED
      BY <2>1, <2>2 DEF Fresh, Copied, Unloaded
  <1>6. CASE AddUnlisted
    <2> DEFINE added == Unlisted(Top.list)
    <2>1. Unloaded /\ inst'.imes = inst.imes \o added /\ Top.list \in Seq(Entries)
      BY <1>6, AddUnlistedStep
    <2>2. added \in Seq(IMs) /\ Fresh(added)
      BY <1>1, <2>1, UnlistedFacts
    <2>3. Loads
      BY <2>1 DEF Unloaded, Loads
    <2> HIDE DEF added
    <2>4. CASE i \in 1 .. Len(inst.imes)
      BY <1>1, <2>1, <2>2, <2>3, <2>4, ConcatProperties
    <2>5. CASE i \notin 1 .. Len(inst.imes)
      <3> DEFINE j == i - Len(inst.imes)
      <3>1. j \in 1 .. Len(added) /\ inst'.imes[i] = added[j]
        BY <1>1, <2>1, <2>2, <2>5, ConcatProperties
      <3>2. added[j].name \in inst.avail /\ added[j].klass = inst.loaded[added[j].name]
        BY <2>2, <3>1 DEF Fresh
      <3>3. QED
        BY <2>1, <3>1, <3>2 DEF Copied, Unloaded
    <2>6. QED
      BY <2>4, <2>5
  <1>7. CASE \/ \E index \in {-2, -1} \union (0 .. Len(inst.imes) - 1) : SwitchTo(index)
             \/ TurnInactive \/ TurnActive
    <2>1. inst'.imes = inst.imes /\ Unloaded
      BY <1>7, SelectStep
    <2>2. QED
      BY <2>1 DEF Unloaded, Loads
  <1>8. CASE (\E list \in SettableLists : SetIMList(list)) \/ ReloadConfig
    <2>1. inst'.imes = inst.imes /\ Unloaded
      BY <1>8, ProfileStep
    <2>2. QED
      BY <2>1 DEF Unloaded, Loads
  <1>9. CASE Start
    BY <1>9, StartStep
  <1>10. CASE Terminate \/ Hangup
    <2>1. inst'.imes = inst.imes /\ Unloaded
      BY <1>10, SignalStep
    <2>2. QED
      BY <2>1 DEF Unloaded, Loads
  <1>11. CASE Kill
    BY <1>11 DEF Kill, Loads
  <1>12. QED
    BY <1>2, <1>3, <1>4, <1>5, <1>6, <1>7, <1>8, <1>9, <1>10, <1>11 DEF Next, Step, Outside

LEMMA KnownNext ==
    ASSUME Types, Known, Next
    PROVE  Known'
  <1> SUFFICES ASSUME NEW i \in 1 .. Len(inst'.imes)
               PROVE  inst'.imes[i].klass \in {0, inst'.loaded[inst'.imes[i].name]}
    BY DEF Known
  <1>1. CASE Copied(i)
    BY <1>1 DEF Copied
  <1>2. CASE Loads /\ i \in 1 .. Len(inst.imes) /\ inst'.imes[i] = inst.imes[i]
    <2> DEFINE m == inst.imes[i].name
    <2>1. m \in Methods
      <3>1. inst.imes \in Seq(IMs)
        BY InstanceFields DEF Types
      <3>2. inst.imes[i] \in IMs
        BY <1>2, <3>1
      <3>3. QED
        BY <3>2 DEF IMs
    <2>2. inst.imes[i].klass \in {0, inst.loaded[m]}
      BY <1>2 DEF Known
    <2>3. inst.loaded[m] # 0 => inst'.loaded[m] = inst.loaded[m]
      BY <1>2, <2>1 DEF Loads
    <2>4. QED
      BY <1>2, <2>2, <2>3
  <1>3. QED
    BY <1>1, <1>2, EntriesNext

-----------------------------------------------------------------------------
(* A method that gets the keys is loaded. *)

\* Every entry of this name is loaded.
Held(s, m) == \A j \in 1 .. Len(s.imes) : s.imes[j].name = m => s.imes[j].klass # 0

\* A method can be used, or there is none of this name.
LoadedOrGone(s, m) == s.loaded[m] # 0 \/ m \notin s.avail

\* A call that loaded its method waits for the list to be taken apart, or has
\* one that holds the method as it was loaded.
ReloadsWait ==
    \A i \in 1 .. Len(inst.stack) :
      inst.stack[i].at = "reload" =>
        /\ LoadedOrGone(inst, inst.stack[i].method)
        /\ \/ i < Len(inst.stack) /\ inst.stack[i + 1].at = "clear"
           \/ Held(inst, inst.stack[i].method)

LEMMA HeldNext ==
    ASSUME Types, Next, ~Start
    PROVE  \A m \in Methods :
             LoadedOrGone(inst, m) =>
               /\ LoadedOrGone(inst', m)
               /\ Held(inst, m) => Held(inst', m)
  <1>1. Loads
    BY LoadsNext
  <1> SUFFICES ASSUME NEW m \in Methods, LoadedOrGone(inst, m)
               PROVE  /\ LoadedOrGone(inst', m)
                      /\ Held(inst, m) => Held(inst', m)
    OBVIOUS
  <1>2. LoadedOrGone(inst', m)
    BY <1>1 DEF LoadedOrGone, Loads
  <1>3. ASSUME Held(inst, m), NEW j \in 1 .. Len(inst'.imes), inst'.imes[j].name = m
        PROVE  inst'.imes[j].klass # 0
    <2>1. CASE Copied(j)
      BY <1>2, <1>3, <2>1 DEF Copied, LoadedOrGone
    <2>2. CASE j \in 1 .. Len(inst.imes) /\ inst'.imes[j] = inst.imes[j]
      BY <1>3, <2>2 DEF Held
    <2>3. QED
      BY <2>1, <2>2, EntriesNext
  <1>4. QED
    BY <1>2, <1>3 DEF Held

\* Where the calls in progress that load a method come from.
LEMMA ReloadFrames ==
    ASSUME Types, Next, NEW i \in 1 .. Len(inst'.stack), inst'.stack[i].at = "reload"
    PROVE  /\ ~Start
           /\ \/ /\ i \in 1 .. Len(inst.stack) /\ inst'.stack[i] = inst.stack[i]
                 /\ i < Len(inst.stack) /\ inst.stack[i + 1].at = "clear" =>
                      \/ inst'.imes = <<>>
                      \/ i < Len(inst'.stack) /\ inst'.stack[i + 1].at = "clear"
              \/ /\ i < Len(inst'.stack) /\ inst'.stack[i + 1].at = "clear"
                 /\ LoadedOrGone(inst', inst'.stack[i].method)
  <1> DEFINE n == Len(inst.stack)
             k == Len(inst'.stack)
             Same == /\ i \in 1 .. n /\ inst'.stack[i] = inst.stack[i]
                     /\ i < n /\ inst.stack[i + 1].at = "clear" =>
                          \/ inst'.imes = <<>>
                          \/ i < k /\ inst'.stack[i + 1].at = "clear"
  <1>1. inst \in Instance /\ inst' \in Instance /\ n \in Nat /\ k \in Nat
    BY TypesNext, InstanceFields DEF Types
  <1>2. ASSUME inst.stack # <<>>
        PROVE  n \in Nat \ {0} /\ Top = inst.stack[n]
    BY <1>1, <1>2, StackFacts DEF Top
  <1>3. ASSUME inst.stack # <<>>, Wait(n - 1), i \in 1 .. n - 1, k >= n,
               inst.stack[n].at = "clear" => inst'.imes = <<>>
        PROVE  Same
    BY <1>1, <1>3 DEF Wait
  <1>4. ASSUME inst.stack # <<>>, Wait(n - 1), i \in 1 .. n - 1, k = n - 1,
               inst.stack[n].at # "clear"
        PROVE  Same
    BY <1>1, <1>4 DEF Wait
  <1>5. CASE Load
    <2>1. /\ k = n + 1 /\ Wait(n - 1)
          /\ Now(n, "reload") /\ inst'.stack[n + 1].at = "clear"
          /\ inst'.loaded[Top.method] # 0 \/ Top.method \notin inst'.avail
      BY <1>5, LoadStep
    <2>2. inst.stack # <<>> /\ Top.at = "load" /\ ~Start
      BY <1>5 DEF Load, At, Start
    <2>3. CASE i = n
      <3>1. inst'.stack[n].method = Top.method
        BY <2>1 DEF Now
      <3>2. LoadedOrGone(inst', inst'.stack[n].method)
        BY <2>1, <3>1 DEF LoadedOrGone
      <3>3. i < k /\ inst'.stack[i + 1].at = "clear"
        BY <1>1, <2>1, <2>3
      <3>4. QED
        BY <2>2, <2>3, <3>2, <3>3
    <2>4. CASE i \in 1 .. n - 1
      BY <1>1, <1>2, <1>3, <2>1, <2>2, <2>4
    <2>5. i # n + 1
      BY <2>1
    <2>6. QED
      BY <1>1, <1>2, <2>1, <2>2, <2>3, <2>4, <2>5
  <1>6. CASE Reload \/ AddListed \/ OpenProfile
    <2>1. /\ k = n /\ Wait(n - 1) /\ inst'.stack[n].at \in {"init", "unlisted", "write"}
      BY <1>6, ReloadStep, AddListedStep, OpenProfileStep DEF Now
    <2>2. inst.stack # <<>> /\ Top.at # "clear" /\ ~Start
      BY <1>6 DEF Reload, AddListed, OpenProfile, At, Start
    <2>3. i \in 1 .. n - 1
      BY <1>1, <2>1
    <2>4. QED
      BY <1>1, <1>2, <1>3, <2>1, <2>2, <2>3
  <1>7. CASE Clear
    <2>1. k = n /\ Wait(n - 1) /\ inst'.stack[n].at = "listed" /\ inst'.imes = <<>>
      BY <1>7, ClearStep
    <2>2. inst.stack # <<>> /\ ~Start
      BY <1>7 DEF Clear, At, Start
    <2>3. i \in 1 .. n - 1
      BY <1>1, <2>1
    <2>4. QED
      BY <1>1, <1>3, <2>1, <2>2, <2>3
  <1>8. CASE InitIM
    <2>1. /\ Wait(n - 1)
          /\ (k = n /\ inst'.stack[n].at = "save") \/ k = n - 1
      BY <1>8, InitIMStep DEF Now
    <2>2. inst.stack # <<>> /\ Top.at # "clear" /\ ~Start
      BY <1>8 DEF InitIM, At, Start
    <2>3. i \in 1 .. n - 1
      BY <1>1, <2>1
    <2>4. QED
      BY <1>1, <1>2, <1>3, <1>4, <2>1, <2>2, <2>3
  <1>9. CASE AddUnlisted \/ Boot
    <2>1. /\ k = n + 1 /\ Wait(n - 1)
          /\ inst'.stack[n].at \in {"save", "booted"}
          /\ inst'.stack[n + 1].at \in {"load", "init"}
      BY <1>9, AddUnlistedStep, BootStep DEF Now, Called
    <2>2. inst.stack # <<>> /\ Top.at # "clear" /\ ~Start
      BY <1>9 DEF AddUnlisted, Boot, At, Start
    <2>3. i # n /\ i # n + 1
      BY <2>1
    <2>4. i \in 1 .. n - 1
      BY <1>1, <2>1, <2>3
    <2>5. QED
      BY <1>1, <1>2, <1>3, <2>1, <2>2, <2>4
  <1>10. CASE WriteProfile \/ Booted
    <2>1. k = n - 1 /\ Wait(n - 1)
      BY <1>10, ReturnStep
    <2>2. inst.stack # <<>> /\ Top.at # "clear" /\ ~Start
      BY <1>10 DEF WriteProfile, Booted, At, Start
    <2>3. i \in 1 .. n - 1
      BY <1>1, <2>1
    <2>4. QED
      BY <1>1, <1>2, <1>4, <2>1, <2>2, <2>3
  <1>11. CASE \/ \E index \in {-2, -1} \union (0 .. Len(inst.imes) - 1) : SwitchTo(index)
              \/ TurnInactive \/ TurnActive
    <2>1. k = 1 /\ inst'.stack[1].at \in {"load", "init"}
      BY <1>11, SelectStep DEF Called
    <2>2. QED
      BY <2>1
  <1>12. CASE (\E list \in SettableLists : SetIMList(list)) \/ ReloadConfig
    <2>1. k = 1 /\ inst'.stack[1].at = "clear"
      BY <1>12, ProfileStep DEF Starts
    <2>2. QED
      BY <2>1
  <1>13. CASE Start
    <2>1. k = 2 /\ inst'.stack[2].at = "clear" /\ inst'.stack[1].at = "boot"
      BY <1>13, StartStep DEF Starts
    <2>2. i \in {1, 2}
      BY <2>1
    <2>3. QED
      BY <2>1, <2>2
  <1>14. CASE Terminate \/ Hangup \/ Kill
    <2>1. inst'.stack = inst.stack
      BY <1>14, SignalStep DEF Kill
    <2>2. ~Start
      BY <1>14 DEF Terminate, Hangup, Kill, Start
    <2>3. QED
      BY <2>1, <2>2
  <1>15. QED
    BY <1>5, <1>6, <1>7, <1>8, <1>9, <1>10, <1>11, <1>12, <1>13, <1>14
       DEF Next, Step, Outside

LEMMA ReloadsWaitNext ==
    ASSUME Types, ReloadsWait, Next
    PROVE  ReloadsWait'
  <1> SUFFICES ASSUME NEW i \in 1 .. Len(inst'.stack), inst'.stack[i].at = "reload"
               PROVE  /\ LoadedOrGone(inst', inst'.stack[i].method)
                      /\ \/ i < Len(inst'.stack) /\ inst'.stack[i + 1].at = "clear"
                         \/ Held(inst', inst'.stack[i].method)
    BY DEF ReloadsWait
  <1>1. CASE /\ i < Len(inst'.stack) /\ inst'.stack[i + 1].at = "clear"
             /\ LoadedOrGone(inst', inst'.stack[i].method)
    BY <1>1
  <1>2. CASE /\ i \in 1 .. Len(inst.stack) /\ inst'.stack[i] = inst.stack[i] /\ ~Start
             /\ i < Len(inst.stack) /\ inst.stack[i + 1].at = "clear" =>
                  \/ inst'.imes = <<>>
                  \/ i < Len(inst'.stack) /\ inst'.stack[i + 1].at = "clear"
    <2> DEFINE m == inst.stack[i].method
    <2>1. m = inst'.stack[i].method /\ inst.stack[i].at = "reload"
      BY <1>2
    <2>2. m \in Methods
      BY <1>2, <2>1 DEF Types, Named
    <2>3. LoadedOrGone(inst, m)
      BY <1>2, <2>1 DEF ReloadsWait
    <2>4. \/ i < Len(inst.stack) /\ inst.stack[i + 1].at = "clear"
          \/ Held(inst, m)
      BY <1>2, <2>1 DEF ReloadsWait
    <2> HIDE DEF m
    <2>5. LoadedOrGone(inst', m) /\ (Held(inst, m) => Held(inst', m))
      BY <1>2, <2>2, <2>3, HeldNext
    <2>6. inst'.imes = <<>> => Held(inst', m)
      BY DEF Held
    <2>7. QED
      BY <1>2, <2>1, <2>4, <2>5, <2>6
  <1>3. QED
    BY <1>1, <1>2, ReloadFrames

\* The current entry is there and loaded, unless a method to be loaded was lost.
Current ==
    /\ Len(inst.imes) > (IF setup.firstAsInactive THEN 1 ELSE 0)
         => HasElement(inst.imes, inst.iIMIndex)
    /\ \/ promise.lost
       \/ HasElement(inst.imes, inst.iIMIndex) => Element(inst.imes, inst.iIMIndex).klass # 0

\* It is so once a call has selected a method, until the list changes.
Settled ==
    inst.stack = <<>> \/ Top.at \in {"init", "save", "write", "booted"} => Current

LEMMA ReloadSettles ==
    ASSUME Types, ReloadsWait, Reload
    PROVE  Current'
  <1> DEFINE n == Len(inst.stack)
             m == Top.method
             index == GetIMIndexByName(inst.imes, m)
  <1>1. /\ inst.imes \in Seq(IMs) /\ inst \in Instance /\ inst.stack # <<>>
        /\ Top.at = "reload" /\ setup' = setup /\ setup.firstAsInactive \in BOOLEAN
    BY InstanceFields DEF Types, Reload, At
  <1>2. inst'.imes = inst.imes /\ inst'.iIMIndex = index
    BY ReloadStep
  <1>3. Held(inst, m)
    <2>1. n \in Nat \ {0} /\ Top = inst.stack[n]
      BY <1>1, StackFacts DEF Top
    <2>2. QED
      BY <1>1, <2>1 DEF ReloadsWait
  <1>4. promise.lost \in BOOLEAN
    BY DEF Types, Promise
  <1>5. m \notin NamesOf(inst.imes) => promise'.lost
    BY <1>4 DEF Reload, Types, Promise
  <1> HIDE DEF m
  <1>6. /\ index \in Nat /\ (index \in 0 .. Len(inst.imes) - 1 \/ index = 0)
        /\ m \in NamesOf(inst.imes) =>
             HasElement(inst.imes, index) /\ Element(inst.imes, index).name = m
    BY <1>1, LookupFacts
  <1> HIDE DEF index
  <1>7. Len(inst.imes) > (IF setup.firstAsInactive THEN 1 ELSE 0)
          => HasElement(inst.imes, index)
    BY <1>1, <1>6 DEF HasElement
  <1>8. m \in NamesOf(inst.imes) => Element(inst.imes, index).klass # 0
    <2> SUFFICES ASSUME m \in NamesOf(inst.imes)
                 PROVE  Element(inst.imes, index).klass # 0
      OBVIOUS
    <2>1. index + 1 \in 1 .. Len(inst.imes) /\ inst.imes[index + 1].name = m
      BY <1>1, <1>6 DEF HasElement, Element
    <2>2. QED
      BY <1>3, <2>1 DEF Held, Element
  <1>9. QED
    BY <1>1, <1>2, <1>5, <1>7, <1>8 DEF Current

LEMMA SettledNext ==
    ASSUME Types, ReloadsWait, Settled, Next
    PROVE  Settled'
  <1> DEFINE n == Len(inst.stack)
             k == Len(inst'.stack)
  <1>1. /\ inst \in Instance /\ inst' \in Instance /\ n \in Nat /\ k \in Nat
        /\ inst.imes \in Seq(IMs) /\ Len(inst.imes) \in Nat
        /\ inst'.stack \in Seq(Frames) /\ setup.firstAsInactive \in BOOLEAN
    BY TypesNext, InstanceFields DEF Types
  <1>2. ASSUME k > 0, inst'.stack[k].at \in {"clear", "listed", "unlisted", "load"}
        PROVE  Settled'
    BY <1>1, <1>2 DEF Settled, Top
  <1>3. ASSUME k > 0, Called(k), Settles(setup.firstAsInactive), setup' = setup
        PROVE  Settled'
    <2>1. CASE inst'.stack[k].at = "load"
      BY <1>2, <1>3, <2>1
    <2>2. CASE /\ inst'.stack[k].at = "init"
               /\ HasElement(inst'.imes, inst'.iIMIndex) =>
                    Element(inst'.imes, inst'.iIMIndex).klass # 0
      BY <1>3, <2>2 DEF Settles, Current, Settled
    <2>3. QED
      BY <1>3, <2>1, <2>2 DEF Called
  <1>4. ASSUME Current, inst'.imes = inst.imes, inst'.iIMIndex = inst.iIMIndex,
               promise'.lost = promise.lost, setup' = setup
        PROVE  Current'
    BY <1>4 DEF Current
  <1>5. CASE Load
    <2>1. k = n + 1 /\ inst'.stack[n + 1].at = "clear"
      BY <1>5, LoadStep
    <2>2. QED
      BY <1>1, <1>2, <2>1
  <1>6. CASE Reload
    BY <1>6, ReloadSettles DEF Settled
  <1>7. CASE InitIM \/ OpenProfile \/ WriteProfile \/ Booted
    <2>1. inst'.imes = inst.imes /\ inst'.iIMIndex = inst.iIMIndex
      BY <1>7, InitIMStep, OpenProfileStep, ReturnStep DEF SameIndex
    <2>2. Current /\ promise' = promise /\ setup' = setup
      BY <1>7 DEF InitIM, OpenProfile, WriteProfile, Booted, At, Settled
    <2>3. QED
      BY <1>4, <2>1, <2>2 DEF Settled
  <1>8. CASE Clear \/ AddListed
    <2>1. k = n /\ inst'.stack[n].at \in {"listed", "unlisted"}
      BY <1>8, ClearStep, AddListedStep DEF Now
    <2>2. n \in Nat \ {0}
      BY <1>1, <1>8, StackFacts DEF Clear, AddListed, At
    <2>3. QED
      BY <1>2, <2>1, <2>2
  <1>9. CASE AddUnlisted \/ Boot
    <2>1. k = n + 1 /\ Called(n + 1) /\ Settles(setup.firstAsInactive)
      BY <1>9, AddUnlistedStep, BootStep
    <2>2. setup' = setup
      BY <1>9 DEF AddUnlisted, Boot, At
    <2>3. QED
      BY <1>1, <1>3, <2>1, <2>2
  <1>10. CASE \/ \E index \in {-2, -1} \union (0 .. Len(inst.imes) - 1) : SwitchTo(index)
              \/ TurnInactive \/ TurnActive
    <2>1. /\ k = 1 /\ Called(1) /\ inst.stack = <<>> /\ inst'.imes = inst.imes
          /\ inst.iIMIndex <= Len(inst.imes) => Settles(setup.firstAsInactive)
      BY <1>10, SelectStep
    <2>2. inst.iIMIndex \in Int
      BY <1>1, InstanceFields
    <2>3. Current
      BY <2>1 DEF Settled
    <2>4. Settles(setup.firstAsInactive)
      <3>1. CASE Len(inst.imes) > (IF setup.firstAsInactive THEN 1 ELSE 0)
        BY <1>1, <2>1, <2>2, <2>3, <3>1 DEF Current, HasElement
      <3>2. CASE ~(Len(inst.imes) > (IF setup.firstAsInactive THEN 1 ELSE 0))
        BY <2>1, <3>2 DEF Settles
      <3>3. QED
        BY <3>1, <3>2
    <2>5. setup' = setup
      BY <1>10 DEF SwitchTo, TurnInactive, TurnActive, Call
    <2>6. QED
      BY <1>3, <2>1, <2>4, <2>5
  <1>11. CASE (\E list \in SettableLists : SetIMList(list)) \/ ReloadConfig \/ Start
    <2>1. k \in {1, 2} /\ inst'.stack[k].at = "clear"
      BY <1>11, ProfileStep, StartStep DEF Starts
    <2>2. QED
      BY <1>2, <2>1
  <1>12. CASE Terminate \/ Hangup
    <2>1. /\ inst'.imes = inst.imes /\ inst'.iIMIndex = inst.iIMIndex
          /\ inst'.stack = inst.stack
      BY <1>12, SignalStep DEF SameIndex
    <2>2. setup' = setup
      BY <1>12 DEF Terminate, Hangup
    <2>3. promise'.lost = promise.lost
      BY <1>12 DEF Terminate, Hangup, Saved, Types, Promise
    <2>4. QED
      BY <1>4, <2>1, <2>2, <2>3 DEF Settled, Top
  <1>13. CASE Kill
    <2>1. inst' = inst /\ setup' = setup
      BY <1>13 DEF Kill
    <2>2. promise'.lost = promise.lost
      BY <1>13 DEF Kill, Types, Promise
    <2>3. QED
      BY <1>4, <2>1, <2>2 DEF Settled, Top
  <1>14. QED
    BY <1>5, <1>6, <1>7, <1>8, <1>9, <1>10, <1>11, <1>12, <1>13 DEF Next, Step, Outside

UsableInv == Types /\ Known /\ ReloadsWait /\ Settled

LEMMA UsableInitNext ==
    /\ Init => UsableInv
    /\ UsableInv /\ [Next]_vars => UsableInv'
  <1>1. ASSUME Init
        PROVE  UsableInv
    <2>1. Types
      BY <1>1, InitTypes
    <2>2. /\ inst.imes = <<>> /\ inst.stack = <<>> /\ inst.iIMIndex = 0
          /\ setup.firstAsInactive \in BOOLEAN
      BY <1>1 DEF Init
    <2>3. Known /\ ReloadsWait
      BY <2>2 DEF Known, ReloadsWait
    <2>4. Settled
      BY <2>2 DEF Settled, Current, HasElement
    <2>5. QED
      BY <2>1, <2>3, <2>4 DEF UsableInv
  <1>2. ASSUME UsableInv, Next
        PROVE  UsableInv'
    BY <1>2, TypesNext, KnownNext, ReloadsWaitNext, SettledNext DEF UsableInv
  <1>3. ASSUME UsableInv, UNCHANGED vars
        PROVE  UsableInv'
    BY <1>3 DEF UsableInv, vars, Types, Named, Known, ReloadsWait, LoadedOrGone, Held,
                Settled, Current, Top
  <1>4. QED
    BY <1>1, <1>2, <1>3

\* Whatever loads, fails to load, is switched, set or killed, between two calls
\* the method that ProcessKey hands a key to is an entry that is initialized, as
\* availimes says, as long as no method that was to be loaded left the list.
THEOREM UsableCorrect == Spec => []CurrentUsable
  <1>1. ASSUME UsableInv
        PROVE  CurrentUsable
    <2> SUFFICES ASSUME AtRest, ~promise.lost
                 PROVE  /\ Len(inst.imes) > (IF setup.firstAsInactive THEN 1 ELSE 0)
                             => HasElement(inst.imes, inst.iIMIndex)
                        /\ HasElement(inst.imes, inst.iIMIndex) =>
                             LET im == Element(inst.imes, inst.iIMIndex)
                             IN im.klass # 0 /\ im.klass = inst.loaded[im.name]
      BY DEF CurrentUsable
    <2>1. Current
      BY <1>1 DEF UsableInv, Settled, AtRest
    <2>2. inst.imes \in Seq(IMs) /\ inst.iIMIndex \in Int
      BY <1>1, InstanceFields DEF UsableInv, Types
    <2>3. HasElement(inst.imes, inst.iIMIndex) => inst.iIMIndex + 1 \in 1 .. Len(inst.imes)
      BY <2>2 DEF HasElement
    <2>4. QED
      BY <1>1, <2>1, <2>3 DEF Current, Element, UsableInv, Known
  <1>2. QED
    BY <1>1, UsableInitNext, PTL DEF Spec

-----------------------------------------------------------------------------
(* The file holds the list in use. *)

\* A list turns on the methods of imes, in their order.
Agrees(s, list) ==
    /\ Len(TurnedOn(list)) = Len(s.imes)
    /\ \A i \in 1 .. Len(s.imes) : TurnedOn(list)[i].name = s.imes[i].name

\* A call in progress has yet to save the list.
Unsaved(s) ==
    \E i \in 1 .. Len(s.stack) : s.stack[i].at \in {"clear", "listed", "unlisted", "save"}

\* The file is written, half written, or a call in progress will write it.
Saving ==
    life # "down" =>
      \/ Unsaved(inst)
      \/ inst.stack # <<>> /\ Top.at = "write" /\ Agrees(inst, inst.profile.imList)
      \/ disk.imList = inst.profile.imList /\ Agrees(inst, inst.profile.imList)

LEMMA SavingNext ==
    ASSUME Types, Saving, Next
    PROVE  Saving'
  <1> DEFINE n == Len(inst.stack)
             k == Len(inst'.stack)
             Done == disk.imList = inst.profile.imList /\ Agrees(inst, inst.profile.imList)
  <1>1. /\ inst \in Instance /\ inst' \in Instance /\ n \in Nat /\ k \in Nat
    BY TypesNext, InstanceFields DEF Types
  <1>2. ASSUME inst.stack # <<>>
        PROVE  n \in Nat \ {0} /\ Top = inst.stack[n]
    BY <1>1, <1>2, StackFacts DEF Top
  <1>3. ASSUME NEW i \in 1 .. k, inst'.stack[i].at \in {"clear", "listed", "unlisted", "save"}
        PROVE  Saving'
    BY <1>3 DEF Saving, Unsaved
  <1>4. ASSUME inst.stack # <<>>, Wait(n - 1), k >= n - 1, Unsaved(inst),
               Top.at \notin {"clear", "listed", "unlisted", "save"}
        PROVE  Saving'
    <2>1. PICK i \in 1 .. n : inst.stack[i].at \in {"clear", "listed", "unlisted", "save"}
      BY <1>4 DEF Unsaved
    <2>2. i \in 1 .. n - 1
      BY <1>1, <1>2, <1>4, <2>1
    <2>3. inst'.stack[i] = inst.stack[i] /\ i \in 1 .. k
      BY <1>1, <1>4, <2>2 DEF Wait
    <2>4. QED
      BY <1>3, <2>1, <2>3
  <1>5. ASSUME Done, disk' = disk, inst'.profile = inst.profile, inst'.imes = inst.imes
        PROVE  Saving'
    BY <1>5 DEF Saving, Agrees
  <1>6. CASE Load
    <2>1. k = n + 1 /\ inst'.stack[n + 1].at = "clear"
      BY <1>6, LoadStep
    <2>2. QED
      BY <1>1, <1>3, <2>1
  <1>7. CASE Reload \/ InitIM \/ Boot \/ Booted
    <2>1. /\ Wait(n - 1) /\ k >= n - 1
          /\ inst'.imes = inst.imes /\ inst'.profile = inst.profile
      BY <1>1, <1>7, ReloadStep, InitIMStep, BootStep, ReturnStep
    <2>2. /\ life # "down" /\ inst.stack # <<>> /\ disk' = disk
          /\ Top.at \notin {"clear", "listed", "unlisted", "save", "write"}
      BY <1>7 DEF Reload, InitIM, Boot, Booted, At
    <2>3. Unsaved(inst) \/ Done
      BY <2>2 DEF Saving
    <2>4. QED
      BY <1>4, <1>5, <2>1, <2>2, <2>3
  <1>8. CASE Clear \/ AddListed
    <2>1. k = n /\ inst'.stack[n].at \in {"listed", "unlisted"}
      BY <1>8, ClearStep, AddListedStep DEF Now
    <2>2. n \in Nat \ {0}
      BY <1>2, <1>8 DEF Clear, AddListed, At
    <2>3. QED
      BY <1>3, <2>1, <2>2
  <1>9. CASE AddUnlisted
    <2>1. k = n + 1 /\ inst'.stack[n].at = "save"
      BY <1>9, AddUnlistedStep DEF Now
    <2>2. n \in Nat \ {0}
      BY <1>2, <1>9 DEF AddUnlisted, At
    <2>3. QED
      BY <1>3, <2>1, <2>2
  <1>10. CASE OpenProfile
    <2>1. /\ inst'.imes = inst.imes /\ inst'.profile = Synced
          /\ k = n /\ inst'.stack[n].at = "write"
      BY <1>10, OpenProfileStep DEF Now
    <2>2. Agrees(inst, Synced.imList)
      BY <1>1, SyncedFacts DEF Agrees
    <2>3. n \in Nat \ {0}
      BY <1>2, <1>10 DEF OpenProfile, At
    <2>4. Agrees(inst', inst'.profile.imList)
      BY <2>1, <2>2 DEF Agrees
    <2>5. inst'.stack # <<>> /\ inst'.stack[k].at = "write"
      BY <1>1, <2>1, <2>3
    <2>6. QED
      BY <2>4, <2>5 DEF Saving, Top
  <1>11. CASE WriteProfile
    <2>1. /\ k = n - 1 /\ Wait(n - 1)
          /\ inst'.imes = inst.imes /\ inst'.profile = inst.profile
      BY <1>11, ReturnStep
    <2>2. /\ life # "down" /\ inst.stack # <<>> /\ disk' = inst.profile /\ Top.at = "write"
      BY <1>11 DEF WriteProfile, At
    <2>3. Unsaved(inst) \/ Agrees(inst, inst.profile.imList)
      BY <2>2 DEF Saving
    <2>4. CASE Agrees(inst, inst.profile.imList)
      BY <2>1, <2>2, <2>4 DEF Saving, Agrees
    <2>5. QED
      BY <1>1, <1>4, <2>1, <2>2, <2>3, <2>4
  <1>12. CASE \/ \E index \in {-2, -1} \union (0 .. Len(inst.imes) - 1) : SwitchTo(index)
              \/ TurnInactive \/ TurnActive
    <2>1. /\ inst.stack = <<>> /\ inst'.imes = inst.imes /\ inst'.profile = inst.profile
      BY <1>12, SelectStep
    <2>2. life # "down" /\ disk' = disk
      BY <1>12 DEF SwitchTo, TurnInactive, TurnActive, Call, AtRest
    <2>3. Done
      BY <2>1, <2>2 DEF Saving, Unsaved
    <2>4. QED
      BY <1>5, <2>1, <2>2, <2>3
  <1>13. CASE (\E list \in SettableLists : SetIMList(list)) \/ ReloadConfig \/ Start
    <2>1. k \in {1, 2} /\ inst'.stack[k].at = "clear"
      BY <1>13, ProfileStep, StartStep DEF Starts
    <2>2. QED
      BY <1>3, <2>1
  <1>14. CASE Terminate \/ Hangup
    <2>1. inst'.imes = inst.imes /\ inst'.profile = Synced /\ disk' = Synced
      BY <1>14, SignalStep
    <2>2. Agrees(inst, Synced.imList)
      BY <1>1, SyncedFacts DEF Agrees
    <2>3. QED
      BY <2>1, <2>2 DEF Saving, Agrees
  <1>15. CASE Kill
    BY <1>15 DEF Kill, Saving
  <1>16. QED
    BY <1>6, <1>7, <1>8, <1>9, <1>10, <1>11, <1>12, <1>13, <1>14, <1>15
       DEF Next, Step, Outside

LEMMA SavingInitNext ==
    /\ Init => Types /\ Saving
    /\ Types /\ Saving /\ [Next]_vars => (Types /\ Saving)'
  <1>1. ASSUME Init
        PROVE  Types /\ Saving
    BY <1>1, InitTypes DEF Init, Saving
  <1>2. ASSUME Types, Saving, Next
        PROVE  (Types /\ Saving)'
    BY <1>2, TypesNext, SavingNext
  <1>3. ASSUME Types, Saving, UNCHANGED vars
        PROVE  (Types /\ Saving)'
    BY <1>3 DEF vars, Types, Named, Saving, Unsaved, Agrees, Top
  <1>4. QED
    BY <1>1, <1>2, <1>3

\* Between two calls the profile on disk turns on the very methods in use, in
\* their order, however the calls before nested, loaded and saved, and whatever
\* signals saved in between.
THEOREM SavedCorrect == Spec => []ListSaved
  <1>1. ASSUME Types, Saving
        PROVE  ListSaved
    <2> SUFFICES ASSUME AtRest
                 PROVE  disk.imList = inst.profile.imList /\ Agrees(inst, disk.imList)
      BY DEF ListSaved, Agrees
    <2>1. ~Unsaved(inst)
      BY DEF AtRest, Unsaved
    <2>2. QED
      BY <1>1, <2>1 DEF Saving, AtRest
  <1>2. QED
    BY <1>1, SavingInitNext, PTL DEF Spec

-----------------------------------------------------------------------------
(* A list names a method once, so no index is beyond the methods there are. *)

Once(list) == IsInjective(Names(list))

LEMMA OnceFacts ==
    ASSUME NEW list, list \in Seq(Entries) \/ list \in Seq(IMs)
    PROVE  Once(list) <=>
             \A i, j \in 1 .. Len(list) : list[i].name = list[j].name => i = j
  <1>1. /\ Names(list) \in Seq(Methods) /\ Len(Names(list)) = Len(list)
        /\ \A i \in 1 .. Len(list) : Names(list)[i] = list[i].name
    BY NamesFacts
  <1>2. DOMAIN Names(list) = 1 .. Len(list)
    BY <1>1
  <1>3. QED
    BY <1>1, <1>2 DEF Once, IsInjective

LEMMA OnceBounds ==
    ASSUME NEW list \in Seq(IMs), Once(list)
    PROVE  Len(list) <= Cardinality(Methods)
  <1> DEFINE names == Names(list)
             n == Len(list)
  <1>1. /\ names \in Seq(Methods) /\ Len(names) = n /\ n \in Nat
    BY NamesFacts
  <1>2. names \in [1 .. n -> Methods]
    BY <1>1
  <1>3. names \in Injection(1 .. n, Methods)
    BY <1>2 DEF Once, Injection
  <1> HIDE DEF names, n
  <1>4. Cardinality(1 .. n) = n
    <2>1. 1 \in Int /\ n \in Int /\ 0 \in Int
      BY <1>1
    <2>2. Cardinality(1 .. n) = IF 1 > n THEN 0 ELSE n - 1 + 1
      BY <2>1, FS_Interval
    <2>3. QED
      BY <1>1, <2>2
  <1>5. Cardinality(1 .. n) <= Cardinality(Methods)
    BY <1>3, MethodsAssumption, FS_Injection
  <1>6. QED
    BY <1>4, <1>5 DEF n

LEMMA MethodsCount == Cardinality(Methods) \in Nat \ {0}
  <1>1. Cardinality(Methods) \in Nat
    BY MethodsAssumption, FS_CardinalityType
  <1>2. Cardinality(Methods) # 0
    BY MethodsAssumption, FS_EmptySet
  <1>3. QED
    BY <1>1, <1>2

\* A call in progress has a list that names a method once; the methods that a
\* list does not name are added by the call on top; FcitxInstanceCreate is the
\* outermost one.
FrameOK(s, i) ==
    /\ Once(s.stack[i].list)
    /\ s.stack[i].at = "unlisted" =>
         i = Len(s.stack) /\ NamesOf(s.imes) \subseteq NamesOf(s.stack[i].list)
    /\ i > 1 => s.stack[i].at \notin {"boot", "booted"}

Distinct ==
    /\ Once(inst.imes) /\ Once(inst.profile.imList) /\ Once(disk.imList)
    /\ \A i \in 1 .. Len(inst.stack) : FrameOK(inst, i)

LEMMA EmptyOnce == Once(<<>>)
  <1>1. Len(<<>>) = 0
    OBVIOUS
  <1>2. DOMAIN Names(<<>>) = {}
    BY <1>1 DEF Names
  <1>3. QED
    BY <1>2 DEF Once, IsInjective

LEMMA UnlistedOnce ==
    ASSUME Types, Distinct, AddUnlisted
    PROVE  Once(inst'.imes)
  <1> DEFINE n == Len(inst.stack)
             old == inst.imes
             new == Unlisted(Top.list)
  <1>1. inst \in Instance /\ inst.stack # <<>> /\ Top.at = "unlisted"
    BY DEF Types, AddUnlisted, At
  <1>2. n \in Nat \ {0} /\ Top = inst.stack[n] /\ old \in Seq(IMs)
    BY <1>1, StackFacts, InstanceFields DEF Top
  <1>3. NamesOf(old) \subseteq NamesOf(Top.list)
    BY <1>1, <1>2 DEF Distinct, FrameOK
  <1>4. inst'.imes = old \o new /\ Top.list \in Seq(Entries) /\ inst' \in Instance
    BY AddUnlistedStep
  <1>5. /\ new \in Seq(IMs) /\ Once(new)
        /\ \A m \in NamesOf(new) : m \in inst.avail /\ PrefixOf[m] \intersect NamesOf(Top.list) = {}
    BY <1>1, <1>4, UnlistedFacts DEF Once
  <1>6. \A m \in NamesOf(new) : m \notin NamesOf(old)
    <2>1. \A m \in inst.avail : m \in PrefixOf[m]
      BY <1>1, InstanceFields, NamesAssumption
    <2>2. QED
      BY <1>3, <1>5, <2>1
  <1>7. Once(old)
    BY DEF Distinct
  <1> HIDE DEF old, new
  <1>8. old \o new \in Seq(IMs)
    BY <1>2, <1>5
  <1>9. ASSUME NEW i \in 1 .. Len(old \o new), NEW j \in 1 .. Len(old \o new),
               (old \o new)[i].name = (old \o new)[j].name
        PROVE  i = j
    <2> DEFINE all == old \o new
               a == Len(old)
    <2>1. /\ a \in Nat /\ Len(new) \in Nat /\ Len(all) = a + Len(new)
          /\ \A k \in 1 .. Len(all) : all[k] = IF k <= a THEN old[k] ELSE new[k - a]
      BY <1>2, <1>5
    <2>2. \A k \in 1 .. a : old[k].name \in NamesOf(old)
      BY DEF NamesOf
    <2>3. \A k \in 1 .. Len(new) : new[k].name \in NamesOf(new)
      BY DEF NamesOf
    <2>4. \A k, l \in 1 .. a : old[k].name = old[l].name => k = l
      BY <1>2, <1>7, OnceFacts
    <2>5. \A k, l \in 1 .. Len(new) : new[k].name = new[l].name => k = l
      BY <1>5, OnceFacts
    <2> HIDE DEF all, a
    <2>6. all[i].name = all[j].name /\ i \in 1 .. Len(all) /\ j \in 1 .. Len(all)
      BY <1>9 DEF all
    <2>7. CASE i <= a /\ j <= a
      BY <2>1, <2>4, <2>6, <2>7
    <2>8. CASE i > a /\ j > a
      <3>1. i - a \in 1 .. Len(new) /\ j - a \in 1 .. Len(new)
        BY <2>1, <2>6, <2>8
      <3>2. i - a = j - a
        BY <2>1, <2>5, <2>6, <2>8, <3>1
      <3>3. QED
        BY <2>1, <2>6, <3>2
    <2>9. CASE i <= a /\ j > a
      <3>1. i \in 1 .. a /\ j - a \in 1 .. Len(new)
        BY <2>1, <2>6, <2>9
      <3>2. old[i].name = new[j - a].name
        BY <2>1, <2>6, <2>9
      <3>3. QED
        BY <1>6, <2>2, <2>3, <3>1, <3>2
    <2>10. CASE i > a /\ j <= a
      <3>1. j \in 1 .. a /\ i - a \in 1 .. Len(new)
        BY <2>1, <2>6, <2>10
      <3>2. old[j].name = new[i - a].name
        BY <2>1, <2>6, <2>10
      <3>3. QED
        BY <1>6, <2>2, <2>3, <3>1, <3>2
    <2>11. QED
      BY <2>1, <2>6, <2>7, <2>8, <2>9, <2>10
  <1>10. QED
    BY <1>4, <1>8, <1>9, OnceFacts

LEMMA OnceNext ==
    ASSUME Types, Distinct, Next
    PROVE  Once(inst'.imes) /\ Once(inst'.profile.imList) /\ Once(disk'.imList)
  <1>1. /\ inst \in Instance
        /\ Once(inst.imes) /\ Once(inst.profile.imList) /\ Once(disk.imList)
    BY DEF Types, Distinct
  <1>2. Once(Synced.imList)
    BY <1>1, SyncedFacts DEF Once
  <1>3. CASE Load \/ Reload \/ InitIM \/ Boot \/ Booted
    <2>1. inst'.imes = inst.imes /\ inst'.profile = inst.profile
      BY <1>3, LoadStep, ReloadStep, InitIMStep, BootStep, ReturnStep
    <2>2. disk' = disk
      BY <1>3 DEF Load, Reload, InitIM, Boot, Booted
    <2>3. QED
      BY <1>1, <2>1, <2>2
  <1>4. CASE Clear
    <2>1. inst'.imes = <<>> /\ inst'.profile = inst.profile
      BY <1>4, ClearStep
    <2>2. QED
      BY <1>1, <1>4, <2>1, EmptyOnce DEF Clear
  <1>5. CASE AddListed
    <2>1. /\ inst'.imes = Listed(Top.list) /\ Top.list \in Seq(Entries)
          /\ inst'.profile = inst.profile
      BY <1>5, AddListedStep
    <2>2. Once(Top.list)
      <3>1. inst.stack # <<>>
        BY <1>5 DEF AddListed, At
      <3>2. Len(inst.stack) \in Nat \ {0}
        BY <1>1, <3>1, StackFacts
      <3>3. QED
        BY <3>2 DEF Distinct, FrameOK, Top
    <2>3. Once(inst'.imes)
      BY <1>1, <2>1, <2>2, ListedFacts DEF Once
    <2>4. QED
      BY <1>1, <1>5, <2>1, <2>3 DEF AddListed
  <1>6. CASE AddUnlisted
    <2>1. inst'.profile = inst.profile
      BY <1>6, AddUnlistedStep
    <2>2. disk' = disk
      BY <1>6 DEF AddUnlisted
    <2>3. QED
      BY <1>1, <1>6, <2>1, <2>2, UnlistedOnce
  <1>7. CASE OpenProfile
    <2>1. inst'.imes = inst.imes /\ inst'.profile = Synced
      BY <1>7, OpenProfileStep
    <2>2. disk'.imList = <<>>
      BY <1>7 DEF OpenProfile, NoProfile
    <2>3. QED
      BY <1>1, <1>2, <2>1, <2>2, EmptyOnce
  <1>8. CASE WriteProfile
    <2>1. inst'.imes = inst.imes /\ inst'.profile = inst.profile
      BY <1>8, ReturnStep
    <2>2. QED
      BY <1>1, <1>8, <2>1 DEF WriteProfile
  <1>9. CASE \/ \E index \in {-2, -1} \union (0 .. Len(inst.imes) - 1) : SwitchTo(index)
             \/ TurnInactive \/ TurnActive
    <2>1. inst'.imes = inst.imes /\ inst'.profile = inst.profile
      BY <1>9, SelectStep
    <2>2. disk' = disk
      BY <1>9 DEF SwitchTo, TurnInactive, TurnActive, Call
    <2>3. QED
      BY <1>1, <2>1, <2>2
  <1>10. CASE (\E list \in SettableLists : SetIMList(list)) \/ ReloadConfig
    <2>1. /\ inst'.imes = inst.imes
          /\ \/ \E list \in SettableLists : inst'.profile.imList = list
             \/ inst'.profile = disk
      BY <1>10, ProfileStep
    <2>2. ASSUME NEW list \in SettableLists
          PROVE  Once(list)
      <3>1. list \in Seq(Entries)
        BY ListsAssumption
      <3>2. QED
        BY <3>1, ClientsAssumption, OnceFacts
    <2>3. disk' = disk
      BY <1>10 DEF SetIMList, ReloadConfig, Call
    <2>4. QED
      BY <1>1, <2>1, <2>2, <2>3
  <1>11. CASE Start
    <2>1. inst'.imes = <<>> /\ inst'.profile = disk
      BY <1>11, StartStep
    <2>2. QED
      BY <1>1, <1>11, <2>1, EmptyOnce DEF Start
  <1>12. CASE Terminate \/ Hangup
    <2>1. inst'.imes = inst.imes /\ inst'.profile = Synced /\ disk' = Synced
      BY <1>12, SignalStep
    <2>2. QED
      BY <1>1, <1>2, <2>1
  <1>13. CASE Kill
    BY <1>1, <1>13 DEF Kill
  <1>14. QED
    BY <1>3, <1>4, <1>5, <1>6, <1>7, <1>8, <1>9, <1>10, <1>11, <1>12, <1>13
       DEF Next, Step, Outside

LEMMA FramesNext ==
    ASSUME Types, Distinct, Next
    PROVE  \A i \in 1 .. Len(inst'.stack) : FrameOK(inst', i)
  <1> DEFINE n == Len(inst.stack)
             k == Len(inst'.stack)
             All == \A i \in 1 .. k : FrameOK(inst', i)
  <1>1. /\ inst \in Instance /\ inst' \in Instance /\ n \in Nat /\ k \in Nat
    BY TypesNext, InstanceFields DEF Types
  <1>2. ASSUME inst.stack # <<>>
        PROVE  n \in Nat \ {0} /\ Top = inst.stack[n] /\ FrameOK(inst, n)
    BY <1>1, <1>2, StackFacts DEF Top, Distinct
  <1>3. ASSUME Wait(n - 1), NEW i \in 1 .. n - 1
        PROVE  FrameOK(inst', i)
    BY <1>1, <1>3 DEF Wait, Distinct, FrameOK
  <1>4. ASSUME NEW i \in Nat, Once(inst'.stack[i].list),
               inst'.stack[i].at \notin {"unlisted", "boot", "booted"}
        PROVE  FrameOK(inst', i)
    BY <1>4 DEF FrameOK
  <1>5. ASSUME NEW i \in Nat, inst'.stack[i].list = <<>>,
               inst'.stack[i].at \notin {"unlisted", "boot", "booted"}
        PROVE  FrameOK(inst', i)
    BY <1>4, <1>5, EmptyOnce
  <1>6. ASSUME inst.stack # <<>>, NEW at \in Places \ {"unlisted", "boot", "booted"}, Now(n, at)
        PROVE  FrameOK(inst', n)
    BY <1>1, <1>2, <1>4, <1>6 DEF Now, FrameOK
  <1>7. CASE Load
    <2>1. /\ k = n + 1 /\ Wait(n - 1) /\ Now(n, "reload")
          /\ inst'.stack[n + 1].at = "clear" /\ inst'.stack[n + 1].list = <<>>
      BY <1>7, LoadStep
    <2>2. inst.stack # <<>>
      BY <1>7 DEF Load, At
    <2>3. FrameOK(inst', n) /\ FrameOK(inst', n + 1)
      BY <1>1, <1>5, <1>6, <2>1, <2>2 DEF Places
    <2>4. QED
      BY <1>1, <1>2, <1>3, <2>1, <2>2, <2>3
  <1>8. CASE Reload \/ OpenProfile
    <2>1. k = n /\ Wait(n - 1) /\ (Now(n, "init") \/ Now(n, "write"))
      BY <1>8, ReloadStep, OpenProfileStep
    <2>2. inst.stack # <<>>
      BY <1>8 DEF Reload, OpenProfile, At
    <2>3. FrameOK(inst', n)
      BY <1>6, <2>1, <2>2 DEF Places
    <2>4. QED
      BY <1>1, <1>2, <1>3, <2>1, <2>2, <2>3
  <1>9. CASE AddListed
    <2>1. /\ k = n /\ Wait(n - 1) /\ Now(n, "unlisted")
          /\ inst'.imes = Listed(Top.list) /\ Top.list \in Seq(Entries)
      BY <1>9, AddListedStep
    <2>2. inst.stack # <<>>
      BY <1>9 DEF AddListed, At
    <2>3. NamesOf(inst'.imes) \subseteq NamesOf(Top.list)
      <3>1. NamesOf(Listed(Top.list)) \subseteq NamesOf(TurnedOn(Top.list))
        BY <1>1, <2>1, ListedFacts
      <3>2. NamesOf(TurnedOn(Top.list)) \subseteq NamesOf(Top.list)
        <4>1. NamesOf(TurnedOn(Top.list)) =
                {Top.list[i].name : i \in {j \in 1 .. Len(Top.list) : Top.list[j].on = TRUE}}
          BY <2>1, TurnedFacts DEF TurnedOn
        <4>2. QED
          BY <4>1 DEF NamesOf
      <3>3. QED
        BY <2>1, <3>1, <3>2
    <2>4. FrameOK(inst', n)
      BY <1>2, <2>1, <2>2, <2>3 DEF Now, FrameOK
    <2>5. QED
      BY <1>1, <1>2, <1>3, <2>1, <2>2, <2>4
  <1>10. CASE Clear
    <2>1. /\ k = n /\ Wait(n - 1) /\ inst'.stack[n].at = "listed"
          /\ inst'.stack[n].list = inst.profile.imList
      BY <1>10, ClearStep
    <2>2. inst.stack # <<>>
      BY <1>10 DEF Clear, At
    <2>3. FrameOK(inst', n)
      BY <1>1, <1>4, <2>1 DEF Distinct
    <2>4. QED
      BY <1>1, <1>2, <1>3, <2>1, <2>2, <2>3
  <1>11. CASE InitIM
    <2>1. /\ Wait(n - 1)
          /\ (k = n /\ Now(n, "save")) \/ k = n - 1
      BY <1>11, InitIMStep
    <2>2. inst.stack # <<>>
      BY <1>11 DEF InitIM, At
    <2>3. Now(n, "save") => FrameOK(inst', n)
      BY <1>6, <2>2 DEF Places
    <2>4. QED
      BY <1>1, <1>2, <1>3, <2>1, <2>2, <2>3
  <1>12. CASE AddUnlisted
    <2>1. k = n + 1 /\ Wait(n - 1) /\ Now(n, "save") /\ Called(n + 1)
      BY <1>12, AddUnlistedStep
    <2>2. inst.stack # <<>>
      BY <1>12 DEF AddUnlisted, At
    <2>3. FrameOK(inst', n) /\ FrameOK(inst', n + 1)
      BY <1>1, <1>5, <1>6, <2>1, <2>2 DEF Places, Called
    <2>4. QED
      BY <1>1, <1>2, <1>3, <2>1, <2>2, <2>3
  <1>13. CASE Boot
    <2>1. k = n + 1 /\ Wait(n - 1) /\ Now(n, "booted") /\ Called(n + 1)
      BY <1>13, BootStep
    <2>2. inst.stack # <<>> /\ Top.at = "boot"
      BY <1>13 DEF Boot, At
    <2>3. FrameOK(inst', n)
      BY <1>2, <2>1, <2>2 DEF Now, FrameOK
    <2>4. FrameOK(inst', n + 1)
      BY <1>1, <1>5, <2>1 DEF Called
    <2>5. QED
      BY <1>1, <1>2, <1>3, <2>1, <2>2, <2>3, <2>4
  <1>14. CASE WriteProfile \/ Booted
    <2>1. k = n - 1 /\ Wait(n - 1)
      BY <1>14, ReturnStep
    <2>2. QED
      BY <1>3, <2>1
  <1>15. CASE \/ \E index \in {-2, -1} \union (0 .. Len(inst.imes) - 1) : SwitchTo(index)
              \/ TurnInactive \/ TurnActive
    <2>1. k = 1 /\ Called(1)
      BY <1>15, SelectStep
    <2>2. FrameOK(inst', 1)
      BY <1>5, <2>1 DEF Called
    <2>3. QED
      BY <2>1, <2>2
  <1>16. CASE (\E list \in SettableLists : SetIMList(list)) \/ ReloadConfig
    <2>1. k = 1 /\ Starts(1)
      BY <1>16, ProfileStep
    <2>2. FrameOK(inst', 1)
      BY <1>5, <2>1 DEF Starts
    <2>3. QED
      BY <2>1, <2>2
  <1>17. CASE Start
    <2>1. /\ k = 2 /\ Starts(2)
          /\ inst'.stack[1].at = "boot" /\ inst'.stack[1].list = <<>>
      BY <1>17, StartStep
    <2>2. FrameOK(inst', 1)
      BY <2>1, EmptyOnce DEF FrameOK
    <2>3. FrameOK(inst', 2)
      BY <1>5, <2>1 DEF Starts
    <2>4. QED
      BY <2>1, <2>2, <2>3
  <1>18. CASE Terminate \/ Hangup \/ Kill
    <2>1. inst'.stack = inst.stack /\ inst'.imes = inst.imes
      BY <1>18, SignalStep DEF Kill
    <2>2. QED
      BY <2>1 DEF Distinct, FrameOK
  <1>19. QED
    BY <1>7, <1>8, <1>9, <1>10, <1>11, <1>12, <1>13, <1>14, <1>15, <1>16, <1>17, <1>18
       DEF Next, Step, Outside

\* No index is beyond the place after as many entries as there are methods, and
\* the calls nest as deep as the bound says.
Bounds ==
    /\ inst.iIMIndex <= Cardinality(Methods) /\ inst.lastIMIndex <= Cardinality(Methods)
    /\ Len(inst.stack) <= MaxDepth

LEMMA BoundsNext ==
    ASSUME Types, Distinct, Bounds, Next
    PROVE  Bounds'
  <1> DEFINE c == Cardinality(Methods)
             n == Len(inst.stack)
             k == Len(inst'.stack)
             Within == inst'.iIMIndex <= c /\ inst'.lastIMIndex <= c /\ k <= MaxDepth
  <1>1. /\ inst \in Instance /\ inst' \in Instance /\ n \in Nat /\ k \in Nat
        /\ inst.imes \in Seq(IMs) /\ inst'.imes \in Seq(IMs)
        /\ Len(inst.imes) \in Nat /\ Len(inst'.imes) \in Nat
        /\ inst.iIMIndex \in Int /\ inst.lastIMIndex \in Int
    BY TypesNext, InstanceFields DEF Types
  <1>2. c \in Nat \ {0} /\ MaxDepth \in Nat /\ MaxDepth >= 2
    BY MethodsCount, BoundsAssumption
  <1>3. Len(inst.imes) <= c /\ Len(inst'.imes) <= c
    BY <1>1, OnceBounds, OnceNext DEF Distinct
  <1>4. inst.iIMIndex <= c /\ inst.lastIMIndex <= c /\ n <= MaxDepth
    BY DEF Bounds
  <1>5. Within => Bounds'
    BY DEF Bounds
  <1> HIDE DEF c
  <1>6. CASE Load
    <2>1. SameIndex /\ k = n + 1 /\ n + 1 <= MaxDepth
      BY <1>6, LoadStep
    <2>2. QED
      BY <1>4, <1>5, <2>1 DEF SameIndex
  <1>7. CASE Reload
    <2>1. /\ inst'.iIMIndex = GetIMIndexByName(inst.imes, Top.method)
          /\ inst'.lastIMIndex = inst.lastIMIndex /\ k = n
      BY <1>7, ReloadStep
    <2>2. /\ GetIMIndexByName(inst.imes, Top.method) \in Nat
          /\ \/ GetIMIndexByName(inst.imes, Top.method) \in 0 .. Len(inst.imes) - 1
             \/ GetIMIndexByName(inst.imes, Top.method) = 0
      BY <1>1, LookupFacts
    <2>3. inst'.iIMIndex <= c
      BY <1>1, <1>2, <1>3, <2>1, <2>2
    <2>4. QED
      BY <1>4, <1>5, <2>1, <2>3
  <1>8. CASE InitIM
    <2>1. /\ inst'.iIMIndex = inst.iIMIndex
          /\ inst'.lastIMIndex \in {inst.iIMIndex, inst.lastIMIndex}
          /\ k \in {n, n - 1}
      BY <1>8, InitIMStep
    <2>2. QED
      BY <1>1, <1>2, <1>4, <1>5, <2>1
  <1>9. CASE Clear \/ AddListed \/ OpenProfile
    <2>1. SameIndex /\ k = n
      BY <1>9, ClearStep, AddListedStep, OpenProfileStep
    <2>2. QED
      BY <1>4, <1>5, <2>1 DEF SameIndex
  <1>10. CASE AddUnlisted
    <2>1. /\ inst'.lastIMIndex = inst.lastIMIndex
          /\ \A d \in Nat \ {0} : Len(inst'.imes) <= d => inst'.iIMIndex <= d
          /\ k = n + 1 /\ n + 1 <= MaxDepth
      BY <1>10, AddUnlistedStep
    <2>2. QED
      BY <1>2, <1>3, <1>4, <1>5, <2>1
  <1>11. CASE Boot
    <2>1. /\ inst'.lastIMIndex = inst.lastIMIndex
          /\ \A d \in Nat \ {0} : Len(inst'.imes) <= d => inst'.iIMIndex <= d
          /\ k = n + 1
      BY <1>11, BootStep
    <2>2. n = 1
      <3>1. inst.stack # <<>> /\ Top.at = "boot"
        BY <1>11 DEF Boot, At
      <3>2. n \in Nat \ {0} /\ Top = inst.stack[n]
        BY <1>1, <3>1, StackFacts DEF Top
      <3>3. ~(n > 1)
        BY <3>1, <3>2 DEF Distinct, FrameOK
      <3>4. \A x \in Nat \ {0} : x > 1 \/ x = 1
        OBVIOUS
      <3>5. QED
        BY <3>2, <3>3, <3>4
    <2>3. QED
      BY <1>2, <1>3, <1>4, <1>5, <2>1, <2>2
  <1>12. CASE WriteProfile \/ Booted
    <2>1. /\ inst'.iIMIndex = inst.iIMIndex
          /\ inst'.lastIMIndex \in {inst.iIMIndex, inst.lastIMIndex}
          /\ k = n - 1
      BY <1>12, ReturnStep
    <2>2. QED
      BY <1>1, <1>2, <1>4, <1>5, <2>1
  <1>13. CASE \/ \E index \in {-2, -1} \union (0 .. Len(inst.imes) - 1) : SwitchTo(index)
              \/ TurnInactive \/ TurnActive
    <2>1. /\ inst'.lastIMIndex = inst.lastIMIndex /\ k = 1
          /\ \A d \in Nat \ {0} :
               Len(inst'.imes) <= d /\ inst.iIMIndex <= d => inst'.iIMIndex <= d
      BY <1>13, SelectStep
    <2>2. QED
      BY <1>2, <1>3, <1>4, <1>5, <2>1
  <1>14. CASE (\E list \in SettableLists : SetIMList(list)) \/ ReloadConfig
    <2>1. SameIndex /\ k = 1
      BY <1>14, ProfileStep
    <2>2. QED
      BY <1>2, <1>4, <1>5, <2>1 DEF SameIndex
  <1>15. CASE Start
    <2>1. inst'.iIMIndex = 0 /\ inst'.lastIMIndex = 0 /\ k = 2
      BY <1>15, StartStep
    <2>2. QED
      BY <1>2, <1>5, <2>1
  <1>16. CASE Terminate \/ Hangup
    <2>1. SameIndex /\ k = n
      BY <1>16, SignalStep
    <2>2. QED
      BY <1>4, <1>5, <2>1 DEF SameIndex
  <1>17. CASE Kill
    BY <1>4, <1>5, <1>17 DEF Kill
  <1>18. QED
    BY <1>6, <1>7, <1>8, <1>9, <1>10, <1>11, <1>12, <1>13, <1>14, <1>15, <1>16, <1>17
       DEF Next, Step, Outside

TypeInv == Types /\ Distinct /\ Bounds

LEMMA TypeInitNext ==
    /\ Init => TypeInv
    /\ TypeInv /\ [Next]_vars => TypeInv'
  <1>1. ASSUME Init
        PROVE  TypeInv
    <2>1. Types
      BY <1>1, InitTypes
    <2>2. /\ inst.imes = <<>> /\ inst.stack = <<>> /\ inst.iIMIndex = 0 /\ inst.lastIMIndex = 0
          /\ inst.profile = NoProfile /\ disk = NoProfile
      BY <1>1 DEF Init
    <2>3. Distinct
      BY <2>2, EmptyOnce DEF Distinct, NoProfile
    <2>4. Bounds
      BY <2>2, MethodsCount, BoundsAssumption DEF Bounds
    <2>5. QED
      BY <2>1, <2>3, <2>4 DEF TypeInv
  <1>2. ASSUME TypeInv, Next
        PROVE  TypeInv'
    <2>1. Types' /\ Bounds'
      BY <1>2, TypesNext, BoundsNext DEF TypeInv
    <2>2. Distinct'
      BY <1>2, OnceNext, FramesNext DEF TypeInv, Distinct, FrameOK
    <2>3. QED
      BY <2>1, <2>2 DEF TypeInv
  <1>3. ASSUME TypeInv, UNCHANGED vars
        PROVE  TypeInv'
    BY <1>3 DEF TypeInv, vars, Types, Named, Distinct, FrameOK, Bounds
  <1>4. QED
    BY <1>1, <1>2, <1>3

\* Every variable keeps its type, and an index, also one that waits for a list
\* that is taken apart, is at most the place after as many entries as there are
\* methods: no list names one twice.
THEOREM TypeCorrect == Spec => []TypeOK
  <1>1. ASSUME TypeInv
        PROVE  TypeOK
    <2>1. inst.iIMIndex \in Int /\ inst.lastIMIndex \in Int
      BY <1>1, InstanceFields DEF TypeInv, Types
    <2>2. Cardinality(Methods) \in Nat
      BY MethodsCount
    <2>3. {inst.iIMIndex, inst.lastIMIndex} \subseteq -1 .. Cardinality(Methods)
      BY <1>1, <2>1, <2>2 DEF TypeInv, Types, Bounds
    <2>4. QED
      BY <1>1, <2>3 DEF TypeInv, Types, Bounds, TypeOK
  <1>2. QED
    BY <1>1, TypeInitNext, PTL DEF Spec

-----------------------------------------------------------------------------
(* What a client turned on or off stays so. *)

\* The methods a list turns on.
On(list) == NamesOf(TurnedOn(list))

\* A list that still says what the client asked for; a method that was removed
\* because it failed to load may be missing: it is added when it is back.
Keeps(broken, p, list) ==
    /\ \A m \in p.on :
         m \in Installed(broken) =>
           m \in On(list) \/ (m \in Fails(broken) /\ m \notin NamesOf(list))
    /\ \A m \in p.off : m \in Installed(broken) /\ m \in NamesOf(list) /\ m \notin On(list)

TurnsOn(s, p, list) == \A m \in p.on : m \in s.avail => m \in On(list)

\* The entries in use are as the client asked for.
Honoured(s, p) ==
    /\ \A m \in p.on : m \in s.avail => m \in NamesOf(s.imes)
    /\ \A m \in p.off : m \notin NamesOf(s.imes)

PlaceOf(s) == IF s.stack = <<>> THEN "rest" ELSE s.stack[Len(s.stack)].at
ListOnTop(s) == s.stack[Len(s.stack)].list
Listing == {"clear", "listed", "unlisted"}

\* What is available is what was installed, but for the methods that failed.
Inventory ==
    /\ \A m \in Fails(setup.broken) : inst.loaded[m] = 0
    /\ life # "down" =>
         /\ inst.avail \subseteq Installed(setup.broken)
         /\ Installed(setup.broken) \ inst.avail \subseteq Fails(setup.broken)
         /\ promise.off \subseteq inst.avail

\* Only the call on top builds a list or loads a method, none that is off.
OnTop ==
    \A i \in 1 .. Len(inst.stack) :
      /\ inst.stack[i].at \in Listing \union {"load"} => i = Len(inst.stack)
      /\ inst.stack[i].at = "load" => inst.stack[i].method \notin promise.off

\* Once the daemon is up a list names all that is on and available: the
\* method that came back with the start is in it again.
Passes(broken, where, s, p, list) ==
    Keeps(broken, p, list) /\ (where = "up" => TurnsOn(s, p, list))

Lists ==
    /\ life = "down" => Keeps(setup.broken, promise, disk.imList)
    /\ life # "down" =>
         /\ Passes(setup.broken, life, inst, promise, inst.profile.imList)
         /\ PlaceOf(inst) \in {"listed", "unlisted"} =>
              Passes(setup.broken, life, inst, promise, ListOnTop(inst))

Enabled ==
    life # "down" =>
      /\ PlaceOf(inst) = "unlisted" =>
           NamesOf(inst.imes) = inst.avail \intersect On(ListOnTop(inst))
      /\ PlaceOf(inst) \notin Listing => Honoured(inst, promise)
      /\ PlaceOf(inst) # "clear" => NamesOf(inst.imes) \subseteq inst.avail

LEMMA OnFacts ==
    ASSUME NEW list \in Seq(Entries)
    PROVE  /\ On(list) \subseteq NamesOf(list) /\ On(list) \subseteq Methods
           /\ NamesOf(Turned(list, FALSE)) \subseteq NamesOf(list)
           /\ Once(list) => On(list) \intersect NamesOf(Turned(list, FALSE)) = {}
  <1>1. /\ On(list) = {list[i].name : i \in {j \in 1 .. Len(list) : list[j].on = TRUE}}
        /\ NamesOf(Turned(list, FALSE)) =
             {list[i].name : i \in {j \in 1 .. Len(list) : list[j].on = FALSE}}
    BY TurnedFacts DEF On, TurnedOn
  <1>2. Once(list) => \A i, j \in 1 .. Len(list) : list[i].name = list[j].name => i = j
    BY OnceFacts
  <1>3. NamesOf(list) \subseteq Methods
    BY NamesFacts
  <1>4. On(list) \subseteq NamesOf(list) /\ NamesOf(Turned(list, FALSE)) \subseteq NamesOf(list)
    BY <1>1 DEF NamesOf
  <1>5. Once(list) => On(list) \intersect NamesOf(Turned(list, FALSE)) = {}
    <2> SUFFICES ASSUME Once(list), NEW m \in On(list), m \in NamesOf(Turned(list, FALSE))
                 PROVE  FALSE
      OBVIOUS
    <2>1. PICK i \in 1 .. Len(list) : list[i].name = m /\ list[i].on = TRUE
      BY <1>1
    <2>2. PICK j \in 1 .. Len(list) : list[j].name = m /\ list[j].on = FALSE
      BY <1>1
    <2>3. i = j
      BY <1>2, <2>1, <2>2
    <2>4. QED
      BY <2>1, <2>2, <2>3
  <1>6. QED
    BY <1>3, <1>4, <1>5

\* A profile that is saved for entries as the client asked for says so.
LEMMA SyncedKeeps ==
    ASSUME Types, Inventory, life # "down", Honoured(inst, promise),
           NamesOf(inst.imes) \subseteq inst.avail
    PROVE  /\ Keeps(setup.broken, promise, Synced.imList)
           /\ TurnsOn(inst, promise, Synced.imList)
  <1>1. inst \in Instance /\ inst.imes \in Seq(IMs)
    BY InstanceFields DEF Types
  <1>2. On(Synced.imList) = NamesOf(inst.imes)
    <2>1. /\ Len(TurnedOn(Synced.imList)) = Len(inst.imes)
          /\ \A i \in 1 .. Len(inst.imes) : TurnedOn(Synced.imList)[i].name = inst.imes[i].name
      BY <1>1, SyncedFacts
    <2>2. QED
      BY <2>1 DEF On, NamesOf
  <1>3. NamesOf(Synced.imList) = inst.avail
    BY <1>1, SyncedFacts
  <1>4. /\ inst.avail \subseteq Installed(setup.broken)
        /\ Installed(setup.broken) \ inst.avail \subseteq Fails(setup.broken)
        /\ promise.off \subseteq inst.avail
    BY DEF Inventory
  <1>5. QED
    BY <1>2, <1>3, <1>4 DEF Keeps, TurnsOn, Honoured

\* The methods a list turns on and those it does not know are as it says.
LEMMA AddedHonours ==
    ASSUME Types, Inventory, life # "down", NEW list \in Seq(Entries),
           Keeps(setup.broken, promise, list),
           NamesOf(inst.imes) = inst.avail \intersect On(list)
    PROVE  /\ \A m \in promise.on :
                m \in inst.avail => m \in NamesOf(inst.imes \o Unlisted(list))
           /\ \A m \in promise.off : m \notin NamesOf(inst.imes \o Unlisted(list))
           /\ NamesOf(inst.imes \o Unlisted(list)) \subseteq inst.avail
  <1> DEFINE old == inst.imes
             new == Unlisted(list)
  <1>1. inst \in Instance /\ old \in Seq(IMs) /\ inst.avail \subseteq Methods
    BY InstanceFields DEF Types
  <1>2. /\ new \in Seq(IMs)
        /\ NamesOf(new) = {m \in inst.avail : /\ PrefixOf[m] \intersect NamesOf(list) = {}
                                              /\ PriorityOf(m) < PRIORITY_DISABLE}
    BY <1>1, UnlistedFacts
  <1>3. NamesOf(old) = inst.avail \intersect On(list)
    OBVIOUS
  <1> HIDE DEF old, new
  <1>4. NamesOf(old \o new) = NamesOf(old) \union NamesOf(new)
    <2> DEFINE all == old \o new
               a == Len(old)
    <2>1. /\ a \in Nat /\ Len(new) \in Nat /\ Len(all) = a + Len(new)
          /\ \A k \in 1 .. Len(all) : all[k] = IF k <= a THEN old[k] ELSE new[k - a]
      BY <1>1, <1>2
    <2> HIDE DEF all
    <2>2. NamesOf(all) \subseteq NamesOf(old) \union NamesOf(new)
      <3> SUFFICES ASSUME NEW k \in 1 .. Len(all)
                   PROVE  all[k].name \in NamesOf(old) \union NamesOf(new)
        BY DEF NamesOf
      <3>1. CASE k <= a
        BY <2>1, <3>1 DEF NamesOf
      <3>2. CASE k > a
        <4>1. k - a \in 1 .. Len(new) /\ all[k] = new[k - a]
          BY <2>1, <3>2
        <4>2. QED
          BY <4>1 DEF NamesOf
      <3>3. QED
        BY <2>1, <3>1, <3>2
    <2>3. NamesOf(old) \subseteq NamesOf(all)
      <3> SUFFICES ASSUME NEW k \in 1 .. Len(old)
                   PROVE  old[k].name \in NamesOf(all)
        BY DEF NamesOf
      <3>1. k \in 1 .. Len(all) /\ all[k] = old[k]
        BY <2>1
      <3>2. QED
        BY <3>1 DEF NamesOf
    <2>4. NamesOf(new) \subseteq NamesOf(all)
      <3> SUFFICES ASSUME NEW k \in 1 .. Len(new)
                   PROVE  new[k].name \in NamesOf(all)
        BY DEF NamesOf
      <3>1. k + a \in 1 .. Len(all) /\ all[k + a] = new[k]
        BY <2>1
      <3>2. QED
        BY <3>1 DEF NamesOf
    <2>5. QED
      BY <2>2, <2>3, <2>4 DEF all
  <1>5. ASSUME NEW m \in promise.on, m \in inst.avail
        PROVE  m \in NamesOf(old) \union NamesOf(new)
    <2>1. m \in Installed(setup.broken) /\ m \in Methods
      BY <1>1, <1>5 DEF Inventory
    <2>2. CASE m \in On(list)
      BY <1>3, <1>5, <2>2
    <2>3. CASE m \in Fails(setup.broken) /\ m \notin NamesOf(list)
      <3>1. PriorityOf(m) = FilePriority[m]
        BY <2>3 DEF Inventory, PriorityOf
      <3>2. Owner[m] \in ByConfigFile
        BY <2>1, <2>3 DEF Installed
      <3>3. PrefixOf[m] = {m} /\ FilePriority[m] < PRIORITY_DISABLE
        BY <2>1, <3>2, FilesAssumption
      <3>4. QED
        BY <1>2, <1>5, <2>3, <3>1, <3>3
    <2>4. QED
      BY <1>5, <2>1, <2>2, <2>3 DEF Keeps
  <1>6. ASSUME NEW m \in promise.off
        PROVE  m \notin NamesOf(old) /\ m \notin NamesOf(new)
    <2>1. m \in NamesOf(list) /\ m \notin On(list) /\ m \in inst.avail
      BY DEF Keeps, Inventory
    <2>2. m \in PrefixOf[m]
      BY <1>1, <2>1, NamesAssumption
    <2>3. QED
      BY <1>2, <1>3, <2>1, <2>2
  <1>7. QED
    BY <1>2, <1>3, <1>4, <1>5, <1>6 DEF old, new

\* A signal that finds a list being taken over ends what was asked for; the
\* others leave it.
LEMMA SignalPromise ==
    ASSUME Types, Terminate \/ Hangup
    PROVE  \/ /\ PlaceOf(inst) \in {"clear", "listed"}
              /\ promise'.on = {} /\ promise'.off = {}
           \/ /\ PlaceOf(inst) \notin {"clear", "listed"}
              /\ promise'.on = promise.on /\ promise'.off = promise.off
  <1> DEFINE taken == inst.stack # <<>> /\ Top.at \in {"clear", "listed"}
             on == IF taken THEN {} ELSE promise.on
             off == IF taken THEN {} ELSE promise.off
             current == IF AtRest /\ ~promise.lost THEN InUse ELSE NoMethod
  <1>1. promise \in Promise
    BY DEF Types
  <1>2. \/ promise' = [promise EXCEPT !.on = on, !.off = off, !.current = current]
        \/ promise' = [promise EXCEPT !.on = on, !.off = off, !.current = NoMethod]
    BY DEF Terminate, Hangup, Saved
  <1>3. taken <=> PlaceOf(inst) \in {"clear", "listed"}
    BY DEF PlaceOf, Top
  <1> HIDE DEF taken, current
  <1>4. promise'.on = on /\ promise'.off = off
    BY <1>1, <1>2 DEF Promise
  <1>5. QED
    BY <1>3, <1>4

LEMMA KillPromise ==
    ASSUME Types, Kill
    PROVE  \/ AtRest /\ promise'.on = promise.on /\ promise'.off = promise.off
           \/ promise'.on = {} /\ promise'.off = {}
  <1> DEFINE on == IF AtRest THEN promise.on ELSE {}
             off == IF AtRest THEN promise.off ELSE {}
  <1>1. promise \in Promise
    BY DEF Types
  <1>2. promise' = [promise EXCEPT !.on = on, !.off = off, !.current = NoMethod]
    BY DEF Kill
  <1> HIDE DEF AtRest
  <1>3. promise'.on = on /\ promise'.off = off
    BY <1>1, <1>2 DEF Promise
  <1>4. QED
    BY <1>3

\* The other steps but a client's leave what was asked for.
LEMMA SamePromise ==
    ASSUME Types, Next
    PROVE  \/ promise'.on = promise.on /\ promise'.off = promise.off
           \/ (\E list \in SettableLists : SetIMList(list)) \/ Terminate \/ Hangup \/ Kill
  <1>1. promise \in Promise
    BY DEF Types
  <1>2. CASE Step
    <2>1. \/ promise' = promise
          \/ \E lost : promise' = [promise EXCEPT !.lost = lost]
      BY <1>2 DEF Step, Load, Reload, InitIM, Clear, AddListed, AddUnlisted, OpenProfile,
                  WriteProfile, Boot, Booted
    <2>2. QED
      BY <1>1, <2>1 DEF Promise
  <1>3. CASE \/ \E index \in {-2, -1} \union (0 .. Len(inst.imes) - 1) : SwitchTo(index)
             \/ TurnInactive \/ TurnActive \/ ReloadConfig \/ Start
    <2>1. \/ promise' = [promise EXCEPT !.current = NoMethod, !.lost = FALSE]
          \/ promise' = [promise EXCEPT !.lost = FALSE]
      BY <1>3 DEF SwitchTo, TurnInactive, TurnActive, ReloadConfig, Start
    <2>2. QED
      BY <1>1, <2>1 DEF Promise
  <1>4. QED
    BY <1>2, <1>3 DEF Next, Outside

LEMMA SameSetup ==
    ASSUME Next
    PROVE  setup' = setup
  <1>1. CASE Step
    BY <1>1 DEF Step, Load, Reload, InitIM, Clear, AddListed, AddUnlisted, OpenProfile,
                WriteProfile, Boot, Booted, At
  <1>2. CASE Outside
    BY <1>2 DEF Outside, SwitchTo, TurnInactive, TurnActive, SetIMList, ReloadConfig, Start,
                Terminate, Hangup, Kill, Call
  <1>3. QED
    BY <1>1, <1>2 DEF Next

\* Nothing becomes available while the daemon runs: all that can was there.
LEMMA AvailShrinks ==
    ASSUME Types, Inventory, life # "down", FailsStay, inst' \in Instance
    PROVE  inst'.avail \subseteq inst.avail
  <1> SUFFICES ASSUME NEW m \in inst'.avail, m \notin inst.avail
               PROVE  FALSE
    OBVIOUS
  <1>1. m \in Methods
    BY InstanceFields
  <1>2. m \notin Fails(setup.broken)
    BY DEF FailsStay
  <1>3. m \in Installed(setup.broken)
    BY <1>1, <1>2 DEF Installed
  <1>4. QED
    BY <1>2, <1>3 DEF Inventory

LEMMA InventoryNext ==
    ASSUME Types, Inventory, OnTop, Lists, Next
    PROVE  Inventory'
  <1> DEFINE n == Len(inst.stack)
             broken == setup.broken
  <1>1. /\ setup' = setup /\ inst \in Instance /\ inst' \in Instance
        /\ n \in Nat
    BY SameSetup, TypesNext, InstanceFields DEF Types
  <1>2. ASSUME Unloaded, promise'.off \subseteq promise.off, life' = "down" \/ life # "down"
        PROVE  Inventory'
    BY <1>1, <1>2 DEF Inventory, Unloaded
  <1>3. CASE Load
    <2>1. /\ FailsStay
          /\ \A m \in inst.avail \ inst'.avail : m = Top.method /\ m \in Fails(broken)
      BY <1>3, LoadStep
    <2>2. life # "down" /\ inst.stack # <<>> /\ Top.at = "load" /\ promise' = promise
      BY <1>3 DEF Load, At
    <2>3. n \in Nat \ {0} /\ Top = inst.stack[n]
      BY <1>1, <2>2, StackFacts DEF Top
    <2>4. Top.method \notin promise.off
      BY <2>2, <2>3 DEF OnTop
    <2>5. inst'.avail \subseteq inst.avail
      BY <1>1, <2>1, <2>2, AvailShrinks
    <2>6. \A m \in Fails(broken) : inst'.loaded[m] = 0
      BY <2>1 DEF FailsStay, Inventory
    <2>7. /\ inst'.avail \subseteq Installed(broken)
          /\ Installed(broken) \ inst'.avail \subseteq Fails(broken)
          /\ promise.off \subseteq inst'.avail
      BY <2>1, <2>2, <2>4, <2>5 DEF Inventory
    <2>8. QED
      BY <1>1, <2>2, <2>6, <2>7 DEF Inventory
  <1>4. CASE InitIM
    <2>1. FailsStay /\ inst.avail \subseteq inst'.avail
      BY <1>4, InitIMStep
    <2>2. life # "down" /\ promise' = promise
      BY <1>4 DEF InitIM, At
    <2>3. inst'.avail = inst.avail
      BY <1>1, <2>1, <2>2, AvailShrinks
    <2>4. \A m \in Fails(broken) : inst'.loaded[m] = 0
      BY <2>1 DEF FailsStay, Inventory
    <2>5. QED
      BY <1>1, <2>2, <2>3, <2>4 DEF Inventory
  <1>5. CASE Reload \/ Clear \/ AddListed \/ AddUnlisted \/ OpenProfile
    <2>1. Unloaded
      BY <1>5, ReloadStep, ClearStep, AddListedStep, AddUnlistedStep, OpenProfileStep
    <2>2. life # "down"
      BY <1>5 DEF Reload, Clear, AddListed, AddUnlisted, OpenProfile, At
    <2>3. promise'.off = promise.off
      BY <1>5 DEF Reload, Clear, AddListed, AddUnlisted, OpenProfile, Types, Promise
    <2>4. QED
      BY <1>2, <2>1, <2>2, <2>3
  <1>6. CASE Boot \/ WriteProfile \/ Booted
    <2>1. Unloaded
      BY <1>6, BootStep, ReturnStep
    <2>2. life # "down" /\ promise' = promise
      BY <1>6 DEF Boot, WriteProfile, Booted, At
    <2>3. QED
      BY <1>2, <2>1, <2>2
  <1>7. CASE \/ \E index \in {-2, -1} \union (0 .. Len(inst.imes) - 1) : SwitchTo(index)
             \/ TurnInactive \/ TurnActive
    <2>1. Unloaded
      BY <1>7, SelectStep
    <2>2. life # "down"
      BY <1>7 DEF SwitchTo, TurnInactive, TurnActive, Call, AtRest
    <2>3. promise'.off = promise.off
      BY <1>7 DEF SwitchTo, TurnInactive, TurnActive, Types, Promise
    <2>4. QED
      BY <1>2, <2>1, <2>2, <2>3
  <1>8. CASE \E list \in SettableLists : SetIMList(list)
    <2>1. Unloaded
      BY <1>8, ProfileStep
    <2>2. life # "down"
      BY <1>8 DEF SetIMList, Call, AtRest
    <2>3. promise'.off \subseteq inst.avail
      <3>1. PICK list \in SettableLists : SetIMList(list)
        BY <1>8
      <3> DEFINE on == NamesOf(TurnedOn(list))
                 off == NamesOf(Turned(list, FALSE))
      <3>2. promise' = [on |-> on, off |-> inst.avail \intersect off,
                        current |-> NoMethod, lost |-> FALSE]
        BY <3>1 DEF SetIMList
      <3> HIDE DEF on, off
      <3>3. QED
        BY <3>2
    <2>4. QED
      BY <1>1, <2>1, <2>2, <2>3 DEF Inventory, Unloaded
  <1>9. CASE ReloadConfig
    <2>1. Unloaded
      BY <1>9, ProfileStep
    <2>2. life # "down"
      BY <1>9 DEF ReloadConfig, Call, AtRest
    <2>3. promise'.off = promise.off
      BY <1>9 DEF ReloadConfig, Types, Promise
    <2>4. QED
      BY <1>2, <2>1, <2>2, <2>3
  <1>10. CASE Start
    <2>1. /\ inst'.avail = Installed(broken)
          /\ \A m \in Fails(broken) : inst'.loaded[m] = 0
      BY <1>10, StartStep
    <2>2. life = "down"
      BY <1>10 DEF Start
    <2>3. promise'.off = promise.off
      BY <1>10 DEF Start, Types, Promise
    <2>4. promise.off \subseteq Installed(broken)
      BY <2>2 DEF Lists, Keeps
    <2>5. QED
      BY <1>1, <2>1, <2>3, <2>4 DEF Inventory
  <1>11. CASE Terminate \/ Hangup
    <2>1. Unloaded
      BY <1>11, SignalStep
    <2>2. life # "down"
      BY <1>11 DEF Terminate, Hangup
    <2>3. promise'.off \subseteq promise.off
      BY <1>11, SignalPromise
    <2>4. QED
      BY <1>2, <2>1, <2>2, <2>3
  <1>12. CASE Kill
    <2>1. Unloaded /\ life' = "down"
      BY <1>12 DEF Kill, Unloaded
    <2>2. promise'.off \subseteq promise.off
      BY <1>12, KillPromise
    <2>3. QED
      BY <1>2, <2>1, <2>2
  <1>13. QED
    BY <1>3, <1>4, <1>5, <1>6, <1>7, <1>8, <1>9, <1>10, <1>11, <1>12 DEF Next, Step, Outside

\* The calls that wait do nothing that only the one on top does.
LEMMA WaitOnTop ==
    ASSUME Types, OnTop, inst.stack # <<>>, NEW k \in 0 .. Len(inst.stack) - 1, Wait(k)
    PROVE  \A i \in 1 .. k : inst'.stack[i].at \notin Listing \union {"load"}
  <1>1. inst \in Instance /\ Len(inst.stack) \in Nat \ {0}
    BY StackFacts DEF Types
  <1>2. QED
    BY <1>1 DEF OnTop, Wait

\* The place of the call that a return or the end of Init gets back to.
LEMMA Revealed ==
    ASSUME Types, OnTop, inst.stack # <<>>, Wait(Len(inst.stack) - 1),
           Len(inst'.stack) = Len(inst.stack) - 1, inst' \in Instance
    PROVE  PlaceOf(inst') \notin Listing \union {"load"}
  <1> DEFINE k == Len(inst.stack) - 1
  <1>1. inst \in Instance /\ Len(inst.stack) \in Nat \ {0}
    BY StackFacts DEF Types
  <1>2. \A i \in 1 .. k : inst'.stack[i].at \notin Listing \union {"load"}
    BY <1>1, WaitOnTop
  <1>3. CASE inst'.stack = <<>>
    BY <1>3 DEF PlaceOf, Listing
  <1>4. CASE inst'.stack # <<>> /\ k = 0
    <2>1. inst'.stack \in Seq(Frames) /\ Len(inst'.stack) = 0
      BY <1>4, InstanceFields
    <2>2. QED
      BY <1>4, <2>1
  <1>5. CASE inst'.stack # <<>> /\ k # 0
    <2>1. k \in 1 .. k /\ PlaceOf(inst') = inst'.stack[k].at
      BY <1>1, <1>5 DEF PlaceOf
    <2>2. QED
      BY <1>2, <2>1
  <1>6. QED
    BY <1>3, <1>4, <1>5

LEMMA AddedNext ==
    ASSUME Types, Inventory, Lists, Enabled, AddUnlisted
    PROVE  Honoured(inst', promise') /\ NamesOf(inst'.imes) \subseteq inst'.avail
  <1>1. /\ life # "down" /\ inst.stack # <<>> /\ PlaceOf(inst) = "unlisted"
        /\ ListOnTop(inst) = Top.list /\ promise' = promise
    BY DEF AddUnlisted, At, PlaceOf, ListOnTop, Top
  <1>2. /\ Unloaded /\ inst'.imes = inst.imes \o Unlisted(Top.list)
        /\ Top.list \in Seq(Entries)
    BY AddUnlistedStep
  <1>3. Keeps(setup.broken, promise, Top.list)
    BY <1>1 DEF Lists, Passes
  <1>4. NamesOf(inst.imes) = inst.avail \intersect On(Top.list)
    BY <1>1 DEF Enabled
  <1>5. /\ \A m \in promise.on :
             m \in inst.avail => m \in NamesOf(inst.imes \o Unlisted(Top.list))
        /\ \A m \in promise.off : m \notin NamesOf(inst.imes \o Unlisted(Top.list))
        /\ NamesOf(inst.imes \o Unlisted(Top.list)) \subseteq inst.avail
    BY <1>1, <1>2, <1>3, <1>4, AddedHonours
  <1>6. QED
    BY <1>1, <1>2, <1>5 DEF Honoured, Unloaded

LEMMA OnTopNext ==
    ASSUME Types, Inventory, Lists, OnTop, Enabled, Next
    PROVE  OnTop'
  <1> DEFINE n == Len(inst.stack)
             k == Len(inst'.stack)
             OK(i) == /\ inst'.stack[i].at \in Listing \union {"load"} => i = k
                      /\ inst'.stack[i].at = "load" => inst'.stack[i].method \notin promise'.off
  <1>1. /\ inst \in Instance /\ inst' \in Instance /\ n \in Nat /\ k \in Nat
    BY TypesNext, InstanceFields DEF Types
  <1>2. ASSUME inst.stack # <<>>
        PROVE  n \in Nat \ {0}
    BY <1>1, <1>2, StackFacts
  <1>3. ASSUME inst.stack # <<>>, Wait(n - 1), NEW i \in 1 .. n - 1
        PROVE  OK(i)
    <2>1. n - 1 \in 0 .. n - 1
      BY <1>2, <1>3
    <2>2. inst'.stack[i].at \notin Listing \union {"load"}
      BY <1>3, <2>1, WaitOnTop
    <2>3. QED
      BY <2>2
  <1>4. ASSUME k > 0, inst'.stack[k].at # "load"
        PROVE  OK(k)
    BY <1>4
  <1>5. ASSUME NEW i, inst'.stack[i].at \in {"reload", "init", "save", "write", "boot", "booted"}
        PROVE  OK(i)
    BY <1>5 DEF Listing
  <1>6. ASSUME k > 0, Called(k), inst'.imes = inst.imes, life # "down",
               PlaceOf(inst) \notin Listing, promise'.off = promise.off
        PROVE  OK(k)
    <2>1. \A m \in promise'.off : m \notin NamesOf(inst'.imes)
      BY <1>6 DEF Enabled, Honoured
    <2>2. QED
      BY <2>1, <1>6 DEF Called
  <1>7. (\A i \in 1 .. k : OK(i)) => OnTop'
    BY DEF OnTop
  <1> HIDE DEF OK
  <1>8. CASE Load
    <2>1. k = n + 1 /\ Wait(n - 1) /\ Now(n, "reload") /\ inst'.stack[n + 1].at = "clear"
      BY <1>8, LoadStep
    <2>2. inst.stack # <<>>
      BY <1>8 DEF Load, At
    <2>3. OK(n)
      BY <1>5, <2>1 DEF Now
    <2>4. OK(n + 1)
      BY <1>1, <1>4, <2>1
    <2>5. QED
      BY <1>1, <1>2, <1>3, <1>7, <2>1, <2>2, <2>3, <2>4
  <1>9. CASE Reload \/ OpenProfile \/ Clear \/ AddListed
    <2>1. /\ k = n /\ Wait(n - 1)
          /\ inst'.stack[n].at \in {"init", "write", "listed", "unlisted"}
      BY <1>9, ReloadStep, OpenProfileStep, ClearStep, AddListedStep DEF Now
    <2>2. inst.stack # <<>>
      BY <1>9 DEF Reload, OpenProfile, Clear, AddListed, At
    <2>3. OK(n)
      BY <1>2, <1>4, <2>1, <2>2
    <2>4. QED
      BY <1>1, <1>2, <1>3, <1>7, <2>1, <2>2, <2>3
  <1>10. CASE InitIM
    <2>1. /\ Wait(n - 1)
          /\ (k = n /\ Now(n, "save")) \/ k = n - 1
      BY <1>10, InitIMStep
    <2>2. inst.stack # <<>>
      BY <1>10 DEF InitIM, At
    <2>3. Now(n, "save") => OK(n)
      BY <1>5 DEF Now
    <2>4. QED
      BY <1>1, <1>2, <1>3, <1>7, <2>1, <2>2, <2>3
  <1>11. CASE WriteProfile \/ Booted
    <2>1. k = n - 1 /\ Wait(n - 1)
      BY <1>11, ReturnStep
    <2>2. inst.stack # <<>>
      BY <1>11 DEF WriteProfile, Booted, At
    <2>3. QED
      BY <1>3, <1>7, <2>1, <2>2
  <1>12. CASE Boot
    <2>1. /\ k = n + 1 /\ Wait(n - 1) /\ Now(n, "booted") /\ Called(n + 1)
          /\ inst'.imes = inst.imes
      BY <1>12, BootStep
    <2>2. /\ inst.stack # <<>> /\ PlaceOf(inst) = "boot" /\ life # "down" /\ promise' = promise
      BY <1>12 DEF Boot, At, PlaceOf, Top
    <2>3. OK(n)
      BY <1>5, <2>1 DEF Now
    <2>4. OK(n + 1)
      BY <1>1, <1>6, <2>1, <2>2 DEF Listing
    <2>5. QED
      BY <1>1, <1>2, <1>3, <1>7, <2>1, <2>2, <2>3, <2>4
  <1>13. CASE \/ \E index \in {-2, -1} \union (0 .. Len(inst.imes) - 1) : SwitchTo(index)
              \/ TurnInactive \/ TurnActive
    <2>1. k = 1 /\ Called(1) /\ inst'.imes = inst.imes /\ inst.stack = <<>>
      BY <1>13, SelectStep
    <2>2. life # "down"
      BY <1>13 DEF SwitchTo, TurnInactive, TurnActive, Call, AtRest
    <2>3. promise'.off = promise.off
      BY <1>13 DEF SwitchTo, TurnInactive, TurnActive, Types, Promise
    <2>4. PlaceOf(inst) \notin Listing
      BY <2>1 DEF PlaceOf, Listing
    <2>5. OK(1)
      BY <1>6, <2>1, <2>2, <2>3, <2>4
    <2>6. QED
      BY <1>7, <2>1, <2>5
  <1>14. CASE (\E list \in SettableLists : SetIMList(list)) \/ ReloadConfig
    <2>1. k = 1 /\ inst'.stack[1].at = "clear"
      BY <1>14, ProfileStep DEF Starts
    <2>2. QED
      BY <1>4, <1>7, <2>1
  <1>15. CASE Start
    <2>1. k = 2 /\ inst'.stack[2].at = "clear" /\ inst'.stack[1].at = "boot"
      BY <1>15, StartStep DEF Starts
    <2>2. OK(1) /\ OK(2)
      BY <1>4, <1>5, <2>1
    <2>3. QED
      BY <1>7, <2>1, <2>2
  <1>16. CASE Terminate \/ Hangup \/ Kill
    <2>1. inst'.stack = inst.stack
      BY <1>16, SignalStep DEF Kill
    <2>2. promise'.off \subseteq promise.off
      BY <1>16, SignalPromise, KillPromise
    <2>3. QED
      BY <2>1, <2>2 DEF OnTop
  <1>17. CASE AddUnlisted
    <2>1. /\ k = n + 1 /\ Wait(n - 1) /\ Now(n, "save") /\ Called(n + 1)
      BY <1>17, AddUnlistedStep
    <2>2. inst.stack # <<>>
      BY <1>17 DEF AddUnlisted, At
    <2>3. OK(n)
      BY <1>5, <2>1 DEF Now
    <2>4. Honoured(inst', promise')
      BY <1>17, AddedNext
    <2>5. OK(n + 1)
      BY <1>1, <2>1, <2>4 DEF Called, Honoured, OK, Listing
    <2>6. QED
      BY <1>1, <1>2, <1>3, <1>7, <2>1, <2>2, <2>3, <2>5
  <1>18. QED
    BY <1>8, <1>9, <1>10, <1>11, <1>12, <1>13, <1>14, <1>15, <1>16, <1>17
       DEF Next, Step, Outside

\* A step that touches neither the entries nor the profile.
LEMMA QuietNext ==
    ASSUME Lists, Enabled, life # "down", life' = life, setup' = setup,
           inst'.avail = inst.avail, inst'.imes = inst.imes, inst'.profile = inst.profile,
           promise'.on = promise.on, promise'.off = promise.off,
           PlaceOf(inst) \notin Listing, PlaceOf(inst') \notin Listing
    PROVE  Lists' /\ Enabled'
  <1>1. Honoured(inst', promise') /\ NamesOf(inst'.imes) \subseteq inst'.avail
    BY DEF Enabled, Honoured, Listing
  <1>2. Passes(setup.broken, life, inst', promise', inst'.profile.imList)
    BY DEF Lists, Passes, Keeps, TurnsOn
  <1>3. QED
    BY <1>1, <1>2 DEF Lists, Enabled, Listing

\* Between two calls the file has the list of the profile.
LEMMA RestSaved ==
    ASSUME Saving, AtRest
    PROVE  disk.imList = inst.profile.imList /\ Agrees(inst, inst.profile.imList)
  <1>1. ~Unsaved(inst)
    BY DEF AtRest, Unsaved
  <1>2. QED
    BY <1>1 DEF Saving, AtRest

\* The entries that a signal saves are as the client asked for, unless the
\* list is just being taken over.
LEMMA SignalHonours ==
    ASSUME Types, Lists, Enabled, life = "up", PlaceOf(inst) \notin {"clear", "listed"}
    PROVE  Honoured(inst, promise) /\ NamesOf(inst.imes) \subseteq inst.avail
  <1>1. NamesOf(inst.imes) \subseteq inst.avail
    BY DEF Enabled
  <1>2. CASE PlaceOf(inst) = "unlisted"
    <2>1. NamesOf(inst.imes) = inst.avail \intersect On(ListOnTop(inst))
      BY <1>2 DEF Enabled
    <2>2. /\ Keeps(setup.broken, promise, ListOnTop(inst))
          /\ TurnsOn(inst, promise, ListOnTop(inst))
      BY <1>2 DEF Lists, Passes
    <2>3. QED
      BY <1>1, <2>1, <2>2 DEF Honoured, Keeps, TurnsOn
  <1>3. CASE PlaceOf(inst) \notin Listing
    BY <1>1, <1>3 DEF Enabled
  <1>4. QED
    BY <1>2, <1>3 DEF Listing

LEMMA NothingAsked ==
    ASSUME NEW p, p.on = {}, p.off = {}
    PROVE  /\ \A broken, list : Keeps(broken, p, list)
           /\ \A s, list : TurnsOn(s, p, list)
           /\ \A s : Honoured(s, p)
  BY DEF Keeps, TurnsOn, Honoured

LEMMA ListingNext ==
    ASSUME Types, Inventory, Lists, Enabled, Load \/ Clear \/ AddListed
    PROVE  Lists' /\ Enabled'
  <1> DEFINE n == Len(inst.stack)
             k == Len(inst'.stack)
  <1>1. /\ inst \in Instance /\ life # "down" /\ inst.stack # <<>>
        /\ promise' = promise /\ life' = life /\ setup' = setup
    BY DEF Types, Load, Clear, AddListed, At
  <1>2. n \in Nat \ {0} /\ Top = inst.stack[n] /\ PlaceOf(inst) = Top.at
        /\ ListOnTop(inst) = Top.list
    BY <1>1, StackFacts DEF Top, PlaceOf, ListOnTop
  <1>3. ASSUME inst' \in Instance, k > 0
        PROVE  PlaceOf(inst') = inst'.stack[k].at /\ ListOnTop(inst') = inst'.stack[k].list
    BY <1>3 DEF PlaceOf, ListOnTop
  <1>4. ASSUME inst'.profile = inst.profile, inst'.avail \subseteq inst.avail
        PROVE  Passes(setup.broken, life, inst', promise, inst'.profile.imList)
    BY <1>1, <1>4 DEF Lists, Passes, TurnsOn
  <1>5. CASE Load
    <2>1. /\ inst' \in Instance /\ FailsStay /\ inst'.profile = inst.profile
          /\ k = n + 1 /\ inst'.stack[n + 1].at = "clear"
      BY <1>5, LoadStep
    <2>2. inst'.avail \subseteq inst.avail
      BY <1>1, <2>1, AvailShrinks
    <2>3. PlaceOf(inst') = "clear"
      BY <1>2, <1>3, <2>1
    <2>4. QED
      BY <1>1, <1>4, <2>1, <2>2, <2>3 DEF Lists, Enabled, Listing
  <1>6. CASE Clear
    <2>1. /\ inst' \in Instance /\ Unloaded /\ inst'.profile = inst.profile
          /\ inst'.imes = <<>> /\ k = n
          /\ inst'.stack[n].at = "listed" /\ inst'.stack[n].list = inst.profile.imList
      BY <1>6, ClearStep
    <2>2. PlaceOf(inst') = "listed" /\ ListOnTop(inst') = inst.profile.imList
      BY <1>2, <1>3, <2>1
    <2>3. NamesOf(inst'.imes) = {}
      BY <2>1 DEF NamesOf
    <2>4. Passes(setup.broken, life, inst', promise, inst.profile.imList)
      BY <1>4, <2>1 DEF Unloaded
    <2>5. QED
      BY <1>1, <2>1, <2>2, <2>3, <2>4 DEF Lists, Enabled, Listing
  <1>7. CASE AddListed
    <2>1. /\ inst' \in Instance /\ Unloaded /\ inst'.profile = inst.profile
          /\ inst'.imes = Listed(Top.list) /\ Top.list \in Seq(Entries)
          /\ k = n /\ Now(n, "unlisted")
      BY <1>7, AddListedStep
    <2>2. PlaceOf(inst') = "unlisted" /\ ListOnTop(inst') = Top.list
      BY <1>2, <1>3, <2>1 DEF Now
    <2>3. NamesOf(inst'.imes) = inst'.avail \intersect On(Top.list)
      BY <1>1, <2>1, ListedFacts DEF On, Unloaded
    <2>4. PlaceOf(inst) = "listed"
      BY <1>2, <1>7 DEF AddListed, At
    <2>5. Passes(setup.broken, life, inst, promise, Top.list)
      BY <1>1, <1>2, <2>4 DEF Lists
    <2>6. Passes(setup.broken, life, inst', promise, Top.list)
      BY <2>1, <2>5 DEF Passes, TurnsOn, Unloaded
    <2>7. Passes(setup.broken, life, inst', promise, inst'.profile.imList)
      BY <1>4, <2>1 DEF Unloaded
    <2>8. Lists'
      BY <1>1, <2>2, <2>6, <2>7 DEF Lists
    <2>9. Enabled'
      BY <2>2, <2>3 DEF Enabled, Listing
    <2>10. QED
      BY <2>8, <2>9
  <1>8. QED
    BY <1>5, <1>6, <1>7

LEMMA SavedNext ==
    ASSUME Types, Inventory, Lists, Enabled, AddUnlisted \/ OpenProfile
    PROVE  Lists' /\ Enabled'
  <1> DEFINE n == Len(inst.stack)
             k == Len(inst'.stack)
  <1>1. /\ inst \in Instance /\ life # "down" /\ inst.stack # <<>>
        /\ promise' = promise /\ life' = life /\ setup' = setup
    BY DEF Types, AddUnlisted, OpenProfile, At
  <1>2. n \in Nat \ {0}
    BY <1>1, StackFacts
  <1>3. ASSUME inst' \in Instance, k > 0
        PROVE  PlaceOf(inst') = inst'.stack[k].at
    BY <1>3 DEF PlaceOf
  <1>4. CASE AddUnlisted
    <2>1. /\ inst' \in Instance /\ Unloaded /\ inst'.profile = inst.profile
          /\ k = n + 1 /\ Called(n + 1)
      BY <1>4, AddUnlistedStep
    <2>2. PlaceOf(inst') \in {"load", "init"}
      BY <1>2, <1>3, <2>1 DEF Called
    <2>3. Honoured(inst', promise') /\ NamesOf(inst'.imes) \subseteq inst'.avail
      BY <1>4, AddedNext
    <2>4. Passes(setup.broken, life, inst, promise, inst.profile.imList)
      BY <1>1 DEF Lists
    <2>5. Passes(setup.broken, life, inst', promise, inst'.profile.imList)
      BY <2>1, <2>4 DEF Passes, TurnsOn, Unloaded
    <2>6. QED
      BY <1>1, <2>2, <2>3, <2>5 DEF Lists, Enabled
  <1>5. CASE OpenProfile
    <2>1. /\ inst' \in Instance /\ Unloaded /\ inst'.imes = inst.imes
          /\ inst'.profile = Synced /\ k = n /\ Now(n, "write")
      BY <1>5, OpenProfileStep
    <2>2. PlaceOf(inst') = "write"
      BY <1>2, <1>3, <2>1 DEF Now
    <2>3. PlaceOf(inst) = "save"
      BY <1>1, <1>5 DEF OpenProfile, At, PlaceOf, Top
    <2>4. Honoured(inst, promise) /\ NamesOf(inst.imes) \subseteq inst.avail
      BY <1>1, <2>3 DEF Enabled, Listing
    <2>5. /\ Keeps(setup.broken, promise, Synced.imList)
          /\ TurnsOn(inst, promise, Synced.imList)
      BY <1>1, <2>4, SyncedKeeps
    <2>6. Passes(setup.broken, life, inst', promise, inst'.profile.imList)
      BY <2>1, <2>5 DEF Passes, TurnsOn, Unloaded
    <2>7. Honoured(inst', promise') /\ NamesOf(inst'.imes) \subseteq inst'.avail
      BY <1>1, <2>1, <2>4 DEF Honoured, Unloaded
    <2>8. QED
      BY <1>1, <2>2, <2>6, <2>7 DEF Lists, Enabled
  <1>6. QED
    BY <1>4, <1>5

LEMMA CallsNext ==
    ASSUME Types, Inventory, Lists, OnTop, Enabled,
           \/ Reload \/ InitIM \/ Boot \/ WriteProfile
           \/ \E index \in {-2, -1} \union (0 .. Len(inst.imes) - 1) : SwitchTo(index)
           \/ TurnInactive \/ TurnActive,
           Next
    PROVE  Lists' /\ Enabled'
  <1> DEFINE n == Len(inst.stack)
             k == Len(inst'.stack)
  <1>1. /\ inst \in Instance /\ inst' \in Instance /\ setup' = setup
        /\ n \in Nat /\ k \in Nat
    BY TypesNext, SameSetup, InstanceFields DEF Types
  <1>2. promise'.on = promise.on /\ promise'.off = promise.off
    <2>1. CASE Reload \/ InitIM \/ Boot \/ WriteProfile
      BY <2>1 DEF Reload, InitIM, Boot, WriteProfile, Types, Promise
    <2>2. CASE \/ \E index \in {-2, -1} \union (0 .. Len(inst.imes) - 1) : SwitchTo(index)
               \/ TurnInactive \/ TurnActive
      BY <2>2 DEF SwitchTo, TurnInactive, TurnActive, Types, Promise
    <2>3. QED
      BY <2>1, <2>2
  <1>3. ASSUME inst.stack # <<>>
        PROVE  n \in Nat \ {0} /\ PlaceOf(inst) = Top.at
    BY <1>1, <1>3, StackFacts DEF PlaceOf, Top
  <1>4. ASSUME k > 0
        PROVE  PlaceOf(inst') = inst'.stack[k].at
    BY <1>1, <1>4 DEF PlaceOf
  <1>5. CASE Reload
    <2>1. /\ Unloaded /\ inst'.imes = inst.imes /\ inst'.profile = inst.profile
          /\ k = n /\ Now(n, "init")
      BY <1>5, ReloadStep
    <2>2. inst.stack # <<>> /\ Top.at = "reload" /\ life # "down" /\ life' = life
      BY <1>5 DEF Reload, At
    <2>3. PlaceOf(inst) = "reload" /\ PlaceOf(inst') = "init"
      BY <1>3, <1>4, <2>1, <2>2 DEF Now
    <2>4. QED
      BY <1>1, <1>2, <2>1, <2>2, <2>3, QuietNext DEF Unloaded, Listing
  <1>6. CASE InitIM
    <2>1. /\ FailsStay /\ inst.avail \subseteq inst'.avail
          /\ inst'.imes = inst.imes /\ inst'.profile = inst.profile /\ Wait(n - 1)
          /\ (k = n /\ Now(n, "save")) \/ k = n - 1
      BY <1>6, InitIMStep
    <2>2. inst.stack # <<>> /\ Top.at = "init" /\ life # "down" /\ life' = life
      BY <1>6 DEF InitIM, At
    <2>3. PlaceOf(inst) = "init"
      BY <1>3, <2>2
    <2>4. inst'.avail = inst.avail
      BY <1>1, <2>1, <2>2, AvailShrinks
    <2>5. PlaceOf(inst') \notin Listing
      <3>1. CASE k = n /\ Now(n, "save")
        BY <1>3, <1>4, <2>2, <3>1 DEF Now, Listing
      <3>2. CASE k = n - 1
        BY <1>1, <2>1, <2>2, <3>2, Revealed
      <3>3. QED
        BY <2>1, <3>1, <3>2
    <2>6. QED
      BY <1>1, <1>2, <2>1, <2>2, <2>3, <2>4, <2>5, QuietNext DEF Listing
  <1>7. CASE Boot
    <2>1. /\ Unloaded /\ inst'.imes = inst.imes /\ inst'.profile = inst.profile
          /\ k = n + 1 /\ Called(n + 1)
      BY <1>7, BootStep
    <2>2. inst.stack # <<>> /\ Top.at = "boot" /\ life # "down" /\ life' = life
      BY <1>7 DEF Boot, At
    <2>3. PlaceOf(inst) = "boot" /\ PlaceOf(inst') \in {"load", "init"}
      BY <1>3, <1>4, <2>1, <2>2 DEF Called
    <2>4. QED
      BY <1>1, <1>2, <2>1, <2>2, <2>3, QuietNext DEF Unloaded, Listing
  <1>8. CASE WriteProfile
    <2>1. /\ Unloaded /\ inst'.imes = inst.imes /\ inst'.profile = inst.profile
          /\ k = n - 1 /\ Wait(n - 1)
      BY <1>8, ReturnStep
    <2>2. inst.stack # <<>> /\ Top.at = "write" /\ life # "down" /\ life' = life
      BY <1>8 DEF WriteProfile, At
    <2>3. PlaceOf(inst) = "write"
      BY <1>3, <2>2
    <2>4. PlaceOf(inst') \notin Listing
      BY <1>1, <2>1, <2>2, Revealed
    <2>5. QED
      BY <1>1, <1>2, <2>1, <2>2, <2>3, <2>4, QuietNext DEF Unloaded, Listing
  <1>9. CASE \/ \E index \in {-2, -1} \union (0 .. Len(inst.imes) - 1) : SwitchTo(index)
             \/ TurnInactive \/ TurnActive
    <2>1. /\ Unloaded /\ inst'.imes = inst.imes /\ inst'.profile = inst.profile
          /\ k = 1 /\ Called(1) /\ inst.stack = <<>>
      BY <1>9, SelectStep
    <2>2. life # "down" /\ life' = life
      BY <1>9 DEF SwitchTo, TurnInactive, TurnActive, Call, AtRest
    <2>3. PlaceOf(inst) = "rest" /\ PlaceOf(inst') \in {"load", "init"}
      BY <1>4, <2>1 DEF PlaceOf, Called
    <2>4. QED
      BY <1>1, <1>2, <2>1, <2>2, <2>3, QuietNext DEF Unloaded, Listing
  <1>10. QED
    BY <1>5, <1>6, <1>7, <1>8, <1>9

\* FcitxInstanceCreate has saved the list it made.
LEMMA BootedNext ==
    ASSUME Types, Distinct, Saving, Lists, OnTop, Enabled, Booted, Next
    PROVE  Lists' /\ Enabled'
  <1> DEFINE n == Len(inst.stack)
  <1>1. /\ inst \in Instance /\ inst' \in Instance /\ setup' = setup
        /\ inst.stack # <<>> /\ Top.at = "booted" /\ life # "down" /\ life' = "up"
        /\ promise' = promise
    BY TypesNext, SameSetup DEF Types, Booted, At
  <1>2. n \in Nat \ {0} /\ Top = inst.stack[n] /\ PlaceOf(inst) = "booted"
    BY <1>1, StackFacts DEF Top, PlaceOf
  <1>3. /\ Unloaded /\ inst'.imes = inst.imes /\ inst'.profile = inst.profile
        /\ Len(inst'.stack) = n - 1 /\ Wait(n - 1)
    BY ReturnStep
  <1>4. PlaceOf(inst') \notin Listing
    BY <1>1, <1>3, Revealed
  <1>5. Honoured(inst, promise) /\ NamesOf(inst.imes) \subseteq inst.avail
    BY <1>1, <1>2 DEF Enabled, Listing
  <1>6. ~Unsaved(inst)
    <2>1. ~(n > 1)
      BY <1>1, <1>2 DEF Distinct, FrameOK
    <2>2. \A x \in Nat \ {0} : x > 1 \/ x = 1
      OBVIOUS
    <2>3. n = 1
      BY <1>2, <2>1, <2>2
    <2>4. QED
      BY <1>1, <1>2, <2>3 DEF Unsaved
  <1>7. On(inst.profile.imList) = NamesOf(inst.imes)
    <2>1. Agrees(inst, inst.profile.imList)
      BY <1>1, <1>6 DEF Saving
    <2>2. QED
      BY <2>1 DEF Agrees, On, NamesOf
  <1>8. TurnsOn(inst, promise, inst.profile.imList)
    BY <1>5, <1>7 DEF TurnsOn, Honoured
  <1>9. Keeps(setup.broken, promise, inst.profile.imList)
    BY <1>1 DEF Lists, Passes
  <1>10. Passes(setup.broken, life', inst', promise', inst'.profile.imList)
    BY <1>1, <1>3, <1>8, <1>9 DEF Passes, TurnsOn, Unloaded
  <1>11. Honoured(inst', promise') /\ NamesOf(inst'.imes) \subseteq inst'.avail
    BY <1>1, <1>3, <1>5 DEF Honoured, Unloaded
  <1>12. QED
    BY <1>1, <1>4, <1>10, <1>11 DEF Lists, Enabled, Listing

LEMMA TakenOverNext ==
    ASSUME Types, Inventory, Saving, Lists, Enabled,
           (\E list \in SettableLists : SetIMList(list)) \/ ReloadConfig \/ Start, Next
    PROVE  Lists' /\ Enabled'
  <1> DEFINE k == Len(inst'.stack)
             Asked == Passes(setup.broken, life', inst', promise', inst'.profile.imList)
  <1>1. /\ inst \in Instance /\ inst' \in Instance /\ setup' = setup /\ k \in Nat
    BY TypesNext, SameSetup, InstanceFields DEF Types
  <1>2. k \in {1, 2} /\ inst'.stack[k].at = "clear"
    BY ProfileStep, StartStep DEF Starts
  <1>3. PlaceOf(inst') = "clear"
    BY <1>1, <1>2 DEF PlaceOf
  <1>4. life' # "down"
    BY DEF SetIMList, ReloadConfig, Start, Call, AtRest
  <1>5. Asked => Lists' /\ Enabled'
    BY <1>1, <1>3, <1>4 DEF Lists, Enabled, Listing
  <1>6. CASE \E list \in SettableLists : SetIMList(list)
    <2>1. PICK list \in SettableLists : SetIMList(list)
      BY <1>6
    <2>2. list \in Seq(Entries) /\ Once(list)
      BY ListsAssumption, ClientsAssumption, OnceFacts
    <2> DEFINE off == NamesOf(Turned(list, FALSE))
    <2>3. promise'.on = On(list) /\ promise'.off = inst.avail \intersect off
      <3> DEFINE on == On(list)
      <3>1. promise' = [on |-> on, off |-> inst.avail \intersect off,
                        current |-> NoMethod, lost |-> FALSE]
        BY <2>1 DEF SetIMList, On
      <3> HIDE DEF on, off
      <3>2. QED
        BY <3>1 DEF on
    <2>4. inst'.profile.imList = list
      <3>1. inst' = [inst EXCEPT !.profile.imList = list, !.stack = <<UpdateIMList>>]
        BY <2>1 DEF SetIMList
      <3>2. inst.profile \in Profiles
        BY <1>1, InstanceFields
      <3>3. QED
        BY <1>1, <3>1, <3>2 DEF Instance, Profiles
    <2>5. off \subseteq NamesOf(list) /\ On(list) \intersect off = {}
      BY <2>2, OnFacts
    <2>6. life # "down"
      BY <2>1 DEF SetIMList, Call, AtRest
    <2>7. inst.avail \subseteq Installed(setup.broken)
      BY <2>6 DEF Inventory
    <2> HIDE DEF off
    <2>8. Keeps(setup.broken, promise', list) /\ TurnsOn(inst', promise', list)
      BY <2>3, <2>5, <2>7 DEF Keeps, TurnsOn
    <2>9. QED
      BY <1>5, <2>4, <2>8 DEF Passes
  <1>7. CASE ReloadConfig
    <2>1. AtRest /\ life' = life /\ inst' = [inst EXCEPT !.profile = disk, !.stack = <<UpdateIMList>>]
      BY <1>7 DEF ReloadConfig, Call
    <2>2. inst'.profile = disk /\ inst'.avail = inst.avail
      BY <1>1, <2>1 DEF Instance
    <2>3. disk.imList = inst.profile.imList
      BY <2>1, RestSaved
    <2>4. promise'.on = promise.on /\ promise'.off = promise.off
      BY <1>7 DEF ReloadConfig, Types, Promise
    <2>5. Passes(setup.broken, life, inst, promise, inst.profile.imList)
      BY <2>1 DEF Lists, AtRest
    <2>6. QED
      BY <1>5, <2>1, <2>2, <2>3, <2>4, <2>5 DEF Passes, Keeps, TurnsOn
  <1>8. CASE Start
    <2>1. life = "down" /\ life' = "boot"
      BY <1>8 DEF Start
    <2>2. inst'.profile = disk
      BY <1>8, StartStep
    <2>3. promise'.on = promise.on /\ promise'.off = promise.off
      BY <1>8 DEF Start, Types, Promise
    <2>4. Keeps(setup.broken, promise, disk.imList)
      BY <2>1 DEF Lists
    <2>5. QED
      BY <1>5, <2>1, <2>2, <2>3, <2>4 DEF Passes, Keeps
  <1>9. QED
    BY <1>6, <1>7, <1>8

LEMMA EndedNext ==
    ASSUME Types, Inventory, Saving, Lists, Enabled, Terminate \/ Hangup \/ Kill, Next
    PROVE  Lists' /\ Enabled'
  <1>1. setup' = setup /\ life # "down" /\ life' \in {"down", "up"}
    BY SameSetup DEF Terminate, Hangup, Kill
  <1>2. CASE Terminate \/ Hangup
    <2>1. /\ Unloaded /\ inst'.imes = inst.imes /\ inst'.stack = inst.stack
          /\ inst'.profile = Synced /\ disk' = Synced
      BY <1>2, SignalStep
    <2>2. life = "up"
      BY <1>2 DEF Terminate, Hangup
    <2>3. PlaceOf(inst') = PlaceOf(inst) /\ ListOnTop(inst') = ListOnTop(inst)
      BY <2>1 DEF PlaceOf, ListOnTop
    <2>4. CASE promise'.on = {} /\ promise'.off = {}
      <3>1. /\ Keeps(setup.broken, promise', Synced.imList)
            /\ Passes(setup.broken, life', inst', promise', Synced.imList)
            /\ Passes(setup.broken, life', inst', promise', ListOnTop(inst'))
            /\ Honoured(inst', promise')
        BY <2>4, NothingAsked DEF Passes
      <3>2. Lists'
        BY <1>1, <2>1, <3>1 DEF Lists
      <3>3. Enabled'
        BY <2>1, <2>2, <2>3, <3>1 DEF Enabled, Unloaded
      <3>4. QED
        BY <3>2, <3>3
    <2>5. CASE /\ PlaceOf(inst) \notin {"clear", "listed"}
               /\ promise'.on = promise.on /\ promise'.off = promise.off
      <3>1. Honoured(inst, promise) /\ NamesOf(inst.imes) \subseteq inst.avail
        BY <2>2, <2>5, SignalHonours
      <3>2. /\ Keeps(setup.broken, promise, Synced.imList)
            /\ TurnsOn(inst, promise, Synced.imList)
        BY <2>2, <3>1, SyncedKeeps
      <3>3. /\ Keeps(setup.broken, promise', Synced.imList)
            /\ Passes(setup.broken, life', inst', promise', Synced.imList)
        BY <2>1, <2>5, <3>2 DEF Keeps, Passes, TurnsOn, Unloaded
      <3>4. PlaceOf(inst) \in {"listed", "unlisted"} =>
              Passes(setup.broken, life', inst', promise', ListOnTop(inst'))
        BY <2>1, <2>2, <2>3, <2>5 DEF Lists, Keeps, Passes, TurnsOn, Unloaded
      <3>5. Honoured(inst', promise')
        BY <2>1, <2>5, <3>1 DEF Honoured, Unloaded
      <3>6. Lists'
        BY <1>1, <2>1, <2>3, <3>3, <3>4 DEF Lists
      <3>7. Enabled'
        BY <2>1, <2>2, <2>3, <3>5 DEF Enabled, Unloaded
      <3>8. QED
        BY <3>6, <3>7
    <2>6. QED
      BY <1>2, <2>4, <2>5, SignalPromise
  <1>3. CASE Kill
    <2>1. life' = "down" /\ disk' = disk
      BY <1>3 DEF Kill
    <2>2. Keeps(setup.broken, promise', disk.imList)
      <3>1. CASE promise'.on = {} /\ promise'.off = {}
        BY <3>1, NothingAsked
      <3>2. CASE AtRest /\ promise'.on = promise.on /\ promise'.off = promise.off
        <4>1. disk.imList = inst.profile.imList
          BY <3>2, RestSaved
        <4>2. Keeps(setup.broken, promise, inst.profile.imList)
          BY <1>1 DEF Lists, Passes
        <4>3. QED
          BY <3>2, <4>1, <4>2 DEF Keeps
      <3>3. QED
        BY <1>3, <3>1, <3>2, KillPromise
    <2>3. QED
      BY <1>1, <2>1, <2>2 DEF Lists, Enabled
  <1>4. QED
    BY <1>2, <1>3

ChoiceInv == Types /\ Distinct /\ Saving /\ Inventory /\ OnTop /\ Lists /\ Enabled

LEMMA ChoiceInitNext ==
    /\ Init => ChoiceInv
    /\ ChoiceInv /\ [Next]_vars => ChoiceInv'
  <1>1. ASSUME Init
        PROVE  ChoiceInv
    <2>1. Types /\ Distinct /\ Saving
      BY <1>1, TypeInitNext, SavingInitNext DEF TypeInv
    <2>2. /\ inst.stack = <<>> /\ life = "down" /\ promise.on = {} /\ promise.off = {}
          /\ inst.loaded = [m \in Methods |-> 0]
      BY <1>1 DEF Init
    <2>3. Inventory
      BY <2>2 DEF Inventory, Fails
    <2>4. OnTop /\ Enabled
      BY <2>2 DEF OnTop, Enabled
    <2>5. Lists
      BY <2>2, NothingAsked DEF Lists
    <2>6. QED
      BY <2>1, <2>3, <2>4, <2>5 DEF ChoiceInv
  <1>2. ASSUME ChoiceInv, Next
        PROVE  ChoiceInv'
    <2>1. Types /\ Distinct /\ Saving /\ Inventory /\ OnTop /\ Lists /\ Enabled
      BY <1>2 DEF ChoiceInv
    <2>2. Types' /\ Saving' /\ Inventory' /\ OnTop'
      BY <1>2, <2>1, TypesNext, SavingNext, InventoryNext, OnTopNext
    <2>3. Distinct'
      BY <1>2, <2>1, OnceNext, FramesNext DEF Distinct, FrameOK
    <2>4. CASE Load \/ Clear \/ AddListed
      BY <2>1, <2>2, <2>3, <2>4, ListingNext DEF ChoiceInv
    <2>5. CASE AddUnlisted \/ OpenProfile
      BY <2>1, <2>2, <2>3, <2>5, SavedNext DEF ChoiceInv
    <2>6. CASE \/ Reload \/ InitIM \/ Boot \/ WriteProfile
               \/ \E index \in {-2, -1} \union (0 .. Len(inst.imes) - 1) : SwitchTo(index)
               \/ TurnInactive \/ TurnActive
      BY <1>2, <2>1, <2>2, <2>3, <2>6, CallsNext DEF ChoiceInv
    <2>7. CASE Booted
      BY <1>2, <2>1, <2>2, <2>3, <2>7, BootedNext DEF ChoiceInv
    <2>8. CASE (\E list \in SettableLists : SetIMList(list)) \/ ReloadConfig \/ Start
      BY <1>2, <2>1, <2>2, <2>3, <2>8, TakenOverNext DEF ChoiceInv
    <2>9. CASE Terminate \/ Hangup \/ Kill
      BY <1>2, <2>1, <2>2, <2>3, <2>9, EndedNext DEF ChoiceInv
    <2>10. QED
      BY <1>2, <2>4, <2>5, <2>6, <2>7, <2>8, <2>9 DEF Next, Step, Outside
  <1>3. ASSUME ChoiceInv, UNCHANGED vars
        PROVE  ChoiceInv'
    <2>1. inst' = inst /\ disk' = disk /\ life' = life /\ setup' = setup /\ promise' = promise
      BY <1>3 DEF vars
    <2>2. (Types /\ Distinct /\ Saving)'
      BY <1>3, TypeInitNext, SavingInitNext, <2>1
         DEF ChoiceInv, Types, Named, Distinct, FrameOK, Saving, Unsaved, Agrees, Top
    <2>3. (Inventory /\ OnTop /\ Lists /\ Enabled)'
      BY <1>3, <2>1 DEF ChoiceInv, Inventory, OnTop, Lists, Enabled
    <2>4. QED
      BY <2>2, <2>3 DEF ChoiceInv
  <1>4. QED
    BY <1>1, <1>2, <1>3

\* A method a client turned on is used whenever it is available, one it turned
\* off is not, however often the list was rebuilt since, whatever failed to load,
\* and whichever way the daemon ended and was started in between.
THEOREM ChoiceCorrect == Spec => []ChoiceKept
  <1>1. ASSUME ChoiceInv
        PROVE  ChoiceKept
    <2> SUFFICES ASSUME AtRest
                 PROVE  /\ promise.on \intersect inst.avail \subseteq NamesOf(inst.imes)
                        /\ promise.off \intersect NamesOf(inst.imes) = {}
      BY DEF ChoiceKept
    <2>1. life # "down" /\ PlaceOf(inst) \notin Listing
      BY DEF AtRest, PlaceOf, Listing
    <2>2. Honoured(inst, promise)
      BY <1>1, <2>1 DEF ChoiceInv, Enabled
    <2>3. QED
      BY <2>2 DEF Honoured
  <1>2. QED
    BY <1>1, ChoiceInitNext, PTL DEF Spec

-----------------------------------------------------------------------------
(* The method in use comes back with the daemon. *)

\* The entries start with the methods a list turns on.
Follows(s, list) ==
    /\ Len(TurnedOn(list)) <= Len(s.imes)
    /\ \A i \in 1 .. Len(TurnedOn(list)) : TurnedOn(list)[i].name = s.imes[i].name

\* From a start of the daemon up to the next call from outside.
Returning == life # "down" /\ (life = "boot" \/ promise.current # NoMethod)

\* The list of the profile alone is taken over then, and if all of its methods
\* are there the entries follow it.
Taken ==
    Returning =>
      /\ PlaceOf(inst) \in {"listed", "unlisted"} => ListOnTop(inst) = inst.profile.imList
      /\ On(inst.profile.imList) \subseteq inst.avail =>
           /\ PlaceOf(inst) = "unlisted" => Agrees(inst, inst.profile.imList)
           /\ PlaceOf(inst) \notin Listing => Follows(inst, inst.profile.imList)

LEMMA ListedAll ==
    ASSUME inst \in Instance, NEW list \in Seq(Entries), On(list) \subseteq inst.avail
    PROVE  /\ Len(TurnedOn(list)) = Len(Listed(list))
           /\ \A i \in 1 .. Len(Listed(list)) : TurnedOn(list)[i].name = Listed(list)[i].name
  <1> DEFINE on == TurnedOn(list)
             names == Names(on)
             none == <<>>
  <1>1. on \in Seq(Entries)
    BY TurnedFacts DEF TurnedOn
  <1>2. /\ names \in Seq(Methods) /\ Len(names) = Len(on)
        /\ \A i \in 1 .. Len(on) : names[i] = on[i].name
    BY <1>1, NamesFacts
  <1>3. \A i \in 1 .. Len(names) : names[i] \in inst.avail
    BY <1>2 DEF On, NamesOf
  <1> HIDE DEF on, names
  <1>4. names \o none = names /\ none \in Seq(Methods) /\ Len(none) = 0
    BY <1>2
  <1> HIDE DEF none
  <1>5. Kept(names \o none, inst.avail) = names
    <2>1. \A i \in 1 .. Len(none) : none[i] \notin inst.avail
      BY <1>4
    <2>2. \A on1, off1 \in Seq(Methods) :
            /\ \A i \in 1 .. Len(on1) : on1[i] \in inst.avail
            /\ \A i \in 1 .. Len(off1) : off1[i] \notin inst.avail
            => Kept(on1 \o off1, inst.avail) = on1
      BY KeptOfTwoParts
    <2>3. QED
      BY <1>2, <1>3, <1>4, <2>1, <2>2
  <1>6. Listed(list) = Copies(names)
    BY <1>4, <1>5 DEF Listed, names, on
  <1>7. /\ Len(Copies(names)) = Len(names)
        /\ \A i \in 1 .. Len(names) : Copies(names)[i].name = names[i]
    BY <1>2, CopiesFacts
  <1>8. QED
    BY <1>2, <1>6, <1>7 DEF on

LEMMA FollowsOn ==
    ASSUME NEW list \in Seq(Entries), NEW s \in Instance, Follows(s, list)
    PROVE  /\ On(list) \subseteq NamesOf(s.imes)
           /\ On(list) # {} =>
                Len(s.imes) > 0 /\ TurnedOn(list)[1].name = s.imes[1].name
  <1> DEFINE on == TurnedOn(list)
  <1>1. on \in Seq(Entries) /\ Len(on) \in Nat /\ s.imes \in Seq(IMs) /\ Len(s.imes) \in Nat
    <2>1. on \in Seq(Entries)
      BY TurnedFacts DEF TurnedOn
    <2>2. s.imes \in Seq(IMs)
      BY InstanceFields
    <2>3. QED
      BY <2>1, <2>2
  <1>2. Len(on) <= Len(s.imes) /\ \A i \in 1 .. Len(on) : on[i].name = s.imes[i].name
    BY DEF Follows
  <1>3. On(list) = {on[i].name : i \in 1 .. Len(on)}
    BY DEF On, NamesOf
  <1> HIDE DEF on
  <1>4. ASSUME NEW m \in On(list)
        PROVE  m \in NamesOf(s.imes) /\ Len(on) > 0
    <2>1. PICK i \in 1 .. Len(on) : m = on[i].name
      BY <1>3
    <2>2. i \in 1 .. Len(s.imes) /\ m = s.imes[i].name
      BY <1>1, <1>2, <2>1
    <2>3. Len(on) > 0
      BY <1>1, <2>1
    <2>4. QED
      BY <2>2, <2>3 DEF NamesOf
  <1>5. Len(on) > 0 => Len(s.imes) > 0 /\ on[1].name = s.imes[1].name
    BY <1>1, <1>2
  <1>6. QED
    BY <1>4, <1>5 DEF on

\* What the profile that is saved turns on.
LEMMA SyncedOn ==
    ASSUME inst \in Instance
    PROVE  /\ On(Synced.imList) = NamesOf(inst.imes)
           /\ Agrees(inst, Synced.imList)
           /\ Synced.imList \in Seq(Entries)
           /\ \A s : s.imes = inst.imes => Follows(s, Synced.imList)
  <1> DEFINE on == TurnedOn(Synced.imList)
  <1>1. /\ Synced \in Profiles /\ Len(on) = Len(inst.imes)
        /\ \A i \in 1 .. Len(inst.imes) : on[i].name = inst.imes[i].name
    BY SyncedFacts
  <1>2. inst.imes \in Seq(IMs) /\ Len(inst.imes) \in Nat
    BY InstanceFields
  <1>3. Synced.imList \in Seq(Entries)
    BY <1>1 DEF Profiles
  <1>4. QED
    BY <1>1, <1>2, <1>3 DEF On, NamesOf, Agrees, Follows

\* The call on top.
LEMMA OnTheTop ==
    ASSUME inst \in Instance, inst.stack # <<>>
    PROVE  /\ Len(inst.stack) \in Nat \ {0} /\ Top = inst.stack[Len(inst.stack)]
           /\ PlaceOf(inst) = Top.at /\ ListOnTop(inst) = Top.list
  BY StackFacts DEF Top, PlaceOf, ListOnTop

\* A step of a call takes nothing away but the method that fails to load.
LEMMA StepKeeps ==
    ASSUME Types, Inventory, Step, Next
    PROVE  /\ life # "down" /\ life' # "down" /\ inst.stack # <<>>
           /\ inst' \in Instance
           /\ setup' = setup /\ promise'.current = promise.current
           /\ promise'.lost = FALSE => promise.lost = FALSE
           /\ inst'.avail \subseteq inst.avail
           /\ Load \/ inst'.avail = inst.avail
           /\ life' = life \/ (Booted /\ life' = "up")
           /\ Wait(Len(inst.stack) - 1)
           /\ Len(inst'.stack) \in Nat /\ Len(inst'.stack) >= Len(inst.stack) - 1
  <1>1. life # "down" /\ inst.stack # <<>>
    BY DEF Step, Load, Reload, InitIM, Clear, AddListed, AddUnlisted, OpenProfile,
           WriteProfile, Boot, Booted, At
  <1>2. inst \in Instance /\ inst' \in Instance /\ setup' = setup
    BY TypesNext, SameSetup DEF Types
  <1>3. life' = life \/ (Booted /\ life' = "up")
    BY DEF Step, Load, Reload, InitIM, Clear, AddListed, AddUnlisted, OpenProfile,
           WriteProfile, Boot, Booted
  <1>4. /\ promise'.current = promise.current
        /\ promise'.lost = FALSE => promise.lost = FALSE
    <2>1. promise \in Promise
      BY DEF Types
    <2>2. \/ promise' = promise
          \/ \E gone \in BOOLEAN : promise' = [promise EXCEPT !.lost = promise.lost \/ gone]
      <3>1. CASE Reload
        <4> DEFINE gone == Top.method \notin NamesOf(inst.imes)
        <4>1. promise' = [promise EXCEPT !.lost = promise.lost \/ gone]
          BY <3>1 DEF Reload
        <4>2. gone \in BOOLEAN
          OBVIOUS
        <4> HIDE DEF gone
        <4>3. QED
          BY <4>1, <4>2
      <3>2. QED
        BY <3>1 DEF Step, Load, InitIM, Clear, AddListed, AddUnlisted, OpenProfile,
                    WriteProfile, Boot, Booted
    <2>3. QED
      BY <2>1, <2>2 DEF Promise
  <1>5. CASE Load
    <2>1. /\ FailsStay /\ Wait(Len(inst.stack) - 1)
          /\ Len(inst'.stack) = Len(inst.stack) + 1
      BY <1>5, LoadStep
    <2>2. inst'.avail \subseteq inst.avail
      BY <1>1, <1>2, <2>1, AvailShrinks
    <2>3. QED
      BY <1>1, <1>2, <1>3, <1>4, <1>5, <2>1, <2>2, StackFacts
  <1>6. CASE InitIM
    <2>1. /\ FailsStay /\ Wait(Len(inst.stack) - 1) /\ inst.avail \subseteq inst'.avail
          /\ Len(inst'.stack) \in {Len(inst.stack), Len(inst.stack) - 1}
      BY <1>6, InitIMStep
    <2>2. inst'.avail = inst.avail
      BY <1>1, <1>2, <2>1, AvailShrinks
    <2>3. Len(inst.stack) \in Nat \ {0}
      BY <1>1, <1>2, StackFacts
    <2>4. /\ Len(inst'.stack) \in Nat /\ Len(inst'.stack) >= Len(inst.stack) - 1
      BY <2>1, <2>3
    <2> HIDE DEF Step, Next
    <2>5. QED
      BY <1>1, <1>2, <1>3, <1>4, <2>1, <2>2, <2>4
  <1>7. CASE Reload \/ Clear \/ AddListed \/ AddUnlisted \/ OpenProfile \/ Boot
             \/ WriteProfile \/ Booted
    <2>1. /\ Unloaded /\ Wait(Len(inst.stack) - 1)
          /\ Len(inst'.stack) \in {Len(inst.stack) - 1, Len(inst.stack), Len(inst.stack) + 1}
      BY <1>7, ReloadStep, ClearStep, AddListedStep, AddUnlistedStep, OpenProfileStep,
         BootStep, ReturnStep
    <2>2. QED
      BY <1>1, <1>2, <1>3, <1>4, <2>1, StackFacts DEF Unloaded
  <1>8. QED
    BY <1>5, <1>6, <1>7 DEF Step

\* The steps that neither take over a list nor save one.
LEMMA QuietStep ==
    ASSUME Types, Inventory, OnTop, Next, Reload \/ InitIM \/ Boot \/ WriteProfile \/ Booted
    PROVE  /\ PlaceOf(inst) \notin Listing \union {"load"} /\ PlaceOf(inst') \notin Listing
           /\ PlaceOf(inst') = "load" => Boot
           /\ inst'.imes = inst.imes /\ inst'.profile = inst.profile
           /\ inst'.avail = inst.avail
  <1> DEFINE n == Len(inst.stack)
             k == Len(inst'.stack)
  <1>1. /\ inst \in Instance /\ inst' \in Instance /\ inst.stack # <<>>
        /\ n \in Nat \ {0} /\ k \in Nat /\ Wait(n - 1) /\ inst'.avail = inst.avail
        /\ PlaceOf(inst) = Top.at
    BY StepKeeps, OnTheTop DEF Types, Step, Load, Reload, InitIM, Boot, WriteProfile, Booted, At
  <1>2. /\ inst'.imes = inst.imes /\ inst'.profile = inst.profile
    BY ReloadStep, InitIMStep, BootStep, ReturnStep
  <1>3. PlaceOf(inst) \in {"reload", "init", "boot", "write", "booted"}
    BY <1>1 DEF Reload, InitIM, Boot, WriteProfile, Booted, At
  <1>4. ASSUME k > 0
        PROVE  PlaceOf(inst') = inst'.stack[k].at
    BY <1>1, <1>4 DEF PlaceOf
  <1>5. k = n - 1 => PlaceOf(inst') \notin Listing \union {"load"}
    BY <1>1, Revealed
  <1>6. CASE Reload
    <2>1. k = n /\ Now(n, "init")
      BY <1>6, ReloadStep
    <2>2. QED
      BY <1>1, <1>2, <1>3, <1>4, <2>1 DEF Now, Listing
  <1>7. CASE InitIM
    <2>1. (k = n /\ Now(n, "save")) \/ k = n - 1
      BY <1>7, InitIMStep
    <2>2. QED
      BY <1>1, <1>2, <1>3, <1>4, <1>5, <2>1 DEF Now, Listing
  <1>8. CASE Boot
    <2>1. k = n + 1 /\ Called(n + 1)
      BY <1>8, BootStep
    <2>2. PlaceOf(inst') \in {"load", "init"}
      BY <1>1, <1>4, <2>1 DEF Called
    <2>3. QED
      BY <1>1, <1>2, <1>3, <1>8, <2>2 DEF Listing
  <1>9. CASE WriteProfile \/ Booted
    <2>1. k = n - 1
      BY <1>9, ReturnStep
    <2>2. QED
      BY <1>1, <1>2, <1>3, <1>5, <2>1 DEF Listing
  <1>10. QED
    BY <1>6, <1>7, <1>8, <1>9

\* What a signal that saves makes of the method that is to come back.
LEMMA SignalCurrent ==
    ASSUME Types
    PROVE  /\ Hangup => promise'.current = NoMethod
           /\ Terminate => promise'.current = IF AtRest /\ ~promise.lost THEN InUse ELSE NoMethod
  <1> DEFINE taken == inst.stack # <<>> /\ Top.at \in {"clear", "listed"}
             on == IF taken THEN {} ELSE promise.on
             off == IF taken THEN {} ELSE promise.off
             current == IF AtRest /\ ~promise.lost THEN InUse ELSE NoMethod
  <1>1. promise \in Promise
    BY DEF Types
  <1>2. /\ Terminate => promise' = [promise EXCEPT !.on = on, !.off = off, !.current = current]
        /\ Hangup => promise' = [promise EXCEPT !.on = on, !.off = off, !.current = NoMethod]
    BY DEF Terminate, Hangup, Saved
  <1> HIDE DEF taken, on, off
  <1>3. \A x : [promise EXCEPT !.on = on, !.off = off, !.current = x].current = x
    BY <1>1 DEF Promise
  <1>4. QED
    BY <1>2, <1>3

\* A call from outside or a signal that does not end the daemon forgets the
\* method that was to come back.
LEMMA StillReturning ==
    ASSUME Types, Next, Returning'
    PROVE  Start \/ (Step /\ Returning)
  <1>1. promise \in Promise /\ life' # "down"
    BY DEF Types, Returning
  <1>2. CASE Step
    <2>1. promise'.current = promise.current
      <3>1. \/ promise' = promise
            \/ \E lost : promise' = [promise EXCEPT !.lost = lost]
        BY <1>2 DEF Step, Load, Reload, InitIM, Clear, AddListed, AddUnlisted, OpenProfile,
                    WriteProfile, Boot, Booted
      <3>2. QED
        BY <1>1, <3>1 DEF Promise
    <2>2. life # "down" /\ life' \in {life, "up"}
      BY <1>2 DEF Step, Load, Reload, InitIM, Clear, AddListed, AddUnlisted, OpenProfile,
                  WriteProfile, Boot, Booted, At
    <2>3. life \in {"down", "boot", "up"}
      BY DEF Types
    <2>4. QED
      BY <1>2, <2>1, <2>2, <2>3 DEF Returning
  <1>3. CASE \/ \E index \in {-2, -1} \union (0 .. Len(inst.imes) - 1) : SwitchTo(index)
             \/ TurnInactive \/ TurnActive \/ ReloadConfig
             \/ \E list \in SettableLists : SetIMList(list)
    <2>1. life' = "up"
      BY <1>3 DEF SwitchTo, TurnInactive, TurnActive, ReloadConfig, SetIMList, Call, AtRest
    <2>2. promise'.current = NoMethod
      <3>1. CASE \E list \in SettableLists : SetIMList(list)
        BY <3>1 DEF SetIMList
      <3>2. CASE ~\E list \in SettableLists : SetIMList(list)
        BY <1>1, <1>3, <3>2 DEF SwitchTo, TurnInactive, TurnActive, ReloadConfig, Promise
      <3>3. QED
        BY <3>1, <3>2
    <2>3. QED
      BY <2>1, <2>2 DEF Returning
  <1>4. CASE Terminate \/ Kill
    BY <1>1, <1>4 DEF Terminate, Kill
  <1>5. CASE Hangup
    <2>1. life' = "up"
      BY <1>5 DEF Hangup
    <2>2. promise'.current = NoMethod
      BY <1>1, <1>5, SignalCurrent
    <2>3. QED
      BY <2>1, <2>2 DEF Returning
  <1>6. QED
    BY <1>2, <1>3, <1>4, <1>5 DEF Next, Outside

LEMMA TakenNext ==
    ASSUME Types, Inventory, OnTop, Taken, Next
    PROVE  Taken'
  <1> DEFINE n == Len(inst.stack)
             k == Len(inst'.stack)
             now == inst.profile.imList
             new == inst'.profile.imList
  <1> SUFFICES ASSUME Returning'
               PROVE  /\ PlaceOf(inst') \in {"listed", "unlisted"} => ListOnTop(inst') = new
                      /\ On(new) \subseteq inst'.avail =>
                           /\ PlaceOf(inst') = "unlisted" => Agrees(inst', new)
                           /\ PlaceOf(inst') \notin Listing => Follows(inst', new)
    BY DEF Taken
  <1>1. /\ inst \in Instance /\ inst' \in Instance /\ k \in Nat
        /\ now \in Seq(Entries) /\ new \in Seq(Entries)
    <2>1. inst \in Instance /\ inst' \in Instance
      BY TypesNext DEF Types
    <2>2. inst.profile \in Profiles /\ inst'.profile \in Profiles /\ inst'.stack \in Seq(Frames)
      BY <2>1, InstanceFields
    <2>3. QED
      BY <2>1, <2>2 DEF Profiles
  <1>2. ASSUME k > 0
        PROVE  PlaceOf(inst') = inst'.stack[k].at /\ ListOnTop(inst') = inst'.stack[k].list
    BY <1>1, <1>2 DEF PlaceOf, ListOnTop
  <1>3. CASE Start
    <2>1. PlaceOf(inst') = "clear"
      BY <1>2, <1>3, StartStep DEF Starts
    <2>2. QED
      BY <2>1 DEF Listing
  <1>4. CASE Step /\ Returning
    <2>1. inst.stack # <<>> /\ inst'.avail \subseteq inst.avail /\ Wait(n - 1)
      BY <1>4, StepKeeps
    <2>2. n \in Nat \ {0} /\ PlaceOf(inst) = Top.at /\ ListOnTop(inst) = Top.list
      BY <1>1, <2>1, OnTheTop
    <2>3. /\ PlaceOf(inst) \in {"listed", "unlisted"} => Top.list = now
          /\ On(now) \subseteq inst.avail =>
               /\ PlaceOf(inst) = "unlisted" => Agrees(inst, now)
               /\ PlaceOf(inst) \notin Listing => Follows(inst, now)
      BY <1>4, <2>2 DEF Taken
    <2>4. CASE Load
      <3>1. k = n + 1 /\ inst'.stack[n + 1].at = "clear"
        BY <2>4, LoadStep
      <3>2. QED
        BY <1>2, <2>2, <3>1 DEF Listing
    <2>5. CASE Clear
      <3>1. /\ k = n /\ inst'.stack[n].at = "listed" /\ inst'.stack[n].list = now /\ new = now
        BY <2>5, ClearStep
      <3>2. QED
        BY <1>2, <2>2, <3>1 DEF Listing
    <2>6. CASE AddListed
      <3>1. /\ k = n /\ inst'.imes = Listed(Top.list) /\ Now(n, "unlisted")
            /\ new = now /\ Unloaded
        BY <2>6, AddListedStep
      <3>2. Top.list = now
        BY <2>2, <2>3, <2>6 DEF AddListed, At
      <3>3. PlaceOf(inst') = "unlisted" /\ ListOnTop(inst') = now
        BY <1>2, <2>2, <3>1, <3>2 DEF Now
      <3>4. ASSUME On(now) \subseteq inst.avail
            PROVE  Agrees(inst', now)
        BY <1>1, <3>1, <3>2, <3>4, ListedAll DEF Agrees
      <3>5. QED
        BY <3>1, <3>3, <3>4 DEF Listing, Unloaded
    <2>7. CASE AddUnlisted
      <3> DEFINE more == Unlisted(Top.list)
      <3>1. /\ k = n + 1 /\ Called(n + 1) /\ new = now /\ Unloaded
            /\ inst'.imes = inst.imes \o more /\ Top.list \in Seq(Entries)
        BY <2>7, AddUnlistedStep
      <3>2. PlaceOf(inst') \in {"load", "init"}
        BY <1>2, <2>2, <3>1 DEF Called
      <3>3. more \in Seq(IMs) /\ inst.imes \in Seq(IMs)
        BY <1>1, <3>1, UnlistedFacts, InstanceFields
      <3> HIDE DEF more
      <3>4. ASSUME On(now) \subseteq inst.avail
            PROVE  Follows(inst', now)
        <4>1. Agrees(inst, now)
          BY <2>2, <2>3, <2>7, <3>4 DEF AddUnlisted, At
        <4>2. /\ Len(inst.imes) <= Len(inst'.imes)
              /\ \A i \in 1 .. Len(inst.imes) : inst'.imes[i] = inst.imes[i]
          BY <3>1, <3>3
        <4>3. QED
          BY <4>1, <4>2 DEF Agrees, Follows
      <3>5. QED
        BY <3>1, <3>2, <3>4 DEF Unloaded
    <2>8. CASE OpenProfile
      <3>1. /\ k = n /\ inst'.imes = inst.imes /\ inst'.profile = Synced /\ Now(n, "write")
        BY <2>8, OpenProfileStep
      <3>2. PlaceOf(inst') = "write"
        BY <1>2, <2>2, <3>1 DEF Now
      <3>3. Follows(inst', new)
        BY <1>1, <3>1, SyncedOn
      <3>4. QED
        BY <3>2, <3>3
    <2>9. CASE Reload \/ InitIM \/ Boot \/ WriteProfile \/ Booted
      <3>1. /\ PlaceOf(inst) \notin Listing \union {"load"} /\ PlaceOf(inst') \notin Listing
            /\ inst'.imes = inst.imes /\ inst'.profile = inst.profile
            /\ inst'.avail = inst.avail
        BY <2>9, QuietStep
      <3>2. QED
        BY <2>3, <3>1 DEF Follows, Listing
    <2>10. QED
      BY <1>4, <2>4, <2>5, <2>6, <2>7, <2>8, <2>9 DEF Step
  <1>5. QED
    BY <1>3, <1>4, StillReturning

\* A call to SwitchIM that selects a method by its name: never the first one
\* when that is skipped, and the named one when that is there.
LEMMA SwitchByName ==
    ASSUME NEW s \in Instance, NEW index \in Nat, s.iIMIndex = index,
           NEW skipZero \in BOOLEAN,
           NEW t, t = SwitchIM(s, index, skipZero)
    PROVE  /\ skipZero => t.iIMIndex # 0
           /\ HasElement(s.imes, index) /\ (skipZero => index # 0) => t.iIMIndex = index
           /\ LET top == t.stack[Len(s.stack) + 1]
              IN /\ top.at \in {"load", "init"}
                 /\ top.at = "load" =>
                      /\ HasElement(s.imes, t.iIMIndex)
                      /\ Element(s.imes, t.iIMIndex).klass = 0
                      /\ top.method = Element(s.imes, t.iIMIndex).name
  <1> DEFINE n == Len(s.imes)
             new == Selected(n, index, index, skipZero)
             old == Remembered(index, s.lastIMIndex)
             lazy == HasElement(s.imes, new) /\ Element(s.imes, new).klass = 0
             top == IF lazy THEN Frame("load", Element(s.imes, new).name, old)
                    ELSE Frame("init", NoMethod, old)
             stack == Append(s.stack, top)
  <1>1. s.imes \in Seq(IMs) /\ n \in Nat /\ s.stack \in Seq(Frames) /\ s.lastIMIndex \in Int
    BY InstanceFields
  <1>2. /\ new \in Int
        /\ skipZero => new # 0
        /\ index < n /\ (skipZero => index # 0) => new = index
    <2> DEFINE i == CASE index >= n -> n - 1
                      [] index < n /\ index >= 0 -> index
                      [] index < n /\ index = -1 -> IF index >= n - 1 THEN 0 ELSE index + 1
                      [] index < n /\ index = -2 -> IF index > 0 THEN index - 1 ELSE n - 1
    <2>1. new = IF skipZero /\ i = 0 THEN 1 ELSE i
      BY DEF Selected
    <2>2. CASE index >= n
      <3>1. i = n - 1
        BY <2>2
      <3>2. QED
        BY <1>1, <2>1, <2>2, <3>1
    <2>3. CASE index < n
      <3>1. i = index
        BY <1>1, <2>3
      <3>2. QED
        BY <1>1, <2>1, <2>3, <3>1
    <2>4. QED
      BY <1>1, <2>2, <2>3
  <1>3. t = [s EXCEPT !.iIMIndex = new, !.stack = stack]
    BY DEF SwitchIM
  <1>4. HasElement(s.imes, index) => index < n
    BY <1>1 DEF HasElement
  <1> HIDE DEF new, stack
  <1>5. t.iIMIndex = new /\ t.stack = stack
    BY <1>3 DEF Instance
  <1> HIDE DEF lazy, top
  <1>6. stack[Len(s.stack) + 1] = top
    BY <1>1 DEF stack
  <1>7. /\ top.at \in {"load", "init"}
        /\ top.at = "load" => lazy /\ top.method = Element(s.imes, new).name
    BY DEF top, Frame
  <1>8. QED
    BY <1>2, <1>4, <1>5, <1>6, <1>7 DEF lazy

\* The k-th call selects the method of the profile.
Reselects(k) ==
    LET index == GetIMIndexByName(inst'.imes, inst'.profile.imName)
        top == inst'.stack[k]
    IN /\ setup.firstAsInactive => inst'.iIMIndex # 0
       /\ HasElement(inst'.imes, index) /\ (setup.firstAsInactive => index # 0) =>
            inst'.iIMIndex = index
       /\ top.at \in {"load", "init"}
       /\ top.at = "load" =>
            /\ HasElement(inst'.imes, inst'.iIMIndex)
            /\ Element(inst'.imes, inst'.iIMIndex).klass = 0
            /\ top.method = Element(inst'.imes, inst'.iIMIndex).name

LEMMA ReselectsStep ==
    ASSUME Types, AddUnlisted \/ Boot
    PROVE  Len(inst'.stack) = Len(inst.stack) + 1 /\ Reselects(Len(inst'.stack))
  <1> DEFINE n == Len(inst.stack)
             imes == IF AddUnlisted THEN inst.imes \o Unlisted(Top.list) ELSE inst.imes
             at == IF AddUnlisted THEN "save" ELSE "booted"
             index == GetIMIndexByName(imes, inst.profile.imName)
             stack == GoOn(at)
             s == [inst EXCEPT !.imes = imes, !.iIMIndex = index, !.stack = stack]
  <1>1. /\ inst \in Instance /\ inst.stack # <<>> /\ setup.firstAsInactive \in BOOLEAN
    BY DEF Types, AddUnlisted, Boot, At
  <1>2. inst' = SwitchIM(s, index, setup.firstAsInactive)
    <2>1. CASE AddUnlisted
      BY <2>1 DEF AddUnlisted
    <2>2. CASE Boot /\ ~AddUnlisted
      <3>1. [inst EXCEPT !.iIMIndex = index, !.stack = stack] = s
        BY <1>1, <2>2 DEF Instance
      <3>2. QED
        BY <2>2, <3>1 DEF Boot
    <2>3. QED
      BY <2>1, <2>2
  <1>3. /\ inst'.imes = imes /\ inst'.profile = inst.profile /\ inst' \in Instance
        /\ Len(inst'.stack) = n + 1
    BY AddUnlistedStep, BootStep
  <1>4. imes \in Seq(IMs)
    BY <1>3, InstanceFields
  <1> HIDE DEF imes
  <1>5. index \in Nat
    BY <1>4, LookupFacts
  <1>6. stack \in Seq(Frames) /\ Len(stack) = n
    BY <1>1, GoOnFacts DEF Places
  <1> HIDE DEF index, stack, at
  <1>7. s \in Instance /\ s.imes = imes /\ s.iIMIndex = index /\ s.stack = stack
    <2> HIDE DEF n
    <2>1. inst \in Instance /\ imes \in Seq(IMs) /\ index \in Int /\ stack \in Seq(Frames)
      BY <1>1, <1>4, <1>5, <1>6
    <2>2. QED
      BY <2>1 DEF Instance
  <1> HIDE DEF s
  <1>8. /\ setup.firstAsInactive => inst'.iIMIndex # 0
        /\ HasElement(imes, index) /\ (setup.firstAsInactive => index # 0) =>
             inst'.iIMIndex = index
        /\ LET top == inst'.stack[n + 1]
           IN /\ top.at \in {"load", "init"}
              /\ top.at = "load" =>
                   /\ HasElement(imes, inst'.iIMIndex)
                   /\ Element(imes, inst'.iIMIndex).klass = 0
                   /\ top.method = Element(imes, inst'.iIMIndex).name
    BY <1>1, <1>2, <1>5, <1>6, <1>7, SwitchByName
  <1>9. QED
    BY <1>3, <1>8 DEF Reselects, index

\* What FcitxInstanceCreate is at, the outermost call while it runs.
Outer(s) == IF s.stack = <<>> THEN "rest" ELSE s.stack[1].at

LEMMA OuterNext ==
    ASSUME Types, Inventory, Step, Next
    PROVE  \/ /\ Len(inst.stack) > 1 /\ Len(inst'.stack) > 0
              /\ Outer(inst') = Outer(inst)
           \/ /\ Len(inst.stack) = 1 /\ Outer(inst) = PlaceOf(inst)
              /\ Outer(inst') # "boot" /\ (Outer(inst') = "booted" => Boot)
  <1> DEFINE n == Len(inst.stack)
             k == Len(inst'.stack)
  <1>1. /\ inst \in Instance /\ inst' \in Instance /\ inst.stack # <<>> /\ Wait(n - 1)
        /\ k \in Nat /\ k >= n - 1
    BY StepKeeps DEF Types
  <1>2. n \in Nat \ {0}
    BY <1>1, OnTheTop
  <1>3. CASE n > 1
    <2>1. k > 0 /\ inst'.stack[1] = inst.stack[1]
      BY <1>1, <1>2, <1>3 DEF Wait
    <2>2. inst'.stack # <<>>
      BY <2>1
    <2>3. QED
      BY <1>1, <1>3, <2>1, <2>2 DEF Outer
  <1>4. CASE n = 1
    <2>1. Outer(inst) = PlaceOf(inst)
      BY <1>1, <1>4 DEF Outer, PlaceOf
    <2>2. k = 0 => Outer(inst') = "rest"
      <3>1. inst'.stack \in Seq(Frames)
        BY <1>1, InstanceFields
      <3>2. QED
        BY <3>1 DEF Outer
    <2>3. k > 0 => Outer(inst') = inst'.stack[1].at
      BY DEF Outer
    <2>4. \/ k = 0
          \/ k > 0 /\ inst'.stack[1].at \notin {"boot", "booted"}
          \/ Boot /\ k > 0 /\ inst'.stack[1].at = "booted"
      <3>1. CASE Load
        BY <1>4, <3>1, LoadStep DEF Now
      <3>2. CASE Reload \/ Clear \/ AddListed \/ OpenProfile
        BY <1>4, <3>2, ReloadStep, ClearStep, AddListedStep, OpenProfileStep DEF Now
      <3>3. CASE InitIM
        BY <1>4, <3>3, InitIMStep DEF Now
      <3>4. CASE AddUnlisted
        BY <1>4, <3>4, AddUnlistedStep DEF Now
      <3>5. CASE Boot
        BY <1>4, <3>5, BootStep DEF Now
      <3>6. CASE WriteProfile \/ Booted
        BY <1>4, <3>6, ReturnStep
      <3>7. QED
        BY <3>1, <3>2, <3>3, <3>4, <3>5, <3>6 DEF Step
    <2>5. QED
      BY <1>4, <2>1, <2>2, <2>3, <2>4
  <1>5. n > 1 \/ n = 1
    <2>1. \A x \in Nat \ {0} : x > 1 \/ x = 1
      OBVIOUS
    <2>2. QED
      BY <1>2, <2>1
  <1>6. QED
    BY <1>3, <1>4, <1>5

-----------------------------------------------------------------------------
(* firstAsInactive: while it is up, the daemon knows a method to return to.  *)

Recall(s) == Remembered(s.iIMIndex, s.lastIMIndex)

\* An index that is not the first: its entry is loaded, and is there if there
\* are enough.
Ready(s, index) ==
    /\ index # 0
    /\ HasElement(s.imes, index) => Element(s.imes, index).klass # 0
    /\ Len(s.imes) > 1 => HasElement(s.imes, index)

NameAt(s, index) == IF HasElement(s.imes, index) THEN Element(s.imes, index).name ELSE NoMethod

\* FcitxInstanceCreate selects the method of the profile again, and need not
\* load it.
Selecting(s) ==
    /\ Len(s.stack) <= 2 /\ s.iIMIndex # 0
    /\ PlaceOf(s) \in {"init", "save", "write", "booted"}

\* Before, it makes the list: once nothing is left to load, the index it
\* remembers is ready until the list is saved, and it is the one that is saved.
Making(s) ==
    /\ Len(s.stack) = 2 => s.stack[2].at \notin {"load", "reload", "init"}
    /\ Len(s.stack) > 2 => s.stack[2].at = "save"
    /\ PlaceOf(s) \notin Listing \union {"load"} => Ready(s, Recall(s))
    /\ PlaceOf(s) \in {"reload", "save", "write", "boot"} => s.lastIMIndex = Recall(s)
    /\ PlaceOf(s) = "boot" \/ (PlaceOf(s) = "write" /\ Len(s.stack) = 2) =>
         s.profile.imName = NameAt(s, s.lastIMIndex)

Recalled ==
    setup.firstAsInactive =>
      /\ life = "up" => inst.lastIMIndex # 0 /\ Outer(inst) \notin {"boot", "booted"}
      /\ life = "boot" /\ Outer(inst) = "booted" => Selecting(inst)
      /\ life = "boot" /\ Outer(inst) = "boot" => Making(inst)

\* A call to FcitxInstanceCreate is the outermost one.
LEMMA Outermost ==
    ASSUME inst \in Instance, Distinct, inst.stack # <<>>
    PROVE  \A i \in 1 .. Len(inst.stack) :
             inst.stack[i].at \in {"boot", "booted"} => i = 1
  <1>1. Len(inst.stack) \in Nat \ {0}
    BY OnTheTop
  <1>2. SUFFICES ASSUME NEW i \in 1 .. Len(inst.stack), inst.stack[i].at \in {"boot", "booted"}
                 PROVE  i = 1
    OBVIOUS
  <1>3. ~(i > 1)
    BY <1>2 DEF Distinct, FrameOK
  <1>4. \A x \in Nat \ {0} : x > 1 \/ x = 1
    OBVIOUS
  <1>5. i \in Nat \ {0}
    BY <1>1
  <1>6. QED
    BY <1>3, <1>4, <1>5

\* The method of the profile is the one to return to, and it is loaded.
LEMMA BootSelects ==
    ASSUME Types, Distinct, Making(inst), PlaceOf(inst) = "boot", Boot,
           setup.firstAsInactive
    PROVE  Len(inst'.stack) = Len(inst.stack) + 1 /\ inst'.iIMIndex # 0
           /\ inst'.stack[Len(inst'.stack)].at = "init"
  <1> DEFINE k == Len(inst'.stack)
             last == inst.lastIMIndex
             p == inst.profile.imName
             index == GetIMIndexByName(inst.imes, p)
  <1>1. /\ Reselects(k) /\ k = Len(inst.stack) + 1
        /\ inst'.imes = inst.imes /\ inst'.profile = inst.profile
    BY ReselectsStep, BootStep
  <1>2. /\ inst \in Instance /\ inst.imes \in Seq(IMs) /\ Len(inst.imes) \in Nat
        /\ last \in Int /\ inst'.iIMIndex \in Int
    <2>1. inst \in Instance /\ inst' \in Instance
      BY BootStep DEF Types
    <2>2. QED
      BY <2>1, InstanceFields
  <1>3. p = NameAt(inst, last) /\ Ready(inst, last)
    BY DEF Making, Listing
  <1>4. /\ inst'.iIMIndex # 0
        /\ HasElement(inst.imes, index) /\ index # 0 => inst'.iIMIndex = index
        /\ inst'.stack[k].at \in {"load", "init"}
        /\ inst'.stack[k].at = "load" =>
             /\ HasElement(inst.imes, inst'.iIMIndex)
             /\ Element(inst.imes, inst'.iIMIndex).klass = 0
    BY <1>1 DEF Reselects
  <1>5. inst'.stack[k].at = "init"
    <2>1. CASE HasElement(inst.imes, last)
      <3>1. last + 1 \in 1 .. Len(inst.imes) /\ p = inst.imes[last + 1].name
        BY <1>2, <1>3, <2>1 DEF NameAt, HasElement, Element
      <3>2. p \in NamesOf(inst.imes)
        BY <3>1 DEF NamesOf
      <3>3. /\ index \in Nat /\ HasElement(inst.imes, index)
            /\ Element(inst.imes, index).name = p
        BY <1>2, <3>2, LookupFacts
      <3> HIDE DEF index, p, last
      <3>4. index + 1 \in 1 .. Len(inst.imes) /\ inst.imes[index + 1].name = p
        BY <1>2, <3>3 DEF HasElement, Element
      <3>5. index + 1 = last + 1
        <4>1. \A i, j \in 1 .. Len(inst.imes) : inst.imes[i].name = inst.imes[j].name => i = j
          BY <1>2, OnceFacts DEF Distinct
        <4>2. QED
          BY <3>1, <3>4, <4>1
      <3>6. index = last
        BY <1>2, <3>3, <3>5
      <3>7. inst'.iIMIndex = last
        BY <1>3, <1>4, <3>3, <3>6 DEF Ready
      <3>8. QED
        BY <1>3, <1>4, <2>1, <3>7 DEF Ready
    <2>2. CASE ~HasElement(inst.imes, last)
      <3>1. Len(inst.imes) <= 1
        BY <1>2, <1>3, <2>2 DEF Ready
      <3>2. ~HasElement(inst.imes, inst'.iIMIndex)
        BY <1>2, <1>4, <3>1 DEF HasElement
      <3>3. QED
        BY <1>4, <3>2
    <2>3. QED
      BY <2>1, <2>2
  <1>6. QED
    BY <1>1, <1>4, <1>5

LEMMA SelectingNext ==
    ASSUME Types, Distinct, OnTop, Inventory, Recalled, Step, Next, life = "boot",
           life' = "boot", setup.firstAsInactive, Outer(inst') = "booted"
    PROVE  Selecting(inst')
  <1> DEFINE n == Len(inst.stack)
             k == Len(inst'.stack)
  <1>1. /\ inst \in Instance /\ inst' \in Instance /\ inst.stack # <<>> /\ Wait(n - 1)
        /\ k \in Nat /\ n \in Nat \ {0} /\ PlaceOf(inst) = Top.at /\ Top = inst.stack[n]
    BY StepKeeps, OnTheTop DEF Types
  <1>2. ASSUME k > 0
        PROVE  PlaceOf(inst') = inst'.stack[k].at
    BY <1>1, <1>2 DEF PlaceOf
  <1>3. CASE n = 1
    <2>1. Boot /\ Outer(inst) = PlaceOf(inst)
      BY <1>3, OuterNext
    <2>2. PlaceOf(inst) = "boot"
      BY <1>1, <2>1 DEF Boot, At
    <2>3. Making(inst)
      BY <2>1, <2>2 DEF Recalled
    <2>4. k = n + 1 /\ inst'.iIMIndex # 0 /\ inst'.stack[k].at = "init"
      BY <2>1, <2>2, <2>3, BootSelects
    <2>5. QED
      BY <1>2, <1>3, <2>4 DEF Selecting
  <1>4. CASE n > 1
    <2>1. Outer(inst) = "booted"
      <3>1. ~(n = 1)
        <4>1. \A x \in Nat \ {0} : x > 1 => x # 1
          OBVIOUS
        <4> HIDE DEF n
        <4>2. QED
          BY <1>1, <1>4, <4>1
      <3>2. QED
        BY <3>1, OuterNext
    <2>2. Selecting(inst)
      BY <2>1 DEF Recalled
    <2>3. n = 2 /\ inst.iIMIndex # 0
      <3>1. \A x \in Nat : x > 1 /\ x <= 2 => x = 2
        OBVIOUS
      <3>2. n \in Nat /\ n <= 2 /\ inst.iIMIndex # 0
        BY <1>1, <2>2 DEF Selecting
      <3>3. QED
        BY <1>4, <3>1, <3>2
    <2>4. PlaceOf(inst) \in {"init", "save", "write"}
      <3>1. Top.at \notin {"boot", "booted"}
        BY <1>1, <2>3, Outermost
      <3>2. QED
        BY <1>1, <2>2, <3>1 DEF Selecting
    <2>5. inst.stack[1].at = "booted"
      BY <1>1, <2>1 DEF Outer
    <2>6. CASE InitIM
      <3>1. /\ inst'.iIMIndex = inst.iIMIndex
            /\ (k = n /\ Now(n, "save")) \/ k = n - 1
        BY <2>6, InitIMStep
      <3>2. PlaceOf(inst') \in {"save", "booted"}
        BY <1>1, <1>2, <2>3, <2>5, <3>1 DEF Now, Wait
      <3>3. k <= 2
        <4>1. k = n \/ k = n - 1
          BY <3>1
        <4> HIDE DEF n, k
        <4>2. QED
          BY <2>3, <4>1
      <3>4. QED
        BY <2>3, <3>1, <3>2, <3>3 DEF Selecting
    <2>7. CASE OpenProfile
      <3>1. inst'.iIMIndex = inst.iIMIndex /\ k = n /\ Now(n, "write")
        BY <2>7, OpenProfileStep DEF SameIndex
      <3>2. QED
        BY <1>2, <2>3, <3>1 DEF Now, Selecting
    <2>8. CASE WriteProfile
      <3>1. inst'.iIMIndex = inst.iIMIndex /\ k = n - 1
        BY <2>8, ReturnStep
      <3>2. QED
        BY <1>1, <1>2, <2>3, <2>5, <3>1 DEF Wait, Selecting
    <2>9. InitIM \/ OpenProfile \/ WriteProfile
      BY <1>1, <2>4 DEF Step, Load, Reload, Clear, AddListed, AddUnlisted, Boot, Booted, At
    <2>10. QED
      BY <2>6, <2>7, <2>8, <2>9
  <1>5. QED
    BY <1>3, <1>4, OuterNext

\* A step of FcitxInstanceCreate before it selects the method of the profile.
Makes ==
    /\ Types /\ Distinct /\ Inventory /\ OnTop /\ ReloadsWait /\ Recalled
    /\ Step /\ Next /\ life = "boot" /\ life' = "boot"
    /\ setup.firstAsInactive /\ Outer(inst') = "boot"

LEMMA MakesFacts ==
    ASSUME Makes
    PROVE  LET n == Len(inst.stack)
               k == Len(inst'.stack)
           IN /\ inst \in Instance /\ inst' \in Instance /\ inst.stack # <<>> /\ Wait(n - 1)
              /\ k \in Nat /\ n \in Nat /\ n > 1 /\ k >= n - 1
              /\ PlaceOf(inst) = Top.at /\ Top = inst.stack[n]
              /\ PlaceOf(inst') = inst'.stack[k].at
              /\ Making(inst) /\ Top.at \notin {"boot", "booted"}
              /\ n = 2 \/ n > 2
  <1> DEFINE n == Len(inst.stack)
             k == Len(inst'.stack)
  <1>1. /\ inst \in Instance /\ inst' \in Instance /\ inst.stack # <<>> /\ Wait(n - 1)
        /\ k \in Nat /\ n \in Nat \ {0} /\ PlaceOf(inst) = Top.at /\ Top = inst.stack[n]
        /\ k >= n - 1
    BY StepKeeps, OnTheTop DEF Types, Makes
  <1>2. n > 1 /\ k > 0 /\ Outer(inst) = "boot"
    BY OuterNext DEF Makes
  <1>3. Making(inst)
    BY <1>2 DEF Makes, Recalled
  <1>4. PlaceOf(inst') = inst'.stack[k].at
    BY <1>1, <1>2 DEF PlaceOf
  <1>5. Top.at \notin {"boot", "booted"}
    <2>1. \A x \in Nat \ {0} : x > 1 => x # 1 /\ x \in 1 .. x
      OBVIOUS
    <2>2. \A i \in 1 .. n : inst.stack[i].at \in {"boot", "booted"} => i = 1
      BY <1>1, Outermost DEF Makes
    <2> HIDE DEF n
    <2>3. QED
      BY <1>1, <1>2, <2>1, <2>2
  <1>6. n = 2 \/ n > 2
    <2>1. \A x \in Nat : x > 1 => x = 2 \/ x > 2
      OBVIOUS
    <2> HIDE DEF n
    <2>2. QED
      BY <1>1, <1>2, <2>1
  <1>7. QED
    BY <1>1, <1>2, <1>3, <1>4, <1>5, <1>6

\* Its call to UpdateIMList stays below the calls that one makes.
LEMMA MakesStack ==
    ASSUME Makes
    PROVE  /\ Len(inst'.stack) = 2 => inst'.stack[2].at \notin {"load", "reload", "init"}
           /\ Len(inst'.stack) > 2 => inst'.stack[2].at = "save"
  <1> DEFINE n == Len(inst.stack)
             k == Len(inst'.stack)
  <1>1. /\ k \in Nat /\ n \in Nat /\ n > 1 /\ k >= n - 1 /\ Wait(n - 1)
        /\ Making(inst) /\ Top.at \notin {"boot", "booted"} /\ Top = inst.stack[n]
        /\ n = 2 \/ n > 2
    BY MakesFacts
  <1>2. Types /\ Step
    BY DEF Makes
  <1>3. CASE n > 2
    <2>1. inst'.stack[2] = inst.stack[2]
      BY <1>1, <1>3 DEF Wait
    <2>2. inst.stack[2].at = "save"
      BY <1>1, <1>3 DEF Making
    <2>3. QED
      BY <2>1, <2>2
  <1>4. CASE n = 2
    <2>1. Top.at \notin {"load", "reload", "init", "boot", "booted"}
      BY <1>1, <1>4 DEF Making
    <2>2. CASE Clear
      <3>1. k = n /\ inst'.stack[n].at = "listed"
        BY <1>2, <2>2, ClearStep
      <3>2. ~(k > 2) /\ inst'.stack[2].at = "listed"
        BY <1>4, <3>1
      <3>3. QED
        BY <3>2
    <2>3. CASE AddListed
      <3>1. k = n /\ inst'.stack[n].at = "unlisted"
        BY <1>2, <2>3, AddListedStep DEF Now
      <3>2. ~(k > 2) /\ inst'.stack[2].at = "unlisted"
        BY <1>4, <3>1
      <3>3. QED
        BY <3>2
    <2>4. CASE AddUnlisted
      BY <1>2, <1>4, <2>4, AddUnlistedStep DEF Now
    <2>5. CASE OpenProfile
      <3>1. k = n /\ inst'.stack[n].at = "write"
        BY <1>2, <2>5, OpenProfileStep DEF Now
      <3>2. ~(k > 2) /\ inst'.stack[2].at = "write"
        BY <1>4, <3>1
      <3>3. QED
        BY <3>2
    <2>6. CASE WriteProfile
      <3>1. k = 1
        BY <1>2, <1>4, <2>6, ReturnStep
      <3>2. QED
        BY <3>1
    <2>7. Clear \/ AddListed \/ AddUnlisted \/ OpenProfile \/ WriteProfile
      BY <1>2, <2>1 DEF Step, Load, Reload, InitIM, Boot, Booted, At
    <2>8. QED
      BY <2>2, <2>3, <2>4, <2>5, <2>6, <2>7
  <1>5. QED
    BY <1>1, <1>3, <1>4

\* The rest of Making.
Recalls(s) ==
    /\ PlaceOf(s) \notin Listing \union {"load"} => Ready(s, Recall(s))
    /\ PlaceOf(s) \in {"reload", "save", "write", "boot"} => s.lastIMIndex = Recall(s)
    /\ PlaceOf(s) = "boot" \/ (PlaceOf(s) = "write" /\ Len(s.stack) = 2) =>
         s.profile.imName = NameAt(s, s.lastIMIndex)

\* While the list is read nothing is recalled, then the method of the profile is.
LEMMA ListingRecalls ==
    ASSUME Makes, Load \/ Clear \/ AddListed \/ AddUnlisted
    PROVE  Recalls(inst')
  <1> DEFINE n == Len(inst.stack)
             k == Len(inst'.stack)
  <1>1. Types /\ setup.firstAsInactive /\ PlaceOf(inst') = inst'.stack[k].at
    BY MakesFacts DEF Makes
  <1>2. CASE Load
    <2>1. PlaceOf(inst') = "clear"
      BY <1>1, <1>2, LoadStep
    <2>2. QED
      BY <2>1 DEF Recalls, Listing
  <1>3. CASE Clear
    <2>1. PlaceOf(inst') = "listed"
      BY <1>1, <1>3, ClearStep
    <2>2. QED
      BY <2>1 DEF Recalls, Listing
  <1>4. CASE AddListed
    <2>1. PlaceOf(inst') = "unlisted"
      BY <1>1, <1>4, AddListedStep DEF Now
    <2>2. QED
      BY <2>1 DEF Recalls, Listing
  <1>5. CASE AddUnlisted
    <2>1. k = n + 1 /\ Called(k) /\ Settles(setup.firstAsInactive)
      BY <1>1, <1>5, AddUnlistedStep
    <2>2. inst'.iIMIndex # 0
      BY <1>1, <1>5, ReselectsStep DEF Reselects
    <2>3. PlaceOf(inst') \in {"load", "init"}
      BY <1>1, <2>1 DEF Called
    <2>4. ASSUME PlaceOf(inst') = "init"
          PROVE  Ready(inst', Recall(inst'))
      <3>1. Recall(inst') = inst'.iIMIndex
        BY <2>2 DEF Recall, Remembered
      <3>2. HasElement(inst'.imes, inst'.iIMIndex) =>
              Element(inst'.imes, inst'.iIMIndex).klass # 0
        BY <1>1, <2>1, <2>4 DEF Called
      <3>3. Len(inst'.imes) > 1 => HasElement(inst'.imes, inst'.iIMIndex)
        BY <1>1, <2>1 DEF Settles
      <3>4. QED
        BY <2>2, <3>1, <3>2, <3>3 DEF Ready
    <2>5. QED
      BY <2>3, <2>4 DEF Recalls, Listing
  <1>6. QED
    BY <1>2, <1>3, <1>4, <1>5

\* A method that was loaded is selected again, or the first one, and then the
\* one before is still remembered.
LEMMA ReloadRecalls ==
    ASSUME Makes, Reload
    PROVE  Recalls(inst')
  <1> DEFINE n == Len(inst.stack)
             last == inst.lastIMIndex
             m == Top.method
             index == GetIMIndexByName(inst.imes, m)
  <1>1. /\ Types /\ Making(inst) /\ PlaceOf(inst) = "reload" /\ inst \in Instance
        /\ n \in Nat /\ n > 1 /\ Top = inst.stack[n] /\ Top.at = "reload"
        /\ inst.imes \in Seq(IMs)
    <2>1. Top.at = "reload"
      BY DEF Reload, At
    <2>2. QED
      BY <2>1, MakesFacts, InstanceFields DEF Makes
  <1>2. /\ inst'.imes = inst.imes /\ inst'.iIMIndex = index /\ inst'.lastIMIndex = last
        /\ PlaceOf(inst') = "init"
    BY <1>1, ReloadStep, MakesFacts DEF Now
  <1>3. Ready(inst, last) /\ last # 0
    BY <1>1 DEF Making, Listing, Ready
  <1>4. CASE index = 0
    <2>1. Recall(inst') = last
      BY <1>2, <1>3, <1>4 DEF Recall, Remembered
    <2>2. Ready(inst', last)
      BY <1>2, <1>3 DEF Ready
    <2>3. QED
      BY <1>2, <2>1, <2>2 DEF Recalls
  <1>5. CASE index # 0
    <2>1. Recall(inst') = index
      BY <1>2, <1>5 DEF Recall, Remembered
    <2>2. m \in NamesOf(inst.imes)
      BY <1>5 DEF GetIMIndexByName
    <2>3. HasElement(inst.imes, index) /\ Element(inst.imes, index).name = m
      BY <1>1, <2>2, LookupFacts
    <2>4. Held(inst, m)
      <3>1. \A x \in Nat : x > 1 => x \in 1 .. x /\ ~(x < x)
        OBVIOUS
      <3> HIDE DEF n
      <3>2. n \in 1 .. n /\ ~(n < n)
        BY <1>1, <3>1
      <3>3. QED
        BY <1>1, <3>2 DEF Makes, ReloadsWait, n
    <2>5. Element(inst.imes, index).klass # 0
      <3>1. index + 1 \in 1 .. Len(inst.imes)
        BY <1>1, <2>3, LookupFacts DEF HasElement
      <3>2. QED
        BY <2>3, <2>4, <3>1 DEF Held, Element
    <2>6. Ready(inst', index)
      BY <1>2, <1>5, <2>3, <2>5 DEF Ready
    <2>7. QED
      BY <1>2, <2>1, <2>6 DEF Recalls
  <1>6. QED
    BY <1>4, <1>5

\* The remembered index is the selected one once its method is initialized.
LEMMA InitRecalls ==
    ASSUME Makes, InitIM
    PROVE  Recalls(inst')
  <1> DEFINE n == Len(inst.stack)
             k == Len(inst'.stack)
             last == inst.lastIMIndex
  <1>1. /\ Types /\ Distinct /\ OnTop /\ setup.firstAsInactive
        /\ Making(inst) /\ PlaceOf(inst) = "init" /\ inst \in Instance /\ inst' \in Instance
        /\ n \in Nat /\ n > 1 /\ (n = 2 \/ n > 2) /\ inst.stack # <<>> /\ Wait(n - 1)
        /\ k \in Nat /\ PlaceOf(inst') = inst'.stack[k].at
        /\ Top = inst.stack[n] /\ Top.at = "init"
    <2>1. Top.at = "init"
      BY DEF InitIM, At
    <2>2. QED
      BY <2>1, MakesFacts DEF Makes
  <1>2. n > 2 /\ inst.stack[2].at = "save"
    <2>1. n # 2
      BY <1>1 DEF Making
    <2>2. n > 2
      BY <1>1, <2>1, MakesFacts
    <2>3. QED
      BY <1>1, <2>2 DEF Making
  <1>3. /\ inst'.imes = inst.imes /\ inst'.iIMIndex = inst.iIMIndex
        /\ inst'.lastIMIndex = IF inst.iIMIndex # 0 THEN inst.iIMIndex ELSE last
        /\ (k = n /\ Now(n, "save")) \/ k = n - 1
    BY <1>1, InitIMStep
  <1>4. Ready(inst, Recall(inst)) /\ Recall(inst) # 0
    BY <1>1 DEF Making, Listing, Ready
  <1>5. inst'.lastIMIndex = Recall(inst) /\ Recall(inst') = Recall(inst)
    BY <1>3, <1>4 DEF Recall, Remembered
  <1>6. Ready(inst', Recall(inst'))
    BY <1>3, <1>4, <1>5 DEF Ready
  <1>7. PlaceOf(inst') # "boot" /\ ~(PlaceOf(inst') = "write" /\ k = 2)
    <2>1. CASE k = n /\ Now(n, "save")
      BY <1>1, <2>1 DEF Now
    <2>2. CASE k = n - 1
      <3>1. \A x \in Nat : x > 2 => x - 1 \in 1 .. x /\ x - 1 # 1 /\ x - 1 \in 1 .. x - 1
        OBVIOUS
      <3>2. \A i \in 1 .. n : inst.stack[i].at \in {"boot", "booted"} => i = 1
        BY <1>1, Outermost
      <3> HIDE DEF n
      <3>3. n - 1 \in 1 .. n /\ n - 1 # 1 /\ n - 1 \in 1 .. n - 1
        BY <1>1, <1>2, <3>1
      <3>4. PlaceOf(inst') = inst.stack[n - 1].at
        BY <1>1, <2>2, <3>3 DEF Wait
      <3>5. PlaceOf(inst') # "boot"
        BY <3>2, <3>3, <3>4
      <3>6. k = 2 => PlaceOf(inst') = "save"
        BY <1>2, <2>2, <3>4
      <3>7. QED
        BY <3>5, <3>6
    <2>3. QED
      BY <1>3, <2>1, <2>2
  <1>8. QED
    BY <1>5, <1>6, <1>7 DEF Recalls

\* What is written is the method to return to.
LEMMA SaveRecalls ==
    ASSUME Makes, OpenProfile
    PROVE  Recalls(inst')
  <1> DEFINE n == Len(inst.stack)
             k == Len(inst'.stack)
             last == inst.lastIMIndex
  <1>1. /\ Types /\ setup.firstAsInactive /\ Making(inst) /\ PlaceOf(inst) = "save"
        /\ PlaceOf(inst') = inst'.stack[k].at
    <2>1. Top.at = "save"
      BY DEF OpenProfile, At
    <2>2. QED
      BY <2>1, MakesFacts DEF Makes
  <1>2. /\ inst'.imes = inst.imes /\ inst'.profile = Synced
        /\ inst'.iIMIndex = inst.iIMIndex /\ inst'.lastIMIndex = last
        /\ PlaceOf(inst') = "write"
    BY <1>1, OpenProfileStep DEF SameIndex, Now
  <1>3. Ready(inst, Recall(inst)) /\ last = Recall(inst)
    BY <1>1 DEF Making, Listing
  <1>4. Recall(inst') = Recall(inst)
    BY <1>2 DEF Recall
  <1>5. Ready(inst', Recall(inst'))
    BY <1>2, <1>3, <1>4 DEF Ready
  <1>6. Synced.imName = NameAt(inst, last)
    <2> DEFINE index == IF setup.firstAsInactive /\ inst.iIMIndex = 0 /\ last # 0
                        THEN last ELSE inst.iIMIndex
    <2>1. index = last
      BY <1>1, <1>3 DEF Recall, Remembered
    <2>2. Synced.imName = IF HasElement(inst.imes, index) THEN Element(inst.imes, index).name
                          ELSE NoMethod
      BY DEF Synced
    <2> HIDE DEF index
    <2>3. QED
      BY <2>1, <2>2 DEF NameAt
  <1>7. inst'.profile.imName = NameAt(inst', inst'.lastIMIndex)
    BY <1>2, <1>6 DEF NameAt
  <1>8. QED
    BY <1>2, <1>3, <1>4, <1>5, <1>7 DEF Recalls

LEMMA WrittenRecalls ==
    ASSUME Makes, WriteProfile
    PROVE  Recalls(inst')
  <1> DEFINE n == Len(inst.stack)
             k == Len(inst'.stack)
             last == inst.lastIMIndex
  <1>1. /\ Types /\ Distinct /\ Making(inst) /\ PlaceOf(inst) = "write" /\ inst \in Instance
        /\ n \in Nat /\ n > 1 /\ (n = 2 \/ n > 2) /\ inst.stack # <<>> /\ Wait(n - 1)
        /\ PlaceOf(inst') = inst'.stack[k].at
        /\ Top = inst.stack[n] /\ Top.at = "write"
    <2>1. Top.at = "write"
      BY DEF WriteProfile, At
    <2>2. QED
      BY <2>1, MakesFacts DEF Makes
  <1>2. /\ inst'.imes = inst.imes /\ inst'.profile = inst.profile
        /\ inst'.iIMIndex = inst.iIMIndex /\ inst'.lastIMIndex = last /\ k = n - 1
    BY <1>1, ReturnStep
  <1>3. Ready(inst, Recall(inst)) /\ last = Recall(inst)
    BY <1>1 DEF Making, Listing
  <1>4. Recall(inst') = Recall(inst)
    BY <1>2 DEF Recall
  <1>5. Ready(inst', Recall(inst'))
    BY <1>2, <1>3, <1>4 DEF Ready
  <1>6. PlaceOf(inst') = inst.stack[n - 1].at /\ n - 1 \in 1 .. n
    <2> HIDE DEF n
    <2>1. \A x \in Nat : x > 1 => x - 1 \in 1 .. x /\ x - 1 \in 1 .. x - 1
      OBVIOUS
    <2>2. QED
      BY <1>1, <1>2, <2>1 DEF Wait
  <1>7. PlaceOf(inst') = "boot" => n = 2
    <2>1. \A i \in 1 .. n : inst.stack[i].at \in {"boot", "booted"} => i = 1
      BY <1>1, Outermost
    <2>2. PlaceOf(inst') = "boot" => n - 1 = 1
      BY <1>6, <2>1
    <2> HIDE DEF n
    <2>3. QED
      BY <1>1, <2>2
  <1>8. ~(PlaceOf(inst') = "write" /\ k = 2)
    <2>1. CASE n = 2
      <3>1. k = 1
        BY <1>2, <2>1
      <3>2. QED
        BY <3>1
    <2>2. CASE n > 2
      <3>1. inst.stack[2].at = "save"
        BY <1>1, <2>2 DEF Making
      <3>2. k = 2 => PlaceOf(inst') = "save"
        <4> HIDE DEF n, k
        <4>1. k = 2 => n - 1 = 2
          BY <1>2
        <4>2. QED
          BY <1>6, <3>1, <4>1
      <3>3. QED
        BY <3>2
    <2>3. QED
      BY <2>1, <2>2, MakesFacts
  <1>9. PlaceOf(inst') = "boot" => inst'.profile.imName = NameAt(inst', inst'.lastIMIndex)
    <2>1. PlaceOf(inst') = "boot" => inst.profile.imName = NameAt(inst, last)
      BY <1>1, <1>7 DEF Making
    <2>2. QED
      BY <1>2, <2>1 DEF NameAt
  <1>10. QED
    BY <1>2, <1>3, <1>4, <1>5, <1>8, <1>9 DEF Recalls

LEMMA MakingNext ==
    ASSUME Makes
    PROVE  Making(inst')
  <1>1. Recalls(inst')
    <2>1. ~Boot /\ ~Booted
      BY MakesFacts DEF Boot, Booted, At
    <2>2. Step
      BY DEF Makes
    <2>3. QED
      BY <2>1, <2>2, ListingRecalls, ReloadRecalls, InitRecalls, SaveRecalls, WrittenRecalls
         DEF Step
  <1>2. QED
    BY <1>1, MakesStack DEF Making, Recalls

\* While the daemon is up.
LEMMA UpNext ==
    ASSUME Types, Distinct, Inventory, OnTop, Recalled, Next, life = "up", life' = "up",
           setup.firstAsInactive
    PROVE  inst'.lastIMIndex # 0 /\ Outer(inst') \notin {"boot", "booted"}
  <1> DEFINE n == Len(inst.stack)
             k == Len(inst'.stack)
  <1>1. inst.lastIMIndex # 0 /\ Outer(inst) \notin {"boot", "booted"}
    BY DEF Recalled
  <1>2. k > 0 => Outer(inst') = inst'.stack[1].at
    BY DEF Outer
  <1>3. CASE Step
    <2>1. /\ inst \in Instance /\ inst.stack # <<>> /\ n \in Nat \ {0}
          /\ Top = inst.stack[n] /\ PlaceOf(inst) = Top.at
      BY <1>3, StepKeeps, OnTheTop DEF Types
    <2>2. Top.at \notin {"boot", "booted"}
      <3>1. \A i \in 1 .. n : inst.stack[i].at \in {"boot", "booted"} => i = 1
        BY <2>1, Outermost
      <3>2. n = 1 => Outer(inst) = Top.at
        BY <2>1 DEF Outer
      <3>3. n \in 1 .. n
        <4> HIDE DEF n
        <4>1. QED
          BY <2>1
      <3> HIDE DEF n
      <3>4. QED
        BY <1>1, <2>1, <3>1, <3>2, <3>3
    <2>3. ~Boot /\ ~Booted
      BY <2>2 DEF Boot, Booted, At
    <2>4. Outer(inst') \notin {"boot", "booted"}
      BY <1>1, <1>3, <2>3, OuterNext
    <2>5. inst'.lastIMIndex # 0
      <3>1. CASE InitIM
        BY <1>1, <3>1, InitIMStep
      <3>2. CASE WriteProfile
        <4>1. Top.at # "booted"
          BY <2>2
        <4>2. QED
          BY <1>1, <3>2, <4>1, ReturnStep
      <3>3. CASE Load \/ Reload \/ Clear \/ AddListed \/ AddUnlisted \/ OpenProfile
        <4>1. inst'.lastIMIndex = inst.lastIMIndex
          BY <3>3, LoadStep, ReloadStep, ClearStep, AddListedStep, AddUnlistedStep,
             OpenProfileStep DEF SameIndex
        <4>2. QED
          BY <1>1, <4>1
      <3>4. QED
        BY <1>3, <2>3, <3>1, <3>2, <3>3 DEF Step
    <2>6. QED
      BY <2>4, <2>5
  <1>4. CASE \/ \E index \in {-2, -1} \union (0 .. Len(inst.imes) - 1) : SwitchTo(index)
             \/ TurnInactive \/ TurnActive
    <2>1. inst'.lastIMIndex = inst.lastIMIndex /\ k = 1 /\ Called(1)
      BY <1>4, SelectStep
    <2>2. QED
      BY <1>1, <1>2, <2>1 DEF Called
  <1>5. CASE (\E list \in SettableLists : SetIMList(list)) \/ ReloadConfig
    <2>1. inst'.lastIMIndex = inst.lastIMIndex /\ k = 1 /\ Starts(1)
      BY <1>5, ProfileStep DEF SameIndex
    <2>2. QED
      BY <1>1, <1>2, <2>1 DEF Starts
  <1>6. CASE Hangup
    <2>1. inst'.lastIMIndex = inst.lastIMIndex /\ inst'.stack = inst.stack
      BY <1>6, SignalStep DEF SameIndex
    <2>2. QED
      BY <1>1, <2>1 DEF Outer
  <1>7. QED
    BY <1>3, <1>4, <1>5, <1>6 DEF Next, Outside, Start, Terminate, Kill

\* FcitxInstanceCreate returns with its method selected.
LEMMA BootedUp ==
    ASSUME Types, Distinct, Inventory, OnTop, Recalled, Next, life # "up", life' = "up",
           setup.firstAsInactive
    PROVE  inst'.lastIMIndex # 0 /\ Outer(inst') \notin {"boot", "booted"}
  <1> DEFINE n == Len(inst.stack)
             k == Len(inst'.stack)
  <1>1. Booted
    <2>1. Step
      BY DEF Next, Outside, SwitchTo, TurnInactive, TurnActive, SetIMList, ReloadConfig,
             Call, AtRest, Start, Terminate, Hangup, Kill
    <2>2. QED
      BY <2>1, StepKeeps
  <1>2. /\ inst \in Instance /\ inst' \in Instance /\ inst.stack # <<>> /\ n \in Nat \ {0}
        /\ Top = inst.stack[n] /\ PlaceOf(inst) = Top.at /\ Top.at = "booted"
        /\ life = "boot"
    <2>1. Step /\ Top.at = "booted" /\ life # "down"
      BY <1>1 DEF Step, Booted, At
    <2>2. QED
      BY <2>1, StepKeeps, OnTheTop DEF Types
  <1>3. n = 1
    <2>1. \A i \in 1 .. n : inst.stack[i].at \in {"boot", "booted"} => i = 1
      BY <1>2, Outermost
    <2> HIDE DEF n
    <2>2. QED
      BY <1>2, <2>1
  <1>4. Outer(inst) = "booted"
    BY <1>2, <1>3 DEF Outer
  <1>5. inst.iIMIndex # 0
    BY <1>2, <1>4 DEF Recalled, Selecting
  <1>6. inst'.lastIMIndex = inst.iIMIndex /\ k = 0
    BY <1>1, <1>2, <1>3, ReturnStep
  <1>7. Outer(inst') = "rest"
    <2>1. inst'.stack \in Seq(Frames)
      BY <1>2, InstanceFields
    <2>2. QED
      BY <1>6, <2>1 DEF Outer
  <1>8. QED
    BY <1>5, <1>6, <1>7

LEMMA RecalledNext ==
    ASSUME Types, Distinct, Inventory, OnTop, ReloadsWait, Recalled, Next
    PROVE  Recalled'
  <1> SUFFICES ASSUME setup.firstAsInactive
               PROVE  /\ life' = "up" =>
                           inst'.lastIMIndex # 0 /\ Outer(inst') \notin {"boot", "booted"}
                      /\ life' = "boot" /\ Outer(inst') = "booted" => Selecting(inst')
                      /\ life' = "boot" /\ Outer(inst') = "boot" => Making(inst')
    <2>1. setup' = setup
      BY SameSetup
    <2>2. QED
      BY <2>1 DEF Recalled
  <1>1. ASSUME life' = "up"
        PROVE  inst'.lastIMIndex # 0 /\ Outer(inst') \notin {"boot", "booted"}
    BY <1>1, UpNext, BootedUp
  <1>2. ASSUME life' = "boot"
        PROVE  Start \/ (Step /\ life = "boot")
    <2>1. CASE Step
      <3>1. life' = life \/ life' = "up"
        BY <2>1, StepKeeps
      <3>2. QED
        BY <1>2, <2>1, <3>1
    <2>2. CASE ~Step
      BY <1>2, <2>2 DEF Next, Outside, SwitchTo, TurnInactive, TurnActive, SetIMList,
                        ReloadConfig, Call, AtRest, Terminate, Hangup, Kill
    <2>3. QED
      BY <2>1, <2>2
  <1>3. ASSUME Start
        PROVE  Outer(inst') = "boot" /\ Making(inst')
    <2>1. /\ Len(inst'.stack) = 2 /\ inst'.stack[2].at = "clear" /\ inst'.stack[1].at = "boot"
      BY <1>3, StartStep DEF Starts
    <2>2. Outer(inst') = "boot" /\ PlaceOf(inst') = "clear"
      BY <2>1 DEF Outer, PlaceOf
    <2>3. QED
      BY <2>1, <2>2 DEF Making, Listing
  <1>4. ASSUME life' = "boot", Outer(inst') = "booted"
        PROVE  Selecting(inst')
    BY <1>2, <1>3, <1>4, SelectingNext
  <1>5. ASSUME life' = "boot", Outer(inst') = "boot"
        PROVE  Making(inst')
    <2>1. CASE Start
      BY <1>3, <2>1
    <2>2. CASE Step /\ life = "boot"
      <3>1. Makes
        BY <1>5, <2>2 DEF Makes
      <3>2. QED
        BY <3>1, MakingNext
    <2>3. QED
      BY <1>2, <1>5, <2>1, <2>2
  <1>6. QED
    BY <1>1, <1>4, <1>5

-----------------------------------------------------------------------------
(* The method that is to come back, from the file up to the end of the start. *)

\* A profile asks for a method: not the one that is off with firstAsInactive.
Asks(p, m) ==
    /\ p.imName = m /\ m \in On(p.imList)
    /\ setup.firstAsInactive => TurnedOn(p.imList)[1].name # m

\* A method that did not load is about to be missed.
Losing(s) ==
    \E i \in 1 .. Len(s.stack) :
      s.stack[i].at = "reload" /\ s.stack[i].method \notin s.avail

\* The calls in progress load no other one.
Wanted(s, m) ==
    \A i \in 1 .. Len(s.stack) : s.stack[i].at \in {"load", "reload"} => s.stack[i].method = m

IsCurrent(s, m) == HasElement(s.imes, s.iIMIndex) /\ Element(s.imes, s.iIMIndex).name = m

\* No method failed, the profile asks for m, and m is current once selected.
Tracks(s, m) ==
    /\ Installed(setup.broken) \subseteq s.avail
    /\ On(s.profile.imList) \subseteq Installed(setup.broken)
    /\ Asks(s.profile, m)
    /\ Wanted(s, m)
    /\ PlaceOf(s) \in {"init", "save", "write", "booted", "rest"} => IsCurrent(s, m)

Restoring ==
    promise.current # NoMethod =>
      /\ life = "down" =>
           On(disk.imList) \subseteq Installed(setup.broken) /\ Asks(disk, promise.current)
      /\ life # "down" /\ promise.lost = FALSE => Losing(inst) \/ Tracks(inst, promise.current)

\* What did not load stays away until it is missed, and that is remembered.
LEMMA LosingNext ==
    ASSUME Types, Inventory, Enabled, Step, Next, Losing(inst), promise'.lost = FALSE
    PROVE  Losing(inst')
  <1> DEFINE n == Len(inst.stack)
             k == Len(inst'.stack)
  <1>1. /\ inst \in Instance /\ inst.stack # <<>> /\ n \in Nat \ {0} /\ k \in Nat /\ k >= n - 1
        /\ Wait(n - 1) /\ inst'.avail \subseteq inst.avail /\ life # "down"
        /\ Top = inst.stack[n] /\ PlaceOf(inst) = Top.at
    BY StepKeeps, OnTheTop DEF Types
  <1>2. PICK i \in 1 .. n : inst.stack[i].at = "reload" /\ inst.stack[i].method \notin inst.avail
    BY DEF Losing
  <1>3. CASE i = n
    <2>1. Top.at = "reload" /\ Top.method \notin inst.avail
      BY <1>1, <1>2, <1>3
    <2>2. Reload
      BY <2>1 DEF Step, Load, InitIM, Clear, AddListed, AddUnlisted, OpenProfile,
                  WriteProfile, Boot, Booted, At
    <2>3. Top.method \notin NamesOf(inst.imes)
      BY <1>1, <2>1 DEF Enabled, Listing
    <2>4. promise' = [promise EXCEPT !.lost = TRUE]
      BY <2>2, <2>3 DEF Reload
    <2>5. promise'.lost = TRUE
      BY <2>4 DEF Types, Promise
    <2>6. QED
      BY <2>5
  <1>4. CASE i # n
    <2>1. i \in 1 .. n - 1 /\ i \in 1 .. k
      <3> HIDE DEF n, k
      <3>1. QED
        BY <1>1, <1>4
    <2>2. inst'.stack[i] = inst.stack[i]
      BY <1>1, <2>1 DEF Wait
    <2>3. QED
      BY <1>1, <1>2, <2>1, <2>2 DEF Losing
  <1>5. QED
    BY <1>3, <1>4

\* The method a profile asks for, in entries that follow its list.
LEMMA AskedThere ==
    ASSUME NEW s \in Instance, NEW list \in Seq(Entries), NEW m, Follows(s, list), m \in On(list),
           setup.firstAsInactive => TurnedOn(list)[1].name # m
    PROVE  LET index == GetIMIndexByName(s.imes, m)
           IN /\ HasElement(s.imes, index) /\ Element(s.imes, index).name = m
              /\ Len(s.imes) > 0
              /\ setup.firstAsInactive => index # 0 /\ s.imes[1].name # m
  <1> DEFINE index == GetIMIndexByName(s.imes, m)
  <1>1. /\ m \in NamesOf(s.imes) /\ Len(s.imes) > 0 /\ TurnedOn(list)[1].name = s.imes[1].name
    BY FollowsOn
  <1>2. s.imes \in Seq(IMs)
    BY InstanceFields
  <1>3. HasElement(s.imes, index) /\ Element(s.imes, index).name = m
    BY <1>1, <1>2, LookupFacts
  <1> HIDE DEF index
  <1>4. index = 0 => Element(s.imes, index) = s.imes[1]
    BY DEF Element
  <1>5. QED
    BY <1>1, <1>3, <1>4 DEF index

\* A call that selects the method of the profile selects it then.
LEMMA AskedSelected ==
    ASSUME inst' \in Instance, NEW k, Reselects(k), NEW m, Asks(inst'.profile, m),
           Follows(inst', inst'.profile.imList)
    PROVE  IsCurrent(inst', m) /\ (inst'.stack[k].at = "load" => inst'.stack[k].method = m)
  <1> DEFINE index == GetIMIndexByName(inst'.imes, m)
             list == inst'.profile.imList
  <1>1. list \in Seq(Entries)
    <2>1. inst'.profile \in Profiles
      BY InstanceFields
    <2>2. QED
      BY <2>1 DEF Profiles
  <1>2. inst'.profile.imName = m /\ m \in On(list)
        /\ (setup.firstAsInactive => TurnedOn(list)[1].name # m)
    BY DEF Asks
  <1>3. /\ HasElement(inst'.imes, index) /\ Element(inst'.imes, index).name = m
        /\ setup.firstAsInactive => index # 0
    <2>1. Follows(inst', list)
      OBVIOUS
    <2> HIDE DEF list
    <2>2. QED
      BY <1>1, <1>2, <2>1, AskedThere
  <1>4. /\ HasElement(inst'.imes, index) /\ (setup.firstAsInactive => index # 0) =>
             inst'.iIMIndex = index
        /\ inst'.stack[k].at = "load" =>
             inst'.stack[k].method = Element(inst'.imes, inst'.iIMIndex).name
    BY <1>2 DEF Reselects
  <1>5. QED
    BY <1>3, <1>4 DEF IsCurrent

\* The profile that is saved asks for the method that is current.
LEMMA SyncedAsks ==
    ASSUME Types, Inventory, Enabled, life # "down", PlaceOf(inst) # "clear",
           NEW m, NEW index,
           HasElement(inst.imes, index), Element(inst.imes, index).name = m,
           Synced.imName = NameAt(inst, index),
           setup.firstAsInactive => inst.imes[1].name # m
    PROVE  On(Synced.imList) \subseteq Installed(setup.broken) /\ Asks(Synced, m)
  <1>1. inst \in Instance /\ inst.imes \in Seq(IMs)
    BY InstanceFields DEF Types
  <1>2. /\ On(Synced.imList) = NamesOf(inst.imes) /\ Agrees(inst, Synced.imList)
    BY <1>1, SyncedOn
  <1>3. NamesOf(inst.imes) \subseteq inst.avail /\ inst.avail \subseteq Installed(setup.broken)
    BY DEF Enabled, Inventory
  <1>4. Synced.imName = m
    BY DEF NameAt
  <1>5. index + 1 \in 1 .. Len(inst.imes) /\ inst.imes[index + 1].name = m /\ Len(inst.imes) > 0
        /\ Len(inst.imes) \in Nat
    BY <1>1 DEF HasElement, Element
  <1>6. m \in NamesOf(inst.imes)
    BY <1>5 DEF NamesOf
  <1>7. TurnedOn(Synced.imList)[1].name = inst.imes[1].name
    BY <1>2, <1>5 DEF Agrees
  <1>8. QED
    BY <1>2, <1>3, <1>4, <1>6, <1>7 DEF Asks

\* The frames below the one on top are those of before.
LEMMA WantedBelow ==
    ASSUME NEW m, NEW n \in Nat, NEW k \in Nat, Wanted(inst, m), Wait(n - 1),
           n = Len(inst.stack), k = Len(inst'.stack), k <= n + 1,
           inst'.stack[n].at \in {"load", "reload"} => inst'.stack[n].method = m,
           k = n + 1 /\ inst'.stack[k].at \in {"load", "reload"} => inst'.stack[k].method = m
    PROVE  Wanted(inst', m)
  <1> SUFFICES ASSUME NEW i \in 1 .. k, inst'.stack[i].at \in {"load", "reload"}
               PROVE  inst'.stack[i].method = m
    BY DEF Wanted
  <1>1. CASE i <= n - 1
    <2>1. i \in 1 .. n - 1 /\ i \in 1 .. Len(inst.stack)
      BY <1>1
    <2>2. QED
      BY <2>1 DEF Wait, Wanted
  <1>2. CASE ~(i <= n - 1)
    <2>1. i = n \/ (i = n + 1 /\ k = n + 1)
      BY <1>2
    <2>2. CASE i = n
      BY <2>2
    <2>3. CASE i = n + 1 /\ k = n + 1
      BY <2>3
    <2>4. QED
      BY <2>1, <2>2, <2>3
  <1>3. QED
    BY <1>1, <1>2

\* Reading the list, a method may fail to load.
LEMMA ListingTracks ==
    ASSUME Types, Inventory, Next, NEW m, Tracks(inst, m), Load \/ Clear \/ AddListed
    PROVE  Losing(inst') \/ Tracks(inst', m)
  <1> DEFINE n == Len(inst.stack)
             k == Len(inst'.stack)
  <1>1. /\ inst \in Instance /\ inst.stack # <<>> /\ n \in Nat \ {0} /\ k \in Nat
        /\ Wait(n - 1) /\ inst'.avail \subseteq inst.avail /\ (Load \/ inst'.avail = inst.avail)
        /\ Top = inst.stack[n] /\ PlaceOf(inst) = Top.at
    BY StepKeeps, OnTheTop DEF Types, Step
  <1>2. /\ inst'.profile = inst.profile /\ Wanted(inst, m)
        /\ Installed(setup.broken) \subseteq inst.avail
        /\ On(inst.profile.imList) \subseteq Installed(setup.broken) /\ Asks(inst.profile, m)
    BY LoadStep, ClearStep, AddListedStep DEF Tracks
  <1>3. ASSUME k > 0
        PROVE  PlaceOf(inst') = inst'.stack[k].at
    BY <1>1, <1>3 DEF PlaceOf
  <1>4. CASE Load
    <2>1. /\ k = n + 1 /\ Now(n, "reload") /\ inst'.stack[k].at = "clear"
          /\ \A x \in inst.avail \ inst'.avail : x = Top.method
          /\ Top.at = "load"
      BY <1>4, LoadStep DEF Load, At
    <2>2. n \in 1 .. n /\ n \in 1 .. k /\ k > 0
      <3>1. k = n + 1
        BY <2>1
      <3> HIDE DEF n, k
      <3>2. QED
        BY <1>1, <3>1
    <2>3. Top.method = m
      BY <1>1, <1>2, <2>1, <2>2 DEF Wanted
    <2>4. inst'.stack[n].at = "reload" /\ inst'.stack[n].method = m
      BY <2>1, <2>3 DEF Now
    <2>5. CASE m \notin inst'.avail
      BY <2>2, <2>4, <2>5 DEF Losing
    <2>6. CASE m \in inst'.avail
      <3>1. Installed(setup.broken) \subseteq inst'.avail
        BY <1>1, <1>2, <2>1, <2>3, <2>6
      <3>2. Wanted(inst', m)
        <4>1. k = n + 1 /\ inst'.stack[k].at = "clear"
          BY <2>1
        <4>2. n = Len(inst.stack) /\ k = Len(inst'.stack)
          OBVIOUS
        <4> HIDE DEF n, k
        <4>3. n \in Nat /\ k \in Nat /\ k <= n + 1
          BY <1>1, <4>1
        <4>4. QED
          BY <1>1, <1>2, <2>4, <4>1, <4>2, <4>3, WantedBelow
      <3>3. PlaceOf(inst') = "clear"
        BY <1>3, <2>1, <2>2
      <3>4. QED
        BY <1>2, <3>1, <3>2, <3>3 DEF Tracks
    <2>7. QED
      BY <2>5, <2>6
  <1>5. CASE Clear \/ AddListed
    <2>1. k = n /\ inst'.stack[n].at \in {"listed", "unlisted"} /\ inst'.avail = inst.avail
      BY <1>5, ClearStep, AddListedStep DEF Now, Unloaded
    <2>2. Wanted(inst', m)
      <3>1. n = Len(inst.stack) /\ k = Len(inst'.stack) /\ k = n
        BY <2>1
      <3> HIDE DEF n, k
      <3>2. n \in Nat /\ k \in Nat /\ k <= n + 1 /\ k # n + 1
        BY <1>1, <3>1
      <3>3. QED
        BY <1>1, <1>2, <2>1, <3>1, <3>2, WantedBelow
    <2>3. PlaceOf(inst') \in {"listed", "unlisted"}
      BY <1>1, <1>3, <2>1
    <2>4. QED
      BY <1>2, <2>1, <2>2, <2>3 DEF Tracks
  <1>6. QED
    BY <1>4, <1>5

\* The method of the profile is selected, and loaded if it has to be.
LEMMA SelectTracks ==
    ASSUME Types, Inventory, OnTop, Taken, Taken', Returning', Next,
           NEW m, Tracks(inst, m), AddUnlisted \/ Boot
    PROVE  Tracks(inst', m)
  <1> DEFINE n == Len(inst.stack)
             k == Len(inst'.stack)
  <1>1. /\ inst \in Instance /\ inst' \in Instance /\ inst.stack # <<>>
        /\ n \in Nat \ {0} /\ k \in Nat /\ Wait(n - 1)
    BY StepKeeps, OnTheTop DEF Types, Step
  <1>2. /\ k = n + 1 /\ inst'.profile = inst.profile /\ inst'.avail = inst.avail
        /\ inst'.stack[n].at \in {"save", "booted"} /\ Reselects(k)
    BY AddUnlistedStep, BootStep, ReselectsStep DEF Unloaded, Now
  <1>3. /\ Wanted(inst, m) /\ Installed(setup.broken) \subseteq inst.avail
        /\ On(inst.profile.imList) \subseteq Installed(setup.broken) /\ Asks(inst.profile, m)
    BY DEF Tracks
  <1>4. PlaceOf(inst') = inst'.stack[k].at /\ inst'.stack[k].at \in {"load", "init"}
    BY <1>1, <1>2 DEF PlaceOf, Reselects
  <1>5. Follows(inst', inst'.profile.imList)
    <2>1. On(inst'.profile.imList) \subseteq inst'.avail
      BY <1>2, <1>3
    <2>2. PlaceOf(inst') \notin Listing
      BY <1>4 DEF Listing
    <2>3. (On(inst.profile.imList) \subseteq inst.avail /\ PlaceOf(inst) \notin Listing =>
             Follows(inst, inst.profile.imList))'
      BY DEF Taken
    <2>4. QED
      BY <2>1, <2>2, <2>3
  <1>6. IsCurrent(inst', m) /\ (inst'.stack[k].at = "load" => inst'.stack[k].method = m)
    <2>1. inst'.profile = inst.profile /\ Asks(inst.profile, m) /\ Reselects(k)
      BY <1>2, <1>3
    <2>2. Asks(inst'.profile, m)
      BY <2>1 DEF Asks
    <2> HIDE DEF k
    <2>3. QED
      BY <1>1, <1>5, <2>1, <2>2, AskedSelected
  <1>7. Wanted(inst', m)
    <2>1. n = Len(inst.stack) /\ k = Len(inst'.stack) /\ k = n + 1
      BY <1>2
    <2> HIDE DEF n, k
    <2>2. n \in Nat /\ k <= n + 1
      BY <1>1, <2>1
    <2>3. QED
      BY <1>1, <1>2, <1>3, <1>4, <1>6, <2>1, <2>2, WantedBelow
  <1>8. Asks(inst'.profile, m)
    BY <1>2, <1>3 DEF Asks
  <1>9. QED
    BY <1>2, <1>3, <1>6, <1>7, <1>8 DEF Tracks

\* A call that goes on or returns: its frame waits for nothing any more.
LEMMA ReturnsWanted ==
    ASSUME Types, Inventory, Next, NEW m, Wanted(inst, m),
           Reload \/ InitIM \/ OpenProfile \/ WriteProfile \/ Booted
    PROVE  Wanted(inst', m)
  <1> DEFINE n == Len(inst.stack)
             k == Len(inst'.stack)
  <1>1. n \in Nat \ {0} /\ k \in Nat /\ Wait(n - 1)
    BY StepKeeps, OnTheTop DEF Types, Step
  <1>2. \/ k = n /\ inst'.stack[n].at \in {"init", "save", "write"}
        \/ k = n - 1
    BY ReloadStep, InitIMStep, OpenProfileStep, ReturnStep DEF Now
  <1>3. n = Len(inst.stack) /\ k = Len(inst'.stack)
    OBVIOUS
  <1>4. CASE k = n /\ inst'.stack[n].at \in {"init", "save", "write"}
    <2> HIDE DEF n, k
    <2>1. n \in Nat /\ k <= n + 1 /\ k # n + 1
      BY <1>1, <1>4
    <2>2. QED
      BY <1>1, <1>3, <1>4, <2>1, WantedBelow
  <1>5. CASE k = n - 1
    <2> SUFFICES ASSUME NEW i \in 1 .. k, inst'.stack[i].at \in {"load", "reload"}
                 PROVE  inst'.stack[i].method = m
      BY DEF Wanted
    <2>1. i \in 1 .. n - 1 /\ i \in 1 .. n
      <3> HIDE DEF n, k
      <3>1. QED
        BY <1>1, <1>5
    <2>2. inst'.stack[i] = inst.stack[i] /\ i \in 1 .. Len(inst.stack)
      BY <1>1, <2>1 DEF Wait
    <2>3. QED
      BY <2>2 DEF Wanted
  <1>6. QED
    BY <1>2, <1>4, <1>5

\* It leaves the method that was selected, and selects the one that was loaded.
LEMMA ReturnTracks ==
    ASSUME Types, Inventory, OnTop, Taken, Returning, Next, NEW m, Tracks(inst, m),
           Reload \/ InitIM \/ WriteProfile \/ Booted
    PROVE  Tracks(inst', m)
  <1>1. /\ inst'.imes = inst.imes /\ inst'.profile = inst.profile
        /\ inst'.avail = inst.avail /\ PlaceOf(inst) \notin Listing
    BY QuietStep
  <1>2. /\ Wanted(inst, m) /\ Installed(setup.broken) \subseteq inst.avail
        /\ On(inst.profile.imList) \subseteq Installed(setup.broken) /\ Asks(inst.profile, m)
    BY DEF Tracks
  <1>3. Wanted(inst', m) /\ Asks(inst'.profile, m)
    BY <1>1, <1>2, ReturnsWanted DEF Asks
  <1>4. /\ inst \in Instance /\ inst.stack # <<>> /\ Len(inst.stack) \in Nat \ {0}
        /\ Top = inst.stack[Len(inst.stack)] /\ PlaceOf(inst) = Top.at
    BY StepKeeps, OnTheTop DEF Types, Step
  <1>5. IsCurrent(inst', m)
    <2>1. CASE Reload
      <3> DEFINE list == inst.profile.imList
      <3>1. Top.at = "reload" /\ inst'.iIMIndex = GetIMIndexByName(inst.imes, Top.method)
        BY <2>1, ReloadStep DEF Reload, At
      <3>2. Top.method = m
        <4>1. \A x \in Nat \ {0} : x \in 1 .. x
          OBVIOUS
        <4>2. QED
          BY <1>2, <1>4, <3>1, <4>1 DEF Wanted
      <3>3. Follows(inst, list)
        BY <1>1, <1>2 DEF Taken
      <3>4. list \in Seq(Entries)
        <4>1. inst.profile \in Profiles
          BY <1>4, InstanceFields
        <4>2. QED
          BY <4>1 DEF Profiles
      <3>5. m \in On(list) /\ (setup.firstAsInactive => TurnedOn(list)[1].name # m)
        BY <1>2 DEF Asks
      <3>6. /\ HasElement(inst.imes, GetIMIndexByName(inst.imes, m))
            /\ Element(inst.imes, GetIMIndexByName(inst.imes, m)).name = m
        <4> HIDE DEF list
        <4>1. QED
          BY <1>4, <3>3, <3>4, <3>5, AskedThere
      <3>7. QED
        BY <1>1, <3>1, <3>2, <3>6 DEF IsCurrent
    <2>2. CASE InitIM \/ WriteProfile \/ Booted
      <3>1. Top.at \in {"init", "write", "booted"} /\ inst'.iIMIndex = inst.iIMIndex
        BY <2>2, InitIMStep, ReturnStep DEF InitIM, WriteProfile, Booted, At
      <3>2. IsCurrent(inst, m)
        BY <1>4, <3>1 DEF Tracks
      <3>3. QED
        BY <1>1, <3>1, <3>2 DEF IsCurrent
    <2>3. QED
      BY <2>1, <2>2
  <1>6. QED
    BY <1>1, <1>2, <1>3, <1>5 DEF Tracks

\* What is saved on the way asks for it again.
LEMMA SaveTracks ==
    ASSUME Types, Inventory, Enabled, Taken, Returning, Next, NEW m, Tracks(inst, m), OpenProfile
    PROVE  Tracks(inst', m)
  <1> DEFINE list == inst.profile.imList
             index == IF setup.firstAsInactive /\ inst.iIMIndex = 0 /\ inst.lastIMIndex # 0
                      THEN inst.lastIMIndex ELSE inst.iIMIndex
  <1>1. /\ inst'.imes = inst.imes /\ inst'.profile = Synced /\ inst'.avail = inst.avail
        /\ inst'.iIMIndex = inst.iIMIndex
    BY OpenProfileStep DEF SameIndex, Unloaded
  <1>2. /\ inst \in Instance /\ inst.stack # <<>> /\ PlaceOf(inst) = "save" /\ life # "down"
        /\ list \in Seq(Entries)
    <2>1. inst \in Instance /\ inst.stack # <<>> /\ PlaceOf(inst) = Top.at /\ life # "down"
      BY StepKeeps, OnTheTop DEF Types, Step
    <2>2. Top.at = "save"
      BY DEF OpenProfile, At
    <2>3. inst.profile \in Profiles
      BY <2>1, InstanceFields
    <2>4. QED
      BY <2>1, <2>2, <2>3 DEF Profiles
  <1>3. /\ Wanted(inst, m) /\ Installed(setup.broken) \subseteq inst.avail
        /\ On(list) \subseteq Installed(setup.broken) /\ Asks(inst.profile, m)
        /\ IsCurrent(inst, m)
    BY <1>2 DEF Tracks
  <1>4. Follows(inst, list)
    BY <1>2, <1>3 DEF Taken, Listing
  <1>5. setup.firstAsInactive => inst.imes[1].name # m
    <2>1. m \in On(list) /\ (setup.firstAsInactive => TurnedOn(list)[1].name # m)
      BY <1>3 DEF Asks
    <2> HIDE DEF list
    <2>2. QED
      BY <1>2, <1>4, <2>1, AskedThere
  <1>6. Synced.imName = NameAt(inst, inst.iIMIndex)
    <2>1. Synced.imName = IF HasElement(inst.imes, index) THEN Element(inst.imes, index).name
                          ELSE NoMethod
      BY DEF Synced
    <2>2. setup.firstAsInactive => inst.iIMIndex # 0
      BY <1>3, <1>5 DEF IsCurrent, Element
    <2>3. index = inst.iIMIndex
      BY <2>2
    <2> HIDE DEF index
    <2>4. QED
      BY <2>1, <2>3 DEF NameAt
  <1>7. On(Synced.imList) \subseteq Installed(setup.broken) /\ Asks(Synced, m)
    <2>1. HasElement(inst.imes, inst.iIMIndex) /\ Element(inst.imes, inst.iIMIndex).name = m
      BY <1>3 DEF IsCurrent
    <2>2. QED
      BY <1>2, <1>5, <1>6, <2>1, SyncedAsks
  <1>8. Wanted(inst', m)
    BY <1>3, ReturnsWanted
  <1>9. IsCurrent(inst', m) /\ Asks(inst'.profile, m)
    BY <1>1, <1>3, <1>7 DEF IsCurrent, Asks
  <1>10. QED
    BY <1>1, <1>3, <1>7, <1>8, <1>9 DEF Tracks

\* A signal between two calls leaves the file asking for the method in use.
LEMMA EndAsks ==
    ASSUME Types, Distinct, Inventory, Enabled, Recalled, Terminate, promise'.current # NoMethod
    PROVE  /\ On(disk'.imList) \subseteq Installed(setup.broken)
           /\ Asks(disk', promise'.current)
  <1> DEFINE last == inst.lastIMIndex
             index == IF setup.firstAsInactive /\ inst.iIMIndex = 0 THEN last ELSE inst.iIMIndex
             m == promise'.current
  <1>1. AtRest /\ m = InUse /\ life = "up" /\ disk' = Synced
    <2>1. AtRest /\ m = InUse
      BY SignalCurrent
    <2>2. QED
      BY <2>1, SignalStep DEF Terminate
  <1>2. PlaceOf(inst) # "clear" /\ life # "down" /\ inst \in Instance /\ inst.imes \in Seq(IMs)
        /\ last \in Int /\ inst.iIMIndex \in Int
    BY <1>1, InstanceFields DEF AtRest, PlaceOf, Types
  <1>3. setup.firstAsInactive => last # 0 /\ index # 0
    BY <1>1 DEF Recalled
  <1>4. InUse = IF HasElement(inst.imes, index) THEN Element(inst.imes, index).name ELSE NoMethod
    BY DEF InUse
  <1>5. Synced.imName = NameAt(inst, index)
    <2> DEFINE synced == IF setup.firstAsInactive /\ inst.iIMIndex = 0 /\ last # 0
                         THEN last ELSE inst.iIMIndex
    <2>1. Synced.imName = IF HasElement(inst.imes, synced) THEN Element(inst.imes, synced).name
                          ELSE NoMethod
      BY DEF Synced
    <2>2. synced = index
      BY <1>3
    <2> HIDE DEF synced, index
    <2>3. QED
      BY <2>1, <2>2 DEF NameAt
  <1>6. index \in Int
    BY <1>2
  <1> HIDE DEF index
  <1>7. HasElement(inst.imes, index) /\ Element(inst.imes, index).name = m
    BY <1>1, <1>4
  <1>8. setup.firstAsInactive => inst.imes[1].name # m
    <2>1. index + 1 \in 1 .. Len(inst.imes) /\ inst.imes[index + 1].name = m
          /\ 1 \in 1 .. Len(inst.imes)
      BY <1>2, <1>6, <1>7 DEF HasElement, Element
    <2>2. \A i, j \in 1 .. Len(inst.imes) : inst.imes[i].name = inst.imes[j].name => i = j
      BY <1>2, OnceFacts DEF Distinct
    <2>3. inst.imes[1].name = m => index + 1 = 1
      BY <2>1, <2>2
    <2>4. QED
      BY <1>3, <1>6, <2>3
  <1> HIDE DEF m
  <1>9. On(Synced.imList) \subseteq Installed(setup.broken) /\ Asks(Synced, m)
    BY <1>2, <1>5, <1>7, <1>8, SyncedAsks
  <1>10. QED
    BY <1>1, <1>9 DEF m

\* The daemon starts with all that is installed, and the list of the file.
LEMMA StartTracks ==
    ASSUME Types, Start, Restoring, promise'.current # NoMethod
    PROVE  promise'.current = promise.current /\ Tracks(inst', promise.current)
  <1> DEFINE m == promise.current
  <1>1. life = "down" /\ promise' = [promise EXCEPT !.lost = FALSE] /\ promise \in Promise
    BY DEF Start, Types
  <1>2. promise'.current = m
    BY <1>1 DEF Promise
  <1>3. On(disk.imList) \subseteq Installed(setup.broken) /\ Asks(disk, m)
    BY <1>1, <1>2 DEF Restoring
  <1>4. /\ inst'.profile = disk /\ inst'.avail = Installed(setup.broken)
        /\ Len(inst'.stack) = 2 /\ inst'.stack[2].at = "clear" /\ inst'.stack[1].at = "boot"
    BY StartStep DEF Starts
  <1>5. PlaceOf(inst') = "clear"
    BY <1>4 DEF PlaceOf
  <1>6. Wanted(inst', m)
    BY <1>4 DEF Wanted
  <1>7. Asks(inst'.profile, m)
    BY <1>3, <1>4 DEF Asks
  <1>8. QED
    BY <1>2, <1>3, <1>4, <1>5, <1>6, <1>7 DEF Tracks

LEMMA RestoringNext ==
    ASSUME Types, Distinct, Inventory, OnTop, Enabled, Taken, Taken', Recalled, Restoring, Next
    PROVE  Restoring'
  <1> DEFINE m == promise'.current
  <1>1. setup' = setup
    BY SameSetup
  <1> SUFFICES ASSUME m # NoMethod
               PROVE  /\ life' = "down" =>
                           /\ On(disk'.imList) \subseteq Installed(setup.broken)
                           /\ Asks(disk', m)
                      /\ life' # "down" /\ promise'.lost = FALSE =>
                           Losing(inst') \/ Tracks(inst', m)
    BY <1>1 DEF Restoring, Asks, Tracks
  <1>2. ASSUME life' = "down"
        PROVE  On(disk'.imList) \subseteq Installed(setup.broken) /\ Asks(disk', m)
    <2>1. ~Kill
      BY DEF Kill, Types, Promise
    <2>2. ~Step
      BY <1>2, StepKeeps
    <2>3. Terminate
      BY <1>2, <2>1, <2>2 DEF Next, Outside, SwitchTo, TurnInactive, TurnActive, SetIMList,
                              ReloadConfig, Call, AtRest, Start, Hangup
    <2>4. QED
      BY <2>3, EndAsks
  <1>3. ASSUME life' # "down", promise'.lost = FALSE
        PROVE  Losing(inst') \/ Tracks(inst', m)
    <2>1. Returning'
      BY <1>3 DEF Returning
    <2>2. CASE Start
      BY <2>2, StartTracks
    <2>3. CASE Step /\ Returning
      <3>1. m = promise.current /\ promise.lost = FALSE /\ life # "down"
        BY <1>3, <2>3, StepKeeps
      <3>2. Losing(inst) \/ Tracks(inst, m)
        BY <3>1 DEF Restoring
      <3> HIDE DEF m
      <3>3. CASE Losing(inst)
        BY <1>3, <2>3, <3>3, LosingNext
      <3>4. CASE Tracks(inst, m)
        BY <2>1, <2>3, <3>4, ListingTracks, SelectTracks, ReturnTracks, SaveTracks DEF Step
      <3>5. QED
        BY <3>2, <3>3, <3>4
    <2>4. QED
      BY <2>1, <2>2, <2>3, StillReturning
  <1>4. QED
    BY <1>2, <1>3

RestoreInv == ChoiceInv /\ ReloadsWait /\ Taken /\ Recalled /\ Restoring

LEMMA RestoreInitNext ==
    /\ Init => RestoreInv
    /\ RestoreInv /\ [Next]_vars => RestoreInv'
  <1>1. ASSUME Init
        PROVE  RestoreInv
    <2>1. ChoiceInv /\ ReloadsWait
      BY <1>1, ChoiceInitNext, UsableInitNext DEF UsableInv
    <2>2. life = "down" /\ promise.current = NoMethod
      BY <1>1 DEF Init
    <2>3. Taken /\ Recalled /\ Restoring
      BY <2>2 DEF Taken, Returning, Recalled, Restoring
    <2>4. QED
      BY <2>1, <2>3 DEF RestoreInv
  <1>2. ASSUME RestoreInv, Next
        PROVE  RestoreInv'
    <2>1. ChoiceInv /\ ReloadsWait /\ Taken /\ Recalled /\ Restoring
      BY <1>2 DEF RestoreInv
    <2>2. Types /\ Distinct /\ Inventory /\ OnTop /\ Enabled
      BY <2>1 DEF ChoiceInv
    <2>3. ChoiceInv'
      BY <1>2, <2>1, ChoiceInitNext
    <2>4. ReloadsWait' /\ Taken' /\ Recalled'
      BY <1>2, <2>1, <2>2, ReloadsWaitNext, TakenNext, RecalledNext
    <2>5. Restoring'
      BY <1>2, <2>1, <2>2, <2>4, RestoringNext
    <2>6. QED
      BY <2>3, <2>4, <2>5 DEF RestoreInv
  <1>3. ASSUME RestoreInv, UNCHANGED vars
        PROVE  RestoreInv'
    <2>1. inst' = inst /\ disk' = disk /\ life' = life /\ setup' = setup /\ promise' = promise
      BY <1>3 DEF vars
    <2>2. ChoiceInv'
      BY <1>3, ChoiceInitNext DEF RestoreInv
    <2>3. (ReloadsWait /\ Taken)'
      BY <1>3, <2>1 DEF RestoreInv, ReloadsWait, Taken, Returning
    <2>4. (Recalled /\ Restoring)'
      BY <1>3, <2>1 DEF RestoreInv, Recalled, Restoring, Asks, Tracks
    <2>5. QED
      BY <2>2, <2>3, <2>4 DEF RestoreInv
  <1>4. QED
    BY <1>1, <1>2, <1>3

\* A daemon that a signal ended between two calls, and that was started again,
\* has the method that was in use current (or the one to return to, if
\* firstAsInactive had it off), once FcitxInstanceCreate and its calls are done,
\* unless a method that was to be loaded left the list.
THEOREM RestoredCorrect == Spec => []CurrentRestored
  <1>1. ASSUME RestoreInv
        PROVE  CurrentRestored
    <2> SUFFICES ASSUME AtRest, promise.current # NoMethod, ~promise.lost
                 PROVE  IsCurrent(inst, promise.current)
      BY DEF CurrentRestored, IsCurrent
    <2>1. life # "down" /\ inst.stack = <<>> /\ PlaceOf(inst) = "rest"
      BY DEF AtRest, PlaceOf
    <2>2. promise.lost = FALSE
      BY <1>1 DEF RestoreInv, ChoiceInv, Types, Promise
    <2>3. ~Losing(inst)
      BY <2>1 DEF Losing
    <2>4. Tracks(inst, promise.current)
      BY <1>1, <2>1, <2>2, <2>3 DEF RestoreInv, Restoring
    <2>5. QED
      BY <2>1, <2>4 DEF Tracks
  <1>2. QED
    BY <1>1, RestoreInitNext, PTL DEF Spec

==============================================================================
