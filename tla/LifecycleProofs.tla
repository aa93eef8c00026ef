--------------------------- MODULE LifecycleProofs ----------------------------
(***************************************************************************)
(* What Lifecycle promises whatever addons are installed, enabled and      *)
(* broken, and however often the daemon is asked to exit.                  *)
(*                                                                         *)
(* SavedOnExit.  The main thread may leave the process once the semaphore  *)
(* is posted, so the proof follows a process through the phases in which   *)
(* nothing has been posted yet; Saved is the phase after the first         *)
(* FcitxInstanceEnd, where a second one may only spoil the profile.        *)
(*                                                                         *)
(* InterfaceReady and WorkingAddonsLoaded.  The proof follows the array of *)
(* the addons from step to step of FcitxInstanceCreate: AsRead, Chosen,    *)
(* Backed, Checked.  From Checked on it is known which addons can be       *)
(* loaded; LoadInv says which of them are when the main thread gets to its *)
(* next step, and that they stay loaded in the daemon.                     *)
(***************************************************************************)
EXTENDS Lifecycle, Integers, FiniteSetTheorems, NaturalsInduction, WellFoundedInduction, TLAPS

Startup == {"options", "resolve", "fallback", "dependencies", "modules", "ims",
            "ui", "frontends"}

\* FcitxInstanceCreate loads; there is no event thread.
Starting ==
  /\ at["main"] \in Startup /\ at["event"] = "none"
  /\ ends = 0 /\ sem = 0 /\ unsaved = {} /\ profile = "current"
  /\ at["main"] # "options" => "loaded" \in flags

\* The daemon runs and nobody has asked it to exit.
Running ==
  /\ at["main"] = "wait" /\ at["event"] = "loop"
  /\ ends = 0 /\ sem = 0 /\ profile = "current" /\ "loaded" \in flags

\* The first FcitxInstanceEnd, on thread t, before its sem_post.
Ending(t) ==
  /\ \/ t = "main" /\ at["event"] = "none" /\ unsaved = {}
     \/ t = "event" /\ at["main"] = "wait"
  /\ at[t] \in {"save", "write", "destroy", "post"}
  /\ ends = 1 /\ sem = 0 /\ "loaded" \in flags
  /\ at[t] \in {"destroy", "post"} => "before" \notin unsaved /\ profile = "current"

\* The first FcitxInstanceEnd is done, or a signal saved and the process ended.
Saved ==
  /\ "before" \notin unsaved /\ (ends <= 1 => profile = "current")
  /\ "loaded" \in flags
  /\ at["main"] \in {"wait", "leave", "gone"}
  /\ Gone => at["event"] = "gone"
  /\ ~Gone => ends > 0
  /\ ends <= 1 => at["event"] \notin {"save", "write"}

Place == Startup \cup {"none", "save", "write", "destroy", "post", "wait", "leave",
                      "loop", "gone"}

ControlOK ==
  /\ at \in [Thread -> Place]
  /\ sem \in Nat
  /\ exits \in Nat /\ ends \in Nat

Phase == \/ Starting \/ Running \/ Ending("main") \/ Ending("event") \/ Saved

IInv == ControlOK /\ (setup.option = "run" /\ "crashed" \notin flags => Phase)

-----------------------------------------------------------------------------
LEMMA InitPhase ==
  ASSUME Init
  PROVE  IInv
  BY DEF Init, IInv, ControlOK, Phase, Starting, Startup, Place, Thread

\* Every step leaves the control well typed.
LEMMA NextControl ==
  ASSUME ControlOK, Next
  PROVE  ControlOK'
  <1> USE DEF ControlOK, Goes, past, Ends, Thread, Place, Startup
  <1>1. CASE ProcessOption
    BY <1>1 DEF ProcessOption
  <1>2. CASE Resolve
    BY <1>2 DEF Resolve
  <1>3. CASE LoadModules \/ LoadIMs \/ LoadUI \/ LoadFrontends
    BY <1>3 DEF LoadModules, LoadIMs, LoadUI, LoadFrontends
  <1>4. CASE End("main") \/ End("event")
    BY <1>4 DEF End, OpenProfile, WriteAll, DestroyAll, Post
  <1>5. CASE MainWakes \/ ProcessEnds \/ Learn \/ Exit \/ Terminate
    BY <1>5 DEF MainWakes, ProcessEnds, Learn, Exit, Terminate
  <1>6. QED
    BY <1>1, <1>2, <1>3, <1>4, <1>5 DEF Next, MainStep

\* No step changes the situation, and what is flagged stays so.
LEMMA FlagsStay ==
  ASSUME Next
  PROVE  setup' = setup /\ flags \subseteq flags'
  <1> USE DEF past, Ends
  <1>1. CASE ProcessOption \/ Resolve
    BY <1>1 DEF ProcessOption, Resolve
  <1>2. CASE LoadModules \/ LoadIMs \/ LoadUI \/ LoadFrontends
    BY <1>2 DEF LoadModules, LoadIMs, LoadUI, LoadFrontends
  <1>3. CASE End("main") \/ End("event")
    BY <1>3 DEF End, OpenProfile, WriteAll, DestroyAll, Post
  <1>4. CASE MainWakes \/ ProcessEnds \/ Learn \/ Exit \/ Terminate
    BY <1>4 DEF MainWakes, ProcessEnds, Learn, Exit, Terminate
  <1>5. QED
    BY <1>1, <1>2, <1>3, <1>4 DEF Next, MainStep

\* A process that starts goes on starting, becomes a daemon, or ends because
\* something it needs is missing.
LEMMA StartingNext ==
  ASSUME ControlOK, Next, setup.option = "run", "crashed" \notin flags', Starting
  PROVE  Phase'
  <1> USE DEF ControlOK, Goes, past, Ends, Thread, Starting, Startup
  <1>1. CASE ProcessOption
    BY <1>1 DEF ProcessOption, Phase
  <1>2. CASE Resolve
    BY <1>2 DEF Resolve, Phase
  <1>3. CASE LoadModules \/ LoadUI
    BY <1>3 DEF LoadModules, LoadUI, Phase
  <1>4. CASE LoadIMs
    BY <1>4 DEF LoadIMs, Phase, Ending
  <1>5. CASE LoadFrontends
    BY <1>5 DEF LoadFrontends, Phase, Ending, Running
  <1>6. CASE End("main") \/ End("event") \/ MainWakes \/ ProcessEnds \/ Learn \/ Exit
    BY <1>6 DEF End, OpenProfile, WriteAll, DestroyAll, Post, MainWakes, ProcessEnds, Learn, Exit
  <1>7. CASE Terminate
    BY <1>7 DEF Terminate
  <1>8. QED
    BY <1>1, <1>2, <1>3, <1>4, <1>5, <1>6, <1>7 DEF Next, MainStep

\* The steps of FcitxInstanceCreate need a main thread that starts.
LEMMA OnlyStarting ==
  ASSUME ProcessOption \/ Resolve \/ LoadModules \/ LoadIMs \/ LoadUI \/ LoadFrontends
  PROVE  at["main"] \in Startup
  BY DEF ProcessOption, Resolve, LoadModules, LoadIMs, LoadUI, LoadFrontends, Startup

LEMMA RunningNext ==
  ASSUME ControlOK, Next, setup.option = "run", "crashed" \notin flags', Running
  PROVE  Phase'
  <1> USE DEF ControlOK, Goes, past, Ends, Thread, Running
  <1>1. CASE Learn
    BY <1>1 DEF Learn, Phase
  <1>2. CASE Exit
    BY <1>2 DEF Exit, Phase, Ending
  <1>3. CASE Terminate
    BY <1>3 DEF Terminate, Phase, Saved, Gone
  <1>4. CASE End("main") \/ End("event") \/ MainWakes \/ ProcessEnds
    BY <1>4 DEF End, OpenProfile, WriteAll, DestroyAll, Post, MainWakes, ProcessEnds
  <1>5. QED
    BY <1>1, <1>2, <1>3, <1>4, OnlyStarting DEF Next, MainStep, Startup

\* Nothing is posted before everything is saved.
LEMMA EndingNext ==
  ASSUME ControlOK, Next, setup.option = "run", "crashed" \notin flags',
         NEW t \in Thread, Ending(t)
  PROVE  Phase'
  <1> USE DEF ControlOK, Goes, past, Thread, Ending
  <1>1. CASE OpenProfile(t)
    BY <1>1 DEF OpenProfile, Phase
  <1>2. CASE WriteAll(t)
    BY <1>2 DEF WriteAll, Phase
  <1>3. CASE DestroyAll(t)
    BY <1>3 DEF DestroyAll, Phase
  <1>4. CASE Post(t)
    BY <1>4 DEF Post, Phase, Saved, Gone
  <1>5. CASE Terminate
    BY <1>5 DEF Terminate, Phase, Saved, Gone
  <1>6. CASE \E u \in Thread \ {t} : End(u)
    BY <1>6 DEF End, OpenProfile, WriteAll, DestroyAll, Post
  <1>7. CASE MainWakes \/ ProcessEnds \/ Learn \/ Exit
    BY <1>7 DEF MainWakes, ProcessEnds, Learn, Exit
  <1>8. at["main"] \notin Startup
    BY DEF Startup
  <1>9. QED
    BY <1>1, <1>2, <1>3, <1>4, <1>5, <1>6, <1>7, <1>8, OnlyStarting DEF Next, MainStep, End

LEMMA SavedNext ==
  ASSUME ControlOK, Next, setup.option = "run", "crashed" \notin flags', Saved
  PROVE  Saved'
  <1> USE DEF ControlOK, Goes, past, Thread, Saved, Gone
  <1>1. CASE OpenProfile("event") \/ WriteAll("event")
    BY <1>1 DEF OpenProfile, WriteAll
  <1>2. CASE DestroyAll("event") \/ Post("event")
    BY <1>2 DEF DestroyAll, Post
  <1>3. CASE MainWakes \/ ProcessEnds
    BY <1>3 DEF MainWakes, ProcessEnds
  <1>4. CASE Learn \/ Exit
    BY <1>4 DEF Learn, Exit
  <1>5. CASE Terminate
    BY <1>5 DEF Terminate
  <1>6. CASE End("main")
    BY <1>6 DEF End, OpenProfile, WriteAll, DestroyAll, Post
  <1>7. at["main"] \notin Startup
    BY DEF Startup
  <1>8. QED
    BY <1>1, <1>2, <1>3, <1>4, <1>5, <1>6, <1>7, OnlyStarting DEF Next, MainStep, End

\* The process leaves by its own will only when what was learnt before is
\* saved and the profile is whole: main returns after sem_post, and sem_post
\* is the last thing FcitxInstanceEnd does, whatever could be loaded and
\* whenever a signal or a second request comes.
THEOREM SavedOnExitCorrect == Spec => []SavedOnExit
  <1>1. Init => IInv
    BY InitPhase
  <1>2. IInv /\ [Next]_vars => IInv'
    <2>1. ASSUME IInv, Next PROVE IInv'
      <3>1. ControlOK /\ ControlOK'
        BY <2>1, NextControl DEF IInv
      <3>2. ASSUME setup'.option = "run", "crashed" \notin flags' PROVE Phase'
        <4>1. setup.option = "run" /\ "crashed" \notin flags
          BY <2>1, <3>2, FlagsStay
        <4>2. Phase
          BY <2>1, <4>1 DEF IInv
        <4>3. CASE Saved
          BY <2>1, <3>1, <3>2, <4>1, <4>3, SavedNext DEF Phase
        <4>4. QED
          BY <2>1, <3>1, <3>2, <4>1, <4>2, <4>3, StartingNext, RunningNext, EndingNext
             DEF Phase, Thread
      <3>3. QED
        BY <3>1, <3>2 DEF IInv
    <2>2. ASSUME IInv, UNCHANGED vars PROVE IInv'
      BY <2>2 DEF IInv, vars, past, ControlOK, Phase, Starting, Running, Ending, Saved, Gone
    <2>3. QED
      BY <2>1, <2>2
  <1>3. IInv => SavedOnExit
    BY DEF IInv, SavedOnExit, Phase, Starting, Startup, Running, Ending, Saved, Gone
  <1>4. QED
    BY <1>1, <1>2, <1>3, PTL DEF Spec

-----------------------------------------------------------------------------
(* The array of the addons. *)

\* A set of places that is not empty has a first one.
LEMMA FirstFacts ==
  ASSUME NEW T \in SUBSET Nat, T # {}
  PROVE  First(T) \in T /\ \A m \in T : First(T) <= m
  <1> DEFINE R == OpToRel(<, Nat)
  <1>1. IsWellFoundedOn(R, Nat)
    BY NatLessThanWellFounded
  <1>2. \A x, y \in Nat : <<y, x>> \in R <=> y < x
    BY DEF OpToRel
  <1> HIDE DEF R
  <1>3. PICK n \in T : \A m \in T : ~(<<m, n>> \in R)
    BY <1>1, WFMin, Zenon
  <1>4. ASSUME NEW m \in T
        PROVE  n <= m
    <2>1. n \in Nat /\ m \in Nat
      OBVIOUS
    <2>2. ~(m < n)
      BY <1>2, <1>3, <2>1
    <2>3. QED
      BY <2>1, <2>2
  <1>5. QED
    BY <1>4 DEF First

\* below[m] are the elements before m in a strict order of a finite set.  Every
\* number up to its size is the number of elements below one of them; to put
\* each at the place of this number sorts them.
LEMMA SortedPlaces ==
  ASSUME NEW S, IsFiniteSet(S), NEW below \in [S -> SUBSET S],
         \A m \in S : m \notin below[m],
         \A m, n \in S : m # n => m \in below[n] \/ n \in below[m],
         \A m, n \in S : m \in below[n] => below[m] \subseteq below[n]
  PROVE  /\ \A k \in 1 .. Cardinality(S) : \E m \in S : Cardinality(below[m]) = k - 1
         /\ \A place :
              (\A k \in 1 .. Cardinality(S) :
                 place[k] \in S /\ Cardinality(below[place[k]]) = k - 1)
              => /\ \A m \in S : \E k \in 1 .. Cardinality(S) : place[k] = m
                 /\ \A j, k \in 1 .. Cardinality(S) :
                      /\ place[j] = place[k] => j = k
                      /\ j < k => place[j] \in below[place[k]]
  <1> DEFINE c == Cardinality(S)
             rank == [m \in S |-> Cardinality(below[m])]
  <1>1. c \in Nat
    BY FS_CardinalityType
  <1>2. ASSUME NEW m \in S
        PROVE  IsFiniteSet(below[m]) /\ rank[m] \in 0 .. c - 1
    <2>1. IsFiniteSet(below[m]) /\ Cardinality(below[m]) <= c
      BY FS_Subset
    <2>2. Cardinality(below[m]) \in Nat
      BY <2>1, FS_CardinalityType
    <2>3. m \notin below[m] /\ below[m] \in SUBSET S
      OBVIOUS
    <2>4. Cardinality(below[m]) # c
      BY <2>3, FS_Subset
    <2>5. QED
      BY <1>1, <2>1, <2>2, <2>4
  <1>3. ASSUME NEW m \in S, NEW n \in S, m \in below[n]
        PROVE  rank[m] < rank[n]
    <2>1. below[m] \in SUBSET below[n] /\ m \notin below[m]
      BY <1>3
    <2>2. /\ Cardinality(below[m]) <= Cardinality(below[n])
          /\ Cardinality(below[n]) = Cardinality(below[m]) => below[n] = below[m]
      BY <1>2, <2>1, FS_Subset
    <2>5. rank[m] = Cardinality(below[m]) /\ rank[n] = Cardinality(below[n])
      OBVIOUS
    <2> HIDE DEF rank
    <2>6. rank[m] \in 0 .. c - 1 /\ rank[n] \in 0 .. c - 1
      BY <1>2
    <2> HIDE DEF c
    <2>7. rank[m] \in Int /\ rank[n] \in Int
      BY <1>1, <2>6
    <2>8. QED
      BY <1>3, <2>1, <2>2, <2>5, <2>7
  <1>4. \A m, n \in S : rank[m] = rank[n] => m = n
    <2>1. ASSUME NEW m \in S, NEW n \in S, m # n
          PROVE  rank[m] # rank[n]
      <3>1. rank[m] < rank[n] \/ rank[n] < rank[m]
        BY <1>3, <2>1
      <3>2. rank[m] \in 0 .. c - 1 /\ rank[n] \in 0 .. c - 1
        BY <1>2
      <3> HIDE DEF rank
      <3>3. QED
        BY <1>1, <3>1, <3>2
    <2>2. QED
      BY <2>1
  <1>5. \A k \in 0 .. c - 1 : \E m \in S : rank[m] = k
    <2>1. rank \in [S -> 0 .. c - 1]
      BY <1>2
    <2>2. IsFiniteSet(0 .. c - 1) /\ Cardinality(0 .. c - 1) = c
      <3>1. IsFiniteSet(0 .. c - 1) /\ Cardinality(0 .. c - 1) = IF 0 > c - 1 THEN 0 ELSE c - 1 - 0 + 1
        BY <1>1, FS_Interval, c - 1 \in Int, 0 \in Int
      <3>2. QED
        BY <1>1, <3>1
    <2> HIDE DEF rank
    <2>3. rank \in Injection(S, 0 .. c - 1)
      BY <1>4, <2>1 DEF Injection, IsInjective
    <2>4. rank \in Surjection(S, 0 .. c - 1)
      BY <1>1, <2>2, <2>3, FS_Injection
    <2>5. QED
      BY <2>4 DEF Surjection
  <1>6. ASSUME NEW k \in 1 .. c
        PROVE  \E m \in S : Cardinality(below[m]) = k - 1
    <2>1. k - 1 \in 0 .. c - 1
      BY <1>1
    <2>2. QED
      BY <1>5, <2>1
  <1>7. ASSUME NEW place,
               \A k \in 1 .. Cardinality(S) :
                 place[k] \in S /\ Cardinality(below[place[k]]) = k - 1
        PROVE  /\ \A m \in S : \E k \in 1 .. Cardinality(S) : place[k] = m
               /\ \A j, k \in 1 .. Cardinality(S) :
                    /\ place[j] = place[k] => j = k
                    /\ j < k => place[j] \in below[place[k]]
    <2>1. \A k \in 1 .. c : place[k] \in S /\ rank[place[k]] = k - 1
      BY <1>7
    <2> HIDE DEF rank, c
    <2>2. ASSUME NEW j \in 1 .. c, NEW k \in 1 .. c
          PROVE  /\ place[j] = place[k] => j = k
                 /\ j < k => place[j] \in below[place[k]]
      <3>1. /\ rank[place[j]] = j - 1 /\ rank[place[k]] = k - 1
            /\ place[j] \in S /\ place[k] \in S
        BY <2>1
      <3>2. place[j] = place[k] => j = k
        BY <3>1
      <3>3. ASSUME j < k
            PROVE  place[j] \in below[place[k]]
        <4>1. place[j] # place[k] /\ ~(rank[place[k]] < rank[place[j]])
          BY <3>1, <3>3
        <4>2. QED
          BY <1>3, <3>1, <4>1
      <3>4. QED
        BY <3>2, <3>3
    <2>3. ASSUME NEW m \in S
          PROVE  \E k \in 1 .. c : place[k] = m
      <3>1. rank[m] \in 0 .. c - 1
        BY <1>2
      <3>2. rank[m] + 1 \in 1 .. c /\ (rank[m] + 1) - 1 = rank[m]
        BY <1>1, <3>1
      <3>3. place[rank[m] + 1] \in S /\ rank[place[rank[m] + 1]] = rank[m]
        BY <2>1, <3>2
      <3>4. place[rank[m] + 1] = m
        BY <1>4, <3>3
      <3>5. QED
        BY <3>2, <3>4
    <2>4. QED
      BY <2>2, <2>3 DEF c
  <1>8. \A k \in 1 .. Cardinality(S) :
          \E m \in S : Cardinality(below[m]) = k - 1
    BY <1>6
  <1> HIDE DEF rank, c
  <1>9. QED
    BY <1>7, <1>8, Zenon

\* FcitxAddonsLoad reads every file once, and sorts by priority.
LEMMA LoadFacts ==
  ASSUME setup \in Setups
  PROVE  LET files == setup.files
             load == Load(files)
         IN /\ DOMAIN load = DOMAIN files /\ DOMAIN files \in SUBSET Nat
            /\ \E n \in Nat : DOMAIN files = 1 .. n
            /\ \A k \in DOMAIN load : load[k] \in Addon
            /\ Range(load) = Range(files)
            /\ \A j, k \in DOMAIN load :
                 /\ load[j] = load[k] => j = k
                 /\ j < k => setup.priority[load[j]] <= setup.priority[load[k]]
  <1> DEFINE files == setup.files
             D == DOMAIN files
             n == Len(files)
             before(i, j) == \/ setup.priority[files[i]] < setup.priority[files[j]]
                             \/ setup.priority[files[i]] = setup.priority[files[j]] /\ i < j
             below == [i \in D |-> {j \in D : before(j, i)}]
             choice(k) == CHOOSE i \in D : Cardinality({j \in D : before(j, i)}) = k - 1
             place == [k \in D |-> choice(k)]
  <1>1. /\ files \in Seq(Addon) /\ setup.priority \in [Addon -> Nat]
        /\ \A i, j \in D : files[i] = files[j] => i = j
    BY SetupsAssumption
  <1>2. n \in Nat /\ D = 1 .. n /\ \A i \in D : files[i] \in Addon
    BY <1>1
  <1>3. IsFiniteSet(D) /\ Cardinality(D) = n
    <2>1. IsFiniteSet(1 .. n) /\ Cardinality(1 .. n) = IF 1 > n THEN 0 ELSE n - 1 + 1
      BY <1>2, FS_Interval, 1 \in Int, n \in Int
    <2> HIDE DEF n, D
    <2>2. QED
      BY <1>2, <2>1
  <1>4. below \in [D -> SUBSET D] /\ \A i, j \in D : i \in below[j] <=> before(i, j)
    OBVIOUS
  <1>5. \A i \in D : setup.priority[files[i]] \in Nat /\ i \in Nat
    BY <1>1, <1>2
  <1>6. /\ \A i \in D : i \notin below[i]
        /\ \A i, j \in D : i # j => i \in below[j] \/ j \in below[i]
        /\ \A i, j \in D : i \in below[j] => below[i] \subseteq below[j]
    <2> HIDE DEF below, D, files
    <2>1. QED
      BY <1>4, <1>5
  <1>7. Load(files) = [k \in D |-> files[place[k]]]
    <2>1. Load(files) = [k \in D |-> files[choice(k)]]
      BY DEF Load
    <2> HIDE DEF choice
    <2>2. QED
      BY <2>1
  <1>8. ASSUME NEW k \in 1 .. Cardinality(D)
        PROVE  place[k] \in D /\ Cardinality(below[place[k]]) = k - 1
    <2>1. \E i \in D : Cardinality(below[i]) = k - 1
      <3> HIDE DEF below, D, place, choice, before
      <3>1. QED
        BY <1>3, <1>4, <1>6, SortedPlaces
    <2>2. \A i \in D : below[i] = {j \in D : before(j, i)}
      OBVIOUS
    <2>3. choice(k) \in D /\ Cardinality({j \in D : before(j, choice(k))}) = k - 1
      <3> HIDE DEF before, below
      <3>1. \E i \in D : Cardinality({j \in D : before(j, i)}) = k - 1
        BY <2>1, <2>2
      <3>2. QED
        BY <3>1
    <2>4. place[k] = choice(k)
      <3> HIDE DEF choice
      <3>1. QED
        BY <1>2, <1>3
    <2> HIDE DEF choice, before, place, below
    <2>5. QED
      BY <2>2, <2>3, <2>4
  <1> HIDE DEF below, D, place
  <1>9. \A k \in D : place[k] \in D
    BY <1>2, <1>3, <1>8
  <1>10. /\ \A i \in D : \E k \in D : place[k] = i
         /\ \A j, k \in D : /\ place[j] = place[k] => j = k
                            /\ j < k => place[j] \in below[place[k]]
    <2>1. /\ \A i \in D : \E k \in 1 .. Cardinality(D) : place[k] = i
          /\ \A j, k \in 1 .. Cardinality(D) :
               /\ place[j] = place[k] => j = k
               /\ j < k => place[j] \in below[place[k]]
      BY <1>3, <1>4, <1>6, <1>8, SortedPlaces
    <2>2. QED
      BY <1>2, <1>3, <2>1
  <1> DEFINE load == Load(files)
  <1>11. DOMAIN load = D /\ \A k \in D : load[k] = files[place[k]]
    BY <1>7
  <1> HIDE DEF load
  <1>12. Range(load) = Range(files)
    <2>1. \A k \in D : load[k] \in Range(files)
      BY <1>9, <1>11 DEF Range, D
    <2>2. \A i \in D : files[i] \in Range(load)
      <3>1. ASSUME NEW i \in D
            PROVE  \E k \in D : load[k] = files[i]
        BY <1>10, <1>11
      <3>2. QED
        BY <1>11, <3>1 DEF Range
    <2>3. /\ Range(load) = {load[k] : k \in D}
          /\ Range(files) = {files[k] : k \in D}
      BY <1>11 DEF Range, D
    <2>4. QED
      BY <2>1, <2>2, <2>3
  <1>13. ASSUME NEW j \in D, NEW k \in D
         PROVE  /\ load[j] = load[k] => j = k
                /\ j < k => setup.priority[load[j]] <= setup.priority[load[k]]
    <2>1. /\ place[j] \in D /\ place[k] \in D
          /\ load[j] = files[place[j]] /\ load[k] = files[place[k]]
      BY <1>9, <1>11
    <2>2. load[j] = load[k] => place[j] = place[k]
      BY <1>1, <2>1
    <2>3. ASSUME j < k
          PROVE  setup.priority[load[j]] <= setup.priority[load[k]]
      <3>1. before(place[j], place[k])
        BY <1>4, <1>10, <2>1, <2>3
      <3>2. QED
        BY <1>5, <2>1, <3>1
    <2>4. QED
      BY <1>10, <2>2, <2>3
  <1>14. \A k \in D : load[k] \in Addon
    BY <1>2, <1>9, <1>11
  <1>15. DOMAIN files = D /\ D \in SUBSET Nat /\ D = 1 .. n
    BY <1>2 DEF D
  <1>16. QED
    BY <1>2, <1>11, <1>12, <1>13, <1>14, <1>15 DEF load

\* The array has an element for every file.
Elements == [name: Addon, bEnabled: BOOLEAN]

IsArray(addons) ==
  /\ addons \in Seq(Elements)
  /\ \A i, j \in DOMAIN addons : addons[i].name = addons[j].name => i = j
  /\ {addons[i].name : i \in DOMAIN addons} = Range(setup.files)

Instances ==
  [addons: Seq(Elements), made: SUBSET Addon, eventmodules: SUBSET Addon,
   frontends: SUBSET Addon, ims: SUBSET Addon, ui: Addon \cup {NoAddon},
   uinormal: Addon \cup {NoAddon}, uifallback: Addon \cup {NoAddon}]

IsUI(element) == Category[element.name] = "ui"

\* The array through FcitxInstanceResolveAddonDependency: as it was read and
\* sorted; with the interface that is wanted; with its fallback behind it; without
\* the addons whose dependencies are not enabled.
AsRead(addons) ==
  /\ IsArray(addons)
  /\ \A i \in DOMAIN addons : addons[i].bEnabled <=> addons[i].name \in setup.enabled
  /\ \A i, j \in DOMAIN addons :
       i < j => setup.priority[addons[i].name] <= setup.priority[addons[j].name]

Others(addons) ==
  \A i \in DOMAIN addons :
    ~IsUI(addons[i]) => (addons[i].bEnabled <=> addons[i].name \in setup.enabled)

Chosen(addons) ==
  /\ IsArray(addons) /\ Others(addons)
  /\ \A a \in Addon : Wanted(a) =>
       \A i \in DOMAIN addons :
         IsUI(addons[i]) => (addons[i].bEnabled <=> addons[i].name = a)

Behind(addons, a) ==
  \A i, j \in DOMAIN addons : addons[i].name = a /\ addons[j].name = Fallback[a] => i < j

Backed(addons) ==
  /\ IsArray(addons) /\ Others(addons)
  /\ \A a \in Addon : Wanted(a) =>
       /\ Behind(addons, a)
       /\ \A i \in DOMAIN addons :
            IsUI(addons[i]) => (addons[i].bEnabled <=> addons[i].name \in {a, Fallback[a]})

Satisfied(a) == Depend[a] \subseteq setup.enabled

Checked(addons) ==
  /\ IsArray(addons)
  /\ \A i \in DOMAIN addons : ~IsUI(addons[i]) =>
       (addons[i].bEnabled <=> addons[i].name \in setup.enabled /\ Satisfied(addons[i].name))
  /\ \A a \in Addon : Wanted(a) =>
       /\ Behind(addons, a)
       /\ \A i \in DOMAIN addons : IsUI(addons[i]) =>
            (addons[i].bEnabled <=> addons[i].name \in {a, Fallback[a]} /\ Satisfied(addons[i].name))

LEMMA ListOf ==
  ASSUME NEW T, NEW n \in Nat, NEW list \in [1 .. n -> T]
  PROVE  list \in Seq(T) /\ Len(list) = n /\ DOMAIN list = 1 .. n
  OBVIOUS

LEMMA ReadStep ==
  ASSUME setup \in Setups, inst \in Instances
  PROVE  AsRead(WithAddons(inst).addons) /\ WithAddons(inst) \in Instances
  <1> DEFINE load == Load(setup.files)
             addons == [i \in DOMAIN load |->
                          [name |-> load[i], bEnabled |-> load[i] \in setup.enabled]]
  <1>1. PICK n \in Nat : DOMAIN load = 1 .. n
    BY LoadFacts
  <1>2. /\ \A k \in 1 .. n : load[k] \in Addon
        /\ Range(load) = Range(setup.files)
        /\ \A j, k \in 1 .. n :
             /\ load[j] = load[k] => j = k
             /\ j < k => setup.priority[load[j]] <= setup.priority[load[k]]
    BY <1>1, LoadFacts
  <1> HIDE DEF load
  <1>3. /\ addons \in [1 .. n -> Elements]
        /\ \A i \in 1 .. n : /\ addons[i].name = load[i]
                             /\ addons[i].bEnabled <=> load[i] \in setup.enabled
    <2>1. ASSUME NEW i \in 1 .. n
          PROVE  /\ addons[i] \in Elements /\ addons[i].name = load[i]
                 /\ addons[i].bEnabled <=> load[i] \in setup.enabled
      <3>1. addons[i] = [name |-> load[i], bEnabled |-> load[i] \in setup.enabled]
        BY <1>1
      <3>2. load[i] \in Addon
        BY <1>2
      <3> DEFINE on == load[i] \in setup.enabled
      <3>3. on \in BOOLEAN /\ addons[i] = [name |-> load[i], bEnabled |-> on]
        BY <3>1
      <3> HIDE DEF on, addons
      <3>4. /\ addons[i] \in Elements /\ addons[i].name = load[i]
            /\ addons[i].bEnabled = on
        BY <3>2, <3>3 DEF Elements
      <3>5. QED
        BY <3>4 DEF on
    <2>2. addons = [i \in 1 .. n |-> addons[i]]
      BY <1>1
    <2> HIDE DEF addons
    <2>3. addons \in [1 .. n -> Elements]
      BY <2>1, <2>2
    <2>4. QED
      BY <2>1, <2>3
  <1>4. WithAddons(inst) = [inst EXCEPT !.addons = addons]
    BY DEF WithAddons, load
  <1> HIDE DEF addons
  <1>5. addons \in Seq(Elements) /\ DOMAIN addons = 1 .. n
    BY <1>3, ListOf
  <1>6. {addons[i].name : i \in 1 .. n} = Range(load)
    BY <1>1, <1>3 DEF Range
  <1>7. AsRead(addons)
    BY <1>2, <1>3, <1>5, <1>6 DEF AsRead, IsArray
  <1>8. QED
    BY <1>4, <1>5, <1>7 DEF Instances

-----------------------------------------------------------------------------
(* FcitxInstanceResolveAddonDependency *)

LEMMA ArrayFacts ==
  ASSUME NEW addons, IsArray(addons)
  PROVE  /\ \E n \in Nat : addons \in [1 .. n -> Elements]
         /\ DOMAIN addons \in SUBSET Nat /\ 0 \notin DOMAIN addons
         /\ \A i \in DOMAIN addons :
              addons[i].name \in Addon /\ addons[i].bEnabled \in BOOLEAN
         /\ \A a \in Range(setup.files) : \E i \in DOMAIN addons : addons[i].name = a
  <1>1. addons \in Seq(Elements)
    BY DEF IsArray
  <1>2. Len(addons) \in Nat /\ DOMAIN addons = 1 .. Len(addons)
        /\ addons \in [1 .. Len(addons) -> Elements]
    BY <1>1
  <1>3. \A i \in DOMAIN addons : addons[i].name \in Addon /\ addons[i].bEnabled \in BOOLEAN
    BY <1>2 DEF Elements
  <1>4. \A a \in Range(setup.files) : \E i \in DOMAIN addons : addons[i].name = a
    BY DEF IsArray
  <1>5. DOMAIN addons \in SUBSET Nat /\ 0 \notin DOMAIN addons
    BY <1>2
  <1>6. \E n \in Nat : addons \in [1 .. n -> Elements]
    BY <1>2
  <1>7. QED
    BY <1>3, <1>4, <1>5, <1>6

\* The interface that is wanted is the one that is found, when it is the first
\* of those that are enabled.
LEMMA WantedFound ==
  ASSUME NEW addons, IsArray(addons), NEW a \in Addon, Wanted(a),
         NEW p \in DOMAIN addons, addons[p].name = a,
         setup.uiname = NoAddon =>
           /\ addons[p].bEnabled
           /\ \A i \in DOMAIN addons : IsUI(addons[i]) /\ addons[i].bEnabled => p <= i
  PROVE  UIAddon(addons) = p
  <1> DEFINE UI == {i \in DOMAIN addons : Category[addons[i].name] = "ui"}
             candidates == IF setup.uiname = NoAddon THEN {i \in UI : addons[i].bEnabled}
                           ELSE {i \in UI : addons[i].name = setup.uiname}
  <1>1. p \in UI
    BY DEF Wanted
  <1>2. candidates \in SUBSET Nat
    BY ArrayFacts
  <1>3. p \in candidates
    BY <1>1 DEF Wanted
  <1>4. \A i \in candidates : p <= i
    <2>1. CASE setup.uiname = NoAddon
      BY <2>1 DEF IsUI
    <2>2. CASE setup.uiname # NoAddon
      <3>1. \A i \in candidates : addons[i].name = a /\ i \in DOMAIN addons
        BY <2>2 DEF Wanted
      <3>2. \A i \in candidates : i = p
        BY <3>1 DEF IsArray
      <3>3. QED
        BY <3>2, <1>2, <1>3
    <2>3. QED
      BY <2>1, <2>2
  <1>5. UIAddon(addons) = IF candidates = {} THEN 0 ELSE First(candidates)
    BY DEF UIAddon
  <1> HIDE DEF candidates
  <1>6. First(candidates) \in candidates /\ First(candidates) <= p
    BY <1>2, <1>3, FirstFacts
  <1>7. First(candidates) = p
    <2> DEFINE first == First(candidates)
    <2>1. first \in Nat /\ p \in Nat /\ first <= p /\ p <= first
      BY <1>2, <1>3, <1>4, <1>6
    <2> HIDE DEF first
    <2>2. first = p
      BY <2>1
    <2>3. QED
      BY <2>2 DEF first
  <1>8. QED
    BY <1>3, <1>5, <1>7

LEMMA ChooseStep ==
  ASSUME setup \in Setups, NEW addons, AsRead(addons)
  PROVE  Chosen(ChooseUI(addons))
  <1> DEFINE u == UIAddon(addons)
             new == ChooseUI(addons)
  <1>1. PICK n \in Nat : addons \in [1 .. n -> Elements]
    BY ArrayFacts DEF AsRead
  <1>2. DOMAIN addons = 1 .. n
    BY <1>1
  <1>3. \A i \in 1 .. n : addons[i].name \in Addon /\ addons[i].bEnabled \in BOOLEAN
    BY <1>1 DEF Elements
  <1>4. /\ new \in [1 .. n -> Elements]
        /\ \A i \in 1 .. n : /\ new[i].name = addons[i].name
                             /\ IsUI(addons[i]) => (new[i].bEnabled <=> i = u)
                             /\ ~IsUI(addons[i]) => new[i].bEnabled = addons[i].bEnabled
    <2>1. new = [i \in 1 .. n |-> IF Category[addons[i].name] = "ui"
                                   THEN [addons[i] EXCEPT !.bEnabled = (i = u)] ELSE addons[i]]
      BY <1>2 DEF ChooseUI
    <2> HIDE DEF u, new
    <2>2. ASSUME NEW i \in 1 .. n
          PROVE  /\ new[i] \in Elements /\ new[i].name = addons[i].name
                 /\ IsUI(addons[i]) => (new[i].bEnabled <=> i = u)
                 /\ ~IsUI(addons[i]) => new[i].bEnabled = addons[i].bEnabled
      <3>1. addons[i] \in Elements
        BY <1>1
      <3> DEFINE on == (i = u)
      <3>2. on \in BOOLEAN
        OBVIOUS
      <3>3. new[i] = IF IsUI(addons[i]) THEN [addons[i] EXCEPT !.bEnabled = on] ELSE addons[i]
        BY <2>1 DEF IsUI
      <3> HIDE DEF on
      <3>4. CASE IsUI(addons[i])
        <4>1. new[i] \in Elements /\ new[i].name = addons[i].name /\ new[i].bEnabled = on
          BY <3>1, <3>2, <3>3, <3>4 DEF Elements
        <4>2. QED
          BY <3>4, <4>1 DEF on
      <3>5. QED
        BY <3>1, <3>3, <3>4
    <2>3. QED
      BY <2>1, <2>2
  <1> HIDE DEF new, u
  <1>5. new \in Seq(Elements) /\ DOMAIN new = 1 .. n
    BY <1>4, ListOf
  <1>6. IsArray(new)
    <2>1. {new[i].name : i \in 1 .. n} = {addons[i].name : i \in 1 .. n}
      BY <1>4
    <2>2. QED
      BY <1>2, <1>4, <1>5, <2>1 DEF AsRead, IsArray
  <1>7. Others(new)
    BY <1>2, <1>4, <1>5 DEF AsRead, Others, IsUI
  <1>8. ASSUME NEW a \in Addon, Wanted(a), NEW i \in DOMAIN new, IsUI(new[i])
        PROVE  new[i].bEnabled <=> new[i].name = a
    <2>1. PICK p \in DOMAIN addons : addons[p].name = a
      BY <1>8, ArrayFacts DEF AsRead, Wanted
    <2>2. ASSUME setup.uiname = NoAddon
          PROVE  /\ addons[p].bEnabled
                 /\ \A j \in DOMAIN addons : IsUI(addons[j]) /\ addons[j].bEnabled => p <= j
      <3>1. /\ a \in setup.enabled /\ Category[a] = "ui"
            /\ \A b \in setup.enabled :
                 Category[b] = "ui" => setup.priority[a] <= setup.priority[b]
        BY <1>8, <2>2 DEF Wanted
      <3>2. addons[p].bEnabled
        BY <2>1, <3>1 DEF AsRead
      <3>3. ASSUME NEW j \in DOMAIN addons, IsUI(addons[j]), addons[j].bEnabled
            PROVE  p <= j
        <4> DEFINE b == addons[j].name
        <4>1. b \in setup.enabled /\ Category[b] = "ui" /\ b \in Addon
          BY <1>2, <1>3, <3>3 DEF AsRead, IsUI
        <4>2. setup.priority[a] <= setup.priority[b]
          BY <3>1, <4>1
        <4>3. setup.priority[a] \in Nat /\ setup.priority[b] \in Nat
          BY <4>1, SetupsAssumption
        <4>4. ASSUME j < p
              PROVE  FALSE
          <5>1. setup.priority[b] <= setup.priority[a]
            BY <2>1, <4>4 DEF AsRead
          <5>2. setup.priority[a] = setup.priority[b]
            BY <4>2, <4>3, <5>1
          <5>3. a = b
            BY <3>1, <4>1, <5>2, SetupsAssumption DEF Of
          <5>4. p = j
            BY <2>1, <5>3 DEF AsRead, IsArray
          <5>5. QED
            BY <1>2, <2>1, <4>4, <5>4
        <4>5. QED
          BY <1>2, <2>1, <4>4
      <3>4. QED
        BY <3>2, <3>3
    <2>3. u = p
      BY <1>8, <2>1, <2>2, WantedFound DEF AsRead, u
    <2>4. IsUI(addons[i])
      BY <1>4, <1>5, <1>8 DEF IsUI
    <2>5. i = u <=> addons[i].name = a
      BY <1>2, <1>5, <2>1, <2>3 DEF AsRead, IsArray
    <2>6. QED
      BY <1>4, <1>5, <2>4, <2>5
  <1>9. QED
    BY <1>6, <1>7, <1>8 DEF Chosen, new

LEMMA UIPlace ==
  ASSUME NEW addons, IsArray(addons), UIAddon(addons) # 0
  PROVE  UIAddon(addons) \in DOMAIN addons /\ IsUI(addons[UIAddon(addons)])
  <1> DEFINE UI == {i \in DOMAIN addons : Category[addons[i].name] = "ui"}
             candidates == IF setup.uiname = NoAddon THEN {i \in UI : addons[i].bEnabled}
                           ELSE {i \in UI : addons[i].name = setup.uiname}
  <1>1. UIAddon(addons) = IF candidates = {} THEN 0 ELSE First(candidates)
    BY DEF UIAddon
  <1>2. candidates \in SUBSET UI
    OBVIOUS
  <1> HIDE DEF candidates
  <1>3. candidates \in SUBSET Nat
    BY <1>2, ArrayFacts
  <1>4. candidates # {} /\ UIAddon(addons) \in candidates
    BY <1>1, <1>3, FirstFacts
  <1>5. QED
    BY <1>2, <1>4 DEF IsUI

\* In an array with the wanted interface chosen this is the one found.
LEMMA ChosenFound ==
  ASSUME NEW addons, Chosen(addons), NEW a \in Addon, Wanted(a)
  PROVE  UIAddon(addons) \in DOMAIN addons /\ addons[UIAddon(addons)].name = a
  <1>1. PICK p \in DOMAIN addons : addons[p].name = a
    BY ArrayFacts DEF Chosen, Wanted
  <1>2. addons[p].bEnabled
    BY <1>1 DEF Chosen, Wanted, IsUI
  <1>3. ASSUME NEW i \in DOMAIN addons, IsUI(addons[i]), addons[i].bEnabled
        PROVE  p <= i
    <2>1. addons[i].name = a
      BY <1>3 DEF Chosen
    <2>2. p = i
      BY <1>1, <2>1 DEF Chosen, IsArray
    <2>3. p \in Nat
      BY ArrayFacts DEF Chosen
    <2>4. QED
      BY <2>2, <2>3
  <1>4. UIAddon(addons) = p
    BY <1>1, <1>2, <1>3, WantedFound DEF Chosen
  <1>5. QED
    BY <1>1, <1>4

LEMMA NoFallback ==
  ASSUME NEW addons, Chosen(addons), UIAddon(addons) # 0
         => ~Present(addons, Fallback[addons[UIAddon(addons)].name])
  PROVE  Backed(addons)
  <1>1. ASSUME NEW a \in Addon, Wanted(a)
        PROVE  /\ Behind(addons, a)
               /\ \A i \in DOMAIN addons :
                    IsUI(addons[i]) => (addons[i].bEnabled <=> addons[i].name \in {a, Fallback[a]})
    <2>1. UIAddon(addons) # 0 /\ addons[UIAddon(addons)].name = a
      BY <1>1, ChosenFound, ArrayFacts DEF Chosen
    <2>2. \A i \in DOMAIN addons : addons[i].name # Fallback[a]
      BY <2>1 DEF Present
    <2>3. QED
      BY <1>1, <2>2 DEF Behind, Chosen
  <1>2. QED
    BY <1>1 DEF Chosen, Backed

\* The fallback f of the chosen interface u is enabled, and the two change
\* places when the fallback comes first.
LEMMA FallbackBehind ==
  ASSUME NEW addons, Chosen(addons), NEW n \in Nat, addons \in [1 .. n -> Elements],
         NEW u \in 1 .. n, u = UIAddon(addons), IsUI(addons[u]),
         NEW f \in 1 .. n, addons[f].name = Fallback[addons[u].name]
  PROVE  LET on == [addons EXCEPT ![f].bEnabled = TRUE]
         IN Backed(IF f < u THEN [on EXCEPT ![u] = on[f], ![f] = on[u]] ELSE on)
  <1> DEFINE on == [addons EXCEPT ![f].bEnabled = TRUE]
             new == IF f < u THEN [on EXCEPT ![u] = on[f], ![f] = on[u]] ELSE on
             old == [i \in 1 .. n |-> IF f < u /\ i = u THEN f
                                      ELSE IF f < u /\ i = f THEN u ELSE i]
  <1>1. DOMAIN addons = 1 .. n /\ IsArray(addons) /\ Others(addons)
    BY DEF Chosen
  <1>2. \A i \in 1 .. n : /\ addons[i] \in Elements /\ addons[i].name \in Addon
                          /\ addons[i].bEnabled \in BOOLEAN
    BY DEF Elements
  <1>3. f # u /\ IsUI(addons[f])
    <2>1. addons[u].name \in Of("ui") /\ addons[f].name \in Addon
      BY <1>2 DEF Of, IsUI
    <2>2. addons[f].name \in Of("ui") \ {addons[u].name}
      BY <2>1, FallbackAssumption, LifecycleAssumption
    <2>3. QED
      BY <2>2 DEF Of, IsUI
  <1>4. /\ on \in [1 .. n -> Elements]
        /\ \A i \in 1 .. n : /\ on[i].name = addons[i].name
                             /\ on[i].bEnabled <=> addons[i].bEnabled \/ i = f
    <2>1. on \in [1 .. n -> Elements]
      BY DEF Elements
    <2>2. ASSUME NEW i \in 1 .. n
          PROVE  /\ on[i].name = addons[i].name
                 /\ on[i].bEnabled <=> addons[i].bEnabled \/ i = f
      <3>1. CASE i = f
        BY <3>1 DEF Elements
      <3>2. CASE i # f
        BY <3>2
      <3>3. QED
        BY <3>1, <3>2
    <2>3. QED
      BY <2>1, <2>2
  <1>5. /\ old \in [1 .. n -> 1 .. n]
        /\ \A i \in 1 .. n : old[old[i]] = i
        /\ f < u => old[u] = f /\ old[f] = u
        /\ ~(f < u) => \A i \in 1 .. n : old[i] = i
    BY <1>3
  <1> HIDE DEF on
  <1>6. new \in [1 .. n -> Elements] /\ \A i \in 1 .. n : new[i] = on[old[i]]
    BY <1>4
  <1> HIDE DEF new, old
  <1>7. \A i \in 1 .. n : /\ new[i].name = addons[old[i]].name
                          /\ new[i].bEnabled <=> addons[old[i]].bEnabled \/ old[i] = f
    BY <1>4, <1>5, <1>6
  <1>8. new \in Seq(Elements) /\ DOMAIN new = 1 .. n
    BY <1>6, ListOf
  <1>9. IsArray(new)
    <2>1. ASSUME NEW i \in 1 .. n, NEW j \in 1 .. n, new[i].name = new[j].name
          PROVE  i = j
      <3>1. old[i] \in 1 .. n /\ old[j] \in 1 .. n
        BY <1>5
      <3>2. addons[old[i]].name = addons[old[j]].name
        BY <1>7, <2>1
      <3>3. old[i] = old[j]
        BY <1>1, <3>1, <3>2 DEF IsArray
      <3>4. QED
        BY <1>5, <3>3
    <2>2. {new[i].name : i \in 1 .. n} = {addons[i].name : i \in 1 .. n}
      <3>1. \A i \in 1 .. n : /\ new[i].name = addons[old[i]].name /\ old[i] \in 1 .. n
                              /\ addons[i].name = new[old[i]].name
        BY <1>5, <1>7
      <3>2. QED
        BY <3>1
    <2>3. {addons[i].name : i \in 1 .. n} = Range(setup.files)
      BY <1>1 DEF IsArray
    <2>4. QED
      BY <1>8, <2>1, <2>2, <2>3 DEF IsArray
  <1>10. Others(new)
    <2>1. ASSUME NEW i \in 1 .. n, ~IsUI(new[i])
          PROVE  new[i].bEnabled <=> new[i].name \in setup.enabled
      <3>1. old[i] \in 1 .. n /\ ~IsUI(addons[old[i]])
        BY <1>5, <1>7, <2>1 DEF IsUI
      <3>2. old[i] # f
        BY <1>3, <3>1
      <3>3. addons[old[i]].bEnabled <=> addons[old[i]].name \in setup.enabled
        BY <1>1, <3>1 DEF Others
      <3>4. QED
        BY <1>7, <3>2, <3>3
    <2>2. QED
      BY <1>8, <2>1 DEF Others
  <1>11. ASSUME NEW a \in Addon, Wanted(a)
         PROVE  /\ Behind(new, a)
                /\ \A i \in DOMAIN new :
                     IsUI(new[i]) => (new[i].bEnabled <=> new[i].name \in {a, Fallback[a]})
    <2>1. addons[u].name = a /\ addons[f].name = Fallback[a]
      BY <1>11, ChosenFound
    <2>2. \A i \in 1 .. n : /\ addons[i].name = a <=> i = u
                            /\ addons[i].name = Fallback[a] <=> i = f
      BY <1>1, <2>1 DEF IsArray
    <2>3. ASSUME NEW i \in 1 .. n, NEW j \in 1 .. n,
                 new[i].name = a, new[j].name = Fallback[a]
          PROVE  i < j
      <3>1. old[i] = u /\ old[j] = f
        BY <1>5, <1>7, <2>2, <2>3
      <3>2. i = old[u] /\ j = old[f]
        BY <1>5, <3>1
      <3>3. CASE f < u
        BY <1>5, <3>2, <3>3
      <3>4. CASE ~(f < u)
        BY <1>3, <1>5, <3>2, <3>4
      <3>5. QED
        BY <3>3, <3>4
    <2>4. ASSUME NEW i \in 1 .. n, IsUI(new[i])
          PROVE  new[i].bEnabled <=> new[i].name \in {a, Fallback[a]}
      <3>1. old[i] \in 1 .. n /\ IsUI(addons[old[i]])
        BY <1>5, <1>7, <2>4 DEF IsUI
      <3>2. addons[old[i]].bEnabled <=> addons[old[i]].name = a
        BY <1>1, <1>11, <3>1 DEF Chosen
      <3>3. QED
        BY <1>7, <2>2, <3>1, <3>2
    <2>5. QED
      BY <1>8, <2>3, <2>4 DEF Behind
  <1>12. Backed(new)
    BY <1>9, <1>10, <1>11 DEF Backed
  <1>13. QED
    BY <1>12 DEF new, on

LEMMA BackStep ==
  ASSUME NEW addons, Chosen(addons)
  PROVE  Backed(EnableFallback(addons))
  <1> DEFINE u == UIAddon(addons)
             back == Fallback[addons[u].name]
             f == Index(addons, back)
             on == [addons EXCEPT ![f].bEnabled = TRUE]
             swapped == IF f < u THEN [on EXCEPT ![u] = on[f], ![f] = on[u]] ELSE on
  <1>1. EnableFallback(addons) = IF u = 0 \/ ~Present(addons, back) THEN addons ELSE swapped
    BY DEF EnableFallback
  <1> HIDE DEF swapped, f, u
  <1>2. CASE u = 0 \/ ~Present(addons, back)
    BY <1>1, <1>2, NoFallback DEF u
  <1>3. CASE u # 0 /\ Present(addons, back)
    <2>1. PICK n \in Nat : addons \in [1 .. n -> Elements]
      BY ArrayFacts DEF Chosen
    <2>2. u \in 1 .. n /\ IsUI(addons[u])
      BY <1>3, <2>1, UIPlace DEF Chosen, u
    <2>3. f \in 1 .. n /\ addons[f].name = back
      BY <1>3, <2>1 DEF Present, Index, f
    <2>4. Backed(swapped)
      BY <2>1, <2>2, <2>3, FallbackBehind DEF swapped, u
    <2>5. QED
      BY <1>1, <1>3, <2>4
  <1>4. QED
    BY <1>2, <1>3

\* The addons that others depend on depend on none, so that the verdicts of one
\* pass are those on the addons as they were.
LEMMA OnePass ==
  ASSUME NEW n \in Nat, NEW addons \in [1 .. n -> Elements]
  PROVE  LET final == [i \in 1 .. n |->
                         /\ addons[i].bEnabled
                         /\ \A d \in Depend[addons[i].name] :
                              \E j \in 1 .. n : addons[j].name = d /\ addons[j].bEnabled]
         IN CheckDependencies(addons)
              = [i \in 1 .. n |-> [addons[i] EXCEPT !.bEnabled = final[i]]]
  <1> DEFINE final == [i \in 1 .. n |->
                         /\ addons[i].bEnabled
                         /\ \A d \in Depend[addons[i].name] :
                              \E j \in 1 .. n : addons[j].name = d /\ addons[j].bEnabled]
             pass(s) == [i \in 1 .. n |->
                           /\ addons[i].bEnabled
                           /\ \A d \in Depend[addons[i].name] :
                                \E j \in 1 .. n :
                                  addons[j].name = d /\ IF j < i THEN s[j] ELSE addons[j].bEnabled]
             stays == CHOOSE s : s = pass(s)
  <1>1. DOMAIN addons = 1 .. n
    OBVIOUS
  <1>2. CheckDependencies(addons) = [i \in 1 .. n |-> [addons[i] EXCEPT !.bEnabled = stays[i]]]
    BY <1>1 DEF CheckDependencies
  <1>3. \A i \in 1 .. n : addons[i].name \in Addon /\ addons[i].bEnabled \in BOOLEAN
    BY DEF Elements
  <1>4. \A i \in 1 .. n : \A d \in Depend[addons[i].name] : d \in Addon /\ Depend[d] = {}
    BY <1>3, DependenciesAssumption, LifecycleAssumption
  <1>5. ASSUME NEW s, \A j \in 1 .. n : Depend[addons[j].name] = {}
                                         => (s[j] <=> addons[j].bEnabled)
        PROVE  pass(s) = final
    <2>1. ASSUME NEW i \in 1 .. n
          PROVE  pass(s)[i] = final[i]
      <3>1. ASSUME NEW d \in Depend[addons[i].name], NEW j \in 1 .. n, addons[j].name = d
            PROVE  (IF j < i THEN s[j] ELSE addons[j].bEnabled) <=> addons[j].bEnabled
        <4>1. s[j] <=> addons[j].bEnabled
          BY <1>4, <1>5, <3>1
        <4>2. QED
          BY <4>1
      <3>2. QED
        BY <3>1
    <2>2. QED
      BY <2>1
  <1>6. final = pass(final)
    <2>1. \A j \in 1 .. n : Depend[addons[j].name] = {} => (final[j] <=> addons[j].bEnabled)
      OBVIOUS
    <2> HIDE DEF pass, final
    <2>2. QED
      BY <1>5, <2>1
  <1>7. stays = pass(stays)
    <2> HIDE DEF pass, final
    <2>1. QED
      BY <1>6
  <1>8. \A j \in 1 .. n : Depend[addons[j].name] = {} => (stays[j] <=> addons[j].bEnabled)
    <2> HIDE DEF stays
    <2>1. \A j \in 1 .. n : Depend[addons[j].name] = {} => (pass(stays)[j] <=> addons[j].bEnabled)
      OBVIOUS
    <2>2. QED
      BY <1>7, <2>1
  <1>9. stays = final
    <2> HIDE DEF stays, final, pass
    <2>1. QED
      BY <1>5, <1>7, <1>8
  <1>10. QED
    BY <1>2, <1>9

LEMMA CheckStep ==
  ASSUME setup \in Setups, NEW addons, Backed(addons)
  PROVE  Checked(CheckDependencies(addons))
  <1>1. PICK n \in Nat : addons \in [1 .. n -> Elements]
    BY ArrayFacts DEF Backed
  <1> DEFINE new == CheckDependencies(addons)
             final == [i \in 1 .. n |->
                         /\ addons[i].bEnabled
                         /\ \A d \in Depend[addons[i].name] :
                              \E j \in 1 .. n : addons[j].name = d /\ addons[j].bEnabled]
  <1>2. new = [i \in 1 .. n |-> [addons[i] EXCEPT !.bEnabled = final[i]]]
    BY <1>1, OnePass
  <1>3. \A i \in 1 .. n : addons[i].name \in Addon /\ addons[i].bEnabled \in BOOLEAN
    BY <1>1 DEF Elements
  <1>4. DOMAIN addons = 1 .. n
    BY <1>1
  <1>5. ASSUME NEW d \in Addon, Category[d] # "ui"
        PROVE  (\E j \in 1 .. n : addons[j].name = d /\ addons[j].bEnabled) <=> d \in setup.enabled
    <2>1. \A j \in 1 .. n : addons[j].name = d => (addons[j].bEnabled <=> d \in setup.enabled)
      BY <1>4, <1>5 DEF Backed, Others, IsUI
    <2>2. d \in setup.enabled => \E j \in 1 .. n : addons[j].name = d
      BY <1>4, ArrayFacts, SetupsAssumption DEF Backed
    <2>3. QED
      BY <2>1, <2>2
  <1>6. ASSUME NEW i \in 1 .. n
        PROVE  /\ final[i] \in BOOLEAN
               /\ final[i] <=> addons[i].bEnabled /\ Satisfied(addons[i].name)
    <2>1. \A d \in Depend[addons[i].name] : d \in Addon /\ Category[d] # "ui"
      BY <1>3, DependenciesAssumption, LifecycleAssumption
    <2>2. Satisfied(addons[i].name) <=> \A d \in Depend[addons[i].name] : d \in setup.enabled
      BY DEF Satisfied
    <2>3. final[i] = (/\ addons[i].bEnabled
                      /\ \A d \in Depend[addons[i].name] :
                           \E j \in 1 .. n : addons[j].name = d /\ addons[j].bEnabled)
      OBVIOUS
    <2> HIDE DEF final
    <2>4. QED
      BY <1>3, <1>5, <2>1, <2>2, <2>3
  <1> HIDE DEF final, new
  <1>7. ASSUME NEW i \in 1 .. n
        PROVE  /\ new[i] \in Elements /\ new[i].name = addons[i].name
               /\ new[i].bEnabled <=> addons[i].bEnabled /\ Satisfied(addons[i].name)
    <2>1. new[i] = [addons[i] EXCEPT !.bEnabled = final[i]] /\ addons[i] \in Elements
      BY <1>1, <1>2
    <2>2. final[i] \in BOOLEAN
      BY <1>6
    <2>3. new[i] \in Elements /\ new[i].name = addons[i].name /\ new[i].bEnabled = final[i]
      BY <2>1, <2>2 DEF Elements
    <2>4. QED
      BY <1>6, <2>3
  <1>8. new \in Seq(Elements) /\ DOMAIN new = 1 .. n
    <2>1. new \in [1 .. n -> Elements]
      BY <1>2, <1>7
    <2>2. QED
      BY <2>1, ListOf
  <1>9. IsArray(new)
    <2>1. {new[i].name : i \in 1 .. n} = {addons[i].name : i \in 1 .. n}
      BY <1>7
    <2>2. QED
      BY <1>4, <1>7, <1>8, <2>1 DEF Backed, IsArray
  <1>10. \A i \in DOMAIN new : ~IsUI(new[i]) =>
           (new[i].bEnabled <=> new[i].name \in setup.enabled /\ Satisfied(new[i].name))
    BY <1>4, <1>7, <1>8 DEF Backed, Others, IsUI
  <1>11. ASSUME NEW a \in Addon, Wanted(a)
         PROVE  /\ Behind(new, a)
                /\ \A i \in DOMAIN new : IsUI(new[i]) =>
                     (new[i].bEnabled <=> new[i].name \in {a, Fallback[a]} /\ Satisfied(new[i].name))
    <2>1. /\ Behind(addons, a)
          /\ \A i \in 1 .. n :
               IsUI(addons[i]) => (addons[i].bEnabled <=> addons[i].name \in {a, Fallback[a]})
      BY <1>4, <1>11 DEF Backed
    <2>2. Behind(new, a)
      BY <1>4, <1>7, <1>8, <2>1 DEF Behind
    <2>3. QED
      BY <1>7, <1>8, <2>1, <2>2 DEF IsUI
  <1>12. QED
    BY <1>9, <1>10, <1>11 DEF Checked, new

-----------------------------------------------------------------------------
(* Loading *)

\* What Create of an addon of the kind needs is of another kind, so that the
\* order in which they are called does not matter.
LEMMA CreatedFacts ==
  ASSUME NEW d, IsArray(d.addons), NEW kind \in SUBSET Addon,
         \A a \in kind : Needs[a] \intersect kind = {}
  PROVE  /\ Created(d, kind) \in SUBSET kind
         /\ \A a \in kind :
              a \in Created(d, kind) <=>
                /\ Available(d.addons, a)
                /\ a \notin setup.broken /\ Needs[a] \subseteq d.made
  <1> DEFINE D == DOMAIN d.addons
             name(i) == d.addons[i].name
             pass(c) == [i \in D |->
                           /\ i \in Enabled(d, kind)
                           /\ name(i) \notin setup.broken
                           /\ \A m \in Needs[name(i)] :
                                m \in d.made \/ \E j \in 1 .. i - 1 : name(j) = m /\ c[j]]
             final == [i \in D |-> /\ i \in Enabled(d, kind)
                                   /\ name(i) \notin setup.broken
                                   /\ \A m \in Needs[name(i)] : m \in d.made]
             creates == CHOOSE c : c = pass(c)
  <1>1. Created(d, kind) = {name(i) : i \in {j \in D : creates[j]}}
    BY DEF Created
  <1>2. PICK n \in Nat : D = 1 .. n
    BY ArrayFacts
  <1>3. \A i \in D : i \in Enabled(d, kind) <=> d.addons[i].bEnabled /\ name(i) \in kind
    <2>1. \A i \in D : d.addons[i].bEnabled \in BOOLEAN
      BY ArrayFacts
    <2>2. QED
      BY <2>1 DEF Enabled
  <1>4. ASSUME NEW c, \A j \in D : c[j] => name(j) \in kind
        PROVE  pass(c) = final
    <2>1. ASSUME NEW i \in D
          PROVE  pass(c)[i] = final[i]
      <3>1. ASSUME i \in Enabled(d, kind), NEW m \in Needs[name(i)],
                   NEW j \in 1 .. i - 1, name(j) = m, c[j]
            PROVE  FALSE
        <4>1. j \in D /\ name(i) \in kind
          BY <1>2, <1>3, <3>1
        <4>2. m \in kind
          BY <1>4, <3>1, <4>1
        <4>3. QED
          BY <3>1, <4>1, <4>2
      <3> HIDE DEF name
      <3>2. QED
        BY <3>1
    <2>2. QED
      BY <2>1
  <1>5. final = pass(final)
    <2>1. \A j \in D : final[j] => name(j) \in kind
      BY <1>3
    <2> HIDE DEF final, pass, name
    <2>2. QED
      BY <1>4, <2>1
  <1>6. creates = pass(creates)
    <2> HIDE DEF pass, final
    <2>1. QED
      BY <1>5
  <1>7. \A j \in D : creates[j] => name(j) \in kind
    <2> HIDE DEF creates
    <2>1. \A j \in D : pass(creates)[j] => j \in Enabled(d, kind)
      OBVIOUS
    <2>2. QED
      BY <1>3, <1>6, <2>1
  <1>8. creates = final
    <2> HIDE DEF creates, final, pass, name, D
    <2>1. QED
      BY <1>4, <1>6, <1>7
  <1>9. \A i \in D : creates[i] <=>
          /\ d.addons[i].bEnabled /\ name(i) \in kind /\ name(i) \notin setup.broken
          /\ Needs[name(i)] \subseteq d.made
    BY <1>3, <1>8
  <1> HIDE DEF creates, final, pass
  <1>10. ASSUME NEW a \in kind
         PROVE  a \in Created(d, kind) <=>
                  /\ Available(d.addons, a)
                  /\ a \notin setup.broken /\ Needs[a] \subseteq d.made
    <2>1. a \in Created(d, kind) <=> \E i \in D : creates[i] /\ name(i) = a
      BY <1>1
    <2>2. Available(d.addons, a) <=> \E i \in D : name(i) = a /\ d.addons[i].bEnabled
      BY DEF Available
    <2>3. QED
      BY <1>9, <2>1, <2>2
  <1>11. Created(d, kind) \in SUBSET kind
    BY <1>1, <1>9
  <1>12. QED
    BY <1>10, <1>11

\* No interface is loaded.
NoUI(d) == d.uinormal = NoAddon /\ d.uifallback = NoAddon

\* The addons that have an instance when those of the kind are loaded, besides
\* the interfaces; and the modules whose events wake the daemon.
LoadedOf(d, kind) ==
  \A a \in Addon : Category[a] # "ui" => (a \in d.made <=> a \in kind /\ Works(a))

Listens(d) ==
  \A a \in Addon : a \in d.eventmodules <=> a \in Of("module") \intersect EventModule /\ Works(a)

AtStart  == Of("module") \cup SelfRegistered
InDaemon == AtStart \cup Of("frontend")

ReadyUI(d) ==
  \A a \in Addon : Wanted(a) =>
    LET back == IF Present(d.addons, Fallback[a]) /\ Works(Fallback[a])
                  THEN Fallback[a] ELSE NoAddon
    IN IF Works(a) THEN d.uinormal = a /\ d.uifallback = back
                   ELSE d.uinormal = back /\ d.uifallback = NoAddon

Finishing == {"save", "write", "destroy", "post"}

\* What FcitxInstanceCreate has done when the main thread gets to its next step.
StartOK ==
  /\ at["main"] \in {"options", "resolve", "fallback", "dependencies", "modules"} =>
       inst.made = {} /\ NoUI(inst)
  /\ at["main"] = "resolve" => AsRead(inst.addons)
  /\ at["main"] = "fallback" => Chosen(inst.addons)
  /\ at["main"] = "dependencies" => Backed(inst.addons)
  /\ at["main"] \in {"modules", "ims", "ui", "frontends"} => Checked(inst.addons)
  /\ at["main"] \in {"ims", "ui"} => NoUI(inst)
  /\ at["main"] \in {"ims", "ui", "frontends"} => Listens(inst)
  /\ at["main"] = "ims" => LoadedOf(inst, Of("module"))
  /\ at["main"] \in {"ui", "frontends"} => LoadedOf(inst, AtStart)

\* What holds then until FcitxInstanceEnd destroys it.
DaemonOK ==
  /\ at["event"] \in {"loop"} \cup Finishing =>
       LoadedOf(inst, InDaemon) /\ inst.eventmodules # {}
  /\ at["main"] \in {"frontends", "wait"} /\ ends = 0 => ReadyUI(inst)

\* The event thread is started last; who finishes has called FcitxInstanceEnd.
OrderOK ==
  /\ at["main"] \in Startup => at["event"] = "none"
  /\ \A t \in Thread : at[t] \in Finishing => ends > 0

LoadInv ==
  /\ ControlOK /\ setup \in Setups /\ inst \in Instances
  /\ StartOK /\ DaemonOK /\ OrderOK

-----------------------------------------------------------------------------
\* An addon is available after the check when its dependencies are enabled.
LEMMA AvailableFacts ==
  ASSUME setup \in Setups, NEW addons, Checked(addons), NEW a \in Addon, Category[a] # "ui"
  PROVE  Available(addons, a) <=> a \in setup.enabled /\ Satisfied(a)
  <1>1. \A i \in DOMAIN addons : addons[i].name = a =>
          (addons[i].bEnabled <=> a \in setup.enabled /\ Satisfied(a))
    BY DEF Checked, IsUI
  <1>2. a \in setup.enabled => \E i \in DOMAIN addons : addons[i].name = a
    BY ArrayFacts, SetupsAssumption DEF Checked
  <1>3. QED
    BY <1>1, <1>2 DEF Available

\* With the modules loaded that work, Create fails for no want of a module when
\* none of those it needs is broken.
LEMMA NeedsMade ==
  ASSUME NEW d, \A m \in Of("module") : m \in d.made <=> Works(m),
         NEW a \in Addon, Satisfied(a)
  PROVE  Needs[a] \subseteq d.made <=> Needs[a] \intersect setup.broken = {}
  <1>1. ASSUME NEW m \in Needs[a]
        PROVE  m \in d.made <=> m \notin setup.broken
    <2>1. m \in Of("module") /\ m \in Depend[a]
      BY DependenciesAssumption, LifecycleAssumption
    <2>2. m \in setup.enabled /\ Depend[m] = {} /\ Needs[m] = {}
      BY <2>1, DependenciesAssumption DEF Satisfied
    <2>3. Works(m) <=> m \notin setup.broken
      BY <2>2 DEF Works
    <2>4. QED
      BY <2>1, <2>3
  <1>2. QED
    BY <1>1

LEMMA CreatedWorking ==
  ASSUME setup \in Setups, NEW d, Checked(d.addons), NEW kind \in SUBSET Addon,
         \A a \in kind : Category[a] # "ui",
         \/ kind = Of("module")
         \/ /\ kind \intersect Of("module") = {}
            /\ \A m \in Of("module") : m \in d.made <=> Works(m)
  PROVE  /\ Created(d, kind) \in SUBSET kind
         /\ \A a \in kind : a \in Created(d, kind) <=> Works(a)
  <1>1. \A a \in kind : Needs[a] \intersect kind = {}
    BY DependenciesAssumption
  <1>2. IsArray(d.addons)
    BY DEF Checked
  <1>3. ASSUME NEW a \in kind
        PROVE  a \in Created(d, kind) <=> Works(a)
    <2>1. a \in Created(d, kind) <=>
            /\ a \in setup.enabled /\ Satisfied(a)
            /\ a \notin setup.broken /\ Needs[a] \subseteq d.made
      BY <1>1, <1>2, CreatedFacts, AvailableFacts
    <2>2. Satisfied(a) => (Needs[a] \subseteq d.made <=> Needs[a] \intersect setup.broken = {})
      <3>1. CASE kind = Of("module")
        BY <3>1, DependenciesAssumption
      <3>2. CASE \A m \in Of("module") : m \in d.made <=> Works(m)
        BY <3>2, NeedsMade
      <3>3. QED
        BY <3>1, <3>2
    <2>3. Works(a) <=> /\ a \in setup.enabled /\ Satisfied(a)
                       /\ a \notin setup.broken /\ Needs[a] \intersect setup.broken = {}
      BY DEF Works, Satisfied
    <2>4. QED
      BY <2>1, <2>2, <2>3
  <1>4. QED
    BY <1>1, <1>2, <1>3, CreatedFacts

LEMMA ModulesStep ==
  ASSUME setup \in Setups, inst \in Instances, Checked(inst.addons),
         inst.made = {}, NoUI(inst)
  PROVE  LET e == ModuleLoad(inst)
         IN /\ e \in Instances /\ e.addons = inst.addons /\ NoUI(e)
            /\ LoadedOf(e, Of("module")) /\ Listens(e)
  <1> DEFINE e == ModuleLoad(inst)
             new == Created(inst, Of("module"))
  <1>1. new \in SUBSET Of("module") /\ \A a \in Of("module") : a \in new <=> Works(a)
    BY CreatedWorking DEF Of
  <1>2. e = [inst EXCEPT !.made = @ \cup new, !.eventmodules = new \intersect EventModule]
    BY DEF ModuleLoad
  <1> HIDE DEF e, new
  <1>3. new \in SUBSET Addon
    BY <1>1 DEF Of
  <1>4. /\ e \in Instances /\ e.addons = inst.addons
        /\ e.uinormal = inst.uinormal /\ e.uifallback = inst.uifallback
        /\ e.made = new /\ e.eventmodules = new \intersect EventModule
    BY <1>2, <1>3 DEF Instances
  <1>5. QED
    BY <1>1, <1>4 DEF NoUI, LoadedOf, Listens, e

\* The methods that register themselves, and the frontends, are loaded when
\* those before them are.
LEMMA MoreLoaded ==
  ASSUME setup \in Setups, NEW d, Checked(d.addons), NEW kind \in SUBSET Addon,
         LoadedOf(d, kind), Of("module") \subseteq kind,
         NEW more \in SUBSET (Addon \ kind), \A a \in more : Category[a] # "ui",
         NEW e, e.made = d.made \cup Created(d, more)
  PROVE  LoadedOf(e, kind \cup more)
  <1>1. \A m \in Of("module") : m \in d.made <=> Works(m)
    BY DEF LoadedOf, Of
  <1>2. /\ Created(d, more) \in SUBSET more
        /\ \A a \in more : a \in Created(d, more) <=> Works(a)
    BY <1>1, CreatedWorking
  <1>3. QED
    BY <1>2 DEF LoadedOf

LEMMA IMsStep ==
  ASSUME setup \in Setups, inst \in Instances, Checked(inst.addons),
         LoadedOf(inst, Of("module")), Listens(inst), NoUI(inst)
  PROVE  LET e == LoadAllIM(inst)
         IN /\ e \in Instances /\ e.addons = inst.addons /\ NoUI(e)
            /\ LoadedOf(e, AtStart) /\ Listens(e)
  <1> DEFINE e == LoadAllIM(inst)
             self == Created(inst, SelfRegistered)
             files == {inst.addons[i].name : i \in Enabled(inst, Of("im") \ SelfRegistered)}
  <1>1. e = [inst EXCEPT !.made = @ \cup self, !.ims = self \cup files]
    BY DEF LoadAllIM
  <1>2. IsArray(inst.addons)
    BY DEF Checked
  <1>3. files \in SUBSET Addon
    BY <1>2, ArrayFacts DEF Enabled
  <1>4. /\ SelfRegistered \in SUBSET (Addon \ Of("module"))
        /\ \A a \in SelfRegistered : Category[a] # "ui"
    BY DependenciesAssumption DEF Of
  <1>5. self \in SUBSET Addon
    <2>1. \A m \in Of("module") : m \in inst.made <=> Works(m)
      BY DEF LoadedOf, Of
    <2>2. SelfRegistered \in SUBSET Addon /\ SelfRegistered \intersect Of("module") = {}
      BY <1>4
    <2>3. self \in SUBSET SelfRegistered
      BY <1>4, <2>1, <2>2, CreatedWorking
    <2>4. QED
      BY <2>2, <2>3
  <1> HIDE DEF e, files, self
  <1>6. /\ e \in Instances /\ e.addons = inst.addons
        /\ e.uinormal = inst.uinormal /\ e.uifallback = inst.uifallback
        /\ e.made = inst.made \cup self /\ e.eventmodules = inst.eventmodules
    BY <1>1, <1>3, <1>5 DEF Instances
  <1>7. LoadedOf(e, AtStart)
    <2>1. Of("module") \in SUBSET Addon
      BY DEF Of
    <2>2. QED
      BY <1>4, <1>6, <2>1, MoreLoaded DEF AtStart, self
  <1>8. QED
    BY <1>6, <1>7 DEF NoUI, Listens, e

LEMMA FrontendsStep ==
  ASSUME setup \in Setups, inst \in Instances, Checked(inst.addons),
         LoadedOf(inst, AtStart), Listens(inst)
  PROVE  LET e == LoadFrontend(inst)
         IN /\ e \in Instances /\ e.addons = inst.addons
            /\ e.uinormal = inst.uinormal /\ e.uifallback = inst.uifallback
            /\ LoadedOf(e, InDaemon)
            /\ e.frontends # {} => e.eventmodules # {}
  <1> DEFINE e == LoadFrontend(inst)
             new == Created(inst, Of("frontend"))
  <1>1. e = [inst EXCEPT !.made = @ \cup new, !.frontends = new]
    BY DEF LoadFrontend
  <1>2. /\ Of("frontend") \in SUBSET (Addon \ AtStart) /\ AtStart \in SUBSET Addon
        /\ \A a \in Of("frontend") : Category[a] # "ui"
        /\ Of("module") \subseteq AtStart
    BY DependenciesAssumption DEF Of, AtStart
  <1>3. \A m \in Of("module") : m \in inst.made <=> Works(m)
    BY <1>2 DEF LoadedOf, Of
  <1>4. new \in SUBSET Of("frontend") /\ \A a \in Of("frontend") : a \in new <=> Works(a)
    BY <1>2, <1>3, CreatedWorking
  <1>5. new \in SUBSET Addon
    BY <1>2, <1>4
  <1> HIDE DEF e, new
  <1>6. /\ e \in Instances /\ e.addons = inst.addons
        /\ e.uinormal = inst.uinormal /\ e.uifallback = inst.uifallback
        /\ e.made = inst.made \cup new /\ e.frontends = new
        /\ e.eventmodules = inst.eventmodules
    BY <1>1, <1>5 DEF Instances
  <1>7. LoadedOf(e, InDaemon)
    BY <1>2, <1>6, MoreLoaded DEF InDaemon, new
  <1>8. ASSUME NEW a \in new
        PROVE  e.eventmodules # {}
    <2>1. a \in Of("frontend") /\ Works(a) /\ a \in Addon
      BY <1>4, <1>5
    <2>2. PICK m \in Needs[a] : m \in EventModule
      BY <2>1, DependenciesAssumption
    <2>3. m \in Of("module") /\ m \in Depend[a] /\ Depend[m] = {} /\ Needs[m] = {}
      BY <2>1, DependenciesAssumption, LifecycleAssumption
    <2>4. Works(m)
      BY <2>1, <2>3 DEF Works
    <2>5. m \in e.eventmodules
      BY <1>6, <2>2, <2>3, <2>4 DEF Listens, Of
    <2>6. QED
      BY <2>5
  <1>9. QED
    BY <1>6, <1>7, <1>8 DEF e

\* FcitxUILoad, whatever the interfaces: it changes the interfaces only.
LEMMA UIKeeps ==
  ASSUME inst \in Instances, IsArray(inst.addons)
  PROVE  LET e == UILoad(inst)
             uis == {i \in Enabled(inst, Of("ui")) : Creates(inst, inst.addons[i].name)}
             normal == inst.addons[First(uis)].name
             back == Fallback[normal]
         IN /\ e \in Instances /\ e.addons = inst.addons
            /\ e.eventmodules = inst.eventmodules
            /\ \A a \in Addon : Category[a] # "ui" => (a \in e.made <=> a \in inst.made)
            /\ uis = {} => e.uinormal = inst.uinormal /\ e.uifallback = inst.uifallback
            /\ uis # {} =>
                 /\ First(uis) \in uis /\ \A i \in uis : First(uis) <= i
                 /\ e.uinormal = normal
                 /\ e.uifallback = IF /\ Available(inst.addons, back)
                                      /\ Creates(inst, back)
                                     THEN back ELSE inst.uifallback
  <1> DEFINE e == UILoad(inst)
             uis == {i \in Enabled(inst, Of("ui")) : Creates(inst, inst.addons[i].name)}
             normal == inst.addons[First(uis)].name
             back == Fallback[normal]
             chosen == [Made(inst, normal) EXCEPT !.uinormal = normal, !.ui = normal]
             stands == back \in Addon /\ Available(chosen.addons, back) /\ Creates(chosen, back)
  <1>1. e = IF uis = {} THEN inst
            ELSE IF stands THEN [Made(chosen, back) EXCEPT !.uifallback = back] ELSE chosen
    BY DEF UILoad
  <1>2. uis \in SUBSET DOMAIN inst.addons
    BY DEF Enabled
  <1>3. \A i \in uis : inst.addons[i].name \in Of("ui")
    BY DEF Enabled
  <1> HIDE DEF uis, stands
  <1>4. CASE uis = {}
    <2>1. e = inst
      BY <1>1, <1>4
    <2> HIDE DEF e
    <2>2. QED
      BY <1>4, <2>1 DEF e, uis
  <1>5. CASE uis # {}
    <2>1. First(uis) \in uis /\ \A i \in uis : First(uis) <= i
      BY <1>2, <1>5, ArrayFacts, FirstFacts
    <2>2. normal \in Addon /\ Category[normal] = "ui"
      BY <1>3, <2>1 DEF Of
    <2> HIDE DEF normal
    <2>3. /\ chosen \in Instances /\ chosen.addons = inst.addons
          /\ chosen.made = inst.made \cup {normal} /\ chosen.uinormal = normal
          /\ chosen.uifallback = inst.uifallback
          /\ chosen.eventmodules = inst.eventmodules
      BY <2>2 DEF Made, Instances
    <2>4. back \in Addon \cup {NoAddon}
      BY <2>2, LifecycleAssumption
    <2>5. back \in Addon => /\ Category[back] = "ui"
                            /\ Creates(chosen, back) <=> Creates(inst, back)
      <3>1. ASSUME back \in Addon
            PROVE  /\ Category[back] = "ui"
                   /\ Creates(chosen, back) <=> Creates(inst, back)
        <4>1. normal \in Of("ui") /\ back # NoAddon
          BY <2>2, <3>1, LifecycleAssumption DEF Of
        <4>2. back \in Of("ui")
          BY <4>1, FallbackAssumption
        <4>3. Needs[back] \subseteq Of("module") /\ normal \notin Of("module")
          BY <2>2, <3>1, DependenciesAssumption DEF Of
        <4>4. Needs[back] \subseteq chosen.made <=> Needs[back] \subseteq inst.made
          BY <2>3, <4>3
        <4>5. QED
          BY <4>2, <4>4 DEF Of, Creates
      <3>2. QED
        BY <3>1
    <2>6. Available(inst.addons, back) => back \in Addon
      BY ArrayFacts DEF Available
    <2>7. stands <=> Available(inst.addons, back) /\ Creates(inst, back)
      BY <2>3, <2>5, <2>6 DEF stands
    <2> HIDE DEF chosen, back, e
    <2>8. CASE stands
      <3>1. back \in Addon /\ Category[back] = "ui"
        BY <2>5, <2>6, <2>7, <2>8
      <3>2. e = [[chosen EXCEPT !.made = @ \cup {back}] EXCEPT !.uifallback = back]
        BY <1>1, <1>5, <2>8 DEF Made
      <3>3. /\ e \in Instances /\ e.addons = inst.addons
            /\ e.eventmodules = inst.eventmodules
            /\ e.made = chosen.made \cup {back}
            /\ e.uinormal = normal /\ e.uifallback = back
        BY <2>3, <3>1, <3>2 DEF Instances
      <3>4. \A a \in Addon : Category[a] # "ui" => (a \in e.made <=> a \in inst.made)
        BY <2>2, <2>3, <3>1, <3>3
      <3>5. QED
        BY <1>5, <2>1, <2>7, <2>8, <3>3, <3>4 DEF e, back, normal, uis
    <2>9. CASE ~stands
      <3>1. e = chosen
        BY <1>1, <1>5, <2>9
      <3>2. \A a \in Addon : Category[a] # "ui" => (a \in e.made <=> a \in inst.made)
        BY <2>2, <2>3, <3>1
      <3>3. QED
        BY <1>5, <2>1, <2>3, <2>7, <2>9, <3>1, <3>2 DEF e, back, normal, uis
    <2>10. QED
      BY <2>8, <2>9
  <1>6. QED
    BY <1>4, <1>5

\* The interfaces that can be loaded are the wanted one and its fallback, if
\* they are installed and work.
LEMMA UIUsable ==
  ASSUME setup \in Setups, inst \in Instances, Checked(inst.addons),
         LoadedOf(inst, AtStart), NEW a \in Addon, Wanted(a)
  PROVE  /\ \A i \in DOMAIN inst.addons :
              i \in Enabled(inst, Of("ui")) /\ Creates(inst, inst.addons[i].name) <=>
                inst.addons[i].name \in {a, Fallback[a]} /\ Works(inst.addons[i].name)
         /\ \A b \in Of("ui") :
              Available(inst.addons, b) /\ Creates(inst, b) <=>
                Present(inst.addons, b) /\ b \in {a, Fallback[a]} /\ Works(b)
  <1> DEFINE addons == inst.addons
  <1>1. IsArray(addons) /\ \A i \in DOMAIN addons : addons[i].name \in Addon
    BY ArrayFacts DEF Checked
  <1>2. \A m \in Of("module") : m \in inst.made <=> Works(m)
    BY DEF LoadedOf, Of, AtStart
  <1>3. ASSUME NEW b \in Of("ui")
        PROVE  Satisfied(b) /\ Creates(inst, b) <=> Works(b)
    <2>1. b \in Addon /\ Category[b] = "ui"
      BY DEF Of
    <2>2. Satisfied(b) => (Needs[b] \subseteq inst.made <=> Needs[b] \intersect setup.broken = {})
      BY <1>2, <2>1, NeedsMade
    <2>3. QED
      BY <2>1, <2>2 DEF Works, Creates, Satisfied
  <1>4. a \in Of("ui") /\ Fallback[a] \in Of("ui") \cup {NoAddon} /\ NoAddon \notin Addon
    <2>1. a \in Of("ui")
      BY DEF Wanted, Of
    <2>2. QED
      BY <2>1, FallbackAssumption, LifecycleAssumption
  <1>5. ASSUME NEW i \in DOMAIN addons
        PROVE  IsUI(addons[i]) =>
                 (addons[i].bEnabled <=> addons[i].name \in {a, Fallback[a]} /\ Satisfied(addons[i].name))
    BY DEF Checked
  <1>6. ASSUME NEW i \in DOMAIN addons
        PROVE  i \in Enabled(inst, Of("ui")) /\ Creates(inst, addons[i].name) <=>
                 addons[i].name \in {a, Fallback[a]} /\ Works(addons[i].name)
    <2>1. i \in Enabled(inst, Of("ui")) <=> addons[i].bEnabled /\ addons[i].name \in Of("ui")
      BY DEF Enabled
    <2>2. addons[i].name \in Addon
      BY <1>1
    <2>3. addons[i].name \in {a, Fallback[a]} => addons[i].name \in Of("ui")
      BY <1>4, <2>2
    <2>4. addons[i].name \in Of("ui") => IsUI(addons[i])
      BY DEF Of, IsUI
    <2> HIDE DEF addons
    <2>5. QED
      BY <1>3, <1>5, <2>1, <2>3, <2>4
  <1>7. ASSUME NEW b \in Of("ui")
        PROVE  Available(addons, b) /\ Creates(inst, b) <=>
                 Present(addons, b) /\ b \in {a, Fallback[a]} /\ Works(b)
    <2>1. \A i \in DOMAIN addons : addons[i].name = b =>
            (addons[i].bEnabled <=> b \in {a, Fallback[a]} /\ Satisfied(b))
      BY <1>5 DEF IsUI, Of
    <2> HIDE DEF addons
    <2>2. Available(addons, b) <=> Present(addons, b) /\ b \in {a, Fallback[a]} /\ Satisfied(b)
      BY <2>1 DEF Available, Present
    <2>3. QED
      BY <1>3, <2>2
  <1>8. QED
    BY <1>6, <1>7

LEMMA UIStep ==
  ASSUME setup \in Setups, inst \in Instances, Checked(inst.addons),
         LoadedOf(inst, AtStart), NoUI(inst)
  PROVE  ReadyUI(UILoad(inst))
  <1> DEFINE e == UILoad(inst)
             addons == inst.addons
             uis == {i \in Enabled(inst, Of("ui")) : Creates(inst, inst.addons[i].name)}
             normal == inst.addons[First(uis)].name
  <1>1. IsArray(addons) /\ \A i \in DOMAIN addons : addons[i].name \in Addon
    BY ArrayFacts DEF Checked
  <1>2. /\ e.addons = addons
        /\ uis = {} => e.uinormal = NoAddon /\ e.uifallback = NoAddon
        /\ uis # {} =>
             /\ First(uis) \in uis /\ \A i \in uis : First(uis) <= i
             /\ e.uinormal = normal
             /\ e.uifallback = IF /\ Available(addons, Fallback[normal])
                                  /\ Creates(inst, Fallback[normal])
                                 THEN Fallback[normal] ELSE NoAddon
    BY <1>1, UIKeeps DEF NoUI
  <1>3. ASSUME NEW a \in Addon, Wanted(a)
        PROVE  LET back == IF Present(addons, Fallback[a]) /\ Works(Fallback[a])
                             THEN Fallback[a] ELSE NoAddon
               IN IF Works(a) THEN e.uinormal = a /\ e.uifallback = back
                              ELSE e.uinormal = back /\ e.uifallback = NoAddon
    <2>1. \A i \in DOMAIN addons :
            i \in uis <=> addons[i].name \in {a, Fallback[a]} /\ Works(addons[i].name)
      BY <1>3, UIUsable
    <2>2. uis \in SUBSET DOMAIN addons
      BY DEF Enabled
    <2>3. \A b \in Of("ui") :
            Available(addons, b) /\ Creates(inst, b) <=>
              Present(addons, b) /\ b \in {a, Fallback[a]} /\ Works(b)
      BY <1>3, UIUsable
    <2>4. a \in Of("ui")
      BY <1>3 DEF Wanted, Of
    <2>5. \A b \in Of("ui") : Fallback[b] # b /\ (Fallback[b] \in Of("ui") \/ Fallback[b] = NoAddon)
      BY FallbackAssumption, LifecycleAssumption DEF Of
    <2>6. ~Present(addons, NoAddon) /\ ~Available(addons, NoAddon)
      BY <1>1, LifecycleAssumption DEF Present, Available
    <2>7. PICK p \in DOMAIN addons : addons[p].name = a
      BY <1>1, <1>3, ArrayFacts DEF Wanted
    <2>8. \A i \in DOMAIN addons : addons[i].name = Fallback[a] => p < i
      BY <1>3, <2>7 DEF Checked, Behind
    <2>9. DOMAIN addons \in SUBSET Nat
      BY <1>1, ArrayFacts
    <2>10. \A i \in DOMAIN addons : addons[i].name = a => i = p
      BY <1>1, <2>7 DEF IsArray
    <2> HIDE DEF uis, e, addons
    <2>11. CASE Works(a)
      <3>1. p \in uis
        BY <2>1, <2>7, <2>11
      <3>2. First(uis) \in uis /\ First(uis) <= p /\ First(uis) \in DOMAIN addons
        BY <1>2, <2>2, <3>1
      <3>3. addons[First(uis)].name = a
        <4>1. addons[First(uis)].name \in {a, Fallback[a]}
          BY <2>1, <3>2
        <4>2. addons[First(uis)].name # Fallback[a]
          BY <2>8, <2>9, <3>2
        <4>3. QED
          BY <4>1, <4>2
      <3>4. normal = a /\ e.uinormal = a
        BY <1>2, <3>1, <3>3 DEF addons
      <3>5. e.uifallback = IF Available(addons, Fallback[a]) /\ Creates(inst, Fallback[a])
                             THEN Fallback[a] ELSE NoAddon
        BY <1>2, <3>1, <3>4
      <3> HIDE DEF normal
      <3>6. CASE Fallback[a] = NoAddon
        BY <2>6, <2>11, <3>4, <3>5, <3>6
      <3>7. CASE Fallback[a] \in Of("ui")
        BY <2>3, <2>11, <3>4, <3>5, <3>7
      <3>8. QED
        BY <2>4, <2>5, <3>6, <3>7
    <2>12. CASE ~Works(a) /\ Present(addons, Fallback[a]) /\ Works(Fallback[a])
      <3>1. PICK q \in DOMAIN addons : addons[q].name = Fallback[a]
        BY <2>12 DEF Present
      <3>2. q \in uis
        BY <2>1, <2>12, <3>1
      <3>3. First(uis) \in uis /\ First(uis) \in DOMAIN addons
        BY <1>2, <2>2, <3>2
      <3>4. addons[First(uis)].name = Fallback[a]
        BY <2>1, <2>12, <3>3
      <3>5. normal = Fallback[a] /\ e.uinormal = Fallback[a]
        BY <1>2, <3>2, <3>4 DEF addons
      <3>6. e.uifallback = IF /\ Available(addons, Fallback[Fallback[a]])
                              /\ Creates(inst, Fallback[Fallback[a]])
                             THEN Fallback[Fallback[a]] ELSE NoAddon
        BY <1>2, <3>2, <3>5
      <3> HIDE DEF normal
      <3>7. Fallback[a] \in Of("ui")
        BY <2>4, <2>5, <2>6, <2>12
      <3>8. CASE Fallback[Fallback[a]] = NoAddon
        BY <2>12, <3>5, <3>6, <3>8
      <3>9. CASE Fallback[Fallback[a]] \in Of("ui")
        <4>1. Fallback[Fallback[a]] # Fallback[a]
          BY <2>5, <3>7
        <4>2. ~(Available(addons, Fallback[Fallback[a]]) /\ Creates(inst, Fallback[Fallback[a]]))
          BY <2>3, <2>12, <3>9, <4>1
        <4>3. QED
          BY <2>12, <3>5, <3>6, <4>2
      <3>10. QED
        BY <2>5, <3>7, <3>8, <3>9
    <2>13. CASE ~Works(a) /\ ~(Present(addons, Fallback[a]) /\ Works(Fallback[a]))
      <3>1. ASSUME NEW i \in uis
            PROVE  FALSE
        <4>1. /\ i \in DOMAIN addons /\ addons[i].name \in {a, Fallback[a]}
              /\ Works(addons[i].name)
          BY <2>1, <2>2
        <4>2. addons[i].name = Fallback[a] => Present(addons, Fallback[a])
          BY <4>1 DEF Present
        <4>3. QED
          BY <2>13, <4>1, <4>2
      <3>2. uis = {}
        BY <3>1
      <3>3. QED
        BY <1>2, <2>13, <3>2
    <2>14. QED
      BY <2>11, <2>12, <2>13
  <1>4. QED
    BY <1>2, <1>3 DEF ReadyUI

-----------------------------------------------------------------------------
(* The start, step by step *)

LEMMA LoadInvInit ==
  ASSUME Init
  PROVE  LoadInv
  <1>1. /\ at["main"] = "options" /\ at["event"] = "none"
        /\ at \in [Thread -> Place]
    BY DEF Init, Thread, Place, Startup
  <1>2. inst \in Instances
    <2>1. <<>> \in Seq(Elements)
      OBVIOUS
    <2>2. QED
      BY <2>1 DEF Init, Instances
  <1>3. \A t \in Thread : at[t] \notin Finishing
    BY <1>1 DEF Thread, Finishing
  <1>4. ControlOK
    BY <1>1 DEF Init, ControlOK
  <1>5. StartOK
    BY <1>1 DEF Init, StartOK, NoUI
  <1>6. DaemonOK
    BY <1>1 DEF DaemonOK, Finishing
  <1>7. QED
    BY <1>1, <1>2, <1>3, <1>4, <1>5, <1>6 DEF Init, LoadInv, OrderOK

\* What the main thread does while it starts leaves it starting, or finishing,
\* or waiting with the event thread in its loop.
LEMMA StartingStep ==
  ASSUME LoadInv, at["main"] \in Startup, at'["event"] = "none", at' \in [Thread -> Place],
         ControlOK', setup' = setup, inst' \in Instances, StartOK',
         at'["main"] \in Finishing => ends' > 0,
         at'["main"] \in Startup \cup Finishing,
         at'["main"] = "frontends" => ReadyUI(inst)'
  PROVE  LoadInv'
  <1>1. at'["main"] # "wait" /\ at'["event"] \notin {"loop"} \cup Finishing
    BY DEF Startup, Finishing
  <1>2. DaemonOK'
    BY <1>1 DEF DaemonOK
  <1>3. OrderOK'
    BY <1>1 DEF OrderOK, Thread
  <1>4. QED
    BY <1>2, <1>3 DEF LoadInv

LEMMA OptionsStep ==
  ASSUME LoadInv, ProcessOption, ControlOK'
  PROVE  LoadInv'
  <1>1. /\ at["main"] = "options" /\ at["event"] = "none" /\ at \in [Thread -> Place]
        /\ setup \in Setups /\ inst \in Instances /\ setup' = setup
        /\ inst.made = {} /\ NoUI(inst)
    BY DEF ProcessOption, LoadInv, StartOK, OrderOK, ControlOK, Startup
  <1>2. CASE setup.option = "help"
    <2>1. inst' = inst /\ at' = [at EXCEPT !["main"] = "save"] /\ ends' = ends + 1
      BY <1>2 DEF ProcessOption, Ends, Goes
    <2>2. at'["main"] = "save" /\ at'["event"] = "none"
      BY <1>1, <2>1 DEF Thread
    <2>3. StartOK'
      BY <2>2 DEF StartOK
    <2>4. ends' > 0
      BY <2>1 DEF LoadInv, ControlOK
    <2>5. QED
      BY <1>1, <2>1, <2>2, <2>3, <2>4, StartingStep DEF Startup, Finishing, ControlOK
  <1>3. CASE setup.option # "help"
    <2>1. inst' = WithAddons(inst) /\ at' = [at EXCEPT !["main"] = "resolve"]
      BY <1>3 DEF ProcessOption, Goes
    <2>2. at'["main"] = "resolve" /\ at'["event"] = "none"
      BY <1>1, <2>1 DEF Thread
    <2>3. AsRead(inst.addons)' /\ inst' \in Instances
      <3>1. AsRead(WithAddons(inst).addons) /\ WithAddons(inst) \in Instances
        BY <1>1, ReadStep
      <3>2. QED
        BY <1>1, <2>1, <3>1 DEF AsRead, IsArray
    <2>4. inst'.made = {} /\ NoUI(inst)'
      BY <1>1, <2>1 DEF WithAddons, NoUI, Instances
    <2>5. StartOK'
      BY <2>2, <2>3, <2>4 DEF StartOK
    <2>6. QED
      BY <1>1, <2>1, <2>2, <2>3, <2>5, StartingStep DEF Startup, Finishing, ControlOK
  <1>4. QED
    BY <1>2, <1>3

LEMMA ResolveStep ==
  ASSUME LoadInv, Resolve, ControlOK'
  PROVE  LoadInv'
  <1>1. /\ at["main"] \in {"resolve", "fallback", "dependencies"}
        /\ at["event"] = "none" /\ at \in [Thread -> Place]
        /\ setup \in Setups /\ inst \in Instances /\ setup' = setup
        /\ inst.made = {} /\ NoUI(inst)
    BY DEF Resolve, LoadInv, StartOK, OrderOK, ControlOK, Startup
  <1>2. ASSUME NEW addons \in Seq(Elements), inst' = Resolved(addons)
        PROVE  inst' \in Instances /\ inst'.addons = addons /\ inst'.made = {} /\ NoUI(inst)'
    BY <1>1, <1>2 DEF Resolved, Instances, NoUI
  <1>3. CASE at["main"] = "resolve"
    <2>1. inst' = Resolved(ChooseUI(inst.addons)) /\ at' = [at EXCEPT !["main"] = "fallback"]
      BY <1>3 DEF Resolve, Goes
    <2>2. at'["main"] = "fallback" /\ at'["event"] = "none"
      BY <1>1, <2>1 DEF Thread
    <2>3. Chosen(ChooseUI(inst.addons))
      BY <1>1, <1>3, ChooseStep DEF LoadInv, StartOK
    <2>4. ChooseUI(inst.addons) \in Seq(Elements)
      BY <2>3 DEF Chosen, IsArray
    <2>5. inst' \in Instances /\ inst'.addons = ChooseUI(inst.addons) /\ inst'.made = {} /\ NoUI(inst)'
      BY <1>2, <2>1, <2>4
    <2>6. Chosen(inst.addons)'
      BY <1>1, <2>3, <2>5 DEF Chosen, IsArray, Others, Wanted, IsUI
    <2>7. StartOK'
      BY <2>2, <2>5, <2>6 DEF StartOK
    <2>8. QED
      BY <1>1, <2>2, <2>5, <2>7, StartingStep DEF Startup, Finishing, ControlOK
  <1>4. CASE at["main"] = "fallback"
    <2>1. inst' = Resolved(EnableFallback(inst.addons))
          /\ at' = [at EXCEPT !["main"] = "dependencies"]
      BY <1>4 DEF Resolve, Goes
    <2>2. at'["main"] = "dependencies" /\ at'["event"] = "none"
      BY <1>1, <2>1 DEF Thread
    <2>3. Backed(EnableFallback(inst.addons))
      BY <1>4, BackStep DEF LoadInv, StartOK
    <2>4. EnableFallback(inst.addons) \in Seq(Elements)
      BY <2>3 DEF Backed, IsArray
    <2>5. inst' \in Instances /\ inst'.addons = EnableFallback(inst.addons)
          /\ inst'.made = {} /\ NoUI(inst)'
      BY <1>2, <2>1, <2>4
    <2>6. Backed(inst.addons)'
      BY <1>1, <2>3, <2>5 DEF Backed, IsArray, Others, Wanted, IsUI, Behind
    <2>7. StartOK'
      BY <2>2, <2>5, <2>6 DEF StartOK
    <2>8. QED
      BY <1>1, <2>2, <2>5, <2>7, StartingStep DEF Startup, Finishing, ControlOK
  <1>5. CASE at["main"] = "dependencies"
    <2>1. inst' = Resolved(CheckDependencies(inst.addons))
          /\ at' = [at EXCEPT !["main"] = "modules"]
      BY <1>5 DEF Resolve, Goes
    <2>2. at'["main"] = "modules" /\ at'["event"] = "none"
      BY <1>1, <2>1 DEF Thread
    <2>3. Checked(CheckDependencies(inst.addons))
      BY <1>1, <1>5, CheckStep DEF LoadInv, StartOK
    <2>4. CheckDependencies(inst.addons) \in Seq(Elements)
      BY <2>3 DEF Checked, IsArray
    <2>5. inst' \in Instances /\ inst'.addons = CheckDependencies(inst.addons)
          /\ inst'.made = {} /\ NoUI(inst)'
      BY <1>2, <2>1, <2>4
    <2>6. Checked(inst.addons)'
      BY <1>1, <2>3, <2>5 DEF Checked, IsArray, Satisfied, Wanted, IsUI, Behind
    <2>7. StartOK'
      BY <2>2, <2>5, <2>6 DEF StartOK
    <2>8. QED
      BY <1>1, <2>2, <2>5, <2>7, StartingStep DEF Startup, Finishing, ControlOK
  <1>6. QED
    BY <1>1, <1>3, <1>4, <1>5

LEMMA LoadModulesStep ==
  ASSUME LoadInv, LoadModules, ControlOK'
  PROVE  LoadInv'
  <1>1. /\ at["main"] = "modules" /\ at["event"] = "none" /\ at \in [Thread -> Place]
        /\ setup \in Setups /\ inst \in Instances /\ setup' = setup
        /\ inst.made = {} /\ NoUI(inst) /\ Checked(inst.addons)
    BY DEF LoadModules, LoadInv, StartOK, OrderOK, ControlOK, Startup
  <1>2. inst' = ModuleLoad(inst) /\ at' = [at EXCEPT !["main"] = "ims"]
    BY DEF LoadModules, Goes
  <1>3. at'["main"] = "ims" /\ at'["event"] = "none"
    BY <1>1, <1>2 DEF Thread
  <1> DEFINE e == ModuleLoad(inst)
  <1>4. /\ e \in Instances /\ e.addons = inst.addons /\ NoUI(e)
        /\ LoadedOf(e, Of("module")) /\ Listens(e)
    BY <1>1, ModulesStep
  <1> HIDE DEF e
  <1>5. inst' = e
    BY <1>2 DEF e
  <1>6. inst' \in Instances /\ NoUI(inst)' /\ inst'.addons = inst.addons
    BY <1>4, <1>5 DEF NoUI
  <1>7. LoadedOf(inst, Of("module"))' /\ Listens(inst)'
    BY <1>1, <1>4, <1>5 DEF LoadedOf, Listens, Works
  <1>8. Checked(inst.addons)'
    BY <1>1, <1>6 DEF Checked, IsArray, Satisfied, Wanted, IsUI, Behind
  <1>9. StartOK'
    BY <1>3, <1>6, <1>7, <1>8 DEF StartOK
  <1>10. QED
    BY <1>1, <1>3, <1>6, <1>9, StartingStep DEF Startup, Finishing, ControlOK

LEMMA LoadIMsStep ==
  ASSUME LoadInv, LoadIMs, ControlOK'
  PROVE  LoadInv'
  <1>1. /\ at["main"] = "ims" /\ at["event"] = "none" /\ at \in [Thread -> Place]
        /\ setup \in Setups /\ inst \in Instances /\ setup' = setup
        /\ NoUI(inst) /\ Checked(inst.addons)
        /\ LoadedOf(inst, Of("module")) /\ Listens(inst)
    BY DEF LoadIMs, LoadInv, StartOK, OrderOK, ControlOK, Startup
  <1>2. inst' = LoadAllIM(inst)
    BY DEF LoadIMs
  <1>3. /\ at'["event"] = "none" /\ at'["main"] \in {"save", "ui"}
        /\ at'["main"] = "save" => ends' > 0
    <2>1. \/ at' = [at EXCEPT !["main"] = "save"] /\ ends' = ends + 1
          \/ at' = [at EXCEPT !["main"] = "ui"]
      BY DEF LoadIMs, Ends, Goes
    <2>2. QED
      BY <1>1, <2>1 DEF Thread, LoadInv, ControlOK
  <1> DEFINE e == LoadAllIM(inst)
  <1>4. /\ e \in Instances /\ e.addons = inst.addons /\ NoUI(e)
        /\ LoadedOf(e, AtStart) /\ Listens(e)
    BY <1>1, IMsStep
  <1> HIDE DEF e
  <1>5. inst' = e
    BY <1>2 DEF e
  <1>6. inst' \in Instances /\ NoUI(inst)' /\ inst'.addons = inst.addons
    BY <1>4, <1>5 DEF NoUI
  <1>7. LoadedOf(inst, AtStart)' /\ Listens(inst)'
    BY <1>1, <1>4, <1>5 DEF LoadedOf, Listens, Works
  <1>8. Checked(inst.addons)'
    BY <1>1, <1>6 DEF Checked, IsArray, Satisfied, Wanted, IsUI, Behind
  <1>9. StartOK'
    BY <1>3, <1>6, <1>7, <1>8 DEF StartOK
  <1>10. QED
    BY <1>1, <1>3, <1>6, <1>9, StartingStep DEF Startup, Finishing, ControlOK

LEMMA LoadUIStep ==
  ASSUME LoadInv, LoadUI, ControlOK'
  PROVE  LoadInv'
  <1>1. /\ at["main"] = "ui" /\ at["event"] = "none" /\ at \in [Thread -> Place]
        /\ setup \in Setups /\ inst \in Instances /\ setup' = setup
        /\ NoUI(inst) /\ Checked(inst.addons)
        /\ LoadedOf(inst, AtStart) /\ Listens(inst)
    BY DEF LoadUI, LoadInv, StartOK, OrderOK, ControlOK, Startup
  <1>2. inst' = UILoad(inst) /\ at' = [at EXCEPT !["main"] = "frontends"]
    BY DEF LoadUI, Goes
  <1>3. at'["main"] = "frontends" /\ at'["event"] = "none"
    BY <1>1, <1>2 DEF Thread
  <1> DEFINE e == UILoad(inst)
  <1>4. /\ e \in Instances /\ e.addons = inst.addons
        /\ e.eventmodules = inst.eventmodules
        /\ \A a \in Addon : Category[a] # "ui" => (a \in e.made <=> a \in inst.made)
    BY <1>1, UIKeeps DEF Checked
  <1>5. ReadyUI(e)
    BY <1>1, UIStep
  <1> HIDE DEF e
  <1>6. inst' = e
    BY <1>2 DEF e
  <1>7. inst' \in Instances /\ inst'.addons = inst.addons
    BY <1>4, <1>6
  <1>8. LoadedOf(inst, AtStart)' /\ Listens(inst)'
    BY <1>1, <1>4, <1>6 DEF LoadedOf, Listens, Works
  <1>9. Checked(inst.addons)'
    BY <1>1, <1>7 DEF Checked, IsArray, Satisfied, Wanted, IsUI, Behind
  <1>10. ReadyUI(inst)'
    BY <1>1, <1>5, <1>6 DEF ReadyUI, Wanted, Works
  <1>11. StartOK'
    BY <1>3, <1>8, <1>9 DEF StartOK
  <1>12. QED
    BY <1>1, <1>3, <1>7, <1>10, <1>11, StartingStep DEF Startup, Finishing, ControlOK

LEMMA LoadFrontendsStep ==
  ASSUME LoadInv, LoadFrontends, ControlOK'
  PROVE  LoadInv'
  <1>1. /\ at["main"] = "frontends" /\ at["event"] = "none" /\ at \in [Thread -> Place]
        /\ setup \in Setups /\ inst \in Instances /\ setup' = setup
        /\ Checked(inst.addons) /\ LoadedOf(inst, AtStart) /\ Listens(inst)
        /\ ends = 0 => ReadyUI(inst)
        /\ ends \in Nat
    BY DEF LoadFrontends, LoadInv, StartOK, DaemonOK, OrderOK, ControlOK, Startup
  <1> DEFINE e == LoadFrontend(inst)
  <1>2. /\ e \in Instances /\ e.addons = inst.addons
        /\ e.uinormal = inst.uinormal /\ e.uifallback = inst.uifallback
        /\ LoadedOf(e, InDaemon)
        /\ e.frontends # {} => e.eventmodules # {}
    BY <1>1, FrontendsStep
  <1>3. inst' = e
    BY DEF LoadFrontends
  <1> HIDE DEF e
  <1>4. inst' \in Instances
    BY <1>2, <1>3
  <1>5. CASE inst'.frontends = {}
    <2>1. at' = [at EXCEPT !["main"] = "save"] /\ ends' = ends + 1
      BY <1>5 DEF LoadFrontends, Ends, Goes
    <2>2. at'["main"] = "save" /\ at'["event"] = "none" /\ ends' > 0
      BY <1>1, <2>1 DEF Thread
    <2>3. StartOK'
      BY <2>2 DEF StartOK
    <2>4. QED
      BY <1>1, <1>4, <2>2, <2>3, StartingStep DEF Startup, Finishing, ControlOK
  <1>6. CASE inst'.frontends # {}
    <2>1. at' = [at EXCEPT !["main"] = "wait", !["event"] = "loop"] /\ ends' = ends
      BY <1>6 DEF LoadFrontends, past
    <2>2. at'["main"] = "wait" /\ at'["event"] = "loop"
      BY <1>1, <2>1 DEF Thread
    <2>3. LoadedOf(inst, InDaemon)' /\ inst'.eventmodules # {}
      BY <1>1, <1>2, <1>3, <1>6 DEF LoadedOf, Works
    <2>4. ends = 0 => ReadyUI(inst)'
      BY <1>1, <1>2, <1>3 DEF ReadyUI, Wanted, Works
    <2>5. StartOK'
      BY <2>2 DEF StartOK
    <2>6. DaemonOK'
      BY <2>1, <2>2, <2>3, <2>4 DEF DaemonOK
    <2>7. OrderOK'
      BY <2>2 DEF OrderOK, Startup, Finishing, Thread
    <2>8. QED
      BY <1>1, <1>4, <2>5, <2>6, <2>7 DEF LoadInv
  <1>7. QED
    BY <1>5, <1>6

\* Whatever happens after the start, the addons stay loaded; the interfaces go
\* with FcitxInstanceEnd.
LEMMA LaterStep ==
  ASSUME LoadInv, ControlOK', setup' = setup, inst' \in Instances,
         inst'.made = inst.made, inst'.eventmodules = inst.eventmodules,
         at'["main"] \notin Startup,
         at'["event"] \in {"loop"} \cup Finishing => at["event"] \in {"loop"} \cup Finishing,
         at'["main"] = "wait" /\ ends' = 0 =>
           at["main"] = "wait" /\ ends = 0 /\ inst' = inst,
         \A t \in Thread : at'[t] \in Finishing => ends' > 0
  PROVE  LoadInv'
  <1>1. at'["main"] \notin {"options", "resolve", "fallback", "dependencies", "modules",
                            "ims", "ui", "frontends"}
    BY DEF Startup
  <1>2. StartOK'
    BY <1>1 DEF StartOK
  <1>3. at'["event"] \in {"loop"} \cup Finishing =>
          LoadedOf(inst, InDaemon)' /\ inst'.eventmodules # {}
    BY DEF LoadInv, DaemonOK, LoadedOf, Works
  <1>4. at'["main"] = "wait" /\ ends' = 0 => ReadyUI(inst)'
    BY DEF LoadInv, DaemonOK, ReadyUI, Wanted, Works
  <1>5. DaemonOK'
    BY <1>1, <1>3, <1>4 DEF DaemonOK
  <1>6. OrderOK'
    BY DEF OrderOK
  <1>7. QED
    BY <1>2, <1>5, <1>6 DEF LoadInv

LEMMA EndStep ==
  ASSUME LoadInv, NEW t \in Thread, End(t), ControlOK'
  PROVE  LoadInv'
  <1>1. /\ at \in [Thread -> Place] /\ at[t] \in Finishing /\ ends > 0 /\ ends \in Nat
        /\ inst \in Instances /\ setup' = setup /\ ends' = ends
    BY DEF End, OpenProfile, WriteAll, DestroyAll, Post, LoadInv, OrderOK, ControlOK,
           Finishing, past
  <1>2. at["main"] \notin Startup
    BY <1>1 DEF LoadInv, OrderOK, Thread, Startup, Finishing
  <1>3. /\ inst' \in Instances
        /\ inst'.made = inst.made /\ inst'.eventmodules = inst.eventmodules
    <2>1. CASE inst' = inst
      BY <1>1, <2>1
    <2>2. CASE inst' = WithoutUI(inst)
      BY <1>1, <2>2 DEF WithoutUI, Instances
    <2>3. QED
      BY <2>1, <2>2 DEF End, OpenProfile, WriteAll, DestroyAll, Post
  <1>4. \/ at' = [th \in Thread |-> "gone"]
        \/ \E where \in Finishing \cup {"wait", "loop"} :
             /\ at' = [at EXCEPT ![t] = where]
             /\ where = "loop" => t = "event"
    <2>1. CASE OpenProfile(t) \/ WriteAll(t) \/ DestroyAll(t)
      BY <2>1 DEF OpenProfile, WriteAll, DestroyAll, Goes, Finishing
    <2>2. CASE Post(t)
      <3>1. at' = [at EXCEPT ![t] = IF t = "main" THEN "wait" ELSE "loop"]
        BY <2>2 DEF Post, Goes
      <3>2. CASE t = "main"
        <4>1. at' = [at EXCEPT ![t] = "wait"] /\ "wait" # "loop"
          BY <3>1, <3>2
        <4>2. QED
          BY <4>1
      <3>3. CASE t = "event"
        BY <3>1, <3>3
      <3>4. QED
        BY <3>2, <3>3 DEF Thread
    <2>3. QED
      BY <2>1, <2>2 DEF End
  <1>5. /\ at'["main"] \notin Startup
        /\ at'["event"] \in {"loop"} \cup Finishing => at["event"] \in {"loop"} \cup Finishing
    <2>1. CASE at' = [th \in Thread |-> "gone"]
      BY <2>1 DEF Thread, Startup, Finishing
    <2>2. ASSUME NEW where \in Finishing \cup {"wait", "loop"}, at' = [at EXCEPT ![t] = where]
          PROVE  /\ at'["main"] \notin Startup
                 /\ at'["event"] \in {"loop"} \cup Finishing =>
                      at["event"] \in {"loop"} \cup Finishing
      BY <1>1, <1>2, <2>2 DEF Thread, Startup, Finishing
    <2>3. QED
      BY <1>4, <2>1, <2>2
  <1>6. QED
    BY <1>1, <1>3, <1>5, LaterStep

LEMMA DaemonStep ==
  ASSUME LoadInv, ControlOK', MainWakes \/ ProcessEnds \/ Learn \/ Exit \/ Terminate
  PROVE  LoadInv'
  <1>1. /\ at \in [Thread -> Place] /\ ends \in Nat /\ inst \in Instances
        /\ inst' = inst /\ setup' = setup
    BY DEF MainWakes, ProcessEnds, Learn, Exit, Terminate, LoadInv, ControlOK
  <1>2. CASE MainWakes
    <2>1. at' = [at EXCEPT !["main"] = "leave"] /\ ends' = ends
      BY <1>2 DEF MainWakes, Goes, past
    <2>2. at'["main"] = "leave" /\ at'["event"] = at["event"]
      BY <1>1, <2>1 DEF Thread
    <2>3. \A t \in Thread : at'[t] \in Finishing => ends' > 0
      BY <2>1, <2>2 DEF LoadInv, OrderOK, Thread, Finishing
    <2>4. QED
      BY <1>1, <2>2, <2>3, LaterStep DEF Startup
  <1>3. CASE ProcessEnds \/ Terminate
    <2>1. at' = [t \in Thread |-> "gone"]
      BY <1>3 DEF ProcessEnds, Terminate
    <2>2. \A t \in Thread : at'[t] = "gone"
      BY <2>1
    <2>3. QED
      BY <1>1, <2>2, LaterStep DEF Startup, Finishing, Thread
  <1>4. CASE Learn
    <2>1. at' = at /\ ends' = ends /\ at["event"] = "loop"
      BY <1>4 DEF Learn, past
    <2>2. at["main"] \notin Startup
      BY <2>1 DEF LoadInv, OrderOK
    <2>3. \A t \in Thread : at'[t] \in Finishing => ends' > 0
      BY <2>1 DEF LoadInv, OrderOK
    <2>4. QED
      BY <1>1, <2>1, <2>2, <2>3, LaterStep
  <1>5. CASE Exit
    <2>1. at' = [at EXCEPT !["event"] = "save"] /\ ends' = ends + 1 /\ at["event"] = "loop"
      BY <1>5 DEF Exit
    <2>2. at'["main"] = at["main"] /\ at["main"] \notin Startup
      BY <1>1, <2>1 DEF Thread, LoadInv, OrderOK
    <2>3. ends' > 0
      BY <1>1, <2>1
    <2>4. QED
      BY <1>1, <2>1, <2>2, <2>3, LaterStep
  <1>6. QED
    BY <1>2, <1>3, <1>4, <1>5

LEMMA LoadInvNext ==
  ASSUME LoadInv, Next
  PROVE  LoadInv'
  <1>1. ControlOK'
    BY NextControl DEF LoadInv
  <1>2. CASE ProcessOption \/ Resolve
    BY <1>1, <1>2, OptionsStep, ResolveStep
  <1>3. CASE LoadModules \/ LoadIMs \/ LoadUI \/ LoadFrontends
    BY <1>1, <1>3, LoadModulesStep, LoadIMsStep, LoadUIStep, LoadFrontendsStep
  <1>4. CASE \E t \in Thread : End(t)
    BY <1>1, <1>4, EndStep
  <1>5. CASE MainWakes \/ ProcessEnds \/ Learn \/ Exit \/ Terminate
    BY <1>1, <1>5, DaemonStep
  <1>6. QED
    BY <1>2, <1>3, <1>4, <1>5 DEF Next, MainStep, Thread

LEMMA LoadInvAlways == Spec => []LoadInv
  <1>1. Init => LoadInv
    BY LoadInvInit
  <1>2. LoadInv /\ [Next]_vars => LoadInv'
    <2>1. ASSUME LoadInv, UNCHANGED vars PROVE LoadInv'
      BY <2>1 DEF LoadInv, vars, past, ControlOK, StartOK, DaemonOK, OrderOK, NoUI, AsRead,
                  IsArray, Chosen, Others, Backed, Checked, Satisfied, Behind, Listens, LoadedOf,
                  ReadyUI, Wanted, Works
    <2>2. QED
      BY <2>1, LoadInvNext
  <1>3. QED
    BY <1>1, <1>2, PTL DEF Spec

\* The daemon draws with the wanted interface, its fallback behind it, and with
\* the fallback alone when the wanted one cannot be created: whatever the
\* priorities, wherever the files put the two in the array (addon.c:162), and
\* whichever addons are broken or disabled.
THEOREM InterfaceReadyCorrect == Spec => []InterfaceReady
  <1>1. LoadInv => InterfaceReady
    BY DEF LoadInv, DaemonOK, ReadyUI, InterfaceReady
  <1>2. QED
    BY <1>1, LoadInvAlways, PTL

\* A daemon that runs has loaded the addons that work and no other, though the
\* dependencies are checked in one pass (addon.c:176), and listens to a module.
THEOREM WorkingAddonsCorrect == Spec => []WorkingAddonsLoaded
  <1>1. ASSUME LoadInv
        PROVE  WorkingAddonsLoaded
    <2>1. ASSUME at["event"] = "loop"
          PROVE  LoadedOf(inst, InDaemon) /\ inst.eventmodules # {}
      BY <1>1, <2>1 DEF LoadInv, DaemonOK
    <2>2. ASSUME at["event"] = "loop", NEW a \in setup.enabled, Category[a] # "ui",
                 Category[a] = "im" => a \in SelfRegistered
          PROVE  a \in inst.made <=> Works(a)
      <3>1. a \in Addon
        <4>1. setup \in Setups
          BY <1>1 DEF LoadInv
        <4>2. setup.files \in Seq(Addon) /\ a \in Range(setup.files)
          BY <4>1, SetupsAssumption
        <4>3. QED
          BY <4>2 DEF Range
      <3>2. a \in InDaemon
        BY <2>2, <3>1, LifecycleAssumption DEF InDaemon, AtStart, Of
      <3>3. QED
        BY <2>1, <2>2, <3>1, <3>2 DEF LoadedOf
    <2>3. QED
      BY <2>1, <2>2 DEF WorkingAddonsLoaded
  <1>2. QED
    BY <1>1, LoadInvAlways, PTL
=============================================================================
