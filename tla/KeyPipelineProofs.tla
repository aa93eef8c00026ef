------------------------- MODULE KeyPipelineProofs -------------------------
(***************************************************************************)
(* What a key does, for every keyboard, configuration and order of keys,   *)
(* ticks, requests and drawings.                                           *)
(*                                                                         *)
(* A key passes through phases that hand a result on: the input and a      *)
(* return value that says what is still to be done.  Good(a, o, r) says    *)
(* what is true of a result r between two phases, given the input a before *)
(* the key and o after the first phase: a change of what is on display has *)
(* asked for drawing or the return value will, a commit that is still to   *)
(* come has a text and clears what was typed.  Every phase keeps it        *)
(* (GoodHotkey, GoodDoInput, GoodUpdateCandidates, GoodTurnPage,           *)
(* GoodBlockKey), and once ProcessInputReturnValue did what was left to do *)
(* it gives Done, from which the steps of Next follow.                     *)
(*                                                                         *)
(* Between two keys the invariant is about the last press as well          *)
(* (ArmedByLastPress): a release acts only when a press armed it, and a    *)
(* press that arms is the last one and was kept from the client.           *)
(***************************************************************************)
EXTENDS KeyPipeline, SequenceTheorems, TLAPS

\* The lemmas about the list, for the list of the input.
CP == INSTANCE CandidateListProofs WITH
       Words <- 1 .. 5, NoWord <- 0, PageSizes <- {3}, MaxWords <- 5,
       AddonsEdit <- FALSE, ReloadWhileShown <- FALSE, candList <- d.candList

\* The lists of the input: the current page begins inside the list.
Lists    == {c \in C!CandidateWordList : CP!PageInside(c)}
States   == {"closed", "inactive", "active"}
Released == {"OTHER", "SWITCH", "SWITCH_IM", "2ND", "3RD"}
Texts    == {"word", "raw", "space", "punc"}
Lengths  == 0 .. setup.maxCode
Outputs  == {"nothing"} \union Texts

\* FcitxInputState and what goes with it, well typed.
Inputs ==
    [state : States, iIMIndex : {0, 1}, keyReleased : Released,
     code : Lengths, find : Lengths, candList : Lists,
     messages : BOOLEAN, remind : BOOLEAN, inputOnly : BOOLEAN,
     output : Outputs, committed : SUBSET Texts, uiflag : BOOLEAN]

\* No word is on the list.
Empty(i) == i.candList.candWords = <<>>

-----------------------------------------------------------------------------
(* The candidate list. *)

\* The constants given to the list are such as it assumes.
LEMMA ListAssumptions ==
    /\ {3} # {} /\ {3} \subseteq Int /\ 5 \in Nat
    /\ 0 \notin 1 .. 5 /\ 1 .. 5 \subseteq 1 .. 5 /\ FALSE \in BOOLEAN
  OBVIOUS

\* The list's operators are those its lemmas are about.
LEMMA SameList ==
    /\ CP!CandidateWordList = C!CandidateWordList
    /\ \A c : CP!Reset(c) = C!Reset(c)
    /\ \A c, n : CP!SetPageSize(c, n) = C!SetPageSize(c, n)
    /\ \A c, n, found : CP!Fill(c, n, found) = C!Fill(c, n, found)
    /\ \A c : CP!GoPrevPage(c) = C!GoPrevPage(c)
    /\ \A c : CP!GoNextPage(c) = C!GoNextPage(c)
  <1>1. CP!CandidateWordList = C!CandidateWordList
    BY DEF C!CandidateWordList, CP!CandidateWordList
  <1>2. \A c : CP!Reset(c) = C!Reset(c)
    BY DEF C!Reset, CP!Reset
  <1>3. \A c, n : CP!SetPageSize(c, n) = C!SetPageSize(c, n)
    BY DEF C!SetPageSize, CP!SetPageSize, CP!PageSize, C!PageSize
  <1>4. \A c, n, found : CP!Fill(c, n, found) = C!Fill(c, n, found)
    BY <1>2, <1>3, Zenon DEF C!Fill, CP!Fill
  <1>5. \A c : CP!GoPrevPage(c) = C!GoPrevPage(c)
    BY DEF C!GoPrevPage, CP!GoPrevPage, CP!PageCount, C!PageCount, CP!HasPrev, C!HasPrev,
           CP!ListSize, C!ListSize
  <1>6. \A c : CP!GoNextPage(c) = C!GoNextPage(c)
    BY DEF C!GoNextPage, CP!GoNextPage, CP!PageCount, C!PageCount, CP!HasNext, C!HasNext,
           CP!ListSize, C!ListSize
  <1>7. QED
    BY <1>1, <1>2, <1>3, <1>4, <1>5, <1>6

\* CurrentPageExists is the same on both sides, down to the walk over the window.
LEMMA SameCurrentPage == CP!CurrentPageExists = C!CurrentPageExists
  <1>1. \A c : C!ListSize(c) = CP!ListSize(c)
    BY DEF C!ListSize, CP!ListSize
  <1>2. \A c, i : C!WordAt(c, i) = CP!WordAt(c, i)
    BY <1>1 DEF C!WordAt, CP!WordAt
  <1>3. \A c : C!First(c) = CP!First(c)
    BY DEF C!First, CP!First
  <1>4. \A c : C!GetCurrentWindow(c) = CP!GetCurrentWindow(c)
    BY <1>2, <1>3, Zenon DEF C!GetCurrentWindow, CP!GetCurrentWindow
  <1>5. \A c : C!WalkFrom(c) = CP!WalkFrom(c)
    BY DEF C!WalkFrom, CP!WalkFrom, C!ListSize, CP!ListSize, C!WordAt, CP!WordAt,
           C!GetCurrentWindowNext, CP!GetCurrentWindowNext, C!First, CP!First
  <1>6. \A c : C!Walk(c) = CP!Walk(c)
    BY <1>3, <1>4, <1>5, Zenon DEF C!Walk, CP!Walk
  <1>7. \A c : C!GetCurrentWindowSize(c) = CP!GetCurrentWindowSize(c)
    BY DEF C!GetCurrentWindowSize, CP!GetCurrentWindowSize, C!ListSize, CP!ListSize,
           C!PageCount, CP!PageCount
  <1>8. QED
    BY <1>1, <1>4, <1>6, <1>7 DEF C!CurrentPageExists, CP!CurrentPageExists,
                                  C!CurrentWindowExists, CP!CurrentWindowExists

\* The fields of a list, and that setting one keeps the others.
LEMMA ListTypes ==
    ASSUME NEW c \in C!CandidateWordList
    PROVE  /\ c.candWords \in Seq(1 .. 5) /\ c.currentPage \in Nat
           /\ c.wordPerPage \in 1 .. 10
           /\ \A w \in Seq(1 .. 5) : [c EXCEPT !.candWords = w] \in C!CandidateWordList
           /\ \A p \in Nat : [c EXCEPT !.currentPage = p] \in C!CandidateWordList
           /\ \A s \in 1 .. 10 : [c EXCEPT !.wordPerPage = s] \in C!CandidateWordList
           /\ \A w \in Seq(1 .. 5) : [c EXCEPT !.candWords = w].candWords = w
           /\ \A p \in Nat : [c EXCEPT !.currentPage = p].candWords = c.candWords
           /\ \A s \in 1 .. 10 : [c EXCEPT !.wordPerPage = s].candWords = c.candWords
  BY DEF C!CandidateWordList

\* CandidateWordReset leaves a list without words, on page 0.
LEMMA ResetEmpties ==
    ASSUME NEW c \in C!CandidateWordList
    PROVE  /\ C!Reset(c) \in Lists
           /\ C!Reset(c).candWords = <<>>
  <1>1. <<>> \in Seq(1 .. 5) /\ 0 \in Nat
    OBVIOUS
  <1> DEFINE e == [c EXCEPT !.candWords = <<>>]
  <1>2. C!Reset(c) = [e EXCEPT !.currentPage = 0]
    BY DEF C!Reset, C!CandidateWordList
  <1>3. e \in C!CandidateWordList /\ e.candWords = <<>>
    BY <1>1, ListTypes
  <1> HIDE DEF e
  <1>4. /\ [e EXCEPT !.currentPage = 0] \in C!CandidateWordList
        /\ [e EXCEPT !.currentPage = 0].candWords = e.candWords
    BY <1>3 DEF C!CandidateWordList
  <1>5. 3 \in {3} /\ CP!PageInside(C!Reset(c))
    BY SameList, CP!StartInside
  <1>6. QED
    BY <1>2, <1>3, <1>4, <1>5 DEF Lists

\* The words a method finds make a list that shows its first page.
LEMMA FoundTypes ==
    ASSUME NEW c \in Lists, NEW n \in 0 .. 4
    PROVE  C!Fill(c, 3, [k \in 1 .. n |-> k]) \in Lists
  <1> DEFINE found == [k \in 1 .. n |-> k]
  <1>1. c \in C!CandidateWordList
    BY DEF Lists
  <1>2. C!PageSize(3) = 3
    BY DEF C!PageSize
  <1>3. 3 \in 1 .. 10 /\ 3 \in {3}
    OBVIOUS
  <1>4. C!SetPageSize(C!Reset(c), 3) \in C!CandidateWordList
    BY <1>1, <1>2, <1>3, ResetEmpties, ListTypes DEF C!SetPageSize, Lists
  <1>5. found \in Seq(1 .. 5)
    <2>1. n \in Nat /\ \A k \in 1 .. n : k \in 1 .. 5
      OBVIOUS
    <2>2. QED
      BY <2>1, IsASeq
  <1> HIDE DEF found
  <1>6. C!Fill(c, 3, found) \in C!CandidateWordList
    BY <1>4, <1>5, ListTypes DEF C!Fill
  <1>7. CP!PageInside(C!Fill(c, 3, found))
    BY <1>1, <1>3, <1>5, SameList, CP!StartInside
  <1>8. QED
    BY <1>6, <1>7 DEF Lists, found

\* Turning a page keeps a list a list and its page inside.
LEMMA PagingTypes ==
    ASSUME NEW c \in Lists
    PROVE  C!GoPrevPage(c) \in Lists /\ C!GoNextPage(c) \in Lists
  <1>1. c \in C!CandidateWordList /\ CP!PageInside(c) /\ c.currentPage \in Nat
    BY ListTypes DEF Lists
  <1>2. C!HasPrev(c) => c.currentPage - 1 \in Nat
    BY <1>1 DEF C!HasPrev
  <1>3. C!GoPrevPage(c) \in C!CandidateWordList
    BY <1>1, <1>2, ListTypes DEF C!GoPrevPage
  <1>4. c.currentPage + 1 \in Nat
    BY <1>1
  <1>5. C!GoNextPage(c) \in C!CandidateWordList
    BY <1>1, <1>4, ListTypes DEF C!GoNextPage
  <1>6. CP!PageInside(C!GoPrevPage(c)) /\ CP!PageInside(C!GoNextPage(c))
    BY <1>1, SameList, CP!PagingInside
  <1>7. QED
    BY <1>3, <1>5, <1>6 DEF Lists

\* An empty list offers nothing to draw or to choose, and has no pages.
LEMMA EmptyList ==
    ASSUME NEW c \in Lists, c.candWords = <<>>
    PROVE  /\ C!Walk(c) = <<>>
           /\ \A index \in Int : C!GetByIndex(c, index) = 0
           /\ C!ListSize(c) = 0
           /\ C!PageCount(c) = 0
  <1>1. C!ListSize(c) = 0
    BY DEF C!ListSize
  <1>2. \A index : C!WordAt(c, index) = 0
    BY <1>1 DEF C!WordAt
  <1>3. C!GetCurrentWindow(c) = 0
    BY <1>2 DEF C!GetCurrentWindow
  <1>4. C!Walk(c) = <<>>
    BY <1>3 DEF C!Walk
  <1>5. \A index \in Int : C!GetByIndex(c, index) = 0
    BY <1>2 DEF C!GetByIndex
  <1>6. c.wordPerPage \in 1 .. 10
    BY ListTypes DEF Lists
  <1>7. (c.wordPerPage - 1) \div c.wordPerPage = 0
    <2> DEFINE w == c.wordPerPage
    <2>1. w = 1 \/ w = 2 \/ w = 3 \/ w = 4 \/ w = 5 \/ w = 6 \/ w = 7 \/ w = 8 \/ w = 9 \/ w = 10
      BY <1>6
    <2>2. QED
      BY <2>1
  <1>8. QED
    BY <1>1, <1>4, <1>5, <1>6, <1>7 DEF C!PageCount

\* A list with words has pages.
LEMMA WordsHavePages ==
    ASSUME NEW c \in Lists, C!ListSize(c) > 0
    PROVE  C!PageCount(c) # 0
  <1> DEFINE n == C!ListSize(c)
             w == c.wordPerPage
  <1>1. n \in Nat /\ n > 0 /\ w \in 1 .. 10
    <2> DEFINE s == c.candWords
    <2>1. s \in Seq(1 .. 5) /\ w \in 1 .. 10
      BY ListTypes DEF Lists
    <2>2. n = Len(s)
      BY DEF C!ListSize
    <2> HIDE DEF s
    <2>3. Len(s) \in Nat
      BY <2>1
    <2>4. QED
      BY <2>1, <2>2, <2>3
  <1> HIDE DEF n, w
  <1>2. (n + w - 1) \div w # 0
    <2>1. w = 1 \/ w = 2 \/ w = 3 \/ w = 4 \/ w = 5 \/ w = 6 \/ w = 7 \/ w = 8 \/ w = 9 \/ w = 10
      BY <1>1
    <2>2. QED
      BY <1>1, <2>1
  <1>3. QED
    BY <1>2 DEF C!PageCount, n, w

-----------------------------------------------------------------------------
(* Inputs that differ in one field. *)

\* Setting a field keeps the others; one lemma per field of the input.
LEMMA StateSet ==
    ASSUME NEW i \in Inputs, NEW v \in States
    PROVE  LET j == [i EXCEPT !.state = v]
           IN  /\ j \in Inputs /\ j.state = v
               /\ j.iIMIndex = i.iIMIndex /\ j.keyReleased = i.keyReleased
               /\ j.code = i.code /\ j.find = i.find /\ j.candList = i.candList
               /\ j.messages = i.messages /\ j.remind = i.remind
               /\ j.inputOnly = i.inputOnly /\ j.output = i.output
               /\ j.committed = i.committed /\ j.uiflag = i.uiflag
  BY DEF Inputs

\* The same, of the input method in use.
LEMMA IMSet ==
    ASSUME NEW i \in Inputs, NEW v \in {0, 1}
    PROVE  LET j == [i EXCEPT !.iIMIndex = v]
           IN  /\ j \in Inputs /\ j.iIMIndex = v
               /\ j.state = i.state /\ j.keyReleased = i.keyReleased /\ j.code = i.code
               /\ j.find = i.find /\ j.candList = i.candList /\ j.messages = i.messages
               /\ j.remind = i.remind /\ j.inputOnly = i.inputOnly
               /\ j.output = i.output /\ j.committed = i.committed
               /\ j.uiflag = i.uiflag
  BY DEF Inputs

\* The same, of the armed release.
LEMMA ReleasedSet ==
    ASSUME NEW i \in Inputs, NEW v \in Released
    PROVE  LET j == [i EXCEPT !.keyReleased = v]
           IN  /\ j \in Inputs /\ j.keyReleased = v
               /\ j.state = i.state /\ j.iIMIndex = i.iIMIndex /\ j.code = i.code
               /\ j.find = i.find /\ j.candList = i.candList /\ j.messages = i.messages
               /\ j.remind = i.remind /\ j.inputOnly = i.inputOnly
               /\ j.output = i.output /\ j.committed = i.committed
               /\ j.uiflag = i.uiflag
  BY DEF Inputs

\* The same, of the raw buffer.
LEMMA CodeSet ==
    ASSUME NEW i \in Inputs, NEW v \in Lengths
    PROVE  LET j == [i EXCEPT !.code = v]
           IN  /\ j \in Inputs /\ j.code = v
               /\ j.state = i.state /\ j.iIMIndex = i.iIMIndex
               /\ j.keyReleased = i.keyReleased /\ j.find = i.find
               /\ j.candList = i.candList /\ j.messages = i.messages
               /\ j.remind = i.remind /\ j.inputOnly = i.inputOnly
               /\ j.output = i.output /\ j.committed = i.committed
               /\ j.uiflag = i.uiflag
  BY DEF Inputs

\* The same, of the input method's string.
LEMMA FindSet ==
    ASSUME NEW i \in Inputs, NEW v \in Lengths
    PROVE  LET j == [i EXCEPT !.find = v]
           IN  /\ j \in Inputs /\ j.find = v
               /\ j.state = i.state /\ j.iIMIndex = i.iIMIndex
               /\ j.keyReleased = i.keyReleased /\ j.code = i.code
               /\ j.candList = i.candList /\ j.messages = i.messages
               /\ j.remind = i.remind /\ j.inputOnly = i.inputOnly
               /\ j.output = i.output /\ j.committed = i.committed
               /\ j.uiflag = i.uiflag
  BY DEF Inputs

\* The same, of the candidate list.
LEMMA ListSet ==
    ASSUME NEW i \in Inputs, NEW v \in Lists
    PROVE  LET j == [i EXCEPT !.candList = v]
           IN  /\ j \in Inputs /\ j.candList = v
               /\ j.state = i.state /\ j.iIMIndex = i.iIMIndex
               /\ j.keyReleased = i.keyReleased /\ j.code = i.code /\ j.find = i.find
               /\ j.messages = i.messages /\ j.remind = i.remind
               /\ j.inputOnly = i.inputOnly /\ j.output = i.output
               /\ j.committed = i.committed /\ j.uiflag = i.uiflag
  BY DEF Inputs

\* The same, of the messages.
LEMMA MessagesSet ==
    ASSUME NEW i \in Inputs, NEW v \in BOOLEAN
    PROVE  LET j == [i EXCEPT !.messages = v]
           IN  /\ j \in Inputs /\ j.messages = v
               /\ j.state = i.state /\ j.iIMIndex = i.iIMIndex
               /\ j.keyReleased = i.keyReleased /\ j.code = i.code /\ j.find = i.find
               /\ j.candList = i.candList /\ j.remind = i.remind
               /\ j.inputOnly = i.inputOnly /\ j.output = i.output
               /\ j.committed = i.committed /\ j.uiflag = i.uiflag
  BY DEF Inputs

\* The same, of remind mode.
LEMMA RemindSet ==
    ASSUME NEW i \in Inputs, NEW v \in BOOLEAN
    PROVE  LET j == [i EXCEPT !.remind = v]
           IN  /\ j \in Inputs /\ j.remind = v
               /\ j.state = i.state /\ j.iIMIndex = i.iIMIndex
               /\ j.keyReleased = i.keyReleased /\ j.code = i.code /\ j.find = i.find
               /\ j.candList = i.candList /\ j.messages = i.messages
               /\ j.inputOnly = i.inputOnly /\ j.output = i.output
               /\ j.committed = i.committed /\ j.uiflag = i.uiflag
  BY DEF Inputs

\* The same, of the mode in which only digits have an effect.
LEMMA InputOnlySet ==
    ASSUME NEW i \in Inputs, NEW v \in BOOLEAN
    PROVE  LET j == [i EXCEPT !.inputOnly = v]
           IN  /\ j \in Inputs /\ j.inputOnly = v
               /\ j.state = i.state /\ j.iIMIndex = i.iIMIndex
               /\ j.keyReleased = i.keyReleased /\ j.code = i.code /\ j.find = i.find
               /\ j.candList = i.candList /\ j.messages = i.messages
               /\ j.remind = i.remind /\ j.output = i.output
               /\ j.committed = i.committed /\ j.uiflag = i.uiflag
  BY DEF Inputs

\* The same, of the string to commit.
LEMMA OutputSet ==
    ASSUME NEW i \in Inputs, NEW v \in Outputs
    PROVE  LET j == [i EXCEPT !.output = v]
           IN  /\ j \in Inputs /\ j.output = v
               /\ j.state = i.state /\ j.iIMIndex = i.iIMIndex
               /\ j.keyReleased = i.keyReleased /\ j.code = i.code /\ j.find = i.find
               /\ j.candList = i.candList /\ j.messages = i.messages
               /\ j.remind = i.remind /\ j.inputOnly = i.inputOnly
               /\ j.committed = i.committed /\ j.uiflag = i.uiflag
  BY DEF Inputs

\* The same, of what the client was sent.
LEMMA CommittedSet ==
    ASSUME NEW i \in Inputs, NEW v \in SUBSET Texts
    PROVE  LET j == [i EXCEPT !.committed = v]
           IN  /\ j \in Inputs /\ j.committed = v
               /\ j.state = i.state /\ j.iIMIndex = i.iIMIndex
               /\ j.keyReleased = i.keyReleased /\ j.code = i.code /\ j.find = i.find
               /\ j.candList = i.candList /\ j.messages = i.messages
               /\ j.remind = i.remind /\ j.inputOnly = i.inputOnly
               /\ j.output = i.output /\ j.uiflag = i.uiflag
  BY DEF Inputs

\* The same, of the request to draw.
LEMMA FlagSet ==
    ASSUME NEW i \in Inputs, NEW v \in BOOLEAN
    PROVE  LET j == [i EXCEPT !.uiflag = v]
           IN  /\ j \in Inputs /\ j.uiflag = v
               /\ j.state = i.state /\ j.iIMIndex = i.iIMIndex
               /\ j.keyReleased = i.keyReleased /\ j.code = i.code /\ j.find = i.find
               /\ j.candList = i.candList /\ j.messages = i.messages
               /\ j.remind = i.remind /\ j.inputOnly = i.inputOnly
               /\ j.output = i.output /\ j.committed = i.committed
  BY DEF Inputs
-----------------------------------------------------------------------------
(* The library                                                              *)

\* The lengths a buffer can have.
LEMMA LengthFacts ==
    ASSUME setup \in Setup
    PROVE  /\ 0 \in Lengths /\ setup.maxCode \in {1, 2}
           /\ \A n \in Lengths : n \in Nat /\ n <= setup.maxCode
           /\ \A n \in Lengths : n < setup.maxCode => n + 1 \in Lengths
           /\ \A n \in Lengths : n > 0 => n - 1 \in Lengths
           /\ setup.wordCounts \subseteq 0 .. 4
  <1>1. setup.maxCode \in 1 .. 2 /\ setup.wordCounts \subseteq 0 .. 4
    BY DEF Setup
  <1>2. QED
    BY <1>1 DEF Lengths

\* CleanInputWindow removes the messages and the words and nothing else.
LEMMA CleanFacts ==
    ASSUME NEW i \in Inputs
    PROVE  LET j == CleanInputWindow(i)
           IN  /\ j \in Inputs /\ ~ j.messages
               /\ j.candList = C!Reset(i.candList) /\ Empty(j)
               /\ j.state = i.state /\ j.iIMIndex = i.iIMIndex
               /\ j.keyReleased = i.keyReleased /\ j.code = i.code /\ j.find = i.find
               /\ j.remind = i.remind /\ j.inputOnly = i.inputOnly
               /\ j.output = i.output /\ j.committed = i.committed
               /\ j.uiflag = i.uiflag
  <1> DEFINE k == [i EXCEPT !.candList = C!Reset(@)]
             j == [k EXCEPT !.messages = FALSE]
  <1>1. FALSE \in BOOLEAN /\ C!Reset(i.candList) \in Lists
        /\ C!Reset(i.candList).candWords = <<>>
    <2>1. i.candList \in C!CandidateWordList
      BY DEF Inputs, Lists
    <2>2. QED
      BY <2>1, ResetEmpties, Zenon
  <1>2. CleanInputWindow(i) = j
    BY DEF CleanInputWindow, Inputs
  <1>3. /\ k \in Inputs /\ k.candList = C!Reset(i.candList) /\ k.messages = i.messages
        /\ k.state = i.state /\ k.iIMIndex = i.iIMIndex
        /\ k.keyReleased = i.keyReleased /\ k.code = i.code /\ k.find = i.find
        /\ k.remind = i.remind /\ k.inputOnly = i.inputOnly
        /\ k.output = i.output /\ k.committed = i.committed
        /\ k.uiflag = i.uiflag
    BY <1>1, ListSet, Zenon
  <1> HIDE DEF k
  <1>4. /\ j \in Inputs /\ j.messages = FALSE /\ j.candList = k.candList
        /\ j.state = k.state /\ j.iIMIndex = k.iIMIndex /\ j.keyReleased = k.keyReleased
        /\ j.code = k.code /\ j.find = k.find /\ j.remind = k.remind
        /\ j.inputOnly = k.inputOnly /\ j.output = k.output /\ j.committed = k.committed
        /\ j.uiflag = k.uiflag
    BY <1>1, <1>3, MessagesSet, Zenon
  <1> HIDE DEF j
  <1>5. QED
    BY <1>1, <1>2, <1>3, <1>4 DEF Empty

\* UpdateInputWindow asks for drawing and does nothing else.
LEMMA UpdateFacts ==
    ASSUME NEW i \in Inputs
    PROVE  LET j == UpdateInputWindow(i)
           IN  /\ j \in Inputs /\ j.uiflag
               /\ j.state = i.state /\ j.iIMIndex = i.iIMIndex
               /\ j.keyReleased = i.keyReleased /\ j.code = i.code /\ j.find = i.find
               /\ j.candList = i.candList /\ j.messages = i.messages
               /\ j.remind = i.remind /\ j.inputOnly = i.inputOnly
               /\ j.output = i.output /\ j.committed = i.committed
  <1>1. TRUE \in BOOLEAN
    OBVIOUS
  <1>2. QED
    BY <1>1, FlagSet DEF UpdateInputWindow

\* CloseInputWindow cleans the window and asks for drawing.
LEMMA CloseWindowFacts ==
    ASSUME NEW i \in Inputs
    PROVE  LET j == CloseInputWindow(i)
           IN  /\ j \in Inputs /\ j.uiflag /\ ~ j.messages
               /\ j.candList = C!Reset(i.candList) /\ Empty(j)
               /\ j.state = i.state /\ j.iIMIndex = i.iIMIndex
               /\ j.keyReleased = i.keyReleased /\ j.code = i.code /\ j.find = i.find
               /\ j.remind = i.remind /\ j.inputOnly = i.inputOnly
               /\ j.output = i.output /\ j.committed = i.committed
  BY CleanFacts, UpdateFacts DEF CloseInputWindow, Empty

\* ResetInput leaves nothing typed and no words.
LEMMA ResetFacts ==
    ASSUME setup \in Setup, NEW i \in Inputs
    PROVE  LET j == ResetInput(i)
           IN  /\ j \in Inputs /\ j.code = 0 /\ j.find = 0
               /\ ~ j.remind /\ ~ j.inputOnly
               /\ j.candList = C!Reset(i.candList) /\ Empty(j)
               /\ j.state = i.state /\ j.iIMIndex = i.iIMIndex
               /\ j.keyReleased = i.keyReleased /\ j.messages = i.messages
               /\ j.output = i.output /\ j.committed = i.committed
               /\ j.uiflag = i.uiflag
  <1> DEFINE k == [i EXCEPT !.candList = C!Reset(@)]
             l == [k EXCEPT !.code = 0]
             m == [l EXCEPT !.find = 0]
             n == [m EXCEPT !.inputOnly = FALSE]
             j == [n EXCEPT !.remind = FALSE]
  <1>1. /\ FALSE \in BOOLEAN /\ C!Reset(i.candList) \in Lists /\ 0 \in Lengths
        /\ C!Reset(i.candList).candWords = <<>>
    <2>1. i.candList \in C!CandidateWordList
      BY DEF Inputs, Lists
    <2>2. QED
      BY <2>1, ResetEmpties, LengthFacts, Zenon
  <1>2. ResetInput(i) = j
    BY DEF ResetInput, Inputs
  <1>3. /\ k \in Inputs /\ k.candList = C!Reset(i.candList)
        /\ k.state = i.state /\ k.iIMIndex = i.iIMIndex /\ k.keyReleased = i.keyReleased
        /\ k.code = i.code /\ k.find = i.find /\ k.messages = i.messages
        /\ k.remind = i.remind /\ k.inputOnly = i.inputOnly /\ k.output = i.output
        /\ k.committed = i.committed /\ k.uiflag = i.uiflag
    BY <1>1, ListSet, Zenon
  <1> HIDE DEF k
  <1>4. /\ l \in Inputs /\ l.code = 0
        /\ l.state = k.state /\ l.iIMIndex = k.iIMIndex /\ l.keyReleased = k.keyReleased
        /\ l.find = k.find /\ l.candList = k.candList /\ l.messages = k.messages
        /\ l.remind = k.remind /\ l.inputOnly = k.inputOnly /\ l.output = k.output
        /\ l.committed = k.committed /\ l.uiflag = k.uiflag
    BY <1>1, <1>3, CodeSet, Zenon
  <1> HIDE DEF l
  <1>5. /\ m \in Inputs /\ m.find = 0
        /\ m.state = l.state /\ m.iIMIndex = l.iIMIndex /\ m.keyReleased = l.keyReleased
        /\ m.code = l.code /\ m.candList = l.candList /\ m.messages = l.messages
        /\ m.remind = l.remind /\ m.inputOnly = l.inputOnly /\ m.output = l.output
        /\ m.committed = l.committed /\ m.uiflag = l.uiflag
    BY <1>1, <1>4, FindSet, Zenon
  <1> HIDE DEF m
  <1>6. /\ n \in Inputs /\ n.inputOnly = FALSE
        /\ n.state = m.state /\ n.iIMIndex = m.iIMIndex /\ n.keyReleased = m.keyReleased
        /\ n.code = m.code /\ n.find = m.find /\ n.candList = m.candList
        /\ n.messages = m.messages /\ n.remind = m.remind /\ n.output = m.output
        /\ n.committed = m.committed /\ n.uiflag = m.uiflag
    BY <1>1, <1>5, InputOnlySet, Zenon
  <1> HIDE DEF n
  <1>7. /\ j \in Inputs /\ j.remind = FALSE
        /\ j.state = n.state /\ j.iIMIndex = n.iIMIndex /\ j.keyReleased = n.keyReleased
        /\ j.code = n.code /\ j.find = n.find /\ j.candList = n.candList
        /\ j.messages = n.messages /\ j.inputOnly = n.inputOnly /\ j.output = n.output
        /\ j.committed = n.committed /\ j.uiflag = n.uiflag
    BY <1>1, <1>6, RemindSet, Zenon
  <1> HIDE DEF j
  <1>8. QED
    BY <1>1, <1>2, <1>3, <1>4, <1>5, <1>6, <1>7 DEF Empty

\* ShowInputSpeed asks for drawing and changes messages only.
LEMMA SpeedFacts ==
    ASSUME NEW i \in Inputs
    PROVE  LET j == ShowInputSpeed(i)
           IN  /\ j \in Inputs /\ j.uiflag
               /\ j.candList = C!Reset(i.candList) /\ Empty(j)
               /\ j.state = i.state /\ j.iIMIndex = i.iIMIndex
               /\ j.keyReleased = i.keyReleased /\ j.code = i.code /\ j.find = i.find
               /\ j.remind = i.remind /\ j.inputOnly = i.inputOnly
               /\ j.output = i.output /\ j.committed = i.committed
  <1> DEFINE c == CleanInputWindow(i)
             m == [c EXCEPT !.messages = TRUE]
  <1>1. TRUE \in BOOLEAN
    OBVIOUS
  <1>2. /\ c \in Inputs /\ c.candList = C!Reset(i.candList) /\ Empty(c)
        /\ c.state = i.state /\ c.iIMIndex = i.iIMIndex /\ c.keyReleased = i.keyReleased
        /\ c.code = i.code /\ c.find = i.find /\ c.remind = i.remind
        /\ c.inputOnly = i.inputOnly /\ c.output = i.output /\ c.committed = i.committed
        /\ c.uiflag = i.uiflag
    BY CleanFacts
  <1>3. ShowInputSpeed(i) = UpdateInputWindow(m)
    BY DEF ShowInputSpeed
  <1> HIDE DEF c
  <1>4. /\ m \in Inputs
        /\ m.state = c.state /\ m.iIMIndex = c.iIMIndex /\ m.keyReleased = c.keyReleased
        /\ m.code = c.code /\ m.find = c.find /\ m.candList = c.candList
        /\ m.remind = c.remind /\ m.inputOnly = c.inputOnly /\ m.output = c.output
        /\ m.committed = c.committed /\ m.uiflag = c.uiflag
    BY <1>1, <1>2, MessagesSet
  <1> HIDE DEF m
  <1>5. QED
    BY <1>2, <1>3, <1>4, UpdateFacts DEF Empty

\* The constants the steps below need.
LEMMA SetupKeyTypes == "active" \in States /\ "inactive" \in States /\ "closed" \in States
                       /\ Released = {"OTHER", "SWITCH", "SWITCH_IM", "2ND", "3RD"}
  BY DEF States, Released

\* FcitxInstanceEnableIM leaves an active, empty context that is drawn if
\* it was not open.
LEMMA EnableFacts ==
    ASSUME setup \in Setup, NEW i \in Inputs
    PROVE  LET j == EnableIM(i)
           IN  /\ j \in Inputs /\ j.state = "active" /\ j.keyReleased = "OTHER"
               /\ j.code = 0 /\ ~ j.remind /\ Empty(j)
               /\ i.state = "closed" \/ i.uiflag => j.uiflag
               /\ i.state # "closed" => /\ j.messages = i.messages
                                        /\ j.candList = C!Reset(i.candList)
               /\ j.output = i.output /\ j.committed = i.committed
               /\ j.iIMIndex = i.iIMIndex
  <1> DEFINE on == IF i.state = "closed" THEN ShowInputSpeed(i) ELSE i
             a == [on EXCEPT !.state = "active"]
             r == ResetInput(a)
             j == [r EXCEPT !.keyReleased = "OTHER"]
  <1>1. EnableIM(i) = j
    BY DEF EnableIM
  <1>2. /\ on \in Inputs
        /\ i.state = "closed" \/ i.uiflag => on.uiflag
        /\ i.state # "closed" => on.messages = i.messages /\ on.candList = i.candList
        /\ on.output = i.output /\ on.committed = i.committed
        /\ on.iIMIndex = i.iIMIndex
    BY SpeedFacts
  <1> HIDE DEF on
  <1>3. /\ a \in Inputs /\ a.state = "active"
        /\ a.iIMIndex = on.iIMIndex /\ a.keyReleased = on.keyReleased
        /\ a.code = on.code /\ a.find = on.find /\ a.candList = on.candList
        /\ a.messages = on.messages /\ a.remind = on.remind
        /\ a.inputOnly = on.inputOnly /\ a.output = on.output
        /\ a.committed = on.committed /\ a.uiflag = on.uiflag
    BY <1>2, SetupKeyTypes, StateSet
  <1> HIDE DEF a
  <1>4. /\ r \in Inputs /\ r.state = "active" /\ r.code = 0 /\ ~ r.remind /\ Empty(r)
        /\ r.candList = C!Reset(a.candList) /\ r.messages = a.messages
        /\ r.uiflag = a.uiflag /\ r.output = a.output /\ r.committed = a.committed
        /\ r.iIMIndex = a.iIMIndex
    BY <1>3, ResetFacts
  <1> HIDE DEF r
  <1>5. /\ j \in Inputs /\ j.keyReleased = "OTHER"
        /\ j.state = r.state /\ j.iIMIndex = r.iIMIndex /\ j.code = r.code
        /\ j.find = r.find /\ j.candList = r.candList /\ j.messages = r.messages
        /\ j.remind = r.remind /\ j.inputOnly = r.inputOnly /\ j.output = r.output
        /\ j.committed = r.committed /\ j.uiflag = r.uiflag
    <2>1. r \in Inputs /\ "OTHER" \in Released
      BY <1>4, SetupKeyTypes
    <2>2. QED
      BY <2>1, ReleasedSet
  <1> HIDE DEF j
  <1>6. QED
    BY <1>1, <1>2, <1>3, <1>4, <1>5 DEF Empty

\* FcitxInstanceCloseIM closes the context, without words, and asks for drawing.
LEMMA CloseFacts ==
    ASSUME NEW i \in Inputs
    PROVE  LET j == CloseIM(i)
           IN  /\ j \in Inputs /\ j.state = "closed" /\ j.uiflag /\ Empty(j)
               /\ j.iIMIndex = i.iIMIndex /\ j.keyReleased = i.keyReleased
               /\ j.code = i.code /\ j.find = i.find /\ j.remind = i.remind
               /\ j.inputOnly = i.inputOnly /\ j.output = i.output
               /\ j.committed = i.committed
  <1> DEFINE a == [i EXCEPT !.state = "closed"]
  <1>1. CloseIM(i) = CloseInputWindow(a)
    BY DEF CloseIM
  <1>2. /\ a \in Inputs /\ a.state = "closed"
        /\ a.iIMIndex = i.iIMIndex /\ a.keyReleased = i.keyReleased /\ a.code = i.code
        /\ a.find = i.find /\ a.candList = i.candList /\ a.messages = i.messages
        /\ a.remind = i.remind /\ a.inputOnly = i.inputOnly /\ a.output = i.output
        /\ a.committed = i.committed /\ a.uiflag = i.uiflag
    BY SetupKeyTypes, StateSet
  <1> HIDE DEF a
  <1>3. QED
    BY <1>1, <1>2, CloseWindowFacts

\* FcitxInstanceChangeIMState empties the input and asks for drawing when it
\* deactivates.
LEMMA ChangeFacts ==
    ASSUME setup \in Setup, NEW i \in Inputs
    PROVE  LET j == ChangeIMState(i)
           IN  /\ j \in Inputs /\ Empty(j) /\ j.code = 0 /\ ~ j.remind
               /\ j.state = IF i.state = "inactive" THEN "active" ELSE "inactive"
               /\ i.state # "inactive" \/ i.uiflag => j.uiflag
               /\ i.state = "inactive" => /\ j.messages = i.messages
                                          /\ j.candList = C!Reset(i.candList)
               /\ j.output = i.output /\ j.committed = i.committed
               /\ j.iIMIndex = i.iIMIndex /\ j.keyReleased = i.keyReleased
  <1>1. CASE i.state = "inactive"
    <2> DEFINE a == [i EXCEPT !.state = "active"]
    <2>1. ChangeIMState(i) = ResetInput(a)
      BY <1>1 DEF ChangeIMState
    <2>2. /\ a \in Inputs /\ a.state = "active"
          /\ a.iIMIndex = i.iIMIndex /\ a.keyReleased = i.keyReleased /\ a.code = i.code
          /\ a.find = i.find /\ a.candList = i.candList /\ a.messages = i.messages
          /\ a.remind = i.remind /\ a.inputOnly = i.inputOnly /\ a.output = i.output
          /\ a.committed = i.committed /\ a.uiflag = i.uiflag
      BY SetupKeyTypes, StateSet
    <2> HIDE DEF a
    <2>3. QED
      BY <1>1, <2>1, <2>2, ResetFacts
  <1>2. CASE i.state # "inactive"
    <2> DEFINE a == [i EXCEPT !.state = "inactive"]
               r == ResetInput(a)
    <2>1. ChangeIMState(i) = CloseInputWindow(r)
      BY <1>2 DEF ChangeIMState
    <2>2. /\ a \in Inputs /\ a.state = "inactive"
          /\ a.iIMIndex = i.iIMIndex /\ a.keyReleased = i.keyReleased /\ a.code = i.code
          /\ a.find = i.find /\ a.candList = i.candList /\ a.messages = i.messages
          /\ a.remind = i.remind /\ a.inputOnly = i.inputOnly /\ a.output = i.output
          /\ a.committed = i.committed /\ a.uiflag = i.uiflag
      BY SetupKeyTypes, StateSet
    <2> HIDE DEF a
    <2>3. /\ r \in Inputs /\ r.code = 0 /\ ~ r.remind /\ r.state = a.state
          /\ r.output = a.output /\ r.committed = a.committed
          /\ r.iIMIndex = a.iIMIndex /\ r.keyReleased = a.keyReleased
      BY <2>2, ResetFacts
    <2> HIDE DEF r
    <2>4. QED
      BY <1>2, <2>1, <2>2, <2>3, CloseWindowFacts
  <1>3. QED
    BY <1>1, <1>2

\* FcitxInstanceSwitchIM empties the input and asks for drawing.
LEMMA SwitchFacts ==
    ASSUME setup \in Setup, NEW i \in Inputs
    PROVE  LET j == SwitchIM(i)
           IN  /\ j \in Inputs /\ Empty(j) /\ j.uiflag /\ ~ j.remind
               /\ j.state = i.state /\ j.keyReleased = i.keyReleased
               /\ j.output = i.output /\ j.committed = i.committed
  <1> DEFINE a == [i EXCEPT !.iIMIndex = 1 - @]
             c == CleanInputWindow(a)
             u == UpdateInputWindow(c)
  <1>1. SwitchIM(i) = ResetInput(u)
    BY DEF SwitchIM
  <1>2. 1 - i.iIMIndex \in {0, 1}
    BY DEF Inputs
  <1>3. /\ a \in Inputs
        /\ a.state = i.state /\ a.keyReleased = i.keyReleased /\ a.code = i.code
        /\ a.find = i.find /\ a.candList = i.candList /\ a.messages = i.messages
        /\ a.remind = i.remind /\ a.inputOnly = i.inputOnly /\ a.output = i.output
        /\ a.committed = i.committed /\ a.uiflag = i.uiflag
    BY <1>2, IMSet
  <1> HIDE DEF a
  <1>4. /\ c \in Inputs /\ c.state = a.state /\ c.keyReleased = a.keyReleased
        /\ c.output = a.output /\ c.committed = a.committed
    BY <1>3, CleanFacts
  <1> HIDE DEF c
  <1>5. /\ u \in Inputs /\ u.uiflag /\ u.state = c.state
        /\ u.keyReleased = c.keyReleased
        /\ u.output = c.output /\ u.committed = c.committed
    BY <1>4, UpdateFacts
  <1> HIDE DEF u
  <1>6. QED
    BY <1>1, <1>3, <1>4, <1>5, ResetFacts

-----------------------------------------------------------------------------
(* The phases                                                               *)

\* What the return value asks to be drawn.
Redraws(ret) == "window" \in ret \/ "reset" \in ret \/ "phrase tips" \in ret

\* No phase but the first touches these before the return value is processed.
SameControl(i, j) ==
    /\ i.state = j.state /\ i.iIMIndex = j.iIMIndex
    /\ i.keyReleased = j.keyReleased /\ i.committed = j.committed

\* A result of a phase: a is the input before the key, o the one after the
\* first phase.
Good(a, o, r) ==
    /\ r.d \in Inputs
    /\ SameControl(r.d, o)
    /\ r.d.remind => setup.useRemind
    \* a commit has a text, and of a typed one nothing is left
    /\ "commit" \in r.ret => r.d.output \in Texts
    /\ "commit" \in r.ret /\ r.d.output \in {"word", "raw"} /\ ~ setup.useRemind =>
         "phrase tips" \in r.ret \/ "reset" \in r.ret
    /\ r.d.committed # {} => r.d.code = 0 /\ r.ret # TO_PROCESS
    \* words are offered by an active context only
    /\ r.d.state # "active" => Empty(r.d)
    \* what is shown is as before, or drawing it is asked for
    /\ ~ r.d.uiflag /\ ~ Redraws(r.ret) => ~ a.uiflag /\ Drawn(r.d) = Drawn(a)

\* A further result.
LEMMA GoodNext ==
    ASSUME NEW a, NEW o, NEW i, Good(a, o, R(i, TO_PROCESS)),
           NEW x \in Inputs, NEW ret,
           SameControl(x, i),
           x.remind => setup.useRemind,
           "commit" \in ret => x.output \in Texts,
           "commit" \in ret /\ x.output \in {"word", "raw"} /\ ~ setup.useRemind =>
             "phrase tips" \in ret \/ "reset" \in ret,
           x.state # "active" => Empty(x),
           Redraws(ret) \/ (x.uiflag = i.uiflag /\ Drawn(x) = Drawn(i))
    PROVE  Good(a, o, R(x, ret))
  <1>1. ~ Redraws(TO_PROCESS)
    BY DEF Redraws, TO_PROCESS
  <1>2. i.committed = {} /\ SameControl(i, o)
    BY DEF Good, R
  <1>3. x.committed = {} /\ SameControl(x, o)
    BY <1>2 DEF SameControl
  <1>4. ~ x.uiflag /\ ~ Redraws(ret) => ~ a.uiflag /\ Drawn(x) = Drawn(a)
    BY <1>1 DEF Good, R
  <1>5. QED
    BY <1>3, <1>4 DEF Good, R

\* The same result again, with another return value that commits nothing.
LEMMA GoodAgain ==
    ASSUME NEW a, NEW o, NEW i, Good(a, o, R(i, TO_PROCESS)), NEW ret, "commit" \notin ret
    PROVE  Good(a, o, R(i, ret))
  <1>1. i \in Inputs /\ (i.remind => setup.useRemind) /\ (i.state # "active" => Empty(i))
    BY DEF Good, R
  <1>2. QED
    BY <1>1, GoodNext DEF SameControl

\* Finding words keeps everything but the words.
LEMMA FoundFacts ==
    ASSUME NEW i \in Inputs, NEW n \in 0 .. 4
    PROVE  LET j == Found(i, n)
           IN  /\ j \in Inputs
               /\ j.state = i.state /\ j.iIMIndex = i.iIMIndex
               /\ j.keyReleased = i.keyReleased /\ j.code = i.code /\ j.find = i.find
               /\ j.messages = i.messages /\ j.remind = i.remind
               /\ j.inputOnly = i.inputOnly /\ j.output = i.output
               /\ j.committed = i.committed /\ j.uiflag = i.uiflag
  <1>1. i.candList \in Lists
    BY DEF Inputs
  <1>2. C!Fill(i.candList, 3, [k \in 1 .. n |-> k]) \in Lists
    BY <1>1, FoundTypes
  <1>3. QED
    BY <1>2, ListSet DEF Found

\* A chosen word is to be committed and no words are left.
LEMMA ChosenFacts ==
    ASSUME NEW i \in Inputs, NEW f \in Lengths
    PROVE  LET j == Chosen(i, f)
           IN  /\ j \in Inputs /\ j.output = "word" /\ Empty(j)
               /\ j.state = i.state /\ j.iIMIndex = i.iIMIndex
               /\ j.keyReleased = i.keyReleased /\ j.code = i.code
               /\ j.remind = i.remind /\ j.inputOnly = i.inputOnly
               /\ j.committed = i.committed /\ j.uiflag = i.uiflag
  <1> DEFINE c == CleanInputWindow(i)
             k == [c EXCEPT !.output = "word"]
             j == [k EXCEPT !.find = f]
  <1>1. Chosen(i, f) = [c EXCEPT !.output = "word", !.find = f]
    BY DEF Chosen
  <1>2. /\ c \in Inputs /\ Empty(c)
        /\ c.state = i.state /\ c.iIMIndex = i.iIMIndex /\ c.keyReleased = i.keyReleased
        /\ c.code = i.code /\ c.find = i.find /\ c.remind = i.remind
        /\ c.inputOnly = i.inputOnly /\ c.output = i.output /\ c.committed = i.committed
        /\ c.uiflag = i.uiflag
    BY CleanFacts
  <1> HIDE DEF c
  <1>3. "word" \in Outputs
    BY DEF Outputs, Texts
  <1>4. [c EXCEPT !.output = "word", !.find = f] = j
    BY <1>2 DEF Inputs
  <1>5. /\ k \in Inputs /\ k.output = "word"
        /\ k.state = c.state /\ k.iIMIndex = c.iIMIndex /\ k.keyReleased = c.keyReleased
        /\ k.code = c.code /\ k.find = c.find /\ k.candList = c.candList
        /\ k.messages = c.messages /\ k.remind = c.remind /\ k.inputOnly = c.inputOnly
        /\ k.committed = c.committed /\ k.uiflag = c.uiflag
    BY <1>2, <1>3, OutputSet
  <1> HIDE DEF k
  <1>6. /\ j \in Inputs
        /\ j.state = k.state /\ j.iIMIndex = k.iIMIndex /\ j.keyReleased = k.keyReleased
        /\ j.code = k.code /\ j.candList = k.candList /\ j.messages = k.messages
        /\ j.remind = k.remind /\ j.inputOnly = k.inputOnly /\ j.output = k.output
        /\ j.committed = k.committed /\ j.uiflag = k.uiflag
    BY <1>5, FindSet
  <1> HIDE DEF j
  <1>7. QED
    BY <1>1, <1>2, <1>4, <1>5, <1>6 DEF Empty

\* The words that may follow a word replace the ones there were.
LEMMA RemindFacts ==
    ASSUME NEW i \in Inputs, NEW n \in 0 .. 4, NEW f \in Lengths
    PROVE  LET j == Remind(i, n, f)
           IN  /\ j \in Inputs /\ j.output = "word"
               /\ j.state = i.state /\ j.iIMIndex = i.iIMIndex
               /\ j.keyReleased = i.keyReleased /\ j.committed = i.committed
  <1> DEFINE b == n > 0
             w == Chosen(i, f)
             k == Found(w, n)
             l == [k EXCEPT !.messages = TRUE]
             j == [l EXCEPT !.remind = b]
  <1>1. TRUE \in BOOLEAN /\ b \in BOOLEAN
    OBVIOUS
  <1>2. /\ w \in Inputs /\ w.output = "word" /\ w.state = i.state
        /\ w.iIMIndex = i.iIMIndex /\ w.keyReleased = i.keyReleased
        /\ w.committed = i.committed
    BY ChosenFacts
  <1>3. Remind(i, n, f) = [k EXCEPT !.messages = TRUE, !.remind = b]
    BY DEF Remind
  <1> HIDE DEF w, b
  <1>4. /\ k \in Inputs
        /\ k.state = w.state /\ k.iIMIndex = w.iIMIndex /\ k.keyReleased = w.keyReleased
        /\ k.code = w.code /\ k.find = w.find /\ k.messages = w.messages
        /\ k.remind = w.remind /\ k.inputOnly = w.inputOnly /\ k.output = w.output
        /\ k.committed = w.committed /\ k.uiflag = w.uiflag
    BY <1>2, FoundFacts
  <1> HIDE DEF k
  <1>5. [k EXCEPT !.messages = TRUE, !.remind = b] = j
    BY <1>4 DEF Inputs
  <1>6. /\ l \in Inputs
        /\ l.state = k.state /\ l.iIMIndex = k.iIMIndex /\ l.keyReleased = k.keyReleased
        /\ l.output = k.output /\ l.committed = k.committed
    BY <1>1, <1>4, MessagesSet
  <1> HIDE DEF l
  <1>7. /\ j \in Inputs
        /\ j.state = l.state /\ j.iIMIndex = l.iIMIndex /\ j.keyReleased = l.keyReleased
        /\ j.output = l.output /\ j.committed = l.committed
    BY <1>1, <1>6, RemindSet
  <1> HIDE DEF j
  <1>8. QED
    BY <1>2, <1>3, <1>4, <1>5, <1>6, <1>7

\* A word that is chosen is committed, or what is left of the buffer is shown.
LEMMA GoodCandWord ==
    ASSUME setup \in Setup, NEW a, NEW o, NEW i, Good(a, o, R(i, TO_PROCESS)),
           ~ Empty(i)
    PROVE  \A r \in GetCandWord(i) : Good(a, o, r)
  <1>1. /\ i \in Inputs /\ (i.remind => setup.useRemind) /\ i.state = "active"
        /\ i.code \in Lengths /\ i.find \in Lengths
    BY DEF Good, R, Inputs
  <1>2. Left(i) \subseteq Lengths
    BY <1>1, LengthFacts DEF Lengths, Left
  <1>3. SUFFICES ASSUME NEW r \in GetCandWord(i)  PROVE Good(a, o, r)
    OBVIOUS
  <1>4. \/ r = R(i, DISPLAY_CANDWORDS)
        \/ r = R(Chosen(i, i.find), COMMIT_STRING)
        \/ /\ setup.useRemind
           /\ \E f \in Lengths : r = R(Chosen(i, f), COMMIT_STRING_REMIND)
        \/ /\ setup.useRemind
           /\ \E n \in setup.wordCounts, f \in Lengths :
                r = R(Remind(i, n, f), COMMIT_STRING_REMIND)
    <2>1. CASE i.remind
      BY <1>1, <1>3, <2>1 DEF GetCandWord
    <2>2. CASE ~ i.remind
      BY <1>2, <1>3, <2>2 DEF GetCandWord
    <2>3. QED
      BY <2>1, <2>2
  <1>5. CASE r = R(i, DISPLAY_CANDWORDS)
    BY <1>5, GoodAgain DEF DISPLAY_CANDWORDS
  <1>6. CASE r = R(Chosen(i, i.find), COMMIT_STRING)
    <2> DEFINE x == Chosen(i, i.find)
    <2>1. x \in Inputs /\ x.output = "word" /\ x.state = "active" /\ SameControl(x, i)
          /\ (x.remind => setup.useRemind)
      BY <1>1, ChosenFacts DEF SameControl
    <2> HIDE DEF x
    <2>2. Good(a, o, R(x, COMMIT_STRING))
      BY <2>1, GoodNext DEF COMMIT_STRING, Texts, Redraws
    <2>3. QED
      BY <1>6, <2>2 DEF x
  <1>7. ASSUME setup.useRemind, NEW f \in Lengths,
               r = R(Chosen(i, f), COMMIT_STRING_REMIND)
        PROVE  Good(a, o, r)
    <2> DEFINE x == Chosen(i, f)
    <2>1. x \in Inputs /\ x.output = "word" /\ x.state = "active" /\ SameControl(x, i)
      BY <1>1, ChosenFacts DEF SameControl
    <2> HIDE DEF x
    <2>2. Good(a, o, R(x, COMMIT_STRING_REMIND))
      BY <1>7, <2>1, GoodNext DEF COMMIT_STRING_REMIND, Texts, Redraws
    <2>3. QED
      BY <1>7, <2>2 DEF x
  <1>8. ASSUME setup.useRemind, NEW n \in setup.wordCounts, NEW f \in Lengths,
               r = R(Remind(i, n, f), COMMIT_STRING_REMIND)
        PROVE  Good(a, o, r)
    <2> DEFINE x == Remind(i, n, f)
    <2>1. x \in Inputs /\ x.output = "word" /\ x.state = "active" /\ SameControl(x, i)
      <3>1. n \in 0 .. 4
        BY LengthFacts
      <3>2. QED
        BY <1>1, <3>1, RemindFacts DEF SameControl
    <2> HIDE DEF x
    <2>2. Good(a, o, R(x, COMMIT_STRING_REMIND))
      BY <1>8, <2>1, GoodNext DEF COMMIT_STRING_REMIND, Texts, Redraws
    <2>3. QED
      BY <1>8, <2>2 DEF x
  <1>9. QED
    BY <1>4, <1>5, <1>6, <1>7, <1>8

\* A word chosen by its number.
LEMMA GoodChoice ==
    ASSUME setup \in Setup, NEW a, NEW o, NEW i, Good(a, o, R(i, TO_PROCESS)),
           NEW index \in Int
    PROVE  \A r \in ChooseByIndex(i, index) : Good(a, o, r)
  <1>1. i \in Inputs /\ i.candList \in Lists
    BY DEF Good, R, Inputs
  <1>2. CASE C!GetByIndex(i.candList, index) # 0
    <2>1. ~ Empty(i)
      BY <1>1, <1>2, EmptyList DEF Empty
    <2>2. QED
      BY <1>2, <2>1, GoodCandWord DEF ChooseByIndex
  <1>3. CASE C!GetByIndex(i.candList, index) = 0
    <2>1. ChooseByIndex(i, index) = {R(i, DO_NOTHING)} \/ ChooseByIndex(i, index) = {R(i, TO_PROCESS)}
      BY <1>3 DEF ChooseByIndex
    <2>2. Good(a, o, R(i, DO_NOTHING))
      BY GoodAgain DEF DO_NOTHING
    <2>3. QED
      BY <2>1, <2>2
  <1>4. QED
    BY <1>2, <1>3

\* UpdateCodeInputPY keeps all but the buffer.
LEMMA UpdateCodeFacts ==
    ASSUME NEW i \in Inputs
    PROVE  LET j == UpdateCode(i)
           IN  /\ j \in Inputs
               /\ j.state = i.state /\ j.iIMIndex = i.iIMIndex
               /\ j.keyReleased = i.keyReleased /\ j.find = i.find
               /\ j.candList = i.candList /\ j.messages = i.messages
               /\ j.remind = i.remind /\ j.inputOnly = i.inputOnly
               /\ j.output = i.output /\ j.committed = i.committed /\ j.uiflag = i.uiflag
               /\ j.code = IF i.remind THEN i.code ELSE i.find
  <1>1. CASE i.remind
    BY <1>1 DEF UpdateCode
  <1>2. CASE ~ i.remind
    <2>1. i.find \in Lengths
      BY DEF Inputs
    <2> DEFINE j == [i EXCEPT !.code = i.find]
    <2>2. UpdateCode(i) = j
      BY <1>2 DEF UpdateCode
    <2>3. /\ j \in Inputs /\ j.code = i.find
          /\ j.state = i.state /\ j.iIMIndex = i.iIMIndex
          /\ j.keyReleased = i.keyReleased /\ j.find = i.find
          /\ j.candList = i.candList /\ j.messages = i.messages
          /\ j.remind = i.remind /\ j.inputOnly = i.inputOnly
          /\ j.output = i.output /\ j.committed = i.committed /\ j.uiflag = i.uiflag
      BY <2>1, CodeSet
    <2> HIDE DEF j
    <2>4. QED
      BY <1>2, <2>2, <2>3
  <1>3. QED
    BY <1>1, <1>2

\* The raw buffer follows the input method's string after any result.
LEMMA GoodUpdateCode ==
    ASSUME NEW a, NEW o, NEW i \in Inputs, NEW ret, Good(a, o, R(i, ret)), i.committed = {}
    PROVE  Good(a, o, R(UpdateCode(i), ret))
  <1> DEFINE j == UpdateCode(i)
  <1>1. /\ j \in Inputs
        /\ j.state = i.state /\ j.iIMIndex = i.iIMIndex
        /\ j.keyReleased = i.keyReleased
        /\ j.candList = i.candList /\ j.messages = i.messages
        /\ j.remind = i.remind
        /\ j.output = i.output /\ j.committed = i.committed /\ j.uiflag = i.uiflag
    BY UpdateCodeFacts
  <1> HIDE DEF j
  <1>2. Drawn(j) = Drawn(i) /\ Empty(j) = Empty(i)
    BY <1>1 DEF Drawn, Empty
  <1>3. Good(a, o, R(j, ret))
    BY <1>1, <1>2 DEF Good, R, SameControl
  <1>4. QED
    BY <1>3 DEF j

\* What a key does to the input method.
LEMMA InputResults ==
    ASSUME NEW i \in Inputs, NEW e, NEW r \in DoInput(i, e)
    PROVE  \/ r \in {R(i, DO_NOTHING), R(i, CLEAN), R(i, TO_PROCESS), R(UpdateCode(i), TO_PROCESS)}
           \/ r = R([i EXCEPT !.inputOnly = FALSE], DISPLAY_CANDWORDS)
           \/ r = R(UpdateCode([i EXCEPT !.find = IF @ < setup.maxCode THEN @ + 1 ELSE @,
                                         !.remind = FALSE]), DISPLAY_CANDWORDS)
           \/ i.find > 1 /\ r = R(UpdateCode([i EXCEPT !.find = @ - 1]), DISPLAY_CANDWORDS)
           \/ \E q \in ChooseByIndex(i, 0) : r = R(UpdateCode(q.d), q.ret)
           \/ r = R([i EXCEPT !.inputOnly = TRUE, !.messages = TRUE], DISPLAY_MESSAGE)
  BY DEF DoInput

\* The input method's own phase.
LEMMA GoodDoInput ==
    ASSUME setup \in Setup, NEW a, NEW o, NEW i, Good(a, o, R(i, TO_PROCESS)),
           i.state = "active", NEW e
    PROVE  \A r \in DoInput(i, e) : Good(a, o, r)
  <1>1. /\ i \in Inputs /\ (i.remind => setup.useRemind) /\ i.committed = {}
        /\ i.code \in Lengths /\ i.find \in Lengths
    BY DEF Good, R, Inputs
  <1>2. FALSE \in BOOLEAN /\ TRUE \in BOOLEAN
    OBVIOUS
  <1>3. SUFFICES ASSUME NEW r \in DoInput(i, e)  PROVE Good(a, o, r)
    OBVIOUS
  <1>4. CASE r \in {R(i, DO_NOTHING), R(i, CLEAN), R(i, TO_PROCESS), R(UpdateCode(i), TO_PROCESS)}
    <2>1. Good(a, o, R(i, DO_NOTHING)) /\ Good(a, o, R(i, CLEAN))
      BY GoodAgain DEF DO_NOTHING, CLEAN
    <2>2. Good(a, o, R(UpdateCode(i), TO_PROCESS))
      BY <1>1, GoodUpdateCode
    <2>3. QED
      BY <1>4, <2>1, <2>2
  <1>5. CASE r = R([i EXCEPT !.inputOnly = FALSE], DISPLAY_CANDWORDS)
    <2> DEFINE x == [i EXCEPT !.inputOnly = FALSE]
    <2>1. /\ x \in Inputs /\ x.state = i.state /\ x.iIMIndex = i.iIMIndex
          /\ x.keyReleased = i.keyReleased /\ x.committed = i.committed
          /\ x.remind = i.remind
      BY <1>1, <1>2, InputOnlySet
    <2> HIDE DEF x
    <2>2. Good(a, o, R(x, DISPLAY_CANDWORDS))
      BY <1>1, <2>1, GoodNext DEF DISPLAY_CANDWORDS, Redraws, SameControl
    <2>3. QED
      BY <1>5, <2>2 DEF x
  <1>6. ASSUME NEW x \in Inputs, x.state = i.state, x.iIMIndex = i.iIMIndex,
               x.keyReleased = i.keyReleased, x.committed = i.committed,
               x.remind => i.remind
        PROVE  Good(a, o, R(UpdateCode(x), DISPLAY_CANDWORDS))
    <2>1. Good(a, o, R(x, DISPLAY_CANDWORDS))
      BY <1>1, <1>6, GoodNext DEF DISPLAY_CANDWORDS, Redraws, SameControl
    <2>2. QED
      BY <1>1, <1>6, <2>1, GoodUpdateCode
  <1>7. CASE r = R(UpdateCode([i EXCEPT !.find = IF @ < setup.maxCode THEN @ + 1 ELSE @,
                                        !.remind = FALSE]), DISPLAY_CANDWORDS)
    <2> DEFINE f == IF i.find < setup.maxCode THEN i.find + 1 ELSE i.find
               x == [i EXCEPT !.find = f]
               y == [x EXCEPT !.remind = FALSE]
    <2>1. f \in Lengths
      BY <1>1, LengthFacts
    <2>2. [i EXCEPT !.find = IF @ < setup.maxCode THEN @ + 1 ELSE @, !.remind = FALSE] = y
      BY <1>1 DEF Inputs
    <2> HIDE DEF f
    <2>3. /\ x \in Inputs /\ x.state = i.state /\ x.iIMIndex = i.iIMIndex
          /\ x.keyReleased = i.keyReleased /\ x.committed = i.committed
          /\ x.remind = i.remind
      BY <1>1, <2>1, FindSet
    <2> HIDE DEF x
    <2>4. /\ y \in Inputs /\ y.state = x.state /\ y.iIMIndex = x.iIMIndex
          /\ y.keyReleased = x.keyReleased /\ y.committed = x.committed
          /\ y.remind = FALSE
      BY <1>2, <2>3, RemindSet
    <2> HIDE DEF y
    <2>5. Good(a, o, R(UpdateCode(y), DISPLAY_CANDWORDS))
      BY <1>6, <2>3, <2>4
    <2>6. QED
      BY <1>7, <2>2, <2>5
  <1>8. CASE i.find > 1 /\ r = R(UpdateCode([i EXCEPT !.find = @ - 1]), DISPLAY_CANDWORDS)
    <2> DEFINE f == i.find - 1
               x == [i EXCEPT !.find = f]
    <2>1. f \in Lengths
      BY <1>1, <1>8, LengthFacts
    <2>2. [i EXCEPT !.find = @ - 1] = x
      BY <1>1 DEF Inputs
    <2> HIDE DEF f
    <2>3. /\ x \in Inputs /\ x.state = i.state /\ x.iIMIndex = i.iIMIndex
          /\ x.keyReleased = i.keyReleased /\ x.committed = i.committed
          /\ x.remind = i.remind
      BY <1>1, <2>1, FindSet
    <2> HIDE DEF x
    <2>4. Good(a, o, R(UpdateCode(x), DISPLAY_CANDWORDS))
      BY <1>6, <2>3
    <2>5. QED
      BY <1>8, <2>2, <2>4
  <1>9. ASSUME NEW q \in ChooseByIndex(i, 0), r = R(UpdateCode(q.d), q.ret)
        PROVE  Good(a, o, r)
    <2>1. Good(a, o, q)
      BY GoodChoice
    <2>2. q.d \in Inputs /\ q.d.committed = {}
      BY <1>1, <2>1 DEF Good, SameControl, R
    <2>3. Good(a, o, R(q.d, q.ret))
      BY <2>1 DEF Good, R
    <2>4. QED
      BY <1>9, <2>2, <2>3, GoodUpdateCode
  <1>10. CASE r = R([i EXCEPT !.inputOnly = TRUE, !.messages = TRUE], DISPLAY_MESSAGE)
    <2> DEFINE x == [i EXCEPT !.inputOnly = TRUE]
               y == [x EXCEPT !.messages = TRUE]
    <2>1. [i EXCEPT !.inputOnly = TRUE, !.messages = TRUE] = y
      BY <1>1 DEF Inputs
    <2>2. /\ x \in Inputs /\ x.state = i.state /\ x.iIMIndex = i.iIMIndex
          /\ x.keyReleased = i.keyReleased /\ x.committed = i.committed
          /\ x.remind = i.remind
      BY <1>1, <1>2, InputOnlySet
    <2> HIDE DEF x
    <2>3. /\ y \in Inputs /\ y.state = x.state /\ y.iIMIndex = x.iIMIndex
          /\ y.keyReleased = x.keyReleased /\ y.committed = x.committed
          /\ y.remind = x.remind
      BY <1>2, <2>2, MessagesSet
    <2> HIDE DEF y
    <2>4. Good(a, o, R(y, DISPLAY_MESSAGE))
      BY <1>1, <2>2, <2>3, GoodNext DEF DISPLAY_MESSAGE, Redraws, SameControl
    <2>5. QED
      BY <1>10, <2>1, <2>4
  <1>11. QED
    <2>1. \/ r \in {R(i, DO_NOTHING), R(i, CLEAN), R(i, TO_PROCESS), R(UpdateCode(i), TO_PROCESS)}
          \/ r = R([i EXCEPT !.inputOnly = FALSE], DISPLAY_CANDWORDS)
          \/ r = R(UpdateCode([i EXCEPT !.find = IF @ < setup.maxCode THEN @ + 1 ELSE @,
                                        !.remind = FALSE]), DISPLAY_CANDWORDS)
          \/ i.find > 1 /\ r = R(UpdateCode([i EXCEPT !.find = @ - 1]), DISPLAY_CANDWORDS)
          \/ \E q \in ChooseByIndex(i, 0) : r = R(UpdateCode(q.d), q.ret)
          \/ r = R([i EXCEPT !.inputOnly = TRUE, !.messages = TRUE], DISPLAY_MESSAGE)
      BY <1>1, <1>3, InputResults
    <2>2. QED
      BY <2>1, <1>4, <1>5, <1>7, <1>8, <1>9, <1>10, Zenon

\* The filters before the input method and the method itself.
LEMMA GoodInputPhases ==
    ASSUME setup \in Setup, NEW a, NEW o, NEW i, Good(a, o, R(i, TO_PROCESS)),
           i.state = "active", NEW e
    PROVE  \A r \in InputPhases(i, e) : Good(a, o, r)
  <1> DEFINE pre == IF i.inputOnly THEN {R(i, TO_PROCESS)} ELSE PreInputFilter(i)
             Input(r) == IF r.ret = TO_PROCESS /\ ~ IsHotKey(e, LCTRL_LSHIFT)
                         THEN DoInput(r.d, e) ELSE {r}
             Choose(r) == IF r.ret = TO_PROCESS /\ ~ r.d.inputOnly /\ IsHotKey(e, Plain("2"))
                          THEN ChooseByIndex(r.d, 1) ELSE {r}
  <1>1. \A r \in pre : r \in {R(i, TO_PROCESS), R(i, DO_NOTHING)}
    BY DEF PreInputFilter
  <1>2. Good(a, o, R(i, DO_NOTHING))
    BY GoodAgain DEF DO_NOTHING
  <1>3. ASSUME NEW r \in pre  PROVE \A q \in Input(r) : Good(a, o, q)
    <2>1. r.d = i /\ Good(a, o, r)
      BY <1>1, <1>2, <1>3 DEF R
    <2>2. QED
      BY <2>1, GoodDoInput
  <1>4. ASSUME NEW r, Good(a, o, r)  PROVE \A q \in Choose(r) : Good(a, o, q)
    <2>1. CASE r.ret = TO_PROCESS
      <3>1. Good(a, o, R(r.d, TO_PROCESS))
        BY <1>4, <2>1 DEF Good, R
      <3>2. QED
        BY <1>4, <3>1, GoodChoice
    <2>2. CASE r.ret # TO_PROCESS
      BY <1>4, <2>2
    <2>3. QED
      BY <2>1, <2>2
  <1>5. InputPhases(i, e) = UNION {Choose(r) : r \in UNION {Input(q) : q \in pre}}
    BY DEF InputPhases, Then
  <1> HIDE DEF pre, Input, Choose
  <1>6. QED
    BY <1>3, <1>4, <1>5

\* Asking the input method for words again.
LEMMA GoodUpdateCandidates ==
    ASSUME setup \in Setup, NEW a, NEW o, NEW r, Good(a, o, r)
    PROVE  \A q \in UpdateCandidates(r) : Good(a, o, q)
  <1> DEFINE i == r.d
             c == CleanInputWindow(i)
             b == i.find > 0
  <1>1. i \in Inputs
    BY DEF Good
  <1>2. SUFFICES ASSUME r.d.state = "active", "words" \in r.ret,
                        NEW n \in setup.wordCounts
                 PROVE  Good(a, o, R([Found(c, n) EXCEPT !.messages = b], DISPLAY_CANDWORDS))
    BY DEF UpdateCandidates, GetCandWords
  <1>3. /\ c \in Inputs
        /\ c.state = i.state /\ c.iIMIndex = i.iIMIndex /\ c.keyReleased = i.keyReleased
        /\ c.code = i.code /\ c.remind = i.remind /\ c.committed = i.committed
    BY <1>1, CleanFacts
  <1>4. b \in BOOLEAN
    OBVIOUS
  <1> HIDE DEF c, b
  <1> DEFINE f == Found(c, n)
             x == [f EXCEPT !.messages = b]
  <1>5. n \in 0 .. 4
    BY <1>2, LengthFacts
  <1>6. /\ f \in Inputs
        /\ f.state = c.state /\ f.iIMIndex = c.iIMIndex /\ f.keyReleased = c.keyReleased
        /\ f.code = c.code /\ f.remind = c.remind /\ f.committed = c.committed
    BY <1>3, <1>5, FoundFacts
  <1> HIDE DEF f
  <1>7. /\ x \in Inputs
        /\ x.state = f.state /\ x.iIMIndex = f.iIMIndex /\ x.keyReleased = f.keyReleased
        /\ x.code = f.code /\ x.remind = f.remind /\ x.committed = f.committed
    BY <1>4, <1>6, MessagesSet
  <1> HIDE DEF x
  <1>8. Good(a, o, R(x, DISPLAY_CANDWORDS))
    BY <1>2, <1>3, <1>6, <1>7 DEF Good, R, SameControl, DISPLAY_CANDWORDS, TO_PROCESS, Redraws
  <1>9. QED
    BY <1>8 DEF x, f

\* Turning pages with the page keys.
LEMMA GoodTurnPage ==
    ASSUME setup \in Setup, NEW a, NEW o, NEW r, Good(a, o, r), NEW e
    PROVE  \A q \in TurnPage(r, e) : Good(a, o, q)
  <1> DEFINE i == r.d
  <1>1. i \in Inputs /\ i.candList \in Lists
    BY DEF Good, Inputs
  <1>2. CASE r.d.state # "active" \/ r.d.inputOnly \/ r.ret # TO_PROCESS
               \/ C!PageCount(r.d.candList) = 0
    BY <1>2 DEF TurnPage
  <1>3. CASE ~ (r.d.state # "active" \/ r.d.inputOnly \/ r.ret # TO_PROCESS
                 \/ C!PageCount(r.d.candList) = 0)
    <2>1. Good(a, o, R(i, TO_PROCESS)) /\ i.state = "active"
          /\ (i.remind => setup.useRemind)
      BY <1>3 DEF Good, R
    <2>2. ASSUME NEW l \in Lists
          PROVE  Good(a, o, R([i EXCEPT !.candList = l], DISPLAY_CANDWORDS))
      <3> DEFINE x == [i EXCEPT !.candList = l]
      <3>1. /\ x \in Inputs /\ x.state = i.state /\ x.iIMIndex = i.iIMIndex
            /\ x.keyReleased = i.keyReleased /\ x.committed = i.committed
            /\ x.remind = i.remind
        BY <1>1, ListSet
      <3> HIDE DEF x
      <3>2. Good(a, o, R(x, DISPLAY_CANDWORDS))
        BY <2>1, <3>1, GoodNext DEF DISPLAY_CANDWORDS, Redraws, SameControl
      <3>3. QED
        BY <3>2 DEF x
    <2>3. C!GoPrevPage(i.candList) \in Lists /\ C!GoNextPage(i.candList) \in Lists
      BY <1>1, PagingTypes
    <2>4. /\ Good(a, o, R([i EXCEPT !.candList = C!GoPrevPage(i.candList)], DISPLAY_CANDWORDS))
          /\ Good(a, o, R([i EXCEPT !.candList = C!GoNextPage(i.candList)], DISPLAY_CANDWORDS))
      BY <2>2, <2>3
    <2>5. SUFFICES ASSUME NEW q \in TurnPage(r, e)  PROVE Good(a, o, q)
      OBVIOUS
    <2>6. \/ q = R([i EXCEPT !.candList = C!GoPrevPage(i.candList)], DISPLAY_CANDWORDS)
          \/ q = R([i EXCEPT !.candList = C!GoNextPage(i.candList)], DISPLAY_CANDWORDS)
          \/ q = r
      BY <1>1, <1>3, <2>5 DEF TurnPage
    <2>7. QED
      BY <2>4, <2>6, Zenon
  <1>4. QED
    BY <1>2, <1>3

\* Keys that the window swallows while it shows something.
LEMMA GoodBlockKey ==
    ASSUME setup \in Setup, NEW a, NEW o, NEW r, Good(a, o, r), NEW e
    PROVE  \A q \in BlockKey(r, e) : Good(a, o, q)
  <1> DEFINE i == r.d
             x == [i EXCEPT !.output = "punc"]
  <1>1. i \in Inputs /\ (i.remind => setup.useRemind)
    BY DEF Good
  <1>2. CASE r.d.state # "active" \/ r.d.inputOnly \/ r.ret # TO_PROCESS
    BY <1>2 DEF BlockKey
  <1>3. CASE ~ (r.d.state # "active" \/ r.d.inputOnly \/ r.ret # TO_PROCESS)
    <2>1. Good(a, o, R(i, TO_PROCESS)) /\ i.state = "active"
      BY <1>3 DEF Good, R
    <2>2. "punc" \in Outputs /\ "punc" \in Texts
      BY DEF Outputs, Texts
    <2>3. /\ x \in Inputs /\ x.output = "punc" /\ x.state = i.state /\ x.iIMIndex = i.iIMIndex
          /\ x.keyReleased = i.keyReleased /\ x.committed = i.committed
          /\ x.remind = i.remind
      BY <1>1, <2>2, OutputSet
    <2> HIDE DEF x
    <2>4. Good(a, o, R(x, PUNC))
      BY <1>1, <2>1, <2>2, <2>3, GoodNext DEF PUNC, Redraws, SameControl
    <2>5. Good(a, o, R(i, DO_NOTHING))
      BY <2>1, GoodAgain DEF DO_NOTHING
    <2>6. \A q \in PostInputFilter(i) : q \in {R(i, TO_PROCESS), R(x, PUNC)}
      BY DEF PostInputFilter, x
    <2>7. PUNC # TO_PROCESS
      BY DEF PUNC, TO_PROCESS
    <2>8. \A q \in BlockKey(r, e) : q \in {R(x, PUNC), R(i, StandardKeyBlocker(i, e))}
      BY <1>3, <2>6, <2>7 DEF BlockKey, R
    <2>9. QED
      BY <2>1, <2>4, <2>5, <2>8 DEF StandardKeyBlocker
  <1>4. QED
    BY <1>2, <1>3

\* The hot keys tried last.
LEMMA GoodHotkey ==
    ASSUME setup \in Setup, NEW a, NEW o, NEW r, Good(a, o, r), NEW e
    PROVE  \A q \in ProcessHotkey(r, e) : Good(a, o, q)
  <1> DEFINE i == r.d
             c == CleanInputWindow(i)
             x == [c EXCEPT !.output = "raw"]
  <1>1. i \in Inputs /\ (i.remind => setup.useRemind)
    BY DEF Good
  <1>2. CASE r.ret # TO_PROCESS
    BY <1>2 DEF ProcessHotkey
  <1>3. CASE r.ret = TO_PROCESS
    <2>1. Good(a, o, R(i, TO_PROCESS))
      BY <1>3 DEF Good, R
    <2>2. /\ c \in Inputs /\ Empty(c)
          /\ c.state = i.state /\ c.iIMIndex = i.iIMIndex /\ c.keyReleased = i.keyReleased
          /\ c.remind = i.remind /\ c.committed = i.committed
      BY <1>1, CleanFacts
    <2> HIDE DEF c
    <2>3. "raw" \in Outputs /\ "raw" \in Texts
      BY DEF Outputs, Texts
    <2>4. /\ x \in Inputs /\ x.output = "raw" /\ x.state = c.state /\ x.iIMIndex = c.iIMIndex
          /\ x.keyReleased = c.keyReleased /\ x.committed = c.committed
          /\ x.remind = c.remind /\ x.candList = c.candList
      BY <2>2, <2>3, OutputSet
    <2> HIDE DEF x
    <2>5. Good(a, o, R(x, ENG))
      BY <1>1, <2>1, <2>2, <2>3, <2>4, GoodNext DEF ENG, Redraws, SameControl, Empty
    <2>6. Good(a, o, R(i, DO_NOTHING)) /\ Good(a, o, R(i, CLEAN)) /\ Good(a, o, R(i, DONOT_PROCESS))
      BY <2>1, GoodAgain DEF DO_NOTHING, CLEAN, DONOT_PROCESS
    <2>7. setup.enterToDo \in {"Nothing", "Clean", "Commit"}
      BY DEF Setup
    <2>8. ImProcessEnter(i) \in {R(i, DO_NOTHING), R(i, CLEAN), R(i, DONOT_PROCESS), R(x, ENG)}
      BY <2>7 DEF ImProcessEnter, x, c
    <2>9. ImProcessEscape(i) \in {R(i, CLEAN), R(i, DONOT_PROCESS)}
      BY DEF ImProcessEscape
    <2>10. QED
      BY <2>5, <2>6, <2>8, <2>9 DEF ProcessHotkey
  <1>4. QED
    BY <1>2, <1>3

\* What the processing of a return value leaves.
Done(a, o, x) ==
    /\ x \in Inputs
    /\ x.state = o.state /\ x.iIMIndex = o.iIMIndex /\ x.keyReleased = o.keyReleased
    /\ x.remind => setup.useRemind
    /\ x.state # "active" => Empty(x)
    \* what is shown is as before, or it will be drawn again
    /\ ~ x.uiflag => ~ a.uiflag /\ Drawn(x) = Drawn(a)
    \* nothing is left of text that was committed
    /\ x.committed \intersect {"word", "raw"} # {} /\ ~ setup.useRemind => x.code = 0

\* ProcessInputReturnValue does all that the return value still asks for.
LEMMA ResultProcessed ==
    ASSUME setup \in Setup, NEW a, NEW o, NEW r, Good(a, o, r)
    PROVE  LET q == ProcessInputReturnValue(r)
           IN  /\ Done(a, o, q.d) /\ q.ret = r.ret
               /\ "commit" \notin r.ret => q.d.committed = r.d.committed
  <1> DEFINE i == r.d
             n == CommitString(i, i.output)
             c == IF "commit" \in r.ret THEN n ELSE i
             cl == CleanInputWindow(c)
             u == UpdateInputWindow(cl)
             tt == ResetInput(u)
             t == IF "phrase tips" \in r.ret THEN tt ELSE c
             z == ResetInput(t)
             ss == CloseInputWindow(z)
             s == IF "reset" \in r.ret THEN ss ELSE t
             ww == UpdateInputWindow(s)
             w == IF "window" \in r.ret THEN ww ELSE s
             x == [w EXCEPT !.output = "nothing"]
  <1>1. ProcessInputReturnValue(r) = R(x, r.ret)
    BY DEF ProcessInputReturnValue
  <1>2. /\ i \in Inputs /\ (i.remind => setup.useRemind) /\ i.committed \in SUBSET Texts
        /\ i.code \in Lengths /\ i.output \in Outputs
    BY DEF Good, Inputs
  <1>3. /\ c \in Inputs
        /\ c.state = i.state /\ c.iIMIndex = i.iIMIndex /\ c.keyReleased = i.keyReleased
        /\ c.code = i.code /\ c.candList = i.candList /\ c.messages = i.messages
        /\ c.remind = i.remind /\ c.uiflag = i.uiflag
        /\ "commit" \in r.ret => c.committed = i.committed \union {i.output}
        /\ "commit" \notin r.ret => c.committed = i.committed
    <2>1. CASE "commit" \in r.ret
      <3> DEFINE v == i.committed \union {i.output}
                 y == [i EXCEPT !.committed = v]
      <3>1. i.output \in Texts
        BY <2>1 DEF Good
      <3>2. v \in SUBSET Texts
        BY <1>2, <3>1
      <3>3. n = y
        BY <1>2 DEF CommitString
      <3> HIDE DEF v
      <3>4. /\ y \in Inputs /\ y.committed = v
            /\ y.state = i.state /\ y.iIMIndex = i.iIMIndex /\ y.keyReleased = i.keyReleased
            /\ y.code = i.code /\ y.candList = i.candList /\ y.messages = i.messages
            /\ y.remind = i.remind /\ y.uiflag = i.uiflag
        BY <1>2, <3>2, CommittedSet
      <3> HIDE DEF y, n
      <3>5. c = y
        BY <2>1, <3>3
      <3>6. QED
        BY <2>1, <3>4, <3>5 DEF v
    <2>2. CASE "commit" \notin r.ret
      BY <1>2, <2>2
    <2>3. QED
      BY <2>1, <2>2
  <1> HIDE DEF n, c
  <1>4. /\ t \in Inputs
        /\ t.state = c.state /\ t.iIMIndex = c.iIMIndex /\ t.keyReleased = c.keyReleased
        /\ t.committed = c.committed
        /\ "phrase tips" \in r.ret => Empty(t) /\ t.uiflag /\ t.code = 0 /\ ~ t.remind
        /\ "phrase tips" \notin r.ret => t = c
    <2>1. CASE "phrase tips" \in r.ret
      <3>1. /\ cl \in Inputs
            /\ cl.state = c.state /\ cl.iIMIndex = c.iIMIndex
            /\ cl.keyReleased = c.keyReleased /\ cl.committed = c.committed
        BY <1>3, CleanFacts
      <3> HIDE DEF cl
      <3>2. /\ u \in Inputs /\ u.uiflag
            /\ u.state = cl.state /\ u.iIMIndex = cl.iIMIndex
            /\ u.keyReleased = cl.keyReleased /\ u.committed = cl.committed
        BY <3>1, UpdateFacts
      <3> HIDE DEF u
      <3>3. /\ tt \in Inputs /\ tt.uiflag /\ Empty(tt) /\ tt.code = 0 /\ ~ tt.remind
            /\ tt.state = u.state /\ tt.iIMIndex = u.iIMIndex
            /\ tt.keyReleased = u.keyReleased /\ tt.committed = u.committed
        BY <3>2, ResetFacts
      <3> HIDE DEF tt
      <3>4. QED
        BY <2>1, <3>1, <3>2, <3>3
    <2>2. CASE "phrase tips" \notin r.ret
      BY <1>3, <2>2
    <2>3. QED
      BY <2>1, <2>2
  <1> HIDE DEF cl, u, tt, t
  <1>5. /\ s \in Inputs
        /\ s.state = t.state /\ s.iIMIndex = t.iIMIndex /\ s.keyReleased = t.keyReleased
        /\ s.committed = t.committed
        /\ "reset" \in r.ret => Empty(s) /\ s.uiflag /\ s.code = 0 /\ ~ s.remind
        /\ "reset" \notin r.ret => s = t
    <2>1. CASE "reset" \in r.ret
      <3>1. /\ z \in Inputs /\ z.code = 0 /\ ~ z.remind
            /\ z.state = t.state /\ z.iIMIndex = t.iIMIndex
            /\ z.keyReleased = t.keyReleased /\ z.committed = t.committed
        BY <1>4, ResetFacts
      <3> HIDE DEF z
      <3>2. /\ ss \in Inputs /\ ss.uiflag /\ Empty(ss) /\ ss.code = z.code
            /\ ss.state = z.state /\ ss.iIMIndex = z.iIMIndex /\ ss.remind = z.remind
            /\ ss.keyReleased = z.keyReleased /\ ss.committed = z.committed
        BY <3>1, CloseWindowFacts
      <3> HIDE DEF ss
      <3>3. QED
        BY <2>1, <3>1, <3>2
    <2>2. CASE "reset" \notin r.ret
      BY <1>4, <2>2
    <2>3. QED
      BY <2>1, <2>2
  <1> HIDE DEF z, ss, s
  <1>6. /\ w \in Inputs
        /\ w.state = s.state /\ w.iIMIndex = s.iIMIndex /\ w.keyReleased = s.keyReleased
        /\ w.code = s.code /\ w.candList = s.candList /\ w.messages = s.messages
        /\ w.remind = s.remind /\ w.committed = s.committed
        /\ "window" \in r.ret => w.uiflag
        /\ "window" \notin r.ret => w.uiflag = s.uiflag
    <2>1. CASE "window" \in r.ret
      BY <1>5, <2>1, UpdateFacts
    <2>2. CASE "window" \notin r.ret
      BY <1>5, <2>2
    <2>3. QED
      BY <2>1, <2>2
  <1> HIDE DEF ww, w
  <1>7. "nothing" \in Outputs
    BY DEF Outputs
  <1>8. /\ x \in Inputs
        /\ x.state = w.state /\ x.iIMIndex = w.iIMIndex /\ x.keyReleased = w.keyReleased
        /\ x.code = w.code /\ x.candList = w.candList /\ x.messages = w.messages
        /\ x.remind = w.remind /\ x.committed = w.committed /\ x.uiflag = w.uiflag
    BY <1>6, <1>7, OutputSet
  <1> HIDE DEF x
  <1>9. x.state = o.state /\ x.iIMIndex = o.iIMIndex /\ x.keyReleased = o.keyReleased
    <2>1. i.state = o.state /\ i.iIMIndex = o.iIMIndex /\ i.keyReleased = o.keyReleased
      BY DEF Good, SameControl
    <2>2. x.state = t.state /\ x.iIMIndex = t.iIMIndex /\ x.keyReleased = t.keyReleased
      BY <1>5, <1>6, <1>8
    <2>3. t.state = i.state /\ t.iIMIndex = i.iIMIndex /\ t.keyReleased = i.keyReleased
      BY <1>3, <1>4
    <2>4. QED
      BY <2>1, <2>2, <2>3
  <1>10. x.remind => setup.useRemind
    BY <1>2, <1>3, <1>4, <1>5, <1>6, <1>8
  <1>11. Empty(i) => Empty(x)
    <2>1. Empty(i) => Empty(c)
      BY <1>3 DEF Empty
    <2>2. Empty(c) => Empty(t)
      BY <1>4, Zenon
    <2>3. Empty(t) => Empty(s)
      BY <1>5, Zenon
    <2>4. Empty(s) => Empty(x)
      BY <1>6, <1>8 DEF Empty
    <2>5. QED
      BY <2>1, <2>2, <2>3, <2>4
  <1>12. x.state # "active" => Empty(x)
    BY <1>3, <1>4, <1>5, <1>6, <1>8, <1>11 DEF Good
  <1>13. Redraws(r.ret) => x.uiflag
    BY <1>4, <1>5, <1>6, <1>8 DEF Redraws
  <1>14. ~ Redraws(r.ret) => x.uiflag = i.uiflag /\ Drawn(x) = Drawn(i)
    BY <1>3, <1>4, <1>5, <1>6, <1>8 DEF Redraws, Drawn
  <1>15. ~ x.uiflag => ~ a.uiflag /\ Drawn(x) = Drawn(a)
    BY <1>13, <1>14 DEF Good
  <1>16. i.code = 0 => x.code = 0
    BY <1>3, <1>4, <1>5, <1>6, <1>8
  <1>17. x.committed = c.committed
    BY <1>4, <1>5, <1>6, <1>8
  <1>18. ASSUME x.committed \intersect {"word", "raw"} # {}, ~ setup.useRemind
         PROVE  x.code = 0
    <2>1. CASE i.committed # {}
      BY <1>16, <2>1 DEF Good
    <2>2. CASE i.committed = {}
      <3>1. "commit" \in r.ret /\ i.output \in {"word", "raw"}
        BY <1>3, <1>17, <1>18, <2>2
      <3>2. "phrase tips" \in r.ret \/ "reset" \in r.ret
        BY <1>18, <3>1 DEF Good
      <3>3. QED
        BY <1>4, <1>5, <1>6, <1>8, <3>2
    <2>3. QED
      BY <2>1, <2>2
  <1>19. Done(a, o, x)
    BY <1>8, <1>9, <1>10, <1>12, <1>15, <1>18 DEF Done
  <1>20. "commit" \notin r.ret => x.committed = r.d.committed
    BY <1>3, <1>17
  <1>21. QED
    BY <1>1, <1>19, <1>20 DEF R

\* All phases after the first.
LEMMA GoodCallback ==
    ASSUME setup \in Setup, NEW a, NEW o, NEW r, Good(a, o, r), NEW e
    PROVE  \A q \in DoInputCallback(r, e) : Done(a, o, q.d)
  <1> DEFINE Page(q) == TurnPage(q, e)
             Block(q) == BlockKey(q, e)
             Hotkey(q) == ProcessHotkey(q, e)
             first == UpdateCandidates(r)
             second == UNION {Page(q) : q \in first}
             third == UNION {Block(q) : q \in second}
             fourth == UNION {Hotkey(q) : q \in third}
  <1>1. DoInputCallback(r, e) = {ProcessInputReturnValue(q) : q \in fourth}
    BY DEF DoInputCallback, Then
  <1>2. \A q \in first : Good(a, o, q)
    BY GoodUpdateCandidates
  <1> HIDE DEF first
  <1>3. \A q \in second : Good(a, o, q)
    BY <1>2, GoodTurnPage
  <1> HIDE DEF second
  <1>4. \A q \in third : Good(a, o, q)
    BY <1>3, GoodBlockKey
  <1> HIDE DEF third
  <1>5. \A q \in fourth : Good(a, o, q)
    BY <1>4, GoodHotkey
  <1> HIDE DEF fourth
  <1>6. \A q \in fourth : Done(a, o, ProcessInputReturnValue(q).d)
    BY <1>5, ResultProcessed
  <1>7. QED
    BY <1>1, <1>6

-----------------------------------------------------------------------------
(* The first phase: modifier keys *)

\* Disarming a release changes nothing else.
LEMMA DisarmFacts ==
    ASSUME NEW i \in Inputs
    PROVE  LET j == Disarm(i)
           IN  /\ j \in Inputs /\ j.keyReleased = "OTHER"
               /\ j.state = i.state /\ j.iIMIndex = i.iIMIndex /\ j.code = i.code
               /\ j.find = i.find /\ j.candList = i.candList /\ j.messages = i.messages
               /\ j.remind = i.remind /\ j.inputOnly = i.inputOnly
               /\ j.output = i.output /\ j.committed = i.committed
               /\ j.uiflag = i.uiflag
  <1>1. "OTHER" \in Released
    BY SetupKeyTypes
  <1>2. QED
    BY <1>1, ReleasedSet DEF Disarm

\* The input as it is between two keys, before one of them is processed.
Ready(i) ==
    /\ i \in Inputs
    /\ i.committed = {}
    /\ i.remind => setup.useRemind
    /\ i.state # "active" => Empty(i)

\* Nothing happened yet.
LEMMA GoodStart ==
    ASSUME NEW i, Ready(i)
    PROVE  Good(i, i, R(i, TO_PROCESS))
  BY DEF Ready, Good, R, SameControl, TO_PROCESS, Redraws

\* A result of the first phase, from the input before the key.
LEMMA GoodFirst ==
    ASSUME NEW i, Ready(i), NEW x \in Inputs, NEW ret,
           x.committed = {},
           x.remind => setup.useRemind,
           "commit" \in ret => x.output \in Texts,
           "commit" \in ret /\ x.output \in {"word", "raw"} /\ ~ setup.useRemind =>
             "phrase tips" \in ret \/ "reset" \in ret,
           x.state # "active" => Empty(x),
           Redraws(ret) \/ x.uiflag \/ (x.uiflag = i.uiflag /\ Drawn(x) = Drawn(i))
    PROVE  Good(i, x, R(x, ret))
  <1>1. ~ x.uiflag /\ ~ Redraws(ret) => ~ i.uiflag /\ Drawn(x) = Drawn(i)
    OBVIOUS
  <1>2. QED
    BY <1>1 DEF Good, R, SameControl

\* The hot keys that act when they are released.
SwitchSym == IF setup.switchKey = "L_CTRL" THEN "Control_L" ELSE "Shift_L"

\* Which keys a hot key of modifiers can be.
LEMMA HotkeySyms ==
    ASSUME NEW e
    PROVE  /\ IsHotKey(e, i2ndSelectKey) => e.sym = "Shift_L"
           /\ IsHotKey(e, i3rdSelectKey) => e.sym = "Shift_R"
           /\ IsHotKey(e, switchKey) => e.sym = SwitchSym
           /\ IsHotKey(e, LCTRL_LSHIFT \union LCTRL_LSHIFT2) => e.sym \in {"Shift_L", "Control_L"}
  BY DEF IsHotKey, i2ndSelectKey, i3rdSelectKey, switchKey, LCTRL_LSHIFT, LCTRL_LSHIFT2, SwitchSym

\* The release e follows its press and no other.
Acts(i, e) ==
    /\ idle < 2
    /\ \/ i.keyReleased = "2ND" /\ e.sym = "Shift_L"
       \/ i.keyReleased = "3RD" /\ e.sym = "Shift_R"
       \/ i.keyReleased = "SWITCH" /\ e.sym = SwitchSym

\* The second or third word, chosen by the release of a Shift key.
LEMMA SelectFacts ==
    ASSUME setup \in Setup, NEW i, Ready(i), NEW index \in Int, NEW r \in Select(i, index)
    PROVE  /\ Good(i, r.d, r)
           /\ r.d.keyReleased = "OTHER" /\ r.d.state = i.state /\ r.d.iIMIndex = i.iIMIndex
  <1>1. i \in Inputs /\ Good(i, i, R(i, TO_PROCESS))
    BY GoodStart DEF Ready
  <1>2. ASSUME NEW q, Good(i, i, q), r = R(Disarm(q.d), q.ret)
        PROVE  /\ Good(i, r.d, r)
               /\ r.d.keyReleased = "OTHER" /\ r.d.state = i.state /\ r.d.iIMIndex = i.iIMIndex
    <2> DEFINE j == q.d
               x == Disarm(j)
    <2>1. j \in Inputs /\ j.state = i.state /\ j.iIMIndex = i.iIMIndex
      BY <1>2 DEF Good, SameControl
    <2>2. /\ x \in Inputs /\ x.keyReleased = "OTHER"
          /\ x.state = j.state /\ x.iIMIndex = j.iIMIndex /\ x.code = j.code
          /\ x.candList = j.candList /\ x.messages = j.messages
          /\ x.remind = j.remind /\ x.output = j.output /\ x.committed = j.committed
          /\ x.uiflag = j.uiflag
      BY <2>1, DisarmFacts
    <2> HIDE DEF x
    <2>3. Drawn(x) = Drawn(j) /\ Empty(x) = Empty(j)
      BY <2>2 DEF Drawn, Empty
    <2>4. Good(i, x, R(x, q.ret))
      BY <1>2, <2>2, <2>3 DEF Good, R, SameControl
    <2>5. r.d = x /\ r = R(x, q.ret)
      BY <1>2 DEF R, x
    <2>6. QED
      BY <2>1, <2>2, <2>4, <2>5
  <1>3. CASE i.remind
    <2> DEFINE y == [i EXCEPT !.output = "space"]
    <2>1. r = R(Disarm(R(y, COMMIT_STRING).d), R(y, COMMIT_STRING).ret)
      BY <1>3 DEF Select
    <2>2. "space" \in Outputs /\ "space" \in Texts
      BY DEF Outputs, Texts
    <2>3. /\ y \in Inputs /\ y.output = "space"
          /\ y.state = i.state /\ y.iIMIndex = i.iIMIndex
          /\ y.keyReleased = i.keyReleased /\ y.candList = i.candList
          /\ y.remind = i.remind /\ y.committed = i.committed
      BY <1>1, <2>2, OutputSet
    <2> HIDE DEF y
    <2>4. Good(i, i, R(y, COMMIT_STRING))
      BY <1>1, <2>2, <2>3, GoodNext DEF COMMIT_STRING, Redraws, SameControl, Ready, Empty
    <2>5. QED
      BY <1>2, <2>1, <2>4
  <1>4. CASE ~ i.remind
    <2>1. PICK q \in ChooseByIndex(i, index) : r = R(Disarm(q.d), q.ret)
      BY <1>4 DEF Select
    <2>2. Good(i, i, q)
      BY <1>1, GoodChoice
    <2>3. QED
      BY <1>2, <2>1, <2>2
  <1>5. QED
    BY <1>3, <1>4

\* The state, switched by the release of the switch key.
LEMMA SwitchKeyFacts ==
    ASSUME setup \in Setup, NEW i, Ready(i)
    PROVE  LET r == Switch(i)
           IN  /\ Good(i, r.d, r)
               /\ r.d.keyReleased = "OTHER" /\ r.d.iIMIndex = i.iIMIndex
  <1> DEFINE send == setup.sendTextWhenSwitchEng /\ i.code # 0
             j == Disarm(i)
             k == [j EXCEPT !.output = "raw"]
             sent == IF send THEN k ELSE j
             s == ShowInputSpeed(sent)
             told == IF i.state = "inactive" THEN s ELSE sent
             x == ChangeIMState(told)
             ret == IF send THEN ENG ELSE DONOT_PROCESS
  <1>1. Switch(i) = R(x, ret)
    BY DEF Switch
  <1>2. i \in Inputs
    BY DEF Ready
  <1>3. /\ j \in Inputs /\ j.keyReleased = "OTHER" /\ j.state = i.state
        /\ j.iIMIndex = i.iIMIndex /\ j.committed = i.committed
    BY <1>2, DisarmFacts
  <1> HIDE DEF j
  <1>4. "raw" \in Outputs /\ "raw" \in Texts
    BY DEF Outputs, Texts
  <1>5. /\ k \in Inputs /\ k.output = "raw" /\ k.keyReleased = j.keyReleased
        /\ k.state = j.state /\ k.iIMIndex = j.iIMIndex /\ k.committed = j.committed
    BY <1>3, <1>4, OutputSet
  <1> HIDE DEF k
  <1>6. /\ sent \in Inputs /\ sent.keyReleased = "OTHER" /\ sent.state = i.state
        /\ sent.iIMIndex = i.iIMIndex /\ sent.committed = i.committed
        /\ send => sent.output = "raw"
    BY <1>3, <1>5
  <1>7. ret = ENG \/ ret = DONOT_PROCESS
    OBVIOUS
  <1>8. "commit" \in ret => send
    BY DEF DONOT_PROCESS
  <1> HIDE DEF sent, send, ret
  <1>9. /\ told \in Inputs /\ told.keyReleased = "OTHER" /\ told.state = i.state
        /\ told.iIMIndex = i.iIMIndex /\ told.committed = i.committed
        /\ told.output = sent.output
        /\ i.state = "inactive" => told.uiflag
    BY <1>6, SpeedFacts
  <1> HIDE DEF told, s
  <1>10. /\ x \in Inputs /\ Empty(x) /\ ~ x.remind
         /\ told.state # "inactive" \/ told.uiflag => x.uiflag
         /\ x.output = told.output /\ x.committed = told.committed
         /\ x.iIMIndex = told.iIMIndex /\ x.keyReleased = told.keyReleased
    BY <1>9, ChangeFacts
  <1> HIDE DEF x
  <1>11. x.uiflag /\ x.committed = {}
    BY <1>9, <1>10 DEF Ready
  <1>12. "commit" \in ret => x.output \in Texts /\ "reset" \in ret
    BY <1>4, <1>6, <1>7, <1>8, <1>9, <1>10 DEF ENG, DONOT_PROCESS
  <1>13. Good(i, x, R(x, ret))
    BY <1>10, <1>11, <1>12, GoodFirst
  <1>14. QED
    BY <1>1, <1>9, <1>10, <1>13 DEF R

\* Without words the messages are all there is to draw.
LEMMA EmptyDrawn ==
    ASSUME NEW i \in Inputs, NEW j \in Inputs, Empty(i), Empty(j), i.messages = j.messages
    PROVE  Drawn(i) = Drawn(j)
  <1>1. C!Walk(i.candList) = <<>> /\ C!Walk(j.candList) = <<>>
    BY EmptyList DEF Empty, Inputs
  <1>2. QED
    BY <1>1 DEF Drawn

\* A release, in the first phase: it acts only if it is armed, or closes.
LEMMA ReleaseFacts ==
    ASSUME setup \in Setup, idle \in 0 .. 2,
           NEW i, Ready(i), NEW e, NEW r \in Release(i, e)
    PROVE  /\ Good(i, r.d, r)
           /\ r.d.keyReleased \in {i.keyReleased, "OTHER"}
           /\ r.ret # TO_PROCESS => Acts(i, e)
           /\ r.d.state # i.state =>
                Acts(i, e) \/ (i.state = "inactive" /\ IsHotKey(e, hkTrigger))
           /\ r.d.iIMIndex # i.iIMIndex =>
                idle < 2 /\ i.keyReleased = "SWITCH_IM" /\ e.sym \in {"Shift_L", "Control_L"}
           /\ r.ret = TO_PROCESS => r.d.committed = {}
  <1> DEFINE imSwitch == setup.imSwitchKey /\ IsHotKey(e, LCTRL_LSHIFT \union LCTRL_LSHIFT2)
  <1>1. i \in Inputs /\ i.committed = {} /\ Good(i, i, R(i, TO_PROCESS))
    BY GoodStart DEF Ready
  <1>2. \/ r = R(i, TO_PROCESS)
        \/ /\ idle < 2 /\ i.keyReleased = "2ND" /\ IsHotKey(e, i2ndSelectKey)
           /\ r \in Select(i, 1)
        \/ /\ idle < 2 /\ i.keyReleased = "3RD" /\ IsHotKey(e, i3rdSelectKey)
           /\ r \in Select(i, 2)
        \/ /\ idle < 2 /\ i.keyReleased = "SWITCH_IM" /\ imSwitch
           /\ r = R(SwitchIM(i), TO_PROCESS)
        \/ /\ i.state # "active" /\ i.state # "closed" /\ IsHotKey(e, hkTrigger)
           /\ r = R(CloseIM(i), TO_PROCESS)
        \/ /\ idle < 2 /\ i.keyReleased = "SWITCH" /\ IsHotKey(e, switchKey)
           /\ r = Switch(i)
    <2>1. idle < 2 \/ idle >= 2
      OBVIOUS
    <2> QED
      BY <2>1 DEF Release
  <1>3. CASE r = R(i, TO_PROCESS)
    BY <1>1, <1>3 DEF R
  <1>4. CASE /\ idle < 2 /\ i.keyReleased = "2ND" /\ IsHotKey(e, i2ndSelectKey)
             /\ r \in Select(i, 1)
    <2>1. Good(i, r.d, r) /\ r.d.keyReleased = "OTHER" /\ r.d.state = i.state /\ r.d.iIMIndex = i.iIMIndex
      BY <1>4, SelectFacts
    <2>2. Acts(i, e)
      BY <1>4, HotkeySyms DEF Acts
    <2>3. QED
      BY <2>1, <2>2 DEF Good
  <1>5. CASE /\ idle < 2 /\ i.keyReleased = "3RD" /\ IsHotKey(e, i3rdSelectKey)
             /\ r \in Select(i, 2)
    <2>1. Good(i, r.d, r) /\ r.d.keyReleased = "OTHER" /\ r.d.state = i.state /\ r.d.iIMIndex = i.iIMIndex
      BY <1>5, SelectFacts
    <2>2. Acts(i, e)
      BY <1>5, HotkeySyms DEF Acts
    <2>3. QED
      BY <2>1, <2>2 DEF Good
  <1>6. CASE /\ idle < 2 /\ i.keyReleased = "SWITCH_IM" /\ imSwitch
             /\ r = R(SwitchIM(i), TO_PROCESS)
    <2> DEFINE x == SwitchIM(i)
    <2>1. /\ x \in Inputs /\ Empty(x) /\ x.uiflag /\ ~ x.remind
          /\ x.state = i.state /\ x.keyReleased = i.keyReleased
          /\ x.output = i.output /\ x.committed = i.committed
      BY <1>1, SwitchFacts
    <2> HIDE DEF x
    <2>2. Good(i, x, R(x, TO_PROCESS))
      BY <1>1, <2>1, GoodFirst DEF TO_PROCESS
    <2>3. e.sym \in {"Shift_L", "Control_L"}
      BY <1>6, HotkeySyms
    <2>4. r = R(x, TO_PROCESS) /\ r.d = x /\ r.ret = TO_PROCESS
      BY <1>6 DEF x, R
    <2>5. QED
      BY <1>1, <1>6, <2>1, <2>2, <2>3, <2>4
  <1>7. CASE /\ i.state # "active" /\ i.state # "closed" /\ IsHotKey(e, hkTrigger)
             /\ r = R(CloseIM(i), TO_PROCESS)
    <2> DEFINE x == CloseIM(i)
    <2>1. /\ x \in Inputs /\ Empty(x) /\ x.uiflag /\ x.remind = i.remind
          /\ x.iIMIndex = i.iIMIndex /\ x.keyReleased = i.keyReleased
          /\ x.output = i.output /\ x.committed = i.committed
      BY <1>1, CloseFacts
    <2> HIDE DEF x
    <2>2. Good(i, x, R(x, TO_PROCESS))
      BY <1>1, <2>1, GoodFirst DEF TO_PROCESS, Ready
    <2>3. i.state = "inactive"
      BY <1>1, <1>7 DEF Inputs, States
    <2>4. r = R(x, TO_PROCESS) /\ r.d = x /\ r.ret = TO_PROCESS
      BY <1>7 DEF x, R
    <2>5. QED
      BY <1>1, <1>7, <2>1, <2>2, <2>3, <2>4
  <1>8. CASE /\ idle < 2 /\ i.keyReleased = "SWITCH" /\ IsHotKey(e, switchKey)
             /\ r = Switch(i)
    <2>1. Good(i, r.d, r) /\ r.d.keyReleased = "OTHER" /\ r.d.iIMIndex = i.iIMIndex
      BY <1>8, SwitchKeyFacts
    <2>2. Acts(i, e)
      BY <1>8, HotkeySyms DEF Acts
    <2>3. QED
      BY <2>1, <2>2 DEF Good
  <1>9. QED
    BY <1>2, <1>3, <1>4, <1>5, <1>6, <1>7, <1>8

\* What a press arms.
Arms(released, sym) ==
    /\ released = "2ND" => sym = "Shift_L"
    /\ released = "3RD" => sym = "Shift_R"
    /\ released = "SWITCH" => sym = SwitchSym
    /\ released = "SWITCH_IM" => sym \in {"Shift_L", "Control_L"}

\* A press, in the first phase: what it arms is its own release.
LEMMA PressFacts ==
    ASSUME setup \in Setup, NEW i, Ready(i), NEW e
    PROVE  LET r == Press(i, e)
           IN  /\ Good(i, r.d, r)
               /\ Arms(r.d.keyReleased, e.sym)
               /\ r.d.keyReleased # "OTHER" => r.ret = DO_NOTHING
               /\ r.ret \in {TO_PROCESS, DO_NOTHING}
  <1> DEFINE double == i.keyReleased = "SWITCH" /\ setup.doubleSwitchKey
             n == CommitString(i, "raw")
             m == IF i.code > 0 THEN n ELSE i
             x == IF double THEN ChangeIMState(m) ELSE i
             r == Press(i, e)
  <1>1. i \in Inputs /\ i.committed = {} /\ i.code \in Lengths
        /\ (i.remind => setup.useRemind) /\ (i.state # "active" => Empty(i))
    BY DEF Ready, Inputs
  <1>2. \/ \E v \in {"2ND", "3RD", "SWITCH_IM"} :
             /\ r = R([i EXCEPT !.keyReleased = v], DO_NOTHING)
             /\ Arms(v, e.sym)
        \/ /\ r = R([x EXCEPT !.keyReleased = "SWITCH"], DO_NOTHING)
           /\ Arms("SWITCH", e.sym)
        \/ r = R(ShowInputSpeed(ChangeIMState(Disarm(i))), DO_NOTHING)
        \/ r = R(CloseIM(Disarm(i)), DO_NOTHING)
        \/ r = R(Disarm(i), TO_PROCESS)
    BY <1>1, HotkeySyms DEF Press, Arms
  <1>3. Released = {"OTHER", "SWITCH", "SWITCH_IM", "2ND", "3RD"} /\ Arms("OTHER", e.sym)
    BY DEF Released, Arms
  <1>4. ASSUME NEW v \in {"2ND", "3RD", "SWITCH_IM"},
               r = R([i EXCEPT !.keyReleased = v], DO_NOTHING), Arms(v, e.sym)
        PROVE  /\ Good(i, r.d, r) /\ Arms(r.d.keyReleased, e.sym)
               /\ r.ret = DO_NOTHING
    <2> DEFINE y == [i EXCEPT !.keyReleased = v]
    <2>1. /\ y \in Inputs /\ y.keyReleased = v
          /\ y.state = i.state /\ y.candList = i.candList /\ y.messages = i.messages
          /\ y.remind = i.remind /\ y.committed = i.committed /\ y.uiflag = i.uiflag
      <3>1. v \in Released
        BY <1>3
      <3>2. QED
        BY <1>1, <3>1, ReleasedSet
    <2> HIDE DEF y
    <2>2. Drawn(y) = Drawn(i) /\ Empty(y) = Empty(i)
      BY <2>1 DEF Drawn, Empty
    <2>3. Good(i, y, R(y, DO_NOTHING))
      BY <1>1, <2>1, <2>2, GoodFirst DEF DO_NOTHING
    <2>4. r = R(y, DO_NOTHING) /\ r.d = y /\ r.ret = DO_NOTHING
      BY <1>4 DEF y, R
    <2> HIDE DEF r
    <2>5. QED
      BY <1>4, <2>1, <2>3, <2>4
  <1>5. CASE /\ r = R([x EXCEPT !.keyReleased = "SWITCH"], DO_NOTHING)
             /\ Arms("SWITCH", e.sym)
    <2>1. /\ m \in Inputs /\ m.state = i.state
          /\ m.candList = i.candList /\ m.messages = i.messages
          /\ m.uiflag = i.uiflag
      <3> DEFINE v == {"raw"}
                 y == [i EXCEPT !.committed = v]
      <3>1. v \in SUBSET Texts
        BY DEF Texts
      <3>2. n = y
        BY <1>1 DEF CommitString
      <3> HIDE DEF v
      <3>3. /\ y \in Inputs /\ y.committed = v /\ y.state = i.state
            /\ y.candList = i.candList /\ y.messages = i.messages
            /\ y.uiflag = i.uiflag
        BY <1>1, <3>1, CommittedSet
      <3> HIDE DEF y, n
      <3>4. QED
        BY <1>1, <3>2, <3>3 DEF v
    <2> HIDE DEF n, m
    <2> DEFINE c == ChangeIMState(m)
    <2>2. /\ c \in Inputs /\ Empty(c) /\ c.code = 0 /\ ~ c.remind
          /\ m.state # "inactive" \/ m.uiflag => c.uiflag
          /\ m.state = "inactive" => c.messages = m.messages
      BY <2>1, ChangeFacts
    <2> HIDE DEF c
    <2>3. ~ c.uiflag => ~ i.uiflag /\ Drawn(c) = Drawn(i)
      <3>1. CASE i.state = "inactive"
        <4>1. Empty(i) /\ c.messages = i.messages
          BY <1>1, <2>1, <2>2, <3>1
        <4>2. Drawn(c) = Drawn(i)
          BY <1>1, <2>2, <4>1, EmptyDrawn
        <4>3. QED
          BY <2>1, <2>2, <4>2
      <3>2. CASE i.state # "inactive"
        BY <2>1, <2>2, <3>2
      <3>3. QED
        BY <3>1, <3>2
    <2>4. /\ x \in Inputs
          /\ x.committed # {} => x.code = 0
          /\ x.remind => setup.useRemind
          /\ x.state # "active" => Empty(x)
          /\ ~ x.uiflag => ~ i.uiflag /\ Drawn(x) = Drawn(i)
      <3>1. x = c \/ x = i
        BY DEF c
      <3>2. QED
        BY <1>1, <2>2, <2>3, <3>1
    <2> HIDE DEF x
    <2> DEFINE y == [x EXCEPT !.keyReleased = "SWITCH"]
    <2>5. /\ y \in Inputs /\ y.keyReleased = "SWITCH" /\ y.code = x.code
          /\ y.state = x.state /\ y.candList = x.candList /\ y.messages = x.messages
          /\ y.remind = x.remind /\ y.committed = x.committed /\ y.uiflag = x.uiflag
      <3>1. "SWITCH" \in Released
        BY <1>3
      <3>2. QED
        BY <2>4, <3>1, ReleasedSet
    <2> HIDE DEF y
    <2>6. Drawn(y) = Drawn(x) /\ Empty(y) = Empty(x)
      BY <2>5 DEF Drawn, Empty
    <2>7. Good(i, y, R(y, DO_NOTHING))
      BY <2>4, <2>5, <2>6 DEF Good, R, SameControl, DO_NOTHING, TO_PROCESS, Redraws
    <2>8. r = R(y, DO_NOTHING) /\ r.d = y /\ r.ret = DO_NOTHING
      BY <1>5 DEF y, R
    <2> HIDE DEF r
    <2>9. Good(i, r.d, r) /\ Arms(r.d.keyReleased, e.sym) /\ r.ret = DO_NOTHING
      BY <1>5, <2>5, <2>7, <2>8
    <2>10. QED
      BY <2>9 DEF r
  <1> DEFINE j == Disarm(i)
  <1>6. /\ j \in Inputs /\ j.keyReleased = "OTHER"
        /\ j.state = i.state /\ j.candList = i.candList /\ j.messages = i.messages
        /\ j.remind = i.remind /\ j.committed = i.committed /\ j.uiflag = i.uiflag
    BY <1>1, DisarmFacts
  <1> HIDE DEF j
  <1>7. ASSUME NEW y \in Inputs, y.keyReleased = "OTHER", y.committed = {},
               y.remind => setup.useRemind, y.state # "active" => Empty(y),
               ~ y.uiflag => ~ i.uiflag /\ Drawn(y) = Drawn(i),
               NEW ret \in {TO_PROCESS, DO_NOTHING}, r = R(y, ret)
        PROVE  /\ Good(i, r.d, r) /\ Arms(r.d.keyReleased, e.sym)
               /\ r.d.keyReleased = "OTHER" /\ r.ret = ret
    <2>1. "commit" \notin ret /\ ~ Redraws(ret)
      BY DEF TO_PROCESS, DO_NOTHING, Redraws
    <2>2. Good(i, y, R(y, ret))
      BY <1>7, <2>1 DEF Good, R, SameControl
    <2>3. r.d = y /\ r.ret = ret
      BY <1>7 DEF R
    <2> HIDE DEF r
    <2>4. QED
      BY <1>3, <1>7, <2>2, <2>3
  <1>8. CASE r = R(ShowInputSpeed(ChangeIMState(j)), DO_NOTHING)
    <2> DEFINE c == ChangeIMState(j)
               y == ShowInputSpeed(c)
    <2>1. c \in Inputs /\ ~ c.remind /\ c.committed = {} /\ c.keyReleased = "OTHER"
      BY <1>1, <1>6, ChangeFacts
    <2> HIDE DEF c
    <2>2. /\ y \in Inputs /\ y.uiflag /\ Empty(y) /\ ~ y.remind /\ y.committed = {}
          /\ y.keyReleased = "OTHER"
      BY <2>1, SpeedFacts
    <2>3. r = R(y, DO_NOTHING)
      BY <1>8 DEF c
    <2> HIDE DEF y, r
    <2>4. Good(i, r.d, r) /\ Arms(r.d.keyReleased, e.sym) /\ r.d.keyReleased = "OTHER"
          /\ r.ret = DO_NOTHING
      BY <1>7, <2>2, <2>3
    <2>5. QED
      BY <2>4 DEF r
  <1>9. CASE r = R(CloseIM(j), DO_NOTHING)
    <2> DEFINE y == CloseIM(j)
    <2>1. /\ y \in Inputs /\ y.uiflag /\ Empty(y) /\ y.remind = j.remind
          /\ y.committed = {} /\ y.keyReleased = "OTHER"
      BY <1>1, <1>6, CloseFacts
    <2>2. r = R(y, DO_NOTHING)
      BY <1>9
    <2> HIDE DEF y, r
    <2>3. Good(i, r.d, r) /\ Arms(r.d.keyReleased, e.sym) /\ r.d.keyReleased = "OTHER"
          /\ r.ret = DO_NOTHING
      BY <1>1, <1>6, <1>7, <2>1, <2>2
    <2>4. QED
      BY <2>3 DEF r
  <1>10. CASE r = R(j, TO_PROCESS)
    <2>1. Drawn(j) = Drawn(i) /\ Empty(j) = Empty(i)
      BY <1>6 DEF Drawn, Empty
    <2>2. r = R(j, TO_PROCESS)
      BY <1>10
    <2> HIDE DEF r
    <2>3. Good(i, r.d, r) /\ Arms(r.d.keyReleased, e.sym) /\ r.d.keyReleased = "OTHER"
          /\ r.ret = TO_PROCESS
      BY <1>1, <1>6, <1>7, <2>1, <2>2
    <2>4. QED
      BY <2>3 DEF r
  <1>11. QED
    <2>1. CASE \E v \in {"2ND", "3RD", "SWITCH_IM"} :
                 /\ r = R([i EXCEPT !.keyReleased = v], DO_NOTHING)
                 /\ Arms(v, e.sym)
      BY <1>4, <2>1
    <2>2. CASE /\ r = R([x EXCEPT !.keyReleased = "SWITCH"], DO_NOTHING)
               /\ Arms("SWITCH", e.sym)
      BY <1>5, <2>2
    <2>3. CASE r = R(ShowInputSpeed(ChangeIMState(Disarm(i))), DO_NOTHING)
      BY <1>8, <2>3 DEF j
    <2>4. CASE r = R(CloseIM(Disarm(i)), DO_NOTHING)
      BY <1>9, <2>4 DEF j
    <2>5. CASE r = R(Disarm(i), TO_PROCESS)
      BY <1>10, <2>5 DEF j
    <2>6. QED
      BY <1>2, <2>1, <2>2, <2>3, <2>4, <2>5, Zenon

-----------------------------------------------------------------------------
(* A key                                                                    *)

\* A return value that ends the key passes through the later phases.
LEMMA Ended ==
    ASSUME NEW r, r.ret # TO_PROCESS, "words" \notin r.ret, NEW e
    PROVE  DoInputCallback(r, e) = {ProcessInputReturnValue(r)}
  <1>1. UpdateCandidates(r) = {r}
    BY DEF UpdateCandidates
  <1>2. TurnPage(r, e) = {r}
    BY DEF TurnPage
  <1>3. BlockKey(r, e) = {r}
    BY DEF BlockKey
  <1>4. ProcessHotkey(r, e) = {r}
    BY DEF ProcessHotkey
  <1>5. QED
    BY <1>1, <1>2, <1>3, <1>4 DEF DoInputCallback, Then

\* The phases of ProcessKey, one after the other.
LEMMA KeyReleased ==
    ASSUME setup \in Setup, idle \in 0 .. 2, NEW i, Ready(i), NEW e,
           NEW q \in ProcessKey(i, "release", e)
    PROVE  \E r \in Release(i, e) :
             /\ Done(i, r.d, q.d)
             /\ r.ret = TO_PROCESS => q.ret = DONOT_PROCESS /\ q.d.committed = {}
  <1> DEFINE Passed(r) == IF r.ret = TO_PROCESS THEN R(r.d, DONOT_PROCESS) ELSE r
             Active(r) == IF r.d.state = "active" /\ r.ret = TO_PROCESS
                          THEN InputPhases(r.d, e) ELSE {r}
  <1>1. ProcessKey(i, "release", e) =
          UNION {DoInputCallback(r, e) : r \in UNION {Active(p) : p \in {Passed(r) : r \in Release(i, e)}}}
    BY DEF ProcessKey, Then
  <1>2. ASSUME NEW r \in Release(i, e)  PROVE Passed(r).ret # TO_PROCESS
    BY DEF R, DONOT_PROCESS, TO_PROCESS
  <1>3. ASSUME NEW r \in Release(i, e)  PROVE Active(Passed(r)) = {Passed(r)}
    BY <1>2
  <1> HIDE DEF Passed, Active
  <1>4. PICK r \in Release(i, e) : q \in DoInputCallback(Passed(r), e)
    BY <1>1, <1>3
  <1>5. Good(i, r.d, r) /\ (r.ret = TO_PROCESS => r.d.committed = {})
    BY ReleaseFacts
  <1>6. CASE r.ret = TO_PROCESS
    <2> DEFINE p == R(r.d, DONOT_PROCESS)
    <2>1. Passed(r) = p
      BY <1>6 DEF Passed
    <2>2. Good(i, r.d, p)
      <3>1. Good(i, r.d, R(r.d, TO_PROCESS))
        BY <1>5, <1>6 DEF Good, R
      <3>2. QED
        BY <3>1, GoodAgain DEF DONOT_PROCESS
    <2>3. p.ret = DONOT_PROCESS /\ p.d.committed = {}
      BY <1>5, <1>6 DEF R
    <2>4. q = ProcessInputReturnValue(p)
      <3>1. p.ret # TO_PROCESS /\ "words" \notin p.ret
        BY <2>3 DEF DONOT_PROCESS, TO_PROCESS
      <3> HIDE DEF p
      <3>2. QED
        BY <1>4, <2>1, <3>1, Ended
    <2>5. "commit" \notin p.ret
      BY <2>3 DEF DONOT_PROCESS
    <2> HIDE DEF p
    <2>6. Done(i, r.d, q.d) /\ q.ret = DONOT_PROCESS /\ q.d.committed = {}
      BY <2>2, <2>3, <2>4, <2>5, ResultProcessed
    <2>7. QED
      BY <2>6
  <1>7. CASE r.ret # TO_PROCESS
    <2>1. Passed(r) = r
      BY <1>7 DEF Passed
    <2>2. Done(i, r.d, q.d)
      BY <1>4, <1>5, <2>1, GoodCallback
    <2>3. QED
      BY <1>7, <2>2
  <1>8. QED
    BY <1>6, <1>7

\* The phases of a press.
LEMMA KeyPressed ==
    ASSUME setup \in Setup, NEW i, Ready(i), NEW e,
           NEW q \in ProcessKey(i, "press", e)
    PROVE  /\ Done(i, Press(i, e).d, q.d)
           /\ Press(i, e).ret = DO_NOTHING => q.ret = DO_NOTHING
  <1> DEFINE r == Press(i, e)
             Active(p) == IF p.d.state = "active" /\ p.ret = TO_PROCESS
                          THEN InputPhases(p.d, e) ELSE {p}
  <1>1. ProcessKey(i, "press", e) =
          UNION {DoInputCallback(p, e) : p \in UNION {Active(x) : x \in {r}}}
    BY DEF ProcessKey, Then
  <1>2. Good(i, r.d, r) /\ r.ret \in {TO_PROCESS, DO_NOTHING}
    BY PressFacts
  <1> HIDE DEF r
  <1>3. DO_NOTHING # TO_PROCESS /\ "words" \notin DO_NOTHING
    BY DEF DO_NOTHING, TO_PROCESS
  <1>4. CASE r.ret = DO_NOTHING
    <2>1. Active(r) = {r}
      BY <1>3, <1>4
    <2>2. q = ProcessInputReturnValue(r)
      BY <1>1, <1>3, <1>4, <2>1, Ended
    <2>3. Done(i, r.d, q.d) /\ q.ret = r.ret
      BY <1>2, <2>2, ResultProcessed
    <2>4. QED
      BY <1>4, <2>3 DEF r
  <1>5. CASE r.ret = TO_PROCESS
    <2>1. ASSUME NEW p \in Active(r)  PROVE Good(i, r.d, p)
      <3>1. CASE r.d.state = "active"
        <4>1. Good(i, r.d, R(r.d, TO_PROCESS))
          BY <1>2, <1>5 DEF Good, R
        <4>2. p \in InputPhases(r.d, e)
          BY <1>5, <2>1, <3>1
        <4>3. QED
          BY <3>1, <4>1, <4>2, GoodInputPhases
      <3>2. CASE r.d.state # "active"
        BY <1>2, <2>1, <3>2
      <3>3. QED
        BY <3>1, <3>2
    <2> HIDE DEF Active
    <2>2. PICK p \in Active(r) : q \in DoInputCallback(p, e)
      BY <1>1
    <2>3. Done(i, r.d, q.d)
      BY <2>1, <2>2, GoodCallback
    <2>4. QED
      BY <1>3, <1>5, <2>3 DEF r
  <1>6. QED
    BY <1>2, <1>4, <1>5

-----------------------------------------------------------------------------
(* The inductive invariant *)

Keys == Modifiers \union Printable \union {"Return", "Escape", "BackSpace", "none"}

Types ==
    /\ setup \in Setup
    /\ d \in Inputs
    /\ idle \in 0 .. 2
    /\ held \subseteq setup.keyboard
    /\ lastPress \in [key : Keys, age : 0 .. 2]

\* Words are offered by an active context only, and the words that may follow a
\* word only when that is configured.
InputKept ==
    /\ d.remind => setup.useRemind
    /\ d.state # "active" => Empty(d)

\* A release that is armed belongs to the last press, whose time is that of the
\* last press and which the client was not given.
ArmedByLastPress ==
    d.keyReleased # "OTHER" =>
      /\ Arms(d.keyReleased, lastPress.key)
      /\ lastPress.age = idle
      /\ lastPress.key \notin clientDown

IInv ==
    /\ Types
    /\ InputKept
    /\ ArmedByLastPress
    /\ NoStuckKeys
    /\ WindowShowsInput

\* Begin forgets what the client was sent, and nothing else.
LEMMA BeginFacts ==
    ASSUME NEW i \in Inputs
    PROVE  LET j == Begin(i)
           IN  /\ j \in Inputs /\ j.committed = {}
               /\ j.state = i.state /\ j.iIMIndex = i.iIMIndex
               /\ j.keyReleased = i.keyReleased /\ j.code = i.code /\ j.find = i.find
               /\ j.candList = i.candList /\ j.messages = i.messages
               /\ j.remind = i.remind /\ j.inputOnly = i.inputOnly
               /\ j.output = i.output /\ j.uiflag = i.uiflag
               /\ Drawn(j) = Drawn(i) /\ Empty(j) = Empty(i)
  <1> DEFINE v == {}
             j == [i EXCEPT !.committed = v]
  <1>1. v \in SUBSET Texts
    OBVIOUS
  <1>2. Begin(i) = j
    BY DEF Begin
  <1> HIDE DEF v
  <1>3. /\ j \in Inputs /\ j.committed = v
        /\ j.state = i.state /\ j.iIMIndex = i.iIMIndex
        /\ j.keyReleased = i.keyReleased /\ j.code = i.code /\ j.find = i.find
        /\ j.candList = i.candList /\ j.messages = i.messages
        /\ j.remind = i.remind /\ j.inputOnly = i.inputOnly
        /\ j.output = i.output /\ j.uiflag = i.uiflag
    BY <1>1, CommittedSet
  <1> HIDE DEF j
  <1>4. Drawn(j) = Drawn(i) /\ Empty(j) = Empty(i)
    BY <1>3 DEF Drawn, Empty
  <1>5. QED
    BY <1>2, <1>3, <1>4 DEF v

\* Between two keys the input is ready for the next one.
LEMMA BeginReady ==
    ASSUME IInv
    PROVE  Ready(Begin(d)) /\ setup \in Setup /\ idle \in 0 .. 2
  BY BeginFacts DEF IInv, Types, InputKept, Ready

\* The key of an event: a modifier is named as it is.
LEMMA KeyNames ==
    ASSUME NEW key, NEW down
    PROVE  LET e == GetKey(key, ModifierState(down))
           IN  e.sym \in Modifiers => e.sym = key
  BY DEF GetKey, Modifiers

\* The switch key is a left modifier.
LEMMA SwitchSyms == SwitchSym \in {"Control_L", "Shift_L"}
  BY DEF SwitchSym

\* What is shown after a step that keeps it or asks for it to be drawn.
LEMMA StillShown ==
    ASSUME WindowShowsInput, drawn' = drawn, setup' = setup,
           ~ d'.uiflag => ~ d.uiflag /\ Drawn(d') = Drawn(d)
    PROVE  WindowShowsInput'
  BY DEF WindowShowsInput, Drawn

\* A press keeps the invariant, and leaves nothing that it committed.
LEMMA PressKeeps ==
    ASSUME IInv, NEW key \in setup.keyboard, PressKey(key)
    PROVE  /\ IInv'
           /\ d'.committed \intersect {"word", "raw"} # {} /\ ~ setup.useRemind => d'.code = 0
  <1> DEFINE i == Begin(d)
             e == GetKey(key, ModifierState(held))
  <1>1. Ready(i) /\ setup \in Setup /\ d \in Inputs
    BY BeginReady DEF IInv, Types
  <1>2. /\ i \in Inputs /\ i.uiflag = d.uiflag /\ Drawn(i) = Drawn(d)
    BY <1>1, BeginFacts
  <1> HIDE DEF i, e
  <1>3. PICK r \in IPCProcessKey(i, "press", e) :
          /\ d' = r.d
          /\ clientDown' = IF Forwarded(r.ret) THEN clientDown \union {key} ELSE clientDown
          /\ idle' = IF d.state = "closed" /\ IsHotKey(e, hkTrigger) THEN idle ELSE 0
    BY DEF PressKey, i, e
  <1>4. /\ key \notin held /\ held' = held \union {key}
        /\ lastPress' = [key |-> key, age |-> 0] /\ setup' = setup /\ drawn' = drawn
    BY DEF PressKey
  <1>5. key \in Keys
    BY <1>1 DEF Setup, Keys
  <1>6. /\ d' \in Inputs
        /\ d'.remind => setup.useRemind
        /\ d'.state # "active" => Empty(d')
        /\ ~ d'.uiflag => ~ d.uiflag /\ Drawn(d') = Drawn(d)
        /\ d'.committed \intersect {"word", "raw"} # {} /\ ~ setup.useRemind => d'.code = 0
        /\ d'.keyReleased # "OTHER" =>
             /\ Arms(d'.keyReleased, e.sym)
             /\ r.ret = DO_NOTHING
             /\ idle' = 0
    <2>1. CASE i.state = "closed" /\ IsHotKey(e, hkTrigger)
      <3> DEFINE j == EnableIM(i)
      <3>1. r = R(j, DO_NOTHING)
        BY <1>3, <2>1 DEF IPCProcessKey
      <3>2. /\ j \in Inputs /\ j.state = "active" /\ j.keyReleased = "OTHER"
            /\ j.code = 0 /\ ~ j.remind /\ j.uiflag
        BY <1>1, <1>2, <2>1, EnableFacts
      <3> HIDE DEF j
      <3>3. d' = j
        BY <1>3, <3>1 DEF R
      <3>4. QED
        BY <3>2, <3>3
    <2>2. CASE ~ (i.state = "closed" /\ IsHotKey(e, hkTrigger))
      <3> DEFINE o == Press(i, e)
      <3>1. r \in ProcessKey(i, "press", e)
        BY <1>3, <2>2 DEF IPCProcessKey
      <3>2. Done(i, o.d, r.d) /\ (o.ret = DO_NOTHING => r.ret = DO_NOTHING)
        BY <1>1, <3>1, KeyPressed
      <3>3. /\ Arms(o.d.keyReleased, e.sym)
            /\ o.d.keyReleased # "OTHER" => o.ret = DO_NOTHING
        BY <1>1, PressFacts
      <3> HIDE DEF o
      <3>4. i.state = d.state
        BY <1>1, BeginFacts DEF i
      <3>5. idle' = 0
        BY <1>3, <2>2, <3>4
      <3>6. QED
        BY <1>2, <1>3, <3>2, <3>3, <3>5 DEF Done
    <2>3. QED
      BY <2>1, <2>2
  <1>7. ~ Forwarded(DO_NOTHING)
    BY DEF Forwarded, DO_NOTHING, TO_PROCESS
  <1>8. Types'
    <2>1. lastPress' \in [key : Keys, age : 0 .. 2]
      BY <1>4, <1>5
    <2>2. idle' \in 0 .. 2
      BY <1>3 DEF IInv, Types
    <2>3. held' \subseteq setup'.keyboard
      BY <1>4 DEF IInv, Types
    <2>4. d' \in Inputs'
      BY <1>4, <1>6 DEF Inputs, Lengths
    <2>5. setup' \in Setup
      BY <1>1, <1>4
    <2>6. QED
      BY <2>1, <2>2, <2>3, <2>4, <2>5 DEF Types
  <1>9. InputKept'
    BY <1>4, <1>6 DEF InputKept, Empty
  <1>10. ArmedByLastPress'
    <2> SUFFICES ASSUME d'.keyReleased # "OTHER"
                 PROVE  /\ Arms(d'.keyReleased, key)
                        /\ idle' = 0
                        /\ key \notin clientDown'
      BY <1>4 DEF ArmedByLastPress, Arms, SwitchSym
    <2>1. Arms(d'.keyReleased, e.sym) /\ r.ret = DO_NOTHING /\ idle' = 0
      BY <1>6
    <2>2. d'.keyReleased \in {"SWITCH", "SWITCH_IM", "2ND", "3RD"}
      BY <1>6 DEF Inputs, Released
    <2>3. e.sym \in Modifiers
      BY <2>1, <2>2, SwitchSyms DEF Arms, Modifiers
    <2>4. e.sym = key
      BY <2>3, KeyNames DEF e
    <2>5. clientDown' = clientDown
      BY <1>3, <1>7, <2>1
    <2>6. key \notin clientDown'
      BY <1>4, <2>5 DEF IInv, NoStuckKeys
    <2>7. QED
      BY <2>1, <2>4, <2>6
  <1>11. NoStuckKeys'
    BY <1>3, <1>4 DEF IInv, NoStuckKeys
  <1>12. WindowShowsInput'
    BY <1>4, <1>6, StillShown DEF IInv
  <1>13. QED
    BY <1>6, <1>8, <1>9, <1>10, <1>11, <1>12 DEF IInv

\* The release of a key, from the one of the first phase.
LEMMA ReleaseKeeps ==
    ASSUME IInv, NEW key \in setup.keyboard, ReleaseKey(key)
    PROVE  /\ IInv'
           /\ d'.committed \intersect {"word", "raw"} # {} /\ ~ setup.useRemind => d'.code = 0
           /\ LET closes == d.state = "inactive"
                              /\ IsHotKey(GetKey(key, ModifierState(held)), hkTrigger)
                  toggles == (d'.state # d.state /\ ~ closes) \/ d'.committed # {}
                  switches == d'.iIMIndex # d.iIMIndex
              IN  /\ toggles => lastPress.key = key
                  /\ switches => {key, lastPress.key} \subseteq {"Control_L", "Shift_L"}
                  /\ toggles \/ switches => lastPress.age < 2
  <1> DEFINE i == Begin(d)
             e == GetKey(key, ModifierState(held))
  <1>1. Ready(i) /\ setup \in Setup /\ d \in Inputs /\ idle \in 0 .. 2
    BY BeginReady DEF IInv, Types
  <1>2. /\ i \in Inputs /\ i.uiflag = d.uiflag /\ Drawn(i) = Drawn(d)
        /\ i.state = d.state /\ i.iIMIndex = d.iIMIndex /\ i.keyReleased = d.keyReleased
    BY <1>1, BeginFacts
  <1>3. e.sym \in Modifiers => e.sym = key
    BY KeyNames
  <1> HIDE DEF i
  <1>4. PICK q \in ProcessKey(i, "release", e) :
          /\ d' = q.d
          /\ clientDown' = IF Forwarded(q.ret) THEN clientDown \ {key} ELSE clientDown
    BY DEF ReleaseKey, i, IPCProcessKey
  <1>5. /\ key \in held /\ held' = held \ {key}
        /\ lastPress' = lastPress /\ setup' = setup /\ drawn' = drawn /\ idle' = idle
    BY DEF ReleaseKey
  <1> HIDE DEF e
  <1>6. PICK r \in Release(i, e) :
          /\ Done(i, r.d, q.d)
          /\ r.ret = TO_PROCESS => q.ret = DONOT_PROCESS /\ q.d.committed = {}
    BY <1>1, <1>4, KeyReleased
  <1>7. /\ r.d.keyReleased \in {i.keyReleased, "OTHER"}
        /\ r.ret # TO_PROCESS => Acts(i, e)
        /\ r.d.state # i.state => Acts(i, e) \/ (i.state = "inactive" /\ IsHotKey(e, hkTrigger))
        /\ r.d.iIMIndex # i.iIMIndex =>
             idle < 2 /\ i.keyReleased = "SWITCH_IM" /\ e.sym \in {"Shift_L", "Control_L"}
    BY <1>1, ReleaseFacts
  <1>8. /\ d' \in Inputs
        /\ d'.remind => setup.useRemind
        /\ d'.state # "active" => Empty(d')
        /\ ~ d'.uiflag => ~ d.uiflag /\ Drawn(d') = Drawn(d)
        /\ d'.committed \intersect {"word", "raw"} # {} /\ ~ setup.useRemind => d'.code = 0
        /\ d'.keyReleased \in {d.keyReleased, "OTHER"}
        /\ d'.state = r.d.state /\ d'.iIMIndex = r.d.iIMIndex
    BY <1>2, <1>4, <1>6, <1>7 DEF Done
  <1>9. ASSUME Acts(i, e)
        PROVE  lastPress.key = key /\ lastPress.age < 2 /\ key \notin clientDown
    <2>1. d.keyReleased # "OTHER" /\ idle < 2
      BY <1>2, <1>9 DEF Acts
    <2>2. Arms(d.keyReleased, lastPress.key) /\ lastPress.age = idle /\ lastPress.key \notin clientDown
      BY <2>1 DEF IInv, ArmedByLastPress
    <2>3. e.sym = lastPress.key /\ e.sym \in Modifiers
      BY <1>2, <1>9, <2>2, SwitchSyms DEF Acts, Arms, Modifiers
    <2>4. QED
      BY <1>3, <2>1, <2>2, <2>3
  <1>10. Types'
    <2>1. d' \in Inputs'
      BY <1>5, <1>8 DEF Inputs, Lengths
    <2>2. held' \subseteq setup'.keyboard
      BY <1>5 DEF IInv, Types
    <2>3. QED
      BY <1>1, <1>5, <2>1, <2>2 DEF IInv, Types
  <1>11. InputKept'
    BY <1>5, <1>8 DEF InputKept, Empty
  <1>12. clientDown' \subseteq clientDown
    BY <1>4
  <1>13. ArmedByLastPress'
    <2> SUFFICES ASSUME d'.keyReleased # "OTHER"
                 PROVE  /\ Arms(d'.keyReleased, lastPress.key)
                        /\ lastPress.age = idle
                        /\ lastPress.key \notin clientDown'
      BY <1>5 DEF ArmedByLastPress, Arms, SwitchSym
    <2>1. d'.keyReleased = d.keyReleased
      BY <1>8
    <2>2. QED
      BY <1>12, <2>1 DEF IInv, ArmedByLastPress
  <1>14. NoStuckKeys'
    <2>1. CASE r.ret = TO_PROCESS
      <3>1. Forwarded(q.ret)
        BY <1>6, <2>1 DEF Forwarded, DONOT_PROCESS
      <3>2. QED
        BY <1>4, <1>5, <3>1 DEF IInv, NoStuckKeys
    <2>2. CASE r.ret # TO_PROCESS
      <3>1. key \notin clientDown
        BY <1>7, <1>9, <2>2
      <3>2. QED
        BY <1>5, <1>12, <3>1 DEF IInv, NoStuckKeys
    <2>3. QED
      BY <2>1, <2>2
  <1>15. WindowShowsInput'
    BY <1>5, <1>8, StillShown DEF IInv
  <1>16. IInv'
    BY <1>10, <1>11, <1>13, <1>14, <1>15 DEF IInv
  <1>17. d'.committed # {} => Acts(i, e)
    BY <1>4, <1>6, <1>7
  <1>18. d'.state # d.state /\ ~ (d.state = "inactive" /\ IsHotKey(e, hkTrigger)) => Acts(i, e)
    BY <1>2, <1>7, <1>8
  <1>19. ASSUME d'.iIMIndex # d.iIMIndex
         PROVE  {key, lastPress.key} \subseteq {"Control_L", "Shift_L"} /\ lastPress.age < 2
    <2>1. idle < 2 /\ d.keyReleased = "SWITCH_IM" /\ e.sym \in {"Shift_L", "Control_L"}
      BY <1>2, <1>7, <1>8, <1>19
    <2>2. Arms(d.keyReleased, lastPress.key) /\ lastPress.age = idle
      BY <2>1 DEF IInv, ArmedByLastPress
    <2>3. key \in {"Shift_L", "Control_L"}
      BY <1>3, <2>1 DEF Modifiers
    <2>4. QED
      BY <2>1, <2>2, <2>3 DEF Arms
  <1>20. QED
    BY <1>8, <1>9, <1>16, <1>17, <1>18, <1>19 DEF e

\* Steps of others: the client is told nothing of keys.
LEMMA OthersKeep ==
    ASSUME IInv, setup' = setup, clientDown' = clientDown, held' = held,
           lastPress' \in [key : Keys, age : 0 .. 2], lastPress'.key = lastPress.key,
           idle' \in 0 .. 2,
           d' \in Inputs, d'.remind => setup.useRemind, d'.state # "active" => Empty(d'),
           d'.keyReleased # "OTHER" =>
             d'.keyReleased = d.keyReleased /\ (lastPress.age = idle => lastPress'.age = idle'),
           WindowShowsInput'
    PROVE  IInv'
  <1>1. d' \in Inputs'
    BY DEF Inputs, Lengths
  <1>2. Types'
    BY <1>1 DEF IInv, Types
  <1>3. InputKept'
    BY DEF InputKept, Empty
  <1>4. ArmedByLastPress'
    <2> SUFFICES ASSUME d'.keyReleased # "OTHER"
                 PROVE  /\ Arms(d'.keyReleased, lastPress.key)
                        /\ lastPress'.age = idle'
                        /\ lastPress.key \notin clientDown
      BY DEF ArmedByLastPress, Arms, SwitchSym
    <2>1. QED
      BY DEF IInv, ArmedByLastPress
  <1>5. NoStuckKeys'
    BY DEF IInv, NoStuckKeys
  <1>6. QED
    BY <1>2, <1>3, <1>4, <1>5 DEF IInv

\* Time passing keeps the invariant.
LEMMA TickKeeps ==
    ASSUME IInv, Tick
    PROVE  IInv' /\ d'.committed = {}
  <1> DEFINE i == Begin(d)
  <1>1. /\ Ready(i) /\ d \in Inputs /\ idle \in 0 .. 2 /\ lastPress \in [key : Keys, age : 0 .. 2]
    BY BeginReady DEF IInv, Types
  <1>2. /\ i \in Inputs /\ i.uiflag = d.uiflag /\ Drawn(i) = Drawn(d)
        /\ i.keyReleased = d.keyReleased
    BY <1>1, BeginFacts
  <1>3. /\ d' = i /\ setup' = setup /\ held' = held /\ drawn' = drawn
        /\ clientDown' = clientDown
        /\ idle' = IF idle < 2 THEN idle + 1 ELSE idle
        /\ lastPress' = [lastPress EXCEPT !.age = IF @ < 2 THEN @ + 1 ELSE @]
    BY DEF Tick
  <1> HIDE DEF i
  <1>4. idle' \in 0 .. 2
    BY <1>1, <1>3
  <1>5. /\ lastPress' \in [key : Keys, age : 0 .. 2] /\ lastPress'.key = lastPress.key
        /\ lastPress'.age = IF lastPress.age < 2 THEN lastPress.age + 1 ELSE lastPress.age
    BY <1>1, <1>3
  <1>6. lastPress.age = idle => lastPress'.age = idle'
    BY <1>3, <1>5
  <1>7. WindowShowsInput'
    BY <1>2, <1>3, StillShown DEF IInv
  <1>8. QED
    BY <1>1, <1>2, <1>3, <1>4, <1>5, <1>6, <1>7, OthersKeep DEF Ready

\* Drawing keeps the invariant.
LEMMA DrawKeeps ==
    ASSUME IInv, DrawWindow
    PROVE  IInv' /\ d'.committed = {}
  <1> DEFINE b == FALSE
             i == Begin(d)
             j == [i EXCEPT !.uiflag = b]
  <1>1. /\ Ready(i) /\ d \in Inputs /\ idle \in 0 .. 2 /\ lastPress \in [key : Keys, age : 0 .. 2]
    BY BeginReady DEF IInv, Types
  <1>2. /\ i \in Inputs /\ Drawn(i) = Drawn(d)
        /\ i.keyReleased = d.keyReleased
    BY <1>1, BeginFacts
  <1>3. /\ d' = j /\ setup' = setup /\ held' = held /\ drawn' = Drawn(d)
        /\ clientDown' = clientDown /\ idle' = idle /\ lastPress' = lastPress
    BY DEF DrawWindow
  <1>4. b \in BOOLEAN
    OBVIOUS
  <1> HIDE DEF i, b
  <1>5. /\ j \in Inputs /\ j.state = i.state /\ j.keyReleased = i.keyReleased
        /\ j.candList = i.candList /\ j.messages = i.messages
        /\ j.remind = i.remind /\ j.committed = i.committed
    BY <1>2, <1>4, FlagSet
  <1> HIDE DEF j
  <1>6. Drawn(j) = Drawn(i) /\ Empty(j) = Empty(i)
    BY <1>5 DEF Drawn, Empty
  <1>7. Drawn(d)' = Drawn(d')
    BY DEF Drawn
  <1>8. WindowShowsInput'
    BY <1>2, <1>3, <1>6, <1>7 DEF WindowShowsInput
  <1>9. QED
    BY <1>1, <1>2, <1>3, <1>5, <1>6, <1>8, OthersKeep DEF Ready

\* Requests of other programs, the last of which chooses a word.
LEMMA ControlKeeps ==
    ASSUME IInv, Control
    PROVE  /\ IInv'
           /\ d'.committed \intersect {"word", "raw"} # {} /\ ~ setup.useRemind => d'.code = 0
  <1> DEFINE i == Begin(d)
  <1>1. /\ Ready(i) /\ d \in Inputs /\ idle \in 0 .. 2 /\ lastPress \in [key : Keys, age : 0 .. 2]
        /\ setup \in Setup
    BY BeginReady DEF IInv, Types
  <1>2. /\ i \in Inputs /\ Drawn(i) = Drawn(d) /\ i.uiflag = d.uiflag
        /\ i.keyReleased = d.keyReleased /\ i.state = d.state /\ i.committed = {}
        /\ i.candList \in Lists
    <2>1. d.candList \in Lists
      BY <1>1 DEF Inputs
    <2>2. QED
      BY <1>1, <2>1, BeginFacts
  <1>3. /\ (i.remind => setup.useRemind) /\ (i.state # "active" => Empty(i))
    BY <1>1 DEF Ready
  <1>4. /\ setup' = setup /\ idle' = idle /\ held' = held /\ drawn' = drawn
        /\ lastPress' = lastPress /\ clientDown' = clientDown
    BY DEF Control
  <1>5. \/ "enable" \in setup.controls /\ d' = EnableIM(i)
        \/ d' = CloseIM(i)
        \/ i.state # "active" /\ d' = EnableIM(i)
        \/ \E turned \in {C!GoPrevPage(i.candList), C!GoNextPage(i.candList)} :
             C!PageCount(i.candList) # 0 /\ d' = UpdateInputWindow([i EXCEPT !.candList = turned])
        \/ \E index \in 0 .. 2 : \E r \in ChooseByIndex(i, index) :
             \E q \in UpdateCandidates(r) : d' = ProcessInputReturnValue(q).d
    BY DEF Control
  <1> HIDE DEF i
  <1>6. ASSUME d' \in Inputs, d'.remind => setup.useRemind, d'.state # "active" => Empty(d'),
               d'.keyReleased \in {"OTHER", i.keyReleased},
               "enable" \notin setup.controls /\ ~ d'.uiflag => ~ i.uiflag /\ Drawn(d') = Drawn(i)
        PROVE  IInv'
    <2>1. WindowShowsInput'
      BY <1>2, <1>4, <1>6 DEF IInv, WindowShowsInput, Drawn
    <2>2. QED
      BY <1>1, <1>2, <1>4, <1>6, <2>1, OthersKeep
  <1>7. CASE d' = EnableIM(i) /\ ("enable" \in setup.controls \/ i.state # "active")
    <2> DEFINE j == EnableIM(i)
    <2>1. /\ j \in Inputs /\ j.state = "active" /\ j.keyReleased = "OTHER"
          /\ ~ j.remind /\ Empty(j) /\ j.committed = {}
          /\ i.state = "closed" \/ i.uiflag => j.uiflag
          /\ i.state # "closed" => j.messages = i.messages
      BY <1>1, <1>2, EnableFacts
    <2> HIDE DEF j
    <2>2. ASSUME "enable" \notin setup.controls, ~ j.uiflag
          PROVE  ~ i.uiflag /\ Drawn(j) = Drawn(i)
      <3>1. i.state # "closed" /\ ~ i.uiflag /\ i.state # "active"
        BY <1>7, <2>1, <2>2
      <3>2. Empty(i) /\ j.messages = i.messages
        BY <1>3, <2>1, <3>1
      <3>3. Drawn(j) = Drawn(i)
        BY <1>2, <2>1, <3>2, EmptyDrawn
      <3>4. QED
        BY <3>1, <3>3
    <2>3. d' = j
      BY <1>7 DEF j
    <2>4. QED
      BY <1>6, <2>1, <2>2, <2>3
  <1>8. CASE d' = CloseIM(i)
    <2> DEFINE j == CloseIM(i)
    <2>1. /\ j \in Inputs /\ j.uiflag /\ Empty(j)
          /\ j.keyReleased = i.keyReleased /\ j.remind = i.remind
          /\ j.committed = {}
      BY <1>2, CloseFacts
    <2> HIDE DEF j
    <2>2. d' = j
      BY <1>8 DEF j
    <2>3. QED
      BY <1>3, <1>6, <2>1, <2>2
  <1>9. ASSUME NEW turned \in {C!GoPrevPage(i.candList), C!GoNextPage(i.candList)},
               C!PageCount(i.candList) # 0,
               d' = UpdateInputWindow([i EXCEPT !.candList = turned])
        PROVE  IInv' /\ d'.committed = {}
    <2> DEFINE j == [i EXCEPT !.candList = turned]
               u == UpdateInputWindow(j)
    <2>1. turned \in Lists
      BY <1>2, PagingTypes
    <2>2. i.state = "active"
      <3>1. CASE Empty(i)
        BY <1>2, <1>9, <3>1, EmptyList DEF Empty
      <3>2. QED
        BY <1>3, <3>1
    <2>3. /\ j \in Inputs /\ j.state = i.state /\ j.keyReleased = i.keyReleased
          /\ j.remind = i.remind /\ j.committed = i.committed
      BY <1>2, <2>1, ListSet
    <2> HIDE DEF j
    <2>4. /\ u \in Inputs /\ u.uiflag /\ u.state = j.state /\ u.keyReleased = j.keyReleased
          /\ u.remind = j.remind /\ u.committed = j.committed
      BY <2>3, UpdateFacts
    <2> HIDE DEF u
    <2>5. d' = u
      BY <1>9 DEF j, u
    <2>6. QED
      BY <1>2, <1>3, <1>6, <2>2, <2>3, <2>4, <2>5
  <1>10. ASSUME NEW index \in 0 .. 2, NEW r \in ChooseByIndex(i, index),
                NEW q \in UpdateCandidates(r), d' = ProcessInputReturnValue(q).d
         PROVE  /\ IInv'
                /\ d'.committed \intersect {"word", "raw"} # {} /\ ~ setup.useRemind => d'.code = 0
    <2>1. Good(i, i, r)
      BY <1>1, GoodStart, GoodChoice
    <2>2. Good(i, i, q)
      BY <1>1, <2>1, GoodUpdateCandidates
    <2>3. Done(i, i, d')
      BY <1>1, <1>10, <2>2, ResultProcessed
    <2>4. QED
      BY <1>6, <2>3 DEF Done
  <1>11. EnableIM(i).committed = {} /\ CloseIM(i).committed = {}
    BY <1>1, <1>2, EnableFacts, CloseFacts
  <1>12. QED
    BY <1>5, <1>7, <1>8, <1>9, <1>10, <1>11

\* The input starts closed and empty, with nothing drawn or pressed.
LEMMA InitKeeps == Init => IInv
  <1> SUFFICES ASSUME Init  PROVE IInv
    OBVIOUS
  <1>1. setup \in Setup
    BY SetupAssumption DEF Init
  <1>2. C!SetPageSize(C!NewList, 3) \in Lists
    <2>1. C!NewList \in C!CandidateWordList /\ C!NewList.currentPage = 0
      BY DEF C!NewList, C!CandidateWordList
    <2>2. C!PageSize(3) = 3 /\ 3 \in 1 .. 10 /\ 3 \in {3}
      BY DEF C!PageSize
    <2>3. C!SetPageSize(C!NewList, 3) \in C!CandidateWordList
      BY <2>1, <2>2, ListTypes DEF C!SetPageSize
    <2>4. CP!PageInside(C!SetPageSize(C!NewList, 3))
      BY <2>1, <2>2, SameList, CP!StartInside
    <2>5. QED
      BY <2>3, <2>4 DEF Lists
  <1>3. C!SetPageSize(C!NewList, 3).candWords = <<>>
    BY DEF C!SetPageSize, C!NewList
  <1>4. d \in Inputs /\ d.state = "closed" /\ d.keyReleased = "OTHER" /\ ~ d.remind /\ Empty(d)
    <2>1. 0 \in Lengths /\ {} \in SUBSET Texts /\ "nothing" \in Outputs
          /\ "closed" \in States /\ "OTHER" \in Released
      BY <1>1, LengthFacts DEF Outputs, States, Released
    <2>2. NewInput \in Inputs
      BY <1>2, <2>1 DEF NewInput, Inputs
    <2>3. QED
      BY <1>3, <2>2 DEF Init, NewInput, Empty
  <1>5. Types
    BY <1>1, <1>4 DEF Init, Types, Keys
  <1>6. drawn = Drawn(d)
    BY DEF Init
  <1>7. QED
    BY <1>4, <1>5, <1>6 DEF IInv, InputKept, ArmedByLastPress, NoStuckKeys, WindowShowsInput, Init

\* The invariant is inductive.
LEMMA StepKeeps == IInv /\ [Next]_vars => IInv'
  <1> SUFFICES ASSUME IInv, [Next]_vars  PROVE IInv'
    OBVIOUS
  <1>1. CASE \E key \in setup.keyboard : PressKey(key)
    BY <1>1, PressKeeps
  <1>2. CASE \E key \in setup.keyboard : ReleaseKey(key)
    BY <1>2, ReleaseKeeps
  <1>3. CASE Tick
    BY <1>3, TickKeeps
  <1>4. CASE Control
    BY <1>4, ControlKeeps
  <1>5. CASE DrawWindow
    BY <1>5, DrawKeeps
  <1>6. CASE UNCHANGED vars
    BY <1>6 DEF IInv, vars, Types, Inputs, Lengths, InputKept, Empty, ArmedByLastPress, Arms,
                SwitchSym, NoStuckKeys, WindowShowsInput, Drawn
  <1>7. QED
    BY <1>1, <1>2, <1>3, <1>4, <1>5, <1>6 DEF Next

\* The inductive invariant, of every reachable state (ime.c:393-659).
THEOREM Invariance == Spec => []IInv
  BY InitKeeps, StepKeeps, PTL DEF Spec

-----------------------------------------------------------------------------
(* The properties                                                           *)

\* FcitxInputState stays well typed: the states, the buffer within its bound,
\* the list's page size and the armed release (ime-internal.h:47).
THEOREM TypeCorrect == Spec => []TypeOK
  <1>1. IInv => TypeOK
    <2> SUFFICES ASSUME IInv  PROVE TypeOK
      OBVIOUS
    <2>1. d \in Inputs /\ d.candList \in Lists
      BY DEF IInv, Types, Inputs
    <2>2. 0 .. 1 = {0, 1}
      OBVIOUS
    <2>3. d \in [state : {"closed", "inactive", "active"}, iIMIndex : 0 .. 1,
                 keyReleased : {"OTHER", "SWITCH", "SWITCH_IM", "2ND", "3RD"},
                 code : 0 .. setup.maxCode, find : 0 .. setup.maxCode, candList : {d.candList},
                 messages : BOOLEAN, remind : BOOLEAN, inputOnly : BOOLEAN,
                 output : {"nothing", "word", "raw", "space", "punc"},
                 committed : SUBSET {"word", "raw", "space", "punc"}, uiflag : BOOLEAN]
      BY <2>1, <2>2 DEF Inputs, States, Released, Lengths, Outputs, Texts
    <2>4. C!TypeOK
      BY <2>1 DEF C!TypeOK, Lists
    <2>5. idle \in 0 .. 2 /\ held \subseteq setup.keyboard /\ clientDown \subseteq setup.keyboard
      BY DEF IInv, Types, NoStuckKeys
    <2>6. QED
      BY <2>3, <2>4, <2>5 DEF TypeOK
  <1>2. QED
    BY <1>1, Invariance, PTL

\* A client that was given a press is given the release: no filter, no hot
\* key and no switch of the state between the two keeps it (ime.c:393-570).
THEOREM NoKeyIsStuck == Spec => []NoStuckKeys
  <1>1. IInv => NoStuckKeys
    BY DEF IInv
  <1>2. QED
    BY <1>1, Invariance, PTL

\* When nothing asks for drawing the window shows the words and messages there
\* are, whatever keys, clicks and requests came before (ui.c:327-341, 838).
THEOREM WindowIsRight == Spec => []WindowShowsInput
  <1>1. IInv => WindowShowsInput
    BY DEF IInv
  <1>2. QED
    BY <1>1, Invariance, PTL

\* While words are shown there is a current page, and its size is what
\* FcitxCandidateWordGetCurrentWindowSize says, for every order of keys, clicks
\* and requests (candidate.c:200-280, ime.c:1040).
THEOREM ShownPageCorrect == Spec => []ShownPageExists
  <1>1. IInv => ShownPageExists
    <2> SUFFICES ASSUME IInv  PROVE ShownPageExists
      OBVIOUS
    <2>1. d.candList \in CP!CandidateWordList /\ CP!PageInside(d.candList)
      BY SameList DEF IInv, Types, Inputs, Lists
    <2>2. CP!CurrentPageExists
      BY <2>1, CP!InsideHasWindow, CP!InsideHasSize
         DEF CP!CurrentPageExists, CP!CurrentWindowExists
    <2>3. QED
      BY <2>2, SameCurrentPage DEF ShownPageExists
  <1>2. QED
    BY <1>1, Invariance, PTL

\* What the release of a key does, it does because that key was the last one
\* pressed, less than 500 ms ago (ime.c:422-476).
THEOREM ReleaseHasItsPress == Spec => ReleaseNeedsItsPress
  <1> DEFINE A == \A key \in held \ held' :
         LET closes == d.state = "inactive"
                         /\ IsHotKey(GetKey(key, ModifierState(held)), hkTrigger)
             toggles == (d'.state # d.state /\ ~ closes) \/ d'.committed # {}
             switches == d'.iIMIndex # d.iIMIndex
         IN  /\ toggles => lastPress.key = key
             /\ switches => {key, lastPress.key} \subseteq {"Control_L", "Shift_L"}
             /\ toggles \/ switches => lastPress.age < 2
  <1>1. IInv /\ [Next]_vars => [A]_vars
    <2> SUFFICES ASSUME IInv, Next, NEW key \in held \ held'
                 PROVE  LET closes == d.state = "inactive"
                                        /\ IsHotKey(GetKey(key, ModifierState(held)), hkTrigger)
                            toggles == (d'.state # d.state /\ ~ closes) \/ d'.committed # {}
                            switches == d'.iIMIndex # d.iIMIndex
                        IN  /\ toggles => lastPress.key = key
                            /\ switches => {key, lastPress.key} \subseteq {"Control_L", "Shift_L"}
                            /\ toggles \/ switches => lastPress.age < 2
      OBVIOUS
    <2>1. PICK k \in setup.keyboard : PressKey(k) \/ ReleaseKey(k) \/ Tick \/ Control \/ DrawWindow
      BY DEF Next, Tick, Control, DrawWindow
    <2>2. ReleaseKey(k) /\ held' = held \ {k}
      BY <2>1 DEF PressKey, ReleaseKey, Tick, Control, DrawWindow
    <2>3. k = key
      BY <2>2
    <2>4. QED
      BY <2>2, <2>3, ReleaseKeeps
  <1>2. QED
    BY <1>1, Invariance, PTL DEF Spec, ReleaseNeedsItsPress

\* Once a word or the raw buffer is committed there is nothing left to commit
\* again, outside of remind mode (ime.c:662, py.c:1319).
THEOREM CommittedOnce == Spec => TextCommittedOnce
  <1> DEFINE A == d'.committed \intersect {"word", "raw"} # {} /\ ~ setup.useRemind => d'.code = 0
  <1>1. IInv /\ [Next]_vars => [A]_vars
    <2> SUFFICES ASSUME IInv, Next  PROVE A
      OBVIOUS
    <2>1. CASE \E key \in setup.keyboard : PressKey(key)
      BY <2>1, PressKeeps
    <2>2. CASE \E key \in setup.keyboard : ReleaseKey(key)
      BY <2>2, ReleaseKeeps
    <2>3. CASE Tick
      BY <2>3, TickKeeps
    <2>4. CASE Control
      BY <2>4, ControlKeeps
    <2>5. CASE DrawWindow
      BY <2>5, DrawKeeps
    <2>6. QED
      BY <2>1, <2>2, <2>3, <2>4, <2>5 DEF Next
  <1>2. QED
    BY <1>1, Invariance, PTL DEF Spec, TextCommittedOnce

-----------------------------------------------------------------------------
(* Printable keys and text                                                  *)

\* A simple key is no hot key of a modifier and no trigger.
LEMMA SimpleKeys ==
    ASSUME NEW e, IsHotKeySimple(e)
    PROVE  /\ ~ IsHotKey(e, i2ndSelectKey) /\ ~ IsHotKey(e, i3rdSelectKey)
           /\ ~ IsHotKey(e, switchKey) /\ ~ IsHotKey(e, hkTrigger)
           /\ ~ IsHotKey(e, LCTRL_LSHIFT \union LCTRL_LSHIFT2) /\ ~ IsHotKey(e, LCTRL_LSHIFT)
           /\ ~ IsHotKey(e, Plain("Return")) /\ ~ IsHotKey(e, Plain("Escape"))
           /\ ~ IsHotKey(e, Plain("BackSpace")) /\ ~ IsHotKey(e, {<<"2", {"ctrl"}>>})
           /\ e.sym # "Escape"
  <1>1. e.sym \in Printable /\ e.state = {}
    BY DEF IsHotKeySimple
  <1>2. {"ctrl"} # {} /\ {"shift"} # {} /\ {"ctrl", "shift"} # {}
    OBVIOUS
  <1>3. /\ "Shift_L" \notin Printable /\ "Shift_R" \notin Printable /\ "Control_L" \notin Printable
        /\ "Return" \notin Printable /\ "Escape" \notin Printable /\ "BackSpace" \notin Printable
    BY DEF Printable
  <1>4. ~ IsHotKey(e, i2ndSelectKey) /\ ~ IsHotKey(e, i3rdSelectKey) /\ ~ IsHotKey(e, switchKey)
    BY <1>1, <1>3, SwitchSyms, HotkeySyms
  <1>5. ~ IsHotKey(e, LCTRL_LSHIFT \union LCTRL_LSHIFT2)
    BY <1>1, <1>3, HotkeySyms
  <1>6. ~ IsHotKey(e, LCTRL_LSHIFT)
    BY <1>5 DEF IsHotKey
  <1>7. ~ IsHotKey(e, hkTrigger)
    BY <1>1, <1>2, <1>3 DEF IsHotKey, hkTrigger
  <1>8. ~ IsHotKey(e, Plain("Return")) /\ ~ IsHotKey(e, Plain("Escape"))
        /\ ~ IsHotKey(e, Plain("BackSpace")) /\ ~ IsHotKey(e, {<<"2", {"ctrl"}>>})
    BY <1>1, <1>2, <1>3 DEF IsHotKey, Plain
  <1>9. QED
    BY <1>1, <1>3, <1>4, <1>5, <1>6, <1>7, <1>8

\* Text is held and the key is not forwarded: so far.
Held(r) ==
    /\ "forward" \notin r.ret
    /\ r.ret = TO_PROCESS => r.d.code > 0 /\ r.d.state = "active" /\ ~ r.d.inputOnly

\* Choosing a word never forwards the key.
LEMMA HeldChoice ==
    ASSUME NEW i, NEW index, i.code > 0, i.state = "active", ~ i.inputOnly
    PROVE  \A r \in ChooseByIndex(i, index) :
             /\ "forward" \notin r.ret
             /\ r.ret = TO_PROCESS => r.d = i
  <1>1. /\ "forward" \notin COMMIT_STRING /\ COMMIT_STRING # TO_PROCESS
        /\ "forward" \notin COMMIT_STRING_REMIND /\ COMMIT_STRING_REMIND # TO_PROCESS
        /\ "forward" \notin DISPLAY_CANDWORDS /\ DISPLAY_CANDWORDS # TO_PROCESS
        /\ "forward" \notin DO_NOTHING /\ DO_NOTHING # TO_PROCESS
        /\ "forward" \notin TO_PROCESS
    BY DEF COMMIT_STRING, COMMIT_STRING_REMIND, DISPLAY_CANDWORDS, DO_NOTHING, TO_PROCESS
  <1>2. \A r \in GetCandWord(i) : "forward" \notin r.ret /\ r.ret # TO_PROCESS
    <2>1. \A r \in GetCandWord(i) :
             r.ret \in {COMMIT_STRING, COMMIT_STRING_REMIND, DISPLAY_CANDWORDS}
      BY DEF GetCandWord, R
    <2>2. QED
      BY <1>1, <2>1
  <1>3. CASE C!GetByIndex(i.candList, index) # 0
    BY <1>2, <1>3 DEF ChooseByIndex
  <1>4. CASE C!GetByIndex(i.candList, index) = 0
    BY <1>1, <1>4 DEF ChooseByIndex, R
  <1>5. QED
    BY <1>3, <1>4

\* An input method that holds text does not forward a printable key.
LEMMA HeldDoInput ==
    ASSUME NEW i \in Inputs, i.code > 0, i.find > 0, i.state = "active",
           NEW e, IsHotKeySimple(e)
    PROVE  \A r \in DoInput(i, e) : Held(r)
  <1>1. ~ IsHotKey(e, Plain("BackSpace")) /\ ~ IsHotKey(e, {<<"2", {"ctrl"}>>}) /\ e.sym # "Escape"
    BY SimpleKeys
  <1>2. SUFFICES ASSUME NEW r \in DoInput(i, e)  PROVE Held(r)
    OBVIOUS
  <1>3. \/ r.ret \in {DISPLAY_CANDWORDS, DISPLAY_MESSAGE, DO_NOTHING}
        \/ ~ i.inputOnly /\ r = R(UpdateCode(i), TO_PROCESS)
        \/ ~ i.inputOnly /\ \E q \in ChooseByIndex(i, 0) : r = R(UpdateCode(q.d), q.ret)
    BY <1>1, <1>2 DEF DoInput, R
  <1>4. CASE r.ret \in {DISPLAY_CANDWORDS, DISPLAY_MESSAGE, DO_NOTHING}
    BY <1>4 DEF Held, DISPLAY_CANDWORDS, DISPLAY_MESSAGE, DO_NOTHING, TO_PROCESS
  <1>5. ASSUME ~ i.inputOnly, r = R(UpdateCode(i), TO_PROCESS)
        PROVE  Held(r)
    <2> DEFINE j == UpdateCode(i)
    <2>1. j.state = i.state /\ j.inputOnly = i.inputOnly /\ j.code \in {i.code, i.find}
      BY UpdateCodeFacts
    <2> HIDE DEF j
    <2>2. r.d = j /\ r.ret = TO_PROCESS
      BY <1>5 DEF R, j
    <2>3. QED
      BY <1>5, <2>1, <2>2 DEF Held, TO_PROCESS
  <1>6. ASSUME ~ i.inputOnly, NEW q \in ChooseByIndex(i, 0), r = R(UpdateCode(q.d), q.ret)
        PROVE  Held(r)
    <2>1. "forward" \notin q.ret /\ (q.ret = TO_PROCESS => q.d = i)
      BY <1>6, HeldChoice
    <2>2. CASE q.ret = TO_PROCESS
      BY <1>5, <1>6, <2>1, <2>2
    <2>3. CASE q.ret # TO_PROCESS
      BY <1>6, <2>1, <2>3 DEF Held, R
    <2>4. QED
      BY <2>2, <2>3
  <1>7. QED
    BY <1>3, <1>4, <1>5, <1>6

\* Nor do the filters before it.
LEMMA HeldInputPhases ==
    ASSUME NEW i \in Inputs, i.code > 0, i.find > 0, i.state = "active",
           NEW e, IsHotKeySimple(e)
    PROVE  \A r \in InputPhases(i, e) : Held(r)
  <1> DEFINE pre == IF i.inputOnly THEN {R(i, TO_PROCESS)} ELSE PreInputFilter(i)
             Input(r) == IF r.ret = TO_PROCESS /\ ~ IsHotKey(e, LCTRL_LSHIFT)
                         THEN DoInput(r.d, e) ELSE {r}
             Choose(r) == IF r.ret = TO_PROCESS /\ ~ r.d.inputOnly /\ IsHotKey(e, Plain("2"))
                          THEN ChooseByIndex(r.d, 1) ELSE {r}
  <1>1. \A r \in pre : r \in {R(i, TO_PROCESS), R(i, DO_NOTHING)}
    BY DEF PreInputFilter
  <1>2. Held(R(i, DO_NOTHING)) /\ R(i, DO_NOTHING).ret # TO_PROCESS
    BY DEF Held, R, DO_NOTHING, TO_PROCESS
  <1>3. ~ IsHotKey(e, LCTRL_LSHIFT)
    BY SimpleKeys
  <1>4. ASSUME NEW r \in pre  PROVE \A q \in Input(r) : Held(q)
    <2>1. r.d = i
      BY <1>1, <1>4 DEF R
    <2>2. CASE r.ret = TO_PROCESS
      BY <1>3, <2>1, <2>2, HeldDoInput
    <2>3. CASE r.ret # TO_PROCESS
      <3>1. r = R(i, DO_NOTHING)
        BY <1>1, <1>4, <2>3 DEF R
      <3>2. QED
        BY <1>2, <2>3, <3>1
    <2>4. QED
      BY <2>2, <2>3
  <1>5. ASSUME NEW r, Held(r)  PROVE \A q \in Choose(r) : Held(q)
    <2>1. CASE r.ret = TO_PROCESS
      BY <1>5, <2>1, HeldChoice DEF Held
    <2>2. CASE r.ret # TO_PROCESS
      BY <1>5, <2>2
    <2>3. QED
      BY <2>1, <2>2
  <1>6. InputPhases(i, e) = UNION {Choose(r) : r \in UNION {Input(q) : q \in pre}}
    BY DEF InputPhases, Then
  <1> HIDE DEF pre, Input, Choose
  <1>7. QED
    BY <1>4, <1>5, <1>6

\* Nor do the phases after it.
LEMMA HeldCallback ==
    ASSUME NEW r, Held(r), NEW e, IsHotKeySimple(e)
    PROVE  \A q \in DoInputCallback(r, e) : ~ Forwarded(q.ret)
  <1> DEFINE Page(q) == TurnPage(q, e)
             Block(q) == BlockKey(q, e)
             Hotkey(q) == ProcessHotkey(q, e)
             first == UpdateCandidates(r)
             second == UNION {Page(q) : q \in first}
             third == UNION {Block(q) : q \in second}
             fourth == UNION {Hotkey(q) : q \in third}
             Kept(q) == "forward" \notin q.ret /\ q.ret # TO_PROCESS
  <1>1. DoInputCallback(r, e) = {ProcessInputReturnValue(q) : q \in fourth}
    BY DEF DoInputCallback, Then
  <1>2. "forward" \notin DISPLAY_CANDWORDS /\ DISPLAY_CANDWORDS # TO_PROCESS
    BY DEF DISPLAY_CANDWORDS, TO_PROCESS
  <1>3. \A q \in first : Held(q)
    <2>1. \A q \in first : q = r \/ q.ret = DISPLAY_CANDWORDS
      BY DEF UpdateCandidates, GetCandWords, R
    <2>2. QED
      BY <1>2, <2>1 DEF Held
  <1> HIDE DEF first
  <1>4. \A q \in second : Held(q)
    <2>1. ASSUME NEW p, Held(p)  PROVE \A q \in Page(p) : Held(q)
      <3>1. \A q \in Page(p) : q = p \/ q.ret = DISPLAY_CANDWORDS
        BY DEF TurnPage, R
      <3>2. QED
        BY <1>2, <2>1, <3>1 DEF Held
    <2> HIDE DEF Page
    <2>2. QED
      BY <1>3, <2>1
  <1> HIDE DEF second
  <1>5. \A q \in third : Kept(q)
    <2>1. ASSUME NEW p, Held(p)  PROVE \A q \in Block(p) : Kept(q)
      <3>1. CASE p.ret # TO_PROCESS
        BY <2>1, <3>1 DEF BlockKey, Held
      <3>2. CASE p.ret = TO_PROCESS
        <4>1. p.d.code > 0 /\ p.d.state = "active" /\ ~ p.d.inputOnly
          BY <2>1, <3>2 DEF Held
        <4>2. StandardKeyBlocker(p.d, e) = DO_NOTHING
          BY <4>1 DEF StandardKeyBlocker
        <4>3. \A q \in Block(p) : q = R(p.d, DO_NOTHING) \/ q.ret = PUNC
          <5>1. \A q \in PostInputFilter(p.d) : q = R(p.d, TO_PROCESS) \/ q.ret = PUNC
            BY DEF PostInputFilter, R
          <5>2. PUNC # TO_PROCESS
            BY DEF PUNC, TO_PROCESS
          <5>3. QED
            BY <3>2, <4>1, <4>2, <5>1, <5>2 DEF BlockKey, R
        <4>4. QED
          BY <4>3 DEF R, DO_NOTHING, PUNC, TO_PROCESS
      <3>3. QED
        BY <3>1, <3>2
    <2> HIDE DEF Block, Kept
    <2>2. QED
      BY <1>4, <2>1
  <1> HIDE DEF third
  <1>6. \A q \in fourth : Kept(q)
    <2>1. \A p : Kept(p) => Hotkey(p) = {p}
      BY DEF ProcessHotkey
    <2> HIDE DEF Hotkey, Kept
    <2>2. QED
      BY <1>5, <2>1
  <1> HIDE DEF fourth
  <1>7. \A q : ProcessInputReturnValue(q).ret = q.ret
    BY DEF ProcessInputReturnValue, R
  <1>8. QED
    BY <1>1, <1>6, <1>7 DEF Forwarded

\* No printable key reaches the client while the input method holds text that
\* was typed before it (ime.c:639, py.c:566).
THEOREM NoKeyOvertakes == Spec => NoKeyOvertakesText
  <1> DEFINE A == \A key \in clientDown' \ clientDown :
         d.state = "active" /\ d.code > 0 /\ d.find > 0 =>
           ~ IsHotKeySimple(GetKey(key, ModifierState(held)))
  <1>1. IInv /\ [Next]_vars => [A]_vars
    <2> SUFFICES ASSUME IInv, Next, NEW key \in clientDown' \ clientDown,
                        d.state = "active", d.code > 0, d.find > 0,
                        IsHotKeySimple(GetKey(key, ModifierState(held)))
                 PROVE  FALSE
      OBVIOUS
    <2>1. PICK k \in setup.keyboard : PressKey(k)
      BY DEF Next, ReleaseKey, Tick, Control, DrawWindow
    <2> DEFINE i == Begin(d)
               e == GetKey(key, ModifierState(held))
               r == Press(i, e)
    <2>2. k = key
      BY <2>1 DEF PressKey
    <2>3. /\ i \in Inputs /\ i.state = "active" /\ i.code > 0 /\ i.find > 0
      BY BeginFacts DEF IInv, Types
    <2>4. PICK q \in IPCProcessKey(i, "press", e) :
            clientDown' = IF Forwarded(q.ret) THEN clientDown \union {key} ELSE clientDown
      BY <2>1, <2>2 DEF PressKey
    <2>5. Forwarded(q.ret)
      BY <2>4
    <2>6. q \in ProcessKey(i, "press", e)
      BY <2>3, <2>4 DEF IPCProcessKey
    <2> HIDE DEF i, e
    <2> DEFINE j == Disarm(i)
    <2>7. r = R(j, TO_PROCESS)
      BY SimpleKeys DEF Press, e
    <2>8. /\ j \in Inputs /\ j.state = "active" /\ j.code > 0 /\ j.find > 0
      BY <2>3, DisarmFacts
    <2> HIDE DEF j
    <2>9. ProcessKey(i, "press", e) = UNION {DoInputCallback(p, e) : p \in InputPhases(j, e)}
      <3> DEFINE Active(p) == IF p.d.state = "active" /\ p.ret = TO_PROCESS
                              THEN InputPhases(p.d, e) ELSE {p}
      <3>1. ProcessKey(i, "press", e) =
              UNION {DoInputCallback(p, e) : p \in UNION {Active(x) : x \in {r}}}
        BY DEF ProcessKey, Then
      <3>2. Active(r) = InputPhases(j, e)
        BY <2>7, <2>8 DEF R
      <3> HIDE DEF Active, r
      <3>3. QED
        BY <3>1, <3>2
    <2>10. PICK p \in InputPhases(j, e) : q \in DoInputCallback(p, e)
      BY <2>6, <2>9
    <2>11. IsHotKeySimple(e)
      BY DEF e
    <2>12. Held(p)
      BY <2>8, <2>11, HeldInputPhases
    <2>13. QED
      BY <2>5, <2>10, <2>11, <2>12, HeldCallback
  <1>2. QED
    BY <1>1, Invariance, PTL DEF Spec, NoKeyOvertakesText

-----------------------------------------------------------------------------
(* Page keys                                                                *)

\* The whole of a page key's press.
LEMMA PageKey ==
    ASSUME setup \in Setup, NEW i \in Inputs, i.state = "active", ~ i.inputOnly,
           ~ setup.filters, C!ListSize(i.candList) > 0,
           NEW e, e = [sym |-> "equal", state |-> {}],
           NEW q \in ProcessKey(i, "press", e)
    PROVE  q.d.candList = C!GoNextPage(i.candList) /\ q.d.uiflag
  <1> DEFINE j == Disarm(i)
             k == UpdateCode(j)
             l == C!GoNextPage(k.candList)
             x == [k EXCEPT !.candList = l]
             u == UpdateInputWindow(x)
             y == [u EXCEPT !.output = "nothing"]
  <1>1. IsHotKeySimple(e) /\ e.sym = "equal" /\ e.state = {}
    BY DEF IsHotKeySimple, Printable
  <1>2. /\ ~ IsHotKey(e, Plain("a")) /\ ~ IsHotKey(e, Plain("2"))
        /\ ~ IsHotKey(e, Plain("space")) /\ ~ IsHotKey(e, Plain("minus"))
        /\ IsHotKey(e, Plain("equal"))
    BY <1>1 DEF IsHotKey, Plain
  <1>3. /\ ~ IsHotKey(e, i2ndSelectKey) /\ ~ IsHotKey(e, i3rdSelectKey)
        /\ ~ IsHotKey(e, switchKey) /\ ~ IsHotKey(e, hkTrigger)
        /\ ~ IsHotKey(e, LCTRL_LSHIFT \union LCTRL_LSHIFT2) /\ ~ IsHotKey(e, LCTRL_LSHIFT)
        /\ ~ IsHotKey(e, Plain("BackSpace")) /\ ~ IsHotKey(e, {<<"2", {"ctrl"}>>})
    BY <1>1, SimpleKeys
  <1>4. Press(i, e) = R(j, TO_PROCESS)
    BY <1>3 DEF Press
  <1>5. /\ j \in Inputs /\ j.state = "active" /\ ~ j.inputOnly /\ j.candList = i.candList
    BY DisarmFacts
  <1> HIDE DEF j
  <1>6. /\ k \in Inputs /\ k.state = "active" /\ ~ k.inputOnly /\ k.candList = i.candList
    BY <1>5, UpdateCodeFacts
  <1>7. DoInput(j, e) = {R(k, TO_PROCESS)}
    BY <1>2, <1>3, <1>5 DEF DoInput
  <1> HIDE DEF k
  <1>8. InputPhases(j, e) = {R(k, TO_PROCESS)}
    <2> DEFINE pre == IF j.inputOnly THEN {R(j, TO_PROCESS)} ELSE PreInputFilter(j)
               Input(r) == IF r.ret = TO_PROCESS /\ ~ IsHotKey(e, LCTRL_LSHIFT)
                           THEN DoInput(r.d, e) ELSE {r}
               Choose(r) == IF r.ret = TO_PROCESS /\ ~ r.d.inputOnly /\ IsHotKey(e, Plain("2"))
                            THEN ChooseByIndex(r.d, 1) ELSE {r}
    <2>1. InputPhases(j, e) = UNION {Choose(r) : r \in UNION {Input(q_1) : q_1 \in pre}}
      BY DEF InputPhases, Then
    <2>2. pre = {R(j, TO_PROCESS)}
      BY <1>5 DEF PreInputFilter
    <2>3. Input(R(j, TO_PROCESS)) = {R(k, TO_PROCESS)}
      BY <1>3, <1>7 DEF R
    <2>4. Choose(R(k, TO_PROCESS)) = {R(k, TO_PROCESS)}
      BY <1>2 DEF R
    <2> HIDE DEF pre, Input, Choose
    <2>5. QED
      BY <2>1, <2>2, <2>3, <2>4
  <1> DEFINE r == R(k, TO_PROCESS)
             s == R(x, DISPLAY_CANDWORDS)
  <1>9. ProcessKey(i, "press", e) = DoInputCallback(r, e)
    <2> DEFINE f == Press(i, e)
               Active(p) == IF p.d.state = "active" /\ p.ret = TO_PROCESS
                            THEN InputPhases(p.d, e) ELSE {p}
    <2>1. ProcessKey(i, "press", e) =
            UNION {DoInputCallback(p, e) : p \in UNION {Active(z) : z \in {f}}}
      BY DEF ProcessKey, Then
    <2>2. Active(f) = {r}
      BY <1>4, <1>5, <1>8 DEF R
    <2> HIDE DEF Active, f, r
    <2>3. QED
      BY <2>1, <2>2
  <1>10. r.d = k /\ r.ret = TO_PROCESS /\ s.d = x /\ s.ret = DISPLAY_CANDWORDS
    BY DEF R
  <1>11. DISPLAY_CANDWORDS # TO_PROCESS /\ "words" \notin TO_PROCESS
    BY DEF DISPLAY_CANDWORDS, TO_PROCESS
  <1>12. UpdateCandidates(r) = {r}
    BY <1>10, <1>11 DEF UpdateCandidates
  <1>13. TurnPage(r, e) = {s}
    <2>1. C!PageCount(k.candList) # 0
      <3>1. i.candList \in Lists
        BY DEF Inputs
      <3>2. QED
        BY <1>6, <3>1, WordsHavePages
    <2>2. QED
      BY <1>2, <1>6, <1>10, <2>1 DEF TurnPage
  <1>14. BlockKey(s, e) = {s} /\ ProcessHotkey(s, e) = {s}
    BY <1>10, <1>11 DEF BlockKey, ProcessHotkey
  <1>15. DoInputCallback(r, e) = {ProcessInputReturnValue(s)}
    <2> HIDE DEF r, s
    <2>1. QED
      BY <1>12, <1>13, <1>14 DEF DoInputCallback, Then
  <1>16. ProcessInputReturnValue(s) = R(y, DISPLAY_CANDWORDS)
    BY <1>10 DEF ProcessInputReturnValue, DISPLAY_CANDWORDS
  <1>17. l \in Lists
    BY <1>6, PagingTypes DEF Inputs
  <1> HIDE DEF l
  <1>18. x \in Inputs /\ x.candList = l
    BY <1>6, <1>17, ListSet
  <1> HIDE DEF x
  <1>19. u \in Inputs /\ u.candList = x.candList /\ u.uiflag
    BY <1>18, UpdateFacts
  <1> HIDE DEF u
  <1>20. "nothing" \in Outputs
    BY DEF Outputs
  <1>21. y.candList = u.candList /\ y.uiflag = u.uiflag
    BY <1>19, <1>20, OutputSet
  <1> HIDE DEF y
  <1>22. q.d = y
    BY <1>9, <1>15, <1>16 DEF R
  <1>23. QED
    BY <1>6, <1>18, <1>19, <1>21, <1>22 DEF l

\* With words on display a page key turns to the next page, keeps the words and
\* has the page drawn (ime.c:621).
THEOREM PageKeyTurns == Spec => PageKeyTurnsPage
  <1> DEFINE A == \A key \in held' \ held :
         key = "equal" /\ held \intersect Modifiers = {} /\ d.state = "active"
           /\ ~ d.inputOnly /\ ~ setup.filters /\ C!ListSize(d.candList) > 0 =>
         d'.candList = C!GoNextPage(d.candList) /\ d'.uiflag
  <1>1. IInv /\ [Next]_vars => [A]_vars
    <2> SUFFICES ASSUME IInv, Next, "equal" \in held' \ held,
                        held \intersect Modifiers = {}, d.state = "active",
                        ~ d.inputOnly, ~ setup.filters, C!ListSize(d.candList) > 0
                 PROVE  d'.candList = C!GoNextPage(d.candList) /\ d'.uiflag
      OBVIOUS
    <2> DEFINE i == Begin(d)
               e == GetKey("equal", ModifierState(held))
    <2>1. PICK k \in setup.keyboard : PressKey(k)
      BY DEF Next, ReleaseKey, Tick, Control, DrawWindow
    <2>2. k = "equal"
      BY <2>1 DEF PressKey
    <2>3. /\ i \in Inputs /\ i.state = "active" /\ ~ i.inputOnly /\ i.candList = d.candList
      BY BeginFacts DEF IInv, Types
    <2>4. e = [sym |-> "equal", state |-> {}]
      <3>1. "Control_L" \notin held /\ held \intersect {"Shift_L", "Shift_R"} = {}
        BY DEF Modifiers
      <3>2. ModifierState(held) = {}
        BY <3>1 DEF ModifierState
      <3>3. QED
        BY <3>2 DEF GetKey
    <2>5. PICK q \in IPCProcessKey(i, "press", e) : d' = q.d
      BY <2>1, <2>2 DEF PressKey
    <2>6. q \in ProcessKey(i, "press", e)
      BY <2>3, <2>5 DEF IPCProcessKey
    <2> HIDE DEF i, e
    <2>7. q.d.candList = C!GoNextPage(i.candList) /\ q.d.uiflag
      BY <2>3, <2>4, <2>6, PageKey DEF IInv, Types
    <2>8. QED
      BY <2>3, <2>5, <2>7
  <1>2. QED
    BY <1>1, Invariance, PTL DEF Spec, PageKeyTurnsPage

=============================================================================
