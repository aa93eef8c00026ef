------------------------- MODULE CandidateListProofs -------------------------
(***************************************************************************)
(* What the candidate list keeps true for every set of words, every length *)
(* and every configured page size: its type; what is drawn is the page,    *)
(* what is chosen is what is drawn and paging covers the list; and, if     *)
(* nobody edits the list and no reload changes the page size while words   *)
(* are shown, that the current page has a first word.                      *)
(*                                                                         *)
(* The walk over a window, the list after n page keys and what is drawn    *)
(* meanwhile are defined by recursion.  Each is compared with what it is   *)
(* meant to compute: the function that computes it satisfies the           *)
(* recursive equation, so one that does exists, and no other one differs   *)
(* from it, since there would be a smallest argument where it does         *)
(* (SmallestOf).                                                           *)
(*                                                                         *)
(* The products of page and page size are linear for each of the ten page  *)
(* sizes SetPageSize lets through, so the arithmetic is done once, case by *)
(* case, in DivisionBounds and the like.                                   *)
(***************************************************************************)
EXTENDS CandidateList, SequenceTheorems, FiniteSetTheorems, NaturalsInduction,
        WellFoundedInduction, TLAPS

\* The current page begins inside the list; an empty list is on page 0.
PageInside(c) ==
    IF ListSize(c) = 0 THEN c.currentPage = 0 ELSE First(c) < ListSize(c)

-----------------------------------------------------------------------------
(* Arithmetic. *)

\* What division by a page size is.
LEMMA DivisionBounds ==
    ASSUME NEW n \in Nat, NEW w \in 1 .. 10
    PROVE  /\ n \div w \in Nat
           /\ (n \div w) * w <= n
  <1>1. w = 1 \/ w = 2 \/ w = 3 \/ w = 4 \/ w = 5 \/ w = 6 \/ w = 7 \/ w = 8
          \/ w = 9 \/ w = 10
    OBVIOUS
  <1>2. CASE w = 1  BY <1>2
  <1>3. CASE w = 2  BY <1>3
  <1>4. CASE w = 3  BY <1>4
  <1>5. CASE w = 4  BY <1>5
  <1>6. CASE w = 5  BY <1>6
  <1>7. CASE w = 6  BY <1>7
  <1>8. CASE w = 7  BY <1>8
  <1>9. CASE w = 8  BY <1>9
  <1>10. CASE w = 9  BY <1>10
  <1>11. CASE w = 10  BY <1>11
  <1>12. QED
    BY <1>1, <1>2, <1>3, <1>4, <1>5, <1>6, <1>7, <1>8, <1>9, <1>10, <1>11

\* A page that is counted begins inside the list.
LEMMA CountedPageStarts ==
    ASSUME NEW n \in Nat, NEW w \in 1 .. 10, NEW p \in Nat,
           p < (n + w - 1) \div w
    PROVE  p * w < n
  <1>1. w = 1 \/ w = 2 \/ w = 3 \/ w = 4 \/ w = 5 \/ w = 6 \/ w = 7 \/ w = 8
          \/ w = 9 \/ w = 10
    OBVIOUS
  <1>2. CASE w = 1  BY <1>2
  <1>3. CASE w = 2  BY <1>3
  <1>4. CASE w = 3  BY <1>4
  <1>5. CASE w = 4  BY <1>5
  <1>6. CASE w = 5  BY <1>6
  <1>7. CASE w = 6  BY <1>7
  <1>8. CASE w = 7  BY <1>8
  <1>9. CASE w = 8  BY <1>9
  <1>10. CASE w = 9  BY <1>10
  <1>11. CASE w = 10  BY <1>11
  <1>12. QED
    BY <1>1, <1>2, <1>3, <1>4, <1>5, <1>6, <1>7, <1>8, <1>9, <1>10, <1>11

\* The page before one that begins inside the list does so too.
LEMMA PageBeforeStarts ==
    ASSUME NEW n \in Nat, NEW w \in 1 .. 10, NEW p \in Nat, p > 0, p * w < n
    PROVE  (p - 1) * w < n
  <1>1. (p - 1) * w = p * w - w
    OBVIOUS
  <1>2. p * w \in Int
    OBVIOUS
  <1>3. QED
    BY <1>1, <1>2

-----------------------------------------------------------------------------
(* Types. *)

LEMMA PageSizeType ==
    ASSUME NEW size \in PageSizes
    PROVE  PageSize(size) \in 1 .. 10
  BY PageSizesAssumption DEF PageSize

\* The fields of a list, and lists that differ in one of them.
LEMMA ListFields ==
    ASSUME NEW c \in CandidateWordList
    PROVE  /\ c.candWords \in Seq(Words)
           /\ c.currentPage \in Nat
           /\ c.wordPerPage \in 1 .. 10
           /\ ListSize(c) \in Nat
           /\ First(c) \in Nat
  <1>1. /\ c.candWords \in Seq(Words)
        /\ c.currentPage \in Nat
        /\ c.wordPerPage \in 1 .. 10
    BY DEF CandidateWordList
  <1>2. ListSize(c) \in Nat
    BY <1>1 DEF ListSize
  <1>3. First(c) \in Nat
    BY <1>1 DEF First
  <1>4. QED
    BY <1>1, <1>2, <1>3

LEMMA ListUpdates ==
    ASSUME NEW c \in CandidateWordList,
           NEW words \in Seq(Words), NEW page \in Nat, NEW size \in 1 .. 10
    PROVE  /\ [c EXCEPT !.candWords = words] \in CandidateWordList
           /\ [c EXCEPT !.currentPage = page] \in CandidateWordList
           /\ [c EXCEPT !.wordPerPage = size] \in CandidateWordList
           /\ [c EXCEPT !.candWords = words, !.currentPage = page]
                \in CandidateWordList
  BY DEF CandidateWordList

LEMMA ResetType ==
    ASSUME NEW c \in CandidateWordList
    PROVE  Reset(c) \in CandidateWordList
  <1>1. <<>> \in Seq(Words) /\ 0 \in Nat
    OBVIOUS
  <1>2. QED
    BY <1>1, ListUpdates, ListFields DEF Reset

LEMMA SetPageSizeType ==
    ASSUME NEW c \in CandidateWordList, NEW size \in PageSizes
    PROVE  SetPageSize(c, size) \in CandidateWordList
  BY PageSizeType, ListUpdates, ListFields DEF SetPageSize

LEMMA FillType ==
    ASSUME NEW c \in CandidateWordList, NEW size \in PageSizes,
           NEW found \in Seq(Words)
    PROVE  Fill(c, size, found) \in CandidateWordList
  <1>1. SetPageSize(Reset(c), size) \in CandidateWordList
    BY ResetType, SetPageSizeType
  <1>2. QED
    BY <1>1, ListUpdates, ListFields DEF Fill

LEMMA PagingType ==
    ASSUME NEW c \in CandidateWordList
    PROVE  GoPrevPage(c) \in CandidateWordList /\ GoNextPage(c) \in CandidateWordList
  <1>1. c.currentPage \in Nat
    BY ListFields
  <1>2. c.currentPage + 1 \in Nat
    BY <1>1
  <1>3. GoNextPage(c) \in CandidateWordList
    BY <1>2, ListUpdates, ListFields DEF GoNextPage
  <1>4. HasPrev(c) => c.currentPage - 1 \in Nat
    BY <1>1 DEF HasPrev
  <1>5. GoPrevPage(c) \in CandidateWordList
    BY <1>4, ListUpdates, ListFields DEF GoPrevPage
  <1>6. QED
    BY <1>3, <1>5

LEMMA AppendType ==
    ASSUME NEW c \in CandidateWordList, NEW word \in Words
    PROVE  Append1(c, word) \in CandidateWordList
  <1>1. c.candWords \in Seq(Words)
    BY ListFields
  <1>2. Append(c.candWords, word) \in Seq(Words)
    BY <1>1
  <1>3. QED
    BY <1>2, ListUpdates, ListFields DEF Append1

LEMMA EditTypes ==
    ASSUME NEW c \in CandidateWordList
    PROVE  /\ \A word \in Words, position \in 0 .. ListSize(c) :
                 Insert(c, word, position) \in CandidateWordList
           /\ \A index \in 0 .. ListSize(c) - 1 :
                 /\ Remove(c, index) \in CandidateWordList
                 /\ SetFocus(c, index) \in CandidateWordList
                 /\ Resize(c, index) \in CandidateWordList
  <1> DEFINE words == c.candWords
  <1>1. words \in Seq(Words) /\ ListSize(c) = Len(words) /\ Len(words) \in Nat
    BY ListFields DEF ListSize
  \* Parts of the list are lists of words.
  <1>2. \A n \in 0 .. Len(words) : SubSeq(words, 1, n) \in Seq(Words)
    BY <1>1, SubSeqProperties
  <1>3. \A n \in 1 .. Len(words) + 1 : SubSeq(words, n, Len(words)) \in Seq(Words)
    BY <1>1, SubSeqProperties
  <1>4. ASSUME NEW word \in Words, NEW position \in 0 .. ListSize(c)
        PROVE  Insert(c, word, position) \in CandidateWordList
    <2>1. SubSeq(words, 1, position) \in Seq(Words)
      BY <1>1, <1>2
    <2>2. position + 1 \in 1 .. Len(words) + 1
      BY <1>1
    <2>3. SubSeq(words, position + 1, Len(words)) \in Seq(Words)
      BY <1>3, <2>2
    <2>4. <<word>> \in Seq(Words)
      OBVIOUS
    <2>5. SubSeq(words, 1, position) \o <<word>> \in Seq(Words)
      BY <2>1, <2>4, ConcatProperties
    <2>6. SubSeq(words, 1, position) \o <<word>>
            \o SubSeq(words, position + 1, Len(words)) \in Seq(Words)
      BY <2>5, <2>3, ConcatProperties
    <2>7. QED
      BY <2>6, ListUpdates, ListFields DEF Insert
  <1>5. ASSUME NEW index \in 0 .. ListSize(c) - 1
        PROVE  /\ Remove(c, index) \in CandidateWordList
               /\ SetFocus(c, index) \in CandidateWordList
               /\ Resize(c, index) \in CandidateWordList
    <2>1. index \in 0 .. Len(words) /\ index + 2 \in 1 .. Len(words) + 1
      BY <1>1
    <2>2. SubSeq(words, 1, index) \o SubSeq(words, index + 2, Len(words))
            \in Seq(Words)
      BY <1>2, <1>3, <2>1, ConcatProperties
    <2>3. Remove(c, index) \in CandidateWordList
      BY <2>2, ListUpdates, ListFields DEF Remove
    <2>4. index \div c.wordPerPage \in Nat
      <3>1. index \in Nat /\ c.wordPerPage \in 1 .. 10
        BY <2>1, ListFields
      <3>2. QED
        BY <3>1, DivisionBounds
    <2>5. SetFocus(c, index) \in CandidateWordList
      BY <2>4, ListUpdates, ListFields DEF SetFocus
    <2>6. Resize(c, index) \in CandidateWordList
      BY <1>2, <2>1, ListUpdates, ListFields DEF Resize
    <2>7. QED
      BY <2>3, <2>5, <2>6
  <1>6. QED
    BY <1>4, <1>5

\* The words an input method finds.
LEMMA FoundWords ==
    ASSUME NEW n \in 0 .. MaxWords
    PROVE  [i \in 1 .. n |-> i] \in Seq(Words) /\ Len([i \in 1 .. n |-> i]) = n
  <1>1. n \in Nat /\ \A i \in 1 .. n : i \in Words
    BY BoundAssumption, WordsAssumption
  <1>2. QED
    BY <1>1, IsASeq

\* Every step of the list's users keeps its type.
LEMMA NextType ==
    ASSUME TypeOK, Next
    PROVE  TypeOK'
  <1>1. candList \in CandidateWordList
    BY DEF TypeOK
  <1>2. SUFFICES candList' \in CandidateWordList
    BY DEF TypeOK
  <1>3. CASE GetCandWords
    BY <1>1, <1>3, FoundWords, FillType DEF GetCandWords
  <1>4. CASE AppendWord
    BY <1>1, <1>4, AppendType DEF AppendWord
  <1>5. CASE PrevPageKey \/ NextPageKey
    BY <1>1, <1>5, PagingType DEF PrevPageKey, NextPageKey
  <1>6. CASE ResetInput
    BY <1>1, <1>6, ResetType DEF ResetInput
  <1>7. CASE ReloadConfig
    BY <1>1, <1>7, SetPageSizeType DEF ReloadConfig
  <1>8. CASE Edit
    BY <1>1, <1>8, EditTypes DEF Edit
  <1>9. QED
    BY <1>3, <1>4, <1>5, <1>6, <1>7, <1>8 DEF Next

LEMMA InitType ==
    ASSUME Init
    PROVE  TypeOK
  <1>1. NewList \in CandidateWordList
    <2>1. <<>> \in Seq(Words) /\ 0 \in Nat /\ 5 \in 1 .. 10
      OBVIOUS
    <2>2. QED
      BY <2>1 DEF NewList, CandidateWordList
  <1>2. QED
    BY <1>1, SetPageSizeType DEF Init, TypeOK

\* The list is well typed whatever its users do: the page is never negative
\* and its size is one that the selection keys can reach.
THEOREM TypeCorrect == Spec => []TypeOK
  <1>1. Init => TypeOK
    BY InitType
  <1>2. TypeOK /\ [Next]_candList => TypeOK'
    <2>1. CASE Next
      BY <2>1, NextType
    <2>2. CASE UNCHANGED candList
      BY <2>2 DEF TypeOK
    <2>3. QED
      BY <2>1, <2>2
  <1>3. QED
    BY <1>1, <1>2, PTL DEF Spec

-----------------------------------------------------------------------------
(* The current page. *)

\* A list whose page begins inside it has a first word to draw.
LEMMA InsideHasWindow ==
    ASSUME NEW c \in CandidateWordList, PageInside(c), ListSize(c) > 0
    PROVE  GetCurrentWindow(c) # NoWord
  <1>1. First(c) \in 0 .. ListSize(c) - 1
    BY ListFields DEF PageInside
  <1>2. First(c) + 1 \in 1 .. Len(c.candWords)
    BY <1>1, ListFields DEF ListSize
  <1>3. c.candWords[First(c) + 1] \in Words
    BY <1>2, ListFields, ElementOfSeq
  <1>4. QED
    BY <1>1, <1>3, WordsAssumption DEF GetCurrentWindow, WordAt

\* Lists on page 0 begin inside the list.
LEMMA PageZeroInside ==
    ASSUME NEW c \in CandidateWordList, c.currentPage = 0
    PROVE  PageInside(c)
  <1>1. 0 * c.wordPerPage = 0
    BY ListFields
  <1>2. QED
    BY <1>1, ListFields DEF PageInside, First

LEMMA PagingInside ==
    ASSUME NEW c \in CandidateWordList, PageInside(c)
    PROVE  PageInside(GoPrevPage(c)) /\ PageInside(GoNextPage(c))
  <1> DEFINE page == c.currentPage
             size == c.wordPerPage
             n == ListSize(c)
  <1>1. page \in Nat /\ size \in 1 .. 10 /\ n \in Nat
    BY ListFields
  <1>2. CASE n = 0
    <2>1. page = 0
      BY <1>2 DEF PageInside
    <2>2. 0 * size = 0
      BY <1>1
    <2>3. GoPrevPage(c) = c
      BY <2>1 DEF GoPrevPage, HasPrev
    <2>4. ~HasNext(c)
      <3>1. SUFFICES ASSUME 0 + 1 < (0 + size - 1) \div size
                     PROVE  FALSE
        BY <1>2, <2>1 DEF HasNext, PageCount
      <3>2. 1 * size < 0
        BY <1>1, <3>1, CountedPageStarts, 0 \in Nat, 1 \in Nat
      <3>3. QED
        BY <1>1, <3>2
    <2>5. GoNextPage(c) = c
      BY <2>4 DEF GoNextPage
    <2>6. QED
      BY <2>3, <2>5
  <1>3. CASE n > 0
    <2>1. page * size < n
      BY <1>3 DEF PageInside, First
    <2>2. PageInside(GoPrevPage(c))
      <3>1. CASE PageCount(c) # 0 /\ HasPrev(c)
        <4>1. page > 0
          BY <3>1 DEF HasPrev
        <4>2. (page - 1) * size < n
          BY <1>1, <2>1, <4>1, PageBeforeStarts
        <4>3. GoPrevPage(c) = [c EXCEPT !.currentPage = page - 1]
          BY <3>1 DEF GoPrevPage
        <4>4. /\ GoPrevPage(c).candWords = c.candWords
              /\ GoPrevPage(c).currentPage = page - 1
              /\ GoPrevPage(c).wordPerPage = size
          BY <4>3 DEF CandidateWordList
        <4>5. QED
          BY <1>3, <4>2, <4>4 DEF PageInside, ListSize, First
      <3>2. CASE ~(PageCount(c) # 0 /\ HasPrev(c))
        BY <3>2 DEF GoPrevPage
      <3>3. QED
        BY <3>1, <3>2
    <2>3. PageInside(GoNextPage(c))
      <3>1. CASE PageCount(c) # 0 /\ HasNext(c)
        <4>1. page + 1 < (n + size - 1) \div size
          BY <3>1 DEF HasNext, PageCount
        <4>2. (page + 1) * size < n
          BY <1>1, <4>1, CountedPageStarts, page + 1 \in Nat
        <4>3. GoNextPage(c) = [c EXCEPT !.currentPage = page + 1]
          BY <3>1 DEF GoNextPage
        <4>4. /\ GoNextPage(c).candWords = c.candWords
              /\ GoNextPage(c).currentPage = page + 1
              /\ GoNextPage(c).wordPerPage = size
          BY <4>3 DEF CandidateWordList
        <4>5. QED
          BY <1>3, <4>2, <4>4 DEF PageInside, ListSize, First
      <3>2. CASE ~(PageCount(c) # 0 /\ HasNext(c))
        BY <3>2 DEF GoNextPage
      <3>3. QED
        BY <3>1, <3>2
    <2>4. QED
      BY <2>2, <2>3
  <1>4. QED
    BY <1>1, <1>2, <1>3

LEMMA AppendInside ==
    ASSUME NEW c \in CandidateWordList, NEW word \in Words, PageInside(c)
    PROVE  PageInside(Append1(c, word))
  <1> DEFINE longer == Append1(c, word)
  <1>1. /\ longer.candWords = Append(c.candWords, word)
        /\ longer.currentPage = c.currentPage
        /\ longer.wordPerPage = c.wordPerPage
    BY DEF Append1, CandidateWordList
  <1>2. Len(Append(c.candWords, word)) = Len(c.candWords) + 1
    BY ListFields, AppendProperties
  <1>3. ListSize(longer) = ListSize(c) + 1 /\ First(longer) = First(c)
    BY <1>1, <1>2 DEF ListSize, First
  <1>4. ListSize(c) = 0 => First(c) = 0
    <2>1. 0 * c.wordPerPage = 0
      BY ListFields
    <2>2. QED
      BY <2>1 DEF PageInside, First
  <1>5. QED
    BY <1>3, <1>4, ListFields DEF PageInside

\* Emptying and filling the list start at page 0; the page size is free then.
LEMMA StartInside ==
    ASSUME NEW c \in CandidateWordList, NEW size \in PageSizes
    PROVE  /\ PageInside(Reset(c))
           /\ \A found \in Seq(Words) : PageInside(Fill(c, size, found))
           /\ c.currentPage = 0 => PageInside(SetPageSize(c, size))
  <1>1. Reset(c).currentPage = 0
    BY DEF Reset, CandidateWordList
  <1>2. PageInside(Reset(c))
    BY <1>1, ResetType, PageZeroInside
  <1>3. ASSUME NEW found \in Seq(Words)
        PROVE  PageInside(Fill(c, size, found))
    <2>1. Fill(c, size, found).currentPage = 0
      <3>1. SetPageSize(Reset(c), size).currentPage = 0
        BY <1>1, ResetType DEF SetPageSize, CandidateWordList
      <3>2. SetPageSize(Reset(c), size) \in CandidateWordList
        BY ResetType, SetPageSizeType
      <3>3. QED
        BY <3>1, <3>2 DEF Fill, CandidateWordList
    <2>2. QED
      BY <2>1, FillType, PageZeroInside
  <1>4. ASSUME c.currentPage = 0
        PROVE  PageInside(SetPageSize(c, size))
    <2>1. SetPageSize(c, size).currentPage = 0
      BY <1>4 DEF SetPageSize, CandidateWordList
    <2>2. QED
      BY <2>1, SetPageSizeType, PageZeroInside
  <1>5. QED
    BY <1>2, <1>3, <1>4

\* With users that append, page, fill and empty, every step keeps the page
\* inside the list; a reload does because it finds the list empty.
LEMMA NextInside ==
    ASSUME TypeOK, Next, PageInside(candList), ~AddonsEdit, ~ReloadWhileShown
    PROVE  PageInside(candList')
  <1>1. candList \in CandidateWordList
    BY DEF TypeOK
  <1>2. CASE GetCandWords
    <2>1. PICK size \in PageSizes, n \in 0 .. MaxWords :
            candList' = Fill(candList, size, [i \in 1 .. n |-> i])
      BY <1>2 DEF GetCandWords
    <2>2. QED
      BY <1>1, <2>1, FoundWords, StartInside
  <1>3. CASE AppendWord
    BY <1>1, <1>3, AppendInside DEF AppendWord
  <1>4. CASE PrevPageKey \/ NextPageKey
    BY <1>1, <1>4, PagingInside DEF PrevPageKey, NextPageKey
  <1>5. CASE ResetInput
    <2>1. PICK size \in PageSizes : TRUE
      BY PageSizesAssumption
    <2>2. QED
      BY <1>1, <1>5, <2>1, StartInside DEF ResetInput
  <1>6. CASE ReloadConfig
    <2>1. ListSize(candList) = 0
      BY <1>6 DEF ReloadConfig
    <2>2. candList.currentPage = 0
      BY <2>1 DEF PageInside
    <2>3. QED
      BY <1>1, <1>6, <2>2, StartInside DEF ReloadConfig
  <1>7. CASE Edit
    BY <1>7 DEF Edit
  <1>8. QED
    BY <1>2, <1>3, <1>4, <1>5, <1>6, <1>7 DEF Next

LEMMA InitInside ==
    ASSUME Init
    PROVE  PageInside(candList)
  <1>1. NewList \in CandidateWordList /\ NewList.currentPage = 0
    <2>1. <<>> \in Seq(Words) /\ 0 \in Nat /\ 5 \in 1 .. 10
      OBVIOUS
    <2>2. QED
      BY <2>1 DEF NewList, CandidateWordList
  <1>2. QED
    BY <1>1, StartInside DEF Init

-----------------------------------------------------------------------------
(* The walk over the window. *)

\* A set of numbers has a smallest one.
LEMMA SmallestOf ==
    ASSUME NEW T \in SUBSET Nat, T # {}
    PROVE  \E n \in T : \A m \in T : n <= m
  <1> DEFINE R == OpToRel(<, Nat)
  <1>1. IsWellFoundedOn(R, Nat)
    BY NatLessThanWellFounded
  <1>2. \A x, y \in Nat : <<y, x>> \in R <=> y < x
    BY DEF OpToRel
  <1> HIDE DEF R
  <1>3. PICK n \in T : \A m \in T : ~(<<m, n>> \in R)
    BY <1>1, WFMin, Zenon
  <1>4. ASSUME NEW m \in T
        PROVE  n <= m
    <2>1. n \in Nat /\ m \in Nat
      OBVIOUS
    <2>2. ~(m < n)
      BY <1>2, <1>3, <2>1
    <2>3. QED
      BY <2>1, <2>2
  <1>5. QED
    BY <1>4

\* Where the page on display ends, and where the walk from a word stops: a
\* word of the window leads to the end of the page, another to itself.
PageEnd(c) ==
    IF First(c) + c.wordPerPage <= ListSize(c) THEN First(c) + c.wordPerPage ELSE ListSize(c)
Stop(c, i) ==
    IF i + 1 < ListSize(c) /\ i + 1 - First(c) \in 0 .. c.wordPerPage - 1
    THEN PageEnd(c) ELSE i + 1
Suffix(c, i) == IF i = -1 THEN <<>> ELSE SubSeq(c.candWords, i + 1, Stop(c, i))

\* The walk from a word is the word and the walk from the one after it.
LEMMA SuffixUnfolds ==
    ASSUME NEW c \in CandidateWordList, NEW i \in 0 .. ListSize(c) - 1
    PROVE  /\ GetCurrentWindowNext(c, i) \in {-1, i + 1}
           /\ GetCurrentWindowNext(c, i) \in -1 .. ListSize(c) - 1
           /\ Suffix(c, i) = <<WordAt(c, i)>> \o Suffix(c, GetCurrentWindowNext(c, i))
  <1> DEFINE words == c.candWords
             size == c.wordPerPage
             first == First(c)
             n == ListSize(c)
             next == GetCurrentWindowNext(c, i)
  <1>1. /\ words \in Seq(Words) /\ size \in 1 .. 10 /\ first \in Nat
        /\ n = Len(words) /\ n \in Nat
    BY ListFields DEF ListSize
  <1>2. next = IF i + 1 < n /\ i + 1 - first \in 0 .. size - 1 THEN i + 1 ELSE -1
    BY DEF GetCurrentWindowNext
  <1>3. PageEnd(c) = IF first + size <= n THEN first + size ELSE n
    BY DEF PageEnd
  <1>4. \A j \in 0 .. n - 1 :
          Stop(c, j) = IF j + 1 < n /\ j + 1 - first \in 0 .. size - 1
                       THEN PageEnd(c) ELSE j + 1
    BY DEF Stop
  <1>5. \A j \in 0 .. n - 1 : Suffix(c, j) = SubSeq(words, j + 1, Stop(c, j))
    <2>1. \A j \in 0 .. n - 1 : j # -1
      BY <1>1
    <2>2. QED
      BY <2>1 DEF Suffix
  <1>6. Suffix(c, -1) = <<>>
    BY DEF Suffix
  <1>7. WordAt(c, i) = words[i + 1]
    BY DEF WordAt
  <1> HIDE DEF words, size, first, n, next
  <1>8. i \in 0 .. n - 1
    BY DEF n
  <1>9. next \in {-1, i + 1} /\ next \in -1 .. n - 1
    BY <1>1, <1>2, <1>8
  <1>10. Stop(c, i) \in i + 1 .. n
    BY <1>1, <1>3, <1>4, <1>8
  <1>11. Suffix(c, i) = <<words[i + 1]>> \o SubSeq(words, i + 2, Stop(c, i))
    <2>1. i + 1 \in 1 .. Len(words) /\ Stop(c, i) \in i + 1 .. Len(words)
      BY <1>1, <1>8, <1>10
    <2>2. SubSeq(words, i + 1, Stop(c, i))
            = <<words[i + 1]>> \o SubSeq(words, (i + 1) + 1, Stop(c, i))
      BY <1>1, <2>1, SubSeqRecursiveFirst
    <2>3. (i + 1) + 1 = i + 2
      BY <1>8
    <2>4. QED
      BY <1>5, <1>8, <2>2, <2>3
  <1>12. Suffix(c, next) = SubSeq(words, i + 2, Stop(c, i))
    <2>1. CASE next = -1
      <3>1. Stop(c, i) = i + 1
        BY <1>1, <1>2, <1>4, <1>8, <2>1
      <3>2. i + 2 \in Int /\ i + 1 \in Int /\ i + 1 < i + 2
        BY <1>8
      <3>3. SubSeq(words, i + 2, Stop(c, i)) = <<>>
        BY <3>1, <3>2, SubSeqEmpty
      <3>4. QED
        BY <1>6, <2>1, <3>3
    <2>2. CASE next = i + 1
      <3>1. i + 1 < n /\ i + 1 - first \in 0 .. size - 1
        BY <1>1, <1>2, <1>8, <2>2
      <3>2. Stop(c, i) = PageEnd(c)
        BY <1>4, <1>8, <3>1
      <3>3. i + 1 \in 0 .. n - 1
        BY <1>1, <1>8, <3>1
      <3>4. Stop(c, i + 1) = PageEnd(c)
        BY <1>1, <1>3, <1>4, <1>8, <3>1, <3>3
      <3>5. (i + 1) + 1 = i + 2
        BY <1>8
      <3>6. QED
        BY <1>5, <2>2, <3>2, <3>3, <3>4, <3>5
    <2>3. QED
      BY <1>9, <2>1, <2>2
  <1>13. QED
    BY <1>7, <1>9, <1>11, <1>12 DEF words, n, next

\* What the walk's definition by recursion computes.
LEMMA WalkFromIs ==
    ASSUME NEW c \in CandidateWordList
    PROVE  \A i \in -1 .. ListSize(c) - 1 : WalkFrom(c)[i] = Suffix(c, i)
  <1> DEFINE n == ListSize(c)
             D == -1 .. n - 1
             NextOf(i) == GetCurrentWindowNext(c, i)
             Unfold(g) == [i \in D |-> IF i = -1 THEN <<>> ELSE <<WordAt(c, i)>> \o g[NextOf(i)]]
             from == CHOOSE g : g = Unfold(g)
             closed == [i \in D |-> Suffix(c, i)]
  <1>1. n \in Nat
    BY ListFields
  <1>2. WalkFrom(c) = from
    BY DEF WalkFrom
  <1>3. ASSUME NEW i \in D, i # -1
        PROVE  /\ NextOf(i) \in {-1, i + 1} /\ NextOf(i) \in D
               /\ Suffix(c, i) = <<WordAt(c, i)>> \o Suffix(c, NextOf(i))
    <2>1. i \in 0 .. ListSize(c) - 1
      BY <1>1, <1>3
    <2>2. QED
      BY <2>1, SuffixUnfolds
  <1>4. closed = Unfold(closed)
    <2>1. ASSUME NEW i \in D
          PROVE  closed[i] = IF i = -1 THEN <<>> ELSE <<WordAt(c, i)>> \o closed[NextOf(i)]
      <3>1. CASE i = -1
        BY <3>1 DEF Suffix
      <3>2. CASE i # -1
        BY <1>3, <3>2
      <3>3. QED
        BY <3>1, <3>2
    <2>2. QED
      BY <2>1
  <1>5. from = Unfold(from)
    BY <1>4
  <1> HIDE DEF from
  <1>6. \A i \in D : from[i] = IF i = -1 THEN <<>> ELSE <<WordAt(c, i)>> \o from[NextOf(i)]
    <2> DEFINE u == Unfold(from)
    <2>1. \A i \in D : u[i] = IF i = -1 THEN <<>> ELSE <<WordAt(c, i)>> \o from[NextOf(i)]
      OBVIOUS
    <2>2. u = from
      BY <1>5
    <2> HIDE DEF u
    <2>3. QED
      BY <2>1, <2>2
  <1>7. from[-1] = Suffix(c, -1)
    <2>1. -1 \in D
      BY <1>1
    <2>2. Suffix(c, -1) = <<>>
      BY DEF Suffix
    <2>3. QED
      BY <1>6, <2>1, <2>2
  <1> DEFINE wrong == {n - 1 - i : i \in {j \in D : j # -1 /\ from[j] # Suffix(c, j)}}
  <1>8. wrong \subseteq Nat
    BY <1>1
  <1>9. ASSUME wrong # {}
        PROVE  FALSE
    <2>1. PICK t \in wrong : \A m \in wrong : t <= m
      BY <1>8, <1>9, SmallestOf
    <2>2. PICK i \in D : i # -1 /\ from[i] # Suffix(c, i) /\ t = n - 1 - i
      BY <2>1
    <2> DEFINE next == NextOf(i)
    <2>3. next \in {-1, i + 1} /\ next \in D /\ Suffix(c, i) = <<WordAt(c, i)>> \o Suffix(c, next)
      BY <1>3, <2>2
    <2>4. from[i] = <<WordAt(c, i)>> \o from[next]
      BY <1>6, <2>2
    <2> HIDE DEF next
    <2>5. from[next] # Suffix(c, next)
      BY <2>2, <2>3, <2>4
    <2>6. next # -1
      BY <1>7, <2>5
    <2>7. n - 1 - next \in wrong
      BY <2>3, <2>5, <2>6
    <2>8. t <= n - 1 - next /\ next = i + 1
      BY <2>1, <2>3, <2>6, <2>7
    <2>9. QED
      BY <1>1, <2>2, <2>8
  <1>10. \A i \in D : i # -1 => from[i] = Suffix(c, i)
    BY <1>9
  <1>11. QED
    BY <1>2, <1>7, <1>10

\* The walk over the window yields the words from the first of the page to its
\* end.
LEMMA WalkIs ==
    ASSUME NEW c \in CandidateWordList
    PROVE  Walk(c) = IF First(c) < ListSize(c)
                     THEN SubSeq(c.candWords, First(c) + 1, PageEnd(c)) ELSE <<>>
  <1> DEFINE words == c.candWords
             size == c.wordPerPage
             first == First(c)
             n == ListSize(c)
  <1>1. /\ words \in Seq(Words) /\ size \in 1 .. 10 /\ first \in Nat
        /\ n = Len(words) /\ n \in Nat
    BY ListFields DEF ListSize
  <1>2. GetCurrentWindow(c) = IF first \in 0 .. n - 1 THEN words[first + 1] ELSE NoWord
    BY DEF GetCurrentWindow, WordAt
  <1>3. PageEnd(c) = IF first + size <= n THEN first + size ELSE n
    BY DEF PageEnd
  <1>4. Stop(c, first) = IF first + 1 < n /\ first + 1 - first \in 0 .. size - 1
                         THEN PageEnd(c) ELSE first + 1
    BY DEF Stop
  <1>5. first # -1 => Suffix(c, first) = SubSeq(words, first + 1, Stop(c, first))
    BY DEF Suffix
  <1>6. Walk(c) = IF GetCurrentWindow(c) = NoWord THEN <<>> ELSE WalkFrom(c)[first]
    BY DEF Walk
  <1>7. \A i \in -1 .. n - 1 : WalkFrom(c)[i] = Suffix(c, i)
    BY WalkFromIs
  <1>8. SUFFICES Walk(c) = IF first < n THEN SubSeq(words, first + 1, PageEnd(c)) ELSE <<>>
    BY DEF first, n
  <1> HIDE DEF words, size, first, n
  <1>9. CASE first < n
    <2>1. first + 1 \in 1 .. Len(words) /\ first \in 0 .. n - 1 /\ first \in -1 .. n - 1
      BY <1>1, <1>9
    <2>2. words[first + 1] \in Words
      BY <1>1, <2>1, ElementOfSeq
    <2>3. Walk(c) = Suffix(c, first)
      BY <1>2, <1>6, <1>7, <2>1, <2>2, WordsAssumption
    <2>4. Stop(c, first) = PageEnd(c)
      BY <1>1, <1>3, <1>4, <1>9
    <2>5. QED
      BY <1>1, <1>5, <1>9, <2>3, <2>4
  <1>10. CASE ~(first < n)
    <2>1. first \notin 0 .. n - 1
      BY <1>1, <1>10
    <2>2. QED
      BY <1>2, <1>6, <1>10, <2>1
  <1>11. QED
    BY <1>9, <1>10

\* The same, word by word.
LEMMA WalkWords ==
    ASSUME NEW c \in CandidateWordList
    PROVE  /\ Walk(c) \in Seq(Words)
           /\ Len(Walk(c)) = IF First(c) < ListSize(c) THEN PageEnd(c) - First(c) ELSE 0
           /\ \A k \in 1 .. Len(Walk(c)) : /\ First(c) + k \in 1 .. ListSize(c)
                                           /\ Walk(c)[k] = c.candWords[First(c) + k]
  <1> DEFINE words == c.candWords
             size == c.wordPerPage
             first == First(c)
             n == ListSize(c)
             end == PageEnd(c)
             walk == Walk(c)
  <1>1. /\ words \in Seq(Words) /\ size \in 1 .. 10 /\ first \in Nat
        /\ n = Len(words) /\ n \in Nat
    BY ListFields DEF ListSize
  <1>2. end = IF first + size <= n THEN first + size ELSE n
    BY DEF PageEnd
  <1>3. walk = IF first < n THEN SubSeq(words, first + 1, end) ELSE <<>>
    BY WalkIs
  <1> HIDE DEF words, size, first, n, end, walk
  <1>4. CASE first < n
    <2>1. end \in first + 1 .. n /\ first + 1 \in Int /\ end \in Int
      BY <1>1, <1>2, <1>4
    <2>2. \A i \in first + 1 .. end : i \in 1 .. Len(words)
      BY <1>1, <2>1
    <2>3. \A i \in first + 1 .. end : words[i] \in Words
      BY <1>1, <2>2, ElementOfSeq
    <2>4. /\ walk \in Seq(Words)
          /\ Len(walk) = IF first + 1 <= end THEN end - (first + 1) + 1 ELSE 0
          /\ \A k \in 1 .. end - (first + 1) + 1 : walk[k] = words[(first + 1) + k - 1]
      BY <1>3, <1>4, <2>1, <2>3, SubSeqProperties
    <2>5. Len(walk) = end - first
      BY <1>1, <2>1, <2>4
    <2>6. ASSUME NEW k \in 1 .. Len(walk)
          PROVE  first + k \in 1 .. n /\ walk[k] = words[first + k]
      <3>1. k \in 1 .. end - (first + 1) + 1 /\ (first + 1) + k - 1 = first + k
        BY <1>1, <2>1, <2>5
      <3>2. first + k \in 1 .. n
        BY <1>1, <2>1, <2>5
      <3>3. QED
        BY <2>4, <3>1, <3>2
    <2>7. QED
      BY <1>4, <2>4, <2>5, <2>6 DEF walk, first, n, end, words
  <1>5. CASE ~(first < n)
    <2>1. walk = <<>> /\ Len(walk) = 0 /\ walk \in Seq(Words)
      BY <1>3, <1>5
    <2>2. QED
      BY <1>5, <2>1 DEF walk, first, n, end, words
  <1>6. QED
    BY <1>4, <1>5

\* A word's place tells its page.
LEMMA PlaceOnPage ==
    ASSUME NEW w \in 1 .. 10, NEW p \in Nat, NEW i \in Nat, i > 0
    PROVE  (i - 1) \div w = p <=> p * w < i /\ i <= p * w + w
  <1>1. w = 1 \/ w = 2 \/ w = 3 \/ w = 4 \/ w = 5 \/ w = 6 \/ w = 7 \/ w = 8
          \/ w = 9 \/ w = 10
    OBVIOUS
  <1>2. CASE w = 1  BY <1>2
  <1>3. CASE w = 2  BY <1>3
  <1>4. CASE w = 3  BY <1>4
  <1>5. CASE w = 4  BY <1>5
  <1>6. CASE w = 5  BY <1>6
  <1>7. CASE w = 6  BY <1>7
  <1>8. CASE w = 7  BY <1>8
  <1>9. CASE w = 8  BY <1>9
  <1>10. CASE w = 9  BY <1>10
  <1>11. CASE w = 10  BY <1>11
  <1>12. QED
    BY <1>1, <1>2, <1>3, <1>4, <1>5, <1>6, <1>7, <1>8, <1>9, <1>10, <1>11

\* The current page is an interval of places.
LEMMA PageIs ==
    ASSUME NEW c \in CandidateWordList
    PROVE  Page(c, c.currentPage) = IF First(c) < ListSize(c)
                                    THEN First(c) + 1 .. PageEnd(c) ELSE {}
  <1> DEFINE size == c.wordPerPage
             page == c.currentPage
             first == First(c)
             n == ListSize(c)
             end == PageEnd(c)
             P == Page(c, page)
  <1>1. size \in 1 .. 10 /\ first \in Nat /\ n \in Nat /\ page \in Nat
    BY ListFields
  <1>2. first = page * size
    BY DEF First
  <1>3. end = IF first + size <= n THEN first + size ELSE n
    BY DEF PageEnd
  <1>4. P = {i \in 1 .. n : (i - 1) \div size = page}
    BY DEF Page
  <1> HIDE DEF size, page, first, n, end, P
  <1>5. \A i \in 1 .. n : i \in Nat /\ i > 0
    BY <1>1
  <1>6. \A i \in 1 .. n : (i - 1) \div size = page <=> first < i /\ i <= first + size
    BY <1>1, <1>2, <1>5, PlaceOnPage
  <1>7. P = {i \in 1 .. n : first < i /\ i <= first + size}
    BY <1>4, <1>6
  <1>8. P = IF first < n THEN first + 1 .. end ELSE {}
    BY <1>1, <1>3, <1>7
  <1>9. QED
    BY <1>8 DEF P, first, n, end, page

\* What is drawn is the current page, all of it and in order, for every length
\* of the list and every page size and after every edit (candidate.c:81,
\* ui.c:723).
THEOREM DrawnCorrect == Spec => []DrawnIsPage
  <1>1. TypeOK => DrawnIsPage
    <2> SUFFICES ASSUME candList \in CandidateWordList
                 PROVE  DrawnIsPage
      BY DEF TypeOK
    <2> DEFINE first == First(candList)
               n == ListSize(candList)
               end == PageEnd(candList)
               walk == Walk(candList)
               page == Page(candList, candList.currentPage)
    <2>1. /\ Len(walk) = IF first < n THEN end - first ELSE 0
          /\ \A k \in 1 .. Len(walk) : walk[k] = candList.candWords[first + k]
      BY WalkWords
    <2>2. page = IF first < n THEN first + 1 .. end ELSE {}
      BY PageIs
    <2>3. first \in Nat /\ n \in Nat /\ end \in Nat /\ (first < n => first + 1 <= end)
      <3>1. candList.wordPerPage \in 1 .. 10 /\ first \in Nat /\ n \in Nat
        BY ListFields
      <3>2. QED
        BY <3>1 DEF PageEnd
    <2>4. SUFFICES /\ Len(walk) = Cardinality(page)
                   /\ \A i \in page :
                        walk[Cardinality({j \in page : j <= i})] = candList.candWords[i]
      BY DEF DrawnIsPage
    <2> HIDE DEF first, n, end, walk, page
    <2>5. CASE first < n
      <3>1. page = first + 1 .. end /\ first + 1 \in Int /\ end \in Int
        BY <2>2, <2>3, <2>5
      <3>2. Cardinality(page) = IF first + 1 > end THEN 0 ELSE end - (first + 1) + 1
        BY <3>1, FS_Interval
      <3>3. Len(walk) = end - first /\ Cardinality(page) = end - first
        BY <2>1, <2>3, <2>5, <3>2
      <3>4. ASSUME NEW i \in page
            PROVE  walk[Cardinality({j \in page : j <= i})] = candList.candWords[i]
        <4> DEFINE upto == {j \in page : j <= i}
        <4>1. i \in Int /\ i - first \in 1 .. end - first /\ first + (i - first) = i
              /\ ~(first + 1 > i) /\ i - (first + 1) + 1 = i - first
          BY <2>3, <3>1
        <4>2. upto = first + 1 .. i
          BY <2>3, <3>1
        <4> HIDE DEF upto
        <4>3. Cardinality(upto) = IF first + 1 > i THEN 0 ELSE i - (first + 1) + 1
          BY <3>1, <4>1, <4>2, FS_Interval
        <4>4. Cardinality(upto) = i - first
          BY <4>1, <4>3
        <4>5. walk[i - first] = candList.candWords[i]
          BY <2>1, <3>3, <4>1
        <4>6. QED
          BY <4>4, <4>5 DEF upto
      <3>5. QED
        BY <3>3, <3>4
    <2>6. CASE ~(first < n)
      BY <2>1, <2>2, <2>6, FS_EmptySet
    <2>7. QED
      BY <2>5, <2>6
  <1>2. QED
    BY <1>1, TypeCorrect, PTL

\* A key or a click chooses the word that is drawn at its index, and nothing
\* where nothing is drawn (candidate.c:95).
THEOREM ChoiceCorrect == Spec => []ChoosesWhatIsDrawn
  <1>1. TypeOK => ChoosesWhatIsDrawn
    <2> SUFFICES ASSUME candList \in CandidateWordList, NEW index \in -1 .. 10
                 PROVE  GetByIndex(candList, index) =
                          IF index \in 0 .. Len(Walk(candList)) - 1
                          THEN Walk(candList)[index + 1] ELSE NoWord
      BY DEF TypeOK, ChoosesWhatIsDrawn
    <2> DEFINE first == First(candList)
               n == ListSize(candList)
               size == candList.wordPerPage
               end == PageEnd(candList)
               walk == Walk(candList)
               words == candList.candWords
    <2>1. /\ Len(walk) = IF first < n THEN end - first ELSE 0
          /\ \A k \in 1 .. Len(walk) : walk[k] = words[first + k]
      BY WalkWords
    <2>2. first \in Nat /\ n \in Nat /\ size \in 1 .. 10
      BY ListFields
    <2>3. end = IF first + size <= n THEN first + size ELSE n
      BY DEF PageEnd
    <2>4. GetByIndex(candList, index) =
            IF 0 <= index /\ index < size
            THEN (IF first + index \in 0 .. n - 1 THEN words[(first + index) + 1] ELSE NoWord)
            ELSE NoWord
      BY DEF GetByIndex, WordAt
    <2> HIDE DEF first, n, size, end, walk, words
    <2>5. index \in 0 .. Len(walk) - 1
            <=> 0 <= index /\ index < size /\ first + index \in 0 .. n - 1
      BY <2>1, <2>2, <2>3
    <2>6. CASE index \in 0 .. Len(walk) - 1
      <3>1. index + 1 \in 1 .. Len(walk) /\ first + (index + 1) = (first + index) + 1
        BY <2>1, <2>2, <2>3, <2>6
      <3>2. walk[index + 1] = words[(first + index) + 1]
        BY <2>1, <3>1
      <3>3. QED
        BY <2>4, <2>5, <2>6, <3>2 DEF walk
    <2>7. CASE index \notin 0 .. Len(walk) - 1
      BY <2>4, <2>5, <2>7 DEF walk
    <2>8. QED
      BY <2>6, <2>7
  <1>2. QED
    BY <1>1, TypeCorrect, PTL

-----------------------------------------------------------------------------
(* Paging through the list. *)

\* There are pages when there are words, and they hold all of them.
LEMMA PagesHoldAll ==
    ASSUME NEW n \in Nat, NEW w \in 1 .. 10
    PROVE  LET count == (n + w - 1) \div w
           IN  /\ count \in Nat /\ count <= n
               /\ count = 0 <=> n = 0
               /\ n <= count * w
  <1>1. w = 1 \/ w = 2 \/ w = 3 \/ w = 4 \/ w = 5 \/ w = 6 \/ w = 7 \/ w = 8
          \/ w = 9 \/ w = 10
    OBVIOUS
  <1>2. CASE w = 1  BY <1>2
  <1>3. CASE w = 2  BY <1>3
  <1>4. CASE w = 3  BY <1>4
  <1>5. CASE w = 4  BY <1>5
  <1>6. CASE w = 5  BY <1>6
  <1>7. CASE w = 6  BY <1>7
  <1>8. CASE w = 7  BY <1>8
  <1>9. CASE w = 8  BY <1>9
  <1>10. CASE w = 9  BY <1>10
  <1>11. CASE w = 10  BY <1>11
  <1>12. QED
    BY <1>1, <1>2, <1>3, <1>4, <1>5, <1>6, <1>7, <1>8, <1>9, <1>10, <1>11

\* The list on page p, the page after k page keys, and the words drawn by then.
At(c, p) == [c EXCEPT !.currentPage = p]
Turned(c, k) == IF k < PageCount(c) THEN k
                ELSE IF PageCount(c) = 0 THEN 0 ELSE PageCount(c) - 1
Prefix(c, k) == SubSeq(c.candWords, 1, PageEnd(At(c, Turned(c, k))))

LEMMA AtFacts ==
    ASSUME NEW c \in CandidateWordList, NEW p \in Nat
    PROVE  /\ At(c, p) \in CandidateWordList
           /\ At(c, p).candWords = c.candWords /\ At(c, p).wordPerPage = c.wordPerPage
           /\ At(c, p).currentPage = p
           /\ \A q \in Nat : [At(c, p) EXCEPT !.currentPage = q] = At(c, q)
           /\ ListSize(At(c, p)) = ListSize(c) /\ PageCount(At(c, p)) = PageCount(c)
           /\ First(At(c, p)) = p * c.wordPerPage
  <1>1. At(c, p) \in CandidateWordList
    BY ListUpdates, ListFields DEF At
  <1>2. /\ At(c, p).candWords = c.candWords /\ At(c, p).wordPerPage = c.wordPerPage
        /\ At(c, p).currentPage = p
        /\ \A q \in Nat : [At(c, p) EXCEPT !.currentPage = q] = At(c, q)
    BY DEF At, CandidateWordList
  <1>3. ListSize(At(c, p)) = ListSize(c)
    BY <1>2 DEF ListSize
  <1>4. QED
    BY <1>1, <1>2, <1>3 DEF PageCount, First

\* The page after one more key is the next one, or the last one again.
LEMMA TurnedFacts ==
    ASSUME NEW c \in CandidateWordList
    PROVE  /\ PageCount(c) \in Nat /\ PageCount(c) <= ListSize(c)
           /\ PageCount(c) = 0 <=> ListSize(c) = 0
           /\ ListSize(c) <= PageCount(c) * c.wordPerPage
           /\ Turned(c, 0) = 0
           /\ \A k \in Nat : Turned(c, k) \in Nat
           /\ \A k \in Nat \ {0} :
                Turned(c, k) = IF PageCount(c) # 0 /\ Turned(c, k - 1) + 1 < PageCount(c)
                               THEN Turned(c, k - 1) + 1 ELSE Turned(c, k - 1)
  <1> DEFINE count == PageCount(c)
             n == ListSize(c)
             size == c.wordPerPage
  <1>1. size \in 1 .. 10 /\ n \in Nat
    BY ListFields
  <1>2. count = (n + size - 1) \div size
    BY DEF PageCount
  <1>3. \A k \in Nat : Turned(c, k) = IF k < count THEN k ELSE IF count = 0 THEN 0 ELSE count - 1
    BY DEF Turned
  <1> HIDE DEF count, n, size
  <1>4. count \in Nat /\ count <= n /\ (count = 0 <=> n = 0) /\ n <= count * size
    BY <1>1, <1>2, PagesHoldAll
  <1>5. Turned(c, 0) = 0 /\ \A k \in Nat : Turned(c, k) \in Nat
    BY <1>3, <1>4
  <1>6. ASSUME NEW k \in Nat \ {0}
        PROVE  Turned(c, k) = IF count # 0 /\ Turned(c, k - 1) + 1 < count
                              THEN Turned(c, k - 1) + 1 ELSE Turned(c, k - 1)
    <2>1. k - 1 \in Nat /\ k \in Nat
      OBVIOUS
    <2>2. Turned(c, k - 1) = IF k - 1 < count THEN k - 1 ELSE IF count = 0 THEN 0 ELSE count - 1
      BY <1>3, <2>1
    <2>3. Turned(c, k) = IF k < count THEN k ELSE IF count = 0 THEN 0 ELSE count - 1
      BY <1>3, <2>1
    <2>4. QED
      BY <1>4, <2>1, <2>2, <2>3
  <1>7. QED
    BY <1>4, <1>5, <1>6 DEF count, n, size

\* The next page of a list on page p.
LEMMA NextAt ==
    ASSUME NEW c \in CandidateWordList, NEW p \in Nat
    PROVE  GoNextPage(At(c, p)) = IF PageCount(c) # 0 /\ p + 1 < PageCount(c)
                                  THEN At(c, p + 1) ELSE At(c, p)
  <1>1. /\ At(c, p).currentPage = p /\ PageCount(At(c, p)) = PageCount(c)
        /\ [At(c, p) EXCEPT !.currentPage = p + 1] = At(c, p + 1)
    BY AtFacts, p + 1 \in Nat
  <1>2. [At(c, p) EXCEPT !.currentPage = @ + 1] = [At(c, p) EXCEPT !.currentPage = p + 1]
    BY <1>1
  <1>3. QED
    BY <1>1, <1>2 DEF GoNextPage, HasNext

\* What paging forward computes: each key turns one page until the last one.
LEMMA PagesForwardIs ==
    ASSUME NEW c \in CandidateWordList
    PROVE  \A k \in 0 .. ListSize(c) + 1 : PagesForward(c)[k] = At(c, Turned(c, k))
  <1> DEFINE n == ListSize(c)
             D == 0 .. n + 1
             Unfold(g) == [k \in D |-> IF k = 0 THEN [c EXCEPT !.currentPage = 0]
                                       ELSE GoNextPage(g[k - 1])]
             after == CHOOSE g : g = Unfold(g)
             closed == [k \in D |-> At(c, Turned(c, k))]
  <1>1. n \in Nat
    BY ListFields
  <1>2. PagesForward(c) = after
    BY DEF PagesForward
  <1>3. At(c, Turned(c, 0)) = [c EXCEPT !.currentPage = 0]
    BY TurnedFacts DEF At
  <1>4. ASSUME NEW k \in D, k # 0
        PROVE  k - 1 \in D /\ At(c, Turned(c, k)) = GoNextPage(At(c, Turned(c, k - 1)))
    <2>1. k \in Nat \ {0} /\ k - 1 \in Nat /\ k - 1 \in D
      BY <1>1, <1>4
    <2>2. Turned(c, k - 1) \in Nat
      BY <2>1, TurnedFacts
    <2>3. QED
      BY <2>1, <2>2, TurnedFacts, NextAt
  <1>5. closed = Unfold(closed)
    <2>1. ASSUME NEW k \in D
          PROVE  closed[k] = IF k = 0 THEN [c EXCEPT !.currentPage = 0]
                             ELSE GoNextPage(closed[k - 1])
      <3>1. CASE k = 0
        BY <1>3, <3>1
      <3>2. CASE k # 0
        BY <1>4, <3>2
      <3>3. QED
        BY <3>1, <3>2
    <2>2. QED
      BY <2>1
  <1>6. after = Unfold(after)
    BY <1>5
  <1> HIDE DEF after
  <1>7. \A k \in D : after[k] = IF k = 0 THEN [c EXCEPT !.currentPage = 0]
                                ELSE GoNextPage(after[k - 1])
    <2> DEFINE u == Unfold(after)
    <2>1. \A k \in D : u[k] = IF k = 0 THEN [c EXCEPT !.currentPage = 0]
                              ELSE GoNextPage(after[k - 1])
      OBVIOUS
    <2>2. u = after
      BY <1>6
    <2> HIDE DEF u
    <2>3. QED
      BY <2>1, <2>2
  <1> DEFINE wrong == {k \in D : after[k] # At(c, Turned(c, k))}
  <1>8. wrong \subseteq Nat
    BY <1>1
  <1>9. ASSUME wrong # {}
        PROVE  FALSE
    <2>1. PICK k \in wrong : \A m \in wrong : k <= m
      BY <1>8, <1>9, SmallestOf
    <2>2. k \in D /\ after[k] # At(c, Turned(c, k))
      BY <2>1
    <2>3. k # 0
      BY <1>3, <1>7, <2>2
    <2>4. k - 1 \in D /\ ~(k <= k - 1)
      BY <1>1, <2>2, <2>3
    <2>5. after[k - 1] = At(c, Turned(c, k - 1))
      BY <2>1, <2>4
    <2>6. QED
      BY <1>4, <1>7, <2>2, <2>3, <2>5
  <1>10. QED
    BY <1>2, <1>9

\* The words drawn up to a page and those on the next one.
LEMMA PrefixGrows ==
    ASSUME NEW c \in CandidateWordList, NEW p \in Nat, p + 1 < PageCount(c)
    PROVE  SubSeq(c.candWords, 1, PageEnd(At(c, p + 1)))
             = SubSeq(c.candWords, 1, PageEnd(At(c, p))) \o Walk(At(c, p + 1))
  <1> DEFINE words == c.candWords
             size == c.wordPerPage
             n == ListSize(c)
             end == PageEnd(At(c, p))
             next == PageEnd(At(c, p + 1))
             start == (p + 1) * size
  <1>1. /\ words \in Seq(Words) /\ size \in 1 .. 10 /\ n = Len(words) /\ n \in Nat
    BY ListFields DEF ListSize
  <1>2. PageCount(c) = (n + size - 1) \div size
    BY DEF PageCount
  <1>3. end = IF p * size + size <= n THEN p * size + size ELSE n
    BY AtFacts DEF PageEnd
  <1>4. next = IF start + size <= n THEN start + size ELSE n
    BY AtFacts, p + 1 \in Nat DEF PageEnd
  <1>5. Walk(At(c, p + 1)) = IF start < n THEN SubSeq(words, start + 1, next) ELSE <<>>
    <2> DEFINE l == At(c, p + 1)
    <2>1. l \in CandidateWordList /\ First(l) = start /\ ListSize(l) = n /\ l.candWords = words
      BY AtFacts, p + 1 \in Nat
    <2> HIDE DEF l
    <2>2. Walk(l) = IF First(l) < ListSize(l)
                    THEN SubSeq(l.candWords, First(l) + 1, PageEnd(l)) ELSE <<>>
      BY <2>1, WalkIs
    <2>3. QED
      BY <2>1, <2>2 DEF l
  <1> HIDE DEF words, size, n, end, next
  <1>6. start < n
    BY <1>1, <1>2, CountedPageStarts, p + 1 \in Nat
  <1>7. start = p * size + size /\ start \in Nat
    BY <1>1
  <1> HIDE DEF start
  <1>8. end = start
    BY <1>3, <1>6, <1>7
  <1>9. next \in start .. n
    BY <1>1, <1>4, <1>6, <1>7
  <1>10. 1 \in 1 .. Len(words) + 1 /\ start \in 1 - 1 .. Len(words) /\ next \in start .. Len(words)
    BY <1>1, <1>6, <1>7, <1>9
  <1>11. SubSeq(words, 1, start) \o SubSeq(words, start + 1, next) = SubSeq(words, 1, next)
    BY <1>1, <1>10, ConcatAdjacentSubSeq
  <1>12. QED
    BY <1>5, <1>6, <1>8, <1>11 DEF words, end, next

\* What is drawn while paging forward: the words up to the end of the page.
LEMMA DrawnForwardIs ==
    ASSUME NEW c \in CandidateWordList
    PROVE  \A k \in 0 .. ListSize(c) + 1 : DrawnForward(c)[k] = Prefix(c, k)
  <1> DEFINE n == ListSize(c)
             D == 0 .. n + 1
             after == PagesForward(c)
             Unfold(g) == [k \in D |-> IF k = 0 THEN Walk(after[0])
                                       ELSE IF after[k] = after[k - 1] THEN g[k - 1]
                                       ELSE g[k - 1] \o Walk(after[k])]
             drawn == CHOOSE g : g = Unfold(g)
             closed == [k \in D |-> Prefix(c, k)]
  <1>1. n \in Nat
    BY ListFields
  <1>2. DrawnForward(c) = drawn
    BY DEF DrawnForward
  <1>3. \A k \in D : after[k] = At(c, Turned(c, k))
    BY PagesForwardIs
  <1> HIDE DEF after
  <1>4. Prefix(c, 0) = Walk(after[0])
    <2> DEFINE l == At(c, 0)
    <2>1. after[0] = l
      BY <1>1, <1>3, TurnedFacts
    <2>2. Prefix(c, 0) = SubSeq(c.candWords, 1, PageEnd(l))
      BY TurnedFacts DEF Prefix
    <2>3. l \in CandidateWordList /\ First(l) = 0 * c.wordPerPage /\ ListSize(l) = n
          /\ l.candWords = c.candWords /\ l.wordPerPage \in 1 .. 10
      BY AtFacts, ListFields
    <2>4. First(l) = 0
      <3>1. 0 * c.wordPerPage = 0
        BY ListFields
      <3>2. QED
        BY <2>3, <3>1
    <2>5. Walk(l) = IF First(l) < n THEN SubSeq(c.candWords, First(l) + 1, PageEnd(l)) ELSE <<>>
      BY <2>3, WalkIs
    <2>6. PageEnd(l) = IF First(l) + l.wordPerPage <= n THEN First(l) + l.wordPerPage ELSE n
      BY <2>3 DEF PageEnd
    <2> HIDE DEF l, n
    <2>7. CASE 0 < n
      BY <2>1, <2>2, <2>4, <2>5, <2>7
    <2>8. CASE n = 0
      <3>1. PageEnd(l) = 0
        BY <2>3, <2>4, <2>6, <2>8
      <3>2. SubSeq(c.candWords, 1, 0) = <<>>
        BY SubSeqEmpty, 1 \in Int, 0 \in Int, 0 < 1
      <3>3. QED
        BY <2>1, <2>2, <2>4, <2>5, <2>8, <3>1, <3>2
    <2>9. QED
      BY <1>1, <2>7, <2>8 DEF n
  <1>5. ASSUME NEW k \in D, k # 0
        PROVE  /\ k - 1 \in D
               /\ Prefix(c, k) = IF after[k] = after[k - 1] THEN Prefix(c, k - 1)
                                 ELSE Prefix(c, k - 1) \o Walk(after[k])
    <2> DEFINE p == Turned(c, k - 1)
               q == Turned(c, k)
    <2>1. k \in Nat \ {0} /\ k - 1 \in Nat /\ k - 1 \in D
      BY <1>1, <1>5
    <2>2. p \in Nat /\ q = IF PageCount(c) # 0 /\ p + 1 < PageCount(c) THEN p + 1 ELSE p
      BY <2>1, TurnedFacts
    <2>3. after[k] = At(c, q) /\ after[k - 1] = At(c, p)
      BY <1>3, <2>1
    <2>4. Prefix(c, k) = SubSeq(c.candWords, 1, PageEnd(At(c, q)))
          /\ Prefix(c, k - 1) = SubSeq(c.candWords, 1, PageEnd(At(c, p)))
      BY DEF Prefix
    <2> HIDE DEF p, q
    <2>5. CASE q = p
      BY <2>1, <2>3, <2>4, <2>5
    <2>6. CASE q = p + 1 /\ p + 1 < PageCount(c)
      <3>1. At(c, q).currentPage # At(c, p).currentPage
        <4>1. p \in Nat /\ q \in Nat /\ q # p
          BY <2>2, <2>6
        <4>2. At(c, p).currentPage = p
          BY <4>1, AtFacts
        <4>3. At(c, q).currentPage = q
          BY <4>1, AtFacts
        <4>4. QED
          BY <4>1, <4>2, <4>3
      <3>2. after[k] # after[k - 1]
        BY <2>3, <3>1
      <3>3. QED
        BY <2>1, <2>2, <2>3, <2>4, <2>6, <3>2, PrefixGrows
    <2>7. QED
      BY <2>2, <2>5, <2>6
  <1>6. closed = Unfold(closed)
    <2>1. ASSUME NEW k \in D
          PROVE  closed[k] = IF k = 0 THEN Walk(after[0])
                             ELSE IF after[k] = after[k - 1] THEN closed[k - 1]
                             ELSE closed[k - 1] \o Walk(after[k])
      <3>1. CASE k = 0
        BY <1>4, <3>1
      <3>2. CASE k # 0
        BY <1>5, <3>2
      <3>3. QED
        BY <3>1, <3>2
    <2>2. QED
      BY <2>1
  <1>7. drawn = Unfold(drawn)
    BY <1>6
  <1> HIDE DEF drawn
  <1>8. \A k \in D : drawn[k] = IF k = 0 THEN Walk(after[0])
                                ELSE IF after[k] = after[k - 1] THEN drawn[k - 1]
                                ELSE drawn[k - 1] \o Walk(after[k])
    <2> DEFINE u == Unfold(drawn)
    <2>1. \A k \in D : u[k] = IF k = 0 THEN Walk(after[0])
                              ELSE IF after[k] = after[k - 1] THEN drawn[k - 1]
                              ELSE drawn[k - 1] \o Walk(after[k])
      OBVIOUS
    <2>2. u = drawn
      BY <1>7
    <2> HIDE DEF u
    <2>3. QED
      BY <2>1, <2>2
  <1> DEFINE wrong == {k \in D : drawn[k] # Prefix(c, k)}
  <1>9. wrong \subseteq Nat
    BY <1>1
  <1>10. ASSUME wrong # {}
         PROVE  FALSE
    <2>1. PICK k \in wrong : \A m \in wrong : k <= m
      BY <1>9, <1>10, SmallestOf
    <2>2. k \in D /\ drawn[k] # Prefix(c, k)
      BY <2>1
    <2>3. k # 0
      BY <1>4, <1>8, <2>2
    <2>4. k - 1 \in D /\ ~(k <= k - 1)
      BY <1>1, <2>2, <2>3
    <2>5. drawn[k - 1] = Prefix(c, k - 1)
      BY <2>1, <2>4
    <2>6. QED
      BY <1>5, <1>8, <2>2, <2>3, <2>5
  <1>11. QED
    BY <1>2, <1>10

\* Page keys draw every word of the list once and in order, for every length and
\* page size, stop at the last page, and each of them can be taken back
\* (candidate.c:116-176).
THEOREM PagingCorrect == Spec => []PagingCoversList
  <1>1. TypeOK => PagingCoversList
    <2> SUFFICES ASSUME candList \in CandidateWordList
                 PROVE  PagingCoversList
      BY DEF TypeOK
    <2> DEFINE c == candList
               n == ListSize(c)
               count == PageCount(c)
               after == PagesForward(c)
               end == n + 1
               last == Turned(c, end)
    <2>1. /\ n \in Nat /\ c.candWords \in Seq(Words) /\ n = Len(c.candWords)
          /\ c.wordPerPage \in 1 .. 10
      BY ListFields DEF ListSize
    <2>2. \A k \in 0 .. end : after[k] = At(c, Turned(c, k)) /\ DrawnForward(c)[k] = Prefix(c, k)
      BY PagesForwardIs, DrawnForwardIs
    <2>3. count \in Nat /\ count <= n /\ (count = 0 <=> n = 0) /\ n <= count * c.wordPerPage
      BY TurnedFacts
    <2>4. last = IF count = 0 THEN 0 ELSE count - 1
      BY <2>1, <2>3 DEF Turned
    <2> HIDE DEF n, count, after
    <2>5. last \in Nat /\ end \in 0 .. end
      BY <2>1, <2>3, <2>4
    <2>6. DrawnForward(c)[end] = c.candWords
      <3>1. PageEnd(At(c, last)) = IF last * c.wordPerPage + c.wordPerPage <= n
                                   THEN last * c.wordPerPage + c.wordPerPage ELSE n
        BY <2>5, AtFacts DEF PageEnd, n
      <3>2. n <= last * c.wordPerPage + c.wordPerPage
        <4>1. CASE count = 0
          BY <2>1, <2>3, <2>4, <4>1
        <4>2. CASE count # 0
          <5>1. count = last + 1
            BY <2>3, <2>4, <4>2
          <5>2. (last + 1) * c.wordPerPage = last * c.wordPerPage + c.wordPerPage
            BY <2>1, <2>5
          <5>3. QED
            BY <2>3, <5>1, <5>2
        <4>3. QED
          BY <4>1, <4>2
      <3>3. last * c.wordPerPage \in Nat
        BY <2>1, <2>5
      <3>4. PageEnd(At(c, last)) = n
        <4> DEFINE first == last * c.wordPerPage
                   size == c.wordPerPage
        <4>1. /\ n \in Nat /\ first \in Nat /\ size \in Nat /\ n <= first + size
              /\ PageEnd(At(c, last)) = IF first + size <= n THEN first + size ELSE n
          BY <2>1, <3>1, <3>2, <3>3
        <4> HIDE DEF first, size
        <4>2. QED
          BY <4>1
      <3>5. Prefix(c, end) = SubSeq(c.candWords, 1, n)
        BY <3>4 DEF Prefix
      <3>6. QED
        BY <2>1, <2>2, <2>5, <3>5, SubSeqFull
    <2>7. ASSUME NEW k \in 1 .. end, after[k] # after[k - 1]
          PROVE  GoPrevPage(after[k]) = after[k - 1]
      <3> DEFINE p == Turned(c, k - 1)
      <3>1. k \in Nat \ {0} /\ k - 1 \in Nat /\ k \in 0 .. end /\ k - 1 \in 0 .. end
        BY <2>1
      <3>2. p \in Nat /\ Turned(c, k) = IF count # 0 /\ p + 1 < count THEN p + 1 ELSE p
        BY <3>1, TurnedFacts DEF count
      <3>3. after[k - 1] = At(c, p) /\ after[k] = At(c, Turned(c, k))
        BY <2>2, <3>1
      <3> HIDE DEF p
      <3>4. count # 0 /\ after[k] = At(c, p + 1)
        BY <2>7, <3>2, <3>3
      <3>5. /\ At(c, p + 1).currentPage = p + 1 /\ PageCount(At(c, p + 1)) = count
            /\ [At(c, p + 1) EXCEPT !.currentPage = p] = At(c, p)
        BY <3>2, AtFacts, p + 1 \in Nat DEF count
      <3>6. (p + 1) - 1 = p /\ p + 1 > 0
        BY <3>2
      <3>7. [At(c, p + 1) EXCEPT !.currentPage = @ - 1] = [At(c, p + 1) EXCEPT !.currentPage = p]
        BY <3>5, <3>6
      <3>8. GoPrevPage(At(c, p + 1)) = At(c, p)
        BY <3>4, <3>5, <3>6, <3>7 DEF GoPrevPage, HasPrev
      <3>9. QED
        BY <3>3, <3>4, <3>8
    <2>8. HasNext(after[end]) = FALSE
      <3>1. after[end] = At(c, last)
        BY <2>2, <2>5
      <3>2. At(c, last).currentPage = last /\ PageCount(At(c, last)) = count
        BY <2>5, AtFacts DEF count
      <3>3. ~(last + 1 < count)
        BY <2>3, <2>4
      <3>4. QED
        BY <3>1, <3>2, <3>3 DEF HasNext
    <2>9. QED
      BY <2>6, <2>7, <2>8 DEF PagingCoversList, after, n
  <1>2. QED
    BY <1>1, TypeCorrect, PTL

-----------------------------------------------------------------------------
(* The size of the page on display. *)

\* The last page is the one that ends with the list, and what is left on it.
LEMMA LastPage ==
    ASSUME NEW n \in Nat, n > 0, NEW w \in 1 .. 10, NEW p \in Nat, p * w < n
    PROVE  /\ p + 1 = (n + w - 1) \div w <=> n <= p * w + w
           /\ n <= p * w + w => n - p * w = IF n % w = 0 THEN w ELSE n % w
  <1>1. w = 1 \/ w = 2 \/ w = 3 \/ w = 4 \/ w = 5 \/ w = 6 \/ w = 7 \/ w = 8
          \/ w = 9 \/ w = 10
    OBVIOUS
  <1>2. CASE w = 1  BY <1>2
  <1>3. CASE w = 2  BY <1>3
  <1>4. CASE w = 3  BY <1>4
  <1>5. CASE w = 4  BY <1>5
  <1>6. CASE w = 5  BY <1>6
  <1>7. CASE w = 6  BY <1>7
  <1>8. CASE w = 7  BY <1>8
  <1>9. CASE w = 8  BY <1>9
  <1>10. CASE w = 9  BY <1>10
  <1>11. CASE w = 10  BY <1>11
  <1>12. QED
    BY <1>1, <1>2, <1>3, <1>4, <1>5, <1>6, <1>7, <1>8, <1>9, <1>10, <1>11

\* GetCurrentWindowSize counts what the walk yields.
LEMMA InsideHasSize ==
    ASSUME NEW c \in CandidateWordList, PageInside(c)
    PROVE  GetCurrentWindowSize(c) = Len(Walk(c))
  <1> DEFINE size == c.wordPerPage
             page == c.currentPage
             first == First(c)
             n == ListSize(c)
             rest == n % size
  <1>1. size \in 1 .. 10 /\ first \in Nat /\ n \in Nat /\ page \in Nat
    BY ListFields
  <1>2. first = page * size
    BY DEF First
  <1>3. Len(Walk(c)) = IF first < n THEN PageEnd(c) - first ELSE 0
    BY WalkWords
  <1>4. PageEnd(c) = IF first + size <= n THEN first + size ELSE n
    BY DEF PageEnd
  <1>5. IF n = 0 THEN page = 0 ELSE first < n
    BY DEF PageInside
  <1>6. /\ n = 0 => GetCurrentWindowSize(c) = 0
        /\ n # 0 /\ page + 1 = (n + size - 1) \div size /\ rest # 0
             => GetCurrentWindowSize(c) = rest
        /\ n # 0 /\ ~(page + 1 = (n + size - 1) \div size /\ rest # 0)
             => GetCurrentWindowSize(c) = size
    BY DEF GetCurrentWindowSize, PageCount
  <1> HIDE DEF size, page, first, n, rest
  <1>7. CASE n = 0
    <2>1. ~(first < n)
      BY <1>1, <1>7
    <2>2. QED
      BY <1>3, <1>6, <1>7, <2>1
  <1>8. CASE n # 0
    <2>1. first < n /\ n > 0
      BY <1>1, <1>5, <1>8
    <2>2. /\ page + 1 = (n + size - 1) \div size <=> n <= first + size
          /\ n <= first + size => n - first = IF rest = 0 THEN size ELSE rest
      BY <1>1, <1>2, <2>1, LastPage DEF rest
    <2>3. CASE n <= first + size
      <3>1. PageEnd(c) = n
        BY <1>1, <1>4, <2>3
      <3>2. QED
        BY <1>3, <1>6, <1>8, <2>1, <2>2, <2>3, <3>1
    <2>4. CASE ~(n <= first + size)
      <3>1. PageEnd(c) = first + size /\ (first + size) - first = size
        BY <1>1, <1>4, <2>4
      <3>2. QED
        BY <1>3, <1>6, <1>8, <2>1, <2>2, <2>4, <3>1
    <2>5. QED
      BY <2>3, <2>4
  <1>9. QED
    BY <1>7, <1>8

\* FcitxCandidateWordGetCurrentWindow returns a word whenever there is one and
\* FcitxCandidateWordGetCurrentWindowSize counts those drawn, for every number of
\* words and every page size, as long as no addon edits the list and no reload
\* changes the page size under the words on display.
THEOREM CurrentPageCorrect ==
    ASSUME ~AddonsEdit, ~ReloadWhileShown
    PROVE  Spec => []CurrentPageExists
  <1> DEFINE IInv == TypeOK /\ PageInside(candList)
  <1>1. Init => IInv
    BY InitType, InitInside
  <1>2. IInv /\ [Next]_candList => IInv'
    <2>1. CASE Next
      BY <2>1, NextType, NextInside
    <2>2. CASE UNCHANGED candList
      BY <2>2 DEF TypeOK, PageInside, ListSize, First
    <2>3. QED
      BY <2>1, <2>2
  <1>3. IInv => CurrentPageExists
    BY InsideHasWindow, InsideHasSize DEF TypeOK, CurrentWindowExists, CurrentPageExists
  <1>4. QED
    BY <1>1, <1>2, <1>3, PTL DEF Spec
=============================================================================
