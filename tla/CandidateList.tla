---------------------------- MODULE CandidateList ----------------------------
(***************************************************************************)
(* The list of candidate words (candidate.c): words, the current page and  *)
(* the page size.  The functions are operators on the list; words count    *)
(* from 0 as in the code, a missing word is NoWord.                        *)
(*                                                                         *)
(* The state machine is the list in the hands of its users: an input       *)
(* method fills it, keys and the panel page through it, the configuration  *)
(* is loaded again, an addon inserts and removes words.                    *)
(***************************************************************************)
EXTENDS Integers, Sequences, FiniteSets

CONSTANTS
    Words,          \* candidate words
    NoWord,         \* the NULL word
    PageSizes,      \* values of config->iMaxCandWord
    MaxWords,       \* bound on the length of the list
    AddonsEdit,     \* TRUE: addons insert, remove and focus words
    ReloadWhileShown \* TRUE: the configuration is loaded while words are shown

ASSUME PageSizesAssumption == PageSizes # {} /\ PageSizes \subseteq Int
ASSUME BoundAssumption == MaxWords \in Nat
\* An input method finds the words 1, 2, ...
ASSUME WordsAssumption == NoWord \notin Words /\ 1 .. MaxWords \subseteq Words
ASSUME UsersAssumption == AddonsEdit \in BOOLEAN /\ ReloadWhileShown \in BOOLEAN

VARIABLE candList

\* Mutant: the page size is taken as configured.
PageSizeUnchecked(size) == size

\* FcitxCandidateWordSetPageSize replaces a size outside 1 .. 10 by 5.
PageSize(size) == IF size \in 1 .. 10 THEN size ELSE 5

CandidateWordList ==
    [candWords : Seq(Words), currentPage : Nat, wordPerPage : 1 .. 10]

ListSize(c) == Len(c.candWords)

\* utarray_eltptr: the word at an index, if it is inside the array.
WordAt(c, index) ==
    IF index \in 0 .. ListSize(c) - 1 THEN c.candWords[index + 1] ELSE NoWord

First(c) == c.currentPage * c.wordPerPage

\* Mutant: a last page that is not full is not counted.
PageCountFloor(c) == ListSize(c) \div c.wordPerPage

PageCount(c) == (ListSize(c) + c.wordPerPage - 1) \div c.wordPerPage

HasPrev(c) == c.currentPage > 0

\* Mutant: the page after the last one exists.
HasNextOffByOne(c) == c.currentPage < PageCount(c)

HasNext(c) == c.currentPage + 1 < PageCount(c)

GoPrevPage(c) ==
    IF PageCount(c) # 0 /\ HasPrev(c)
    THEN [c EXCEPT !.currentPage = @ - 1] ELSE c

GoNextPage(c) ==
    IF PageCount(c) # 0 /\ HasNext(c)
    THEN [c EXCEPT !.currentPage = @ + 1] ELSE c

\* Mutant: a choice below the page reaches the words of the next one.
GetByIndexAnywhere(c, index) == WordAt(c, First(c) + index)

GetByIndex(c, index) ==
    IF 0 <= index /\ index < c.wordPerPage THEN WordAt(c, First(c) + index)
    ELSE NoWord

GetCurrentWindow(c) == WordAt(c, First(c))

\* Mutant: the walk over the window does not stop at the end of the page.
GetCurrentWindowNextUnbound(c, index) ==
    IF index + 1 < ListSize(c) THEN index + 1 ELSE -1

\* The index after "index" in the current window, or -1 at its end.
GetCurrentWindowNext(c, index) ==
    IF index + 1 < ListSize(c) /\ index + 1 - First(c) \in 0 .. c.wordPerPage - 1
    THEN index + 1 ELSE -1

GetCurrentWindowSize(c) ==
    LET rest == ListSize(c) % c.wordPerPage
    IN  CASE ListSize(c) = 0 -> 0
          [] ListSize(c) # 0 /\ c.currentPage + 1 = PageCount(c) /\ rest # 0 -> rest
          [] OTHER -> c.wordPerPage

Reset(c) == [c EXCEPT !.candWords = <<>>, !.currentPage = 0]

\* utarray_resize also lengthens with cleared words; its callers only shorten.
Resize(c, length) == [c EXCEPT !.candWords = SubSeq(@, 1, length)]

SetFocus(c, index) ==
    IF index \in 0 .. ListSize(c) - 1
    THEN [c EXCEPT !.currentPage = index \div c.wordPerPage] ELSE c

SetPageSize(c, size) == [c EXCEPT !.wordPerPage = PageSize(size)]

Append1(c, word) == [c EXCEPT !.candWords = Append(@, word)]

Insert(c, word, position) ==
    [c EXCEPT !.candWords = SubSeq(@, 1, position) \o <<word>>
                              \o SubSeq(@, position + 1, Len(@))]

Remove(c, index) ==
    [c EXCEPT !.candWords = SubSeq(@, 1, index) \o SubSeq(@, index + 2, Len(@))]

-----------------------------------------------------------------------------
(* The users of the list. *)

NewList == [candWords |-> <<>>, currentPage |-> 0, wordPerPage |-> 5]

Init == \E size \in PageSizes : candList = SetPageSize(NewList, size)

\* GetCandWords of an input method, after FcitxInstanceCleanInputWindow: the
\* page size first, then the words.  "found" are the words it has.
Fill(c, size, found) ==
    [SetPageSize(Reset(c), size) EXCEPT !.candWords = found]

GetCandWords ==
    \E size \in PageSizes, n \in 0 .. MaxWords :
      candList' = Fill(candList, size, [i \in 1 .. n |-> i])

\* The update hooks of modules append to what the input method found.
AppendWord ==
    /\ ListSize(candList) < MaxWords
    /\ \E word \in Words \ {candList.candWords[i] : i \in DOMAIN candList.candWords} :
         candList' = Append1(candList, word)

PrevPageKey == candList' = GoPrevPage(candList)

NextPageKey == candList' = GoNextPage(candList)

ResetInput == candList' = Reset(candList)

\* FcitxInstanceReloadConfig: a key or fcitx-remote, at any time.
ReloadConfig ==
    /\ ReloadWhileShown \/ ListSize(candList) = 0
    /\ \E size \in PageSizes : candList' = SetPageSize(candList, size)

Edit ==
    /\ AddonsEdit
    /\ \/ \E word \in Words \ {candList.candWords[i] : i \in DOMAIN candList.candWords},
             position \in 0 .. ListSize(candList) :
            /\ ListSize(candList) < MaxWords
            /\ candList' = Insert(candList, word, position)
       \/ \E index \in 0 .. ListSize(candList) - 1 :
            \/ candList' = Remove(candList, index)
            \/ candList' = SetFocus(candList, index)
            \/ candList' = Resize(candList, index)

Next ==
    \/ GetCandWords
    \/ AppendWord
    \/ PrevPageKey
    \/ NextPageKey
    \/ ResetInput
    \/ ReloadConfig
    \/ Edit

Spec == Init /\ [][Next]_candList

-----------------------------------------------------------------------------
(* Properties. *)

TypeOK == candList \in CandidateWordList

\* The words a user interface walks over: from GetCurrentWindow, by
\* GetCurrentWindowNext.
WalkFrom(c) ==
    LET from[i \in -1 .. ListSize(c) - 1] ==
          IF i = -1 THEN <<>>
          ELSE <<WordAt(c, i)>> \o from[GetCurrentWindowNext(c, i)]
    IN  from

Walk(c) == IF GetCurrentWindow(c) = NoWord THEN <<>> ELSE WalkFrom(c)[First(c)]

\* The places of the words of page p.
Page(c, p) == {i \in 1 .. ListSize(c) : (i - 1) \div c.wordPerPage = p}

\* What is drawn (ui.c walks over the window) is the current page, all of it and
\* in order, whatever was inserted, removed or resized before.
DrawnIsPage ==
    LET page == Page(candList, candList.currentPage)
    IN  /\ Len(Walk(candList)) = Cardinality(page)
        /\ \A i \in page :
             Walk(candList)[Cardinality({j \in page : j <= i})] = candList.candWords[i]

\* The word a key or click chooses by its index is the one drawn there; an
\* index nothing is drawn at chooses nothing.
ChoosesWhatIsDrawn ==
    \A index \in -1 .. 10 :
      GetByIndex(candList, index) =
        IF index \in 0 .. Len(Walk(candList)) - 1 THEN Walk(candList)[index + 1]
        ELSE NoWord

\* The list after n page keys, from the first page on.
PagesForward(c) ==
    LET after[n \in 0 .. ListSize(c) + 1] ==
          IF n = 0 THEN [c EXCEPT !.currentPage = 0] ELSE GoNextPage(after[n - 1])
    IN  after

\* All that is drawn meanwhile, one page after the other.
DrawnForward(c) ==
    LET after == PagesForward(c)
        drawn[n \in 0 .. ListSize(c) + 1] ==
          IF n = 0 THEN Walk(after[0])
          ELSE IF after[n] = after[n - 1] THEN drawn[n - 1]
          ELSE drawn[n - 1] \o Walk(after[n])
    IN  drawn

\* Paging forward from the first page draws every word once and in order,
\* and stops there; every page can be left again by paging back.
PagingCoversList ==
    LET after == PagesForward(candList)
        end == ListSize(candList) + 1
    IN  /\ DrawnForward(candList)[end] = candList.candWords
        /\ \A n \in 1 .. end : after[n] # after[n - 1] => GoPrevPage(after[n]) = after[n - 1]
        /\ HasNext(after[end]) = FALSE

\* candidate.h, FcitxCandidateWordGetCurrentWindow: "first candidate word of
\* current page".  A list with words has a first word on its current page.
CurrentWindowExists ==
    ListSize(candList) > 0 => GetCurrentWindow(candList) # NoWord

\* While there are words there is a current page to draw, and its size is
\* what FcitxCandidateWordGetCurrentWindowSize says; input methods read the
\* first word of the window without asking.
CurrentPageExists ==
    /\ CurrentWindowExists
    /\ GetCurrentWindowSize(candList) = Len(Walk(candList))
=============================================================================
