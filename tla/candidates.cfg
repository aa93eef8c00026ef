SPECIFICATION Spec
CONSTANTS
  Words = {1,2,3,4,5}
  NoWord = NoWord
  PageSizes = {2,3,11}
  MaxWords = 5
  AddonsEdit = TRUE
  ReloadWhileShown = TRUE
INVARIANTS TypeOK DrawnIsPage ChoosesWhatIsDrawn PagingCoversList
