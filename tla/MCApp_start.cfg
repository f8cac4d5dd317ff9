SPECIFICATION AppSpec
CONSTANTS
  LastRow = 2
  PageSize = 1
  Removed <- RemovedFields
  MaxChanges = 2
  MaxDeaths = 1
  Texts <- SomeTexts
  States <- MessageStates
  Lives <- ThreeLives
  Pages <- LoadedPages
  MaxTurns = 7
INVARIANTS Migrated AnswersFit SentAsComposed ShownAlike ListShowsKept
PROPERTIES NothingUndone AnswersTrue StartupEnds
CHECK_DEADLOCK FALSE
