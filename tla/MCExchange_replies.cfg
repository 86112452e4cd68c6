SPECIFICATION Spec
CONSTANTS
  NULL = NULL
  AppSecret = "app"
  Accounts <- MCAccounts
  Spares <- MCSpares
  Chats <- MCChats
  Mailers <- MCMailers
  Window = 1
  MaxDelay = 1
  MaxTime = 3
  MaxWritten = 2
  MaxReplies = 1
CHECK_DEADLOCK FALSE
INVARIANTS
    OnlyPeopleAreAnswered
    AnsweredByWhomTheyWroteTo
    FreeformInsideWindow
    ThreadKeepsItsRoot
