SPECIFICATION Spec
CONSTANTS
  Node = {"implement"}
  MaxAttempts = 1
  MaxRetries = 2
  BaseDelay = 1
  Objects <- MCObjects
  Texts <- MCTexts
INVARIANTS
  RequestsAccounted
  GivesUpLate
  AnswerIsFound
CHECK_DEADLOCK FALSE
