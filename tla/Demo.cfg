CONSTANTS
  LedgerRequests <- SomeRequests
  LedgerOffers <- SomeOffers
  LedgerLoans <- SomeLoans
  Answers <- SomeAnswers
  Jobs = {1, 2}
  First = 0
  None = None
SPECIFICATION Spec
INVARIANTS DemoTypeOK MockExplained SubmittedRows DemoBookAddsUp
PROPERTY FormsFinish
