CONSTANTS
  l1 = l1  l2 = l2  b1 = b1
  Lenders = {l1}
  Borrowers = {b1}
  Amounts = {10}
  Rates = {10}
  Windows <- OneWindow
  Funds = 10
  MaxTime = 2
  JointSubmissions <- LenderAndBorrower
  Profiles = {1, 2, 3}
  Requests = {1, 2}
  Offers = {1, 2}
  Intents = {1}
  Principals = {1}
  Loans = {1, 2}
  Repayments = {1}
  NoContract = NoContract
SPECIFICATION Spec
INVARIANTS HoldingsExplained CreditMatchesClosures ScoresAccounted RefusalsExplained
PROPERTY ImplementsAgreement WorkIsOffered
CHECK_DEADLOCK FALSE
