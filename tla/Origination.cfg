CONSTANTS
  l1 = l1  l2 = l2  b1 = b1
  Lenders = {l1, l2}
  Borrowers = {b1}
  Amounts = {10, 20}
  Rates = {10}
  Windows <- AllWindows
  Funds = 20
  MaxTime = 2
  JointSubmissions <- LenderAndBorrower
  Profiles = {1}
  Requests = {1, 2}
  Offers = {1, 2}
  Intents = {1, 2}
  Principals = {1, 2}
  Loans = {1, 2}
  Repayments = {}
  NoContract = NoContract
SPECIFICATION Spec
INVARIANTS TypeOK EachRequestFundedOnce LoanTermsAgreed PrincipalMovesWithLoan
CHECK_DEADLOCK FALSE
