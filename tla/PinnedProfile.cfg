CONSTANTS
  l1 = l1  l2 = l2  b1 = b1
  Lenders = {l1}
  Borrowers = {b1}
  Amounts = {10}
  Rates = {10}
  Windows <- OneWindow
  Funds = 22
  MaxTime = 2
  JointSubmissions = {}
  Profiles = {1, 2, 3}
  Requests = {1, 2}
  Offers = {1, 2}
  Intents = {}
  Principals = {}
  Loans = {1, 2}
  Repayments = {}
  NoContract = NoContract
SPECIFICATION Spec
INVARIANT ActiveLoanCanClose
CHECK_DEADLOCK FALSE
