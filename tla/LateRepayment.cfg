CONSTANTS
  l1 = l1  l2 = l2  b1 = b1
  Lenders = {l1}
  Borrowers = {b1}
  Amounts = {10}
  Rates = {10}
  Windows <- OneWindow
  Funds = 22
  MaxTime = 2
  JointSubmissions = {}
  Profiles = {1, 2}
  Requests = {1}
  Offers = {1}
  Intents = {}
  Principals = {}
  Loans = {1}
  Repayments = {1, 2}
  NoContract = NoContract
SPECIFICATION Spec
PROPERTY SettlesActiveLoan
CHECK_DEADLOCK FALSE
