CONSTANTS
  u1 = u1
  Users = {u1}
  Fees = {1}
  Extensions = {2}
  Windows <- OneWindow
  Funds = 3
  MaxTime = 1
  Wishes = {1, 2}
  Installs = {1, 2, 3, 4}
  Licenses = {1, 2, 3}
  Renewals = {1}
  NoContract = NoContract
SPECIFICATION Spec
INVARIANT RenewsItsLicense
CHECK_DEADLOCK FALSE
