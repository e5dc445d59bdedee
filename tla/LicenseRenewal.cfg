CONSTANTS
  u1 = u1
  Users = {u1}
  Fees = {1, 2}
  Extensions = {2}
  Windows <- TwoWindows
  Funds = 3
  MaxTime = 3
  Wishes = {1}
  Installs = {1, 2, 3}
  Licenses = {1, 2, 3, 4}
  Renewals = {1, 2}
  NoContract = NoContract
SPECIFICATION Spec
INVARIANTS TypeOK NumbersUniqueInInstall FeesBuyTime FeesPaidOnce
CHECK_DEADLOCK FALSE
