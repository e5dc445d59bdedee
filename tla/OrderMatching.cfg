CONSTANTS
  l1 = l1  b1 = b1  t1 = t1
  Lenders = {l1}
  Borrowers = {b1}
  BidAmounts = {2}
  AskAmounts = {1}
  Rates = {4, 6}
  Durations = {30}
  PostedOrders = 3
  Bids = {1, 2, 3}
  Asks = {1, 2}
  Proposals = {1, 2}
  Triggered = {t1}
  MaxFaults = 1
  NoContract = NoContract
SPECIFICATION FairSpec
INVARIANTS ServiceTypeOK
PROPERTY CycleClearsItsReads BestPrice CrossingResolved
CHECK_DEADLOCK FALSE
