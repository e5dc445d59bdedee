CONSTANTS
  l1 = l1  b1 = b1
  Lenders = {l1}
  Borrowers = {b1}
  BidAmounts = {2}
  AskAmounts = {1}
  Rates = {4, 6}
  Durations = {30}
  PostedOrders = 4
  Bids = {1, 2, 3, 4}
  Asks = {1, 2}
  Proposals = {1, 2}
  NoContract = NoContract
SPECIFICATION Spec
INVARIANT BothPartiesAccept
CHECK_DEADLOCK FALSE
