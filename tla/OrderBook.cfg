CONSTANTS
  l1 = l1  b1 = b1
  Lenders = {l1}
  Borrowers = {b1}
  BidAmounts = {0, 3}
  AskAmounts = {2}
  Rates = {4, 6}
  Durations = {30, 60}
  PostedOrders = 4
  Bids = {1, 2, 3, 4}
  Asks = {1, 2}
  Proposals = {1, 2}
  NoContract = NoContract
SPECIFICATION BookSpec
INVARIANTS TypeOK LiquidityConserved OrdersMatchedOnce ProposalsWithinLimits
INVARIANTS DepthAddsUp SpreadTellsCrossing BadgeTellsFills OrdersStayInView
CHECK_DEADLOCK FALSE
