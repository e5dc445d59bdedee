--------------------------- MODULE OrderBookView ----------------------------
(***************************************************************************)
(* The order book as people see it: the tiers OrderBookService aggregates  *)
(* it into, the figures and rows order-book.tsx and market-depth.tsx make  *)
(* of them, and the orders and proposals a party finds on its own screens. *)
(* Everything here is a function of the book; how a screen comes by the    *)
(* book it shows, and how old that is, is the matter of BookScreen.        *)
(*                                                                         *)
(* The service calls the lenders' side asks and the borrowers' side bids,  *)
(* the opposite of the contracts' names.                                   *)
(***************************************************************************)
EXTENDS MarketMaker, FiniteSetsExt, SequencesExt

OpenBids == {b \in Created(bid) : IsOpen(bid, b)}
OpenAsks == {k \in Created(ask) : IsOpen(ask, k)}

-----------------------------------------------------------------------------
(* buildOrderBook *)

\* One tier for every rate and duration; the tiers of one rate come in any order.
Tiers(orders, terms, amount) ==
  {[rate |-> key[1], duration |-> key[2],
    totalAmount |-> SumFunction([o \in {o \in orders : terms[o] = key} |-> amount[o]]),
    orderCount |-> Cardinality({o \in orders : terms[o] = key})]
     : key \in {terms[o] : o \in orders}}

\* Bug: what the bid was posted with, filled or not.
AskTiers_Posted(bids) ==
  Tiers(bids, [b \in bids |-> <<bid[b].rate, bid[b].maxDuration>>], [b \in bids |-> bid[b].amount])

AskTiers(bids) ==
  Tiers(bids, [b \in bids |-> <<bid[b].rate, bid[b].maxDuration>>], [b \in bids |-> bid[b].remaining])

BidTiers(asks) ==
  Tiers(asks, [k \in asks |-> <<ask[k].rate, ask[k].duration>>], [k \in asks |-> ask[k].amount])

\* Sorted by rate: the lowest ask and the highest bid come first.
Lowest(tiers) == {t.rate : t \in {t \in tiers : \A u \in tiers : t.rate <= u.rate}}
Highest(tiers) == {t.rate : t \in {t \in tiers : \A u \in tiers : t.rate >= u.rate}}

\* The lowest ask over the highest bid; none when a side is empty.
Spread(asks, bids) == {low - high : low \in Lowest(asks), high \in Highest(bids)}

\* Bug: the bids are sorted as the asks are, so the lowest of them comes first.
BuildOrderBook_SortedAlike(bids, asks) ==
  [asks |-> AskTiers(bids), bids |-> BidTiers(asks),
   spread |-> {low - first : low \in Lowest(AskTiers(bids)), first \in Lowest(BidTiers(asks))}]

\* Of the contracts the two queries returned.
BuildOrderBook(bids, asks) ==
  LET askTiers == AskTiers(bids)
      bidTiers == BidTiers(asks)
  IN [asks |-> askTiers, bids |-> bidTiers, spread |-> Spread(askTiers, bidTiers)]

-----------------------------------------------------------------------------
(* order-book.tsx and market-depth.tsx, of a view buildOrderBook answered *)

Volume(tiers) == SumFunction([t \in tiers |-> t.totalAmount])
Orders(tiers) == SumFunction([t \in tiers |-> t.orderCount])

\* The four figures above the table; both pages show the same.
SummaryStats(view) ==
  [askVolume |-> Volume(view.asks), bidVolume |-> Volume(view.bids),
   spread |-> view.spread, orders |-> Orders(view.asks) + Orders(view.bids)]

\* Both halves are shown by falling rate, the tiers of one rate in any order.  The bar
\* behind each row is left out.
OrderBookHalf(tiers) ==
  {rows \in SetToSeqs(tiers) : \A i, j \in DOMAIN rows : i < j => rows[i].rate >= rows[j].rate}

\* The asks are above the line with the spread; each of these tables may be shown.
BookTable(view) ==
  {[above |-> above, line |-> view.spread, below |-> below] :
     above \in OrderBookHalf(view.asks), below \in OrderBookHalf(view.bids)}

\* The chart has one column per rate; its bar is the first tier found at that rate,
\* so it is any one of them.
ChartRates(view) == {t.rate : t \in view.asks \cup view.bids}

ChartBars(tiers, rate) ==
  LET found == {t.totalAmount : t \in {t \in tiers : t.rate = rate}} IN
  IF found = {} THEN {0} ELSE found

\* The chart's columns: what the ask bar and the bid bar of a rate may show.
DepthChart(view) ==
  [rate \in ChartRates(view) |-> <<ChartBars(view.asks, rate), ChartBars(view.bids, rate)>>]

\* The background of each row, in percent of its width: the deepest tier fills it.
OrderBookSide(tiers) ==
  LET maxAmount == Max({t.totalAmount : t \in tiers} \cup {1})
  IN [t \in tiers |-> (t.totalAmount * 100) \div maxAmount]

MarketDepth(view) ==
  [stats |-> SummaryStats(view), chart |-> DepthChart(view),
   asks |-> [orders |-> Orders(view.asks), rows |-> OrderBookSide(view.asks)],
   bids |-> [orders |-> Orders(view.bids), rows |-> OrderBookSide(view.bids)]]

-----------------------------------------------------------------------------
(* A party's own screens *)

\* Bug: the comparison includes equality.
BidStatus_Inclusive(b) == CASE bid[b].remaining <= 0             -> "filled"
                            [] bid[b].remaining <= bid[b].amount -> "partial"
                            [] OTHER                             -> "active"

\* mapLenderBid's badge.
BidStatus(b) == CASE bid[b].remaining <= 0            -> "filled"
                  [] bid[b].remaining < bid[b].amount -> "partial"
                  [] OTHER                            -> "active"

\* The lists of the market API hold everybody's orders; the screens keep the party's.
MyLiquidityBids(p) == {b \in OpenBids : bid[b].lender = p}
MyOrderBookAsks(p) == {k \in OpenAsks : ask[k].borrower = p}

ListMatchedProposals(p) ==
  {q \in Created(proposal) : IsOpen(proposal, q) /\ p \in {proposal[q].lender, proposal[q].borrower}}

\* Bug: the lender's screen keeps what the party borrows.
LenderProposals_Borrower(p) == {q \in ListMatchedProposals(p) : proposal[q].borrower = p}

LenderProposals(p) == {q \in ListMatchedProposals(p) : proposal[q].lender = p}
BorrowerProposals(p) == {q \in ListMatchedProposals(p) : proposal[q].borrower = p}

-----------------------------------------------------------------------------
(***************************************************************************)
(* Safety.                                                                 *)
(***************************************************************************)

CurrentView == BuildOrderBook(OpenBids, OpenAsks)

\* The depth on the screen is the market's: what lenders posted less what was proposed
\* from it and what they took back, and what borrowers posted and neither cancelled nor
\* had matched.  No order is counted in two tiers or in none, whatever rates, durations
\* and partial fills meet.  A bar of the chart shows one tier of its rate, so no more
\* than there is at that rate (unless somebody posted less than nothing, which hides what
\* others posted), and the rows' bars keep within the table and grow with the amounts.
DepthAddsUp ==
  LET view  == CurrentView
      depth == MarketDepth(view)
      stats == depth.stats
  IN
  /\ stats.askVolume =
       SumFunction([b \in {b \in Created(bid) : bid[b].root = b} |-> bid[b].amount])
         - SumFunction([q \in Created(proposal) |-> proposal[q].principal])
         - SumFunction([b \in {b \in Created(bid) : bid[b].state = "cancelled"} |-> bid[b].remaining])
  /\ stats.bidVolume =
       SumFunction([k \in Created(ask) |-> ask[k].amount])
         - SumFunction([k \in {k \in Created(ask) : ask[k].state # "open"} |-> ask[k].amount])
  /\ stats.orders = Cardinality(OpenBids) + Cardinality(OpenAsks)
  /\ depth.asks.orders = Cardinality(OpenBids) /\ depth.bids.orders = Cardinality(OpenAsks)
  /\ \A rate \in DOMAIN depth.chart, i \in 1..2 :
       LET side == {t \in <<view.asks, view.bids>>[i] : t.rate = rate}
       IN (\A t \in side : t.totalAmount >= 0) =>
            \A bar \in depth.chart[rate][i] : bar <= Volume(side)
  /\ \A rows \in {depth.asks.rows, depth.bids.rows} : \A t, u \in DOMAIN rows :
       rows[t] <= 100 /\ (t.totalAmount <= u.totalAmount => rows[t] <= rows[u])

\* While the spread shown is positive the engine has nothing to match, and the two rows
\* that enclose it are the ones it is the difference of.
SpreadTellsCrossing ==
  LET view == CurrentView IN
  /\ (\A s \in view.spread : s > 0) => \A b \in OpenBids, k \in OpenAsks : ~Crosses(b, k)
  /\ \A table \in BookTable(view) :
       table.line = IF table.above = <<>> \/ table.below = <<>> THEN {}
                    ELSE {table.above[Len(table.above)].rate - table.below[1].rate}

\* The badge of a bid on the book tells its past: "partial" when something was proposed
\* from it and "active" when nothing was; "filled" only if it was posted with nothing, or
\* with less, which the API does not refuse.
BadgeTellsFills ==
  \A b \in OpenBids :
    LET badge == BidStatus(b) IN
    /\ badge = "partial" => ProposedFrom(bid[b].root) > 0
    /\ badge = "active" => ProposedFrom(bid[b].root) = 0
    /\ badge = "filled" => bid[b].amount <= 0

\* An order does not slip off the screens: until its owner cancels it, the owner sees
\* it among his orders, or sees the proposal it was matched into, unless that was
\* accepted, rejected or withdrawn.
OrdersStayInView ==
  /\ \A b \in Created(bid) : bid[b].state # "cancelled" =>
       \/ b \in MyLiquidityBids(bid[b].lender)
       \/ \E q \in Created(proposal) : proposal[q].bid = b /\
            (q \in LenderProposals(bid[b].lender) \/ ~IsOpen(proposal, q))
  /\ \A k \in Created(ask) : ask[k].state # "cancelled" =>
       \/ k \in MyOrderBookAsks(ask[k].borrower)
       \/ \E q \in Created(proposal) : proposal[q].ask = k /\
            (q \in BorrowerProposals(ask[k].borrower) \/ ~IsOpen(proposal, q))
=============================================================================
