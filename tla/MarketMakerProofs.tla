------------------------- MODULE MarketMakerProofs --------------------------
(***************************************************************************)
(* Proofs about MarketMaker, for every set of parties, amounts, rates,     *)
(* durations and contract ids.                                             *)
(***************************************************************************)
EXTENDS OrderBookView, Sums

\* Every proposal was made from orders that exist or have existed.
ProposalsRefer ==
  \A p \in Created(proposal) :
    proposal[p].bid \in Created(bid) /\ proposal[p].ask \in Created(ask)

\* The proposals made from an order.
MadeFromBid(b) == {p \in Created(proposal) : proposal[p].bid = b}
MadeFromAsk(k) == {p \in Created(proposal) : proposal[p].ask = k}

BookInv == /\ TypeOK
           /\ ProposalsRefer
           /\ OrdersMatchedOnce
           /\ ProposalsWithinLimits

-----------------------------------------------------------------------------
(* What every step keeps of the orders: all but their state. *)

BidsKept ==
  \A b \in Created(bid) :
    /\ b \in Created(bid')
    /\ bid'[b].lender = bid[b].lender /\ bid'[b].amount = bid[b].amount
    /\ bid'[b].remaining = bid[b].remaining /\ bid'[b].root = bid[b].root
    /\ bid'[b].rate = bid[b].rate /\ bid'[b].maxDuration = bid[b].maxDuration

AsksKept ==
  \A k \in Created(ask) :
    /\ k \in Created(ask')
    /\ ask'[k].borrower = ask[k].borrower /\ ask'[k].amount = ask[k].amount
    /\ ask'[k].rate = ask[k].rate /\ ask'[k].duration = ask[k].duration

\* A proposal that is not new is an old one, in whatever state.
SameProposal(p) ==
  /\ p \in Created(proposal)
  /\ proposal'[p].lender = proposal[p].lender
  /\ proposal'[p].borrower = proposal[p].borrower
  /\ proposal'[p].principal = proposal[p].principal
  /\ proposal'[p].rate = proposal[p].rate
  /\ proposal'[p].duration = proposal[p].duration
  /\ proposal'[p].bid = proposal[p].bid
  /\ proposal'[p].ask = proposal[p].ask

\* An old proposal stays within the limits of its orders.
LEMMA LimitsKept ==
  ASSUME BookInv, BidsKept, AsksKept, NEW p \in Proposals, SameProposal(p)
  PROVE  /\ proposal'[p].bid \in Created(bid') /\ proposal'[p].ask \in Created(ask')
         /\ WithinLimits(proposal[p])'
BY DEF BookInv, ProposalsRefer, ProposalsWithinLimits, WithinLimits, BidsKept, AsksKept,
   SameProposal

LEMMA OrdersMatchedOnceAlt ==
  OrdersMatchedOnce <=> /\ \A b \in Created(bid) : MatchedOnce(bid, b, MadeFromBid(b))
                        /\ \A k \in Created(ask) : MatchedOnce(ask, k, MadeFromAsk(k))
BY DEF OrdersMatchedOnce, MadeFromBid, MadeFromAsk

\* MatchedOnce only reads the state of a contract.
LEMMA MatchedOnceAlike ==
  ASSUME NEW old, NEW new, NEW c, NEW made, new[c].state = old[c].state,
         MatchedOnce(old, c, made)
  PROVE  MatchedOnce(new, c, made)
BY DEF MatchedOnce

LEMMA NoOrder ==
  /\ NoContract \notin BidContract
  /\ NoContract \notin AskContract
  /\ NoContract \notin ProposalContract
BY NoOrderAssumption

\* Archiving an open bid.
LEMMA BidArchived ==
  ASSUME TypeOK, NEW b \in Bids, IsOpen(bid, b), NEW how \in {"cancelled", "matched", "reduced"}
  PROVE  /\ Archive(bid, b, how) \in [Bids -> BidContract \cup {NoContract}]
         /\ Created(Archive(bid, b, how)) = Created(bid)
         /\ \A c \in Bids : c # b => Archive(bid, b, how)[c] = bid[c]
         /\ Archive(bid, b, how)[b] = [bid[b] EXCEPT !.state = how]
         /\ bid[b] \in BidContract
         /\ [bid[b] EXCEPT !.state = how] \in BidContract
<1>1. bid[b] \in BidContract
  BY DEF TypeOK, IsOpen, Created
<1>2. [bid[b] EXCEPT !.state = how] \in BidContract
  BY <1>1 DEF BidContract
<1> QED
  BY <1>1, <1>2, NoOrder DEF TypeOK, IsOpen, Created, Archive

LEMMA AskArchived ==
  ASSUME TypeOK, NEW k \in Asks, IsOpen(ask, k), NEW how \in {"cancelled", "matched"}
  PROVE  /\ Archive(ask, k, how) \in [Asks -> AskContract \cup {NoContract}]
         /\ Created(Archive(ask, k, how)) = Created(ask)
         /\ \A c \in Asks : c # k => Archive(ask, k, how)[c] = ask[c]
         /\ Archive(ask, k, how)[k] = [ask[k] EXCEPT !.state = how]
         /\ ask[k] \in AskContract
         /\ [ask[k] EXCEPT !.state = how] \in AskContract
<1>1. ask[k] \in AskContract
  BY DEF TypeOK, IsOpen, Created
<1>2. [ask[k] EXCEPT !.state = how] \in AskContract
  BY <1>1 DEF AskContract
<1> QED
  BY <1>1, <1>2, NoOrder DEF TypeOK, IsOpen, Created, Archive

-----------------------------------------------------------------------------
(* Posting and cancelling *)

LEMMA CreateBidStep ==
  ASSUME BookInv, NEW l \in Lenders, NEW a \in BidAmounts, NEW rate \in Rates,
         NEW d \in Durations, CreateLenderBid(l, a, rate, d)
  PROVE  BookInv'
<1>1. PICK b \in Fresh(bid) :
        bid' = [bid EXCEPT ![b] = [lender |-> l, amount |-> a, remaining |-> a, rate |-> rate,
                                   maxDuration |-> d, root |-> b, state |-> "open"]]
  BY DEF CreateLenderBid
<1> DEFINE new == [lender |-> l, amount |-> a, remaining |-> a, rate |-> rate,
                   maxDuration |-> d, root |-> b, state |-> "open"]
<1>2. b \in Bids /\ bid[b] = NoContract
  BY DEF Fresh, BookInv, TypeOK
<1>3. new \in BidContract
  BY <1>2, BookAssumption DEF BidContract
<1>4. bid' \in [Bids -> BidContract \cup {NoContract}]
  BY <1>1, <1>2, <1>3 DEF BookInv, TypeOK
<1>5. /\ bid'[b] = new
      /\ \A c \in Bids : c # b => bid'[c] = bid[c]
      /\ Created(bid') = Created(bid) \cup {b}
      /\ b \notin Created(bid)
  BY <1>1, <1>2, <1>3, <1>4, NoOrder DEF Created, BookInv, TypeOK
<1>6. UNCHANGED <<ask, proposal>>
  BY DEF CreateLenderBid
<1>7. BidsKept
  BY <1>5 DEF BidsKept, Created, BookInv, TypeOK
<1>8. \A c \in Created(bid') : MatchedOnce(bid', c, {p \in Created(proposal') : proposal'[p].bid = c})
  <2>1. ASSUME NEW c \in Created(bid), NEW made
        PROVE  MatchedOnce(bid', c, made) <=> MatchedOnce(bid, c, made)
    BY <1>5 DEF MatchedOnce, Created, BookInv, TypeOK
  <2>2. {p \in Created(proposal) : proposal[p].bid = b} = {}
    BY <1>5 DEF BookInv, ProposalsRefer
  <2>3. MatchedOnce(bid', b, {})
    BY <1>5 DEF MatchedOnce
  <2> QED
    BY <1>5, <1>6, <2>1, <2>2, <2>3 DEF BookInv, OrdersMatchedOnce
<1>9. TypeOK' /\ ProposalsRefer' /\ OrdersMatchedOnce'
  BY <1>4, <1>5, <1>6, <1>8 DEF BookInv, TypeOK, ProposalsRefer, OrdersMatchedOnce
<1>10. ProposalsWithinLimits'
  BY <1>6, <1>7 DEF BookInv, ProposalsRefer, ProposalsWithinLimits, WithinLimits, BidsKept
<1> QED
  BY <1>9, <1>10 DEF BookInv

LEMMA CreateAskStep ==
  ASSUME BookInv, NEW br \in Borrowers, NEW a \in AskAmounts, NEW rate \in Rates,
         NEW d \in Durations, CreateBorrowerAsk(br, a, rate, d)
  PROVE  BookInv'
<1>1. PICK k \in Fresh(ask) :
        ask' = [ask EXCEPT ![k] = [borrower |-> br, amount |-> a, rate |-> rate,
                                   duration |-> d, state |-> "open"]]
  BY DEF CreateBorrowerAsk
<1> DEFINE new == [borrower |-> br, amount |-> a, rate |-> rate, duration |-> d,
                   state |-> "open"]
<1>2. k \in Asks /\ ask[k] = NoContract
  BY DEF Fresh, BookInv, TypeOK
<1>3. new \in AskContract
  BY DEF AskContract
<1>4. ask' \in [Asks -> AskContract \cup {NoContract}]
  BY <1>1, <1>2, <1>3 DEF BookInv, TypeOK
<1>5. /\ ask'[k] = new
      /\ \A c \in Asks : c # k => ask'[c] = ask[c]
      /\ Created(ask') = Created(ask) \cup {k}
      /\ k \notin Created(ask)
  BY <1>1, <1>2, <1>3, <1>4, NoOrder DEF Created, BookInv, TypeOK
<1>6. UNCHANGED <<bid, proposal>>
  BY DEF CreateBorrowerAsk
<1>7. AsksKept
  BY <1>5 DEF AsksKept, Created, BookInv, TypeOK
<1>8. \A c \in Created(ask') : MatchedOnce(ask', c, {p \in Created(proposal') : proposal'[p].ask = c})
  <2>1. ASSUME NEW c \in Created(ask), NEW made
        PROVE  MatchedOnce(ask', c, made) <=> MatchedOnce(ask, c, made)
    BY <1>5 DEF MatchedOnce, Created, BookInv, TypeOK
  <2>2. {p \in Created(proposal) : proposal[p].ask = k} = {}
    BY <1>5 DEF BookInv, ProposalsRefer
  <2>3. MatchedOnce(ask', k, {})
    BY <1>5 DEF MatchedOnce
  <2> QED
    BY <1>5, <1>6, <2>1, <2>2, <2>3 DEF BookInv, OrdersMatchedOnce
<1>9. TypeOK' /\ ProposalsRefer' /\ OrdersMatchedOnce'
  BY <1>4, <1>5, <1>6, <1>8 DEF BookInv, TypeOK, ProposalsRefer, OrdersMatchedOnce
<1>10. ProposalsWithinLimits'
  BY <1>6, <1>7 DEF BookInv, ProposalsRefer, ProposalsWithinLimits, WithinLimits, AsksKept
<1> QED
  BY <1>9, <1>10 DEF BookInv

LEMMA CancelBidStep ==
  ASSUME BookInv, NEW b \in Bids, LenderBid_Cancel(b)
  PROVE  BookInv'
<1>1. IsOpen(bid, b) /\ bid' = Archive(bid, b, "cancelled") /\ UNCHANGED <<ask, proposal>>
  BY DEF LenderBid_Cancel
<1>2. /\ bid' \in [Bids -> BidContract \cup {NoContract}]
      /\ Created(bid') = Created(bid)
      /\ \A c \in Bids : c # b => bid'[c] = bid[c]
      /\ bid'[b] = [bid[b] EXCEPT !.state = "cancelled"]
      /\ bid[b] \in BidContract
  BY <1>1, BidArchived DEF BookInv
<1>3. BidsKept
  BY <1>2 DEF BidsKept, Created, BidContract, BookInv, TypeOK
<1>4. ASSUME NEW c \in Created(bid), NEW made
      PROVE  MatchedOnce(bid', c, made) <=> MatchedOnce(bid, c, made)
  BY <1>1, <1>2 DEF MatchedOnce, IsOpen, Created, BidContract, BookInv, TypeOK
<1>5. OrdersMatchedOnce'
  BY <1>1, <1>2, <1>4 DEF BookInv, OrdersMatchedOnce
<1>6. TypeOK' /\ ProposalsRefer'
  BY <1>1, <1>2 DEF BookInv, TypeOK, ProposalsRefer
<1>7. ProposalsWithinLimits'
  BY <1>1, <1>3 DEF BookInv, ProposalsRefer, ProposalsWithinLimits, WithinLimits, BidsKept
<1> QED
  BY <1>5, <1>6, <1>7 DEF BookInv

LEMMA CancelAskStep ==
  ASSUME BookInv, NEW k \in Asks, BorrowerAsk_Cancel(k)
  PROVE  BookInv'
<1>1. IsOpen(ask, k) /\ ask' = Archive(ask, k, "cancelled") /\ UNCHANGED <<bid, proposal>>
  BY DEF BorrowerAsk_Cancel
<1>2. /\ ask' \in [Asks -> AskContract \cup {NoContract}]
      /\ Created(ask') = Created(ask)
      /\ \A c \in Asks : c # k => ask'[c] = ask[c]
      /\ ask'[k] = [ask[k] EXCEPT !.state = "cancelled"]
      /\ ask[k] \in AskContract
  BY <1>1, AskArchived DEF BookInv
<1>3. AsksKept
  BY <1>2 DEF AsksKept, Created, AskContract, BookInv, TypeOK
<1>4. ASSUME NEW c \in Created(ask), NEW made
      PROVE  MatchedOnce(ask', c, made) <=> MatchedOnce(ask, c, made)
  BY <1>1, <1>2 DEF MatchedOnce, IsOpen, Created, AskContract, BookInv, TypeOK
<1>5. OrdersMatchedOnce'
  BY <1>1, <1>2, <1>4 DEF BookInv, OrdersMatchedOnce
<1>6. TypeOK' /\ ProposalsRefer'
  BY <1>1, <1>2 DEF BookInv, TypeOK, ProposalsRefer
<1>7. ProposalsWithinLimits'
  BY <1>1, <1>3 DEF BookInv, ProposalsRefer, ProposalsWithinLimits, WithinLimits, AsksKept
<1> QED
  BY <1>5, <1>6, <1>7 DEF BookInv

-----------------------------------------------------------------------------
(* What becomes of a proposal *)

\* An answer changes nothing of a proposal but its state.
LEMMA AnswerKeeps ==
  ASSUME BookInv, NEW p \in Proposals,
         MatchedLoanProposal_Accept(p) \/ MatchedLoanProposal_Reject(p)
           \/ MatchedLoanProposal_Withdraw(p)
  PROVE  /\ proposal' \in [Proposals -> ProposalContract \cup {NoContract}]
         /\ Created(proposal') = Created(proposal)
         /\ \A q \in Created(proposal) : SameProposal(q)
         /\ UNCHANGED <<bid, ask>>
<1>1. PICK how \in {"accepted", "rejected", "withdrawn"} :
        IsOpen(proposal, p) /\ proposal' = Archive(proposal, p, how) /\ UNCHANGED <<bid, ask>>
  BY DEF MatchedLoanProposal_Accept, MatchedLoanProposal_Reject, MatchedLoanProposal_Withdraw
<1>2. proposal[p] \in ProposalContract
  BY <1>1 DEF IsOpen, Created, BookInv, TypeOK
<1>3. [proposal[p] EXCEPT !.state = how] \in ProposalContract
  BY <1>2 DEF ProposalContract
<1> QED
  BY <1>1, <1>2, <1>3, NoOrder
     DEF Archive, Created, IsOpen, SameProposal, ProposalContract, BookInv, TypeOK

LEMMA AnswerStep ==
  ASSUME BookInv, NEW p \in Proposals,
         MatchedLoanProposal_Accept(p) \/ MatchedLoanProposal_Reject(p)
           \/ MatchedLoanProposal_Withdraw(p)
  PROVE  BookInv'
<1>4. /\ proposal' \in [Proposals -> ProposalContract \cup {NoContract}]
      /\ Created(proposal') = Created(proposal)
      /\ \A q \in Created(proposal) : SameProposal(q)
      /\ UNCHANGED <<bid, ask>>
  BY AnswerKeeps
<1>5. TypeOK'
  BY <1>4 DEF BookInv, TypeOK
<1>6. /\ \A b : MadeFromBid(b)' = MadeFromBid(b)
      /\ \A k : MadeFromAsk(k)' = MadeFromAsk(k)
  BY <1>4 DEF SameProposal, MadeFromBid, MadeFromAsk
<1>7. OrdersMatchedOnce'
  <2>1. /\ \A b \in Created(bid) : MatchedOnce(bid, b, MadeFromBid(b))
        /\ \A k \in Created(ask) : MatchedOnce(ask, k, MadeFromAsk(k))
    BY OrdersMatchedOnceAlt DEF BookInv
  <2>2. /\ \A b \in Created(bid') : MatchedOnce(bid', b, MadeFromBid(b)')
        /\ \A k \in Created(ask') : MatchedOnce(ask', k, MadeFromAsk(k)')
    BY <1>4, <1>6, <2>1
  <2> QED
    BY <2>2 DEF OrdersMatchedOnce, MadeFromBid, MadeFromAsk
<1>8. ProposalsRefer'
  BY <1>4 DEF BookInv, ProposalsRefer, SameProposal
<1>9. ProposalsWithinLimits'
  BY <1>4 DEF BookInv, ProposalsWithinLimits, WithinLimits, SameProposal
<1> QED
  BY <1>5, <1>7, <1>8, <1>9 DEF BookInv

-----------------------------------------------------------------------------
(* Matching *)

\* What a match leaves of the bids: b is taken off the book and, when it was not
\* used up, an open successor is put on it.
LEMMA BidMatched ==
  ASSUME BookInv, NEW b \in Bids, NEW k \in Asks, MatchOrders(b, k)
  PROVE  /\ bid' \in [Bids -> BidContract \cup {NoContract}]
         /\ BidsKept
         /\ bid'[b].state \in {"matched", "reduced"}
         /\ \A c \in Created(bid') \ {b} :
              \/ c \in Created(bid) /\ bid'[c] = bid[c]
              \/ c \notin Created(bid) /\ bid'[c].state = "open"
         /\ \/ Created(bid') = Created(bid) /\ MatchedAmount(b, k) = bid[b].remaining
            \/ \E next \in Bids \ Created(bid) :
                 /\ Created(bid') = Created(bid) \cup {next}
                 /\ bid'[next].root = bid[b].root /\ bid'[next].amount = bid[b].amount
                 /\ bid'[next].remaining = bid[b].remaining - MatchedAmount(b, k)
<1>1. IsOpen(bid, b) /\ IsOpen(ask, k)
  BY DEF MatchOrders, CanMatch
<1>2. bid[b] \in BidContract /\ ask[k] \in AskContract
  BY <1>1 DEF IsOpen, Created, BookInv, TypeOK
<1> DEFINE rest == bid[b].remaining - MatchedAmount(b, k)
<1>3. rest \in Int
  <2>1. bid[b].remaining \in Int /\ ask[k].amount \in Int
    BY <1>2, BookAssumption DEF BidContract, AskContract
  <2> QED
    BY <2>1 DEF MatchedAmount
<1>4. CASE ConsumeBid(b) /\ MatchedAmount(b, k) = bid[b].remaining
  <2>1. bid' = Archive(bid, b, "matched")
    BY <1>4 DEF ConsumeBid
  <2>2. /\ bid' \in [Bids -> BidContract \cup {NoContract}]
        /\ Created(bid') = Created(bid)
        /\ \A c \in Bids : c # b => bid'[c] = bid[c]
        /\ bid'[b] = [bid[b] EXCEPT !.state = "matched"]
    BY <1>1, <2>1, BidArchived DEF BookInv
  <2>3. BidsKept
    BY <1>2, <2>2 DEF BidsKept, Created, BidContract, BookInv, TypeOK
  <2>4. bid'[b].state = "matched"
    BY <1>2, <2>2 DEF BidContract
  <2> QED
    BY <1>4, <2>2, <2>3, <2>4 DEF Created, BookInv, TypeOK
<1>5. CASE ReduceRemaining(b, rest)
  <2>1. PICK next \in Fresh(bid) :
          bid' = [bid EXCEPT ![b].state = "reduced",
                             ![next] = [bid[b] EXCEPT !.remaining = rest]]
    BY <1>5 DEF ReduceRemaining
  <2>2. next \in Bids /\ bid[next] = NoContract /\ next # b
    BY <1>1 DEF Fresh, IsOpen, Created, BookInv, TypeOK
  <2>3. /\ [bid[b] EXCEPT !.state = "reduced"] \in BidContract
        /\ [bid[b] EXCEPT !.remaining = rest] \in BidContract
    BY <1>2, <1>3 DEF BidContract
  <2>4. /\ bid' \in [Bids -> BidContract \cup {NoContract}]
        /\ bid'[b] = [bid[b] EXCEPT !.state = "reduced"]
        /\ bid'[next] = [bid[b] EXCEPT !.remaining = rest]
        /\ \A c \in Bids : c # b /\ c # next => bid'[c] = bid[c]
    BY <2>1, <2>2, <2>3 DEF BookInv, TypeOK
  <2>5. /\ bid'[b].state = "reduced"
        /\ bid'[next].state = "open"
        /\ next \notin Created(bid)
    BY <1>1, <1>2, <2>2, <2>4 DEF BidContract, IsOpen, Created
  <2>6. Created(bid') = Created(bid) \cup {next}
    BY <1>1, <2>2, <2>3, <2>4, NoOrder DEF Created, IsOpen, BookInv, TypeOK
  <2>7. BidsKept
    BY <1>2, <2>4, <2>5, <2>6 DEF BidsKept, Created, BidContract, BookInv, TypeOK
  <2>8. /\ bid'[next].root = bid[b].root /\ bid'[next].amount = bid[b].amount
        /\ bid'[next].remaining = rest
    BY <1>2, <2>4 DEF BidContract
  <2>9. \A c \in Created(bid') \ {b} : \/ c \in Created(bid) /\ bid'[c] = bid[c]
                                       \/ c \notin Created(bid) /\ bid'[c].state = "open"
    BY <2>4, <2>5, <2>6 DEF Created, BookInv, TypeOK
  <2> QED
    BY <2>2, <2>4, <2>5, <2>6, <2>7, <2>8, <2>9
<1> QED
  BY <1>4, <1>5 DEF MatchOrders

\* The proposal a match makes is well typed and within the limits of its orders.
LEMMA ProposalMade ==
  ASSUME BookInv, NEW b \in Bids, NEW k \in Asks, MatchOrders(b, k)
  PROVE  \E p \in Proposals :
           /\ p \notin Created(proposal)
           /\ proposal' \in [Proposals -> ProposalContract \cup {NoContract}]
           /\ Created(proposal') = Created(proposal) \cup {p}
           /\ \A q \in Created(proposal) : proposal'[q] = proposal[q]
           /\ proposal'[p].bid = b /\ proposal'[p].ask = k
           /\ proposal'[p].principal = MatchedAmount(b, k) /\ MatchedAmount(b, k) \in Int
           /\ WithinLimits(proposal'[p])
<1> DEFINE new == [lender |-> bid[b].lender, borrower |-> ask[k].borrower,
                   principal |-> MatchedAmount(b, k), rate |-> AgreedRate(b, k),
                   duration |-> ask[k].duration, bid |-> b, ask |-> k, state |-> "open"]
<1>1. PICK p \in Fresh(proposal) : proposal' = [proposal EXCEPT ![p] = new]
  BY DEF MatchOrders
<1>2. /\ bid[b] \in BidContract /\ ask[k] \in AskContract
      /\ bid[b].rate <= ask[k].rate /\ ask[k].duration <= bid[b].maxDuration
  BY DEF MatchOrders, CanMatch, Crosses, IsOpen, Created, BookInv, TypeOK
<1>3. /\ bid[b].rate \in Int /\ ask[k].rate \in Int
      /\ bid[b].remaining \in Int /\ ask[k].amount \in Int
  BY <1>2, BookAssumption DEF BidContract, AskContract
<1>4. /\ AgreedRate(b, k) \in Int
      /\ bid[b].rate <= AgreedRate(b, k) /\ AgreedRate(b, k) <= ask[k].rate
  BY <1>2, <1>3 DEF AgreedRate
<1>5. /\ MatchedAmount(b, k) \in Int
      /\ MatchedAmount(b, k) <= bid[b].remaining /\ MatchedAmount(b, k) <= ask[k].amount
  BY <1>3 DEF MatchedAmount
<1>6. new \in ProposalContract
  BY <1>2, <1>4, <1>5 DEF ProposalContract, BidContract, AskContract
<1>7. p \in Proposals /\ proposal[p] = NoContract
  BY DEF Fresh, BookInv, TypeOK
<1>8. /\ proposal' \in [Proposals -> ProposalContract \cup {NoContract}]
      /\ proposal'[p] = new
      /\ \A q \in Proposals : q # p => proposal'[q] = proposal[q]
  BY <1>1, <1>6, <1>7 DEF BookInv, TypeOK
<1>9. /\ p \notin Created(proposal)
      /\ Created(proposal') = Created(proposal) \cup {p}
  BY <1>6, <1>7, <1>8, NoOrder DEF Created, BookInv, TypeOK
<1>10. WithinLimits(new)
  BY <1>2, <1>4, <1>5 DEF WithinLimits
<1> QED
  BY <1>5, <1>7, <1>8, <1>9, <1>10 DEF Created, BookInv, TypeOK

LEMMA MatchStep ==
  ASSUME BookInv, NEW b \in Bids, NEW k \in Asks, MatchOrders(b, k)
  PROVE  BookInv'
<1>1. PICK p \in Proposals :
        /\ p \notin Created(proposal)
        /\ proposal' \in [Proposals -> ProposalContract \cup {NoContract}]
        /\ Created(proposal') = Created(proposal) \cup {p}
        /\ \A q \in Created(proposal) : proposal'[q] = proposal[q]
        /\ proposal'[p].bid = b /\ proposal'[p].ask = k
        /\ WithinLimits(proposal'[p])
  BY ProposalMade
<1>2. /\ bid' \in [Bids -> BidContract \cup {NoContract}]
      /\ BidsKept
      /\ bid'[b].state \in {"matched", "reduced"}
      /\ \A c \in Created(bid') \ {b} :
           \/ c \in Created(bid) /\ bid'[c] = bid[c]
           \/ c \notin Created(bid) /\ bid'[c].state = "open"
  BY BidMatched
<1>3. IsOpen(bid, b) /\ IsOpen(ask, k) /\ ask' = Archive(ask, k, "matched")
  BY DEF MatchOrders, CanMatch
<1>4. /\ ask' \in [Asks -> AskContract \cup {NoContract}]
      /\ Created(ask') = Created(ask)
      /\ \A c \in Asks : c # k => ask'[c] = ask[c]
      /\ ask'[k] = [ask[k] EXCEPT !.state = "matched"]
      /\ ask[k] \in AskContract
  BY <1>3, AskArchived DEF BookInv
<1>5. AsksKept
  BY <1>4 DEF AsksKept, Created, AskContract, BookInv, TypeOK
<1>6. TypeOK'
  BY <1>1, <1>2, <1>4 DEF BookInv, TypeOK
<1>7. \A q \in Created(proposal) : SameProposal(q)
  BY <1>1 DEF SameProposal
<1>8. ProposalsRefer' /\ ProposalsWithinLimits'
  <2>1. ASSUME NEW q \in Created(proposal)
        PROVE  /\ proposal'[q].bid \in Created(bid') /\ proposal'[q].ask \in Created(ask')
               /\ WithinLimits(proposal[q])'
    BY <1>2, <1>5, <1>7, LimitsKept DEF Created, BookInv, TypeOK
  <2>2. proposal'[p].bid \in Created(bid') /\ proposal'[p].ask \in Created(ask')
    BY <1>1, <1>2, <1>3, <1>5 DEF BidsKept, AsksKept, IsOpen
  <2>3. WithinLimits(proposal[p])'
    BY <1>1, <1>2, <1>3, <1>5 DEF WithinLimits, BidsKept, AsksKept, IsOpen
  <2> QED
    BY <1>1, <2>1, <2>2, <2>3 DEF ProposalsRefer, ProposalsWithinLimits
<1>9. /\ \A c : c # b => MadeFromBid(c)' = MadeFromBid(c)
      /\ \A c : c # k => MadeFromAsk(c)' = MadeFromAsk(c)
  BY <1>1 DEF MadeFromBid, MadeFromAsk
<1>10. MadeFromBid(b) = {} /\ MadeFromAsk(k) = {}
  BY <1>3 DEF BookInv, OrdersMatchedOnce, MatchedOnce, IsOpen, MadeFromBid, MadeFromAsk
<1>11. MadeFromBid(b)' = {p} /\ MadeFromAsk(k)' = {p}
  BY <1>1, <1>10 DEF MadeFromBid, MadeFromAsk
<1>12. \A c \in Created(bid') : MatchedOnce(bid', c, MadeFromBid(c)')
  <2>1. MatchedOnce(bid', b, {p})
    BY <1>2 DEF MatchedOnce
  <2>2. ASSUME NEW c \in Created(bid), c # b, bid'[c] = bid[c]
        PROVE  MatchedOnce(bid', c, MadeFromBid(c)')
    BY <1>9, <2>2 DEF BookInv, OrdersMatchedOnce, MatchedOnce, MadeFromBid
  <2>3. ASSUME NEW c \in Created(bid'), c # b, c \notin Created(bid), bid'[c].state = "open"
        PROVE  MatchedOnce(bid', c, MadeFromBid(c)')
    <3>1. MadeFromBid(c)' = {}
      BY <1>9, <2>3 DEF BookInv, ProposalsRefer, MadeFromBid
    <3> QED
      BY <2>3, <3>1 DEF MatchedOnce
  <2> QED
    BY <1>2, <1>11, <2>1, <2>2, <2>3
<1>13. \A c \in Created(ask') : MatchedOnce(ask', c, MadeFromAsk(c)')
  <2>1. MatchedOnce(ask', k, {p})
    BY <1>4 DEF MatchedOnce, AskContract
  <2>2. ASSUME NEW c \in Created(ask), c # k
        PROVE  MatchedOnce(ask', c, MadeFromAsk(c)')
    <3>1. MatchedOnce(ask, c, MadeFromAsk(c))
      BY OrdersMatchedOnceAlt DEF BookInv
    <3>2. ask'[c] = ask[c]
      BY <1>4, <2>2 DEF Created, BookInv, TypeOK
    <3> QED
      BY <1>9, <2>2, <3>1, <3>2, MatchedOnceAlike
  <2> QED
    BY <1>4, <1>11, <2>1, <2>2
<1>14. OrdersMatchedOnce'
  BY <1>12, <1>13 DEF OrdersMatchedOnce, MadeFromBid, MadeFromAsk
<1> QED
  BY <1>6, <1>8, <1>14 DEF BookInv

-----------------------------------------------------------------------------
LEMMA BookInvInit == BookInit => BookInv
BY DEF BookInit, BookInv, TypeOK, ProposalsRefer, OrdersMatchedOnce, ProposalsWithinLimits,
   Created

LEMMA BookInvNext == BookInv /\ [BookNext]_book => BookInv'
<1> SUFFICES ASSUME BookInv, [BookNext]_book PROVE BookInv'
  OBVIOUS
<1>1. CASE UNCHANGED book
  BY <1>1 DEF book, BookInv, TypeOK, ProposalsRefer, OrdersMatchedOnce, MatchedOnce,
              ProposalsWithinLimits, WithinLimits, Created
<1>2. CASE Post
  BY <1>2, CreateBidStep, CreateAskStep DEF Post
<1>3. CASE Cancel
  BY <1>3, CancelBidStep, CancelAskStep DEF Cancel
<1>4. CASE \E b \in Bids, k \in Asks : MatchOrders(b, k)
  BY <1>4, MatchStep
<1>5. CASE \E p \in Proposals : \/ MatchedLoanProposal_Accept(p)
                                \/ MatchedLoanProposal_Reject(p)
                                \/ MatchedLoanProposal_Withdraw(p)
  BY <1>5, AnswerStep
<1> QED
  BY <1>1, <1>2, <1>3, <1>4, <1>5 DEF BookNext

LEMMA BookInvariant == BookSpec => []BookInv
BY BookInvInit, BookInvNext, PTL DEF BookSpec

\* The contracts of the order book are always well typed, and every proposal has on the
\* book the bid and the ask MatchOrders made it from, whatever became of them.
THEOREM BookTypeCorrect == BookSpec => [](TypeOK /\ ProposalsRefer)
<1>1. BookInv => TypeOK /\ ProposalsRefer
  BY DEF BookInv
<1> QED
  BY <1>1, BookInvariant, PTL

\* An order is taken off the book by MatchOrders exactly when one proposal was made
\* from it: no bid or ask is promised twice.
THEOREM NoOrderMatchedTwice == BookSpec => []OrdersMatchedOnce
<1>1. BookInv => OrdersMatchedOnce
  BY DEF BookInv
<1> QED
  BY <1>1, BookInvariant, PTL

\* Every proposal MatchOrders makes is within what both parties posted.
THEOREM ProposalsAlwaysWithinLimits == BookSpec => []ProposalsWithinLimits
<1>1. BookInv => ProposalsWithinLimits
  BY DEF BookInv
<1> QED
  BY <1>1, BookInvariant, PTL
-----------------------------------------------------------------------------
(***************************************************************************)
(* Liquidity.  The sums are of finitely many terms because each step       *)
(* creates at most two contracts, and the successors of a bid carry the    *)
(* id of the bid that was posted, which is its own root.                   *)
(***************************************************************************)
OrdersRooted ==
  \A b \in Created(bid) : bid[b].root \in Created(bid) /\ bid[bid[b].root].root = bid[b].root

LiquidityInv == /\ BookInv
                /\ IsFiniteSet(Created(bid)) /\ IsFiniteSet(Created(proposal))
                /\ OrdersRooted
                /\ LiquidityConserved

\* The terms of the two sums.
MadeFrom(root) == {p \in Created(proposal) : bid[proposal[p].bid].root = root}
Principals(root) == [p \in MadeFrom(root) |-> proposal[p].principal]

RestOf(root) == {b \in ChainOf(root) : bid[b].state \in {"open", "cancelled"}}
Remainders(root) == [b \in RestOf(root) |-> bid[b].remaining]

LEMMA SumsOfTerms ==
  \A root : ProposedFrom(root) = SumFunction(Principals(root))
            /\ LeftOf(root) = SumFunction(Remainders(root))
BY DEF ProposedFrom, LeftOf, Principals, Remainders, MadeFrom, RestOf

LEMMA TermsAreInts ==
  ASSUME LiquidityInv, NEW root
  PROVE  /\ IsFiniteSet(MadeFrom(root)) /\ Ints(Principals(root), MadeFrom(root))
         /\ IsFiniteSet(RestOf(root)) /\ Ints(Remainders(root), RestOf(root))
         /\ SumFunction(Principals(root)) \in Int /\ SumFunction(Remainders(root)) \in Int
<1>1. MadeFrom(root) \subseteq Created(proposal) /\ RestOf(root) \subseteq Created(bid)
  BY DEF MadeFrom, RestOf, ChainOf
<1>2. IsFiniteSet(MadeFrom(root)) /\ IsFiniteSet(RestOf(root))
  BY <1>1, FS_Subset DEF LiquidityInv
<1>3. Ints(Principals(root), MadeFrom(root)) /\ Ints(Remainders(root), RestOf(root))
  BY <1>1 DEF Ints, Principals, Remainders, Created, LiquidityInv, BookInv, TypeOK,
              ProposalContract, BidContract
<1>4. /\ SumFunctionOnSet(Principals(root), MadeFrom(root)) \in Int
      /\ SumFunctionOnSet(Remainders(root), RestOf(root)) \in Int
  BY <1>2, <1>3, SumInt
<1> QED
  BY <1>2, <1>3, <1>4 DEF SumFunction, Principals, Remainders

\* A step that takes nothing off the book but by cancelling, and proposes nothing.
LEMMA LiquidityKept ==
  ASSUME LiquidityInv, BidsKept, Created(bid') = Created(bid),
         \A b \in Created(bid) : bid'[b].state \in {"open", "cancelled"}
                                   <=> bid[b].state \in {"open", "cancelled"},
         Created(proposal') = Created(proposal),
         \A p \in Created(proposal) : SameProposal(p)
  PROVE  /\ IsFiniteSet(Created(bid))' /\ IsFiniteSet(Created(proposal))'
         /\ OrdersRooted' /\ LiquidityConserved'
<1>1. IsFiniteSet(Created(bid))' /\ IsFiniteSet(Created(proposal))'
  BY DEF LiquidityInv
<1>2. OrdersRooted'
  BY DEF LiquidityInv, OrdersRooted, BidsKept
<1>3. ASSUME NEW root
      PROVE  Principals(root)' = Principals(root) /\ Remainders(root)' = Remainders(root)
  <2>1. MadeFrom(root)' = MadeFrom(root)
    BY DEF MadeFrom, SameProposal, BidsKept, LiquidityInv, BookInv, ProposalsRefer
  <2>2. RestOf(root)' = RestOf(root)
    BY DEF RestOf, ChainOf, BidsKept
  <2>3. \A p \in MadeFrom(root) : proposal'[p].principal = proposal[p].principal
    BY DEF MadeFrom, SameProposal
  <2>4. \A b \in RestOf(root) : bid'[b].remaining = bid[b].remaining
    BY DEF RestOf, ChainOf, BidsKept
  <2> QED
    BY <2>1, <2>2, <2>3, <2>4 DEF Principals, Remainders
<1>4. \A root : ProposedFrom(root)' = ProposedFrom(root) /\ LeftOf(root)' = LeftOf(root)
  <2>1. \A root : ProposedFrom(root)' = SumFunction(Principals(root)')
                  /\ LeftOf(root)' = SumFunction(Remainders(root)')
    BY DEF ProposedFrom, LeftOf, Principals, Remainders, MadeFrom, RestOf
  <2> QED
    BY <1>3, <2>1, SumsOfTerms
<1>5. LiquidityConserved'
  BY <1>4 DEF LiquidityConserved, LiquidityInv, BidsKept
<1> QED
  BY <1>1, <1>2, <1>5

LEMMA CreateBidLiquidity ==
  ASSUME LiquidityInv, NEW l \in Lenders, NEW a \in BidAmounts, NEW rate \in Rates,
         NEW d \in Durations, CreateLenderBid(l, a, rate, d)
  PROVE  /\ IsFiniteSet(Created(bid))' /\ IsFiniteSet(Created(proposal))'
         /\ OrdersRooted' /\ LiquidityConserved'
<1> DEFINE new(b) == [lender |-> l, amount |-> a, remaining |-> a, rate |-> rate,
                      maxDuration |-> d, root |-> b, state |-> "open"]
<1>1. PICK b \in Fresh(bid) : bid' = [bid EXCEPT ![b] = new(b)]
  BY DEF CreateLenderBid
<1>2. b \in Bids /\ b \notin Created(bid)
  BY DEF Fresh, Created, LiquidityInv, BookInv, TypeOK
<1>3. new(b) \in BidContract /\ a \in Int
  BY <1>2, BookAssumption DEF BidContract
<1>4. /\ Created(bid') = Created(bid) \cup {b}
      /\ bid'[b] = new(b)
      /\ \A c \in Created(bid) : bid'[c] = bid[c]
  BY <1>1, <1>2, <1>3, NoOrder DEF Created, LiquidityInv, BookInv, TypeOK
<1>5. UNCHANGED proposal
  BY DEF CreateLenderBid
<1>6. IsFiniteSet(Created(bid))' /\ IsFiniteSet(Created(proposal))'
  BY <1>4, <1>5, FS_AddElement DEF LiquidityInv
<1>7. OrdersRooted'
  BY <1>4 DEF OrdersRooted, LiquidityInv
<1>8. \A p \in Created(proposal) : proposal[p].bid \in Created(bid)
  BY DEF LiquidityInv, BookInv, ProposalsRefer
<1>9. \A c \in Created(bid) : bid[c].root # b
  BY <1>2 DEF LiquidityInv, OrdersRooted
<1>10. ASSUME NEW c \in Created(bid), bid[c].root = c
       PROVE  ProposedFrom(c)' = ProposedFrom(c) /\ LeftOf(c)' = LeftOf(c)
  <2>1. MadeFrom(c)' = MadeFrom(c)
    BY <1>4, <1>5, <1>8 DEF MadeFrom
  <2>2. RestOf(c)' = RestOf(c)
    BY <1>2, <1>4 DEF RestOf, ChainOf
  <2>3. Principals(c)' = Principals(c)
    BY <1>5, <2>1 DEF Principals
  <2>4. \A e \in RestOf(c) : bid'[e].remaining = bid[e].remaining
    BY <1>4 DEF RestOf, ChainOf
  <2>5. Remainders(c)' = Remainders(c)
    BY <2>2, <2>4 DEF Remainders
  <2>6. ProposedFrom(c)' = SumFunction(Principals(c)')
        /\ LeftOf(c)' = SumFunction(Remainders(c)')
    BY DEF ProposedFrom, LeftOf, Principals, Remainders, MadeFrom, RestOf
  <2> QED
    BY <2>3, <2>5, <2>6, SumsOfTerms
<1>11. ProposedFrom(b)' = 0 /\ LeftOf(b)' = a
  <2>1. MadeFrom(b)' = {}
    BY <1>4, <1>5, <1>8, <1>9 DEF MadeFrom
  <2>2. RestOf(b)' = {b}
    BY <1>4, <1>9 DEF RestOf, ChainOf
  <2>3. Remainders(b)'[b] = a
    BY <1>4, <2>2 DEF Remainders
  <2>4. DOMAIN Principals(b)' = {} /\ DOMAIN Remainders(b)' = {b}
    BY <2>1, <2>2 DEF Principals, Remainders
  <2>5. SumFunction(Principals(b)') = 0
    BY <2>4, SumEmpty DEF SumFunction
  <2>6. SumFunction(Remainders(b)') = a
    <3>1. SumFunctionOnSet(Remainders(b)', {} \cup {b})
            = SumFunctionOnSet(Remainders(b)', {}) + Remainders(b)'[b]
      BY <1>3, <2>3, SumIn, FS_EmptySet DEF Ints
    <3> QED
      BY <1>3, <2>3, <2>4, <3>1, SumEmpty DEF SumFunction
  <2>7. ProposedFrom(b)' = SumFunction(Principals(b)')
        /\ LeftOf(b)' = SumFunction(Remainders(b)')
    BY DEF ProposedFrom, LeftOf, Principals, Remainders, MadeFrom, RestOf
  <2> QED
    BY <2>5, <2>6, <2>7
<1>12. LiquidityConserved'
  <2>1. ASSUME NEW c \in Created(bid'), bid'[c].root = c
        PROVE  ProposedFrom(c)' + LeftOf(c)' = bid'[c].amount
    <3>1. CASE c = b
      BY <1>3, <1>4, <1>11, <3>1
    <3>2. CASE c # b
      <4>1. c \in Created(bid) /\ bid[c].root = c /\ bid'[c].amount = bid[c].amount
        BY <1>4, <2>1, <3>2
      <4> QED
        BY <1>10, <4>1 DEF LiquidityInv, LiquidityConserved
    <3> QED
      BY <3>1, <3>2
  <2> QED
    BY <2>1 DEF LiquidityConserved
<1> QED
  BY <1>6, <1>7, <1>12

\* A match moves the matched amount from what is left of the bid to what is proposed.
LEMMA MatchLiquidity ==
  ASSUME LiquidityInv, NEW b \in Bids, NEW k \in Asks, MatchOrders(b, k)
  PROVE  /\ IsFiniteSet(Created(bid))' /\ IsFiniteSet(Created(proposal))'
         /\ OrdersRooted' /\ LiquidityConserved'
<1>0. PICK posted, amount : posted = bid[b].root /\ amount = MatchedAmount(b, k)
  OBVIOUS
<1>1. PICK p \in Proposals :
        /\ p \notin Created(proposal)
        /\ Created(proposal') = Created(proposal) \cup {p}
        /\ \A q \in Created(proposal) : proposal'[q] = proposal[q]
        /\ proposal'[p].bid = b /\ proposal'[p].principal = amount
        /\ amount \in Int
  BY <1>0, ProposalMade DEF LiquidityInv
<1>2. /\ BidsKept
      /\ bid'[b].state \in {"matched", "reduced"}
      /\ \A c \in Created(bid') \ {b} :
           \/ c \in Created(bid) /\ bid'[c] = bid[c]
           \/ c \notin Created(bid) /\ bid'[c].state = "open"
  BY BidMatched DEF LiquidityInv
<1>3. \/ Created(bid') = Created(bid) /\ amount = bid[b].remaining
      \/ \E next \in Bids \ Created(bid) :
           /\ Created(bid') = Created(bid) \cup {next}
           /\ bid'[next].root = posted
           /\ bid'[next].remaining = bid[b].remaining - amount
  BY <1>0, BidMatched DEF LiquidityInv
<1>4. b \in Created(bid) /\ bid[b].state = "open" /\ bid[b].remaining \in Int
  BY DEF MatchOrders, CanMatch, IsOpen, Created, LiquidityInv, BookInv, TypeOK, BidContract
<1>5. posted \in Created(bid) /\ bid[posted].root = posted
  BY <1>0, <1>4 DEF LiquidityInv, OrdersRooted
<1>6. IsFiniteSet(Created(bid))' /\ IsFiniteSet(Created(proposal))'
  BY <1>1, <1>3, FS_AddElement DEF LiquidityInv
<1>7. \A c \in Created(bid') : /\ bid'[c].root \in Created(bid)
                               /\ bid'[bid'[c].root].root = bid'[c].root
  BY <1>2, <1>3, <1>5 DEF LiquidityInv, OrdersRooted, BidsKept
<1>8. OrdersRooted'
  BY <1>2, <1>7 DEF OrdersRooted, BidsKept
<1>9. \A root : /\ ProposedFrom(root)' = SumFunction(Principals(root)')
                /\ LeftOf(root)' = SumFunction(Remainders(root)')
  BY DEF ProposedFrom, LeftOf, Principals, Remainders, MadeFrom, RestOf
<1>10. \A q \in Created(proposal) : proposal[q].bid \in Created(bid)
  BY DEF LiquidityInv, BookInv, ProposalsRefer
<1>11. \A c \in Created(bid) \ {b} : bid'[c] = bid[c]
  BY <1>2 DEF BidsKept
<1>12. ASSUME NEW c \in Created(bid), c # posted
       PROVE  ProposedFrom(c)' = ProposedFrom(c) /\ LeftOf(c)' = LeftOf(c)
  <2>1. MadeFrom(c)' = MadeFrom(c)
    BY <1>0, <1>1, <1>2, <1>4, <1>10, <1>12 DEF MadeFrom, BidsKept
  <2>2. \A e \in Created(bid') \ Created(bid) : bid'[e].root # c
    BY <1>3, <1>12
  <2>3. b \notin RestOf(c) /\ b \notin RestOf(c)'
    BY <1>0, <1>2, <1>4, <1>12 DEF RestOf, ChainOf, BidsKept
  <2>4. RestOf(c)' = RestOf(c)
    BY <1>2, <1>11, <2>2, <2>3 DEF RestOf, ChainOf, BidsKept
  <2>5. Principals(c)' = Principals(c)
    BY <1>1, <2>1 DEF Principals, MadeFrom
  <2>6. \A e \in RestOf(c) : bid'[e].remaining = bid[e].remaining
    BY <1>2 DEF RestOf, ChainOf, BidsKept
  <2>7. Remainders(c)' = Remainders(c)
    BY <2>4, <2>6 DEF Remainders
  <2> QED
    BY <1>9, <2>5, <2>7, SumsOfTerms
<1>13. ProposedFrom(posted)' = ProposedFrom(posted) + amount
  <2>1. MadeFrom(posted)' = MadeFrom(posted) \cup {p} /\ p \notin MadeFrom(posted)
    BY <1>0, <1>1, <1>2, <1>4, <1>10 DEF MadeFrom, BidsKept
  <2> DEFINE old == Principals(posted)
             new == [q \in MadeFrom(posted)' |-> proposal'[q].principal]
  <2>2. /\ DOMAIN old = MadeFrom(posted) /\ DOMAIN new = DOMAIN old \cup {p}
        /\ new[p] = amount /\ \A q \in DOMAIN old : new[q] = old[q]
    BY <1>1, <2>1 DEF Principals, MadeFrom
  <2>3. IsFiniteSet(DOMAIN old) /\ Ints(old, DOMAIN old)
    BY <2>2, TermsAreInts
  <2>4. new = Principals(posted)'
    BY DEF Principals
  <2> HIDE DEF old, new
  <2>5. SumFunction(new) = SumFunction(old) + amount
    BY <1>1, <2>1, <2>2, <2>3, SumGrows
  <2> QED
    BY <1>9, <2>4, <2>5, SumsOfTerms DEF old
<1>14. LeftOf(posted)' = LeftOf(posted) - amount
  <2> DEFINE old == Remainders(posted)
             new == [e \in RestOf(posted)' |-> bid'[e].remaining]
  <2>1. new = Remainders(posted)' /\ DOMAIN new = RestOf(posted)'
    BY DEF Remainders
  <2>2. DOMAIN old = RestOf(posted) /\ b \in DOMAIN old /\ old[b] = bid[b].remaining
    BY <1>0, <1>4 DEF Remainders, RestOf, ChainOf
  <2>3. \A e \in RestOf(posted) \ {b} : e \in RestOf(posted)' /\ new[e] = old[e]
    BY <1>2, <1>11 DEF Remainders, RestOf, ChainOf, BidsKept
  <2>4. \A e \in RestOf(posted)' : e # b /\ (e \in Created(bid) => e \in RestOf(posted))
    BY <1>2 DEF RestOf, ChainOf
  <2>5. IsFiniteSet(DOMAIN old) /\ Ints(old, DOMAIN old)
        /\ SumFunction(old) \in Int
    BY <2>2, TermsAreInts
  <2>6. CASE Created(bid') = Created(bid) /\ amount = bid[b].remaining
    <3>1. DOMAIN new = DOMAIN old \ {b}
      <4>1. RestOf(posted)' \subseteq Created(bid')
        BY DEF RestOf, ChainOf
      <4> QED
        BY <2>1, <2>2, <2>3, <2>4, <2>6, <4>1
    <3>2. IsFiniteSet(DOMAIN new) /\ Ints(new, DOMAIN new)
      <4>1. IsFiniteSet(DOMAIN old \ {b})
        BY <2>5, FS_RemoveElement
      <4> QED
        BY <2>2, <2>3, <2>5, <3>1, <4>1 DEF Ints
    <3> HIDE DEF old, new
    <3>3. SumFunction(old) = SumFunction(new) + old[b] /\ SumFunction(new) \in Int
      <4>1. /\ b \notin DOMAIN new /\ DOMAIN old = DOMAIN new \cup {b}
            /\ old[b] \in Int /\ \A e \in DOMAIN new : old[e] = new[e]
        BY <1>4, <2>2, <2>3, <3>1
      <4> QED
        BY <3>2, <4>1, SumGrows
    <3>4. SumFunction(new) = SumFunction(old) - amount
      BY <1>4, <2>2, <2>5, <2>6, <3>3
    <3> QED
      BY <1>9, <2>1, <3>4, SumsOfTerms DEF old
  <2>7. ASSUME NEW next \in Bids \ Created(bid),
               Created(bid') = Created(bid) \cup {next},
               bid'[next].root = posted,
               bid'[next].remaining = bid[b].remaining - amount
        PROVE  LeftOf(posted)' = LeftOf(posted) - amount
    <3>1. next # b /\ next \notin DOMAIN old
      BY <1>4, <2>2, <2>7 DEF RestOf, ChainOf
    <3>2. next \in RestOf(posted)' /\ new[next] = bid[b].remaining - amount
      <4>1. next \in RestOf(posted)'
        BY <1>2, <2>7, <3>1 DEF RestOf, ChainOf
      <4> QED
        BY <2>7, <4>1
    <3>3. DOMAIN new = (DOMAIN old \ {b}) \cup {next}
      <4>1. RestOf(posted)' \subseteq Created(bid')
        BY DEF RestOf, ChainOf
      <4> QED
        BY <2>1, <2>2, <2>3, <2>4, <2>7, <3>2, <4>1
    <3>4. new[next] \in Int
      BY <1>1, <1>4, <3>2
    <3> HIDE DEF old, new
    <3>5. SumFunction(new) = SumFunction(old) - old[b] + new[next]
      BY <2>2, <2>3, <2>5, <3>1, <3>3, <3>4, SumMoves
    <3>6. SumFunction(new) = SumFunction(old) - amount
      BY <1>1, <1>4, <2>2, <2>5, <3>2, <3>5
    <3> QED
      BY <1>9, <2>1, <3>6, SumsOfTerms DEF old
  <2> QED
    BY <1>3, <2>6, <2>7
<1>15. LiquidityConserved'
  <2>1. ASSUME NEW c \in Created(bid'), bid'[c].root = c
        PROVE  ProposedFrom(c)' + LeftOf(c)' = bid'[c].amount
    <3>1. c \in Created(bid) /\ bid[c].root = c /\ bid'[c].amount = bid[c].amount
      BY <1>2, <1>7, <2>1 DEF BidsKept
    <3>2. ProposedFrom(c) + LeftOf(c) = bid[c].amount
      BY <3>1 DEF LiquidityInv, LiquidityConserved
    <3>3. ProposedFrom(c) \in Int /\ LeftOf(c) \in Int
      BY TermsAreInts, SumsOfTerms
    <3>4. CASE c # posted
      BY <1>12, <3>1, <3>2, <3>4
    <3>5. CASE c = posted
      <4>1. ProposedFrom(c)' = ProposedFrom(c) + amount /\ LeftOf(c)' = LeftOf(c) - amount
        BY <1>13, <1>14, <3>5
      <4> QED
        BY <1>1, <3>1, <3>2, <3>3, <4>1
    <3> QED
      BY <3>4, <3>5
  <2> QED
    BY <2>1 DEF LiquidityConserved
<1> QED
  BY <1>6, <1>8, <1>15

LEMMA LiquidityInvNext == LiquidityInv /\ [BookNext]_book => LiquidityInv'
<1> SUFFICES ASSUME LiquidityInv, [BookNext]_book PROVE LiquidityInv'
  OBVIOUS
<1>1. BookInv'
  BY BookInvNext DEF LiquidityInv
<1> DEFINE Kept == /\ IsFiniteSet(Created(bid))' /\ IsFiniteSet(Created(proposal))'
                   /\ OrdersRooted' /\ LiquidityConserved'
<1>2. ASSUME UNCHANGED <<bid, proposal>> PROVE Kept
  BY <1>2, LiquidityKept DEF BidsKept, SameProposal
<1>3. ASSUME NEW b \in Bids, LenderBid_Cancel(b) PROVE Kept
  <2>1. IsOpen(bid, b) /\ bid' = Archive(bid, b, "cancelled") /\ UNCHANGED proposal
    BY <1>3 DEF LenderBid_Cancel
  <2>2. /\ Created(bid') = Created(bid)
        /\ \A c \in Bids : c # b => bid'[c] = bid[c]
        /\ bid'[b] = [bid[b] EXCEPT !.state = "cancelled"]
        /\ bid[b] \in BidContract
    BY <2>1, BidArchived DEF LiquidityInv, BookInv
  <2>3. BidsKept /\ bid'[b].state = "cancelled" /\ bid[b].state = "open"
    BY <2>1, <2>2 DEF BidsKept, Created, BidContract, LiquidityInv, BookInv, TypeOK, IsOpen
  <2>4. \A c \in Created(bid) : bid'[c].state \in {"open", "cancelled"}
                                  <=> bid[c].state \in {"open", "cancelled"}
    BY <2>2, <2>3 DEF Created, LiquidityInv, BookInv, TypeOK
  <2> QED
    BY <2>1, <2>2, <2>3, <2>4, LiquidityKept DEF SameProposal
<1>4. ASSUME NEW p \in Proposals,
             MatchedLoanProposal_Accept(p) \/ MatchedLoanProposal_Reject(p)
               \/ MatchedLoanProposal_Withdraw(p)
      PROVE  Kept
  <2>1. /\ Created(proposal') = Created(proposal) /\ UNCHANGED bid
        /\ \A q \in Created(proposal) : SameProposal(q)
    BY <1>4, AnswerKeeps DEF LiquidityInv
  <2> QED
    BY <2>1, LiquidityKept DEF BidsKept
<1>5. Kept
  <2>1. CASE UNCHANGED book
    BY <1>2, <2>1 DEF book
  <2>2. CASE Post
    <3>1. CASE \E l \in Lenders, a \in BidAmounts, rate \in Rates, d \in Durations :
                 CreateLenderBid(l, a, rate, d)
      BY <3>1, CreateBidLiquidity
    <3>2. CASE \E br \in Borrowers, a \in AskAmounts, rate \in Rates, d \in Durations :
                 CreateBorrowerAsk(br, a, rate, d)
      BY <1>2, <3>2 DEF CreateBorrowerAsk
    <3> QED
      BY <2>2, <3>1, <3>2 DEF Post
  <2>3. CASE Cancel
    BY <1>2, <1>3, <2>3 DEF Cancel, BorrowerAsk_Cancel
  <2>4. CASE \E b \in Bids, k \in Asks : MatchOrders(b, k)
    BY <2>4, MatchLiquidity
  <2>5. CASE \E p \in Proposals : \/ MatchedLoanProposal_Accept(p)
                                  \/ MatchedLoanProposal_Reject(p)
                                  \/ MatchedLoanProposal_Withdraw(p)
    BY <1>4, <2>5
  <2> QED
    BY <2>1, <2>2, <2>3, <2>4, <2>5 DEF BookNext
<1> QED
  BY <1>1, <1>5 DEF LiquidityInv

LEMMA LiquidityInvariant == BookSpec => []LiquidityInv
<1>1. BookInit => LiquidityInv
  <2> SUFFICES ASSUME BookInit PROVE LiquidityInv
    OBVIOUS
  <2>1. Created(bid) = {} /\ Created(proposal) = {}
    BY DEF BookInit, Created
  <2> QED
    BY <2>1, BookInvInit, FS_EmptySet DEF LiquidityInv, OrdersRooted, LiquidityConserved
<1> QED
  BY <1>1, LiquidityInvNext, PTL DEF BookSpec

\* What MatchOrders proposed from a posted bid and what is left of it, on the book or
\* when LenderBid_Cancel took it off, add up to what was posted, through any number of
\* partial fills: no liquidity is promised twice and none is lost.
THEOREM LiquidityAlwaysConserved == BookSpec => []LiquidityConserved
<1>1. LiquidityInv => LiquidityConserved
  BY DEF LiquidityInv
<1> QED
  BY <1>1, LiquidityInvariant, PTL

-----------------------------------------------------------------------------
(***************************************************************************)
(* The badge of a bid.  It can tell what was proposed because a successor  *)
(* copies the amount that was posted, because what a successor has left is *)
(* less but something, and because only one bid of a chain is left at a    *)
(* time: the one whose remaining amount LiquidityConserved counts.         *)
(***************************************************************************)
ChainsHeld ==
  \A b \in Created(bid) :
    /\ bid[b].amount = bid[bid[b].root].amount
    /\ \/ bid[b].remaining = bid[b].amount
       \/ 0 < bid[b].remaining /\ bid[b].remaining < bid[b].amount

OneLeft ==
  \A root \in Created(bid) : \A b, c \in RestOf(root) : b = c

ChainInv == LiquidityInv /\ ChainsHeld /\ OneLeft

\* A step that creates no bid and changes no more of them than their state.
LEMMA ChainsKept ==
  ASSUME ChainInv, BidsKept, Created(bid') = Created(bid),
         \A b \in Created(bid) : bid'[b].state \in {"open", "cancelled"}
                                   <=> bid[b].state \in {"open", "cancelled"}
  PROVE  ChainsHeld' /\ OneLeft'
<1>1. ChainsHeld'
  BY DEF ChainInv, ChainsHeld, BidsKept, LiquidityInv, OrdersRooted
<1>2. \A root : RestOf(root)' = RestOf(root)
  BY DEF RestOf, ChainOf, BidsKept
<1> QED
  BY <1>1, <1>2 DEF ChainInv, OneLeft

LEMMA CreateBidChain ==
  ASSUME ChainInv, NEW l \in Lenders, NEW a \in BidAmounts, NEW rate \in Rates,
         NEW d \in Durations, CreateLenderBid(l, a, rate, d)
  PROVE  ChainsHeld' /\ OneLeft'
<1>1. PICK b \in Fresh(bid) :
        bid' = [bid EXCEPT ![b] = [lender |-> l, amount |-> a, remaining |-> a, rate |-> rate,
                                   maxDuration |-> d, root |-> b, state |-> "open"]]
  BY DEF CreateLenderBid
<1>2. b \in Bids /\ b \notin Created(bid) /\ bid \in [Bids -> BidContract \cup {NoContract}]
  BY DEF Fresh, Created, ChainInv, LiquidityInv, BookInv, TypeOK
<1>3. [lender |-> l, amount |-> a, remaining |-> a, rate |-> rate,
       maxDuration |-> d, root |-> b, state |-> "open"] \in BidContract
  BY <1>2, BookAssumption DEF BidContract
<1>4. /\ Created(bid') = Created(bid) \cup {b}
      /\ bid'[b].root = b /\ bid'[b].amount = a /\ bid'[b].remaining = a
      /\ \A c \in Created(bid) : bid'[c] = bid[c]
  BY <1>1, <1>2, <1>3, NoOrder DEF Created
<1>5. OrdersRooted
  BY DEF ChainInv, LiquidityInv
<1>6. ChainsHeld'
  BY <1>2, <1>4, <1>5 DEF ChainInv, ChainsHeld, OrdersRooted
<1>7. RestOf(b)' \subseteq {b}
  BY <1>2, <1>4, <1>5 DEF RestOf, ChainOf, OrdersRooted
<1>8. \A c \in Created(bid) : RestOf(c)' = RestOf(c)
  BY <1>2, <1>4 DEF RestOf, ChainOf
<1> QED
  BY <1>4, <1>6, <1>7, <1>8 DEF ChainInv, OneLeft

LEMMA MatchChain ==
  ASSUME ChainInv, NEW b \in Bids, NEW k \in Asks, MatchOrders(b, k)
  PROVE  ChainsHeld' /\ OneLeft'
<1>0. BookInv /\ OrdersRooted /\ ChainsHeld /\ OneLeft
  BY DEF ChainInv, LiquidityInv
<1>1. /\ BidsKept
      /\ bid'[b].state \in {"matched", "reduced"}
      /\ \A c \in Created(bid') \ {b} :
           \/ c \in Created(bid) /\ bid'[c] = bid[c]
           \/ c \notin Created(bid) /\ bid'[c].state = "open"
  BY <1>0, BidMatched
<1>2. PICK rest : rest = bid[b].remaining - MatchedAmount(b, k)
  OBVIOUS
<1>3. \/ Created(bid') = Created(bid)
      \/ \E next \in Bids \ Created(bid) :
           /\ Created(bid') = Created(bid) \cup {next}
           /\ bid'[next].root = bid[b].root /\ bid'[next].amount = bid[b].amount
           /\ bid'[next].remaining = rest /\ 0 < rest /\ rest < bid[b].remaining
  <2>1. rest = 0 \/ (rest > 0 /\ rest < bid[b].remaining)
    BY <1>2 DEF MatchOrders, CanMatch
  <2>2. bid[b].remaining \in Int /\ ask[k].amount \in Int
    BY <1>0, BookAssumption DEF MatchOrders, CanMatch, IsOpen, Created, BookInv, TypeOK,
       BidContract, AskContract
  <2>3. rest = 0 => MatchedAmount(b, k) = bid[b].remaining
    BY <1>2, <2>2 DEF MatchedAmount
  <2>4. CASE rest = 0
    <3>1. ConsumeBid(b) /\ IsOpen(bid, b)
      BY <2>3, <2>4 DEF MatchOrders, CanMatch
    <3> QED
      BY <1>0, <3>1, BidArchived DEF ConsumeBid, BookInv
  <2>5. CASE rest > 0 /\ rest < bid[b].remaining
    BY <1>0, <1>2, <2>5, BidMatched
  <2> QED
    BY <2>1, <2>4, <2>5
<1>4. /\ b \in Created(bid) /\ bid[b].state = "open"
      /\ bid[b].remaining \in Int /\ bid[b].amount \in Int
  BY <1>0, BookAssumption DEF MatchOrders, CanMatch, IsOpen, Created, BookInv, TypeOK, BidContract
<1>5. ChainsHeld'
  <2>1. \A c \in Created(bid) :
          /\ c \in Created(bid') /\ bid[c].root \in Created(bid)
          /\ bid'[c].amount = bid[c].amount /\ bid'[c].root = bid[c].root
          /\ bid'[c].remaining = bid[c].remaining
          /\ bid[c].amount = bid[bid[c].root].amount
          /\ \/ bid[c].remaining = bid[c].amount
             \/ 0 < bid[c].remaining /\ bid[c].remaining < bid[c].amount
    BY <1>0, <1>1 DEF ChainsHeld, BidsKept, OrdersRooted
  <2>2. \A c \in Created(bid) : bid'[c].amount = bid'[bid'[c].root].amount
    BY <2>1
  <2>3. CASE Created(bid') = Created(bid)
    BY <2>1, <2>2, <2>3 DEF ChainsHeld
  <2>4. ASSUME NEW next \in Bids \ Created(bid),
               Created(bid') = Created(bid) \cup {next},
               bid'[next].root = bid[b].root, bid'[next].amount = bid[b].amount,
               bid'[next].remaining = rest, 0 < rest, rest < bid[b].remaining
        PROVE  ChainsHeld'
    <3>1. rest < bid[b].amount /\ rest \in Int
      BY <1>4, <2>1, <2>4, <1>2, BookAssumption, <1>0
         DEF MatchedAmount, MatchOrders, CanMatch, IsOpen, Created, BookInv, TypeOK, AskContract
    <3>2. bid'[next].amount = bid'[bid'[next].root].amount
      BY <1>4, <2>1, <2>4
    <3> QED
      BY <2>1, <2>2, <2>4, <3>1, <3>2 DEF ChainsHeld
  <2> QED
    BY <1>3, <2>3, <2>4
<1>6. OneLeft'
  <2>0. PICK posted : posted = bid[b].root
    OBVIOUS
  <2>1. posted \in Created(bid) /\ b \in RestOf(posted)
    BY <1>0, <1>4, <2>0 DEF OrdersRooted, RestOf, ChainOf
  <2>2. \A root : \A c \in RestOf(root)' : c \in Created(bid) => c \in RestOf(root) /\ c # b
    BY <1>1 DEF RestOf, ChainOf
  <2>3. \A c \in RestOf(posted)' : c \notin Created(bid)
    BY <1>0, <2>1, <2>2 DEF OneLeft
  <2>4. \A root, c : c \in RestOf(root)' => c \in Created(bid') /\ bid'[c].root = root
    BY DEF RestOf, ChainOf
  <2>5. \A root \in Created(bid') : \A c, d \in RestOf(root)' : c = d
    <3> SUFFICES ASSUME NEW root \in Created(bid'), NEW c \in RestOf(root)',
                        NEW d \in RestOf(root)'
                 PROVE  c = d
      OBVIOUS
    <3>1. CASE root = posted
      BY <1>3, <2>3, <2>4, <3>1
    <3>2. CASE root # posted
      <4>1. c \in Created(bid) /\ d \in Created(bid)
        BY <1>3, <2>0, <2>4, <3>2
      <4>2. c \in RestOf(root) /\ d \in RestOf(root) /\ root \in Created(bid)
        BY <1>0, <1>1, <2>2, <2>4, <4>1 DEF OrdersRooted, BidsKept
      <4> QED
        BY <1>0, <4>2 DEF OneLeft
    <3> QED
      BY <3>1, <3>2
  <2> QED
    BY <2>5 DEF OneLeft
<1> QED
  BY <1>5, <1>6

LEMMA ChainInvNext == ChainInv /\ [BookNext]_book => ChainInv'
<1> SUFFICES ASSUME ChainInv, [BookNext]_book PROVE ChainInv'
  OBVIOUS
<1>1. LiquidityInv'
  BY LiquidityInvNext DEF ChainInv
<1> DEFINE Kept == ChainsHeld' /\ OneLeft'
<1>2. ASSUME UNCHANGED bid PROVE Kept
  BY <1>2, ChainsKept DEF BidsKept
<1>3. ASSUME NEW b \in Bids, LenderBid_Cancel(b) PROVE Kept
  <2>1. IsOpen(bid, b) /\ bid' = Archive(bid, b, "cancelled")
    BY <1>3 DEF LenderBid_Cancel
  <2>2. /\ Created(bid') = Created(bid)
        /\ \A c \in Bids : c # b => bid'[c] = bid[c]
        /\ bid'[b] = [bid[b] EXCEPT !.state = "cancelled"]
        /\ bid[b] \in BidContract
    BY <2>1, BidArchived DEF ChainInv, LiquidityInv, BookInv
  <2>3. BidsKept /\ bid'[b].state = "cancelled" /\ bid[b].state = "open"
    BY <2>1, <2>2 DEF BidsKept, Created, BidContract, ChainInv, LiquidityInv, BookInv, TypeOK,
       IsOpen
  <2> QED
    BY <2>2, <2>3, ChainsKept DEF Created, ChainInv, LiquidityInv, BookInv, TypeOK
<1>4. Kept
  <2>1. CASE UNCHANGED book
    BY <1>2, <2>1 DEF book
  <2>2. CASE Post
    <3>1. CASE \E l \in Lenders, a \in BidAmounts, rate \in Rates, d \in Durations :
                 CreateLenderBid(l, a, rate, d)
      BY <3>1, CreateBidChain
    <3>2. CASE \E br \in Borrowers, a \in AskAmounts, rate \in Rates, d \in Durations :
                 CreateBorrowerAsk(br, a, rate, d)
      BY <1>2, <3>2 DEF CreateBorrowerAsk
    <3> QED
      BY <2>2, <3>1, <3>2 DEF Post
  <2>3. CASE Cancel
    BY <1>2, <1>3, <2>3 DEF Cancel, BorrowerAsk_Cancel
  <2>4. CASE \E b \in Bids, k \in Asks : MatchOrders(b, k)
    BY <2>4, MatchChain
  <2>5. CASE \E p \in Proposals : \/ MatchedLoanProposal_Accept(p)
                                  \/ MatchedLoanProposal_Reject(p)
                                  \/ MatchedLoanProposal_Withdraw(p)
    BY <1>2, <2>5 DEF MatchedLoanProposal_Accept, MatchedLoanProposal_Reject,
       MatchedLoanProposal_Withdraw
  <2> QED
    BY <2>1, <2>2, <2>3, <2>4, <2>5 DEF BookNext
<1> QED
  BY <1>1, <1>4 DEF ChainInv

LEMMA ChainInvariant == BookSpec => []ChainInv
<1>1. BookInit => ChainInv
  <2> SUFFICES ASSUME BookInit PROVE ChainInv
    OBVIOUS
  <2>1. Created(bid) = {} /\ Created(proposal) = {}
    BY DEF BookInit, Created
  <2> QED
    BY <2>1, BookInvInit, FS_EmptySet DEF ChainInv, LiquidityInv, OrdersRooted,
       LiquidityConserved, ChainsHeld, OneLeft
<1> QED
  BY <1>1, ChainInvNext, PTL DEF BookSpec

\* What is left of the chain of an open bid is what that bid has left.
LEMMA OpenBidHasTheRest ==
  ASSUME ChainInv, NEW b \in Created(bid), IsOpen(bid, b)
  PROVE  /\ bid[b].root \in Created(bid)
         /\ ProposedFrom(bid[b].root) = bid[b].amount - bid[b].remaining
<1>1. PICK posted : posted = bid[b].root
  OBVIOUS
<1>2. /\ posted \in Created(bid) /\ bid[posted].root = posted
      /\ bid[b].amount = bid[posted].amount
  BY <1>1 DEF ChainInv, LiquidityInv, OrdersRooted, ChainsHeld
<1>3. RestOf(posted) = {b}
  BY <1>1, <1>2 DEF ChainInv, OneLeft, RestOf, ChainOf, IsOpen
<1>4. bid[b].remaining \in Int /\ bid[b].amount \in Int
  BY BookAssumption DEF Created, ChainInv, LiquidityInv, BookInv, TypeOK, BidContract
<1>5. LeftOf(posted) = bid[b].remaining
  <2> DEFINE left == Remainders(posted)
  <2>1. DOMAIN left = {b} /\ left[b] = bid[b].remaining
    BY <1>3 DEF Remainders
  <2> HIDE DEF left
  <2>2. SumFunctionOnSet(left, {} \cup {b}) = SumFunctionOnSet(left, {}) + left[b]
    BY <1>4, <2>1, SumIn, FS_EmptySet DEF Ints
  <2>3. SumFunction(left) = bid[b].remaining
    BY <1>4, <2>1, <2>2, SumEmpty DEF SumFunction
  <2> QED
    BY <2>3, SumsOfTerms DEF left
<1>6. ProposedFrom(posted) + LeftOf(posted) = bid[posted].amount
  BY <1>2 DEF ChainInv, LiquidityInv, LiquidityConserved
<1>7. ProposedFrom(posted) \in Int
  BY TermsAreInts, SumsOfTerms DEF ChainInv
<1> QED
  BY <1>1, <1>2, <1>4, <1>5, <1>6, <1>7

\* The badge mapLenderBid gives a bid on the book tells its past: "partial" when something
\* was proposed from it, "active" when nothing was, and "filled" only if it was posted with
\* nothing; however many times partial fills rewrote its amounts.
THEOREM BadgesTellFills == BookSpec => []BadgeTellsFills
<1>1. ChainInv => BadgeTellsFills
  <2> SUFFICES ASSUME ChainInv, NEW b \in OpenBids
               PROVE  /\ BidStatus(b) = "partial" => ProposedFrom(bid[b].root) > 0
                      /\ BidStatus(b) = "active" => ProposedFrom(bid[b].root) = 0
                      /\ BidStatus(b) = "filled" => bid[b].amount <= 0
    BY DEF BadgeTellsFills
  <2>1. b \in Created(bid) /\ IsOpen(bid, b)
    BY DEF OpenBids
  <2>2. ProposedFrom(bid[b].root) = bid[b].amount - bid[b].remaining
    BY <2>1, OpenBidHasTheRest
  <2>3. bid[b].remaining \in Int /\ bid[b].amount \in Int
    BY <2>1, BookAssumption DEF Created, ChainInv, LiquidityInv, BookInv, TypeOK, BidContract
  <2>4. \/ bid[b].remaining = bid[b].amount
        \/ 0 < bid[b].remaining /\ bid[b].remaining < bid[b].amount
    BY <2>1 DEF ChainInv, ChainsHeld
  <2>5. PICK left, posted : left = bid[b].remaining /\ posted = bid[b].amount
    OBVIOUS
  <2> QED
    BY <2>2, <2>3, <2>4, <2>5 DEF BidStatus
<1> QED
  BY <1>1, ChainInvariant, PTL

\* Until its owner cancels it, an order is among the orders its owner's screen lists, or
\* the proposal it was matched into is listed to him, unless that was answered.
THEOREM OrdersAlwaysInView == BookSpec => []OrdersStayInView
<1>1. BookInv => OrdersStayInView
  <2> SUFFICES ASSUME BookInv PROVE OrdersStayInView
    OBVIOUS
  <2>1. ASSUME NEW b \in Created(bid), bid[b].state # "cancelled"
        PROVE  \/ b \in MyLiquidityBids(bid[b].lender)
               \/ \E q \in Created(proposal) : proposal[q].bid = b /\
                    (q \in LenderProposals(bid[b].lender) \/ ~IsOpen(proposal, q))
    <3>1. bid[b].state \in {"open", "cancelled", "matched", "reduced"}
      BY DEF Created, BookInv, TypeOK, BidContract
    <3>2. CASE bid[b].state = "open"
      BY <3>2 DEF MyLiquidityBids, OpenBids, IsOpen
    <3>3. CASE bid[b].state \in {"matched", "reduced"}
      <4>1. PICK q \in Created(proposal) : proposal[q].bid = b
        BY <3>3 DEF BookInv, OrdersMatchedOnce, MatchedOnce
      <4>2. proposal[q].lender = bid[b].lender
        BY <4>1 DEF BookInv, ProposalsWithinLimits, WithinLimits
      <4> QED
        BY <4>1, <4>2 DEF LenderProposals, ListMatchedProposals
    <3> QED
      BY <2>1, <3>1, <3>2, <3>3
  <2>2. ASSUME NEW k \in Created(ask), ask[k].state # "cancelled"
        PROVE  \/ k \in MyOrderBookAsks(ask[k].borrower)
               \/ \E q \in Created(proposal) : proposal[q].ask = k /\
                    (q \in BorrowerProposals(ask[k].borrower) \/ ~IsOpen(proposal, q))
    <3>1. ask[k].state \in {"open", "cancelled", "matched"}
      BY DEF Created, BookInv, TypeOK, AskContract
    <3>2. CASE ask[k].state = "open"
      BY <3>2 DEF MyOrderBookAsks, OpenAsks, IsOpen
    <3>3. CASE ask[k].state = "matched"
      <4>1. PICK q \in Created(proposal) : proposal[q].ask = k
        BY <3>3 DEF BookInv, OrdersMatchedOnce, MatchedOnce
      <4>2. proposal[q].borrower = ask[k].borrower
        BY <4>1 DEF BookInv, ProposalsWithinLimits, WithinLimits
      <4> QED
        BY <4>1, <4>2 DEF BorrowerProposals, ListMatchedProposals
    <3> QED
      BY <2>2, <3>1, <3>2, <3>3
  <2> QED
    BY <2>1, <2>2 DEF OrdersStayInView
<1> QED
  BY <1>1, BookInvariant, PTL

-----------------------------------------------------------------------------
(***************************************************************************)
(* The aggregation of buildOrderBook.  A tier is the class of the orders   *)
(* on its terms, so a sum over the tiers is a sum over the orders.         *)
(***************************************************************************)
At(orders, terms, key) == {o \in orders : terms[o] = key}

TierOf(orders, terms, amount) ==
  [o \in orders |->
     [rate |-> terms[o][1], duration |-> terms[o][2],
      totalAmount |-> SumFunction([p \in At(orders, terms, terms[o]) |-> amount[p]]),
      orderCount |-> Cardinality(At(orders, terms, terms[o]))]]

\* Whether the terms of the orders are pairs of a rate and a duration.
ArePairs(terms, orders) == \A o \in orders : terms[o] = <<terms[o][1], terms[o][2]>>

LEMMA TiersAre ==
  ASSUME NEW orders, NEW terms, NEW amount
  PROVE  Tiers(orders, terms, amount) = {TierOf(orders, terms, amount)[o] : o \in orders}
BY DEF Tiers, TierOf, At

LEMMA TierIs ==
  ASSUME NEW orders, IsFiniteSet(orders), NEW terms, ArePairs(terms, orders),
         NEW amount, Ints(amount, orders), NEW tier, tier = TierOf(orders, terms, amount),
         NEW o \in orders
  PROVE  /\ {p \in orders : tier[p] = tier[o]} = At(orders, terms, terms[o])
         /\ tier[o].rate = terms[o][1]
         /\ tier[o].totalAmount = SumFunctionOnSet(amount, At(orders, terms, terms[o]))
         /\ tier[o].orderCount = Cardinality(At(orders, terms, terms[o]))
         /\ tier[o].totalAmount \in Int /\ tier[o].orderCount \in Nat
<1> DEFINE total == [p \in orders |->
                       SumFunction([q \in At(orders, terms, terms[p]) |-> amount[q]])]
           count == [p \in orders |-> Cardinality(At(orders, terms, terms[p]))]
<1>0. /\ total[o] = SumFunction([q \in At(orders, terms, terms[o]) |-> amount[q]])
      /\ count[o] = Cardinality(At(orders, terms, terms[o]))
  OBVIOUS
<1>1. \A p \in orders :
        tier[p] = [rate |-> terms[p][1], duration |-> terms[p][2],
                   totalAmount |-> total[p], orderCount |-> count[p]]
  BY DEF TierOf
<1>2. \A p \in orders : terms[p] = terms[o] => total[p] = total[o] /\ count[p] = count[o]
  OBVIOUS
<1> HIDE DEF total, count
<1>3. \A p \in orders : tier[p] = tier[o] <=> terms[p] = terms[o]
  <2>1. ASSUME NEW p \in orders, tier[p] = tier[o] PROVE terms[p] = terms[o]
    <3>1. tier[p] = [rate |-> terms[p][1], duration |-> terms[p][2],
                     totalAmount |-> total[p], orderCount |-> count[p]]
      BY <1>1
    <3>2. tier[o] = [rate |-> terms[o][1], duration |-> terms[o][2],
                     totalAmount |-> total[o], orderCount |-> count[o]]
      BY <1>1
    <3>3. tier[p].rate = terms[p][1] /\ tier[p].duration = terms[p][2]
      BY <3>1
    <3>4. tier[o].rate = terms[o][1] /\ tier[o].duration = terms[o][2]
      BY <3>2
    <3> QED
      BY <2>1, <3>3, <3>4 DEF ArePairs
  <2>2. ASSUME NEW p \in orders, terms[p] = terms[o] PROVE tier[p] = tier[o]
    BY <1>1, <1>2, <2>2
  <2> QED
    BY <2>1, <2>2
<1>4. PICK T : T = At(orders, terms, terms[o])
  OBVIOUS
<1>5. IsFiniteSet(T) /\ Ints(amount, T)
  BY <1>4, FS_Subset DEF At, Ints
<1>6. SumFunction([p \in T |-> amount[p]]) = SumFunctionOnSet(amount, T)
  <2> DEFINE f == [p \in T |-> amount[p]]
  <2>1. DOMAIN f = T /\ \A p \in T : f[p] = amount[p]
    OBVIOUS
  <2> HIDE DEF f
  <2>2. SumFunctionOnSet(f, T) = SumFunctionOnSet(amount, T)
    BY <1>5, <2>1, SumSame
  <2>3. SumFunction(f) = SumFunctionOnSet(amount, T)
    BY <2>1, <2>2 DEF SumFunction
  <2> QED
    BY <2>3 DEF f
<1>7. SumFunctionOnSet(amount, T) \in Int /\ Cardinality(T) \in Nat
  BY <1>5, SumInt, FS_CardinalityType
<1>8. /\ tier[o].rate = terms[o][1]
      /\ tier[o].totalAmount = SumFunction([p \in T |-> amount[p]])
      /\ tier[o].orderCount = Cardinality(T)
  <2>1. tier[o] = [rate |-> terms[o][1], duration |-> terms[o][2],
                   totalAmount |-> total[o], orderCount |-> count[o]]
    BY <1>1
  <2> QED
    BY <1>0, <1>4, <2>1
<1> QED
  BY <1>3, <1>4, <1>6, <1>7, <1>8 DEF At

\* The volume of the tiers is the sum of the amounts, and they count every order once.
LEMMA TiersAddUp ==
  ASSUME NEW orders, IsFiniteSet(orders), NEW terms, ArePairs(terms, orders),
         NEW amount, Ints(amount, orders), NEW tiers, tiers = Tiers(orders, terms, amount)
  PROVE  /\ IsFiniteSet(tiers)
         /\ \A t \in tiers : t.totalAmount \in Int
         /\ \A t \in tiers : \E o \in orders : t.rate = terms[o][1]
         /\ \A o \in orders : \E t \in tiers : t.rate = terms[o][1]
         /\ Volume(tiers) = SumFunctionOnSet(amount, orders)
         /\ Orders(tiers) = Cardinality(orders)
<1>1. PICK tier : tier = TierOf(orders, terms, amount)
  OBVIOUS
<1>2. tiers = {tier[o] : o \in orders}
  BY <1>1, TiersAre
<1>3. IsFiniteSet(tiers)
  <2>1. tier \in Surjection(orders, tiers)
    BY <1>1, <1>2 DEF TierOf, Surjection
  <2> QED
    BY <2>1, FS_Surjection
<1>4. \A o \in orders :
        /\ {p \in orders : tier[p] = tier[o]} = At(orders, terms, terms[o])
        /\ tier[o].rate = terms[o][1]
        /\ tier[o].totalAmount = SumFunctionOnSet(amount, At(orders, terms, terms[o]))
        /\ tier[o].orderCount = Cardinality(At(orders, terms, terms[o]))
        /\ tier[o].totalAmount \in Int /\ tier[o].orderCount \in Nat
  BY <1>1, TierIs
<1>5. \A o \in orders : tier[o] \in tiers
  BY <1>2
<1>6. PICK members : members = [t \in tiers |-> {o \in orders : tier[o] = t}]
  OBVIOUS
<1>7. \A t \in tiers : \A o : o \in members[t] <=> o \in orders /\ tier[o] = t
  BY <1>6
<1>8. Volume(tiers) = SumFunctionOnSet(amount, orders)
  <2> DEFINE f == [t \in tiers |-> t.totalAmount]
  <2>1. DOMAIN f = tiers /\ \A t \in tiers : f[t] = t.totalAmount
    OBVIOUS
  <2>2. \A o \in orders : tier[o].totalAmount = SumFunctionOnSet(amount, members[tier[o]])
    BY <1>4, <1>5, <1>6
  <2>3. \A t \in tiers : f[t] = SumFunctionOnSet(amount, members[t])
    BY <1>2, <2>1, <2>2
  <2> HIDE DEF f
  <2>4. SumFunctionOnSet(f, tiers) = SumFunctionOnSet(amount, orders)
    BY <1>3, <1>5, <1>7, <2>3, SumPartition
  <2>5. SumFunction(f) = SumFunctionOnSet(amount, orders)
    BY <2>1, <2>4 DEF SumFunction
  <2> QED
    BY <2>5 DEF f, Volume
<1>9. Orders(tiers) = Cardinality(orders)
  <2> DEFINE f == [t \in tiers |-> t.orderCount]
             ones == [o \in orders |-> 1]
  <2>1. \A o \in orders : ones[o] = 1
    OBVIOUS
  <2>2. DOMAIN f = tiers /\ \A t \in tiers : f[t] = t.orderCount
    OBVIOUS
  <2>3. \A o \in orders : tier[o].orderCount = Cardinality(members[tier[o]])
    BY <1>4, <1>5, <1>6
  <2>4. \A t \in tiers : f[t] = Cardinality(members[t])
    BY <1>2, <2>2, <2>3
  <2> HIDE DEF f, ones
  <2>5. \A t \in tiers : f[t] = SumFunctionOnSet(ones, members[t])
    <3> SUFFICES ASSUME NEW t \in tiers PROVE f[t] = SumFunctionOnSet(ones, members[t])
      OBVIOUS
    <3>1. PICK T : T = members[t]
      OBVIOUS
    <3>2. IsFiniteSet(T) /\ \A o \in T : ones[o] = 1
      BY <1>7, <2>1, <3>1, FS_Subset
    <3>3. SumFunctionOnSet(ones, T) = Cardinality(T)
      BY <3>2, SumOnes
    <3> QED
      BY <2>4, <3>1, <3>3
  <2>6. Ints(ones, orders)
    BY <2>1 DEF Ints
  <2>7. SumFunctionOnSet(f, tiers) = SumFunctionOnSet(ones, orders)
    BY <1>3, <1>5, <1>7, <2>5, <2>6, SumPartition
  <2>8. SumFunctionOnSet(ones, orders) = Cardinality(orders)
    BY <2>1, SumOnes
  <2>9. SumFunction(f) = Cardinality(orders)
    BY <2>2, <2>7, <2>8 DEF SumFunction
  <2> QED
    BY <2>9 DEF f, Orders
<1> QED
  BY <1>2, <1>3, <1>4, <1>5, <1>8, <1>9

\* What the rows' bars of a side show.
LEMMA RowsGrow ==
  ASSUME NEW tiers, IsFiniteSet(tiers), \A t \in tiers : t.totalAmount \in Int,
         NEW t \in tiers, NEW u \in tiers
  PROVE  /\ OrderBookSide(tiers)[t] <= 100
         /\ t.totalAmount <= u.totalAmount => OrderBookSide(tiers)[t] <= OrderBookSide(tiers)[u]
<1> DEFINE f == [v \in tiers |-> v.totalAmount]
           amounts == {v.totalAmount : v \in tiers} \cup {1}
<1>1. Ints(f, tiers) /\ \A v \in tiers : f[v] = v.totalAmount /\ v.totalAmount \in Int
  BY DEF Ints
<1>2. PICK top \in tiers : \A v \in tiers : v.totalAmount <= top.totalAmount
  <2> HIDE DEF f
  <2>1. PICK top \in tiers : \A v \in tiers : f[v] <= f[top]
    BY <1>1, HasGreatest
  <2> QED
    BY <1>1, <2>1
<1>3. \E m \in amounts : \A x \in amounts : m >= x
  <2>1. CASE top.totalAmount >= 1
    BY <1>1, <1>2, <2>1
  <2>2. CASE top.totalAmount <= 1
    BY <1>1, <1>2, <2>2
  <2> QED
    BY <1>1, <2>1, <2>2
<1>4. PICK m : m = Max(amounts)
  OBVIOUS
<1>5. m \in amounts /\ \A x \in amounts : m >= x
  BY <1>3, <1>4 DEF Max
<1>6. m \in Nat \ {0} /\ \A v \in tiers : v.totalAmount <= m
  BY <1>1, <1>5
<1>7. \A v \in tiers : OrderBookSide(tiers)[v] = (v.totalAmount * 100) \div m
  BY <1>4 DEF OrderBookSide
<1>8. PICK a, b : a = t.totalAmount /\ b = u.totalAmount
  OBVIOUS
<1>9. a \in Int /\ b \in Int /\ a <= m
  BY <1>1, <1>6, <1>8
<1>10. (a * 100) \div m <= 100
  BY <1>6, <1>9
<1>11. a <= b => (a * 100) \div m <= (b * 100) \div m
  BY <1>6, <1>9, DivMonotone
<1> QED
  BY <1>7, <1>8, <1>10, <1>11

\* No bar of the chart shows more than its side holds at that rate.
LEMMA BarsWithin ==
  ASSUME NEW tiers, IsFiniteSet(tiers), \A t \in tiers : t.totalAmount \in Int, NEW rate,
         NEW side, side = {t \in tiers : t.rate = rate}, \A t \in side : t.totalAmount >= 0,
         NEW bar \in ChartBars(tiers, rate)
  PROVE  bar <= Volume(side)
<1> DEFINE f == [t \in side |-> t.totalAmount]
<1>1. /\ IsFiniteSet(side) /\ DOMAIN f = side
      /\ \A t \in side : f[t] \in Nat /\ f[t] = t.totalAmount
  BY FS_Subset
<1>2. Volume(side) = SumFunction(f)
  BY DEF Volume
<1> HIDE DEF f
<1>3. CASE side = {}
  <2>1. bar = 0
    BY <1>3 DEF ChartBars
  <2>2. SumFunction(f) = 0
    BY <1>1, <1>3, SumEmpty DEF SumFunction
  <2> QED
    BY <1>2, <2>1, <2>2
<1>4. CASE side # {}
  <2>1. PICK t \in side : bar = t.totalAmount
    BY <1>4 DEF ChartBars
  <2>2. f[t] <= SumFunctionOnSet(f, side)
    BY <1>1, SumBounds
  <2> QED
    BY <1>1, <1>2, <2>1, <2>2 DEF SumFunction
<1> QED
  BY <1>3, <1>4

-----------------------------------------------------------------------------
(* The ends of a side of the book, and the rows next to the line *)

LEMMA ExtremesExist ==
  ASSUME NEW tiers, IsFiniteSet(tiers), tiers # {}, \A t \in tiers : t.rate \in Int
  PROVE  Lowest(tiers) # {} /\ Highest(tiers) # {}
<1> DEFINE f == [t \in tiers |-> t.rate]
<1>1. Ints(f, tiers) /\ \A t \in tiers : f[t] = t.rate
  BY DEF Ints
<1> HIDE DEF f
<1>2. PICK t \in tiers : \A u \in tiers : f[t] <= f[u]
  BY <1>1, HasLeast
<1>3. PICK v \in tiers : \A u \in tiers : f[u] <= f[v]
  BY <1>1, HasGreatest
<1>4. \A u \in tiers : t.rate <= u.rate /\ v.rate >= u.rate
  BY <1>1, <1>2, <1>3
<1> QED
  BY <1>4 DEF Lowest, Highest

\* The first row of a half has its highest rate and the last one its lowest.
LEMMA EndsOfHalf ==
  ASSUME NEW tiers, IsFiniteSet(tiers), \A t \in tiers : t.rate \in Int,
         NEW rows \in OrderBookHalf(tiers)
  PROVE  /\ rows = <<>> <=> tiers = {}
         /\ tiers # {} => /\ Lowest(tiers) = {rows[Len(rows)].rate}
                          /\ Highest(tiers) = {rows[1].rate}
<1>1. PICK n \in Nat : n = Cardinality(tiers)
  BY FS_CardinalityType
<1>2. /\ rows \in [1..n -> tiers]
      /\ \A i, j \in 1..n : i # j => rows[i] # rows[j]
      /\ \A i, j \in 1..n : i < j => rows[i].rate >= rows[j].rate
  BY <1>1 DEF OrderBookHalf, SetToSeqs
<1>3. rows \in Seq(tiers) /\ Len(rows) = n
  BY <1>2
<1>4. \A t \in tiers : \E i \in 1..n : rows[i] = t
  <2>1. rows \in Injection(1..n, tiers)
    BY <1>2 DEF Injection, IsInjective
  <2>2. Cardinality(1..n) = n
    BY FS_Interval
  <2>3. rows \in Surjection(1..n, tiers)
    BY <1>1, <2>1, <2>2, FS_Injection
  <2> QED
    BY <2>3 DEF Surjection
<1>5. tiers = {} <=> n = 0
  BY <1>1, FS_EmptySet
<1>6. rows = <<>> <=> n = 0
  BY <1>3
<1>7. ASSUME tiers # {}
      PROVE  /\ Lowest(tiers) = {rows[n].rate}
             /\ Highest(tiers) = {rows[1].rate}
  <2>1. n \in 1..n /\ 1 \in 1..n
    BY <1>5, <1>7
  <2>2. \A i \in 1..n : rows[i] \in tiers /\ rows[i].rate \in Int
    BY <1>2
  <2>3. \A i \in 1..n : rows[1].rate >= rows[i].rate /\ rows[i].rate >= rows[n].rate
    <3> SUFFICES ASSUME NEW i \in 1..n
                 PROVE  rows[1].rate >= rows[i].rate /\ rows[i].rate >= rows[n].rate
      OBVIOUS
    <3>1. i = 1 \/ 1 < i
      OBVIOUS
    <3>2. i = n \/ i < n
      OBVIOUS
    <3>3. rows[i].rate \in Int
      BY <2>2
    <3>4. rows[1].rate >= rows[i].rate
      BY <1>2, <2>1, <3>1, <3>3
    <3>5. rows[i].rate >= rows[n].rate
      BY <1>2, <2>1, <3>2, <3>3
    <3> QED
      BY <3>4, <3>5
  <2>4. \A t \in tiers : rows[1].rate >= t.rate /\ rows[n].rate <= t.rate
    <3> SUFFICES ASSUME NEW t \in tiers
                 PROVE  rows[1].rate >= t.rate /\ rows[n].rate <= t.rate
      OBVIOUS
    <3>1. PICK i \in 1..n : rows[i] = t
      BY <1>4
    <3>2. rows[i].rate \in Int /\ rows[n].rate \in Int
      BY <2>1, <2>2
    <3> QED
      BY <2>3, <3>1, <3>2
  <2>5. PICK first, last : first = rows[1] /\ last = rows[n]
    OBVIOUS
  <2>6. first \in tiers /\ last \in tiers
    BY <2>1, <2>2, <2>5
  <2>7. \A t \in tiers : first.rate >= t.rate /\ last.rate <= t.rate
    BY <2>4, <2>5
  <2>8. Lowest(tiers) = {last.rate}
    BY <2>6, <2>7 DEF Lowest
  <2>9. Highest(tiers) = {first.rate}
    BY <2>6, <2>7 DEF Highest
  <2> QED
    BY <2>5, <2>8, <2>9
<1> QED
  BY <1>3, <1>5, <1>6, <1>7

-----------------------------------------------------------------------------
(* The book's two sides *)

DepthInv == ChainInv /\ IsFiniteSet(Created(ask))

LEMMA DepthInvNext == DepthInv /\ [BookNext]_book => DepthInv'
<1> SUFFICES ASSUME DepthInv, [BookNext]_book PROVE DepthInv'
  OBVIOUS
<1>1. ChainInv'
  BY ChainInvNext DEF DepthInv
<1>2. ask \in [Asks -> AskContract \cup {NoContract}]
  BY DEF DepthInv, ChainInv, LiquidityInv, BookInv, TypeOK
<1>3. UNCHANGED ask \/ \E k \in Asks : \E new : ask' = [ask EXCEPT ![k] = new]
  <2>1. CASE UNCHANGED book
    BY <2>1 DEF book
  <2>2. CASE Post
    BY <1>2, <2>2 DEF Post, CreateLenderBid, CreateBorrowerAsk, Fresh
  <2>3. CASE Cancel
    BY <1>2, <2>3 DEF Cancel, LenderBid_Cancel, BorrowerAsk_Cancel, Archive
  <2>4. CASE \E b \in Bids, k \in Asks : MatchOrders(b, k)
    BY <1>2, <2>4 DEF MatchOrders, Archive
  <2>5. CASE \E p \in Proposals : \/ MatchedLoanProposal_Accept(p)
                                  \/ MatchedLoanProposal_Reject(p)
                                  \/ MatchedLoanProposal_Withdraw(p)
    BY <2>5 DEF MatchedLoanProposal_Accept, MatchedLoanProposal_Reject,
       MatchedLoanProposal_Withdraw
  <2> QED
    BY <2>1, <2>2, <2>3, <2>4, <2>5 DEF BookNext
<1>4. IsFiniteSet(Created(ask'))
  <2>1. CASE UNCHANGED ask
    BY <2>1 DEF DepthInv
  <2>2. ASSUME NEW k \in Asks, NEW new, ask' = [ask EXCEPT ![k] = new]
        PROVE  IsFiniteSet(Created(ask'))
    <3>1. Created(ask') \subseteq Created(ask) \cup {k}
      BY <1>2, <2>2 DEF Created
    <3>2. IsFiniteSet(Created(ask) \cup {k})
      BY FS_AddElement DEF DepthInv
    <3> QED
      BY <3>1, <3>2, FS_Subset
  <2> QED
    BY <1>3, <2>1, <2>2
<1> QED
  BY <1>1, <1>4 DEF DepthInv

LEMMA DepthInvariant == BookSpec => []DepthInv
<1>1. BookInit => DepthInv
  <2> SUFFICES ASSUME BookInit PROVE DepthInv
    OBVIOUS
  <2>1. Created(bid) = {} /\ Created(proposal) = {} /\ Created(ask) = {}
    BY DEF BookInit, Created
  <2> QED
    BY <2>1, BookInvInit, FS_EmptySet DEF DepthInv, ChainInv, LiquidityInv, OrdersRooted,
       LiquidityConserved, ChainsHeld, OneLeft
<1> QED
  BY <1>1, DepthInvNext, PTL DEF BookSpec

\* The open orders are finitely many and their terms and amounts are integers.
LEMMA OpenOrders ==
  ASSUME DepthInv
  PROVE  /\ IsFiniteSet(OpenBids) /\ IsFiniteSet(OpenAsks)
         /\ \A b \in OpenBids : bid[b].rate \in Int /\ bid[b].remaining \in Int
         /\ \A k \in OpenAsks : ask[k].rate \in Int /\ ask[k].amount \in Int
<1>1. OpenBids \subseteq Created(bid) /\ OpenAsks \subseteq Created(ask)
  BY DEF OpenBids, OpenAsks
<1>2. IsFiniteSet(OpenBids) /\ IsFiniteSet(OpenAsks)
  BY <1>1, FS_Subset DEF DepthInv, ChainInv, LiquidityInv
<1>3. \A b \in Created(bid) : bid[b] \in BidContract
  BY DEF Created, DepthInv, ChainInv, LiquidityInv, BookInv, TypeOK
<1>4. \A k \in Created(ask) : ask[k] \in AskContract
  BY DEF Created, DepthInv, ChainInv, LiquidityInv, BookInv, TypeOK
<1>5. \A b \in Created(bid) : bid[b].rate \in Int /\ bid[b].remaining \in Int
  BY <1>3, BookAssumption DEF BidContract
<1>6. \A k \in Created(ask) : ask[k].rate \in Int /\ ask[k].amount \in Int
  BY <1>4, BookAssumption DEF AskContract
<1> QED
  BY <1>1, <1>2, <1>5, <1>6

LEMMA AskTiersAddUp ==
  ASSUME DepthInv, NEW tiers, tiers = AskTiers(OpenBids)
  PROVE  /\ IsFiniteSet(tiers)
         /\ \A t \in tiers : t.totalAmount \in Int /\ t.rate \in Int
         /\ \A t \in tiers : \E b \in OpenBids : t.rate = bid[b].rate
         /\ \A b \in OpenBids : \E t \in tiers : t.rate = bid[b].rate
         /\ Volume(tiers) = SumFunction([b \in OpenBids |-> bid[b].remaining])
         /\ Orders(tiers) = Cardinality(OpenBids)
<1> DEFINE terms == [b \in OpenBids |-> <<bid[b].rate, bid[b].maxDuration>>]
           amount == [b \in OpenBids |-> bid[b].remaining]
<1>1. /\ IsFiniteSet(OpenBids)
      /\ \A b \in OpenBids : bid[b].rate \in Int /\ bid[b].remaining \in Int
  BY OpenOrders
<1>2. /\ ArePairs(terms, OpenBids) /\ Ints(amount, OpenBids)
      /\ \A b \in OpenBids : terms[b][1] = bid[b].rate
      /\ DOMAIN amount = OpenBids
  BY <1>1 DEF ArePairs, Ints
<1>3. tiers = Tiers(OpenBids, terms, amount)
  BY DEF AskTiers
<1>4. SumFunction([b \in OpenBids |-> bid[b].remaining]) = SumFunctionOnSet(amount, OpenBids)
  BY DEF SumFunction
<1> HIDE DEF terms, amount
<1>5. /\ IsFiniteSet(tiers)
      /\ \A t \in tiers : t.totalAmount \in Int
      /\ \A t \in tiers : \E b \in OpenBids : t.rate = terms[b][1]
      /\ \A b \in OpenBids : \E t \in tiers : t.rate = terms[b][1]
      /\ Volume(tiers) = SumFunctionOnSet(amount, OpenBids)
      /\ Orders(tiers) = Cardinality(OpenBids)
  BY <1>1, <1>2, <1>3, TiersAddUp
<1> QED
  BY <1>1, <1>2, <1>4, <1>5

LEMMA BidTiersAddUp ==
  ASSUME DepthInv, NEW tiers, tiers = BidTiers(OpenAsks)
  PROVE  /\ IsFiniteSet(tiers)
         /\ \A t \in tiers : t.totalAmount \in Int /\ t.rate \in Int
         /\ \A t \in tiers : \E k \in OpenAsks : t.rate = ask[k].rate
         /\ \A k \in OpenAsks : \E t \in tiers : t.rate = ask[k].rate
         /\ Volume(tiers) = SumFunction([k \in OpenAsks |-> ask[k].amount])
         /\ Orders(tiers) = Cardinality(OpenAsks)
<1> DEFINE terms == [k \in OpenAsks |-> <<ask[k].rate, ask[k].duration>>]
           amount == [k \in OpenAsks |-> ask[k].amount]
<1>1. /\ IsFiniteSet(OpenAsks)
      /\ \A k \in OpenAsks : ask[k].rate \in Int /\ ask[k].amount \in Int
  BY OpenOrders
<1>2. /\ ArePairs(terms, OpenAsks) /\ Ints(amount, OpenAsks)
      /\ \A k \in OpenAsks : terms[k][1] = ask[k].rate
      /\ DOMAIN amount = OpenAsks
  BY <1>1 DEF ArePairs, Ints
<1>3. tiers = Tiers(OpenAsks, terms, amount)
  BY DEF BidTiers
<1>4. SumFunction([k \in OpenAsks |-> ask[k].amount]) = SumFunctionOnSet(amount, OpenAsks)
  BY DEF SumFunction
<1> HIDE DEF terms, amount
<1>5. /\ IsFiniteSet(tiers)
      /\ \A t \in tiers : t.totalAmount \in Int
      /\ \A t \in tiers : \E k \in OpenAsks : t.rate = terms[k][1]
      /\ \A k \in OpenAsks : \E t \in tiers : t.rate = terms[k][1]
      /\ Volume(tiers) = SumFunctionOnSet(amount, OpenAsks)
      /\ Orders(tiers) = Cardinality(OpenAsks)
  BY <1>1, <1>2, <1>3, TiersAddUp
<1> QED
  BY <1>1, <1>2, <1>4, <1>5

-----------------------------------------------------------------------------
(***************************************************************************)
(* The depth of the market.  LiquidityConserved holds for each posted bid; *)
(* summed over all of them, the classes being the chains, it accounts for  *)
(* everything on the lenders' side of the book.                            *)
(***************************************************************************)
PostedRoots == {b \in Created(bid) : bid[b].root = b}
CancelledBids == {b \in Created(bid) : bid[b].state = "cancelled"}
ClosedAsks == {k \in Created(ask) : ask[k].state # "open"}

\* What all chains have left is open or was cancelled.
LEMMA OpenAndCancelled ==
  ASSUME DepthInv, NEW rest, \A b \in Created(bid) : rest[b] = bid[b].remaining
  PROVE  /\ IsFiniteSet(OpenBids \cup CancelledBids) /\ Ints(rest, OpenBids \cup CancelledBids)
         /\ SumFunctionOnSet(rest, OpenBids \cup CancelledBids)
              = SumFunctionOnSet(rest, OpenBids) + SumFunctionOnSet(rest, CancelledBids)
<1>1. PICK open, cancelled : open = OpenBids /\ cancelled = CancelledBids
  OBVIOUS
<1>2. /\ open \subseteq Created(bid) /\ cancelled \subseteq Created(bid)
      /\ open \cap cancelled = {}
  BY <1>1 DEF OpenBids, CancelledBids, IsOpen
<1>3. \A b \in Created(bid) : rest[b] \in Int
  BY DEF Created, DepthInv, ChainInv, LiquidityInv, BookInv, TypeOK, BidContract
<1>4. IsFiniteSet(open) /\ IsFiniteSet(cancelled)
  BY <1>2, FS_Subset DEF DepthInv, ChainInv, LiquidityInv
<1>5. Ints(rest, open) /\ Ints(rest, cancelled) /\ Ints(rest, open \cup cancelled)
  BY <1>2, <1>3 DEF Ints
<1>6. IsFiniteSet(open \cup cancelled)
  BY <1>4, FS_Union
<1>7. SumFunctionOnSet(rest, open \cup cancelled)
        = SumFunctionOnSet(rest, open) + SumFunctionOnSet(rest, cancelled)
  BY <1>2, <1>4, <1>5, SumUnion
<1> QED
  BY <1>1, <1>5, <1>6, <1>7

\* What was posted is what was proposed and what is left, over all chains.
LEMMA PostedIsProposedAndLeft ==
  ASSUME DepthInv,
         NEW posted, \A b \in PostedRoots : posted[b] = bid[b].amount,
         NEW rest, \A b \in Created(bid) : rest[b] = bid[b].remaining,
         NEW principals, \A p \in Created(proposal) : principals[p] = proposal[p].principal
  PROVE  SumFunctionOnSet(posted, PostedRoots)
           = SumFunctionOnSet(principals, Created(proposal))
             + SumFunctionOnSet(rest, OpenBids \cup CancelledBids)
<1>0. PICK proposed, left, rootOfP, rootOfB :
        /\ proposed = [b \in PostedRoots |-> ProposedFrom(b)]
        /\ left = [b \in PostedRoots |-> LeftOf(b)]
        /\ rootOfP = [p \in Created(proposal) |-> bid[proposal[p].bid].root]
        /\ rootOfB = [b \in OpenBids \cup CancelledBids |-> bid[b].root]
  OBVIOUS
<1>1. LiquidityInv /\ OrdersRooted
  BY DEF DepthInv, ChainInv, LiquidityInv
<1>2. PICK roots : roots = PostedRoots
  OBVIOUS
<1>3. IsFiniteSet(roots)
  BY <1>1, <1>2, FS_Subset DEF PostedRoots, LiquidityInv
<1>4. \A b \in roots : /\ ProposedFrom(b) \in Int /\ LeftOf(b) \in Int
                       /\ posted[b] = ProposedFrom(b) + LeftOf(b)
  BY <1>1, <1>2, TermsAreInts, SumsOfTerms DEF PostedRoots, LiquidityInv, LiquidityConserved
<1>5. SumFunctionOnSet(posted, roots)
        = SumFunctionOnSet(proposed, roots) + SumFunctionOnSet(left, roots)
  <2>1. Ints(proposed, roots) /\ Ints(left, roots)
    BY <1>0, <1>2, <1>4 DEF Ints
  <2>2. \A b \in roots : posted[b] = proposed[b] + left[b]
    BY <1>0, <1>2, <1>4
  <2> QED
    BY <1>3, <2>1, <2>2, SumPlus
<1>6. SumFunctionOnSet(proposed, roots) = SumFunctionOnSet(principals, Created(proposal))
  <2>1. PICK made : made = Created(proposal)
    OBVIOUS
  <2>2. IsFiniteSet(made) /\ Ints(principals, made)
    BY <1>1, <2>1 DEF LiquidityInv, BookInv, TypeOK, ProposalContract, Created, Ints
  <2>3. \A p \in made : rootOfP[p] \in roots
    BY <1>0, <1>1, <1>2, <2>1 DEF LiquidityInv, BookInv, ProposalsRefer, OrdersRooted, PostedRoots
  <2>4. PICK members : members = [b \in roots |-> MadeFrom(b)]
    OBVIOUS
  <2>5. \A b \in roots : proposed[b] = SumFunctionOnSet(principals, members[b])
    <3> SUFFICES ASSUME NEW b \in roots PROVE proposed[b] = SumFunctionOnSet(principals, members[b])
      OBVIOUS
    <3>0. PICK f, T : f = Principals(b) /\ T = MadeFrom(b)
      OBVIOUS
    <3>1. members[b] = T
      BY <2>4, <3>0
    <3>2. DOMAIN f = T /\ \A p \in T : f[p] = principals[p]
      BY <3>0 DEF Principals, MadeFrom
    <3>3. IsFiniteSet(T)
      BY <1>1, <3>0, TermsAreInts
    <3>4. proposed[b] = SumFunction(f)
      BY <1>0, <1>2, <3>0, SumsOfTerms
    <3>5. SumFunctionOnSet(f, T) = SumFunctionOnSet(principals, T)
      BY <3>2, <3>3, SumSame
    <3>6. SumFunction(f) = SumFunctionOnSet(f, T)
      BY <3>2 DEF SumFunction
    <3> QED
      BY <3>1, <3>4, <3>5, <3>6
  <2>6. \A b \in roots : \A p : p \in members[b] <=> p \in made /\ rootOfP[p] = b
    BY <1>0, <2>1, <2>4 DEF MadeFrom
  <2>7. SumFunctionOnSet(proposed, roots) = SumFunctionOnSet(principals, made)
    BY <1>3, <2>2, <2>3, <2>5, <2>6, SumPartition
  <2> QED
    BY <2>1, <2>7
<1>7. SumFunctionOnSet(left, roots) = SumFunctionOnSet(rest, OpenBids \cup CancelledBids)
  <2>1. PICK kept : kept = OpenBids \cup CancelledBids
    OBVIOUS
  <2>2. IsFiniteSet(kept) /\ Ints(rest, kept)
    BY <2>1, OpenAndCancelled
  <2>3. kept = {b \in Created(bid) : bid[b].state \in {"open", "cancelled"}}
    BY <2>1 DEF OpenBids, CancelledBids, IsOpen
  <2>4. \A b \in kept : rootOfB[b] \in roots
    BY <1>0, <1>1, <1>2, <2>1, <2>3 DEF OrdersRooted, PostedRoots
  <2>5. PICK members : members = [b \in roots |-> RestOf(b)]
    OBVIOUS
  <2>6. \A b \in roots : left[b] = SumFunctionOnSet(rest, members[b])
    <3> SUFFICES ASSUME NEW b \in roots PROVE left[b] = SumFunctionOnSet(rest, members[b])
      OBVIOUS
    <3>0. PICK f, T : f = Remainders(b) /\ T = RestOf(b)
      OBVIOUS
    <3>1. members[b] = T
      BY <2>5, <3>0
    <3>2. DOMAIN f = T /\ \A c \in T : f[c] = rest[c]
      BY <3>0 DEF Remainders, RestOf, ChainOf
    <3>3. IsFiniteSet(T)
      BY <1>1, <3>0, TermsAreInts
    <3>4. left[b] = SumFunction(f)
      BY <1>0, <1>2, <3>0, SumsOfTerms
    <3>5. SumFunctionOnSet(f, T) = SumFunctionOnSet(rest, T)
      BY <3>2, <3>3, SumSame
    <3>6. SumFunction(f) = SumFunctionOnSet(f, T)
      BY <3>2 DEF SumFunction
    <3> QED
      BY <3>1, <3>4, <3>5, <3>6
  <2>7. \A b \in roots : \A c : c \in members[b] <=> c \in kept /\ rootOfB[c] = b
    BY <1>0, <2>1, <2>3, <2>5 DEF RestOf, ChainOf
  <2>8. SumFunctionOnSet(left, roots) = SumFunctionOnSet(rest, kept)
    BY <1>3, <2>2, <2>4, <2>6, <2>7, SumPartition
  <2> QED
    BY <2>1, <2>8
<1> QED
  BY <1>2, <1>5, <1>6, <1>7

LEMMA AskVolume ==
  ASSUME DepthInv
  PROVE  SumFunction([b \in OpenBids |-> bid[b].remaining])
           = SumFunction([b \in PostedRoots |-> bid[b].amount])
             - SumFunction([q \in Created(proposal) |-> proposal[q].principal])
             - SumFunction([b \in CancelledBids |-> bid[b].remaining])
<1> DEFINE posted     == [b \in PostedRoots |-> bid[b].amount]
           rest       == [b \in Created(bid) |-> bid[b].remaining]
           principals == [p \in Created(proposal) |-> proposal[p].principal]
           open       == [b \in OpenBids |-> bid[b].remaining]
           cancelled  == [b \in CancelledBids |-> bid[b].remaining]
<1>1. /\ DOMAIN posted = PostedRoots /\ DOMAIN principals = Created(proposal)
      /\ DOMAIN open = OpenBids /\ DOMAIN cancelled = CancelledBids
      /\ \A b \in OpenBids : open[b] = rest[b]
      /\ \A b \in CancelledBids : cancelled[b] = rest[b]
      /\ OpenBids \subseteq Created(bid) /\ CancelledBids \subseteq Created(bid)
      /\ \A b \in PostedRoots : posted[b] = bid[b].amount
      /\ \A b \in Created(bid) : rest[b] = bid[b].remaining
      /\ \A p \in Created(proposal) : principals[p] = proposal[p].principal
  BY DEF OpenBids, CancelledBids
<1> HIDE DEF posted, rest, principals, open, cancelled
<1>2. /\ IsFiniteSet(OpenBids) /\ IsFiniteSet(CancelledBids)
      /\ IsFiniteSet(Created(proposal))
  BY <1>1, FS_Subset DEF DepthInv, ChainInv, LiquidityInv
<1>3. SumFunctionOnSet(posted, PostedRoots)
        = SumFunctionOnSet(principals, Created(proposal))
          + SumFunctionOnSet(rest, OpenBids \cup CancelledBids)
  BY <1>1, PostedIsProposedAndLeft
<1>4. SumFunctionOnSet(rest, OpenBids \cup CancelledBids)
        = SumFunctionOnSet(rest, OpenBids) + SumFunctionOnSet(rest, CancelledBids)
  BY <1>1, OpenAndCancelled
<1>5. /\ \A b \in Created(bid) : rest[b] \in Int
      /\ \A p \in Created(proposal) : principals[p] \in Int
  BY <1>1 DEF Created, DepthInv, ChainInv, LiquidityInv, BookInv, TypeOK, BidContract,
     ProposalContract
<1>6. PICK o, c, p : o = OpenBids /\ c = CancelledBids /\ p = Created(proposal)
  OBVIOUS
<1>7. Ints(rest, o) /\ Ints(rest, c) /\ Ints(principals, p)
  BY <1>1, <1>5, <1>6 DEF Ints
<1>8. /\ SumFunctionOnSet(open, o) = SumFunctionOnSet(rest, o)
      /\ SumFunctionOnSet(cancelled, c) = SumFunctionOnSet(rest, c)
  BY <1>1, <1>2, <1>6, SumSame
<1>9. /\ SumFunctionOnSet(rest, o) \in Int /\ SumFunctionOnSet(rest, c) \in Int
      /\ SumFunctionOnSet(principals, p) \in Int
  BY <1>2, <1>6, <1>7, SumInt
<1>10. /\ SumFunction(open) = SumFunctionOnSet(open, o)
       /\ SumFunction(cancelled) = SumFunctionOnSet(cancelled, c)
       /\ SumFunction(principals) = SumFunctionOnSet(principals, p)
       /\ SumFunction(posted) = SumFunctionOnSet(posted, PostedRoots)
  BY <1>1, <1>6 DEF SumFunction
<1>11. SumFunction(open) = SumFunction(posted) - SumFunction(principals) - SumFunction(cancelled)
  BY <1>3, <1>4, <1>6, <1>8, <1>9, <1>10
<1> QED
  BY <1>11 DEF posted, principals, open, cancelled

LEMMA BidVolume ==
  ASSUME DepthInv
  PROVE  SumFunction([k \in OpenAsks |-> ask[k].amount])
           = SumFunction([k \in Created(ask) |-> ask[k].amount])
             - SumFunction([k \in ClosedAsks |-> ask[k].amount])
<1> DEFINE all    == [k \in Created(ask) |-> ask[k].amount]
           open   == [k \in OpenAsks |-> ask[k].amount]
           closed == [k \in ClosedAsks |-> ask[k].amount]
<1>1. PICK o, c : o = OpenAsks /\ c = ClosedAsks
  OBVIOUS
<1>2. o \cup c = Created(ask) /\ o \cap c = {}
  BY <1>1 DEF OpenAsks, ClosedAsks, IsOpen
<1>3. IsFiniteSet(o) /\ IsFiniteSet(c)
  BY <1>2, FS_Subset DEF DepthInv
<1>4. \A k \in Created(ask) : ask[k].amount \in Int
  BY BookAssumption DEF Created, DepthInv, ChainInv, LiquidityInv, BookInv, TypeOK, AskContract
<1>5. /\ Ints(all, o) /\ Ints(all, c)
      /\ \A k \in o : open[k] = all[k]
      /\ \A k \in c : closed[k] = all[k]
      /\ DOMAIN all = o \cup c /\ DOMAIN open = o /\ DOMAIN closed = c
  BY <1>1, <1>2, <1>4 DEF Ints
<1> HIDE DEF all, open, closed
<1>6. SumFunctionOnSet(all, o \cup c) = SumFunctionOnSet(all, o) + SumFunctionOnSet(all, c)
  BY <1>2, <1>3, <1>5, SumUnion
<1>7. /\ SumFunctionOnSet(open, o) = SumFunctionOnSet(all, o)
      /\ SumFunctionOnSet(closed, c) = SumFunctionOnSet(all, c)
  BY <1>3, <1>5, SumSame
<1>8. SumFunctionOnSet(all, o) \in Int /\ SumFunctionOnSet(all, c) \in Int
  BY <1>3, <1>5, SumInt
<1>9. SumFunction(open) = SumFunction(all) - SumFunction(closed)
  BY <1>5, <1>6, <1>7, <1>8 DEF SumFunction
<1> QED
  BY <1>9 DEF all, open, closed

\* The figures and the rows market-depth.tsx makes of the tiers add up: what they show is
\* what was posted and neither proposed from nor taken back, and every open order is
\* counted once.  The chart's bars do not add up, since each shows one tier of its rate:
\* where no tier of a rate is negative, none shows more than the book holds there.
THEOREM DepthAlwaysAddsUp == BookSpec => []DepthAddsUp
<1>1. DepthInv => DepthAddsUp
  <2> SUFFICES ASSUME DepthInv PROVE DepthAddsUp
    OBVIOUS
  <2>1. PICK asks, bids : asks = AskTiers(OpenBids) /\ bids = BidTiers(OpenAsks)
    OBVIOUS
  <2>2. PICK view : view = [asks |-> asks, bids |-> bids, spread |-> Spread(asks, bids)]
    OBVIOUS
  <2>3. CurrentView = view /\ view.asks = asks /\ view.bids = bids
    BY <2>1, <2>2 DEF CurrentView, BuildOrderBook
  <2>4. /\ IsFiniteSet(asks) /\ \A t \in asks : t.totalAmount \in Int
        /\ Volume(asks) = SumFunction([b \in OpenBids |-> bid[b].remaining])
        /\ Orders(asks) = Cardinality(OpenBids)
    BY <2>1, AskTiersAddUp
  <2>5. /\ IsFiniteSet(bids) /\ \A t \in bids : t.totalAmount \in Int
        /\ Volume(bids) = SumFunction([k \in OpenAsks |-> ask[k].amount])
        /\ Orders(bids) = Cardinality(OpenAsks)
    BY <2>1, BidTiersAddUp
  <2>6. PICK depth : depth = MarketDepth(view)
    OBVIOUS
  <2>7. /\ depth.stats.askVolume = Volume(asks) /\ depth.stats.bidVolume = Volume(bids)
        /\ depth.stats.orders = Orders(asks) + Orders(bids)
        /\ depth.asks.orders = Orders(asks) /\ depth.bids.orders = Orders(bids)
        /\ depth.asks.rows = OrderBookSide(asks) /\ depth.bids.rows = OrderBookSide(bids)
        /\ depth.chart = DepthChart(view)
    BY <2>3, <2>6 DEF MarketDepth, SummaryStats
  <2>8. depth.stats.askVolume =
          SumFunction([b \in {b \in Created(bid) : bid[b].root = b} |-> bid[b].amount])
            - SumFunction([q \in Created(proposal) |-> proposal[q].principal])
            - SumFunction([b \in {b \in Created(bid) : bid[b].state = "cancelled"}
                             |-> bid[b].remaining])
    BY <2>4, <2>7, AskVolume DEF PostedRoots, CancelledBids
  <2>9. depth.stats.bidVolume =
          SumFunction([k \in Created(ask) |-> ask[k].amount])
            - SumFunction([k \in {k \in Created(ask) : ask[k].state # "open"} |-> ask[k].amount])
    BY <2>5, <2>7, BidVolume DEF ClosedAsks
  <2>10. \A rate \in DOMAIN depth.chart, i \in 1..2 :
           LET side == {t \in <<view.asks, view.bids>>[i] : t.rate = rate}
           IN (\A t \in side : t.totalAmount >= 0) =>
                \A bar \in depth.chart[rate][i] : bar <= Volume(side)
    <3> SUFFICES ASSUME NEW rate \in DOMAIN depth.chart, NEW i \in 1..2,
                        NEW side, side = {t \in <<view.asks, view.bids>>[i] : t.rate = rate},
                        \A t \in side : t.totalAmount >= 0,
                        NEW bar \in depth.chart[rate][i]
                 PROVE  bar <= Volume(side)
      OBVIOUS
    <3>1. depth.chart[rate] = <<ChartBars(asks, rate), ChartBars(bids, rate)>>
      BY <2>3, <2>7 DEF DepthChart
    <3>2. CASE i = 1
      BY <2>3, <2>4, <3>1, <3>2, BarsWithin
    <3>3. CASE i = 2
      BY <2>3, <2>5, <3>1, <3>3, BarsWithin
    <3> QED
      BY <3>2, <3>3
  <2>11. \A rows \in {depth.asks.rows, depth.bids.rows} : \A t, u \in DOMAIN rows :
           rows[t] <= 100 /\ (t.totalAmount <= u.totalAmount => rows[t] <= rows[u])
    <3>1. /\ DOMAIN OrderBookSide(asks) = asks /\ DOMAIN OrderBookSide(bids) = bids
      BY DEF OrderBookSide
    <3>2. \A t, u \in asks :
            /\ OrderBookSide(asks)[t] <= 100
            /\ t.totalAmount <= u.totalAmount => OrderBookSide(asks)[t] <= OrderBookSide(asks)[u]
      BY <2>4, RowsGrow
    <3>3. \A t, u \in bids :
            /\ OrderBookSide(bids)[t] <= 100
            /\ t.totalAmount <= u.totalAmount => OrderBookSide(bids)[t] <= OrderBookSide(bids)[u]
      BY <2>5, RowsGrow
    <3> QED
      BY <2>7, <3>1, <3>2, <3>3
  <2>12. DepthAddsUp <=>
           /\ depth.stats.askVolume =
                SumFunction([b \in {b \in Created(bid) : bid[b].root = b} |-> bid[b].amount])
                  - SumFunction([q \in Created(proposal) |-> proposal[q].principal])
                  - SumFunction([b \in {b \in Created(bid) : bid[b].state = "cancelled"}
                                   |-> bid[b].remaining])
           /\ depth.stats.bidVolume =
                SumFunction([k \in Created(ask) |-> ask[k].amount])
                  - SumFunction([k \in {k \in Created(ask) : ask[k].state # "open"}
                                   |-> ask[k].amount])
           /\ depth.stats.orders = Cardinality(OpenBids) + Cardinality(OpenAsks)
           /\ depth.asks.orders = Cardinality(OpenBids)
           /\ depth.bids.orders = Cardinality(OpenAsks)
           /\ \A rate \in DOMAIN depth.chart, i \in 1..2 :
                LET side == {t \in <<view.asks, view.bids>>[i] : t.rate = rate}
                IN (\A t \in side : t.totalAmount >= 0) =>
                     \A bar \in depth.chart[rate][i] : bar <= Volume(side)
           /\ \A rows \in {depth.asks.rows, depth.bids.rows} : \A t, u \in DOMAIN rows :
                rows[t] <= 100 /\ (t.totalAmount <= u.totalAmount => rows[t] <= rows[u])
    BY <2>3, <2>6 DEF DepthAddsUp
  <2> QED
    BY <2>4, <2>5, <2>7, <2>8, <2>9, <2>10, <2>11, <2>12
<1> QED
  BY <1>1, DepthInvariant, PTL

\* While the spread order-book.tsx shows is positive no open pair crosses, so the engine
\* has nothing to match; and it is the difference of the rates of the two rows around it,
\* in whatever order the tiers of one rate are listed.
THEOREM SpreadAlwaysTellsCrossing == BookSpec => []SpreadTellsCrossing
<1>1. DepthInv => SpreadTellsCrossing
  <2> SUFFICES ASSUME DepthInv PROVE SpreadTellsCrossing
    OBVIOUS
  <2>1. PICK asks, bids : asks = AskTiers(OpenBids) /\ bids = BidTiers(OpenAsks)
    OBVIOUS
  <2>2. /\ CurrentView.spread = Spread(asks, bids)
        /\ CurrentView.asks = asks /\ CurrentView.bids = bids
    BY <2>1 DEF CurrentView, BuildOrderBook
  <2>3. /\ IsFiniteSet(asks) /\ \A t \in asks : t.rate \in Int
        /\ \A b \in OpenBids : \E t \in asks : t.rate = bid[b].rate
    BY <2>1, AskTiersAddUp
  <2>4. /\ IsFiniteSet(bids) /\ \A t \in bids : t.rate \in Int
        /\ \A k \in OpenAsks : \E t \in bids : t.rate = ask[k].rate
    BY <2>1, BidTiersAddUp
  <2>5. ASSUME \A s \in CurrentView.spread : s > 0, NEW b \in OpenBids, NEW k \in OpenAsks
        PROVE  ~Crosses(b, k)
    <3>1. PICK t \in asks, u \in bids : t.rate = bid[b].rate /\ u.rate = ask[k].rate
      BY <2>3, <2>4
    <3>2. PICK low \in Lowest(asks), high \in Highest(bids) : TRUE
      BY <2>3, <2>4, <3>1, ExtremesExist
    <3>3. low - high > 0
      BY <2>2, <2>5 DEF Spread
    <3>4. low <= t.rate /\ u.rate <= high
      BY <2>3, <2>4 DEF Lowest, Highest
    <3>5. low \in Int /\ high \in Int /\ t.rate \in Int /\ u.rate \in Int
      BY <2>3, <2>4 DEF Lowest, Highest
    <3>6. u.rate < t.rate
      BY <3>3, <3>4, <3>5
    <3> QED
      BY <3>1, <3>5, <3>6 DEF Crosses
  <2>6. ASSUME NEW table \in BookTable(CurrentView)
        PROVE  table.line = IF table.above = <<>> \/ table.below = <<>> THEN {}
                            ELSE {table.above[Len(table.above)].rate - table.below[1].rate}
    <3>1. PICK above \in OrderBookHalf(asks), below \in OrderBookHalf(bids) :
            table = [above |-> above, line |-> CurrentView.spread, below |-> below]
      BY <2>2 DEF BookTable
    <3>2. table.above = above /\ table.below = below /\ table.line = Spread(asks, bids)
      BY <2>2, <3>1
    <3>3. /\ above = <<>> <=> asks = {}
          /\ asks # {} => Lowest(asks) = {above[Len(above)].rate}
      BY <2>3, EndsOfHalf
    <3>4. /\ below = <<>> <=> bids = {}
          /\ bids # {} => Highest(bids) = {below[1].rate}
      BY <2>4, EndsOfHalf
    <3>5. CASE asks = {} \/ bids = {}
      BY <3>2, <3>3, <3>4, <3>5 DEF Spread, Lowest, Highest
    <3>6. CASE asks # {} /\ bids # {}
      <4>1. PICK low, high : low = above[Len(above)].rate /\ high = below[1].rate
        OBVIOUS
      <4>2. Lowest(asks) = {low} /\ Highest(bids) = {high}
        BY <3>3, <3>4, <3>6, <4>1
      <4>3. Spread(asks, bids) = {low - high}
        BY <4>2 DEF Spread
      <4> QED
        BY <3>2, <3>3, <3>4, <3>6, <4>1, <4>3
    <3> QED
      BY <3>5, <3>6
  <2> QED
    BY <2>5, <2>6 DEF SpreadTellsCrossing
<1> QED
  BY <1>1, DepthInvariant, PTL
=============================================================================
