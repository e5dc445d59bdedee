---------------------------- MODULE MarketMaker -----------------------------
(***************************************************************************)
(* The order book of Loan/MarketMaker.daml: lenders post bids, borrowers   *)
(* post asks, the platform's MatchingEngine turns a crossing pair into a   *)
(* proposal, and the proposal becomes a Loan, is rejected or is withdrawn. *)
(* One action is one ledger transaction.  Contracts keep their entry once  *)
(* archived, with the choice that archived them, as in LoanLedger.         *)
(*                                                                         *)
(* Who decides which pairs are matched, and in which order, is the matter  *)
(* of MatchingService; here any pair the ledger accepts may be matched.    *)
(***************************************************************************)
EXTENDS Integers, FiniteSets, Functions

CONSTANTS
  Lenders, Borrowers,
  BidAmounts, AskAmounts, \* amounts a client may post; the API accepts any number
  Rates, Durations,
  PostedOrders,           \* bound on the bids and asks posted
  Bids, Asks, Proposals,  \* bounds: the contract ids of each template
  NoContract

ASSUME BookAssumption ==
  /\ BidAmounts \subseteq Int /\ AskAmounts \subseteq Int
  /\ Rates \subseteq Int
  /\ Durations \subseteq Int
  /\ \A ids \in {Bids, Asks, Proposals} : ids \subseteq Nat

VARIABLES
  bid,       \* LenderBid
  ask,       \* BorrowerAsk
  proposal   \* MatchedLoanProposal

book == <<bid, ask, proposal>>

-----------------------------------------------------------------------------
BidContract == [lender : Lenders, amount : BidAmounts, remaining : Int, rate : Rates,
                maxDuration : Durations,
                root  : Bids,     \* the bid that was posted (history)
                state : {"open", "cancelled", "matched", "reduced"}]

AskContract == [borrower : Borrowers, amount : AskAmounts, rate : Rates, duration : Durations,
                state : {"open", "cancelled", "matched"}]

ProposalContract == [lender : Lenders, borrower : Borrowers, principal : Int, rate : Int,
                     duration : Durations,
                     bid : Bids, ask : Asks,    \* the orders it came from (history)
                     state : {"open", "accepted", "rejected", "withdrawn"}]

\* NoContract stands for the absence of a contract, so it is none.
ASSUME NoOrderAssumption ==
  NoContract \notin BidContract \cup AskContract \cup ProposalContract

Created(contracts) == {c \in DOMAIN contracts : contracts[c] # NoContract}

IsOpen(contracts, c) == c \in Created(contracts) /\ contracts[c].state = "open"

\* The next id to hand out.
Fresh(contracts) ==
  {c \in DOMAIN contracts : /\ contracts[c] = NoContract
                            /\ \A d \in DOMAIN contracts : d < c => contracts[d] # NoContract}

Archive(contracts, c, how) == [contracts EXCEPT ![c].state = how]

TypeOK ==
  /\ bid      \in [Bids      -> BidContract      \cup {NoContract}]
  /\ ask      \in [Asks      -> AskContract      \cup {NoContract}]
  /\ proposal \in [Proposals -> ProposalContract \cup {NoContract}]

-----------------------------------------------------------------------------
BookInit ==
  /\ bid      = [c \in Bids      |-> NoContract]
  /\ ask      = [c \in Asks      |-> NoContract]
  /\ proposal = [c \in Proposals |-> NoContract]

PostedCount == Cardinality({b \in Created(bid) : bid[b].root = b}) + Cardinality(Created(ask))

CreateLenderBid(l, a, rate, d) ==
  /\ PostedCount < PostedOrders
  /\ \E b \in Fresh(bid) :
       bid' = [bid EXCEPT ![b] = [lender |-> l, amount |-> a, remaining |-> a, rate |-> rate,
                                  maxDuration |-> d, root |-> b, state |-> "open"]]
  /\ UNCHANGED <<ask, proposal>>

\* Bug: the state a withdrawn proposal has.
LenderBid_Cancel_Renamed(b) ==
  /\ IsOpen(bid, b)
  /\ bid' = Archive(bid, b, "withdrawn")
  /\ UNCHANGED <<ask, proposal>>

LenderBid_Cancel(b) ==
  /\ IsOpen(bid, b)
  /\ bid' = Archive(bid, b, "cancelled")
  /\ UNCHANGED <<ask, proposal>>

CreateBorrowerAsk(br, a, rate, d) ==
  /\ PostedCount < PostedOrders
  /\ \E k \in Fresh(ask) :
       ask' = [ask EXCEPT ![k] = [borrower |-> br, amount |-> a, rate |-> rate,
                                  duration |-> d, state |-> "open"]]
  /\ UNCHANGED <<bid, proposal>>

BorrowerAsk_Cancel(k) ==
  /\ IsOpen(ask, k)
  /\ ask' = Archive(ask, k, "cancelled")
  /\ UNCHANGED <<bid, proposal>>

-----------------------------------------------------------------------------
(* Matching *)

\* Bug: the duration is not compared.
Crosses_AnyDuration(b, k) == bid[b].rate <= ask[k].rate

\* The two requirements on the terms, which the matching cycle checks as well.
Crosses(b, k) == bid[b].rate <= ask[k].rate /\ ask[k].duration <= bid[b].maxDuration

MatchedAmount(b, k) == IF ask[k].amount < bid[b].remaining THEN ask[k].amount
                                                           ELSE bid[b].remaining

\* (minInterestRate + maxInterestRate) / 2.0, on rates where it is exact.
AgreedRate(b, k) == (bid[b].rate + ask[k].rate) \div 2

\* LenderBid_MatchConsume.
ConsumeBid(b) == bid' = Archive(bid, b, "matched")

\* Bug: the successor keeps the whole remaining amount.
ReduceRemaining_Unreduced(b, newRemaining) ==
  \E next \in Fresh(bid) :
    bid' = [bid EXCEPT ![b].state = "reduced", ![next] = bid[b]]

\* LenderBid_ReduceRemaining: b is archived and its successor holds the rest.
ReduceRemaining(b, newRemaining) ==
  \E next \in Fresh(bid) :
    bid' = [bid EXCEPT ![b].state = "reduced",
                       ![next] = [bid[b] EXCEPT !.remaining = newRemaining]]

\* Whether MatchOrders commits: both orders are active, the terms cross, and a
\* bid that is not used up is reduced to less, but to something.
CanMatch(b, k) ==
  /\ IsOpen(bid, b) /\ IsOpen(ask, k)
  /\ Crosses(b, k)
  /\ LET rest == bid[b].remaining - MatchedAmount(b, k)
     IN rest = 0 \/ (rest > 0 /\ rest < bid[b].remaining)

\* Bug: the ask is not consumed.
MatchOrders_KeepsAsk(b, k) ==
  LET amount == MatchedAmount(b, k) IN
  /\ CanMatch(b, k)
  /\ IF amount = bid[b].remaining THEN ConsumeBid(b)
                                  ELSE ReduceRemaining(b, bid[b].remaining - amount)
  /\ \E p \in Fresh(proposal) :
       proposal' = [proposal EXCEPT ![p] =
         [lender |-> bid[b].lender, borrower |-> ask[k].borrower, principal |-> amount,
          rate |-> AgreedRate(b, k), duration |-> ask[k].duration,
          bid |-> b, ask |-> k, state |-> "open"]]
  /\ UNCHANGED ask

\* The ask is consumed whatever part of it the bid fills.
MatchOrders(b, k) ==
  LET amount == MatchedAmount(b, k) IN
  /\ CanMatch(b, k)
  /\ ask' = Archive(ask, k, "matched")
  /\ IF amount = bid[b].remaining THEN ConsumeBid(b)
                                  ELSE ReduceRemaining(b, bid[b].remaining - amount)
  /\ \E p \in Fresh(proposal) :
       proposal' = [proposal EXCEPT ![p] =
         [lender |-> bid[b].lender, borrower |-> ask[k].borrower, principal |-> amount,
          rate |-> AgreedRate(b, k), duration |-> ask[k].duration,
          bid |-> b, ask |-> k, state |-> "open"]]

\* Accepting creates a Loan on the proposal's terms in the same transaction: the
\* loan is the accepted proposal.
MatchedLoanProposal_Accept(p) ==
  /\ IsOpen(proposal, p)
  /\ proposal' = Archive(proposal, p, "accepted")
  /\ UNCHANGED <<bid, ask>>

MatchedLoanProposal_Reject(p) ==
  /\ IsOpen(proposal, p)
  /\ proposal' = Archive(proposal, p, "rejected")
  /\ UNCHANGED <<bid, ask>>

MatchedLoanProposal_Withdraw(p) ==
  /\ IsOpen(proposal, p)
  /\ proposal' = Archive(proposal, p, "withdrawn")
  /\ UNCHANGED <<bid, ask>>

Post ==
  \/ \E l \in Lenders, a \in BidAmounts, rate \in Rates, d \in Durations :
       CreateLenderBid(l, a, rate, d)
  \/ \E br \in Borrowers, a \in AskAmounts, rate \in Rates, d \in Durations :
       CreateBorrowerAsk(br, a, rate, d)

Cancel == \/ \E b \in Bids : LenderBid_Cancel(b)
          \/ \E k \in Asks : BorrowerAsk_Cancel(k)

BookNext ==
  \/ Post
  \/ Cancel
  \/ \E b \in Bids, k \in Asks : MatchOrders(b, k)
  \/ \E p \in Proposals : \/ MatchedLoanProposal_Accept(p)
                          \/ MatchedLoanProposal_Reject(p)
                          \/ MatchedLoanProposal_Withdraw(p)

BookSpec == BookInit /\ [][BookNext]_book

-----------------------------------------------------------------------------
(***************************************************************************)
(* Safety.                                                                 *)
(***************************************************************************)

\* The principals proposed from a posted bid and what is left of it, on the book or
\* when it was cancelled, add up to what was posted: liquidity is neither promised
\* twice nor lost, through any number of partial fills.
ChainOf(root) == {b \in Created(bid) : bid[b].root = root}

ProposedFrom(root) ==
  SumFunction([p \in {p \in Created(proposal) : bid[proposal[p].bid].root = root}
                 |-> proposal[p].principal])

LeftOf(root) ==
  SumFunction([b \in {b \in ChainOf(root) : bid[b].state \in {"open", "cancelled"}}
                 |-> bid[b].remaining])

LiquidityConserved ==
  \A b \in Created(bid) :
    bid[b].root = b => ProposedFrom(b) + LeftOf(b) = bid[b].amount

\* An order is taken off the book by matching exactly when one proposal, and only
\* one, was made from it.
MatchedOnce(contracts, c, made) ==
  /\ contracts[c].state \in {"matched", "reduced"} <=> made # {}
  /\ \A p, q \in made : p = q

OrdersMatchedOnce ==
  /\ \A b \in Created(bid) : MatchedOnce(bid, b, {p \in Created(proposal) : proposal[p].bid = b})
  /\ \A k \in Created(ask) : MatchedOnce(ask, k, {p \in Created(proposal) : proposal[p].ask = k})

\* A proposal, and so the loan it becomes, is within the limits both parties posted,
\* however much of the bid was already used when they met.
WithinLimits(p) ==
  LET b == bid[p.bid]
      k == ask[p.ask]
  IN /\ p.lender = b.lender /\ p.borrower = k.borrower
     /\ b.rate <= p.rate /\ p.rate <= k.rate
     /\ p.duration = k.duration /\ p.duration <= b.maxDuration
     /\ p.principal <= b.remaining /\ p.principal <= k.amount

ProposalsWithinLimits == \A p \in Created(proposal) : WithinLimits(proposal[p])
=============================================================================
