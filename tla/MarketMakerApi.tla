--------------------------- MODULE MarketMakerApi ---------------------------
(***************************************************************************)
(* What the parties to a proposal do with it through MarketMakerApiImpl.   *)
(* The book changes through MarketMaker's actions; here the handlers       *)
(* choose which choice is exercised, and for whom.                         *)
(***************************************************************************)
EXTENDS MarketMaker

VARIABLES
  profiled,  \* borrowers with an active CreditProfile
  accepts    \* <<proposal, party>> for the parties that called accept (history)

vars == <<book, profiled, accepts>>

ApiTypeOK ==
  /\ TypeOK
  /\ profiled \subseteq Borrowers
  /\ accepts \subseteq Created(proposal) \X (Lenders \cup Borrowers)

Init == BookInit /\ profiled = {} /\ accepts = {}

-----------------------------------------------------------------------------
\* getCreditProfile creates the borrower's first profile.
CreateCreditProfile(br) ==
  /\ br \notin profiled
  /\ profiled' = profiled \cup {br}
  /\ UNCHANGED <<book, accepts>>

\* Orders are posted, cancelled and matched without a look at the proposals.
Trade ==
  /\ \/ Post
     \/ Cancel
     \/ \E b \in Bids, k \in Asks : MatchOrders(b, k)
  /\ UNCHANGED <<profiled, accepts>>

\* A party finds the proposals that name it (findMatchedLoanProposals).
ListedTo(p) == {proposal[p].lender, proposal[p].borrower}

\* Called by one party and submitted for both, with the borrower's profile; without
\* one the call ends in NOT_FOUND.
AcceptMatchedProposal(p, caller) ==
  /\ caller \in ListedTo(p)
  /\ proposal[p].borrower \in profiled
  /\ MatchedLoanProposal_Accept(p)
  /\ accepts' = accepts \cup {<<p, caller>>}
  /\ UNCHANGED profiled

\* The lender's call rejects, the borrower's withdraws.
RejectMatchedProposal(p, caller) ==
  /\ \/ caller = proposal[p].lender   /\ MatchedLoanProposal_Reject(p)
     \/ caller = proposal[p].borrower /\ MatchedLoanProposal_Withdraw(p)
  /\ UNCHANGED <<profiled, accepts>>

Next ==
  \/ Trade
  \/ \E br \in Borrowers : CreateCreditProfile(br)
  \/ \E p \in Created(proposal), caller \in Lenders \cup Borrowers :
       AcceptMatchedProposal(p, caller) \/ RejectMatchedProposal(p, caller)

Spec == Init /\ [][Next]_vars

-----------------------------------------------------------------------------
\* "Both lender and borrower must accept before the Loan is created"
\* (MatchedLoanProposal): a proposal becomes a loan when both have called accept.
BothPartiesAccept ==
  \A p \in Created(proposal) :
    proposal[p].state = "accepted" => \A party \in ListedTo(p) : <<p, party>> \in accepts
=============================================================================
