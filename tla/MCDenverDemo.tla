---------------------------- MODULE MCDenverDemo ----------------------------
(* A ledger with one request, offer and loan, listed or gone, and an API that brings  *)
(* one side of the book: bids, two at one rate and one that asks for no interest, or  *)
(* an ask that pays less than any mock bid.                                           *)
EXTENDS DenverDemo

SomeRequests == {[id |-> "r1", borrower |-> "user::1220", status |-> "open"]}
SomeOffers == {[id |-> "o1", lender |-> "bank::1220"]}
SomeLoans == {[id |-> "l1", borrower |-> "user::1220", lender |-> "bank::1220",
               status |-> "active"]}
SomeBids == {[id |-> "b1", rate |-> 60, amount |-> 3], [id |-> "b2", rate |-> 60, amount |-> 5],
             [id |-> "b3", rate |-> 0, amount |-> 2]}
SomeAsks == {[id |-> "a1", rate |-> 45, amount |-> 4]}

SomeAnswers ==
  {[requests |-> SomeRequests, offers |-> SomeOffers, loans |-> {}, profile |-> TRUE,
    bids |-> SomeBids, asks |-> {}, stats |-> TRUE],
   [requests |-> {}, offers |-> {}, loans |-> SomeLoans, profile |-> FALSE,
    bids |-> {}, asks |-> SomeAsks, stats |-> FALSE]}
=============================================================================
