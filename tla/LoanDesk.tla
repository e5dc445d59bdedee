------------------------------ MODULE LoanDesk ------------------------------
(***************************************************************************)
(* The loan screens of the dashboard over LoanLedger: what a freshly       *)
(* loaded screen lists to a party and which commands it offers on it.      *)
(* A listing is one call of the backend with an index that has caught up;  *)
(* a section is one part of borrower-dashboard.tsx or lender-dashboard.tsx *)
(* with its filter, its buttons and what hides or disables them.  A        *)
(* command is <<what it does, contract id>>.                               *)
(*                                                                         *)
(* The parties are tenants; the platform's own party, which is shown every *)
(* request, is none of them.  How screens age is the matter of             *)
(* DashboardSession.                                                       *)
(***************************************************************************)
EXTENDS LoanLedger

-----------------------------------------------------------------------------
(* What the backend lists to party p. *)

SameTerms(r1, r2) == /\ request[r1].borrower = request[r2].borrower
                     /\ request[r1].amount = request[r2].amount

\* Before it answers, the listing discloses the open requests of others, but for
\* those on whose terms one was disclosed to p before.
DisclosedTo(p) ==
  LET before == {r \in Created(request) : <<r, p>> \in disclosed} IN
  before \cup {r \in Created(request) : /\ IsOpen(request, r)
                                        /\ request[r].borrower # p
                                        /\ \A d \in before : ~SameTerms(r, d)}

\* Rows are <<request, lender>> for a LoanRequestForLender, whoever the lender is
\* when the request is p's, and <<request, NoContract>> for a LoanRequest.
ListLoanRequests(p) ==
  ({r \in Created(request) : IsOpen(request, r) /\ request[r].borrower = p} \X {NoContract})
    \cup {d \in disclosed : request[d[1]].borrower = p}
    \cup (DisclosedTo(p) \X {p})

\* Bug: the offers a choice has archived are listed as well.
ListLoanOffers_Archived(p) == {o \in Created(offer) : p \in {offer[o].lender, offer[o].borrower}}

ListLoanOffers(p) ==
  {o \in Created(offer) : IsOpen(offer, o) /\ p \in {offer[o].lender, offer[o].borrower}}

ListLoans(p) ==
  {ln \in Created(loan) : IsActiveLoan(ln) /\ p \in {loan[ln].terms.lender, loan[ln].terms.borrower}}

ListFundingIntents(p) ==
  {i \in Created(intent) : /\ IsOpen(intent, i)
                           /\ p \in {intent[i].terms.lender, intent[i].terms.borrower}}

\* Bug: the borrower's list, as for the repayment requests.
ListPrincipalRequests_Borrower(p) ==
  {q \in Created(principal) : IsOpen(principal, q) /\ principal[q].terms.borrower = p}

\* The deadlines are sent along and filter nothing.
ListPrincipalRequests(p) ==
  {q \in Created(principal) : IsOpen(principal, q) /\ principal[q].terms.lender = p}

ListRepaymentRequests(p) ==
  {q \in Created(repayment) : /\ IsOpen(repayment, q)
                              /\ p \in {repayment[q].lender, repayment[q].borrower}}

\* The allocation a row carries: the lender's query joins it, the borrower's does not.
ShownAllocation(p, key) ==
  /\ key \in allocated
  /\ key[1] = "repayment" => repayment[key[2]].lender = p

\* getCreditProfile answers with one of the party's active profiles.
ShownProfiles(p) == {c \in Created(profile) : IsActiveProfile(c) /\ profile[c].borrower = p}

\* A party that only lends has a profile as well, created by its first load; no loan
\* pins it and nothing spends it, so the ledger model has no contract for it.
HasProfile(p) == p \in Borrowers => ShownProfiles(p) # {}

-----------------------------------------------------------------------------
(* The borrower's screen.  hasWallet tells whether the party has a wallet. *)

MyLoanRequests(p) ==
  {<<"withdraw", row[1]>> : row \in {row \in ListLoanRequests(p) : request[row[1]].borrower = p}}

\* Every offer p sees, its own as a lender included; the buttons are disabled until
\* the credit profile is loaded.
PendingOffers(p, hasWallet) ==
  {IF hasWallet THEN "acceptWithToken" ELSE "accept"}
    \X {o \in ListLoanOffers(p) : HasProfile(p)}

ActiveLoans(p, hasWallet) ==
  {IF hasWallet THEN "requestRepayment" ELSE "repay"}
    \X {ln \in ListLoans(p) : loan[ln].terms.borrower = p}

PendingRepayments(p, hasWallet) ==
  {"allocateRepayment"} \X
    {q \in ListRepaymentRequests(p) : /\ repayment[q].borrower = p /\ hasWallet
                                      /\ ~ShownAllocation(p, <<"repayment", q>>)}

BorrowerScreen(p, hasWallet) ==
  MyLoanRequests(p) \cup PendingOffers(p, hasWallet) \cup ActiveLoans(p, hasWallet)
    \cup PendingRepayments(p, hasWallet)

-----------------------------------------------------------------------------
(* The lender's screen. *)

\* Every row's request, open or not: a LoanRequestForLender outlives it.
OpenLoanRequests(p) ==
  {<<"offer", row[1]>> : row \in {row \in ListLoanRequests(p) : request[row[1]].borrower # p}}

FundingToConfirm(p) ==
  {"confirm"} \X {i \in ListFundingIntents(p) : intent[i].terms.lender = p}

\* A row completes with the allocation it shows, or with an id the lender pastes;
\* without one it also leads to the wallet.
PrincipalActions(p, hasWallet) ==
  LET mine == {q \in ListPrincipalRequests(p) : principal[q].terms.lender = p} IN
  ({"completeFunding"} \X mine)
    \cup ({"allocatePrincipal"} \X
            {q \in mine : hasWallet /\ ~ShownAllocation(p, <<"principal", q>>)})

RepaymentActions(p) ==
  {"completeRepayment"} \X {q \in ListRepaymentRequests(p) : repayment[q].lender = p}

FundedLoans(p) == {"default"} \X {ln \in ListLoans(p) : loan[ln].terms.lender = p}

LenderScreen(p, hasWallet) ==
  OpenLoanRequests(p) \cup FundingToConfirm(p) \cup PrincipalActions(p, hasWallet)
    \cup RepaymentActions(p) \cup FundedLoans(p)

Offered(p, hasWallet) == BorrowerScreen(p, hasWallet) \cup LenderScreen(p, hasWallet)

-----------------------------------------------------------------------------
(***************************************************************************)
(* Safety.                                                                 *)
(***************************************************************************)

\* What a step did for a party, read off the contracts it changed.
Turned(contracts, c, how) ==
  IsOpen(contracts, c) /\ contracts'[c].state = how

Made(contracts) == Created(contracts') \ Created(contracts)

Done ==
  {<<request[r].borrower, "withdraw", r>> : r \in {r \in Requests : Turned(request, r, "withdrawn")}}
  \cup {<<offer'[o].lender, "offer", offer'[o].request>> : o \in Made(offer)}
  \cup {<<loan'[ln].terms.borrower, "accept", loan'[ln].terms.offer>> :
          ln \in {ln \in Made(loan) : IsOpen(offer, loan'[ln].terms.offer)}}
  \cup {<<intent'[i].terms.borrower, "acceptWithToken", intent'[i].terms.offer>> : i \in Made(intent)}
  \cup {<<intent[i].terms.lender, "confirm", i>> : i \in {i \in Intents : Turned(intent, i, "confirmed")}}
  \cup {<<principal[q].terms.lender, "completeFunding", q>> :
          q \in {q \in Principals : Turned(principal, q, "settled")}}
  \cup {<<loan[ln].terms.borrower, "repay", ln>> :
          ln \in {ln \in Loans : IsActiveLoan(ln) /\ loan'[ln].state = "repaid"}}
  \cup {<<loan[ln].terms.lender, "default", ln>> :
          ln \in {ln \in Loans : IsActiveLoan(ln) /\ loan'[ln].state = "defaulted"}}
  \cup {<<repayment'[q].borrower, "requestRepayment", repayment'[q].loan>> : q \in Made(repayment)}
  \cup {<<repayment[q].lender, "completeRepayment", q>> :
          q \in {q \in Repayments : Turned(repayment, q, "settled")}}

\* A request on the terms of one that was disclosed to the lender earlier is listed
\* only if it was disclosed when it was made.
HiddenByTerms(l, r) ==
  <<r, l>> \notin disclosed /\ \E d \in Created(request) : <<d, l>> \in disclosed /\ SameTerms(d, r)

\* No hidden work: whatever the contracts let a party do next, through the choices the
\* backend serves, a fresh screen of that party offers it (with or without a wallet),
\* but for three exceptions: an offer on a request that HiddenByTerms hides, an offer on
\* a request of one's own, which only a call to the backend reaches, and an acceptance by
\* a borrower without an active profile.  Held against the filters and listings, which are
\* written apart from the choices' controllers.
WorkIsOffered ==
  [][\A step \in Done :
       \/ \E hasWallet \in BOOLEAN : <<step[2], step[3]>> \in Offered(step[1], hasWallet)
       \/ step[2] = "offer" /\ HiddenByTerms(step[1], step[3])
       \/ step[2] = "offer" /\ request[step[3]].borrower = step[1]
       \* the profile the client cached is archived, and a fresh screen has none to accept with
       \/ step[2] \in {"accept", "acceptWithToken"} /\ ~HasProfile(step[1])]_vars

\* Every submission of the backend is for the caller alone: what a command does commits
\* only if it needs the authority and the contracts of no other party.
Alone(p, parties) == parties \subseteq {p}

\* fundLoan and acceptLoanOfferWithToken answer 403 to anybody but the borrower.
MayAccept(p, o) == p = offer[o].borrower

\* The wallet takes an allocation until its deadline, of holdings that are there.
CanLock(contract, leg) == now < contract.prepareUntil /\ wallet[leg.sender] >= leg.amount

\* What a command of p's screen leads to commits, all of it.
Commits(p, c) ==
  LET on == c[2] IN
  CASE c[1] = "withdraw" -> IsOpen(request, on) /\ Alone(p, {request[on].borrower})
    [] c[1] = "offer" -> TRUE
    [] c[1] \in {"accept", "acceptWithToken"} ->
         MayAccept(p, on) /\ IsOpen(offer, on) /\ RequestAcceptsOffer(on)
    [] c[1] = "confirm" -> IsOpen(intent, on) /\ Alone(p, {intent[on].terms.lender})
    [] c[1] = "allocatePrincipal" ->
         /\ IsOpen(principal, on) /\ <<"principal", on>> \notin allocated
         /\ Alone(p, {principal[on].terms.lender})
         /\ CanLock(principal[on], PrincipalLeg(on))
    [] c[1] = "completeFunding" ->
         /\ IsOpen(principal, on) /\ <<"principal", on>> \in allocated
         /\ Alone(p, {principal[on].terms.lender, principal[on].terms.borrower})
         /\ now < principal[on].settleBefore
         /\ IsOpen(request, principal[on].terms.request)
         /\ request[principal[on].terms.request].borrower = principal[on].terms.borrower
    [] c[1] = "repay" ->
         /\ IsActiveLoan(on) /\ IsActiveProfile(loan[on].terms.profile)
         /\ Alone(p, {loan[on].terms.borrower})
    [] c[1] = "default" ->
         /\ IsActiveLoan(on) /\ IsActiveProfile(loan[on].terms.profile)
         /\ Alone(p, BothParties(on))
    [] c[1] = "requestRepayment" -> IsActiveLoan(on) /\ Alone(p, {loan[on].terms.borrower})
    [] c[1] = "allocateRepayment" ->
         /\ IsOpen(repayment, on) /\ <<"repayment", on>> \notin allocated
         /\ Alone(p, {repayment[on].borrower})
         /\ CanLock(repayment[on], RepaymentLeg(on))
    [] c[1] = "completeRepayment" ->
         \* two submissions: the transfer, then Loan_CompleteRepaymentReceived
         /\ IsOpen(repayment, on) /\ <<"repayment", on>> \in allocated
         /\ Alone(p, {repayment[on].lender})
         /\ now < repayment[on].settleBefore
         /\ IsActiveLoan(repayment[on].loan)
         /\ IsActiveProfile(loan[repayment[on].loan].terms.profile)
         /\ Alone(p, BothParties(repayment[on].loan))

\* The request was withdrawn, or another offer on it became a loan.
RequestTaken(r) ==
  request[r].state = "withdrawn" \/ \E ln \in Created(loan) : loan[ln].terms.request = r

\* Another loan made with the same profile contract was closed.
ProfileSpent(ln) ==
  \E other \in Created(loan) \ {ln} : /\ loan[other].terms.profile = loan[ln].terms.profile
                                      /\ ~IsActiveLoan(other)

\* What is wanting that a fresh screen does not tell: something that happened since the
\* contract it lists was made, or a party the caller cannot submit for.
Reason(p, c) ==
  LET on == c[2] IN
  CASE c[1] = "withdraw" -> RequestTaken(on)
    [] c[1] \in {"accept", "acceptWithToken"} ->
         \/ RequestTaken(offer[on].request)
         \/ offer[on].amount # request[offer[on].request].amount
         \/ p = offer[on].lender /\ p # offer[on].borrower      \* p's own offer
    [] c[1] = "allocatePrincipal" -> ~CanLock(principal[on], PrincipalLeg(on))
    [] c[1] = "completeFunding" ->
         \/ <<"principal", on>> \notin allocated
         \/ now >= principal[on].settleBefore
         \/ RequestTaken(principal[on].terms.request)
         \/ p # principal[on].terms.borrower                   \* who must authorise it too
    [] c[1] = "repay" -> ProfileSpent(on)
    [] c[1] = "default" ->
         ProfileSpent(on) \/ p # loan[on].terms.borrower       \* whose profile p cannot see
    [] c[1] = "allocateRepayment" ->
         <<"repayment", on>> \in allocated \/ ~CanLock(repayment[on], RepaymentLeg(on))
    [] c[1] = "completeRepayment" ->
         \/ <<"repayment", on>> \notin allocated
         \/ now >= repayment[on].settleBefore
         \/ ~IsActiveLoan(repayment[on].loan)
         \/ ProfileSpent(repayment[on].loan)
         \/ p # repayment[on].borrower                         \* who must authorise it too
    [] OTHER -> FALSE

\* A command of a fresh screen is refused, or done by half, only for a reason named
\* here: a request taken or withdrawn under its offers and disclosures, an amount the
\* lender changed, an allocation missing or there already, a deadline, holdings that are
\* short, a profile another loan has used up, a loan closed under its repayment request;
\* one's own offer, listed beside the others'; and the borrower's part in completing a
\* funding or a repayment and in marking a default, which the caller's own submission lacks
\* unless lender and borrower are one party.  In particular the terms agreed at acceptance
\* fit until the request is taken.
RefusalsExplained ==
  \A p \in Parties, hasWallet \in BOOLEAN :
    \A c \in Offered(p, hasWallet) : Commits(p, c) \/ Reason(p, c)
=============================================================================
