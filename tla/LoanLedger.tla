----------------------------- MODULE LoanLedger -----------------------------
(***************************************************************************)
(* The loan contracts of the Daml package: credit profiles, requests,      *)
(* offers, the token funding path, loans and the token repayment path      *)
(* (Loan/*.daml).  One action is one choice (or one create) committed by   *)
(* the ledger: a Daml transaction is atomic, so everything a choice        *)
(* fetches, checks, archives and creates happens in a single step, and a   *)
(* failed check aborts all of it.                                          *)
(*                                                                         *)
(* Each template is a function from contract ids to contracts, NoContract  *)
(* for an id not handed out yet.  A contract keeps its entry once it is    *)
(* archived; its state then tells which choice archived it, as the         *)
(* transaction log does.  A contract is active iff its state is "open"     *)
(* (for a Loan and a CreditProfile, "active").                             *)
(*                                                                         *)
(* The token standard (holdings, allocations) is not part of this          *)
(* repository: wallet and escrow model it from how the choices use it.     *)
(***************************************************************************)
EXTENDS CreditProfile, FiniteSets, Functions

CONSTANTS
  Lenders, Borrowers,            \* parties
  Amounts,                       \* principals that are asked for or offered
  Rates,                         \* interest rates, in percent
  Windows,                       \* <<prepareUntil, settleBefore>> pairs a client may send
  Funds,                         \* token holding each party starts with
  JointSubmissions,              \* sets of parties that some client submits commands for together
  MaxTime,                       \* bound on the ledger time
  Profiles, Requests, Offers, Intents, Principals, Loans, Repayments,
                                 \* bounds: the contract ids of each template
  NoContract

Parties == Lenders \cup Borrowers

ASSUME LedgerAssumption ==
  /\ Amounts \subseteq Nat
  /\ Rates \subseteq Nat
  /\ Windows \subseteq Nat \X Nat
  /\ Funds \in Nat
  /\ MaxTime \in Nat
  /\ JointSubmissions \subseteq SUBSET Parties

ASSUME IdAssumption ==
  \A ids \in {Profiles, Requests, Offers, Intents, Principals, Loans, Repayments} :
    ids \subseteq Nat

VARIABLES
  now,         \* ledger time (getTime)
  profile,     \* CreditProfile
  request,     \* LoanRequest
  disclosed,   \* <<request, lender>> with a LoanRequestForLender; it is never archived
  offer,       \* LoanOffer
  intent,      \* FundingIntent
  principal,   \* LoanPrincipalRequest
  loan,        \* Loan
  repayment,   \* LoanRepaymentRequest
  wallet,      \* unlocked holdings of each party
  escrow,      \* holdings of each party locked in allocations
  allocated    \* <<"principal" or "repayment", id>> with an open Allocation

vars == <<now, profile, request, disclosed, offer, intent, principal, loan,
          repayment, wallet, escrow, allocated>>

offerVars     == <<request, disclosed, offer>>
fundingVars   == <<intent, principal>>
servicingVars == <<loan, repayment, profile>>
tokenVars     == <<wallet, escrow, allocated>>

-----------------------------------------------------------------------------
(* Contract types *)

ProfileContract == [borrower : Borrowers, credit : CreditRecords,
                    root     : Profiles,  \* first contract of this chain (history)
                    state    : {"active", "archived"}]

RequestContract == [borrower : Borrowers, amount : Amounts,
                    state    : {"open", "withdrawn", "funded"}]

OfferContract == [lender : Lenders, borrower : Borrowers, amount : Amounts,
                  rate : Rates, request : Requests, state : {"open", "accepted"}]

\* The terms an accepted offer fixes; a Loan keeps all of them but request and
\* offer, which the model remembers as history.
LoanTerms == [lender : Lenders, borrower : Borrowers, amount : Amounts, rate : Rates,
              profile : Profiles, request : Requests, offer : Offers]

IntentContract    == [terms : LoanTerms, prepareUntil : Nat, settleBefore : Nat,
                      state : {"open", "confirmed"}]
PrincipalContract == [terms : LoanTerms, prepareUntil : Nat, settleBefore : Nat,
                      state : {"open", "settled", "dropped"}]
LoanContract      == [terms : LoanTerms, state : {"active", "repaid", "defaulted"}]

RepaymentContract == [lender : Lenders, borrower : Borrowers, amount : Nat,
                      prepareUntil : Nat, settleBefore : Nat,
                      loan  : Loans,
                      state : {"open", "settled", "dropped"}]

\* NoContract stands for the absence of a contract, so it is none.
ASSUME NoContractAssumption ==
  NoContract \notin ProfileContract \cup RequestContract \cup OfferContract
                   \cup IntentContract \cup PrincipalContract \cup LoanContract
                   \cup RepaymentContract

\* The ids of contracts that exist or have existed.
Created(contracts) == {c \in DOMAIN contracts : contracts[c] # NoContract}

TypeOK ==
  /\ now \in Nat
  /\ profile    \in [Profiles   -> ProfileContract   \cup {NoContract}]
  /\ request    \in [Requests   -> RequestContract   \cup {NoContract}]
  /\ disclosed  \subseteq Created(request) \X Lenders
  /\ offer      \in [Offers     -> OfferContract     \cup {NoContract}]
  /\ intent     \in [Intents    -> IntentContract    \cup {NoContract}]
  /\ principal  \in [Principals -> PrincipalContract \cup {NoContract}]
  /\ loan       \in [Loans      -> LoanContract      \cup {NoContract}]
  /\ repayment  \in [Repayments -> RepaymentContract \cup {NoContract}]
  /\ wallet     \in [Parties -> Nat]
  /\ escrow     \in [Parties -> Int]
  /\ allocated  \subseteq ({"principal"} \X Created(principal))
                            \cup ({"repayment"} \X Created(repayment))

-----------------------------------------------------------------------------
(* Operators *)

\* The next id to hand out.  Ids are opaque: taking them in order loses nothing.
Fresh(contracts) ==
  {c \in DOMAIN contracts : /\ contracts[c] = NoContract
                            /\ \A d \in DOMAIN contracts : d < c => contracts[d] # NoContract}

IsOpen(contracts, c) == c \in Created(contracts) /\ contracts[c].state = "open"

IsActiveLoan(ln)   == ln \in Created(loan) /\ loan[ln].state = "active"
IsActiveProfile(p) == p \in Created(profile) /\ profile[p].state = "active"

Archive(contracts, c, how) == [contracts EXCEPT ![c].state = how]

\* A command is submitted for one party, as every call of the backend is, or for the
\* parties of a joint submission, as in the package's own scripts.  It has the authority
\* of these parties and sees the contracts they are stakeholders of.
SubmittedFor(parties) ==
  \E submitters \in {{p} : p \in Parties} \cup JointSubmissions : parties \subseteq submitters

\* The deadline checks of LoanOffer_AcceptWithToken and Loan_RequestRepayment.
WindowIsValid(w) == w[1] < w[2] /\ now < w[1]

\* Bug: the interest is forgotten.
RepaymentAmount_NoInterest(ln) == loan[ln].terms.amount

\* principal + (principal * interestRate / 100.0), on amounts where it is exact.
RepaymentAmount(ln) ==
  loan[ln].terms.amount + (loan[ln].terms.amount * loan[ln].terms.rate) \div 100

-----------------------------------------------------------------------------
Init ==
  /\ now = 0
  /\ profile    = [c \in Profiles   |-> NoContract]
  /\ request    = [c \in Requests   |-> NoContract]
  /\ disclosed  = {}
  /\ offer      = [c \in Offers     |-> NoContract]
  /\ intent     = [c \in Intents    |-> NoContract]
  /\ principal  = [c \in Principals |-> NoContract]
  /\ loan       = [c \in Loans      |-> NoContract]
  /\ repayment  = [c \in Repayments |-> NoContract]
  /\ wallet     = [p \in Parties |-> Funds]
  /\ escrow     = [p \in Parties |-> 0]
  /\ allocated  = {}

(***************************************************************************)
(* Time and profiles.                                                      *)
(***************************************************************************)
Tick ==
  /\ now < MaxTime
  /\ now' = now + 1
  /\ UNCHANGED <<offerVars, fundingVars, servicingVars, tokenVars>>

(***************************************************************************)
(* getCreditProfile creates a profile when its query returned none.  The   *)
(* query lags the ledger, so the create may commit beside another one; the *)
(* contract has no key and the ledger accepts both.                        *)
(***************************************************************************)
CreateCreditProfile(b) ==
  \E p \in Fresh(profile) :
    /\ profile' = [profile EXCEPT ![p] = [borrower |-> b, credit |-> NewCredit,
                                          root |-> p, state |-> "active"]]
    /\ UNCHANGED <<now, offerVars, fundingVars, loan, repayment, tokenVars>>

(***************************************************************************)
(* Requests and offers.  createLoanRequest also schedules the disclosure   *)
(* of every open request to every lender, one transaction each; any of     *)
(* them may fail and is then only logged, so each is a step of its own     *)
(* that may or may not happen.                                             *)
(***************************************************************************)
CreateLoanRequest(b, a) ==
  \E r \in Fresh(request) :
    /\ request' = [request EXCEPT ![r] = [borrower |-> b, amount |-> a, state |-> "open"]]
    /\ UNCHANGED <<now, disclosed, offer, fundingVars, servicingVars, tokenVars>>

LoanRequest_Withdraw(r) ==
  /\ IsOpen(request, r)
  /\ request' = Archive(request, r, "withdrawn")
  /\ UNCHANGED <<now, disclosed, offer, fundingVars, servicingVars, tokenVars>>

LoanRequest_DiscloseToLender(r, l) ==
  /\ IsOpen(request, r)
  /\ disclosed' = disclosed \cup {<<r, l>>}
  /\ UNCHANGED <<now, request, offer, fundingVars, servicingVars, tokenVars>>

(***************************************************************************)
(* createLoanOffer.  The backend takes request id and borrower from a      *)
(* LoanRequestForLender, which outlives the request, or else from the      *)
(* active LoanRequest; the lender may name another amount.  That the       *)
(* request may be archived between the query and the create is covered by  *)
(* the first case: either leaves an offer on an archived request.          *)
(***************************************************************************)
CreateLoanOffer(l, r, a, rate) ==
  /\ <<r, l>> \in disclosed \/ IsOpen(request, r)
  /\ \E o \in Fresh(offer) :
       offer' = [offer EXCEPT ![o] = [lender |-> l, borrower |-> request[r].borrower,
                                      amount |-> a, rate |-> rate, request |-> r,
                                      state |-> "open"]]
  /\ UNCHANGED <<now, request, disclosed, fundingVars, servicingVars, tokenVars>>

\* Bug: the request is not fetched, so an archived one passes.
RequestAcceptsOffer_Unfetched(o) ==
  LET r == offer[o].request IN
  /\ request[r].amount = offer[o].amount
  /\ request[r].borrower = offer[o].borrower

\* Bug: the amounts are not compared.
RequestAcceptsOffer_AnyAmount(o) ==
  LET r == offer[o].request IN
  /\ IsOpen(request, r)
  /\ request[r].borrower = offer[o].borrower

\* fetch loanRequestId, which aborts unless it is active, and the two require's.
RequestAcceptsOffer(o) ==
  LET r == offer[o].request IN
  /\ IsOpen(request, r)
  /\ request[r].amount = offer[o].amount
  /\ request[r].borrower = offer[o].borrower

\* The profile id is an argument the client cached: it may be archived by now.
ProfileArgument(b) == {p \in Created(profile) : profile[p].borrower = b}

AcceptedTerms(o, p) ==
  [lender |-> offer[o].lender, borrower |-> offer[o].borrower, amount |-> offer[o].amount,
   rate |-> offer[o].rate, profile |-> p, request |-> offer[o].request, offer |-> o]

CreateLoan(terms) ==
  \E ln \in Fresh(loan) : loan' = [loan EXCEPT ![ln] = [terms |-> terms, state |-> "active"]]

LoanOffer_Accept(o, p) ==
  /\ IsOpen(offer, o)
  /\ p \in ProfileArgument(offer[o].borrower)
  /\ RequestAcceptsOffer(o)
  /\ request' = Archive(request, offer[o].request, "funded")
  /\ offer' = Archive(offer, o, "accepted")
  /\ CreateLoan(AcceptedTerms(o, p))
  /\ UNCHANGED <<now, disclosed, fundingVars, repayment, profile, tokenVars>>

(***************************************************************************)
(* The token funding path.  Accepting consumes the offer and leaves the    *)
(* request open: other offers on it can still be accepted.                 *)
(***************************************************************************)
LoanOffer_AcceptWithToken(o, p, w) ==
  /\ IsOpen(offer, o)
  /\ p \in ProfileArgument(offer[o].borrower)
  /\ RequestAcceptsOffer(o)
  /\ WindowIsValid(w)
  /\ offer' = Archive(offer, o, "accepted")
  /\ \E i \in Fresh(intent) :
       intent' = [intent EXCEPT ![i] = [terms |-> AcceptedTerms(o, p),
                                        prepareUntil |-> w[1], settleBefore |-> w[2],
                                        state |-> "open"]]
  /\ UNCHANGED <<now, request, disclosed, principal, servicingVars, tokenVars>>

\* Bug: the choice is nonconsuming.
FundingIntent_ConfirmByLender_Nonconsuming(i) ==
  /\ IsOpen(intent, i)
  /\ \E q \in Fresh(principal) : principal' = [principal EXCEPT ![q] = intent[i]]
  /\ UNCHANGED <<now, offerVars, intent, servicingVars, tokenVars>>

FundingIntent_ConfirmByLender(i) ==
  /\ IsOpen(intent, i)
  /\ intent' = Archive(intent, i, "confirmed")
  /\ \E q \in Fresh(principal) :
       principal' = [principal EXCEPT ![q] = [intent[i] EXCEPT !.state = "open"]]
  /\ UNCHANGED <<now, offerVars, servicingVars, tokenVars>>

\* AllocationRequest_Reject and AllocationRequest_Withdraw, both the lender's.
DropPrincipalRequest(q) ==
  /\ IsOpen(principal, q)
  /\ principal' = Archive(principal, q, "dropped")
  /\ UNCHANGED <<now, offerVars, intent, servicingVars, tokenVars>>

(***************************************************************************)
(* The settlement of a transfer leg.  An allocation is matched on the leg  *)
(* and the settlement it was made for, which requestedAt makes unique, so  *)
(* the model keys it by the request.                                       *)
(***************************************************************************)
PrincipalLeg(q) == [sender   |-> principal[q].terms.lender,
                    receiver |-> principal[q].terms.borrower,
                    amount   |-> principal[q].terms.amount]

RepaymentLeg(q) == [sender   |-> repayment[q].borrower,
                    receiver |-> repayment[q].lender,
                    amount   |-> repayment[q].amount]

\* Allocation_ExecuteTransfer: the locked holding becomes the receiver's.
ExecuteTransfer(key, leg) ==
  /\ key \in allocated
  /\ allocated' = allocated \ {key}
  /\ escrow' = [escrow EXCEPT ![leg.sender] = @ - leg.amount]
  /\ wallet' = [wallet EXCEPT ![leg.receiver] = @ + leg.amount]

LoanPrincipalRequest_CompleteFunding(q) ==
  LET terms == principal[q].terms IN
  /\ IsOpen(principal, q)
  /\ SubmittedFor({terms.lender, terms.borrower})   \* the controllers
  /\ now < principal[q].settleBefore
  /\ ExecuteTransfer(<<"principal", q>>, PrincipalLeg(q))
  /\ IsOpen(request, terms.request)
  /\ request[terms.request].borrower = terms.borrower
  /\ request' = Archive(request, terms.request, "funded")
  /\ principal' = Archive(principal, q, "settled")
  /\ CreateLoan(terms)
  /\ UNCHANGED <<now, disclosed, offer, intent, repayment, profile>>

\* Bug: the profile choice is nonconsuming.
ReplaceProfile_Nonconsuming(p, credit) ==
  \E next \in Fresh(profile) :
    profile' = [profile EXCEPT ![next] = [profile[p] EXCEPT !.credit = credit]]

\* A consuming profile choice: p is archived, a new contract holds the new record.
ReplaceProfile(p, credit) ==
  \E next \in Fresh(profile) :
    profile' = [profile EXCEPT ![p].state = "archived",
                               ![next] = [profile[p] EXCEPT !.credit = credit]]

(***************************************************************************)
(* Closing a loan: the choice is consuming and exercises the profile       *)
(* contract pinned when the loan was created.  It aborts when that         *)
(* contract is archived, and leaves a successor with a new id.  The        *)
(* guards status == Active hold of every Loan and are left out.            *)
(***************************************************************************)
CloseLoan(ln, how, credit) ==
  LET p == loan[ln].terms.profile IN
  /\ IsActiveLoan(ln)
  /\ IsActiveProfile(p)
  /\ loan' = Archive(loan, ln, how)
  /\ ReplaceProfile(p, credit)
  /\ UNCHANGED <<now, offerVars, fundingVars, repayment, tokenVars>>

PinnedCredit(ln) == profile[loan[ln].terms.profile].credit

Loan_RepayLoan(ln) ==
  IsActiveLoan(ln) /\ CloseLoan(ln, "repaid", RecordSuccessfulLoan(PinnedCredit(ln)))

BothParties(ln) == {loan[ln].terms.lender, loan[ln].terms.borrower}

\* The same transition; its controllers are lender and borrower together.
Loan_CompleteRepaymentReceived(ln) ==
  IsActiveLoan(ln) /\ SubmittedFor(BothParties(ln)) /\ Loan_RepayLoan(ln)

\* The controller is the lender, who is no stakeholder of the profile it exercises: the
\* command sees it only if it is submitted for the borrower as well.
Loan_MarkDefault(ln) ==
  /\ IsActiveLoan(ln)
  /\ SubmittedFor(BothParties(ln))
  /\ CloseLoan(ln, "defaulted", RecordDefaultedLoan(PinnedCredit(ln)))

(***************************************************************************)
(* The token repayment path.  A loan may have any number of repayment      *)
(* requests, and none of them looks at the loan again.                     *)
(***************************************************************************)
Loan_RequestRepayment(ln, w) ==
  /\ IsActiveLoan(ln)
  /\ WindowIsValid(w)
  /\ \E q \in Fresh(repayment) :
       repayment' = [repayment EXCEPT ![q] =
         [lender |-> loan[ln].terms.lender, borrower |-> loan[ln].terms.borrower,
          amount |-> RepaymentAmount(ln), prepareUntil |-> w[1], settleBefore |-> w[2],
          loan |-> ln, state |-> "open"]]
  /\ UNCHANGED <<now, offerVars, fundingVars, loan, profile, tokenVars>>

\* Bug: the choice is nonconsuming.
LoanRepaymentRequest_CompleteRepayment_Nonconsuming(q) ==
  /\ IsOpen(repayment, q)
  /\ now < repayment[q].settleBefore
  /\ ExecuteTransfer(<<"repayment", q>>, RepaymentLeg(q))
  /\ UNCHANGED <<now, offerVars, fundingVars, loan, profile, repayment>>

LoanRepaymentRequest_CompleteRepayment(q) ==
  /\ IsOpen(repayment, q)
  /\ now < repayment[q].settleBefore
  /\ ExecuteTransfer(<<"repayment", q>>, RepaymentLeg(q))
  /\ repayment' = Archive(repayment, q, "settled")
  /\ UNCHANGED <<now, offerVars, fundingVars, loan, profile>>

\* AllocationRequest_Reject by the borrower, AllocationRequest_Withdraw by the lender.
DropRepaymentRequest(q) ==
  /\ IsOpen(repayment, q)
  /\ repayment' = Archive(repayment, q, "dropped")
  /\ UNCHANGED <<now, offerVars, fundingVars, loan, profile, tokenVars>>

(***************************************************************************)
(* The sender's wallet (external): it locks holdings for an allocation     *)
(* request it can see, before prepareUntil, and may take them back.        *)
(***************************************************************************)
Allocate(key, contract, leg) ==
  /\ key \notin allocated
  /\ now < contract.prepareUntil
  /\ wallet[leg.sender] >= leg.amount
  /\ allocated' = allocated \cup {key}
  /\ wallet' = [wallet EXCEPT ![leg.sender] = @ - leg.amount]
  /\ escrow' = [escrow EXCEPT ![leg.sender] = @ + leg.amount]
  /\ UNCHANGED <<now, offerVars, fundingVars, servicingVars>>

AllocatePrincipal(q) ==
  IsOpen(principal, q) /\ Allocate(<<"principal", q>>, principal[q], PrincipalLeg(q))

AllocateRepayment(q) ==
  IsOpen(repayment, q) /\ Allocate(<<"repayment", q>>, repayment[q], RepaymentLeg(q))

Allocation_Withdraw(key) ==
  LET leg == IF key[1] = "principal" THEN PrincipalLeg(key[2]) ELSE RepaymentLeg(key[2]) IN
  /\ key \in allocated
  /\ allocated' = allocated \ {key}
  /\ wallet' = [wallet EXCEPT ![leg.sender] = @ + leg.amount]
  /\ escrow' = [escrow EXCEPT ![leg.sender] = @ - leg.amount]
  /\ UNCHANGED <<now, offerVars, fundingVars, servicingVars>>

-----------------------------------------------------------------------------
Origination ==
  \/ \E b \in Borrowers : CreateCreditProfile(b)
  \/ \E b \in Borrowers, a \in Amounts : CreateLoanRequest(b, a)
  \/ \E r \in Requests : LoanRequest_Withdraw(r)
  \/ \E r \in Requests, l \in Lenders : LoanRequest_DiscloseToLender(r, l)
  \/ \E l \in Lenders, r \in Requests, a \in Amounts, rate \in Rates :
       CreateLoanOffer(l, r, a, rate)
  \/ \E o \in Offers, p \in Profiles : LoanOffer_Accept(o, p)

TokenFunding ==
  \/ \E o \in Offers, p \in Profiles, w \in Windows : LoanOffer_AcceptWithToken(o, p, w)
  \/ \E i \in Intents : FundingIntent_ConfirmByLender(i)
  \/ \E q \in Principals : \/ AllocatePrincipal(q)
                           \/ DropPrincipalRequest(q)
                           \/ LoanPrincipalRequest_CompleteFunding(q)

Servicing ==
  \/ \E ln \in Loans : \/ Loan_RepayLoan(ln)
                       \/ Loan_CompleteRepaymentReceived(ln)
                       \/ Loan_MarkDefault(ln)
  \/ \E ln \in Loans, w \in Windows : Loan_RequestRepayment(ln, w)
  \/ \E q \in Repayments : \/ AllocateRepayment(q)
                           \/ DropRepaymentRequest(q)
                           \/ LoanRepaymentRequest_CompleteRepayment(q)

Next ==
  \/ Tick
  \/ Origination
  \/ TokenFunding
  \/ Servicing
  \/ \E key \in allocated : Allocation_Withdraw(key)

Spec == Init /\ [][Next]_vars

-----------------------------------------------------------------------------
(***************************************************************************)
(* Safety.                                                                 *)
(***************************************************************************)

\* Competing offers, direct and token acceptances of one request: a request ends
\* in at most one loan, and it is archived as funded exactly when that loan exists.
EachRequestFundedOnce ==
  /\ \A ln1, ln2 \in Created(loan) :
       loan[ln1].terms.request = loan[ln2].terms.request => ln1 = ln2
  /\ \A r \in Created(request) :
       request[r].state = "funded" <=> \E ln \in Created(loan) : loan[ln].terms.request = r

\* What a FundingIntent, LoanPrincipalRequest or Loan copied from its offer.
TermsAgreed(offers, requests, t) ==
  LET o == offers[t.offer]
      r == requests[t.request]
  IN /\ t.offer \in Created(offers) /\ t.request \in Created(requests)
     /\ o.state = "accepted"
     /\ o.lender = t.lender /\ o.borrower = t.borrower
     /\ o.amount = t.amount /\ o.rate = t.rate /\ o.request = t.request
     /\ r.borrower = t.borrower /\ r.amount = t.amount

\* A loan is on the terms of an offer its borrower accepted, for the amount its
\* request asked, whichever path of contracts copied them and however late.
LoanTermsAgreed == \A ln \in Created(loan) : TermsAgreed(offer, request, loan[ln].terms)

\* Principal moves and the loan comes into being together or not at all: every
\* settled principal request has its loan, and an offer taken the token way has a
\* loan only if its principal was settled.
PrincipalMovesWithLoan ==
  /\ \A q \in Created(principal) : principal[q].state = "settled" =>
       \E ln \in Created(loan) : loan[ln].terms = principal[q].terms
  /\ \A q \in Created(principal), ln \in Created(loan) :
       loan[ln].terms.offer = principal[q].terms.offer => principal[q].state = "settled"

\* The profiles succeeding one another form chains: one contract of each chain is
\* active, and its counters are the loans closed through contracts of the chain.
ClosedThrough(root, how) ==
  {ln \in Created(loan) : /\ loan[ln].state = how
                          /\ profile[loan[ln].terms.profile].root = root}

CreditMatchesClosures ==
  \A p \in Created(profile) :
    LET root == profile[p].root IN
    /\ \E current \in Created(profile) :
         \A other \in Created(profile) :
           (profile[other].root = root /\ IsActiveProfile(other)) <=> other = current
    /\ IsActiveProfile(p) =>
         /\ profile[p].credit.successfulLoans = Cardinality(ClosedThrough(root, "repaid"))
         /\ profile[p].credit.defaultedLoans = Cardinality(ClosedThrough(root, "defaulted"))

\* The score of every profile contract stays within its bounds and within what
\* its own repayments and defaults account for.
ScoresAccounted == \A p \in Created(profile) : ScoreAccounted(profile[p].credit)

\* Holdings are explained by the settled legs and by the open allocations: no
\* token is lost or made, and nothing is locked for a leg no allocation stands for.
LegOf(key) == IF key[1] = "principal" THEN PrincipalLeg(key[2]) ELSE RepaymentLeg(key[2])

SettledKeys ==
  {key \in ({"principal"} \X Created(principal)) \cup ({"repayment"} \X Created(repayment)) :
     (IF key[1] = "principal" THEN principal[key[2]] ELSE repayment[key[2]]).state = "settled"}

TotalSent(keys, p)     == SumFunction([k \in {k \in keys : LegOf(k).sender = p}
                                         |-> LegOf(k).amount])
TotalReceived(keys, p) == SumFunction([k \in {k \in keys : LegOf(k).receiver = p}
                                         |-> LegOf(k).amount])

HoldingsExplained ==
  \A p \in Parties :
    /\ escrow[p] = TotalSent(allocated, p)
    /\ wallet[p] + escrow[p] = Funds + TotalReceived(SettledKeys, p) - TotalSent(SettledKeys, p)
    /\ SettledKeys \cap allocated = {}

(***************************************************************************)
(* What the comments say of a loan that the choices do not keep.           *)
(***************************************************************************)

\* "Repayment and default choices update the borrower's credit profile"
\* (Loan.daml): the profile contract an active loan will exercise is active.
ActiveLoanCanClose ==
  \A ln \in Created(loan) : IsActiveLoan(ln) => IsActiveProfile(loan[ln].terms.profile)

\* "the Loan stays active until lender exercises CompleteRepaymentReceived"
\* (Loan.daml): a repayment is settled while its loan is active.
SettlesActiveLoan ==
  [][\A q \in Repayments :
       (repayment'[q] # repayment[q] /\ repayment'[q].state = "settled")
         => IsActiveLoan(repayment[q].loan)]_vars

(***************************************************************************)
(* The contracts implement LoanAgreement.                                  *)
(***************************************************************************)
DebtOf(ln) ==
  IF loan[ln] = NoContract THEN NoContract
  ELSE LET t == loan[ln].terms IN
       [lender |-> t.lender, borrower |-> t.borrower, amount |-> t.amount, rate |-> t.rate,
        need |-> t.request, history |-> profile[t.profile].root, state |-> loan[ln].state]

DebtRecords == [lender : Lenders, borrower : Borrowers, amount : Amounts, rate : Rates,
                need : Requests, history : Profiles, state : {"active", "repaid", "defaulted"}]

\* Nor does NoContract stand for a debt or a credit record.
ASSUME NoRecordAssumption == NoContract \notin DebtRecords \cup CreditRecords

HistoryOf(root) ==
  IF profile[root] = NoContract \/ profile[root].root # root THEN NoContract
  ELSE profile[CHOOSE p \in Created(profile) :
                 profile[p].root = root /\ IsActiveProfile(p)].credit

Agreement == INSTANCE LoanAgreement WITH
  Needs <- Requests, Debts <- Loans, Histories <- Profiles, Nothing <- NoContract,
  need <- request,
  debt <- [ln \in Loans |-> DebtOf(ln)],
  cash <- [p \in Parties |-> wallet[p] + escrow[p]],
  history <- [root \in Profiles |-> HistoryOf(root)]

\* Every choice is a step of the agreement or invisible to it.
ImplementsAgreement == Agreement!Spec
=============================================================================
