-------------------------- MODULE LoanLedgerProofs --------------------------
(***************************************************************************)
(* Proofs about LoanLedger and the screens over it, for every set of       *)
(* parties, amounts, rates, windows and contract ids: types, the funding   *)
(* guarantees, the credit history, that the contracts implement            *)
(* LoanAgreement, where the tokens are, and what LoanDesk's screens offer. *)
(***************************************************************************)
EXTENDS LoanDesk, Sums, FiniteSetTheorems, TLAPS

-----------------------------------------------------------------------------
(* Credit records *)

LEMMA NewCreditAccounted == NewCredit \in CreditRecords /\ ScoreAccounted(NewCredit)
BY DEF NewCredit, CreditRecords, CreditScores, ScoreAccounted, initialCreditScore,
   minCreditScore, maxCreditScore, successRepayScoreDelta, defaultScoreDelta

\* A recorded repayment keeps a record well formed and its score accounted for.
LEMMA SuccessAccounted ==
  ASSUME NEW c \in CreditRecords
  PROVE  /\ RecordSuccessfulLoan(c) \in CreditRecords
         /\ ScoreAccounted(c) => ScoreAccounted(RecordSuccessfulLoan(c))
BY DEF RecordSuccessfulLoan, AtMost, CreditRecords, CreditScores, ScoreAccounted,
   initialCreditScore, minCreditScore, maxCreditScore, successRepayScoreDelta,
   defaultScoreDelta

\* So does a recorded default.
LEMMA DefaultAccounted ==
  ASSUME NEW c \in CreditRecords
  PROVE  /\ RecordDefaultedLoan(c) \in CreditRecords
         /\ ScoreAccounted(c) => ScoreAccounted(RecordDefaultedLoan(c))
BY DEF RecordDefaultedLoan, AtLeast, CreditRecords, CreditScores, ScoreAccounted,
   initialCreditScore, minCreditScore, maxCreditScore, successRepayScoreDelta,
   defaultScoreDelta

LEMMA CloseType ==
  ASSUME TypeOK, NEW ln \in Loans, NEW how \in {"repaid", "defaulted"},
         NEW credit \in CreditRecords, CloseLoan(ln, how, credit)
  PROVE  TypeOK'
<1> DEFINE p == loan[ln].terms.profile
<1>1. /\ loan[ln] \in LoanContract
      /\ p \in Profiles
      /\ profile[p] \in ProfileContract
  BY DEF CloseLoan, IsActiveLoan, IsActiveProfile, Created, TypeOK, LoanContract, LoanTerms
<1>2. loan' \in [Loans -> LoanContract \cup {NoContract}]
  BY <1>1 DEF CloseLoan, Archive, TypeOK, LoanContract
<1>3. PICK next \in Profiles :
        profile' = [profile EXCEPT ![p].state = "archived",
                                   ![next] = [profile[p] EXCEPT !.credit = credit]]
  BY DEF CloseLoan, ReplaceProfile, Fresh, TypeOK
<1>4. /\ [profile[p] EXCEPT !.state = "archived"] \in ProfileContract
      /\ [profile[p] EXCEPT !.credit = credit] \in ProfileContract
  BY <1>1 DEF ProfileContract
<1>5. profile' \in [Profiles -> ProfileContract \cup {NoContract}]
  BY <1>1, <1>3, <1>4 DEF TypeOK
<1>6. QED
  BY <1>2, <1>5 DEF CloseLoan, TypeOK, offerVars, fundingVars, tokenVars

(* Writing a contract *)

LEMMA NoContractIsNone ==
  /\ NoContract \notin RequestContract
  /\ NoContract \notin PrincipalContract
  /\ NoContract \notin RepaymentContract
BY NoContractAssumption

\* Archiving a contract keeps its type and the set of ids in use.
LEMMA ArchiveRequest ==
  ASSUME TypeOK, NEW r \in Requests, IsOpen(request, r),
         NEW how \in {"withdrawn", "funded"}, request' = Archive(request, r, how)
  PROVE  /\ request' \in [Requests -> RequestContract \cup {NoContract}]
         /\ Created(request') = Created(request)
<1>1. r \in Created(request) /\ request[r] \in RequestContract
  BY DEF IsOpen, Created, TypeOK
<1>2. request' = [request EXCEPT ![r] = [request[r] EXCEPT !.state = how]]
  BY <1>1 DEF Archive, TypeOK
<1>3. [request[r] EXCEPT !.state = how] \in RequestContract
  BY <1>1 DEF RequestContract
<1>4. request \in [Requests -> RequestContract \cup {NoContract}]
  BY DEF TypeOK
<1>5. QED BY <1>1, <1>2, <1>3, <1>4, NoContractIsNone DEF Created

LEMMA ArchivePrincipal ==
  ASSUME TypeOK, NEW q \in Principals, IsOpen(principal, q),
         NEW how \in {"settled", "dropped"}, principal' = Archive(principal, q, how)
  PROVE  /\ principal' \in [Principals -> PrincipalContract \cup {NoContract}]
         /\ Created(principal') = Created(principal)
<1>1. q \in Created(principal) /\ principal[q] \in PrincipalContract
  BY DEF IsOpen, Created, TypeOK
<1>2. principal' = [principal EXCEPT ![q] = [principal[q] EXCEPT !.state = how]]
  BY <1>1 DEF Archive, TypeOK
<1>3. [principal[q] EXCEPT !.state = how] \in PrincipalContract
  BY <1>1 DEF PrincipalContract
<1>4. principal \in [Principals -> PrincipalContract \cup {NoContract}]
  BY DEF TypeOK
<1>5. QED BY <1>1, <1>2, <1>3, <1>4, NoContractIsNone DEF Created

LEMMA ArchiveRepayment ==
  ASSUME TypeOK, NEW q \in Repayments, IsOpen(repayment, q),
         NEW how \in {"settled", "dropped"}, repayment' = Archive(repayment, q, how)
  PROVE  /\ repayment' \in [Repayments -> RepaymentContract \cup {NoContract}]
         /\ Created(repayment') = Created(repayment)
<1>1. q \in Created(repayment) /\ repayment[q] \in RepaymentContract
  BY DEF IsOpen, Created, TypeOK
<1>2. repayment' = [repayment EXCEPT ![q] = [repayment[q] EXCEPT !.state = how]]
  BY <1>1 DEF Archive, TypeOK
<1>3. [repayment[q] EXCEPT !.state = how] \in RepaymentContract
  BY <1>1 DEF RepaymentContract
<1>4. repayment \in [Repayments -> RepaymentContract \cup {NoContract}]
  BY DEF TypeOK
<1>5. QED BY <1>1, <1>2, <1>3, <1>4, NoContractIsNone DEF Created

-----------------------------------------------------------------------------
(* Type correctness, action by action *)

LEMMA RequestTypes ==
  ASSUME TypeOK
  PROVE  /\ \A b \in Borrowers : CreateCreditProfile(b) => TypeOK'
         /\ \A b \in Borrowers, a \in Amounts : CreateLoanRequest(b, a) => TypeOK'
         /\ \A r \in Requests : LoanRequest_Withdraw(r) => TypeOK'
         /\ \A r \in Requests, l \in Lenders : LoanRequest_DiscloseToLender(r, l) => TypeOK'
<1>1. ASSUME NEW b \in Borrowers, CreateCreditProfile(b) PROVE TypeOK'
  BY <1>1, NewCreditAccounted
     DEF TypeOK, CreateCreditProfile, Fresh, ProfileContract, offerVars, fundingVars, tokenVars
<1>2. ASSUME NEW b \in Borrowers, NEW a \in Amounts, CreateLoanRequest(b, a) PROVE TypeOK'
  <2>1. PICK r \in Requests :
          /\ request[r] = NoContract
          /\ request' = [request EXCEPT ![r] =
                          [borrower |-> b, amount |-> a, state |-> "open"]]
    BY <1>2 DEF CreateLoanRequest, Fresh, TypeOK
  <2>2. [borrower |-> b, amount |-> a, state |-> "open"] \in RequestContract
    BY DEF RequestContract
  <2>3. /\ request' \in [Requests -> RequestContract \cup {NoContract}]
        /\ Created(request) \subseteq Created(request')
    BY <2>1, <2>2, NoContractIsNone DEF TypeOK, Created
  <2>4. QED
    BY <1>2, <2>3 DEF TypeOK, CreateLoanRequest, fundingVars, servicingVars, tokenVars
<1>3. ASSUME NEW r \in Requests, LoanRequest_Withdraw(r) PROVE TypeOK'
  <2>1. /\ request' \in [Requests -> RequestContract \cup {NoContract}]
        /\ Created(request') = Created(request)
    BY <1>3, ArchiveRequest DEF LoanRequest_Withdraw
  <2>2. QED
    BY <1>3, <2>1 DEF TypeOK, LoanRequest_Withdraw, fundingVars, servicingVars, tokenVars
<1>4. ASSUME NEW r \in Requests, NEW l \in Lenders, LoanRequest_DiscloseToLender(r, l)
      PROVE  TypeOK'
  BY <1>4 DEF TypeOK, LoanRequest_DiscloseToLender, IsOpen, fundingVars, servicingVars, tokenVars
<1>5. QED BY <1>1, <1>2, <1>3, <1>4

LEMMA OfferTypes ==
  ASSUME TypeOK
  PROVE  /\ \A l \in Lenders, r \in Requests, a \in Amounts, rate \in Rates :
              CreateLoanOffer(l, r, a, rate) => TypeOK'
         /\ \A o \in Offers, p \in Profiles : LoanOffer_Accept(o, p) => TypeOK'
         /\ \A o \in Offers, p \in Profiles, w \in Windows :
              LoanOffer_AcceptWithToken(o, p, w) => TypeOK'
<1>1. ASSUME NEW l \in Lenders, NEW r \in Requests, NEW a \in Amounts, NEW rate \in Rates,
             CreateLoanOffer(l, r, a, rate)
      PROVE  TypeOK'
  <2>1. request[r] \in RequestContract
    BY <1>1 DEF CreateLoanOffer, IsOpen, Created, TypeOK
  <2>2. QED
    BY <1>1, <2>1 DEF TypeOK, CreateLoanOffer, Fresh, OfferContract, RequestContract,
                      fundingVars, servicingVars, tokenVars
<1>2. ASSUME NEW o \in Offers, NEW p \in Profiles, LoanOffer_Accept(o, p)
      PROVE  TypeOK'
  <2>1. offer[o] \in OfferContract
    BY <1>2 DEF LoanOffer_Accept, IsOpen, Created, TypeOK
  <2>2. /\ request' \in [Requests -> RequestContract \cup {NoContract}]
        /\ Created(request') = Created(request)
    BY <1>2, <2>1, ArchiveRequest DEF LoanOffer_Accept, RequestAcceptsOffer, OfferContract
  <2>3. AcceptedTerms(o, p) \in LoanTerms
    BY <2>1 DEF AcceptedTerms, LoanTerms, OfferContract
  <2>4. loan' \in [Loans -> LoanContract \cup {NoContract}]
    BY <1>2, <2>3 DEF LoanOffer_Accept, CreateLoan, Fresh, LoanContract, TypeOK
  <2>5. offer' \in [Offers -> OfferContract \cup {NoContract}]
    BY <1>2, <2>1 DEF LoanOffer_Accept, Archive, OfferContract, TypeOK
  <2>6. QED
    BY <1>2, <2>2, <2>4, <2>5 DEF LoanOffer_Accept, TypeOK, fundingVars, tokenVars
<1>3. ASSUME NEW o \in Offers, NEW p \in Profiles, NEW w \in Windows,
             LoanOffer_AcceptWithToken(o, p, w)
      PROVE  TypeOK'
  BY <1>3, LedgerAssumption
     DEF TypeOK, LoanOffer_AcceptWithToken, IsOpen, Created, Archive, AcceptedTerms, Fresh,
         OfferContract, IntentContract, LoanTerms, servicingVars, tokenVars
<1>4. QED BY <1>1, <1>2, <1>3

LEMMA LegTypes ==
  ASSUME TypeOK
  PROVE  /\ \A q \in Principals : principal[q] # NoContract =>
              PrincipalLeg(q) \in [sender : Parties, receiver : Parties, amount : Nat]
         /\ \A q \in Repayments : repayment[q] # NoContract =>
              RepaymentLeg(q) \in [sender : Parties, receiver : Parties, amount : Nat]
BY LedgerAssumption
   DEF TypeOK, PrincipalLeg, RepaymentLeg, PrincipalContract, LoanTerms,
       RepaymentContract, Parties

LEMMA FundingTypes ==
  ASSUME TypeOK
  PROVE  /\ \A i \in Intents : FundingIntent_ConfirmByLender(i) => TypeOK'
         /\ \A q \in Principals : DropPrincipalRequest(q) => TypeOK'
         /\ \A q \in Principals : LoanPrincipalRequest_CompleteFunding(q) => TypeOK'
<1>1. ASSUME NEW i \in Intents, FundingIntent_ConfirmByLender(i) PROVE TypeOK'
  <2>1. intent[i] \in IntentContract
    BY <1>1 DEF FundingIntent_ConfirmByLender, IsOpen, Created, TypeOK
  <2>2. intent' \in [Intents -> IntentContract \cup {NoContract}]
    BY <1>1, <2>1 DEF FundingIntent_ConfirmByLender, Archive, IntentContract, TypeOK
  <2>3. PICK q \in Principals :
          principal' = [principal EXCEPT ![q] = [intent[i] EXCEPT !.state = "open"]]
    BY <1>1 DEF FundingIntent_ConfirmByLender, Fresh, TypeOK
  <2>4. [intent[i] EXCEPT !.state = "open"] \in PrincipalContract
    BY <2>1 DEF IntentContract, PrincipalContract
  <2>5. /\ principal' \in [Principals -> PrincipalContract \cup {NoContract}]
        /\ Created(principal) \subseteq Created(principal')
    BY <2>3, <2>4, NoContractIsNone DEF TypeOK, Created
  <2>6. QED
    BY <1>1, <2>2, <2>5 DEF FundingIntent_ConfirmByLender, TypeOK,
                            offerVars, servicingVars, tokenVars
<1>2. ASSUME NEW q \in Principals, DropPrincipalRequest(q) PROVE TypeOK'
  <2>1. /\ principal' \in [Principals -> PrincipalContract \cup {NoContract}]
        /\ Created(principal') = Created(principal)
    BY <1>2, ArchivePrincipal DEF DropPrincipalRequest
  <2>2. QED
    BY <1>2, <2>1 DEF DropPrincipalRequest, TypeOK, offerVars, servicingVars, tokenVars
<1>3. ASSUME NEW q \in Principals, LoanPrincipalRequest_CompleteFunding(q) PROVE TypeOK'
  <2>1. principal[q] \in PrincipalContract /\ principal[q].terms \in LoanTerms
    BY <1>3 DEF LoanPrincipalRequest_CompleteFunding, IsOpen, Created, TypeOK,
                PrincipalContract
  <2>2. /\ request' \in [Requests -> RequestContract \cup {NoContract}]
        /\ Created(request') = Created(request)
    BY <1>3, <2>1, ArchiveRequest DEF LoanPrincipalRequest_CompleteFunding, LoanTerms
  <2>3. /\ principal' \in [Principals -> PrincipalContract \cup {NoContract}]
        /\ Created(principal') = Created(principal)
    BY <1>3, ArchivePrincipal DEF LoanPrincipalRequest_CompleteFunding
  <2>4. loan' \in [Loans -> LoanContract \cup {NoContract}]
    BY <1>3, <2>1 DEF LoanPrincipalRequest_CompleteFunding, CreateLoan, Fresh,
                      LoanContract, TypeOK
  <2>5. PrincipalLeg(q) \in [sender : Parties, receiver : Parties, amount : Nat]
    BY <1>3, LegTypes DEF LoanPrincipalRequest_CompleteFunding, IsOpen, Created
  <2>6. /\ wallet' \in [Parties -> Nat] /\ escrow' \in [Parties -> Int]
        /\ allocated' \subseteq allocated
    BY <1>3, <2>5 DEF LoanPrincipalRequest_CompleteFunding, ExecuteTransfer, TypeOK
  <2>7. QED
    BY <1>3, <2>2, <2>3, <2>4, <2>6 DEF LoanPrincipalRequest_CompleteFunding, TypeOK
<1>4. QED BY <1>1, <1>2, <1>3

LEMMA ServicingTypes ==
  ASSUME TypeOK
  PROVE  /\ \A ln \in Loans : Loan_RepayLoan(ln) => TypeOK'
         /\ \A ln \in Loans : Loan_MarkDefault(ln) => TypeOK'
         /\ \A ln \in Loans, w \in Windows : Loan_RequestRepayment(ln, w) => TypeOK'
         /\ \A q \in Repayments : DropRepaymentRequest(q) => TypeOK'
         /\ \A q \in Repayments : LoanRepaymentRequest_CompleteRepayment(q) => TypeOK'
<1>1. \A ln \in Loans : (\E how, credit : CloseLoan(ln, how, credit)) =>
                          PinnedCredit(ln) \in CreditRecords
  BY DEF CloseLoan, IsActiveLoan, IsActiveProfile, Created, TypeOK, PinnedCredit,
         LoanContract, LoanTerms, ProfileContract
<1>2. ASSUME NEW ln \in Loans, Loan_RepayLoan(ln) PROVE TypeOK'
  BY <1>1, <1>2, CloseType, SuccessAccounted DEF Loan_RepayLoan
<1>3. ASSUME NEW ln \in Loans, Loan_MarkDefault(ln) PROVE TypeOK'
  BY <1>1, <1>3, CloseType, DefaultAccounted DEF Loan_MarkDefault
<1>4. ASSUME NEW ln \in Loans, NEW w \in Windows, Loan_RequestRepayment(ln, w) PROVE TypeOK'
  <2>1. loan[ln].terms \in LoanTerms
    BY <1>4 DEF Loan_RequestRepayment, IsActiveLoan, Created, TypeOK, LoanContract
  <2>2. RepaymentAmount(ln) \in Nat
    <3>1. loan[ln].terms.amount \in Nat /\ loan[ln].terms.rate \in Nat
      BY <2>1, LedgerAssumption DEF LoanTerms
    <3>2. \A a, rate \in Nat : a * rate \in Nat
      OBVIOUS
    <3>3. \A n \in Nat : n \div 100 \in Nat
      OBVIOUS
    <3>4. QED BY <3>1, <3>2, <3>3 DEF RepaymentAmount
  <2>3. PICK q \in Repayments :
          repayment' = [repayment EXCEPT ![q] =
            [lender |-> loan[ln].terms.lender, borrower |-> loan[ln].terms.borrower,
             amount |-> RepaymentAmount(ln), prepareUntil |-> w[1], settleBefore |-> w[2],
             loan |-> ln, state |-> "open"]]
    BY <1>4 DEF Loan_RequestRepayment, Fresh, TypeOK
  <2>4. [lender |-> loan[ln].terms.lender, borrower |-> loan[ln].terms.borrower,
         amount |-> RepaymentAmount(ln), prepareUntil |-> w[1], settleBefore |-> w[2],
         loan |-> ln, state |-> "open"] \in RepaymentContract
    BY <2>1, <2>2, LedgerAssumption DEF RepaymentContract, LoanTerms
  <2>5. /\ repayment' \in [Repayments -> RepaymentContract \cup {NoContract}]
        /\ Created(repayment) \subseteq Created(repayment')
    BY <2>3, <2>4, NoContractIsNone DEF TypeOK, Created
  <2>6. QED
    BY <1>4, <2>5 DEF Loan_RequestRepayment, TypeOK, offerVars, fundingVars, tokenVars
<1>5. ASSUME NEW q \in Repayments, DropRepaymentRequest(q) PROVE TypeOK'
  <2>1. /\ repayment' \in [Repayments -> RepaymentContract \cup {NoContract}]
        /\ Created(repayment') = Created(repayment)
    BY <1>5, ArchiveRepayment DEF DropRepaymentRequest
  <2>2. QED
    BY <1>5, <2>1 DEF DropRepaymentRequest, TypeOK, offerVars, fundingVars, tokenVars
<1>6. ASSUME NEW q \in Repayments, LoanRepaymentRequest_CompleteRepayment(q) PROVE TypeOK'
  <2>1. RepaymentLeg(q) \in [sender : Parties, receiver : Parties, amount : Nat]
    BY <1>6, LegTypes DEF LoanRepaymentRequest_CompleteRepayment, IsOpen, Created
  <2>2. /\ wallet' \in [Parties -> Nat] /\ escrow' \in [Parties -> Int]
        /\ allocated' \subseteq allocated
    BY <1>6, <2>1 DEF LoanRepaymentRequest_CompleteRepayment, ExecuteTransfer, TypeOK
  <2>3. /\ repayment' \in [Repayments -> RepaymentContract \cup {NoContract}]
        /\ Created(repayment') = Created(repayment)
    BY <1>6, ArchiveRepayment DEF LoanRepaymentRequest_CompleteRepayment
  <2>4. QED
    BY <1>6, <2>2, <2>3 DEF TypeOK, LoanRepaymentRequest_CompleteRepayment,
                            offerVars, fundingVars
<1>7. QED BY <1>2, <1>3, <1>4, <1>5, <1>6

LEMMA WalletTypes ==
  ASSUME TypeOK
  PROVE  /\ \A q \in Principals : AllocatePrincipal(q) => TypeOK'
         /\ \A q \in Repayments : AllocateRepayment(q) => TypeOK'
         /\ \A key \in allocated : Allocation_Withdraw(key) => TypeOK'
<1>1. ASSUME NEW q \in Principals, AllocatePrincipal(q) PROVE TypeOK'
  <2>1. /\ q \in Created(principal)
        /\ PrincipalLeg(q) \in [sender : Parties, receiver : Parties, amount : Nat]
    BY <1>1, LegTypes DEF AllocatePrincipal, IsOpen, Created
  <2>2. wallet' \in [Parties -> Nat] /\ escrow' \in [Parties -> Int]
    BY <1>1, <2>1 DEF AllocatePrincipal, Allocate, TypeOK
  <2>3. QED
    BY <1>1, <2>1, <2>2 DEF AllocatePrincipal, Allocate, TypeOK,
                            offerVars, fundingVars, servicingVars
<1>2. ASSUME NEW q \in Repayments, AllocateRepayment(q) PROVE TypeOK'
  <2>1. /\ q \in Created(repayment)
        /\ RepaymentLeg(q) \in [sender : Parties, receiver : Parties, amount : Nat]
    BY <1>2, LegTypes DEF AllocateRepayment, IsOpen, Created
  <2>2. wallet' \in [Parties -> Nat] /\ escrow' \in [Parties -> Int]
    BY <1>2, <2>1 DEF AllocateRepayment, Allocate, TypeOK
  <2>3. QED
    BY <1>2, <2>1, <2>2 DEF AllocateRepayment, Allocate, TypeOK,
                            offerVars, fundingVars, servicingVars
<1>3. ASSUME NEW key \in allocated, Allocation_Withdraw(key) PROVE TypeOK'
  <2> DEFINE leg == IF key[1] = "principal" THEN PrincipalLeg(key[2]) ELSE RepaymentLeg(key[2])
  <2>1. leg \in [sender : Parties, receiver : Parties, amount : Nat]
    BY LegTypes DEF TypeOK, Created
  <2>2. /\ allocated' \subseteq allocated
        /\ wallet' = [wallet EXCEPT ![leg.sender] = @ + leg.amount]
        /\ escrow' = [escrow EXCEPT ![leg.sender] = @ - leg.amount]
    BY <1>3 DEF Allocation_Withdraw
  <2>3. wallet' \in [Parties -> Nat] /\ escrow' \in [Parties -> Int]
    BY <2>1, <2>2 DEF TypeOK
  <2>4. QED
    BY <1>3, <2>2, <2>3 DEF Allocation_Withdraw, TypeOK, offerVars, fundingVars, servicingVars
<1>4. QED BY <1>1, <1>2, <1>3

LEMMA InitType == Init => TypeOK
BY LedgerAssumption DEF Init, TypeOK, Created

LEMMA NextType == TypeOK /\ [Next]_vars => TypeOK'
<1> SUFFICES ASSUME TypeOK, [Next]_vars PROVE TypeOK'
  OBVIOUS
<1>1. CASE Tick
  BY <1>1 DEF Tick, TypeOK, offerVars, fundingVars, servicingVars, tokenVars
<1>2. CASE Origination
  BY <1>2, RequestTypes, OfferTypes DEF Origination
<1>3. CASE TokenFunding
  BY <1>3, OfferTypes, FundingTypes, WalletTypes DEF TokenFunding
<1>4. CASE Servicing
  BY <1>4, ServicingTypes, WalletTypes DEF Servicing, Loan_CompleteRepaymentReceived
<1>5. CASE \E key \in allocated : Allocation_Withdraw(key)
  BY <1>5, WalletTypes
<1>6. CASE UNCHANGED vars
  BY <1>6 DEF TypeOK, vars
<1>7. QED BY <1>1, <1>2, <1>3, <1>4, <1>5, <1>6 DEF Next

\* Every reachable state of the loan contracts and of the wallets is well typed; in
\* particular credit scores stay in bounds and no wallet is overdrawn.
THEOREM TypeCorrect == Spec => []TypeOK
BY InitType, NextType, PTL DEF Spec

-----------------------------------------------------------------------------
(***************************************************************************)
(* The funding guarantees: one loan per request, loans on agreed terms,    *)
(* principal moved exactly with its loan.  They hold together: the proof   *)
(* carries the terms along the chain offer, intent, principal request,     *)
(* loan, and shows that an offer is used by at most one of each.           *)
(***************************************************************************)

\* Every contract made from an offer agrees with the offer and with its request.
TermsHold ==
  /\ \A i  \in Created(intent)    : TermsAgreed(offer, request, intent[i].terms)
  /\ \A q  \in Created(principal) : TermsAgreed(offer, request, principal[q].terms)
  /\ \A ln \in Created(loan)      : TermsAgreed(offer, request, loan[ln].terms)

\* An offer leads to at most one intent and one principal request, and while the
\* intent is open to no principal request and no loan.
OfferUsedOnce ==
  /\ \A i, j \in Created(intent) : intent[i].terms.offer = intent[j].terms.offer => i = j
  /\ \A q, s \in Created(principal) :
       principal[q].terms.offer = principal[s].terms.offer => q = s
  /\ \A i \in Created(intent), q \in Created(principal) :
       intent[i].terms.offer = principal[q].terms.offer => intent[i].state = "confirmed"
  /\ \A i \in Created(intent), ln \in Created(loan) :
       intent[i].terms.offer = loan[ln].terms.offer => intent[i].state = "confirmed"

FundingInv == /\ TypeOK
              /\ TermsHold
              /\ OfferUsedOnce
              /\ EachRequestFundedOnce
              /\ PrincipalMovesWithLoan

-----------------------------------------------------------------------------
(* What no step undoes *)

OffersKept ==
  \A o \in Created(offer) :
    /\ o \in Created(offer')
    /\ offer'[o].lender = offer[o].lender /\ offer'[o].borrower = offer[o].borrower
    /\ offer'[o].amount = offer[o].amount /\ offer'[o].rate = offer[o].rate
    /\ offer'[o].request = offer[o].request
    /\ offer[o].state = "accepted" => offer'[o].state = "accepted"

RequestsKept ==
  \A r \in Created(request) :
    /\ r \in Created(request')
    /\ request'[r].borrower = request[r].borrower /\ request'[r].amount = request[r].amount

\* Agreed terms stay agreed while offers and requests keep what they say.
LEMMA TermsPersist ==
  ASSUME OffersKept, RequestsKept
  PROVE  \A t : TermsAgreed(offer, request, t) => TermsAgreed(offer', request', t)
BY DEF TermsAgreed, OffersKept, RequestsKept

LEMMA OfferAccepted ==
  ASSUME TypeOK, NEW o \in Offers, IsOpen(offer, o), offer' = Archive(offer, o, "accepted")
  PROVE  OffersKept /\ offer'[o].state = "accepted"
<1>1. offer[o] \in OfferContract
  BY DEF IsOpen, Created, TypeOK
<1>2. offer' = [offer EXCEPT ![o] = [offer[o] EXCEPT !.state = "accepted"]]
  BY <1>1 DEF Archive, TypeOK
<1>3. [offer[o] EXCEPT !.state = "accepted"] \in OfferContract
  BY <1>1 DEF OfferContract
<1>4. QED BY <1>1, <1>2, <1>3, NoContractAssumption DEF OffersKept, Created, OfferContract, TypeOK

LEMMA RequestArchived ==
  ASSUME TypeOK, NEW r \in Requests, IsOpen(request, r),
         NEW how \in {"withdrawn", "funded"}, request' = Archive(request, r, how)
  PROVE  /\ RequestsKept
         /\ Created(request') = Created(request)
         /\ request'[r].state = how
         /\ \A c \in Requests \ {r} : request'[c] = request[c]
<1>1. request[r] \in RequestContract
  BY DEF IsOpen, Created, TypeOK
<1>2. request' = [request EXCEPT ![r] = [request[r] EXCEPT !.state = how]]
  BY <1>1 DEF Archive, TypeOK
<1>3. Created(request') = Created(request)
  BY ArchiveRequest
<1>4. QED BY <1>1, <1>2, <1>3 DEF RequestsKept, Created, RequestContract, TypeOK

LEMMA LoanCreated ==
  ASSUME TypeOK, NEW terms \in LoanTerms, CreateLoan(terms)
  PROVE  \E ln \in Loans : /\ ln \notin Created(loan)
                           /\ Created(loan') = Created(loan) \cup {ln}
                           /\ loan'[ln].terms = terms
                           /\ \A other \in Created(loan) : loan'[other] = loan[other]
<1>1. PICK ln \in Loans : /\ loan[ln] = NoContract
                          /\ loan' = [loan EXCEPT ![ln] = [terms |-> terms, state |-> "active"]]
  BY DEF CreateLoan, Fresh, TypeOK
<1>2. [terms |-> terms, state |-> "active"] \in LoanContract
  BY DEF LoanContract
<1>3. QED BY <1>1, <1>2, NoContractAssumption DEF Created, TypeOK

-----------------------------------------------------------------------------
(* The steps *)

\* A loan made from terms whose request is open, and then funded, keeps every
\* request funded once.
LEMMA FundedOnceByLoan ==
  ASSUME FundingInv, NEW terms \in LoanTerms, CreateLoan(terms),
         IsOpen(request, terms.request), request' = Archive(request, terms.request, "funded")
  PROVE  EachRequestFundedOnce'
<1> DEFINE r == terms.request
<1>1. r \in Requests /\ r \in Created(request) /\ request[r].state = "open"
  BY DEF IsOpen, LoanTerms
<1>2. PICK ln \in Loans : /\ ln \notin Created(loan)
                          /\ Created(loan') = Created(loan) \cup {ln}
                          /\ loan'[ln].terms = terms
                          /\ \A other \in Created(loan) : loan'[other] = loan[other]
  BY LoanCreated DEF FundingInv
<1>3. /\ Created(request') = Created(request)
      /\ request'[r].state = "funded"
      /\ \A c \in Requests \ {r} : request'[c] = request[c]
  BY <1>1, RequestArchived DEF FundingInv
<1>4. \A other \in Created(loan) : loan[other].terms.request # r
  BY <1>1 DEF FundingInv, EachRequestFundedOnce
<1>5. ASSUME NEW ln1 \in Created(loan'), NEW ln2 \in Created(loan'),
             loan'[ln1].terms.request = loan'[ln2].terms.request
      PROVE  ln1 = ln2
  BY <1>2, <1>4, <1>5 DEF FundingInv, EachRequestFundedOnce
<1>6. ASSUME NEW c \in Created(request')
      PROVE  request'[c].state = "funded"
               <=> \E x \in Created(loan') : loan'[x].terms.request = c
  <2>1. CASE c = r
    BY <1>2, <1>3, <2>1
  <2>2. CASE c # r
    <3>1. request'[c] = request[c] /\ c \in Created(request)
      BY <1>3, <1>6, <2>2 DEF FundingInv, TypeOK, Created
    <3>2. request[c].state = "funded"
            <=> \E x \in Created(loan) : loan[x].terms.request = c
      BY <3>1 DEF FundingInv, EachRequestFundedOnce
    <3>3. QED BY <1>2, <2>2, <3>1, <3>2
  <2>3. QED BY <2>1, <2>2
<1>7. QED BY <1>5, <1>6 DEF EachRequestFundedOnce

LEMMA AcceptStep ==
  ASSUME FundingInv, NEW o \in Offers, NEW p \in Profiles, LoanOffer_Accept(o, p)
  PROVE  /\ TermsHold' /\ OfferUsedOnce'
         /\ EachRequestFundedOnce' /\ PrincipalMovesWithLoan'
<1>1. /\ o \in Created(offer) /\ offer[o] \in OfferContract /\ offer[o].state = "open"
      /\ IsOpen(request, offer[o].request) /\ offer[o].request \in Requests
      /\ request[offer[o].request].amount = offer[o].amount
      /\ request[offer[o].request].borrower = offer[o].borrower
  BY DEF LoanOffer_Accept, RequestAcceptsOffer, IsOpen, Created, FundingInv, TypeOK,
         OfferContract
<1>2. PICK terms \in LoanTerms :
        /\ CreateLoan(terms) /\ terms.offer = o /\ terms.request = offer[o].request
      /\ terms.lender = offer[o].lender /\ terms.borrower = offer[o].borrower
      /\ terms.amount = offer[o].amount /\ terms.rate = offer[o].rate
  BY <1>1 DEF LoanOffer_Accept, AcceptedTerms, LoanTerms, OfferContract
<1>3. PICK ln \in Loans : /\ ln \notin Created(loan)
                          /\ Created(loan') = Created(loan) \cup {ln}
                          /\ loan'[ln].terms = terms
                          /\ \A other \in Created(loan) : loan'[other] = loan[other]
  BY <1>2, LoanCreated DEF FundingInv
<1>4. UNCHANGED <<intent, principal>>
  BY DEF LoanOffer_Accept, fundingVars
<1>5. OffersKept /\ offer'[o].state = "accepted"
  BY <1>1, OfferAccepted DEF LoanOffer_Accept, FundingInv
<1>6. RequestsKept
  BY <1>1, RequestArchived DEF LoanOffer_Accept, FundingInv
<1>7. TermsHold'
  <2>1. TermsAgreed(offer', request', terms)
    BY <1>1, <1>2, <1>5, <1>6 DEF TermsAgreed, OffersKept, RequestsKept, IsOpen
  <2>2. QED
    BY <1>3, <1>4, <1>5, <1>6, <2>1, TermsPersist DEF FundingInv, TermsHold
<1>8. \* The offer was open, so nothing was made from it yet.
      /\ \A i \in Created(intent) : intent[i].terms.offer # o
      /\ \A q \in Created(principal) : principal[q].terms.offer # o
  BY <1>1 DEF FundingInv, TermsHold, TermsAgreed
<1>9. OfferUsedOnce'
  BY <1>2, <1>3, <1>4, <1>8 DEF FundingInv, OfferUsedOnce
<1>10. EachRequestFundedOnce'
  BY <1>1, <1>2, FundedOnceByLoan DEF LoanOffer_Accept
<1>11. PrincipalMovesWithLoan'
  BY <1>2, <1>3, <1>4, <1>8 DEF FundingInv, PrincipalMovesWithLoan
<1>12. QED BY <1>7, <1>9, <1>10, <1>11

\* Posting and withdrawing requests and making offers.
LEMMA RequestSteps ==
  ASSUME FundingInv, UNCHANGED <<intent, principal, loan>>,
         \/ \E b \in Borrowers, a \in Amounts : CreateLoanRequest(b, a)
         \/ \E r \in Requests : LoanRequest_Withdraw(r)
         \/ \E l \in Lenders, r \in Requests, a \in Amounts, rate \in Rates :
              CreateLoanOffer(l, r, a, rate)
  PROVE  TermsHold' /\ EachRequestFundedOnce'
<1>1. ASSUME NEW b \in Borrowers, NEW a \in Amounts, CreateLoanRequest(b, a)
      PROVE  TermsHold' /\ EachRequestFundedOnce'
  <2> DEFINE contract == [borrower |-> b, amount |-> a, state |-> "open"]
  <2>1. PICK r \in Requests : /\ request[r] = NoContract
                              /\ request' = [request EXCEPT ![r] = contract]
    BY <1>1 DEF CreateLoanRequest, Fresh, FundingInv, TypeOK
  <2>2. contract \in RequestContract
    BY DEF RequestContract
  <2>3. /\ Created(request') = Created(request) \cup {r} /\ r \notin Created(request)
        /\ request'[r].state = "open"
        /\ \A c \in Created(request) : request'[c] = request[c]
    BY <2>1, <2>2, NoContractIsNone DEF Created, FundingInv, TypeOK
  <2>4. OffersKept /\ RequestsKept
    BY <1>1, <2>3 DEF CreateLoanRequest, OffersKept, RequestsKept
  <2>5. TermsHold'
    BY <2>4, TermsPersist DEF FundingInv, TermsHold
  <2>6. \A ln \in Created(loan) : loan[ln].terms.request \in Created(request)
    BY DEF FundingInv, TermsHold, TermsAgreed
  <2>7. EachRequestFundedOnce'
    BY <2>3, <2>6 DEF FundingInv, EachRequestFundedOnce
  <2>8. QED BY <2>5, <2>7
<1>2. ASSUME NEW r \in Requests, LoanRequest_Withdraw(r)
      PROVE  TermsHold' /\ EachRequestFundedOnce'
  <2>1. /\ r \in Created(request) /\ request[r].state = "open"
        /\ RequestsKept /\ Created(request') = Created(request)
        /\ request'[r].state = "withdrawn"
        /\ \A c \in Requests \ {r} : request'[c] = request[c]
    BY <1>2, RequestArchived DEF LoanRequest_Withdraw, IsOpen, FundingInv
  <2>2. OffersKept
    BY <1>2 DEF LoanRequest_Withdraw, OffersKept
  <2>3. TermsHold'
    BY <2>1, <2>2, TermsPersist DEF FundingInv, TermsHold
  <2>4. Created(request) \subseteq Requests
    BY DEF Created, FundingInv, TypeOK
  <2>5. EachRequestFundedOnce'
    BY <2>1, <2>4 DEF FundingInv, EachRequestFundedOnce
  <2>6. QED BY <2>3, <2>5
<1>3. ASSUME NEW l \in Lenders, NEW r \in Requests, NEW a \in Amounts, NEW rate \in Rates,
             CreateLoanOffer(l, r, a, rate)
      PROVE  TermsHold' /\ EachRequestFundedOnce'
  <2>1. /\ request' = request
        /\ \E o \in Offers : \E x : /\ offer[o] = NoContract
                                    /\ offer' = [offer EXCEPT ![o] = x]
                                    /\ x # NoContract
    <3>1. request[r] \in RequestContract
      BY <1>3 DEF CreateLoanOffer, IsOpen, Created, FundingInv, TypeOK
    <3>2. [lender |-> l, borrower |-> request[r].borrower, amount |-> a, rate |-> rate,
           request |-> r, state |-> "open"] \in OfferContract
      BY <3>1 DEF OfferContract, RequestContract
    <3>3. QED
      BY <1>3, <3>2, NoContractAssumption DEF CreateLoanOffer, Fresh, FundingInv, TypeOK
  <2>2. OffersKept /\ RequestsKept
    BY <2>1 DEF OffersKept, RequestsKept, Created, FundingInv, TypeOK
  <2>3. TermsHold'
    BY <2>2, TermsPersist DEF FundingInv, TermsHold
  <2>4. EachRequestFundedOnce'
    BY <2>1 DEF FundingInv, EachRequestFundedOnce
  <2>5. QED BY <2>3, <2>4
<1>4. QED BY <1>1, <1>2, <1>3

LEMMA AcceptWithTokenStep ==
  ASSUME FundingInv, NEW o \in Offers, NEW p \in Profiles, NEW w \in Windows,
         LoanOffer_AcceptWithToken(o, p, w)
  PROVE  TermsHold' /\ OfferUsedOnce' /\ EachRequestFundedOnce' /\ PrincipalMovesWithLoan'
<1>1. /\ o \in Created(offer) /\ offer[o] \in OfferContract /\ offer[o].state = "open"
      /\ IsOpen(request, offer[o].request)
      /\ request[offer[o].request].amount = offer[o].amount
      /\ request[offer[o].request].borrower = offer[o].borrower
  BY DEF LoanOffer_AcceptWithToken, RequestAcceptsOffer, IsOpen, Created, FundingInv, TypeOK
<1>2. PICK terms \in LoanTerms, i \in Intents :
        /\ terms.offer = o /\ terms.request = offer[o].request
        /\ terms.lender = offer[o].lender /\ terms.borrower = offer[o].borrower
        /\ terms.amount = offer[o].amount /\ terms.rate = offer[o].rate
        /\ intent[i] = NoContract
        /\ intent' = [intent EXCEPT ![i] = [terms |-> terms, prepareUntil |-> w[1],
                                            settleBefore |-> w[2], state |-> "open"]]
  BY <1>1 DEF LoanOffer_AcceptWithToken, AcceptedTerms, LoanTerms, OfferContract, Fresh,
              FundingInv, TypeOK
<1>3. [terms |-> terms, prepareUntil |-> w[1], settleBefore |-> w[2], state |-> "open"]
        \in IntentContract
  BY <1>2, LedgerAssumption DEF IntentContract
<1>4. /\ i \notin Created(intent) /\ Created(intent') = Created(intent) \cup {i}
      /\ intent'[i].terms = terms
      /\ \A j \in Created(intent) : intent'[j] = intent[j]
  BY <1>2, <1>3, NoContractAssumption DEF Created, FundingInv, TypeOK
<1>5. UNCHANGED <<request, principal, loan>>
  BY DEF LoanOffer_AcceptWithToken, servicingVars
<1>6. OffersKept /\ RequestsKept /\ offer'[o].state = "accepted"
  BY <1>1, <1>5, OfferAccepted DEF LoanOffer_AcceptWithToken, RequestsKept, FundingInv
<1>7. TermsHold'
  <2>1. TermsAgreed(offer', request', terms)
    BY <1>1, <1>2, <1>6 DEF TermsAgreed, OffersKept, RequestsKept, IsOpen
  <2>2. QED
    BY <1>4, <1>5, <1>6, <2>1, TermsPersist DEF FundingInv, TermsHold
<1>8. /\ \A j \in Created(intent) : intent[j].terms.offer # o
      /\ \A q \in Created(principal) : principal[q].terms.offer # o
      /\ \A ln \in Created(loan) : loan[ln].terms.offer # o
  BY <1>1 DEF FundingInv, TermsHold, TermsAgreed
<1>9. OfferUsedOnce'
  <2>1. \A j, k \in Created(intent') :
          intent'[j].terms.offer = intent'[k].terms.offer => j = k
    BY <1>2, <1>4, <1>8 DEF FundingInv, OfferUsedOnce
  <2>2. /\ \A j \in Created(intent'), q \in Created(principal') :
             intent'[j].terms.offer = principal'[q].terms.offer => intent'[j].state = "confirmed"
        /\ \A j \in Created(intent'), ln \in Created(loan') :
             intent'[j].terms.offer = loan'[ln].terms.offer => intent'[j].state = "confirmed"
    <3>1. terms.offer = o
      BY <1>2
    <3>2. QED BY <1>4, <1>5, <1>8, <3>1 DEF FundingInv, OfferUsedOnce
  <2>3. QED BY <1>5, <2>1, <2>2 DEF FundingInv, OfferUsedOnce
<1>10. EachRequestFundedOnce' /\ PrincipalMovesWithLoan'
  BY <1>5 DEF FundingInv, EachRequestFundedOnce, PrincipalMovesWithLoan
<1>11. QED BY <1>7, <1>9, <1>10

LEMMA ConfirmStep ==
  ASSUME FundingInv, NEW i \in Intents, FundingIntent_ConfirmByLender(i)
  PROVE  TermsHold' /\ OfferUsedOnce' /\ EachRequestFundedOnce' /\ PrincipalMovesWithLoan'
<1>1. i \in Created(intent) /\ intent[i] \in IntentContract /\ intent[i].state = "open"
  BY DEF FundingIntent_ConfirmByLender, IsOpen, Created, FundingInv, TypeOK
<1>2. PICK q \in Principals :
        /\ principal[q] = NoContract
        /\ principal' = [principal EXCEPT ![q] = [intent[i] EXCEPT !.state = "open"]]
  BY DEF FundingIntent_ConfirmByLender, Fresh, FundingInv, TypeOK
<1>3. [intent[i] EXCEPT !.state = "open"] \in PrincipalContract
  BY <1>1 DEF IntentContract, PrincipalContract
<1>4. /\ q \notin Created(principal) /\ Created(principal') = Created(principal) \cup {q}
      /\ principal'[q].terms = intent[i].terms /\ principal'[q].state = "open"
      /\ \A s \in Created(principal) : principal'[s] = principal[s]
  BY <1>1, <1>2, <1>3, NoContractIsNone DEF Created, FundingInv, TypeOK, IntentContract
<1>5. /\ Created(intent') = Created(intent) /\ intent'[i].state = "confirmed"
      /\ \A j \in Created(intent) : intent'[j].terms = intent[j].terms
      /\ \A j \in Created(intent) \ {i} : intent'[j] = intent[j]
  <2>1. intent' = [intent EXCEPT ![i] = [intent[i] EXCEPT !.state = "confirmed"]]
    BY <1>1 DEF FundingIntent_ConfirmByLender, Archive, FundingInv, TypeOK
  <2>2. [intent[i] EXCEPT !.state = "confirmed"] \in IntentContract
    BY <1>1 DEF IntentContract
  <2>3. QED
    BY <1>1, <2>1, <2>2, NoContractAssumption DEF Created, FundingInv, TypeOK, IntentContract
<1>6. UNCHANGED <<request, offer, loan>>
  BY DEF FundingIntent_ConfirmByLender, offerVars, servicingVars
<1>7. TermsHold'
  BY <1>1, <1>4, <1>5, <1>6 DEF FundingInv, TermsHold
<1>8. \* While the intent was open nothing else had been made from its offer.
      /\ \A s \in Created(principal) : principal[s].terms.offer # intent[i].terms.offer
      /\ \A ln \in Created(loan) : loan[ln].terms.offer # intent[i].terms.offer
  BY <1>1 DEF FundingInv, OfferUsedOnce
<1>9. OfferUsedOnce'
  BY <1>1, <1>4, <1>5, <1>6, <1>8 DEF FundingInv, OfferUsedOnce
<1>10. EachRequestFundedOnce' /\ PrincipalMovesWithLoan'
  BY <1>4, <1>6, <1>8 DEF FundingInv, EachRequestFundedOnce, PrincipalMovesWithLoan
<1>11. QED BY <1>7, <1>9, <1>10

\* What dropping and settling a principal request share.
LEMMA PrincipalArchived ==
  ASSUME TypeOK, NEW q \in Principals, IsOpen(principal, q),
         NEW how \in {"settled", "dropped"}, principal' = Archive(principal, q, how)
  PROVE  /\ Created(principal') = Created(principal)
         /\ q \in Created(principal) /\ principal[q].state = "open"
         /\ principal[q].terms \in LoanTerms
         /\ principal'[q].state = how
         /\ \A s \in Created(principal) : principal'[s].terms = principal[s].terms
         /\ \A s \in Created(principal) \ {q} : principal'[s] = principal[s]
<1>1. /\ q \in Created(principal) /\ principal[q] \in PrincipalContract
      /\ principal[q].state = "open"
  BY DEF IsOpen, Created, TypeOK
<1>2. principal' = [principal EXCEPT ![q] = [principal[q] EXCEPT !.state = how]]
  BY <1>1 DEF Archive, TypeOK
<1>3. Created(principal') = Created(principal)
  BY ArchivePrincipal
<1>4. QED BY <1>1, <1>2, <1>3 DEF PrincipalContract, Created, TypeOK

LEMMA DropStep ==
  ASSUME FundingInv, NEW q \in Principals, DropPrincipalRequest(q)
  PROVE  TermsHold' /\ OfferUsedOnce' /\ EachRequestFundedOnce' /\ PrincipalMovesWithLoan'
<1>1. /\ Created(principal') = Created(principal)
      /\ q \in Created(principal) /\ principal[q].state = "open"
      /\ principal'[q].state = "dropped"
      /\ \A s \in Created(principal) : principal'[s].terms = principal[s].terms
      /\ \A s \in Created(principal) \ {q} : principal'[s] = principal[s]
  BY PrincipalArchived DEF DropPrincipalRequest, FundingInv
<1>2. UNCHANGED <<request, offer, intent, loan>>
  BY DEF DropPrincipalRequest, offerVars, servicingVars
<1>3. TermsHold' /\ OfferUsedOnce'
  BY <1>1, <1>2 DEF FundingInv, TermsHold, OfferUsedOnce
<1>4. EachRequestFundedOnce' /\ PrincipalMovesWithLoan'
  BY <1>1, <1>2 DEF FundingInv, EachRequestFundedOnce, PrincipalMovesWithLoan
<1>5. QED BY <1>3, <1>4

LEMMA CompleteFundingStep ==
  ASSUME FundingInv, NEW q \in Principals, LoanPrincipalRequest_CompleteFunding(q)
  PROVE  TermsHold' /\ OfferUsedOnce' /\ EachRequestFundedOnce' /\ PrincipalMovesWithLoan'
<1>1. /\ Created(principal') = Created(principal)
      /\ q \in Created(principal) /\ principal[q].state = "open"
      /\ principal[q].terms \in LoanTerms /\ principal'[q].state = "settled"
      /\ \A s \in Created(principal) : principal'[s].terms = principal[s].terms
      /\ \A s \in Created(principal) \ {q} : principal'[s] = principal[s]
  BY PrincipalArchived DEF LoanPrincipalRequest_CompleteFunding, FundingInv
<1>2. PICK terms \in LoanTerms :
        /\ terms = principal[q].terms
        /\ CreateLoan(terms) /\ IsOpen(request, terms.request)
        /\ request' = Archive(request, terms.request, "funded")
  BY <1>1 DEF LoanPrincipalRequest_CompleteFunding
<1>3. PICK ln \in Loans : /\ ln \notin Created(loan)
                          /\ Created(loan') = Created(loan) \cup {ln}
                          /\ loan'[ln].terms = terms
                          /\ \A other \in Created(loan) : loan'[other] = loan[other]
  BY <1>2, LoanCreated DEF FundingInv
<1>4. UNCHANGED <<offer, intent>>
  BY DEF LoanPrincipalRequest_CompleteFunding
<1>5. OffersKept /\ RequestsKept
  <2>1. terms.request \in Requests
    BY DEF LoanTerms
  <2>2. QED BY <1>2, <1>4, <2>1, RequestArchived DEF OffersKept, FundingInv
<1>6. TermsHold'
  <2>1. TermsAgreed(offer', request', terms)
    BY <1>1, <1>2, <1>5, TermsPersist DEF FundingInv, TermsHold
  <2>2. QED
    BY <1>1, <1>3, <1>4, <1>5, <2>1, TermsPersist DEF FundingInv, TermsHold
<1>7. OfferUsedOnce'
  BY <1>1, <1>2, <1>3, <1>4 DEF FundingInv, OfferUsedOnce
<1>8. EachRequestFundedOnce'
  BY <1>2, FundedOnceByLoan
<1>9. PrincipalMovesWithLoan'
  <2>1. \A s \in Created(principal') : principal'[s].state = "settled" =>
          \E x \in Created(loan') : loan'[x].terms = principal'[s].terms
    BY <1>1, <1>2, <1>3 DEF FundingInv, PrincipalMovesWithLoan
  <2>2. \A s \in Created(principal'), x \in Created(loan') :
          loan'[x].terms.offer = principal'[s].terms.offer => principal'[s].state = "settled"
    BY <1>1, <1>2, <1>3 DEF FundingInv, OfferUsedOnce, PrincipalMovesWithLoan
  <2>3. QED BY <2>1, <2>2 DEF PrincipalMovesWithLoan
<1>10. QED BY <1>6, <1>7, <1>8, <1>9

\* A step that leaves requests, offers and the funding contracts alone, and the
\* terms of every loan, cannot disturb the funding guarantees.
LEMMA OtherSteps ==
  ASSUME FundingInv, UNCHANGED <<request, offer, intent, principal>>,
         Created(loan') = Created(loan),
         \A ln \in Created(loan) : loan'[ln].terms = loan[ln].terms
  PROVE  TermsHold' /\ OfferUsedOnce' /\ EachRequestFundedOnce' /\ PrincipalMovesWithLoan'
BY DEF FundingInv, TermsHold, OfferUsedOnce, EachRequestFundedOnce, PrincipalMovesWithLoan

\* Closing a loan leaves its terms.
LEMMA CloseKeepsTerms ==
  ASSUME TypeOK, NEW ln \in Loans, NEW how \in {"repaid", "defaulted"}, NEW credit,
         CloseLoan(ln, how, credit)
  PROVE  /\ UNCHANGED <<request, offer, intent, principal>>
         /\ Created(loan') = Created(loan)
         /\ \A x \in Created(loan) : loan'[x].terms = loan[x].terms
<1>1. /\ ln \in Created(loan) /\ loan[ln] \in LoanContract
      /\ loan' = [loan EXCEPT ![ln] = [loan[ln] EXCEPT !.state = how]]
  BY DEF CloseLoan, IsActiveLoan, Archive, Created, TypeOK
<1>2. [loan[ln] EXCEPT !.state = how] \in LoanContract
  BY <1>1 DEF LoanContract
<1>3. UNCHANGED <<request, offer, intent, principal>>
  BY DEF CloseLoan, offerVars, fundingVars
<1>4. QED
  BY <1>1, <1>2, <1>3, NoContractAssumption DEF Created, TypeOK, LoanContract

-----------------------------------------------------------------------------
(* The invariant *)

LEMMA FundingInit == Init => FundingInv
<1> SUFFICES ASSUME Init PROVE FundingInv
  OBVIOUS
<1>1. /\ Created(request) = {} /\ Created(offer) = {} /\ Created(intent) = {}
      /\ Created(principal) = {} /\ Created(loan) = {}
  BY DEF Init, Created
<1>2. QED
  BY <1>1, InitType DEF FundingInv, TermsHold, OfferUsedOnce, EachRequestFundedOnce,
                        PrincipalMovesWithLoan

LEMMA FundingNext == FundingInv /\ [Next]_vars => FundingInv'
<1> SUFFICES ASSUME FundingInv, [Next]_vars PROVE FundingInv'
  OBVIOUS
<1> DEFINE Kept == /\ TermsHold' /\ OfferUsedOnce'
                   /\ EachRequestFundedOnce' /\ PrincipalMovesWithLoan'
<1>1. TypeOK'
  BY NextType DEF FundingInv
<1>2. ASSUME \/ \E b \in Borrowers, a \in Amounts : CreateLoanRequest(b, a)
             \/ \E r \in Requests : LoanRequest_Withdraw(r)
             \/ \E l \in Lenders, r \in Requests, a \in Amounts, rate \in Rates :
                  CreateLoanOffer(l, r, a, rate)
      PROVE  Kept
  <2>1. UNCHANGED <<intent, principal, loan>>
    BY <1>2 DEF CreateLoanRequest, LoanRequest_Withdraw, CreateLoanOffer, fundingVars,
                servicingVars
  <2>2. TermsHold' /\ EachRequestFundedOnce'
    BY <1>2, <2>1, RequestSteps
  <2>3. OfferUsedOnce' /\ PrincipalMovesWithLoan'
    BY <2>1 DEF FundingInv, OfferUsedOnce, PrincipalMovesWithLoan
  <2>4. QED BY <2>2, <2>3
<1>3. ASSUME \/ \E o \in Offers, p \in Profiles : LoanOffer_Accept(o, p)
             \/ \E o \in Offers, p \in Profiles, w \in Windows :
                  LoanOffer_AcceptWithToken(o, p, w)
      PROVE  Kept
  BY <1>3, AcceptStep, AcceptWithTokenStep
<1>4. ASSUME \/ \E i \in Intents : FundingIntent_ConfirmByLender(i)
             \/ \E q \in Principals : \/ DropPrincipalRequest(q)
                                      \/ LoanPrincipalRequest_CompleteFunding(q)
      PROVE  Kept
  BY <1>4, ConfirmStep, DropStep, CompleteFundingStep
<1>5. ASSUME NEW ln \in Loans, Loan_RepayLoan(ln) \/ Loan_MarkDefault(ln)
      PROVE  Kept
  BY <1>5, CloseKeepsTerms, OtherSteps DEF Loan_RepayLoan, Loan_MarkDefault, FundingInv
<1>6. ASSUME \/ Tick
             \/ \E b \in Borrowers : CreateCreditProfile(b)
             \/ \E r \in Requests, l \in Lenders : LoanRequest_DiscloseToLender(r, l)
             \/ \E ln \in Loans, w \in Windows : Loan_RequestRepayment(ln, w)
             \/ \E q \in Repayments : \/ AllocateRepayment(q)
                                      \/ DropRepaymentRequest(q)
                                      \/ LoanRepaymentRequest_CompleteRepayment(q)
             \/ \E q \in Principals : AllocatePrincipal(q)
             \/ \E key \in allocated : Allocation_Withdraw(key)
             \/ UNCHANGED vars
      PROVE  Kept
  <2>1. UNCHANGED <<request, offer, intent, principal, loan>>
    BY <1>6 DEF Tick, CreateCreditProfile, LoanRequest_DiscloseToLender, Loan_RequestRepayment,
                AllocateRepayment, AllocatePrincipal, Allocate, DropRepaymentRequest,
                LoanRepaymentRequest_CompleteRepayment, Allocation_Withdraw,
                offerVars, fundingVars, servicingVars, vars
  <2>2. QED BY <2>1, OtherSteps
<1>7. Kept
  BY <1>2, <1>3, <1>4, <1>5, <1>6
  DEF Next, Origination, TokenFunding, Servicing, Loan_CompleteRepaymentReceived
<1>8. QED BY <1>1, <1>7 DEF FundingInv

LEMMA FundingInvariant == Spec => []FundingInv
BY FundingInit, FundingNext, PTL DEF Spec

\* However offers compete for a request, and by whichever path one is accepted, the
\* request ends in at most one loan and is archived as funded exactly when it exists.
THEOREM FundedOnce == Spec => []EachRequestFundedOnce
<1>1. FundingInv => EachRequestFundedOnce
  BY DEF FundingInv
<1>2. QED BY <1>1, FundingInvariant, PTL

\* A loan is on the terms of an offer its borrower accepted, for the amount its
\* request asked, however many contracts and steps lie between.
THEOREM TermsAgreedForever == Spec => []LoanTermsAgreed
<1>1. FundingInv => LoanTermsAgreed
  BY DEF FundingInv, TermsHold, LoanTermsAgreed
<1>2. QED BY <1>1, FundingInvariant, PTL

\* A principal request is settled exactly when its loan exists: no principal moves
\* without a loan, no token-funded loan exists whose principal was not settled.
THEOREM FundingIsAtomic == Spec => []PrincipalMovesWithLoan
<1>1. FundingInv => PrincipalMovesWithLoan
  BY DEF FundingInv
<1>2. QED BY <1>1, FundingInvariant, PTL

-----------------------------------------------------------------------------
(***************************************************************************)
(* The credit history: every contract of a profile chain holds an          *)
(* accounted score, each chain has one active contract, and its counters   *)
(* are the loans closed through the chain.  The proof needs that a chain   *)
(* is never started on the id of an existing one and that contracts only   *)
(* pin profiles that exist, which is what ProfilesKnown says; and that     *)
(* finitely many loans have been made, to count them.                      *)
(***************************************************************************)

ProfilesKnown ==
  /\ \A p  \in Created(profile)   : profile[p].root \in Created(profile)
  /\ \A i  \in Created(intent)    : intent[i].terms.profile \in Created(profile)
  /\ \A q  \in Created(principal) : principal[q].terms.profile \in Created(profile)
  /\ \A ln \in Created(loan)      : loan[ln].terms.profile \in Created(profile)

\* One contract of the chain is active.
OneActive(root) ==
  \E current \in Created(profile) :
    \A other \in Created(profile) :
      (profile[other].root = root /\ IsActiveProfile(other)) <=> other = current

CountersMatch(p) ==
  LET root == profile[p].root IN
  /\ profile[p].credit.successfulLoans = Cardinality(ClosedThrough(root, "repaid"))
  /\ profile[p].credit.defaultedLoans = Cardinality(ClosedThrough(root, "defaulted"))

CreditInv == /\ TypeOK
             /\ ProfilesKnown
             /\ IsFiniteSet(Created(loan))
             /\ CreditMatchesClosures
             /\ ScoresAccounted

LEMMA CreditMatchesClosuresAlt ==
  CreditMatchesClosures <=>
    \A p \in Created(profile) : /\ OneActive(profile[p].root)
                                /\ IsActiveProfile(p) => CountersMatch(p)
BY DEF CreditMatchesClosures, OneActive, CountersMatch

-----------------------------------------------------------------------------
\* A profile contract is written.
LEMMA ProfileCreated ==
  ASSUME CreditInv, NEW b \in Borrowers, CreateCreditProfile(b)
  PROVE  ProfilesKnown' /\ CreditMatchesClosures' /\ ScoresAccounted'
<1> DEFINE contract(p) == [borrower |-> b, credit |-> NewCredit, root |-> p,
                           state |-> "active"]
<1>1. PICK p \in Profiles : profile[p] = NoContract
                            /\ profile' = [profile EXCEPT ![p] = contract(p)]
  BY DEF CreateCreditProfile, Fresh, CreditInv, TypeOK
<1>2. contract(p) \in ProfileContract
  BY NewCreditAccounted DEF ProfileContract
<1>3. /\ p \notin Created(profile) /\ Created(profile') = Created(profile) \cup {p}
      /\ profile'[p] = contract(p)
      /\ \A c \in Created(profile) : profile'[c] = profile[c]
  BY <1>1, <1>2, NoContractAssumption DEF Created, CreditInv, TypeOK
<1>4. UNCHANGED <<loan, intent, principal>>
  BY DEF CreateCreditProfile, fundingVars
<1>5. ProfilesKnown'
  BY <1>3, <1>4 DEF ProfilesKnown, CreditInv
<1>6. ScoresAccounted'
  BY <1>3, NewCreditAccounted DEF ScoresAccounted, CreditInv
<1>7. \A root \in Created(profile) : \A how : ClosedThrough(root, how)' = ClosedThrough(root, how)
  BY <1>3, <1>4 DEF ClosedThrough, ProfilesKnown, CreditInv
<1>8. \A how : ClosedThrough(p, how)' = {}
  BY <1>3, <1>4 DEF ClosedThrough, ProfilesKnown, CreditInv
<1>9. ASSUME NEW c \in Created(profile')
      PROVE  OneActive(profile[c].root)' /\ (IsActiveProfile(c) => CountersMatch(c))'
  <2>1. CASE c = p
    <3>1. CountersMatch(p)'
      BY <1>3, <1>8, FS_EmptySet DEF CountersMatch, NewCredit
    <3>2. \A other \in Created(profile') :
            (profile'[other].root = p /\ IsActiveProfile(other)') <=> other = p
      BY <1>3 DEF IsActiveProfile, ProfilesKnown, CreditInv
    <3>3. OneActive(profile[c].root)'
      BY <1>3, <2>1, <3>2 DEF OneActive
    <3>4. QED BY <2>1, <3>1, <3>3
  <2>2. CASE c # p
    <3>1. c \in Created(profile) /\ profile'[c] = profile[c]
          /\ profile[c].root \in Created(profile)
      BY <1>3, <2>2 DEF ProfilesKnown, CreditInv
    <3>2. OneActive(profile[c].root) /\ (IsActiveProfile(c) => CountersMatch(c))
      BY <3>1, CreditMatchesClosuresAlt DEF CreditInv
    <3>3. OneActive(profile[c].root)'
      <4>1. PICK current \in Created(profile) :
              \A other \in Created(profile) :
                (profile[other].root = profile[c].root /\ IsActiveProfile(other))
                  <=> other = current
        BY <3>2 DEF OneActive
      <4>2. \A other \in Created(profile') :
              (profile'[other].root = profile[c].root /\ IsActiveProfile(other)')
                <=> other = current
        BY <1>3, <3>1, <4>1 DEF IsActiveProfile
      <4>3. QED BY <1>3, <3>1, <4>2 DEF OneActive
    <3>4. (IsActiveProfile(c) => CountersMatch(c))'
      BY <1>7, <3>1, <3>2 DEF IsActiveProfile, CountersMatch, Created
    <3>5. QED BY <3>3, <3>4
  <2>3. QED BY <2>1, <2>2
<1>10. QED BY <1>5, <1>6, <1>9, CreditMatchesClosuresAlt DEF CreditMatchesClosures,
                                                            OneActive, CountersMatch

-----------------------------------------------------------------------------
\* A step that leaves profiles alone keeps the histories if no loan is closed by it
\* and the loans it makes pin profiles that exist.
LEMMA HistoryKept ==
  ASSUME CreditInv, UNCHANGED profile,
         Created(loan) \subseteq Created(loan'),
         \A ln \in Created(loan) : loan'[ln] = loan[ln],
         \A ln \in Created(loan') \ Created(loan) : loan'[ln].state = "active"
  PROVE  CreditMatchesClosures' /\ ScoresAccounted'
<1>1. \A root, how : how # "active" => ClosedThrough(root, how)' = ClosedThrough(root, how)
  BY DEF ClosedThrough
<1>2. \A p \in Created(profile) :
        /\ ClosedThrough(profile[p].root, "repaid")' = ClosedThrough(profile[p].root, "repaid")
        /\ ClosedThrough(profile[p].root, "defaulted")'
             = ClosedThrough(profile[p].root, "defaulted")
  BY <1>1
<1>3. ScoresAccounted'
  BY DEF ScoresAccounted, CreditInv
<1>4. \A p \in Created(profile') : (OneActive(profile[p].root)
                                    /\ (IsActiveProfile(p) => CountersMatch(p)))'
  BY <1>2, CreditMatchesClosuresAlt DEF CreditInv, OneActive, CountersMatch, IsActiveProfile
<1>5. QED BY <1>3, <1>4 DEF CreditMatchesClosures, OneActive, CountersMatch

\* A loan made from terms whose profile contract exists.
LEMMA LoanAdded ==
  ASSUME CreditInv, NEW terms \in LoanTerms, CreateLoan(terms),
         terms.profile \in Created(profile), UNCHANGED <<profile, intent>>,
         Created(principal') = Created(principal),
         \A q \in Created(principal) : principal'[q].terms = principal[q].terms
  PROVE  /\ ProfilesKnown' /\ IsFiniteSet(Created(loan))'
         /\ CreditMatchesClosures' /\ ScoresAccounted'
<1>1. PICK ln \in Loans : /\ loan[ln] = NoContract
                          /\ loan' = [loan EXCEPT ![ln] = [terms |-> terms, state |-> "active"]]
  BY DEF CreateLoan, Fresh, CreditInv, TypeOK
<1>2. [terms |-> terms, state |-> "active"] \in LoanContract
  BY DEF LoanContract
<1>3. /\ Created(loan') = Created(loan) \cup {ln} /\ ln \notin Created(loan)
      /\ loan'[ln] = [terms |-> terms, state |-> "active"]
      /\ \A other \in Created(loan) : loan'[other] = loan[other]
  BY <1>1, <1>2, NoContractAssumption DEF Created, CreditInv, TypeOK
<1>4. IsFiniteSet(Created(loan'))
  BY <1>3, FS_AddElement DEF CreditInv
<1>5. CreditMatchesClosures' /\ ScoresAccounted'
  BY <1>3, HistoryKept
<1>6. ProfilesKnown'
  BY <1>3 DEF ProfilesKnown, CreditInv
<1>7. QED BY <1>4, <1>5, <1>6

\* A loan is closed and the profile contract it pins is replaced.
LEMMA LoanClosed ==
  ASSUME CreditInv, NEW ln \in Loans, NEW how \in {"repaid", "defaulted"}, NEW credit,
         CloseLoan(ln, how, credit),
         \/ how = "repaid" /\ credit = RecordSuccessfulLoan(PinnedCredit(ln))
         \/ how = "defaulted" /\ credit = RecordDefaultedLoan(PinnedCredit(ln))
  PROVE  /\ ProfilesKnown' /\ IsFiniteSet(Created(loan))'
         /\ CreditMatchesClosures' /\ ScoresAccounted'

<1>1. PICK p \in Profiles, root \in Profiles :
        /\ p = loan[ln].terms.profile /\ root = profile[p].root
        /\ p \in Created(profile) /\ profile[p] \in ProfileContract
        /\ profile[p].state = "active"
  BY DEF CloseLoan, IsActiveProfile, IsActiveLoan, Created, CreditInv, TypeOK, LoanContract,
         LoanTerms, ProfileContract
<1>2. /\ ln \in Created(loan) /\ loan[ln] \in LoanContract /\ loan[ln].state = "active"
      /\ loan' = [loan EXCEPT ![ln] = [loan[ln] EXCEPT !.state = how]]
  BY DEF CloseLoan, IsActiveLoan, Archive, Created, CreditInv, TypeOK
<1>3. /\ credit \in CreditRecords /\ ScoreAccounted(profile[p].credit)
      /\ ScoreAccounted(credit)
  BY <1>1, SuccessAccounted, DefaultAccounted
     DEF PinnedCredit, ProfileContract, CreditInv, ScoresAccounted
<1>4. PICK next \in Profiles :
        /\ profile[next] = NoContract
        /\ profile' = [profile EXCEPT ![p].state = "archived",
                                      ![next] = [profile[p] EXCEPT !.credit = credit]]
  BY <1>1 DEF CloseLoan, ReplaceProfile, Fresh, CreditInv, TypeOK
<1>5. /\ [profile[p] EXCEPT !.state = "archived"] \in ProfileContract
      /\ [profile[p] EXCEPT !.credit = credit] \in ProfileContract
  BY <1>1, <1>3 DEF ProfileContract
<1>6. /\ next \notin Created(profile) /\ Created(profile') = Created(profile) \cup {next}
      /\ profile'[p] = [profile[p] EXCEPT !.state = "archived"]
      /\ profile'[next] = [profile[p] EXCEPT !.credit = credit]
      /\ \A c \in Created(profile) \ {p} : profile'[c] = profile[c]
  BY <1>1, <1>4, <1>5, NoContractAssumption DEF Created, CreditInv, TypeOK
<1>7. /\ \A c \in Created(profile) : profile'[c].root = profile[c].root
                                     /\ profile'[c].credit = profile[c].credit
      /\ profile'[p].state = "archived"
      /\ profile'[next].root = root /\ profile'[next].credit = credit
      /\ profile'[next].state = "active"
  BY <1>1, <1>5, <1>6 DEF ProfileContract
<1>8. [loan[ln] EXCEPT !.state = how] \in LoanContract
  BY <1>2 DEF LoanContract
<1>9. /\ Created(loan') = Created(loan)
      /\ loan'[ln].terms = loan[ln].terms /\ loan'[ln].state = how
      /\ \A x \in Created(loan) \ {ln} : loan'[x] = loan[x]
  BY <1>2, <1>8, NoContractAssumption DEF Created, CreditInv, TypeOK, LoanContract
<1>10. UNCHANGED <<intent, principal>>
  BY DEF CloseLoan, fundingVars
<1>11. ProfilesKnown'
  <2>1. \A x \in Created(loan') : loan'[x].terms = loan[x].terms /\ x \in Created(loan)
    BY <1>2, <1>9
  <2>2. /\ Created(intent') = Created(intent) /\ intent' = intent
        /\ Created(principal') = Created(principal) /\ principal' = principal
    BY <1>10 DEF Created
  <2> QED
    BY <1>1, <1>6, <1>7, <2>1, <2>2 DEF ProfilesKnown, CreditInv
<1>12. ScoresAccounted'
  BY <1>3, <1>6, <1>7 DEF ScoresAccounted, CreditInv
<1>13. /\ ClosedThrough(root, how)' = ClosedThrough(root, how) \cup {ln}
       /\ ln \notin ClosedThrough(root, how)
  BY <1>1, <1>2, <1>7, <1>9 DEF ClosedThrough, ProfilesKnown, CreditInv
<1>14. \A r : \A h \in {"repaid", "defaulted"} :
         (r # root \/ h # how) => ClosedThrough(r, h)' = ClosedThrough(r, h)
  BY <1>1, <1>2, <1>7, <1>9 DEF ClosedThrough, ProfilesKnown, CreditInv
<1>15. \A r, h : IsFiniteSet(ClosedThrough(r, h))
  BY FS_Subset DEF ClosedThrough, CreditInv
<1>16. Cardinality(ClosedThrough(root, how)') = Cardinality(ClosedThrough(root, how)) + 1
  BY <1>13, <1>15, FS_AddElement
<1>17. CountersMatch(p) /\ OneActive(root)
  BY <1>1, CreditMatchesClosuresAlt DEF IsActiveProfile, CreditInv
<1>18. CountersMatch(next)'
  <2>1. /\ profile[p].credit.successfulLoans = Cardinality(ClosedThrough(root, "repaid"))
        /\ profile[p].credit.defaultedLoans = Cardinality(ClosedThrough(root, "defaulted"))
    BY <1>1, <1>17 DEF CountersMatch
  <2>2. CASE how = "repaid"
    <3>1. /\ credit.successfulLoans = profile[p].credit.successfulLoans + 1
          /\ credit.defaultedLoans = profile[p].credit.defaultedLoans
      BY <1>1, <2>2 DEF RecordSuccessfulLoan, PinnedCredit
    <3>2. ClosedThrough(root, "defaulted")' = ClosedThrough(root, "defaulted")
      BY <1>14, <2>2
    <3>3. /\ credit.successfulLoans = Cardinality(ClosedThrough(root, "repaid")')
          /\ credit.defaultedLoans = Cardinality(ClosedThrough(root, "defaulted")')
      <4>1. credit.successfulLoans = Cardinality(ClosedThrough(root, "repaid")')
        BY <1>16, <2>1, <2>2, <3>1
      <4>2. credit.defaultedLoans = Cardinality(ClosedThrough(root, "defaulted")')
        BY <2>1, <3>1, <3>2
      <4>3. QED BY <4>1, <4>2
    <3>4. QED BY <1>7, <3>3 DEF CountersMatch
  <2>3. CASE how = "defaulted"
    <3>1. /\ credit.successfulLoans = profile[p].credit.successfulLoans
          /\ credit.defaultedLoans = profile[p].credit.defaultedLoans + 1
      BY <1>1, <2>3 DEF RecordDefaultedLoan, PinnedCredit
    <3>2. ClosedThrough(root, "repaid")' = ClosedThrough(root, "repaid")
      BY <1>14, <2>3
    <3>3. /\ credit.successfulLoans = Cardinality(ClosedThrough(root, "repaid")')
          /\ credit.defaultedLoans = Cardinality(ClosedThrough(root, "defaulted")')
      <4>1. credit.successfulLoans = Cardinality(ClosedThrough(root, "repaid")')
        BY <2>1, <3>1, <3>2
      <4>2. credit.defaultedLoans = Cardinality(ClosedThrough(root, "defaulted")')
        BY <1>16, <2>1, <2>3, <3>1
      <4>3. QED BY <4>1, <4>2
    <3>4. QED BY <1>7, <3>3 DEF CountersMatch
  <2>4. QED BY <2>2, <2>3
<1>19. ASSUME NEW c \in Created(profile')
       PROVE  OneActive(profile[c].root)' /\ (IsActiveProfile(c) => CountersMatch(c))'
  <2>1. CASE profile'[c].root = root
    <3>1. \A other \in Created(profile) :
            (profile[other].root = root /\ IsActiveProfile(other)) <=> other = p
      BY <1>1, <1>17 DEF OneActive, IsActiveProfile
    <3>2. \A other \in Created(profile') :
            (profile'[other].root = root /\ IsActiveProfile(other)') <=> other = next
      <4>1. \A other \in Created(profile) \ {p} :
              (profile'[other].root = root /\ IsActiveProfile(other)')
                <=> (profile[other].root = root /\ IsActiveProfile(other))
        BY <1>6 DEF IsActiveProfile
      <4>2. ~IsActiveProfile(p)' /\ IsActiveProfile(next)' /\ p # next
        BY <1>1, <1>6, <1>7 DEF IsActiveProfile
      <4>3. QED BY <1>6, <1>7, <3>1, <4>1, <4>2
    <3>3. OneActive(profile[c].root)'
      BY <1>6, <2>1, <3>2 DEF OneActive
    <3>4. QED BY <1>18, <2>1, <3>2, <3>3
  <2>2. CASE profile'[c].root # root
    <3>1. c \in Created(profile) /\ c # p /\ c # next /\ profile'[c] = profile[c]
      BY <1>1, <1>6, <1>7, <2>2
    <3>2. OneActive(profile[c].root) /\ (IsActiveProfile(c) => CountersMatch(c))
      BY <3>1, CreditMatchesClosuresAlt DEF CreditInv
    <3>3. OneActive(profile[c].root)'
      <4>1. PICK current \in Created(profile) :
              \A other \in Created(profile) :
                (profile[other].root = profile[c].root /\ IsActiveProfile(other))
                  <=> other = current
        BY <3>2 DEF OneActive
      <4>2. \A other \in Created(profile') :
              (profile'[other].root = profile[c].root /\ IsActiveProfile(other)')
                <=> other = current
        <5>1. \A other \in Created(profile) \ {p} :
                (profile'[other].root = profile[c].root /\ IsActiveProfile(other)')
                  <=> (profile[other].root = profile[c].root /\ IsActiveProfile(other))
          BY <1>6 DEF IsActiveProfile
        <5>2. profile[p].root = root /\ profile'[p].root = root /\ profile[c].root # root
          BY <1>1, <1>7, <2>2, <3>1
        <5>3. current # p /\ current # next
          BY <1>6, <4>1, <5>2
        <5>4. QED BY <1>6, <1>7, <4>1, <5>1, <5>2, <5>3
      <4>3. QED BY <1>6, <3>1, <4>2 DEF OneActive
    <3>4. (IsActiveProfile(c) => CountersMatch(c))'
      <4>1. /\ ClosedThrough(profile[c].root, "repaid")'
                 = ClosedThrough(profile[c].root, "repaid")
            /\ ClosedThrough(profile[c].root, "defaulted")'
                 = ClosedThrough(profile[c].root, "defaulted")
        BY <1>14, <2>2, <3>1
      <4>2. IsActiveProfile(c)' => IsActiveProfile(c)
        BY <3>1 DEF IsActiveProfile
      <4>3. QED BY <3>1, <3>2, <4>1, <4>2 DEF CountersMatch
    <3>5. QED BY <3>3, <3>4
  <2>3. QED BY <2>1, <2>2
<1>20. CreditMatchesClosures'
  BY <1>19 DEF CreditMatchesClosures, OneActive, CountersMatch
<1>21. QED BY <1>9, <1>11, <1>12, <1>20 DEF CreditInv

-----------------------------------------------------------------------------
(* The invariant *)

LEMMA CreditInit == Init => CreditInv
<1> SUFFICES ASSUME Init PROVE CreditInv
  OBVIOUS
<1>1. /\ Created(profile) = {} /\ Created(intent) = {} /\ Created(principal) = {}
      /\ Created(loan) = {}
  BY DEF Init, Created
<1>2. QED
  BY <1>1, InitType, FS_EmptySet DEF CreditInv, ProfilesKnown, CreditMatchesClosures,
                                     ScoresAccounted

\* The steps that copy the pinned profile from one contract to the next.
LEMMA PinCopied ==
  ASSUME CreditInv, TypeOK',
         \/ \E o \in Offers, p \in Profiles, w \in Windows : LoanOffer_AcceptWithToken(o, p, w)
         \/ \E i \in Intents : FundingIntent_ConfirmByLender(i)
         \/ \E q \in Principals : DropPrincipalRequest(q)
  PROVE  UNCHANGED <<profile, loan>> /\ ProfilesKnown'
<1>1. UNCHANGED <<profile, loan>>
  BY DEF LoanOffer_AcceptWithToken, FundingIntent_ConfirmByLender, DropPrincipalRequest,
         servicingVars
<1>2. ASSUME NEW o \in Offers, NEW p \in Profiles, NEW w \in Windows,
             LoanOffer_AcceptWithToken(o, p, w)
      PROVE  ProfilesKnown'
  <2>1. p \in Created(profile) /\ UNCHANGED principal
    BY <1>2 DEF LoanOffer_AcceptWithToken, ProfileArgument
  <2>2. PICK i \in Intents :
          intent' = [intent EXCEPT ![i] = [terms |-> AcceptedTerms(o, p), prepareUntil |-> w[1],
                                           settleBefore |-> w[2], state |-> "open"]]
    BY <1>2 DEF LoanOffer_AcceptWithToken, Fresh, CreditInv, TypeOK
  <2>3. AcceptedTerms(o, p).profile = p
    BY DEF AcceptedTerms
  <2>4. \A j \in Created(intent') : intent'[j].terms.profile \in Created(profile)
    BY <2>1, <2>2, <2>3 DEF Created, ProfilesKnown, CreditInv, TypeOK
  <2>5. QED BY <1>1, <2>1, <2>4 DEF ProfilesKnown, CreditInv
<1>3. ASSUME NEW i \in Intents, FundingIntent_ConfirmByLender(i)
      PROVE  ProfilesKnown'
  <2>1. i \in Created(intent) /\ intent[i] \in IntentContract
    BY <1>3 DEF FundingIntent_ConfirmByLender, IsOpen, Created, CreditInv, TypeOK
  <2>2. PICK q \in Principals :
          principal' = [principal EXCEPT ![q] = [intent[i] EXCEPT !.state = "open"]]
    BY <1>3 DEF FundingIntent_ConfirmByLender, Fresh, CreditInv, TypeOK
  <2>3. intent' = [intent EXCEPT ![i] = [intent[i] EXCEPT !.state = "confirmed"]]
    BY <1>3, <2>1 DEF FundingIntent_ConfirmByLender, Archive, CreditInv, TypeOK
  <2>4. \A s \in Created(principal') : principal'[s].terms.profile \in Created(profile)
    BY <2>1, <2>2 DEF Created, ProfilesKnown, CreditInv, TypeOK, IntentContract
  <2>5. \A j \in Created(intent') : intent'[j].terms.profile \in Created(profile)
    BY <2>1, <2>3 DEF Created, ProfilesKnown, CreditInv, TypeOK, IntentContract
  <2>6. QED BY <1>1, <2>4, <2>5 DEF ProfilesKnown, CreditInv
<1>4. ASSUME NEW q \in Principals, DropPrincipalRequest(q)
      PROVE  ProfilesKnown'
  <2>1. q \in Created(principal) /\ principal[q] \in PrincipalContract
    BY <1>4 DEF DropPrincipalRequest, IsOpen, Created, CreditInv, TypeOK
  <2>2. principal' = [principal EXCEPT ![q] = [principal[q] EXCEPT !.state = "dropped"]]
    BY <1>4, <2>1 DEF DropPrincipalRequest, Archive, CreditInv, TypeOK
  <2>3. \A s \in Created(principal') : principal'[s].terms.profile \in Created(profile)
    BY <2>1, <2>2 DEF Created, ProfilesKnown, CreditInv, TypeOK, PrincipalContract
  <2>4. UNCHANGED intent
    BY <1>4 DEF DropPrincipalRequest
  <2>5. QED BY <1>1, <2>3, <2>4 DEF ProfilesKnown, CreditInv
<1>5. QED BY <1>1, <1>2, <1>3, <1>4

LEMMA CreditNext == CreditInv /\ [Next]_vars => CreditInv'
<1> SUFFICES ASSUME CreditInv, [Next]_vars PROVE CreditInv'
  OBVIOUS
<1> DEFINE Kept == /\ ProfilesKnown' /\ IsFiniteSet(Created(loan))'
                   /\ CreditMatchesClosures' /\ ScoresAccounted'
<1>1. TypeOK'
  BY NextType DEF CreditInv
<1>2. ASSUME NEW b \in Borrowers, CreateCreditProfile(b)
      PROVE  Kept
  BY <1>2, ProfileCreated DEF CreateCreditProfile, CreditInv
<1>3. ASSUME NEW o \in Offers, NEW p \in Profiles, LoanOffer_Accept(o, p)
      PROVE  Kept
  <2>1. AcceptedTerms(o, p) \in LoanTerms /\ AcceptedTerms(o, p).profile = p
    <3>1. offer[o] \in OfferContract
      BY <1>3 DEF LoanOffer_Accept, IsOpen, Created, CreditInv, TypeOK
    <3>2. QED BY <3>1 DEF AcceptedTerms, LoanTerms, OfferContract
  <2>2. p \in Created(profile)
    BY <1>3 DEF LoanOffer_Accept, ProfileArgument
  <2>3. QED BY <1>3, <2>1, <2>2, LoanAdded DEF LoanOffer_Accept, fundingVars
<1>4. ASSUME NEW q \in Principals, LoanPrincipalRequest_CompleteFunding(q)
      PROVE  Kept
  <2>1. /\ q \in Created(principal) /\ principal[q] \in PrincipalContract
        /\ principal' = [principal EXCEPT ![q] = [principal[q] EXCEPT !.state = "settled"]]
    BY <1>4 DEF LoanPrincipalRequest_CompleteFunding, IsOpen, Archive, Created, CreditInv, TypeOK
  <2>2. [principal[q] EXCEPT !.state = "settled"] \in PrincipalContract
    BY <2>1 DEF PrincipalContract
  <2>3. /\ Created(principal') = Created(principal)
        /\ \A s \in Created(principal) : principal'[s].terms = principal[s].terms
    BY <2>1, <2>2, NoContractAssumption DEF Created, CreditInv, TypeOK, PrincipalContract
  <2>4. principal[q].terms \in LoanTerms /\ principal[q].terms.profile \in Created(profile)
    BY <2>1 DEF PrincipalContract, ProfilesKnown, CreditInv
  <2>5. QED BY <1>4, <2>3, <2>4, LoanAdded DEF LoanPrincipalRequest_CompleteFunding
<1>5. ASSUME NEW ln \in Loans, Loan_RepayLoan(ln) \/ Loan_MarkDefault(ln)
      PROVE  Kept
  BY <1>5, LoanClosed DEF Loan_RepayLoan, Loan_MarkDefault
<1>6. ASSUME UNCHANGED <<profile, loan>>, ProfilesKnown'
      PROVE  Kept
  BY <1>6, HistoryKept DEF CreditInv
<1>7. ASSUME \/ \E o \in Offers, p \in Profiles, w \in Windows : LoanOffer_AcceptWithToken(o, p, w)
             \/ \E i \in Intents : FundingIntent_ConfirmByLender(i)
             \/ \E q \in Principals : DropPrincipalRequest(q)
      PROVE  Kept
  BY <1>1, <1>6, <1>7, PinCopied
<1>8. ASSUME UNCHANGED <<profile, intent, principal, loan>>
      PROVE  Kept
  BY <1>6, <1>8 DEF ProfilesKnown, CreditInv
<1>9. ASSUME \/ Tick
             \/ \E b \in Borrowers, a \in Amounts : CreateLoanRequest(b, a)
             \/ \E r \in Requests : LoanRequest_Withdraw(r)
             \/ \E r \in Requests, l \in Lenders : LoanRequest_DiscloseToLender(r, l)
             \/ \E l \in Lenders, r \in Requests, a \in Amounts, rate \in Rates :
                  CreateLoanOffer(l, r, a, rate)
             \/ \E ln \in Loans, w \in Windows : Loan_RequestRepayment(ln, w)
             \/ \E q \in Repayments : \/ AllocateRepayment(q)
                                      \/ DropRepaymentRequest(q)
                                      \/ LoanRepaymentRequest_CompleteRepayment(q)
             \/ \E q \in Principals : AllocatePrincipal(q)
             \/ \E key \in allocated : Allocation_Withdraw(key)
             \/ UNCHANGED vars
      PROVE  Kept
  <2>1. UNCHANGED <<profile, intent, principal, loan>>
    BY <1>9 DEF Tick, CreateLoanRequest, LoanRequest_Withdraw, LoanRequest_DiscloseToLender,
                CreateLoanOffer, Loan_RequestRepayment,
                AllocateRepayment, AllocatePrincipal, Allocate, DropRepaymentRequest,
                LoanRepaymentRequest_CompleteRepayment, Allocation_Withdraw,
                offerVars, fundingVars, servicingVars, vars
  <2>2. QED BY <1>8, <2>1
<1>10. Kept
  BY <1>2, <1>3, <1>4, <1>5, <1>7, <1>9
  DEF Next, Origination, TokenFunding, Servicing, Loan_CompleteRepaymentReceived
<1>11. QED BY <1>1, <1>10 DEF CreditInv

LEMMA CreditInvariant == Spec => []CreditInv
BY CreditInit, CreditNext, PTL DEF Spec

\* Every profile contract ever written has a score within its bounds and within what
\* its own repayments and defaults account for.
THEOREM ScoresAlwaysAccounted == Spec => []ScoresAccounted
<1>1. CreditInv => ScoresAccounted
  BY DEF CreditInv
<1>2. QED BY <1>1, CreditInvariant, PTL

\* A profile chain never forks, and the counters of its active contract are exactly
\* the loans that were closed through the chain.
THEOREM CreditHistoryExact == Spec => []CreditMatchesClosures
<1>1. CreditInv => CreditMatchesClosures
  BY DEF CreditInv
<1>2. QED BY <1>1, CreditInvariant, PTL

-----------------------------------------------------------------------------
(***************************************************************************)
(* The loan contracts implement LoanAgreement: every choice is a step of   *)
(* the agreement or invisible to it.  Beside the funding and credit        *)
(* invariants the proof needs that profile chains hang on their first      *)
(* contract, that a repayment request asks what its loan owes, and that    *)
(* what is locked covers every open allocation.                            *)
(***************************************************************************)

ChainsRooted ==
  \A p \in Created(profile) : profile[p].root \in Created(profile)
                              /\ profile[profile[p].root].root = profile[p].root

RepaymentsOwed ==
  \A q \in Created(repayment) :
    LET ln == repayment[q].loan IN
    /\ ln \in Created(loan)
    /\ repayment[q].lender = loan[ln].terms.lender
    /\ repayment[q].borrower = loan[ln].terms.borrower
    /\ repayment[q].amount = RepaymentAmount(ln)

\* What is locked covers every open allocation.
EscrowCovers ==
  /\ IsFiniteSet(allocated)
  /\ \A p \in Parties : escrow[p] = TotalSent(allocated, p)

RefinementInv == /\ FundingInv
                 /\ CreditInv
                 /\ ChainsRooted
                 /\ RepaymentsOwed
                 /\ EscrowCovers

-----------------------------------------------------------------------------
(* What the legs of a set of allocations move *)

IsLeg(leg) == leg \in [sender : Parties, receiver : Parties, amount : Nat]

\* One leg more adds its amount to what its parties send and receive.
LEMMA TotalWith ==
  ASSUME NEW keys, IsFiniteSet(keys), NEW key, key \notin keys,
         NEW more, more = keys \cup {key}, \A k \in more : IsLeg(LegOf(k)), NEW p
  PROVE  /\ TotalSent(keys, p) \in Nat /\ TotalReceived(keys, p) \in Nat
         /\ TotalSent(more, p) =
              TotalSent(keys, p) + (IF LegOf(key).sender = p THEN LegOf(key).amount ELSE 0)
         /\ TotalReceived(more, p) =
              TotalReceived(keys, p) + (IF LegOf(key).receiver = p THEN LegOf(key).amount ELSE 0)
<1> DEFINE sent(ks) == [k \in {k \in ks : LegOf(k).sender = p} |-> LegOf(k).amount]
           got(ks) == [k \in {k \in ks : LegOf(k).receiver = p} |-> LegOf(k).amount]
<1>1. \A k \in more : LegOf(k).amount \in Nat
  BY DEF IsLeg
<1>2. /\ IsFiniteSet(DOMAIN sent(keys)) /\ IsFiniteSet(DOMAIN got(keys))
      /\ DOMAIN sent(keys) \subseteq keys /\ DOMAIN got(keys) \subseteq keys
  <2>1. {k \in keys : LegOf(k).sender = p} \subseteq keys
        /\ {k \in keys : LegOf(k).receiver = p} \subseteq keys
    OBVIOUS
  <2> QED
    BY <2>1, FS_Subset
<1>3. /\ \A k \in DOMAIN sent(keys) : sent(keys)[k] \in Nat
      /\ \A k \in DOMAIN got(keys) : got(keys)[k] \in Nat
  BY <1>1
<1>4. /\ TotalSent(keys, p) = SumFunction(sent(keys))
      /\ TotalReceived(keys, p) = SumFunction(got(keys))
      /\ TotalSent(more, p) = SumFunction(sent(more))
      /\ TotalReceived(more, p) = SumFunction(got(more))
  BY DEF TotalSent, TotalReceived
<1>5. SumFunction(sent(keys)) \in Nat /\ SumFunction(got(keys)) \in Nat
  <2> HIDE DEF sent, got
  <2> QED
    BY <1>2, <1>3, SumNat DEF SumFunction
<1>6. IF LegOf(key).sender = p
      THEN /\ DOMAIN sent(more) = DOMAIN sent(keys) \cup {key}
           /\ sent(more)[key] = LegOf(key).amount
           /\ \A k \in DOMAIN sent(keys) : sent(more)[k] = sent(keys)[k]
      ELSE sent(more) = sent(keys)
  OBVIOUS
<1>7. IF LegOf(key).receiver = p
      THEN /\ DOMAIN got(more) = DOMAIN got(keys) \cup {key}
           /\ got(more)[key] = LegOf(key).amount
           /\ \A k \in DOMAIN got(keys) : got(more)[k] = got(keys)[k]
      ELSE got(more) = got(keys)
  OBVIOUS
<1>8. Ints(sent(keys), DOMAIN sent(keys)) /\ Ints(got(keys), DOMAIN got(keys))
  BY <1>3 DEF Ints
<1>9. LegOf(key).amount \in Nat
  BY <1>1
<1> HIDE DEF sent, got
<1>10. SumFunction(sent(more)) =
         SumFunction(sent(keys)) + (IF LegOf(key).sender = p THEN LegOf(key).amount ELSE 0)
  <2>1. CASE LegOf(key).sender = p
    <3>1. PICK f, g : f = sent(keys) /\ g = sent(more)
      OBVIOUS
    <3>2. /\ IsFiniteSet(DOMAIN f) /\ Ints(f, DOMAIN f) /\ key \notin DOMAIN f
          /\ DOMAIN g = DOMAIN f \cup {key} /\ g[key] = LegOf(key).amount /\ g[key] \in Int
          /\ \A k \in DOMAIN f : g[k] = f[k]
      BY <1>2, <1>6, <1>8, <1>9, <2>1, <3>1
    <3>3. SumFunction(g) = SumFunction(f) + g[key]
      BY <3>2, SumGrows
    <3> QED
      BY <2>1, <3>1, <3>2, <3>3
  <2>2. CASE LegOf(key).sender # p
    BY <1>5, <1>6, <2>2
  <2> QED
    BY <2>1, <2>2
<1>11. SumFunction(got(more)) =
         SumFunction(got(keys)) + (IF LegOf(key).receiver = p THEN LegOf(key).amount ELSE 0)
  <2>1. CASE LegOf(key).receiver = p
    <3>1. PICK f, g : f = got(keys) /\ g = got(more)
      OBVIOUS
    <3>2. /\ IsFiniteSet(DOMAIN f) /\ Ints(f, DOMAIN f) /\ key \notin DOMAIN f
          /\ DOMAIN g = DOMAIN f \cup {key} /\ g[key] = LegOf(key).amount /\ g[key] \in Int
          /\ \A k \in DOMAIN f : g[k] = f[k]
      BY <1>2, <1>7, <1>8, <1>9, <2>1, <3>1
    <3>3. SumFunction(g) = SumFunction(f) + g[key]
      BY <3>2, SumGrows
    <3> QED
      BY <2>1, <3>1, <3>2, <3>3
  <2>2. CASE LegOf(key).receiver # p
    BY <1>5, <1>7, <2>2
  <2> QED
    BY <2>1, <2>2
<1> QED
  BY <1>4, <1>5, <1>10, <1>11

\* The totals only change with the legs.
LEMMA TotalsKept ==
  ASSUME NEW keys, \A k \in keys : LegOf(k)' = LegOf(k), NEW p
  PROVE  TotalSent(keys, p)' = TotalSent(keys, p) /\ TotalReceived(keys, p)' = TotalReceived(keys, p)
<1>1. [k \in {k \in keys : LegOf(k)'.sender = p} |-> LegOf(k)'.amount]
        = [k \in {k \in keys : LegOf(k).sender = p} |-> LegOf(k).amount]
  OBVIOUS
<1>2. [k \in {k \in keys : LegOf(k)'.receiver = p} |-> LegOf(k)'.amount]
        = [k \in {k \in keys : LegOf(k).receiver = p} |-> LegOf(k).amount]
  OBVIOUS
<1> QED
  BY <1>1, <1>2 DEF TotalSent, TotalReceived

LEMMA LegOfType ==
  ASSUME TypeOK, NEW key \in allocated
  PROVE  LegOf(key) \in [sender : Parties, receiver : Parties, amount : Nat]
BY LegTypes DEF LegOf, TypeOK, Created

\* The sender of an open allocation has its amount locked.
LEMMA LockedAmount ==
  ASSUME TypeOK, EscrowCovers, NEW key \in allocated
  PROVE  escrow[LegOf(key).sender] >= LegOf(key).amount
<1>1. PICK p, rest : p = LegOf(key).sender /\ rest = allocated \ {key}
  OBVIOUS
<1>2. /\ IsFiniteSet(rest) /\ key \notin rest /\ allocated = rest \cup {key}
      /\ \A k \in rest \cup {key} : IsLeg(LegOf(k))
  BY <1>1, LegOfType, FS_RemoveElement DEF EscrowCovers, IsLeg
<1>3. TotalSent(rest, p) \in Nat
      /\ TotalSent(allocated, p) =
           TotalSent(rest, p) + (IF LegOf(key).sender = p THEN LegOf(key).amount ELSE 0)
  <2>1. PICK all : all = allocated
    OBVIOUS
  <2>2. all = rest \cup {key} /\ \A k \in all : IsLeg(LegOf(k))
    BY <1>2, <2>1
  <2>3. /\ TotalSent(rest, p) \in Nat
        /\ TotalSent(all, p) =
             TotalSent(rest, p) + (IF LegOf(key).sender = p THEN LegOf(key).amount ELSE 0)
    BY <1>2, <2>2, TotalWith
  <2> QED
    BY <2>1, <2>3
<1>4. escrow[p] = TotalSent(allocated, p) /\ LegOf(key).amount \in Nat
  BY <1>1, <1>2 DEF EscrowCovers, IsLeg
<1> QED
  BY <1>1, <1>3, <1>4

\* An allocation is made.
LEMMA AllocationAdded ==
  ASSUME TypeOK, EscrowCovers, NEW key, key \notin allocated, IsLeg(LegOf(key)),
         allocated' = allocated \cup {key},
         escrow' = [escrow EXCEPT ![LegOf(key).sender] = @ + LegOf(key).amount],
         \A k \in allocated \cup {key} : LegOf(k)' = LegOf(k)
  PROVE  EscrowCovers'
<1>1. PICK old, new : old = allocated /\ new = allocated'
  OBVIOUS
<1>2. IsFiniteSet(old) /\ IsFiniteSet(new) /\ new = old \cup {key}
  BY <1>1, FS_AddElement DEF EscrowCovers
<1>3. \A k \in new : IsLeg(LegOf(k)) /\ LegOf(k)' = LegOf(k)
  BY <1>1, LegOfType DEF IsLeg
<1>4. ASSUME NEW p \in Parties
      PROVE  escrow'[p] = TotalSent(allocated, p)'
  <2>1. TotalSent(new, p) =
          TotalSent(old, p) + (IF LegOf(key).sender = p THEN LegOf(key).amount ELSE 0)
        /\ TotalSent(old, p) \in Nat
    BY <1>1, <1>2, <1>3, TotalWith
  <2>2. escrow'[p] = escrow[p] + (IF LegOf(key).sender = p THEN LegOf(key).amount ELSE 0)
    BY DEF TypeOK, IsLeg
  <2>3. TotalSent(new, p)' = TotalSent(new, p)
    BY <1>3, TotalsKept
  <2>4. TotalSent(allocated, p)' = TotalSent(new, p)' /\ escrow[p] = TotalSent(old, p)
    BY <1>1 DEF TotalSent, EscrowCovers
  <2> QED
    BY <2>1, <2>2, <2>3, <2>4
<1> QED
  BY <1>1, <1>2, <1>4 DEF EscrowCovers

\* An allocation goes, executed or withdrawn.
LEMMA AllocationGone ==
  ASSUME TypeOK, EscrowCovers, NEW key \in allocated,
         allocated' = allocated \ {key},
         escrow' = [escrow EXCEPT ![LegOf(key).sender] = @ - LegOf(key).amount],
         \A k \in allocated : LegOf(k)' = LegOf(k)
  PROVE  EscrowCovers'
<1>1. PICK old, new : old = allocated /\ new = allocated'
  OBVIOUS
<1>2. IsFiniteSet(new) /\ key \notin new /\ old = new \cup {key}
  BY <1>1, FS_RemoveElement DEF EscrowCovers
<1>3. \A k \in old : IsLeg(LegOf(k)) /\ LegOf(k)' = LegOf(k)
  BY <1>1, LegOfType DEF IsLeg
<1>4. ASSUME NEW p \in Parties
      PROVE  escrow'[p] = TotalSent(allocated, p)'
  <2>1. /\ TotalSent(new, p) \in Nat
        /\ TotalSent(old, p) =
             TotalSent(new, p) + (IF LegOf(key).sender = p THEN LegOf(key).amount ELSE 0)
    <3>1. \A k \in old : IsLeg(LegOf(k))
      BY <1>3
    <3> QED
      BY <1>2, <3>1, TotalWith
  <2>2. escrow'[p] = escrow[p] - (IF LegOf(key).sender = p THEN LegOf(key).amount ELSE 0)
        /\ LegOf(key).amount \in Nat
    BY <1>1, <1>3 DEF TypeOK, IsLeg
  <2>3. TotalSent(new, p)' = TotalSent(new, p)
    BY <1>2, <1>3, TotalsKept
  <2>4. TotalSent(allocated, p)' = TotalSent(new, p)' /\ escrow[p] = TotalSent(old, p)
    BY <1>1 DEF TotalSent, EscrowCovers
  <2> QED
    BY <2>1, <2>2, <2>3, <2>4
<1> QED
  BY <1>1, <1>2, <1>4 DEF EscrowCovers

\* Neither holdings nor allocations change.
LEMMA AllocationsKept ==
  ASSUME EscrowCovers, UNCHANGED <<allocated, escrow>>,
         \A k \in allocated : LegOf(k)' = LegOf(k)
  PROVE  EscrowCovers'
<1>1. PICK old : old = allocated
  OBVIOUS
<1>2. \A p : TotalSent(old, p)' = TotalSent(old, p)
  BY <1>1, TotalsKept
<1>3. \A p : TotalSent(allocated, p)' = TotalSent(old, p)' /\ TotalSent(allocated, p) = TotalSent(old, p)
  BY <1>1 DEF TotalSent
<1> QED
  BY <1>2, <1>3 DEF EscrowCovers

-----------------------------------------------------------------------------
(* What no step undoes *)

ContractsKept ==
  /\ \A p \in Created(profile) : p \in Created(profile') /\ profile'[p].root = profile[p].root
  /\ \A q \in Created(principal) :
       q \in Created(principal') /\ principal'[q].terms = principal[q].terms
  /\ \A ln \in Created(loan) : ln \in Created(loan') /\ loan'[ln].terms = loan[ln].terms
  /\ \A q \in Created(repayment) :
       /\ q \in Created(repayment')
       /\ repayment'[q].lender = repayment[q].lender
       /\ repayment'[q].borrower = repayment[q].borrower
       /\ repayment'[q].amount = repayment[q].amount
       /\ repayment'[q].loan = repayment[q].loan

\* The same, of one template at a time.
LEMMA ProfilesKept ==
  ASSUME TypeOK, [Next]_vars
  PROVE  \A p \in Created(profile) :
           p \in Created(profile') /\ profile'[p].root = profile[p].root
<1>1. ASSUME NEW b \in Borrowers, CreateCreditProfile(b)
      PROVE  \A p \in Created(profile) : p \in Created(profile') /\ profile'[p] = profile[p]
  BY <1>1 DEF CreateCreditProfile, Fresh, Created, TypeOK
<1>2. ASSUME NEW ln \in Loans, Loan_RepayLoan(ln) \/ Loan_MarkDefault(ln)
      PROVE  \A p \in Created(profile) :
               p \in Created(profile') /\ profile'[p].root = profile[p].root
  <2> DEFINE p == loan[ln].terms.profile
  <2>1. PICK credit : IsActiveProfile(p) /\ ReplaceProfile(p, credit)
    BY <1>2 DEF Loan_RepayLoan, Loan_MarkDefault, CloseLoan
  <2> HIDE DEF p
  <2>2. PICK next \in Profiles :
          /\ profile[next] = NoContract
          /\ profile' = [profile EXCEPT ![p].state = "archived",
                                        ![next] = [profile[p] EXCEPT !.credit = credit]]
    BY <2>1 DEF ReplaceProfile, Fresh, TypeOK
  <2>3. p \in Profiles /\ profile[p] \in ProfileContract /\ p # next
    BY <2>1, <2>2 DEF IsActiveProfile, Created, TypeOK
  <2>4. profile'[p] = [profile[p] EXCEPT !.state = "archived"]
        /\ \A c \in Profiles \ {p, next} : profile'[c] = profile[c]
    BY <2>2, <2>3 DEF TypeOK
  <2>5. [profile[p] EXCEPT !.state = "archived"] \in ProfileContract
    BY <2>3 DEF ProfileContract
  <2>6. profile'[p] # NoContract /\ profile'[p].root = profile[p].root
    BY <2>3, <2>4, <2>5, NoContractAssumption DEF ProfileContract
  <2>7. QED BY <2>2, <2>4, <2>6 DEF Created, TypeOK
<1>3. QED
  BY <1>1, <1>2 DEF Next, Origination, TokenFunding, Servicing, Loan_CompleteRepaymentReceived,
     Tick, CreateLoanRequest, LoanRequest_Withdraw, LoanRequest_DiscloseToLender,
     CreateLoanOffer, LoanOffer_Accept, LoanOffer_AcceptWithToken,
     FundingIntent_ConfirmByLender, DropPrincipalRequest, LoanPrincipalRequest_CompleteFunding,
     Loan_RequestRepayment, AllocateRepayment, AllocatePrincipal, Allocate,
     DropRepaymentRequest, LoanRepaymentRequest_CompleteRepayment, Allocation_Withdraw,
     servicingVars, vars

LEMMA PrincipalsKept ==
  ASSUME TypeOK, [Next]_vars
  PROVE  \A q \in Created(principal) :
           q \in Created(principal') /\ principal'[q].terms = principal[q].terms
<1>1. ASSUME NEW i \in Intents, FundingIntent_ConfirmByLender(i)
      PROVE  \A q \in Created(principal) : q \in Created(principal')
                                           /\ principal'[q] = principal[q]
  BY <1>1 DEF FundingIntent_ConfirmByLender, Fresh, Created, TypeOK
<1>2. ASSUME NEW q \in Principals, NEW how \in {"settled", "dropped"},
             IsOpen(principal, q), principal' = Archive(principal, q, how)
      PROVE  \A s \in Created(principal) :
               s \in Created(principal') /\ principal'[s].terms = principal[s].terms
  <2>1. principal[q] \in PrincipalContract /\ Created(principal') = Created(principal)
    BY <1>2, ArchivePrincipal DEF IsOpen, Created, TypeOK
  <2>2. principal' = [principal EXCEPT ![q] = [principal[q] EXCEPT !.state = how]]
    BY <1>2, <2>1 DEF Archive, TypeOK
  <2>3. QED BY <2>1, <2>2 DEF PrincipalContract, Created, TypeOK
<1>3. QED
  BY <1>1, <1>2 DEF Next, Origination, TokenFunding, Servicing, Loan_CompleteRepaymentReceived,
     Tick, CreateCreditProfile, CreateLoanRequest, LoanRequest_Withdraw,
     LoanRequest_DiscloseToLender, CreateLoanOffer, LoanOffer_Accept,
     LoanOffer_AcceptWithToken, DropPrincipalRequest, LoanPrincipalRequest_CompleteFunding,
     Loan_RepayLoan, Loan_MarkDefault, CloseLoan,
     Loan_RequestRepayment, AllocateRepayment, AllocatePrincipal, Allocate,
     DropRepaymentRequest, LoanRepaymentRequest_CompleteRepayment, Allocation_Withdraw,
     fundingVars, vars

LEMMA LoansKept ==
  ASSUME TypeOK, [Next]_vars
  PROVE  \A ln \in Created(loan) : ln \in Created(loan') /\ loan'[ln].terms = loan[ln].terms
<1>1. ASSUME NEW terms, CreateLoan(terms)
      PROVE  \A ln \in Created(loan) : ln \in Created(loan') /\ loan'[ln] = loan[ln]
  BY <1>1 DEF CreateLoan, Fresh, Created, TypeOK
<1>2. ASSUME NEW ln \in Loans, NEW how \in {"repaid", "defaulted"}, NEW credit,
             CloseLoan(ln, how, credit)
      PROVE  \A x \in Created(loan) : x \in Created(loan') /\ loan'[x].terms = loan[x].terms
  <2>1. loan[ln] \in LoanContract
        /\ loan' = [loan EXCEPT ![ln] = [loan[ln] EXCEPT !.state = how]]
    BY <1>2 DEF CloseLoan, IsActiveLoan, Archive, Created, TypeOK
  <2>2. [loan[ln] EXCEPT !.state = how] \in LoanContract
    BY <2>1 DEF LoanContract
  <2>3. QED BY <2>1, <2>2, NoContractAssumption DEF LoanContract, Created, TypeOK
<1>3. QED
  BY <1>1, <1>2 DEF Next, Origination, TokenFunding, Servicing, Loan_CompleteRepaymentReceived,
     Tick, CreateCreditProfile, CreateLoanRequest, LoanRequest_Withdraw,
     LoanRequest_DiscloseToLender, CreateLoanOffer, LoanOffer_Accept,
     LoanOffer_AcceptWithToken, FundingIntent_ConfirmByLender, DropPrincipalRequest,
     LoanPrincipalRequest_CompleteFunding, Loan_RepayLoan, Loan_MarkDefault,
     Loan_RequestRepayment, AllocateRepayment, AllocatePrincipal, Allocate,
     DropRepaymentRequest, LoanRepaymentRequest_CompleteRepayment, Allocation_Withdraw,
     servicingVars, vars

LEMMA RepaymentsKept ==
  ASSUME TypeOK, [Next]_vars
  PROVE  \A q \in Created(repayment) :
           /\ q \in Created(repayment')
           /\ repayment'[q].lender = repayment[q].lender
           /\ repayment'[q].borrower = repayment[q].borrower
           /\ repayment'[q].amount = repayment[q].amount
           /\ repayment'[q].loan = repayment[q].loan
<1>1. ASSUME NEW ln \in Loans, NEW w \in Windows, Loan_RequestRepayment(ln, w)
      PROVE  \A q \in Created(repayment) : q \in Created(repayment')
                                           /\ repayment'[q] = repayment[q]
  BY <1>1 DEF Loan_RequestRepayment, Fresh, Created, TypeOK
<1>2. ASSUME NEW q \in Repayments, NEW how \in {"settled", "dropped"},
             IsOpen(repayment, q), repayment' = Archive(repayment, q, how)
      PROVE  \A s \in Created(repayment) :
               /\ s \in Created(repayment')
               /\ repayment'[s].lender = repayment[s].lender
               /\ repayment'[s].borrower = repayment[s].borrower
               /\ repayment'[s].amount = repayment[s].amount
               /\ repayment'[s].loan = repayment[s].loan
  <2>1. repayment[q] \in RepaymentContract /\ Created(repayment') = Created(repayment)
    BY <1>2, ArchiveRepayment DEF IsOpen, Created, TypeOK
  <2>2. repayment' = [repayment EXCEPT ![q] = [repayment[q] EXCEPT !.state = how]]
    BY <1>2, <2>1 DEF Archive, TypeOK
  <2>3. QED BY <2>1, <2>2 DEF RepaymentContract, Created, TypeOK
<1>3. QED
  BY <1>1, <1>2 DEF Next, Origination, TokenFunding, Servicing, Loan_CompleteRepaymentReceived,
     Tick, CreateCreditProfile, CreateLoanRequest, LoanRequest_Withdraw,
     LoanRequest_DiscloseToLender, CreateLoanOffer, LoanOffer_Accept,
     LoanOffer_AcceptWithToken, FundingIntent_ConfirmByLender, DropPrincipalRequest,
     LoanPrincipalRequest_CompleteFunding, Loan_RepayLoan, Loan_MarkDefault, CloseLoan,
     AllocateRepayment, AllocatePrincipal, Allocate,
     DropRepaymentRequest, LoanRepaymentRequest_CompleteRepayment, Allocation_Withdraw,
     servicingVars, vars

LEMMA KeptByNext == TypeOK /\ [Next]_vars => ContractsKept
BY ProfilesKept, PrincipalsKept, LoansKept, RepaymentsKept DEF ContractsKept

\* A leg stays what it was, allocated or not.
LEMMA LegsKept ==
  ASSUME TypeOK, ContractsKept,
         NEW key \in ({"principal"} \X Created(principal)) \cup ({"repayment"} \X Created(repayment))
  PROVE  LegOf(key)' = LegOf(key)
<1>1. CASE key \in {"principal"} \X Created(principal)
  <2>1. key[1] = "principal" /\ key[2] \in Created(principal)
    BY <1>1
  <2>2. principal'[key[2]].terms = principal[key[2]].terms
    BY <2>1 DEF ContractsKept
  <2>3. QED BY <2>1, <2>2 DEF LegOf, PrincipalLeg
<1>2. CASE key \in {"repayment"} \X Created(repayment)
  <2>1. key[1] # "principal" /\ key[2] \in Created(repayment)
    BY <1>2
  <2>2. /\ repayment'[key[2]].lender = repayment[key[2]].lender
        /\ repayment'[key[2]].borrower = repayment[key[2]].borrower
        /\ repayment'[key[2]].amount = repayment[key[2]].amount
    BY <2>1 DEF ContractsKept
  <2>3. QED BY <2>1, <2>2 DEF LegOf, RepaymentLeg
<1>3. QED BY <1>1, <1>2

-----------------------------------------------------------------------------
(* What steps add *)

\* The chain of profile p goes on in a contract next, active, with another credit.
Succeeds(next, p, credit) ==
  /\ p \in Created(profile) /\ profile[p].state = "active"
  /\ next \in Profiles /\ next \notin Created(profile)
  /\ Created(profile') = Created(profile) \cup {next}
  /\ profile'[p].root = profile[p].root /\ profile'[p].state = "archived"
  /\ profile'[next].root = profile[p].root /\ profile'[next].state = "active"
  /\ profile'[next].credit = credit
  /\ \A c \in Created(profile) \ {p} : profile'[c] = profile[c]

LEMMA LoanCloses ==
  ASSUME TypeOK, NEW ln \in Loans, NEW how \in {"repaid", "defaulted"},
         NEW credit \in CreditRecords, CloseLoan(ln, how, credit)
  PROVE  \E next : Succeeds(next, loan[ln].terms.profile, credit)
<1> DEFINE p == loan[ln].terms.profile
<1>1. /\ p \in Created(profile) /\ p \in Profiles /\ profile[p] \in ProfileContract
      /\ profile[p].state = "active"
  BY DEF CloseLoan, IsActiveProfile, Created, TypeOK
<1>2. PICK next \in Profiles :
        /\ profile[next] = NoContract
        /\ profile' = [profile EXCEPT ![p].state = "archived",
                                      ![next] = [profile[p] EXCEPT !.credit = credit]]
  BY DEF CloseLoan, ReplaceProfile, Fresh, TypeOK
<1> HIDE DEF p
<1>3. p # next /\ next \notin Created(profile)
  BY <1>1, <1>2 DEF Created
<1>4. /\ [profile[p] EXCEPT !.state = "archived"] \in ProfileContract
      /\ [profile[p] EXCEPT !.credit = credit] \in ProfileContract
  BY <1>1 DEF ProfileContract
<1>5. /\ profile'[p] = [profile[p] EXCEPT !.state = "archived"]
      /\ profile'[next] = [profile[p] EXCEPT !.credit = credit]
      /\ \A c \in Profiles \ {p, next} : profile'[c] = profile[c]
      /\ DOMAIN profile' = Profiles /\ DOMAIN profile = Profiles
  BY <1>1, <1>2, <1>3 DEF TypeOK
<1>6. profile'[p] # NoContract /\ profile'[next] # NoContract
  BY <1>4, <1>5, NoContractAssumption
<1>7. Created(profile') = Created(profile) \cup {next}
  BY <1>1, <1>2, <1>5, <1>6 DEF Created
<1>8. /\ profile'[p].root = profile[p].root /\ profile'[p].state = "archived"
      /\ profile'[next].root = profile[p].root /\ profile'[next].state = "active"
      /\ profile'[next].credit = credit
  BY <1>1, <1>5 DEF ProfileContract
<1>9. \A c \in Created(profile) \ {p} : profile'[c] = profile[c]
  BY <1>3, <1>5 DEF Created
<1>10. Succeeds(next, p, credit)
  BY <1>1, <1>3, <1>7, <1>8, <1>9 DEF Succeeds
<1>11. QED BY <1>10 DEF p

\* The credit a closing loan writes is a credit record.
LEMMA ClosingCredit ==
  ASSUME TypeOK, NEW ln \in Loans, IsActiveLoan(ln), IsActiveProfile(loan[ln].terms.profile)
  PROVE  /\ PinnedCredit(ln) \in CreditRecords
         /\ RecordSuccessfulLoan(PinnedCredit(ln)) \in CreditRecords
         /\ RecordDefaultedLoan(PinnedCredit(ln)) \in CreditRecords
<1>1. PinnedCredit(ln) \in CreditRecords
  BY DEF IsActiveLoan, IsActiveProfile, Created, TypeOK, PinnedCredit, LoanContract,
         LoanTerms, ProfileContract
<1>2. QED BY <1>1, SuccessAccounted, DefaultAccounted

\* A new profile starts a chain or joins one.
LEMMA ProfilesAdded ==
  ASSUME TypeOK, [Next]_vars
  PROVE  \A p \in Created(profile') \ Created(profile) :
           \/ profile'[p].root = p
           \/ \E c \in Created(profile) : profile'[p].root = profile[c].root
<1>1. ASSUME NEW b \in Borrowers, CreateCreditProfile(b)
      PROVE  \A p \in Created(profile') \ Created(profile) : profile'[p].root = p
  BY <1>1 DEF CreateCreditProfile, Fresh, Created, TypeOK
<1>2. ASSUME NEW ln \in Loans, Loan_RepayLoan(ln) \/ Loan_MarkDefault(ln)
      PROVE  \A p \in Created(profile') \ Created(profile) :
               \E c \in Created(profile) : profile'[p].root = profile[c].root
  <2>1. PICK how \in {"repaid", "defaulted"}, credit \in CreditRecords :
          CloseLoan(ln, how, credit)
    <3>1. IsActiveLoan(ln) /\ IsActiveProfile(loan[ln].terms.profile)
      BY <1>2 DEF Loan_RepayLoan, Loan_MarkDefault, CloseLoan
    <3>2. QED BY <1>2, <3>1, ClosingCredit DEF Loan_RepayLoan, Loan_MarkDefault
  <2>2. PICK next : Succeeds(next, loan[ln].terms.profile, credit)
    BY <2>1, LoanCloses
  <2>3. QED BY <2>2 DEF Succeeds
<1>3. QED
  BY <1>1, <1>2 DEF Next, Origination, TokenFunding, Servicing, Loan_CompleteRepaymentReceived,
     Tick, CreateLoanRequest, LoanRequest_Withdraw, LoanRequest_DiscloseToLender,
     CreateLoanOffer, LoanOffer_Accept, LoanOffer_AcceptWithToken,
     FundingIntent_ConfirmByLender, DropPrincipalRequest, LoanPrincipalRequest_CompleteFunding,
     Loan_RequestRepayment, AllocateRepayment, AllocatePrincipal, Allocate,
     DropRepaymentRequest, LoanRepaymentRequest_CompleteRepayment, Allocation_Withdraw,
     servicingVars, vars

\* A new repayment request asks what its loan owes.
LEMMA RepaymentsAdded ==
  ASSUME TypeOK, [Next]_vars
  PROVE  \A q \in Created(repayment') \ Created(repayment) :
           \E ln \in Created(loan) :
             /\ repayment'[q].loan = ln
             /\ repayment'[q].lender = loan[ln].terms.lender
             /\ repayment'[q].borrower = loan[ln].terms.borrower
             /\ repayment'[q].amount = RepaymentAmount(ln)
<1>1. ASSUME NEW ln \in Loans, NEW w \in Windows, Loan_RequestRepayment(ln, w)
      PROVE  \A q \in Created(repayment') \ Created(repayment) :
             /\ ln \in Created(loan)
             /\ repayment'[q].loan = ln
             /\ repayment'[q].lender = loan[ln].terms.lender
             /\ repayment'[q].borrower = loan[ln].terms.borrower
             /\ repayment'[q].amount = RepaymentAmount(ln)
  BY <1>1 DEF Loan_RequestRepayment, IsActiveLoan, Fresh, Created, TypeOK
<1>2. ASSUME NEW q \in Repayments,
             DropRepaymentRequest(q) \/ LoanRepaymentRequest_CompleteRepayment(q)
      PROVE  Created(repayment') = Created(repayment)
  BY <1>2, ArchiveRepayment DEF DropRepaymentRequest, LoanRepaymentRequest_CompleteRepayment
<1>3. QED
  BY <1>1, <1>2 DEF Next, Origination, TokenFunding, Servicing, Loan_CompleteRepaymentReceived,
     Tick, CreateCreditProfile, CreateLoanRequest, LoanRequest_Withdraw,
     LoanRequest_DiscloseToLender, CreateLoanOffer, LoanOffer_Accept,
     LoanOffer_AcceptWithToken, FundingIntent_ConfirmByLender, DropPrincipalRequest,
     LoanPrincipalRequest_CompleteFunding, Loan_RepayLoan, Loan_MarkDefault, CloseLoan,
     AllocateRepayment, AllocatePrincipal, Allocate, Allocation_Withdraw,
     servicingVars, vars

-----------------------------------------------------------------------------
(* The invariant *)

LEMMA ChainsStayRooted ==
  ASSUME TypeOK, ChainsRooted, [Next]_vars
  PROVE  ChainsRooted'
<1>1. ASSUME NEW p \in Created(profile)
      PROVE  /\ profile'[p].root \in Created(profile')
             /\ profile'[profile'[p].root].root = profile'[p].root
  BY <1>1, ProfilesKept DEF ChainsRooted
<1>2. ASSUME NEW p \in Created(profile') \ Created(profile)
      PROVE  /\ profile'[p].root \in Created(profile')
             /\ profile'[profile'[p].root].root = profile'[p].root
  <2>1. CASE profile'[p].root = p
    BY <2>1
  <2>2. ASSUME NEW c \in Created(profile), profile'[p].root = profile[c].root
        PROVE  /\ profile'[p].root \in Created(profile')
               /\ profile'[profile'[p].root].root = profile'[p].root
    BY <1>1, <2>2, ProfilesKept
  <2>3. QED BY <2>1, <2>2, ProfilesAdded
<1>3. QED BY <1>1, <1>2 DEF ChainsRooted

LEMMA RepaymentsStayOwed ==
  ASSUME TypeOK, RepaymentsOwed, [Next]_vars
  PROVE  RepaymentsOwed'
<1>1. \A ln \in Created(loan) : /\ ln \in Created(loan')
                                /\ loan'[ln].terms = loan[ln].terms
                                /\ RepaymentAmount(ln)' = RepaymentAmount(ln)
  BY LoansKept DEF RepaymentAmount
<1>2. ASSUME NEW q \in Created(repayment')
      PROVE  \E ln \in Created(loan) :
             /\ repayment'[q].loan = ln
             /\ repayment'[q].lender = loan[ln].terms.lender
             /\ repayment'[q].borrower = loan[ln].terms.borrower
             /\ repayment'[q].amount = RepaymentAmount(ln)
  <2>1. CASE q \in Created(repayment)
    BY <2>1, RepaymentsKept DEF RepaymentsOwed
  <2>2. CASE q \notin Created(repayment)
    BY <2>2, RepaymentsAdded
  <2>3. QED BY <2>1, <2>2
<1>3. QED BY <1>1, <1>2 DEF RepaymentsOwed

\* The steps of the sender's wallet and the settlements.
LEMMA EscrowStaysCovered ==
  ASSUME TypeOK, EscrowCovers, [Next]_vars
  PROVE  EscrowCovers'
<1>1. ContractsKept
  BY KeptByNext
<1>2. \A key \in allocated : LegOf(key)' = LegOf(key)
  BY <1>1, LegsKept DEF TypeOK
<1>3. ASSUME NEW q \in Principals, AllocatePrincipal(q)
      PROVE  EscrowCovers'
  <2> DEFINE key == <<"principal", q>>
  <2>1. key \in {"principal"} \X Created(principal) /\ LegOf(key) = PrincipalLeg(q)
    BY <1>3 DEF AllocatePrincipal, IsOpen, LegOf
  <2>2. IsLeg(LegOf(key))
    BY <2>1, LegTypes DEF IsLeg, Created, TypeOK
  <2>3. /\ key \notin allocated /\ allocated' = allocated \cup {key}
        /\ escrow' = [escrow EXCEPT ![LegOf(key).sender] = @ + LegOf(key).amount]
    BY <1>3, <2>1 DEF AllocatePrincipal, Allocate
  <2>4. LegOf(key)' = LegOf(key)
    BY <1>1, <2>1, LegsKept
  <2> HIDE DEF key
  <2>5. QED BY <1>2, <2>2, <2>3, <2>4, AllocationAdded
<1>4. ASSUME NEW q \in Repayments, AllocateRepayment(q)
      PROVE  EscrowCovers'
  <2> DEFINE key == <<"repayment", q>>
  <2>1. key \in {"repayment"} \X Created(repayment) /\ LegOf(key) = RepaymentLeg(q)
    BY <1>4 DEF AllocateRepayment, IsOpen, LegOf
  <2>2. IsLeg(LegOf(key))
    BY <2>1, LegTypes DEF IsLeg, Created, TypeOK
  <2>3. /\ key \notin allocated /\ allocated' = allocated \cup {key}
        /\ escrow' = [escrow EXCEPT ![LegOf(key).sender] = @ + LegOf(key).amount]
    BY <1>4, <2>1 DEF AllocateRepayment, Allocate
  <2>4. LegOf(key)' = LegOf(key)
    BY <1>1, <2>1, LegsKept
  <2> HIDE DEF key
  <2>5. QED BY <1>2, <2>2, <2>3, <2>4, AllocationAdded
<1>5. ASSUME NEW q \in Principals, LoanPrincipalRequest_CompleteFunding(q)
      PROVE  EscrowCovers'
  <2>1. LegOf(<<"principal", q>>) = PrincipalLeg(q)
    BY DEF LegOf
  <2>2. QED
    BY <1>2, <1>5, <2>1, AllocationGone
    DEF LoanPrincipalRequest_CompleteFunding, ExecuteTransfer
<1>6. ASSUME NEW q \in Repayments, LoanRepaymentRequest_CompleteRepayment(q)
      PROVE  EscrowCovers'
  <2>1. LegOf(<<"repayment", q>>) = RepaymentLeg(q)
    BY DEF LegOf
  <2>2. QED
    BY <1>2, <1>6, <2>1, AllocationGone
    DEF LoanRepaymentRequest_CompleteRepayment, ExecuteTransfer
<1>7. ASSUME NEW key \in allocated, Allocation_Withdraw(key)
      PROVE  EscrowCovers'
  <2>1. /\ allocated' = allocated \ {key}
        /\ escrow' = [escrow EXCEPT ![LegOf(key).sender] = @ - LegOf(key).amount]
    BY <1>7 DEF Allocation_Withdraw, LegOf
  <2>2. QED BY <1>2, <2>1, AllocationGone
<1>8. ASSUME UNCHANGED <<allocated, escrow>>
      PROVE  EscrowCovers'
  BY <1>2, <1>8, AllocationsKept
<1>9. QED
  BY <1>3, <1>4, <1>5, <1>6, <1>7, <1>8
  DEF Next, Origination, TokenFunding, Servicing, Loan_CompleteRepaymentReceived,
     Tick, CreateCreditProfile, CreateLoanRequest, LoanRequest_Withdraw,
     LoanRequest_DiscloseToLender, CreateLoanOffer, LoanOffer_Accept,
     LoanOffer_AcceptWithToken, FundingIntent_ConfirmByLender, DropPrincipalRequest,
     Loan_RepayLoan, Loan_MarkDefault, CloseLoan, Loan_RequestRepayment,
     DropRepaymentRequest, tokenVars, vars

LEMMA RefinementInit == Init => RefinementInv
<1> SUFFICES ASSUME Init PROVE RefinementInv
  OBVIOUS
<1>1. ChainsRooted /\ RepaymentsOwed
  BY DEF Init, ChainsRooted, RepaymentsOwed, Created
<1>2. ASSUME NEW p \in Parties
      PROVE  escrow[p] = TotalSent(allocated, p)
  <2>1. allocated = {} /\ escrow[p] = 0
    BY DEF Init
  <2>2. DOMAIN [k \in {k \in allocated : LegOf(k).sender = p} |-> LegOf(k).amount] = {}
    BY <2>1
  <2> QED
    BY <2>1, <2>2, SumEmpty DEF TotalSent, SumFunction
<1>3. IsFiniteSet(allocated)
  BY FS_EmptySet DEF Init
<1>4. QED BY <1>1, <1>2, <1>3, FundingInit, CreditInit DEF RefinementInv, EscrowCovers

LEMMA RefinementNext == RefinementInv /\ [Next]_vars => RefinementInv'
BY FundingNext, CreditNext, ChainsStayRooted, RepaymentsStayOwed, EscrowStaysCovered
   DEF RefinementInv, FundingInv

LEMMA RefinementInvariant == Spec => []RefinementInv
BY RefinementInit, RefinementNext, PTL DEF Spec
-----------------------------------------------------------------------------
(* What the agreement sees *)

AgreedHistory == [root \in Profiles |-> HistoryOf(root)]

IsRoot(root) == root \in Created(profile) /\ profile[root].root = root

\* The agreement's history is the credit of the one active contract of a chain.
HistoriesTold ==
  /\ \A root \in Profiles : ~IsRoot(root) => AgreedHistory[root] = NoContract
  /\ \A p \in Created(profile) :
       profile[p].state = "active" => AgreedHistory[profile[p].root] = profile[p].credit
  /\ \A root \in Profiles : IsRoot(root) =>
       \E p \in Created(profile) : profile[p].root = root /\ profile[p].state = "active"

LEMMA HistoriesToldAlways == RefinementInv => HistoriesTold
<1> SUFFICES ASSUME RefinementInv PROVE HistoriesTold
  OBVIOUS
<1>1. /\ \A p \in Created(profile) : OneActive(profile[p].root)
      /\ DOMAIN profile = Profiles
  BY CreditMatchesClosuresAlt DEF RefinementInv, CreditInv, TypeOK
<1>2. \A root \in Profiles : ~IsRoot(root) => AgreedHistory[root] = NoContract
  BY <1>1 DEF AgreedHistory, HistoryOf, IsRoot, Created
<1>3. ASSUME NEW p \in Created(profile), profile[p].state = "active"
      PROVE  AgreedHistory[profile[p].root] = profile[p].credit
  <2> DEFINE root == profile[p].root
             Current(c) == profile[c].root = root /\ IsActiveProfile(c)
  <2>1. profile[root] # NoContract /\ profile[root].root = root
    BY DEF RefinementInv, ChainsRooted, Created
  <2>2. HistoryOf(root) = profile[CHOOSE c \in Created(profile) : Current(c)].credit
    BY <2>1 DEF HistoryOf
  <2>3. PICK current \in Created(profile) :
          \A c \in Created(profile) : Current(c) <=> c = current
    BY <1>1 DEF OneActive
  <2>4. Current(p)
    BY <1>3 DEF IsActiveProfile
  <2> HIDE DEF Current, root
  <2>5. (CHOOSE c \in Created(profile) : Current(c)) = p
    BY <2>3, <2>4
  <2>6. profile[p].root \in Profiles
    BY <1>1 DEF RefinementInv, ChainsRooted, Created
  <2>7. QED BY <2>2, <2>5, <2>6 DEF root, AgreedHistory
<1>4. ASSUME NEW root \in Profiles, IsRoot(root)
      PROVE  \E p \in Created(profile) : profile[p].root = root /\ profile[p].state = "active"
  <2>1. OneActive(root)
    BY <1>1, <1>4 DEF IsRoot
  <2>2. QED BY <2>1 DEF OneActive, IsActiveProfile
<1>5. QED BY <1>2, <1>3, <1>4 DEF HistoriesTold

\* Profiles untouched, histories untouched.
LEMMA HistoriesKept ==
  ASSUME HistoriesTold, HistoriesTold', UNCHANGED profile
  PROVE  UNCHANGED AgreedHistory
<1>1. ASSUME NEW root \in Profiles
      PROVE  AgreedHistory'[root] = AgreedHistory[root]
  <2>1. Created(profile') = Created(profile) /\ profile' = profile
    BY DEF Created
  <2>2. CASE IsRoot(root)
    <3>1. PICK p \in Created(profile) : profile[p].root = root /\ profile[p].state = "active"
      BY <2>2 DEF HistoriesTold
    <3>2. AgreedHistory[root] = profile[p].credit
      BY <3>1 DEF HistoriesTold
    <3>3. AgreedHistory'[root] = profile[p].credit
      BY <2>1, <3>1 DEF HistoriesTold
    <3>4. QED BY <3>2, <3>3
  <2>3. CASE ~IsRoot(root)
    <3>1. ~IsRoot(root)'
      BY <2>1, <2>3 DEF IsRoot
    <3>2. QED BY <2>3, <3>1 DEF HistoriesTold
  <2>4. QED BY <2>2, <2>3
<1>2. QED BY <1>1 DEF AgreedHistory

\* A new chain is a new history.
LEMMA HistoryOpened ==
  ASSUME TypeOK, HistoriesTold, HistoriesTold', NEW b \in Borrowers, CreateCreditProfile(b)
  PROVE  \E h \in Profiles :
           /\ AgreedHistory[h] = NoContract
           /\ AgreedHistory'[h] = NewCredit
           /\ \A root \in Profiles \ {h} : AgreedHistory'[root] = AgreedHistory[root]
           /\ \A p \in Created(profile) : p # h /\ profile'[p] = profile[p]
<1> DEFINE contract(p) == [borrower |-> b, credit |-> NewCredit, root |-> p, state |-> "active"]
<1>1. PICK h \in Profiles : profile[h] = NoContract
                            /\ profile' = [profile EXCEPT ![h] = contract(h)]
  BY DEF CreateCreditProfile, Fresh, TypeOK
<1>2. contract(h) # NoContract
  BY NewCreditAccounted, NoContractAssumption DEF ProfileContract
<1>3. /\ h \notin Created(profile) /\ Created(profile') = Created(profile) \cup {h}
      /\ profile'[h] = contract(h)
      /\ \A c \in Profiles \ {h} : profile'[c] = profile[c]
  BY <1>1, <1>2 DEF Created, TypeOK
<1>4. AgreedHistory[h] = NoContract
  BY <1>3 DEF HistoriesTold, IsRoot
<1>5. AgreedHistory'[h] = NewCredit
  <2>1. profile'[h].state = "active" /\ profile'[h].root = h /\ profile'[h].credit = NewCredit
    BY <1>3
  <2>2. AgreedHistory'[profile'[h].root] = profile'[h].credit
    BY <1>3, <2>1 DEF HistoriesTold
  <2>3. QED BY <2>1, <2>2
<1>6. ASSUME NEW root \in Profiles \ {h}
      PROVE  AgreedHistory'[root] = AgreedHistory[root]
  <2>1. CASE IsRoot(root)
    <3>1. PICK p \in Created(profile) : profile[p].root = root /\ profile[p].state = "active"
      BY <2>1 DEF HistoriesTold
    <3>2. AgreedHistory[root] = profile[p].credit
      BY <3>1 DEF HistoriesTold
    <3>3. p \in Created(profile') /\ profile'[p] = profile[p]
      BY <1>3, <3>1 DEF Created, TypeOK
    <3>4. AgreedHistory'[profile'[p].root] = profile'[p].credit
      BY <3>1, <3>3 DEF HistoriesTold
    <3>5. QED BY <3>1, <3>2, <3>3, <3>4
  <2>2. CASE ~IsRoot(root)
    <3>1. ~IsRoot(root)'
      BY <1>3, <1>6, <2>2 DEF IsRoot
    <3>2. QED BY <2>2, <3>1 DEF HistoriesTold
  <2>3. QED BY <2>1, <2>2
<1>7. \A p \in Created(profile) : p # h /\ profile'[p] = profile[p]
  BY <1>3 DEF Created, TypeOK
<1>8. QED BY <1>4, <1>5, <1>6, <1>7

\* A successor carries its chain's history on.
LEMMA HistoryMoved ==
  ASSUME TypeOK, HistoriesTold, HistoriesTold', NEW next, NEW p, NEW credit,
         Succeeds(next, p, credit)
  PROVE  /\ AgreedHistory[profile[p].root] = profile[p].credit
         /\ AgreedHistory'[profile[p].root] = credit
         /\ \A root \in Profiles : root # profile[p].root => AgreedHistory'[root] = AgreedHistory[root]
<1>1. AgreedHistory[profile[p].root] = profile[p].credit
  BY DEF Succeeds, HistoriesTold
<1>2. AgreedHistory'[profile[p].root] = credit
  <2>1. AgreedHistory'[profile'[next].root] = profile'[next].credit
    BY DEF Succeeds, HistoriesTold
  <2>2. profile'[next].root = profile[p].root /\ profile'[next].credit = credit
        /\ p \in Created(profile') /\ profile'[p].root = profile[p].root
    BY DEF Succeeds
  <2>3. AgreedHistory'[profile'[p].root] = credit
    BY <2>1, <2>2
  <2>4. QED BY <2>2, <2>3
<1>3. ASSUME NEW root \in Profiles, root # profile[p].root
      PROVE  AgreedHistory'[root] = AgreedHistory[root]
  <2>1. CASE IsRoot(root)
    <3>1. PICK c \in Created(profile) : profile[c].root = root /\ profile[c].state = "active"
      BY <2>1 DEF HistoriesTold
    <3>2. AgreedHistory[root] = profile[c].credit
      BY <3>1 DEF HistoriesTold
    <3>3. c \in Created(profile') /\ profile'[c] = profile[c]
      BY <1>3, <3>1 DEF Succeeds
    <3>4. AgreedHistory'[profile'[c].root] = profile'[c].credit
      BY <3>1, <3>3 DEF HistoriesTold
    <3>5. QED BY <3>1, <3>2, <3>3, <3>4
  <2>2. CASE ~IsRoot(root)
    <3>1. ~IsRoot(root)'
      BY <1>3, <2>2 DEF IsRoot, Succeeds
    <3>2. QED BY <2>2, <3>1 DEF HistoriesTold
  <2>3. QED BY <2>1, <2>2
<1>4. QED BY <1>1, <1>2, <1>3
-----------------------------------------------------------------------------
(* Debts *)

AgreedDebt == [ln \in Loans |-> DebtOf(ln)]

DebtRecord(terms, root, how) ==
  [lender |-> terms.lender, borrower |-> terms.borrower, amount |-> terms.amount,
   rate |-> terms.rate, need |-> terms.request, history |-> root, state |-> how]

\* What a loan is to the agreement.
LEMMA DebtIs ==
  ASSUME RefinementInv, NEW ln \in Created(loan)
  PROVE  LET t == loan[ln].terms IN
         /\ ln \in Loans /\ t \in LoanTerms /\ t.profile \in Created(profile)
         /\ AgreedDebt[ln] = DebtRecord(t, profile[t.profile].root, loan[ln].state)
         /\ AgreedDebt[ln] # NoContract
<1> DEFINE t == loan[ln].terms
<1>1. ln \in Loans /\ loan[ln] # NoContract /\ loan[ln] \in LoanContract
  BY DEF RefinementInv, CreditInv, TypeOK, Created
<1>2. t \in LoanTerms /\ t.profile \in Created(profile)
  BY <1>1 DEF LoanContract, RefinementInv, CreditInv, ProfilesKnown
<1>3. AgreedDebt[ln] = DebtRecord(t, profile[t.profile].root, loan[ln].state)
  BY <1>1 DEF AgreedDebt, DebtOf, DebtRecord
<1>4. profile[t.profile].root \in Profiles
  BY <1>2 DEF RefinementInv, ChainsRooted, CreditInv, TypeOK, Created
<1>5. DebtRecord(t, profile[t.profile].root, loan[ln].state) \in DebtRecords
  BY <1>1, <1>2, <1>4 DEF DebtRecord, DebtRecords, LoanContract, LoanTerms
<1>6. QED BY <1>1, <1>2, <1>3, <1>5, NoRecordAssumption

\* The chains behind debts stay where they are.
RootsKept == \A p \in Created(profile) : profile'[p].root = profile[p].root

LEMMA DebtsKept ==
  ASSUME RefinementInv, RootsKept, UNCHANGED loan
  PROVE  UNCHANGED AgreedDebt
<1>1. ASSUME NEW ln \in Loans
      PROVE  DebtOf(ln)' = DebtOf(ln)
  <2>1. CASE loan[ln] = NoContract
    BY <2>1 DEF DebtOf
  <2>2. CASE loan[ln] # NoContract
    <3>1. loan[ln].terms.profile \in Created(profile)
      BY <2>2, DebtIs DEF Created, RefinementInv, CreditInv, TypeOK
    <3>2. profile'[loan[ln].terms.profile].root = profile[loan[ln].terms.profile].root
      BY <3>1 DEF RootsKept
    <3>3. QED BY <3>2 DEF DebtOf
  <2>3. QED BY <2>1, <2>2
<1>2. QED BY <1>1 DEF AgreedDebt

\* A new loan is a new debt.
LEMMA DebtMade ==
  ASSUME RefinementInv, UNCHANGED profile, NEW terms \in LoanTerms, CreateLoan(terms)
  PROVE  \E d \in Loans :
           /\ AgreedDebt[d] = NoContract
           /\ AgreedDebt' = [AgreedDebt EXCEPT ![d] =
                               DebtRecord(terms, profile[terms.profile].root, "active")]
<1>1. PICK d \in Loans : /\ loan[d] = NoContract
                         /\ loan' = [loan EXCEPT ![d] = [terms |-> terms, state |-> "active"]]
  BY DEF CreateLoan, Fresh, RefinementInv, CreditInv, TypeOK
<1>2. [terms |-> terms, state |-> "active"] # NoContract
  BY NoContractAssumption DEF LoanContract
<1>3. loan'[d] = [terms |-> terms, state |-> "active"] /\ \A ln \in Loans \ {d} : loan'[ln] = loan[ln]
  BY <1>1 DEF RefinementInv, CreditInv, TypeOK
<1>4. DebtOf(d)' = DebtRecord(terms, profile[terms.profile].root, "active")
  BY <1>2, <1>3 DEF DebtOf, DebtRecord
<1>5. \A ln \in Loans \ {d} : DebtOf(ln)' = DebtOf(ln)
  BY <1>3 DEF DebtOf
<1>6. AgreedDebt[d] = NoContract
  BY <1>1 DEF AgreedDebt, DebtOf
<1>7. AgreedDebt' = [AgreedDebt EXCEPT ![d] =
                       DebtRecord(terms, profile[terms.profile].root, "active")]
  BY <1>4, <1>5 DEF AgreedDebt
<1>8. QED BY <1>6, <1>7

\* A closed loan is a closed debt, and the history that moves is its own.
LEMMA DebtClosed ==
  ASSUME RefinementInv, HistoriesTold, HistoriesTold', NEW ln \in Loans,
         NEW how \in {"repaid", "defaulted"}, NEW credit \in CreditRecords,
         CloseLoan(ln, how, credit)
  PROVE  /\ AgreedDebt[ln] # NoContract /\ AgreedDebt[ln].state = "active"
         /\ AgreedDebt' = [AgreedDebt EXCEPT ![ln].state = how]
         /\ AgreedHistory' = [AgreedHistory EXCEPT ![AgreedDebt[ln].history] = credit]
         /\ AgreedHistory[AgreedDebt[ln].history] = PinnedCredit(ln)
<1> DEFINE p == loan[ln].terms.profile
           root == profile[p].root
<1>0. TypeOK
  BY DEF RefinementInv, CreditInv
<1>1. PICK next : Succeeds(next, p, credit)
  BY <1>0, LoanCloses
<1>2. /\ ln \in Created(loan) /\ loan[ln].state = "active" /\ loan[ln] \in LoanContract
      /\ loan' = [loan EXCEPT ![ln] = [loan[ln] EXCEPT !.state = how]]
  BY <1>0 DEF CloseLoan, IsActiveLoan, Archive, Created, TypeOK
<1>3. /\ AgreedDebt[ln] = DebtRecord(loan[ln].terms, root, "active")
      /\ AgreedDebt[ln] # NoContract /\ p \in Created(profile)
  BY <1>2, DebtIs
<1>4. root \in Profiles
  BY <1>3 DEF RefinementInv, ChainsRooted, CreditInv, TypeOK, Created
<1>5. RootsKept
  BY <1>1 DEF RootsKept, Succeeds
<1>6. /\ loan'[ln].terms = loan[ln].terms /\ loan'[ln].state = how /\ loan'[ln] # NoContract
      /\ \A x \in Loans \ {ln} : loan'[x] = loan[x]
  <2>1. [loan[ln] EXCEPT !.state = how] \in LoanContract
    BY <1>2 DEF LoanContract
  <2>2. QED BY <1>0, <1>2, <2>1, NoContractAssumption DEF TypeOK, LoanContract
<1>7. DebtOf(ln)' = DebtRecord(loan[ln].terms, root, how)
  BY <1>3, <1>5, <1>6 DEF DebtOf, DebtRecord, RootsKept
<1>8. ASSUME NEW x \in Loans \ {ln}
      PROVE  DebtOf(x)' = DebtOf(x)
  <2>1. CASE loan[x] = NoContract
    BY <1>6, <2>1 DEF DebtOf
  <2>2. CASE loan[x] # NoContract
    <3>1. loan[x].terms.profile \in Created(profile)
      BY <1>0, <2>2, DebtIs DEF Created, TypeOK
    <3>2. profile'[loan[x].terms.profile].root = profile[loan[x].terms.profile].root
      BY <1>5, <3>1 DEF RootsKept
    <3>3. QED BY <1>6, <3>2 DEF DebtOf
  <2>3. QED BY <2>1, <2>2
<1>9. AgreedDebt' = [AgreedDebt EXCEPT ![ln].state = how]
  <2>1. [DebtRecord(loan[ln].terms, root, "active") EXCEPT !.state = how]
          = DebtRecord(loan[ln].terms, root, how)
    BY DEF DebtRecord
  <2>2. [AgreedDebt EXCEPT ![ln].state = how]
          = [AgreedDebt EXCEPT ![ln] = DebtRecord(loan[ln].terms, root, how)]
    BY <1>3, <2>1 DEF AgreedDebt
  <2>3. AgreedDebt' = [AgreedDebt EXCEPT ![ln] = DebtRecord(loan[ln].terms, root, how)]
    BY <1>7, <1>8 DEF AgreedDebt
  <2>4. QED BY <2>2, <2>3
<1>10. AgreedDebt[ln].history = root /\ AgreedDebt[ln].state = "active"
  BY <1>3 DEF DebtRecord
<1>11. /\ AgreedHistory[root] = profile[p].credit /\ AgreedHistory'[root] = credit
       /\ \A r \in Profiles : r # root => AgreedHistory'[r] = AgreedHistory[r]
  BY <1>0, <1>1, HistoryMoved
<1>12. AgreedHistory' = [AgreedHistory EXCEPT ![root] = credit]
  <2> HIDE DEF root, p
  <2>1. \A r \in Profiles : AgreedHistory'[r] = [AgreedHistory EXCEPT ![root] = credit][r]
    BY <1>4, <1>11 DEF AgreedHistory
  <2>2. QED BY <2>1 DEF AgreedHistory
<1>13. QED BY <1>3, <1>9, <1>10, <1>11, <1>12 DEF PinnedCredit
-----------------------------------------------------------------------------
(* Cash *)

AgreedCash == [p \in Parties |-> wallet[p] + escrow[p]]

\* What a transfer leaves every party.
Moved(money, from, to, amount) ==
  [p \in DOMAIN money |-> money[p] + (IF p = to THEN amount ELSE 0)
                                  - (IF p = from THEN amount ELSE 0)]

\* Locking and unlocking holdings moves nothing between parties.
LEMMA CashKept ==
  ASSUME TypeOK,
         \/ \E q \in Principals : AllocatePrincipal(q)
         \/ \E q \in Repayments : AllocateRepayment(q)
         \/ \E key \in allocated : Allocation_Withdraw(key)
  PROVE  UNCHANGED AgreedCash
<1>1. ASSUME NEW p \in Parties, NEW n \in Nat,
             \/ /\ wallet' = [wallet EXCEPT ![p] = @ - n]
                /\ escrow' = [escrow EXCEPT ![p] = @ + n]
             \/ /\ wallet' = [wallet EXCEPT ![p] = @ + n]
                /\ escrow' = [escrow EXCEPT ![p] = @ - n]
      PROVE  UNCHANGED AgreedCash
  <2>1. \A r \in Parties : wallet'[r] + escrow'[r] = wallet[r] + escrow[r]
    BY <1>1 DEF TypeOK
  <2>2. QED BY <2>1 DEF AgreedCash
<1>2. ASSUME NEW q \in Principals, AllocatePrincipal(q)
      PROVE  UNCHANGED AgreedCash
  <2>1. PrincipalLeg(q) \in [sender : Parties, receiver : Parties, amount : Nat]
    BY <1>2, LegTypes DEF AllocatePrincipal, IsOpen, Created
  <2>2. QED BY <1>1, <1>2, <2>1 DEF AllocatePrincipal, Allocate
<1>3. ASSUME NEW q \in Repayments, AllocateRepayment(q)
      PROVE  UNCHANGED AgreedCash
  <2>1. RepaymentLeg(q) \in [sender : Parties, receiver : Parties, amount : Nat]
    BY <1>3, LegTypes DEF AllocateRepayment, IsOpen, Created
  <2>2. QED BY <1>1, <1>3, <2>1 DEF AllocateRepayment, Allocate
<1>4. ASSUME NEW key \in allocated, Allocation_Withdraw(key)
      PROVE  UNCHANGED AgreedCash
  <2>1. LegOf(key) \in [sender : Parties, receiver : Parties, amount : Nat]
    BY LegOfType
  <2>2. /\ wallet' = [wallet EXCEPT ![LegOf(key).sender] = @ + LegOf(key).amount]
        /\ escrow' = [escrow EXCEPT ![LegOf(key).sender] = @ - LegOf(key).amount]
    BY <1>4 DEF Allocation_Withdraw, LegOf
  <2>3. QED BY <1>1, <2>1, <2>2
<1>5. QED BY <1>2, <1>3, <1>4

\* A settlement moves the amount of its leg from sender to receiver, who had it.
LEMMA CashMoved ==
  ASSUME TypeOK, EscrowCovers, NEW key, ExecuteTransfer(key, LegOf(key))
  PROVE  LET leg == LegOf(key) IN
         /\ AgreedCash[leg.sender] >= leg.amount
         /\ AgreedCash' = Moved(AgreedCash, leg.sender, leg.receiver, leg.amount)
<1> DEFINE leg == LegOf(key)
<1>1. key \in allocated /\ leg \in [sender : Parties, receiver : Parties, amount : Nat]
  BY LegOfType DEF ExecuteTransfer
<1>2. escrow[leg.sender] >= leg.amount
  BY <1>1, LockedAmount
<1>3. /\ escrow' = [escrow EXCEPT ![leg.sender] = @ - leg.amount]
      /\ wallet' = [wallet EXCEPT ![leg.receiver] = @ + leg.amount]
  BY DEF ExecuteTransfer
<1> HIDE DEF leg
<1>4. AgreedCash[leg.sender] >= leg.amount
  BY <1>1, <1>2 DEF AgreedCash, TypeOK
<1>5. \A p \in Parties :
        AgreedCash'[p] = AgreedCash[p] + (IF p = leg.receiver THEN leg.amount ELSE 0)
                                       - (IF p = leg.sender THEN leg.amount ELSE 0)
  BY <1>1, <1>3 DEF AgreedCash, TypeOK
<1>6. AgreedCash' = Moved(AgreedCash, leg.sender, leg.receiver, leg.amount)
  BY <1>5 DEF AgreedCash, Moved
<1>7. QED BY <1>4, <1>6 DEF leg

-----------------------------------------------------------------------------
(* The agreement keeps its own copy of the credit rules; it is the same. *)

LEMMA SameCredit ==
  /\ Agreement!NewCredit = NewCredit
  /\ \A c : Agreement!RecordSuccessfulLoan(c) = RecordSuccessfulLoan(c)
  /\ \A c : Agreement!RecordDefaultedLoan(c) = RecordDefaultedLoan(c)
BY DEF NewCredit, Agreement!NewCredit, RecordSuccessfulLoan, Agreement!RecordSuccessfulLoan,
   RecordDefaultedLoan, Agreement!RecordDefaultedLoan, AtMost, Agreement!AtMost,
   AtLeast, Agreement!AtLeast, initialCreditScore, Agreement!initialCreditScore,
   successRepayScoreDelta, Agreement!successRepayScoreDelta,
   defaultScoreDelta, Agreement!defaultScoreDelta, minCreditScore, Agreement!minCreditScore,
   maxCreditScore, Agreement!maxCreditScore

-----------------------------------------------------------------------------
(* The steps of the agreement *)

LEMMA OpeningStep ==
  ASSUME RefinementInv, HistoriesTold, HistoriesTold', NEW b \in Borrowers, CreateCreditProfile(b)
  PROVE  \E h \in Profiles : Agreement!OpenHistory(h)
<1>0. TypeOK
  BY DEF RefinementInv, CreditInv
<1>1. PICK h \in Profiles :
        /\ AgreedHistory[h] = NoContract
        /\ AgreedHistory'[h] = NewCredit
        /\ \A root \in Profiles \ {h} : AgreedHistory'[root] = AgreedHistory[root]
        /\ \A p \in Created(profile) : p # h /\ profile'[p] = profile[p]
  BY <1>0, HistoryOpened
<1>2. AgreedHistory' = [AgreedHistory EXCEPT ![h] = NewCredit]
  <2>1. \A r \in Profiles : AgreedHistory'[r] = [AgreedHistory EXCEPT ![h] = NewCredit][r]
    BY <1>1 DEF AgreedHistory
  <2>2. QED BY <2>1 DEF AgreedHistory
<1>3. UNCHANGED <<request, AgreedDebt, AgreedCash>>
  <2>1. RootsKept /\ UNCHANGED <<request, loan, wallet, escrow>>
    BY <1>1 DEF RootsKept, CreateCreditProfile, offerVars, tokenVars
  <2>2. UNCHANGED AgreedDebt
    BY <2>1, DebtsKept
  <2>3. QED BY <2>1, <2>2 DEF AgreedCash
<1>4. Agreement!OpenHistory(h)
  BY <1>1, <1>2, <1>3, SameCredit DEF Agreement!OpenHistory, AgreedHistory, AgreedDebt, AgreedCash
<1>5. QED BY <1>4

\* Nothing but requests changes.
LEMMA OnlyRequests ==
  ASSUME RefinementInv, HistoriesTold, HistoriesTold', UNCHANGED <<profile, loan, wallet, escrow>>
  PROVE  UNCHANGED <<AgreedDebt, AgreedCash, AgreedHistory>>
<1>1. RootsKept
  BY DEF RootsKept
<1>2. QED BY <1>1, DebtsKept, HistoriesKept DEF AgreedCash

LEMMA AskingSteps ==
  ASSUME RefinementInv, HistoriesTold, HistoriesTold'
  PROVE  /\ \A b \in Borrowers, a \in Amounts :
              CreateLoanRequest(b, a) => \E n \in Requests : Agreement!Ask(n, b, a)
         /\ \A r \in Requests : LoanRequest_Withdraw(r) => Agreement!GiveUp(r)
<1>1. ASSUME NEW b \in Borrowers, NEW a \in Amounts, CreateLoanRequest(b, a)
      PROVE  \E n \in Requests : Agreement!Ask(n, b, a)
  <2>1. UNCHANGED <<AgreedDebt, AgreedCash, AgreedHistory>>
    BY <1>1, OnlyRequests DEF CreateLoanRequest, servicingVars, tokenVars
  <2>2. PICK n \in Requests :
          /\ request[n] = NoContract
          /\ request' = [request EXCEPT ![n] = [borrower |-> b, amount |-> a, state |-> "open"]]
    BY <1>1 DEF CreateLoanRequest, Fresh, RefinementInv, CreditInv, TypeOK
  <2>3. Agreement!Ask(n, b, a)
    BY <2>1, <2>2 DEF Agreement!Ask, AgreedHistory, AgreedDebt, AgreedCash
  <2>4. QED BY <2>3
<1>2. ASSUME NEW r \in Requests, LoanRequest_Withdraw(r)
      PROVE  Agreement!GiveUp(r)
  <2>1. UNCHANGED <<AgreedDebt, AgreedCash, AgreedHistory>>
    BY <1>2, OnlyRequests DEF LoanRequest_Withdraw, servicingVars, tokenVars
  <2>2. /\ request[r] # NoContract /\ request[r].state = "open"
        /\ request' = [request EXCEPT ![r].state = "withdrawn"]
    BY <1>2 DEF LoanRequest_Withdraw, IsOpen, Archive, Created
  <2>3. QED
    BY <2>1, <2>2 DEF Agreement!GiveUp, Agreement!IsOpenNeed, AgreedHistory, AgreedDebt, AgreedCash
<1>3. QED BY <1>1, <1>2

\* A loan on an open request's terms is a debt that meets the need.
LEMMA FundingStep ==
  ASSUME RefinementInv, HistoriesTold, HistoriesTold', UNCHANGED profile,
         NEW terms \in LoanTerms, terms.profile \in Created(profile), CreateLoan(terms),
         IsOpen(request, terms.request), request[terms.request].borrower = terms.borrower,
         request[terms.request].amount = terms.amount,
         request' = Archive(request, terms.request, "funded"),
         \/ UNCHANGED AgreedCash
         \/ /\ AgreedCash[terms.lender] >= terms.amount
            /\ AgreedCash' = Moved(AgreedCash, terms.lender, terms.borrower, terms.amount)
  PROVE  \E n \in Requests, d \in Loans, l \in Lenders, rate \in Rates, h \in Profiles :
           Agreement!Fund(n, d, l, rate, h)
<1> DEFINE h == profile[terms.profile].root
           n == terms.request
<1>1. n \in Requests /\ terms.lender \in Lenders /\ terms.rate \in Rates
  BY DEF LoanTerms
<1>2. request[n] # NoContract /\ request[n].state = "open"
      /\ request' = [request EXCEPT ![n].state = "funded"]
  BY DEF IsOpen, Created, Archive
<1>3. h \in Profiles /\ IsRoot(h)
  BY DEF RefinementInv, ChainsRooted, CreditInv, TypeOK, IsRoot, Created
<1>4. AgreedHistory[h] # NoContract
  <2>1. PICK p \in Created(profile) : profile[p].root = h /\ profile[p].state = "active"
    BY <1>3 DEF HistoriesTold
  <2>2. AgreedHistory[h] = profile[p].credit
    BY <2>1 DEF HistoriesTold
  <2>3. profile[p].credit \in CreditRecords
    BY <2>1 DEF RefinementInv, CreditInv, TypeOK, Created, ProfileContract
  <2>4. QED BY <2>2, <2>3, NoRecordAssumption
<1>5. PICK d \in Loans :
        /\ AgreedDebt[d] = NoContract
        /\ AgreedDebt' = [AgreedDebt EXCEPT ![d] = DebtRecord(terms, h, "active")]
  BY DebtMade
<1>6. DebtRecord(terms, h, "active") =
        [lender |-> terms.lender, borrower |-> request[n].borrower, amount |-> request[n].amount,
         rate |-> terms.rate, need |-> n, history |-> h, state |-> "active"]
  BY DEF DebtRecord
<1>7. UNCHANGED AgreedHistory
  BY HistoriesKept
<1>8. \/ UNCHANGED AgreedCash
      \/ /\ AgreedCash[terms.lender] >= request[n].amount
         /\ AgreedCash' = Moved(AgreedCash, terms.lender, request[n].borrower, request[n].amount)
  OBVIOUS
<1>9. PICK root \in Profiles : root = h
  BY <1>3
<1> HIDE DEF h, n
<1>10. Agreement!Fund(terms.request, d, terms.lender, terms.rate, root)
  BY <1>2, <1>4, <1>5, <1>6, <1>7, <1>8, <1>9
  DEF n, Agreement!Fund, Agreement!IsOpenNeed, Agreement!Transfer, Moved,
      AgreedHistory, AgreedDebt, AgreedCash
<1>11. QED BY <1>1, <1>10 DEF n

LEMMA FundingSteps ==
  ASSUME RefinementInv, HistoriesTold, HistoriesTold',
         \/ \E o \in Offers, p \in Profiles : LoanOffer_Accept(o, p)
         \/ \E q \in Principals : LoanPrincipalRequest_CompleteFunding(q)
  PROVE  \E n \in Requests, d \in Loans, l \in Lenders, rate \in Rates, h \in Profiles :
           Agreement!Fund(n, d, l, rate, h)
<1>0. TypeOK
  BY DEF RefinementInv, CreditInv
<1>1. ASSUME NEW o \in Offers, NEW p \in Profiles, LoanOffer_Accept(o, p)
      PROVE  \E n \in Requests, d \in Loans, l \in Lenders, rate \in Rates, h \in Profiles :
               Agreement!Fund(n, d, l, rate, h)
  <2> DEFINE terms == AcceptedTerms(o, p)
  <2>1. offer[o] \in OfferContract
    BY <1>0, <1>1 DEF LoanOffer_Accept, IsOpen, Created, TypeOK
  <2>2. /\ terms \in LoanTerms /\ terms.profile = p /\ terms.request = offer[o].request
        /\ terms.borrower = offer[o].borrower /\ terms.amount = offer[o].amount
    BY <2>1 DEF AcceptedTerms, LoanTerms, OfferContract
  <2>3. /\ p \in Created(profile) /\ UNCHANGED profile /\ CreateLoan(terms)
        /\ IsOpen(request, offer[o].request)
        /\ request[offer[o].request].borrower = offer[o].borrower
        /\ request[offer[o].request].amount = offer[o].amount
        /\ request' = Archive(request, offer[o].request, "funded")
    BY <1>1 DEF LoanOffer_Accept, ProfileArgument, RequestAcceptsOffer
  <2>4. UNCHANGED AgreedCash
    BY <1>1 DEF LoanOffer_Accept, tokenVars, AgreedCash
  <2> HIDE DEF terms
  <2>5. QED BY <2>2, <2>3, <2>4, FundingStep
<1>2. ASSUME NEW q \in Principals, LoanPrincipalRequest_CompleteFunding(q)
      PROVE  \E n \in Requests, d \in Loans, l \in Lenders, rate \in Rates, h \in Profiles :
               Agreement!Fund(n, d, l, rate, h)
  <2> DEFINE key == <<"principal", q>>
  <2>1. q \in Created(principal) /\ principal[q] \in PrincipalContract
    BY <1>0, <1>2 DEF LoanPrincipalRequest_CompleteFunding, IsOpen, Created, TypeOK
  <2>2. /\ principal[q].terms \in LoanTerms
        /\ principal[q].terms.profile \in Created(profile)
    BY <2>1 DEF PrincipalContract, RefinementInv, CreditInv, ProfilesKnown
  <2>0. PICK terms \in LoanTerms : terms = principal[q].terms
    BY <2>2
  <2>3. request[terms.request].amount = terms.amount
    BY <2>1, <2>0 DEF RefinementInv, FundingInv, TermsHold, TermsAgreed
  <2>4. LegOf(key) = PrincipalLeg(q)
    BY DEF LegOf
  <2>5. LET leg == LegOf(key) IN
        /\ AgreedCash[leg.sender] >= leg.amount
        /\ AgreedCash' = Moved(AgreedCash, leg.sender, leg.receiver, leg.amount)
    <3>1. ExecuteTransfer(key, LegOf(key))
      BY <1>2, <2>4 DEF LoanPrincipalRequest_CompleteFunding
    <3>2. EscrowCovers
      BY DEF RefinementInv
    <3> HIDE DEF key
    <3>3. QED BY <1>0, <3>1, <3>2, CashMoved
  <2>6. /\ LegOf(key).sender = terms.lender /\ LegOf(key).receiver = terms.borrower
        /\ LegOf(key).amount = terms.amount
    BY <2>4, <2>0 DEF PrincipalLeg
  <2>7. /\ AgreedCash[terms.lender] >= terms.amount
        /\ AgreedCash' = Moved(AgreedCash, terms.lender, terms.borrower, terms.amount)
    <3> HIDE DEF key
    <3>1. QED BY <2>5, <2>6
  <2>8. /\ UNCHANGED profile /\ CreateLoan(terms) /\ IsOpen(request, terms.request)
        /\ request[terms.request].borrower = terms.borrower
        /\ request' = Archive(request, terms.request, "funded")
    BY <1>2, <2>0 DEF LoanPrincipalRequest_CompleteFunding, CreateLoan
  <2>9. QED BY <2>2, <2>0, <2>3, <2>7, <2>8, FundingStep
<1>3. QED BY <1>1, <1>2

\* A repayment settled is a payment of what its debt owes.
LEMMA PayingStep ==
  ASSUME RefinementInv, HistoriesTold, HistoriesTold',
         NEW q \in Repayments, LoanRepaymentRequest_CompleteRepayment(q)
  PROVE  \E d \in Loans : Agreement!Pay(d)
<1> DEFINE key == <<"repayment", q>>
<1>0. TypeOK /\ EscrowCovers
  BY DEF RefinementInv, CreditInv
<1>1. q \in Created(repayment)
  BY <1>0 DEF LoanRepaymentRequest_CompleteRepayment, IsOpen
<1>2. PICK ln \in Created(loan) :
        /\ repayment[q].lender = loan[ln].terms.lender
        /\ repayment[q].borrower = loan[ln].terms.borrower
        /\ repayment[q].amount = RepaymentAmount(ln)
  BY <1>1 DEF RefinementInv, RepaymentsOwed
<1>3. LegOf(key) = RepaymentLeg(q)
  BY DEF LegOf
<1>4. LET leg == LegOf(key) IN
      /\ AgreedCash[leg.sender] >= leg.amount
      /\ AgreedCash' = Moved(AgreedCash, leg.sender, leg.receiver, leg.amount)
  <2>1. ExecuteTransfer(key, LegOf(key))
    BY <1>3 DEF LoanRepaymentRequest_CompleteRepayment
  <2> HIDE DEF key
  <2>2. QED BY <1>0, <2>1, CashMoved
<1>5. /\ LegOf(key).sender = repayment[q].borrower /\ LegOf(key).receiver = repayment[q].lender
      /\ LegOf(key).amount = repayment[q].amount
  BY <1>3 DEF RepaymentLeg
<1>6. /\ ln \in Loans /\ AgreedDebt[ln] # NoContract
      /\ AgreedDebt[ln].lender = loan[ln].terms.lender
      /\ AgreedDebt[ln].borrower = loan[ln].terms.borrower
      /\ AgreedDebt[ln].amount = loan[ln].terms.amount
      /\ AgreedDebt[ln].rate = loan[ln].terms.rate
  <2>1. /\ ln \in Loans /\ AgreedDebt[ln] # NoContract
        /\ AgreedDebt[ln] = DebtRecord(loan[ln].terms, profile[loan[ln].terms.profile].root,
                                       loan[ln].state)
    BY DebtIs
  <2>2. QED BY <2>1 DEF DebtRecord
<1>7. UNCHANGED <<request, AgreedDebt, AgreedHistory>>
  <2>1. UNCHANGED <<request, loan, profile>>
    BY DEF LoanRepaymentRequest_CompleteRepayment, offerVars
  <2>2. RootsKept
    BY <2>1 DEF RootsKept
  <2>3. QED BY <2>1, <2>2, DebtsKept, HistoriesKept
<1> HIDE DEF key
<1>8. LET owed == AgreedDebt[ln].amount + (AgreedDebt[ln].amount * AgreedDebt[ln].rate) \div 100
      IN /\ AgreedCash[AgreedDebt[ln].borrower] >= owed
         /\ AgreedCash' = Moved(AgreedCash, AgreedDebt[ln].borrower, AgreedDebt[ln].lender, owed)
  BY <1>2, <1>4, <1>5, <1>6 DEF RepaymentAmount
<1>9. Agreement!Pay(ln)
  BY <1>6, <1>7, <1>8
  DEF Agreement!Pay, Agreement!Transfer, Moved, AgreedHistory, AgreedDebt, AgreedCash
<1>10. QED BY <1>6, <1>9

\* Closing a loan closes its debt and writes its one entry in the history.
LEMMA ClosingSteps ==
  ASSUME RefinementInv, HistoriesTold, HistoriesTold', NEW ln \in Loans
  PROVE  /\ Loan_RepayLoan(ln) => Agreement!Repay(ln)
         /\ Loan_MarkDefault(ln) => Agreement!Default(ln)
<1>0. TypeOK
  BY DEF RefinementInv, CreditInv
<1>1. ASSUME NEW how \in {"repaid", "defaulted"}, NEW credit \in CreditRecords,
             CloseLoan(ln, how, credit)
      PROVE  /\ AgreedDebt[ln] # NoContract
             /\ AgreedHistory[AgreedDebt[ln].history] = PinnedCredit(ln)
             /\ Agreement!Close(ln, how, credit)
  <2>1. /\ AgreedDebt[ln] # NoContract /\ AgreedDebt[ln].state = "active"
        /\ AgreedDebt' = [AgreedDebt EXCEPT ![ln].state = how]
        /\ AgreedHistory' = [AgreedHistory EXCEPT ![AgreedDebt[ln].history] = credit]
        /\ AgreedHistory[AgreedDebt[ln].history] = PinnedCredit(ln)
    BY <1>1, DebtClosed
  <2>2. UNCHANGED <<request, AgreedCash>>
    BY <1>1 DEF CloseLoan, offerVars, tokenVars, AgreedCash
  <2>3. Agreement!Close(ln, how, credit)
    BY <2>1, <2>2 DEF Agreement!Close, AgreedHistory, AgreedDebt, AgreedCash
  <2>4. QED BY <2>1, <2>3
<1>2. ASSUME Loan_RepayLoan(ln)
      PROVE  Agreement!Repay(ln)
  <2> DEFINE credit == RecordSuccessfulLoan(PinnedCredit(ln))
  <2>1. credit \in CreditRecords /\ CloseLoan(ln, "repaid", credit)
    BY <1>0, <1>2, ClosingCredit DEF Loan_RepayLoan, CloseLoan
  <2> HIDE DEF credit
  <2>2. /\ AgreedDebt[ln] # NoContract
        /\ AgreedHistory[AgreedDebt[ln].history] = PinnedCredit(ln)
        /\ Agreement!Close(ln, "repaid", credit)
    BY <1>1, <2>1
  <2>3. credit = Agreement!RecordSuccessfulLoan(AgreedHistory[AgreedDebt[ln].history])
    BY <2>2, SameCredit DEF credit
  <2>4. QED BY <2>2, <2>3 DEF Agreement!Repay, AgreedHistory, AgreedDebt
<1>3. ASSUME Loan_MarkDefault(ln)
      PROVE  Agreement!Default(ln)
  <2> DEFINE credit == RecordDefaultedLoan(PinnedCredit(ln))
  <2>1. credit \in CreditRecords /\ CloseLoan(ln, "defaulted", credit)
    BY <1>0, <1>3, ClosingCredit DEF Loan_MarkDefault, CloseLoan
  <2> HIDE DEF credit
  <2>2. /\ AgreedDebt[ln] # NoContract
        /\ AgreedHistory[AgreedDebt[ln].history] = PinnedCredit(ln)
        /\ Agreement!Close(ln, "defaulted", credit)
    BY <1>1, <2>1
  <2>3. credit = Agreement!RecordDefaultedLoan(AgreedHistory[AgreedDebt[ln].history])
    BY <2>2, SameCredit DEF credit
  <2>4. QED BY <2>2, <2>3 DEF Agreement!Default, AgreedHistory, AgreedDebt
<1>4. QED BY <1>2, <1>3

\* The steps the agreement does not see.
LEMMA HiddenSteps ==
  ASSUME RefinementInv, HistoriesTold, HistoriesTold',
         UNCHANGED <<request, profile, loan>>, UNCHANGED AgreedCash
  PROVE  UNCHANGED Agreement!Agreement
<1>1. RootsKept
  BY DEF RootsKept
<1>2. UNCHANGED <<request, AgreedDebt, AgreedCash, AgreedHistory>>
  BY <1>1, DebtsKept, HistoriesKept
<1>3. QED BY <1>2 DEF Agreement!Agreement, AgreedDebt, AgreedCash, AgreedHistory

LEMMA AgreementSteps ==
  RefinementInv /\ HistoriesTold /\ HistoriesTold' /\ [Next]_vars
    => [Agreement!Next]_(Agreement!Agreement)
<1> SUFFICES ASSUME RefinementInv, HistoriesTold, HistoriesTold', [Next]_vars
             PROVE  Agreement!Next \/ UNCHANGED Agreement!Agreement
  OBVIOUS
<1>1. CASE \E b \in Borrowers : CreateCreditProfile(b)
  BY <1>1, OpeningStep DEF Agreement!Next
<1>2. CASE \/ \E b \in Borrowers, a \in Amounts : CreateLoanRequest(b, a)
           \/ \E r \in Requests : LoanRequest_Withdraw(r)
  BY <1>2, AskingSteps DEF Agreement!Next
<1>3. CASE \/ \E o \in Offers, p \in Profiles : LoanOffer_Accept(o, p)
           \/ \E q \in Principals : LoanPrincipalRequest_CompleteFunding(q)
  BY <1>3, FundingSteps DEF Agreement!Next
<1>4. CASE \E q \in Repayments : LoanRepaymentRequest_CompleteRepayment(q)
  BY <1>4, PayingStep DEF Agreement!Next
<1>5. CASE \E ln \in Loans : Loan_RepayLoan(ln) \/ Loan_MarkDefault(ln)
  BY <1>5, ClosingSteps DEF Agreement!Next
<1>6. CASE \/ \E q \in Principals : AllocatePrincipal(q)
           \/ \E q \in Repayments : AllocateRepayment(q)
           \/ \E key \in allocated : Allocation_Withdraw(key)
  <2>1. UNCHANGED AgreedCash
    BY <1>6, CashKept DEF RefinementInv, CreditInv
  <2>2. UNCHANGED <<request, profile, loan>>
    BY <1>6 DEF AllocatePrincipal, AllocateRepayment, Allocate, Allocation_Withdraw,
                offerVars, servicingVars
  <2>3. QED BY <2>1, <2>2, HiddenSteps
<1>7. CASE \/ Tick
           \/ \E r \in Requests, l \in Lenders : LoanRequest_DiscloseToLender(r, l)
           \/ \E l \in Lenders, r \in Requests, a \in Amounts, rate \in Rates :
                CreateLoanOffer(l, r, a, rate)
           \/ \E o \in Offers, p \in Profiles, w \in Windows : LoanOffer_AcceptWithToken(o, p, w)
           \/ \E i \in Intents : FundingIntent_ConfirmByLender(i)
           \/ \E q \in Principals : DropPrincipalRequest(q)
           \/ \E ln \in Loans, w \in Windows : Loan_RequestRepayment(ln, w)
           \/ \E q \in Repayments : DropRepaymentRequest(q)
           \/ UNCHANGED vars
  <2>1. UNCHANGED <<request, profile, loan, wallet, escrow>>
    BY <1>7 DEF Tick, LoanRequest_DiscloseToLender, CreateLoanOffer, LoanOffer_AcceptWithToken,
                FundingIntent_ConfirmByLender, DropPrincipalRequest, Loan_RequestRepayment,
                DropRepaymentRequest, offerVars, servicingVars, tokenVars, vars
  <2>2. UNCHANGED AgreedCash
    BY <2>1 DEF AgreedCash
  <2>3. QED BY <2>1, <2>2, HiddenSteps
<1>8. QED
  BY <1>1, <1>2, <1>3, <1>4, <1>5, <1>6, <1>7
  DEF Next, Origination, TokenFunding, Servicing, Loan_CompleteRepaymentReceived

LEMMA AgreementInit == Init => Agreement!Init
<1> SUFFICES ASSUME Init PROVE Agreement!Init
  OBVIOUS
<1>1. [ln \in Loans |-> DebtOf(ln)] = [ln \in Loans |-> NoContract]
  BY DEF Init, DebtOf
<1>2. [p \in Parties |-> wallet[p] + escrow[p]] = [p \in Parties |-> Funds]
  BY LedgerAssumption DEF Init
<1>3. [root \in Profiles |-> HistoryOf(root)] = [root \in Profiles |-> NoContract]
  BY DEF Init, HistoryOf
<1>4. QED BY <1>1, <1>2, <1>3 DEF Agreement!Init, Init, Parties

\* The choices of the loan contracts, the wallets' moves between them and the clients'
\* stale arguments amount to the agreement: a need met at most once, on its own amount;
\* money moved only to make or pay a debt; one entry in a credit history per closed debt.
THEOREM LoansImplementAgreement == Spec => ImplementsAgreement
<1>1. Init => Agreement!Init
  BY AgreementInit
<1>2. RefinementInv => HistoriesTold
  BY HistoriesToldAlways
<1>3. RefinementInv /\ HistoriesTold /\ HistoriesTold' /\ [Next]_vars
        => [Agreement!Next]_(Agreement!Agreement)
  BY AgreementSteps
<1>4. QED
  BY <1>1, <1>2, <1>3, RefinementInvariant, PTL DEF Spec, ImplementsAgreement, Agreement!Spec

-----------------------------------------------------------------------------
(***************************************************************************)
(* Holdings.  A leg is settled or open for allocation, never both, and a   *)
(* settlement moves its amount once.                                       *)
(***************************************************************************)
SettlementsExplained ==
  /\ IsFiniteSet(SettledKeys)
  /\ SettledKeys \cap allocated = {}
  /\ \A p \in Parties :
       AgreedCash[p] = Funds + TotalReceived(SettledKeys, p) - TotalSent(SettledKeys, p)

HoldingsInv == RefinementInv /\ SettlementsExplained

SettledPrincipals == {q \in Created(principal) : principal[q].state = "settled"}
SettledRepayments == {q \in Created(repayment) : repayment[q].state = "settled"}

LEMMA SettledIs ==
  SettledKeys = ({"principal"} \X SettledPrincipals) \cup ({"repayment"} \X SettledRepayments)
<1>1. ASSUME NEW key
      PROVE  key \in SettledKeys <=>
               key \in ({"principal"} \X SettledPrincipals) \cup ({"repayment"} \X SettledRepayments)
  <2>1. CASE key \in {"principal"} \X Created(principal)
    <3>1. key[1] = "principal" /\ key[2] \in Created(principal) /\ key = <<"principal", key[2]>>
      BY <2>1
    <3> QED
      BY <2>1, <3>1 DEF SettledKeys, SettledPrincipals, SettledRepayments
  <2>2. CASE key \in {"repayment"} \X Created(repayment)
    <3>1. key[1] = "repayment" /\ key[2] \in Created(repayment) /\ key = <<"repayment", key[2]>>
      BY <2>2
    <3> QED
      BY <2>2, <3>1 DEF SettledKeys, SettledPrincipals, SettledRepayments
  <2>3. CASE key \notin ({"principal"} \X Created(principal)) \cup ({"repayment"} \X Created(repayment))
    BY <2>3 DEF SettledKeys, SettledPrincipals, SettledRepayments
  <2> QED
    BY <2>1, <2>2, <2>3
<1> QED
  BY <1>1

LEMMA SettledIsNext ==
  SettledKeys' = ({"principal"} \X SettledPrincipals') \cup ({"repayment"} \X SettledRepayments')
<1>1. (SettledKeys = ({"principal"} \X SettledPrincipals)
                       \cup ({"repayment"} \X SettledRepayments))'
  BY SettledIs, PTL
<1> QED
  BY <1>1

LEMMA SettledLegs ==
  ASSUME TypeOK, NEW key \in SettledKeys
  PROVE  /\ IsLeg(LegOf(key))
         /\ key \in ({"principal"} \X Created(principal)) \cup ({"repayment"} \X Created(repayment))
<1>1. key \in ({"principal"} \X Created(principal)) \cup ({"repayment"} \X Created(repayment))
  BY DEF SettledKeys
<1>2. IsLeg(LegOf(key))
  BY <1>1, LegTypes DEF IsLeg, LegOf, TypeOK, Created
<1> QED
  BY <1>1, <1>2

\* Only a completion settles a principal request.
LEMMA PrincipalsSettled ==
  ASSUME TypeOK, [Next]_vars
  PROVE  /\ \A q \in Principals : LoanPrincipalRequest_CompleteFunding(q)
                                  => SettledPrincipals' = SettledPrincipals \cup {q}
         /\ (\A q \in Principals : ~LoanPrincipalRequest_CompleteFunding(q))
              => UNCHANGED SettledPrincipals
<1>1. ASSUME UNCHANGED principal PROVE UNCHANGED SettledPrincipals
  BY <1>1 DEF SettledPrincipals, Created
<1>2. ASSUME NEW i \in Intents, FundingIntent_ConfirmByLender(i)
      PROVE  UNCHANGED SettledPrincipals
  <2>1. PICK q \in Fresh(principal) :
          principal' = [principal EXCEPT ![q] = [intent[i] EXCEPT !.state = "open"]]
    BY <1>2 DEF FundingIntent_ConfirmByLender
  <2>2. q \notin Created(principal) /\ q \in Principals /\ intent[i] \in IntentContract
    BY <1>2 DEF Fresh, Created, TypeOK, FundingIntent_ConfirmByLender, IsOpen
  <2>3. principal'[q].state = "open" /\ \A s \in Principals : s # q => principal'[s] = principal[s]
    BY <2>1, <2>2 DEF TypeOK, IntentContract
  <2> QED
    BY <2>1, <2>2, <2>3 DEF SettledPrincipals, Created, TypeOK
<1>3. ASSUME NEW q \in Principals, NEW how \in {"settled", "dropped"},
             IsOpen(principal, q), principal' = Archive(principal, q, how)
      PROVE  SettledPrincipals' = IF how = "settled" THEN SettledPrincipals \cup {q}
                                                     ELSE SettledPrincipals
  <2>1. principal[q] \in PrincipalContract /\ Created(principal') = Created(principal)
    BY <1>3, ArchivePrincipal DEF IsOpen, Created, TypeOK
  <2>2. principal'[q].state = how /\ \A s \in Principals : s # q => principal'[s] = principal[s]
    BY <1>3, <2>1 DEF Archive, TypeOK, PrincipalContract
  <2>3. q \in Created(principal) /\ principal[q].state = "open"
    BY <1>3 DEF IsOpen
  <2> QED
    BY <2>1, <2>2, <2>3 DEF SettledPrincipals, Created, TypeOK
<1>4. ASSUME NEW q \in Principals, LoanPrincipalRequest_CompleteFunding(q)
      PROVE  SettledPrincipals' = SettledPrincipals \cup {q}
  BY <1>3, <1>4 DEF LoanPrincipalRequest_CompleteFunding
<1>5. ASSUME NEW q \in Principals, DropPrincipalRequest(q)
      PROVE  UNCHANGED SettledPrincipals
  BY <1>3, <1>5 DEF DropPrincipalRequest
<1> QED
  BY <1>1, <1>2, <1>4, <1>5
  DEF Next, Origination, TokenFunding, Servicing, Loan_CompleteRepaymentReceived,
     Tick, CreateCreditProfile, CreateLoanRequest, LoanRequest_Withdraw,
     LoanRequest_DiscloseToLender, CreateLoanOffer, LoanOffer_Accept,
     LoanOffer_AcceptWithToken, Loan_RepayLoan, Loan_MarkDefault, CloseLoan,
     Loan_RequestRepayment, AllocateRepayment, AllocatePrincipal, Allocate,
     DropRepaymentRequest, LoanRepaymentRequest_CompleteRepayment, Allocation_Withdraw,
     fundingVars, vars

\* Only a completion settles a repayment request.
LEMMA RepaymentsSettled ==
  ASSUME TypeOK, [Next]_vars
  PROVE  /\ \A q \in Repayments : LoanRepaymentRequest_CompleteRepayment(q)
                                  => SettledRepayments' = SettledRepayments \cup {q}
         /\ (\A q \in Repayments : ~LoanRepaymentRequest_CompleteRepayment(q))
              => UNCHANGED SettledRepayments
<1>1. ASSUME UNCHANGED repayment PROVE UNCHANGED SettledRepayments
  BY <1>1 DEF SettledRepayments, Created
<1>2. ASSUME NEW ln \in Loans, NEW w \in Windows, Loan_RequestRepayment(ln, w)
      PROVE  UNCHANGED SettledRepayments
  <2>1. \E q \in Fresh(repayment) : /\ repayment'[q].state = "open"
                                    /\ \A s \in Repayments : s # q => repayment'[s] = repayment[s]
                                    /\ DOMAIN repayment' = Repayments
    BY <1>2 DEF Loan_RequestRepayment, Fresh, TypeOK
  <2> QED
    BY <2>1 DEF SettledRepayments, Fresh, Created, TypeOK
<1>3. ASSUME NEW q \in Repayments, NEW how \in {"settled", "dropped"},
             IsOpen(repayment, q), repayment' = Archive(repayment, q, how)
      PROVE  SettledRepayments' = IF how = "settled" THEN SettledRepayments \cup {q}
                                                     ELSE SettledRepayments
  <2>1. repayment[q] \in RepaymentContract /\ Created(repayment') = Created(repayment)
    BY <1>3, ArchiveRepayment DEF IsOpen, Created, TypeOK
  <2>2. repayment'[q].state = how /\ \A s \in Repayments : s # q => repayment'[s] = repayment[s]
    BY <1>3, <2>1 DEF Archive, TypeOK, RepaymentContract
  <2>3. q \in Created(repayment) /\ repayment[q].state = "open"
    BY <1>3 DEF IsOpen
  <2> QED
    BY <2>1, <2>2, <2>3 DEF SettledRepayments, Created, TypeOK
<1>4. ASSUME NEW q \in Repayments, LoanRepaymentRequest_CompleteRepayment(q)
      PROVE  SettledRepayments' = SettledRepayments \cup {q}
  BY <1>3, <1>4 DEF LoanRepaymentRequest_CompleteRepayment
<1>5. ASSUME NEW q \in Repayments, DropRepaymentRequest(q)
      PROVE  UNCHANGED SettledRepayments
  BY <1>3, <1>5 DEF DropRepaymentRequest
<1> QED
  BY <1>1, <1>2, <1>4, <1>5
  DEF Next, Origination, TokenFunding, Servicing, Loan_CompleteRepaymentReceived,
     Tick, CreateCreditProfile, CreateLoanRequest, LoanRequest_Withdraw,
     LoanRequest_DiscloseToLender, CreateLoanOffer, LoanOffer_Accept,
     LoanOffer_AcceptWithToken, FundingIntent_ConfirmByLender, DropPrincipalRequest,
     LoanPrincipalRequest_CompleteFunding, Loan_RepayLoan, Loan_MarkDefault, CloseLoan,
     AllocateRepayment, AllocatePrincipal, Allocate, Allocation_Withdraw,
     servicingVars, vars

\* A settlement adds its leg to the settled ones, and to what its parties have.
LEMMA SettlementAdded ==
  ASSUME HoldingsInv, [Next]_vars, NEW key \in allocated, ExecuteTransfer(key, LegOf(key)),
         SettledKeys' = SettledKeys \cup {key}
  PROVE  SettlementsExplained'
<1>0. TypeOK /\ EscrowCovers /\ SettlementsExplained
  BY DEF HoldingsInv, RefinementInv, CreditInv
<1>1. PICK old, new : old = SettledKeys /\ new = SettledKeys'
  OBVIOUS
<1>2. IsFiniteSet(old) /\ key \notin old /\ new = old \cup {key} /\ IsFiniteSet(new)
  BY <1>0, <1>1, FS_AddElement DEF SettlementsExplained
<1>3. IsLeg(LegOf(key))
  BY <1>0, LegOfType DEF IsLeg
<1>4. \A k \in new : IsLeg(LegOf(k))
  BY <1>0, <1>1, <1>2, <1>3, SettledLegs
<1>5. \A k \in new : LegOf(k)' = LegOf(k)
  <2>1. ContractsKept
    BY <1>0, KeptByNext
  <2>2. \A k \in allocated : LegOf(k)' = LegOf(k)
    BY <1>0, <2>1, LegsKept DEF TypeOK
  <2>3. \A k \in SettledKeys : LegOf(k)' = LegOf(k)
    BY <1>0, <2>1, LegsKept, SettledLegs
  <2> QED
    BY <1>1, <1>2, <2>2, <2>3
<1>6. PICK leg \in [sender : Parties, receiver : Parties, amount : Nat] : leg = LegOf(key)
  BY <1>3 DEF IsLeg
<1>7. AgreedCash' = Moved(AgreedCash, leg.sender, leg.receiver, leg.amount)
  BY <1>0, <1>6, CashMoved
<1>8. ASSUME NEW p \in Parties
      PROVE  AgreedCash'[p] = Funds + TotalReceived(SettledKeys, p)' - TotalSent(SettledKeys, p)'
  <2>1. /\ TotalSent(old, p) \in Nat /\ TotalReceived(old, p) \in Nat
        /\ TotalSent(new, p) = TotalSent(old, p) + (IF leg.sender = p THEN leg.amount ELSE 0)
        /\ TotalReceived(new, p) =
             TotalReceived(old, p) + (IF leg.receiver = p THEN leg.amount ELSE 0)
    BY <1>2, <1>4, <1>6, TotalWith
  <2>2. TotalSent(new, p)' = TotalSent(new, p) /\ TotalReceived(new, p)' = TotalReceived(new, p)
    BY <1>5, TotalsKept
  <2>3. /\ TotalSent(SettledKeys, p)' = TotalSent(new, p)'
        /\ TotalReceived(SettledKeys, p)' = TotalReceived(new, p)'
    BY <1>1 DEF TotalSent, TotalReceived
  <2>4. AgreedCash[p] = Funds + TotalReceived(old, p) - TotalSent(old, p)
    BY <1>0, <1>1 DEF SettlementsExplained
  <2>5. AgreedCash'[p] = AgreedCash[p] + (IF p = leg.receiver THEN leg.amount ELSE 0)
                                       - (IF p = leg.sender THEN leg.amount ELSE 0)
    BY <1>7 DEF Moved, AgreedCash
  <2> QED
    BY <2>1, <2>2, <2>3, <2>4, <2>5, LedgerAssumption
<1>9. SettledKeys' \cap allocated' = {}
  BY <1>0 DEF ExecuteTransfer, SettlementsExplained
<1> QED
  BY <1>1, <1>2, <1>8, <1>9 DEF SettlementsExplained

\* Nothing is settled, and no settled leg is allocated.
LEMMA SettlementsKept ==
  ASSUME HoldingsInv, [Next]_vars, UNCHANGED <<SettledKeys, AgreedCash>>,
         SettledKeys \cap allocated' = {}
  PROVE  SettlementsExplained'
<1>0. TypeOK /\ SettlementsExplained
  BY DEF HoldingsInv, RefinementInv, CreditInv
<1>1. PICK old : old = SettledKeys
  OBVIOUS
<1>2. \A k \in old : LegOf(k)' = LegOf(k)
  BY <1>0, <1>1, KeptByNext, LegsKept, SettledLegs
<1>3. ASSUME NEW p \in Parties
      PROVE  AgreedCash'[p] = Funds + TotalReceived(SettledKeys, p)' - TotalSent(SettledKeys, p)'
  <2>1. TotalSent(old, p)' = TotalSent(old, p) /\ TotalReceived(old, p)' = TotalReceived(old, p)
    BY <1>2, TotalsKept
  <2>2. /\ TotalSent(SettledKeys, p)' = TotalSent(old, p)'
        /\ TotalReceived(SettledKeys, p)' = TotalReceived(old, p)'
    BY <1>1 DEF TotalSent, TotalReceived
  <2>3. AgreedCash[p] = Funds + TotalReceived(old, p) - TotalSent(old, p)
    BY <1>0, <1>1 DEF SettlementsExplained
  <2> QED
    BY <2>1, <2>2, <2>3
<1> QED
  BY <1>0, <1>3 DEF SettlementsExplained

LEMMA HoldingsNext == HoldingsInv /\ [Next]_vars => SettlementsExplained'
<1> SUFFICES ASSUME HoldingsInv, [Next]_vars PROVE SettlementsExplained'
  OBVIOUS
<1>0. TypeOK /\ SettlementsExplained
  BY DEF HoldingsInv, RefinementInv, CreditInv
<1>1. ASSUME NEW q \in Principals, LoanPrincipalRequest_CompleteFunding(q),
             SettledPrincipals' = SettledPrincipals \cup {q}
      PROVE  SettlementsExplained'
  <2>1. UNCHANGED SettledRepayments
    BY <1>1 DEF LoanPrincipalRequest_CompleteFunding, SettledRepayments, Created
  <2>2. PICK key : key = <<"principal", q>>
    OBVIOUS
  <2>3. SettledKeys' = SettledKeys \cup {key}
    BY <1>1, <2>1, <2>2, SettledIs, SettledIsNext
  <2>4. key \in allocated /\ ExecuteTransfer(key, LegOf(key))
    BY <1>1, <2>2 DEF LoanPrincipalRequest_CompleteFunding, ExecuteTransfer, LegOf
  <2> QED
    BY <2>3, <2>4, SettlementAdded
<1>2. ASSUME NEW q \in Repayments, LoanRepaymentRequest_CompleteRepayment(q),
             SettledRepayments' = SettledRepayments \cup {q}
      PROVE  SettlementsExplained'
  <2>1. UNCHANGED SettledPrincipals
    BY <1>2 DEF LoanRepaymentRequest_CompleteRepayment, SettledPrincipals, fundingVars, Created
  <2>2. PICK key : key = <<"repayment", q>>
    OBVIOUS
  <2>3. SettledKeys' = SettledKeys \cup {key}
    BY <1>2, <2>1, <2>2, SettledIs, SettledIsNext
  <2>4. key \in allocated /\ ExecuteTransfer(key, LegOf(key))
    BY <1>2, <2>2 DEF LoanRepaymentRequest_CompleteRepayment, ExecuteTransfer, LegOf
  <2> QED
    BY <2>3, <2>4, SettlementAdded
<1>3. ASSUME UNCHANGED SettledPrincipals, UNCHANGED SettledRepayments
      PROVE  UNCHANGED SettledKeys
  BY <1>3, SettledIs, SettledIsNext
<1>4. ASSUME NEW q \in Principals, AllocatePrincipal(q)
      PROVE  SettlementsExplained'
  <2>1. UNCHANGED <<SettledPrincipals, SettledRepayments>>
    BY <1>4 DEF AllocatePrincipal, Allocate, SettledPrincipals, SettledRepayments, Created,
                fundingVars, servicingVars
  <2>2. PICK key : key = <<"principal", q>>
    OBVIOUS
  <2>3. key \notin SettledKeys /\ allocated' = allocated \cup {key}
    BY <1>4, <2>2, SettledIs DEF AllocatePrincipal, Allocate, IsOpen, SettledPrincipals
  <2>4. SettledKeys \cap allocated' = {}
    BY <1>0, <2>3 DEF SettlementsExplained
  <2> QED
    BY <1>0, <1>3, <1>4, <2>1, <2>4, CashKept, SettlementsKept
<1>5. ASSUME NEW q \in Repayments, AllocateRepayment(q)
      PROVE  SettlementsExplained'
  <2>1. UNCHANGED <<SettledPrincipals, SettledRepayments>>
    BY <1>5 DEF AllocateRepayment, Allocate, SettledPrincipals, SettledRepayments, Created,
                fundingVars, servicingVars
  <2>2. PICK key : key = <<"repayment", q>>
    OBVIOUS
  <2>3. key \notin SettledKeys /\ allocated' = allocated \cup {key}
    BY <1>5, <2>2, SettledIs DEF AllocateRepayment, Allocate, IsOpen, SettledRepayments
  <2>4. SettledKeys \cap allocated' = {}
    BY <1>0, <2>3 DEF SettlementsExplained
  <2> QED
    BY <1>0, <1>3, <1>5, <2>1, <2>4, CashKept, SettlementsKept
<1>6. ASSUME NEW key \in allocated, Allocation_Withdraw(key)
      PROVE  SettlementsExplained'
  <2>1. UNCHANGED <<SettledPrincipals, SettledRepayments>>
    BY <1>6 DEF Allocation_Withdraw, SettledPrincipals, SettledRepayments, Created,
                fundingVars, servicingVars
  <2>2. SettledKeys \cap allocated' = {}
    BY <1>0, <1>6 DEF Allocation_Withdraw, SettlementsExplained
  <2> QED
    BY <1>0, <1>3, <1>6, <2>1, <2>2, CashKept, SettlementsKept
<1>7. ASSUME UNCHANGED tokenVars, UNCHANGED SettledPrincipals, UNCHANGED SettledRepayments
      PROVE  SettlementsExplained'
  <2>1. UNCHANGED AgreedCash /\ SettledKeys \cap allocated' = {}
    BY <1>0, <1>7 DEF tokenVars, AgreedCash, SettlementsExplained
  <2> QED
    BY <1>3, <1>7, <2>1, SettlementsKept
<1>8. \/ UNCHANGED tokenVars
      \/ \E q \in Principals : AllocatePrincipal(q) \/ LoanPrincipalRequest_CompleteFunding(q)
      \/ \E q \in Repayments : AllocateRepayment(q) \/ LoanRepaymentRequest_CompleteRepayment(q)
      \/ \E key \in allocated : Allocation_Withdraw(key)
  BY DEF Next, Origination, TokenFunding, Servicing, Loan_CompleteRepaymentReceived,
     Tick, CreateCreditProfile, CreateLoanRequest, LoanRequest_Withdraw,
     LoanRequest_DiscloseToLender, CreateLoanOffer, LoanOffer_Accept,
     LoanOffer_AcceptWithToken, FundingIntent_ConfirmByLender, DropPrincipalRequest,
     Loan_RepayLoan, Loan_MarkDefault, CloseLoan, Loan_RequestRepayment,
     DropRepaymentRequest, tokenVars, vars
<1>9. ASSUME NEW q \in Principals, LoanPrincipalRequest_CompleteFunding(q)
      PROVE  SettledPrincipals' = SettledPrincipals \cup {q}
  BY <1>0, <1>9, PrincipalsSettled
<1>10. ASSUME NEW q \in Repayments, LoanRepaymentRequest_CompleteRepayment(q)
       PROVE  SettledRepayments' = SettledRepayments \cup {q}
  BY <1>0, <1>10, RepaymentsSettled
<1>11. CASE UNCHANGED tokenVars
  <2>1. UNCHANGED SettledPrincipals /\ UNCHANGED SettledRepayments
    <3>1. /\ \A q \in Principals : ~LoanPrincipalRequest_CompleteFunding(q)
          /\ \A q \in Repayments : ~LoanRepaymentRequest_CompleteRepayment(q)
      BY <1>11 DEF LoanPrincipalRequest_CompleteFunding, LoanRepaymentRequest_CompleteRepayment,
                   ExecuteTransfer, tokenVars
    <3> QED
      BY <1>0, <3>1, PrincipalsSettled, RepaymentsSettled
  <2> QED
    BY <1>7, <1>11, <2>1
<1> QED
  BY <1>1, <1>2, <1>4, <1>5, <1>6, <1>8, <1>9, <1>10, <1>11

LEMMA HoldingsInit == Init => HoldingsInv
<1> SUFFICES ASSUME Init PROVE HoldingsInv
  OBVIOUS
<1>1. SettledKeys = {} /\ allocated = {}
  BY DEF Init, SettledKeys, Created
<1>2. ASSUME NEW p
      PROVE  TotalSent(SettledKeys, p) = 0 /\ TotalReceived(SettledKeys, p) = 0
  <2>1. /\ DOMAIN [k \in {k \in SettledKeys : LegOf(k).sender = p} |-> LegOf(k).amount] = {}
        /\ DOMAIN [k \in {k \in SettledKeys : LegOf(k).receiver = p} |-> LegOf(k).amount] = {}
    BY <1>1
  <2> QED
    BY <2>1, SumEmpty DEF TotalSent, TotalReceived, SumFunction
<1>3. \A p \in Parties : AgreedCash[p] = Funds
  BY LedgerAssumption DEF Init, AgreedCash
<1>4. \A p \in Parties :
        AgreedCash[p] = Funds + TotalReceived(SettledKeys, p) - TotalSent(SettledKeys, p)
  BY <1>2, <1>3, LedgerAssumption
<1> QED
  BY <1>1, <1>4, FS_EmptySet, RefinementInit DEF HoldingsInv, SettlementsExplained

LEMMA HoldingsInvariant == Spec => []HoldingsInv
<1>1. HoldingsInv /\ [Next]_vars => HoldingsInv'
  BY RefinementNext, HoldingsNext DEF HoldingsInv
<1> QED
  BY <1>1, HoldingsInit, PTL DEF Spec

\* What the allocations lock is what is in escrow, no leg is settled twice or settled
\* and still allocated, and every holding is explained by the legs that
\* Allocation_ExecuteTransfer settled: no token is lost or made.
THEOREM HoldingsAlwaysExplained == Spec => []HoldingsExplained
<1>1. HoldingsInv => HoldingsExplained
  BY DEF HoldingsInv, RefinementInv, EscrowCovers, SettlementsExplained, HoldingsExplained,
         AgreedCash
<1> QED
  BY <1>1, HoldingsInvariant, PTL

-----------------------------------------------------------------------------
(***************************************************************************)
(* The screens of LoanDesk: they offer what can be done next, and what a   *)
(* fresh one offers is refused for no reason of its own.  Of the contracts *)
(* this needs two facts more: an offer names its request's borrower, and a *)
(* profile contract is archived only by a loan that closed through it.     *)
(***************************************************************************)

OffersFit ==
  \A o \in Created(offer) : /\ offer[o].request \in Created(request)
                            /\ request[offer[o].request].borrower = offer[o].borrower

SpentProfilesClosed ==
  \A c \in Created(profile) : profile[c].state = "archived" =>
    \E ln \in Created(loan) : loan[ln].terms.profile = c /\ loan[ln].state # "active"

DeskInv == /\ FundingInv
           /\ CreditInv
           /\ OffersFit
           /\ SpentProfilesClosed

-----------------------------------------------------------------------------
(* Offers and their requests *)

\* No step undoes a request.
LEMMA RequestsKeptByNext ==
  ASSUME TypeOK, [Next]_vars
  PROVE  RequestsKept
<1>1. ASSUME NEW b \in Borrowers, NEW a \in Amounts, CreateLoanRequest(b, a)
      PROVE  RequestsKept
  BY <1>1 DEF CreateLoanRequest, Fresh, RequestsKept, Created, TypeOK
<1>2. ASSUME NEW r \in Requests, LoanRequest_Withdraw(r)
      PROVE  RequestsKept
  BY <1>2, RequestArchived DEF LoanRequest_Withdraw
<1>3. ASSUME NEW o \in Offers, NEW p \in Profiles, LoanOffer_Accept(o, p)
      PROVE  RequestsKept
  <2>1. offer[o].request \in Requests
    BY <1>3 DEF LoanOffer_Accept, IsOpen, Created, TypeOK, OfferContract
  <2>2. QED BY <1>3, <2>1, RequestArchived DEF LoanOffer_Accept, RequestAcceptsOffer
<1>4. ASSUME NEW q \in Principals, LoanPrincipalRequest_CompleteFunding(q)
      PROVE  RequestsKept
  <2>1. principal[q].terms.request \in Requests
    BY <1>4 DEF LoanPrincipalRequest_CompleteFunding, IsOpen, Created, TypeOK,
                PrincipalContract, LoanTerms
  <2>2. QED BY <1>4, <2>1, RequestArchived DEF LoanPrincipalRequest_CompleteFunding
<1>5. ASSUME UNCHANGED request
      PROVE  RequestsKept
  BY <1>5 DEF RequestsKept
<1>6. QED
  BY <1>1, <1>2, <1>3, <1>4, <1>5
  DEF Next, Origination, TokenFunding, Servicing, Loan_CompleteRepaymentReceived,
     Tick, CreateCreditProfile, LoanRequest_DiscloseToLender, CreateLoanOffer,
     LoanOffer_AcceptWithToken, FundingIntent_ConfirmByLender, DropPrincipalRequest,
     Loan_RepayLoan, Loan_MarkDefault, CloseLoan, Loan_RequestRepayment,
     AllocateRepayment, AllocatePrincipal, Allocate, DropRepaymentRequest,
     LoanRepaymentRequest_CompleteRepayment, Allocation_Withdraw, offerVars, vars

\* What an offer is after a step: as it was but for its state, or new and made on a
\* request that was disclosed to its lender or open.
OfferIsOld(o) == /\ o \in Created(offer)
                 /\ offer'[o].lender = offer[o].lender
                 /\ offer'[o].borrower = offer[o].borrower
                 /\ offer'[o].request = offer[o].request

OfferIsMade(o) ==
  LET r == offer'[o].request IN
  /\ offer'[o].borrower = request[r].borrower
  /\ <<r, offer'[o].lender>> \in disclosed \/ IsOpen(request, r)

LEMMA OffersAfter ==
  ASSUME TypeOK, [Next]_vars
  PROVE  \A o \in Created(offer') :
           OfferIsOld(o) \/ (o \notin Created(offer) /\ OfferIsMade(o))
<1> DEFINE After == \A o \in Created(offer') :
                      OfferIsOld(o) \/ (o \notin Created(offer) /\ OfferIsMade(o))
<1>1. ASSUME NEW l \in Lenders, NEW r \in Requests, NEW a \in Amounts, NEW rate \in Rates,
             CreateLoanOffer(l, r, a, rate)
      PROVE  After
  <2>1. PICK o \in Offers :
          /\ offer[o] = NoContract
          /\ offer' = [offer EXCEPT ![o] =
                         [lender |-> l, borrower |-> request[r].borrower, amount |-> a,
                          rate |-> rate, request |-> r, state |-> "open"]]
    BY <1>1 DEF CreateLoanOffer, Fresh, TypeOK
  <2>2. OfferIsMade(o) /\ o \notin Created(offer)
    BY <1>1, <2>1 DEF CreateLoanOffer, OfferIsMade, Created, TypeOK
  <2>3. \A x \in Created(offer') \ {o} : OfferIsOld(x)
    BY <2>1 DEF OfferIsOld, Created, TypeOK
  <2>4. QED BY <2>2, <2>3
<1>2. ASSUME NEW o \in Offers, IsOpen(offer, o), offer' = Archive(offer, o, "accepted")
      PROVE  After
  <2>1. offer[o] \in OfferContract /\ o \in Created(offer)
    BY <1>2 DEF IsOpen, Created, TypeOK
  <2>2. offer' = [offer EXCEPT ![o] = [offer[o] EXCEPT !.state = "accepted"]]
    BY <1>2, <2>1 DEF Archive, TypeOK
  <2>3. QED BY <2>1, <2>2 DEF OfferIsOld, Created, OfferContract, TypeOK
<1>3. ASSUME UNCHANGED offer
      PROVE  After
  BY <1>3 DEF OfferIsOld
<1> HIDE DEF After
<1>4. After
  BY <1>1, <1>2, <1>3
  DEF Next, Origination, TokenFunding, Servicing, Loan_CompleteRepaymentReceived,
     Tick, CreateCreditProfile, CreateLoanRequest, LoanRequest_Withdraw,
     LoanRequest_DiscloseToLender, LoanOffer_Accept, LoanOffer_AcceptWithToken,
     FundingIntent_ConfirmByLender, DropPrincipalRequest, LoanPrincipalRequest_CompleteFunding,
     Loan_RepayLoan, Loan_MarkDefault, CloseLoan, Loan_RequestRepayment,
     AllocateRepayment, AllocatePrincipal, Allocate, DropRepaymentRequest,
     LoanRepaymentRequest_CompleteRepayment, Allocation_Withdraw, offerVars, vars
<1>5. QED BY <1>4 DEF After

LEMMA OffersStayFit ==
  ASSUME TypeOK, OffersFit, [Next]_vars
  PROVE  OffersFit'
<1>1. RequestsKept
  BY RequestsKeptByNext
<1>2. \A d \in disclosed : d[1] \in Created(request)
  BY DEF TypeOK
<1>3. ASSUME NEW o \in Created(offer')
      PROVE  /\ offer'[o].request \in Created(request)
             /\ offer'[o].borrower = request[offer'[o].request].borrower
  <2>1. CASE OfferIsOld(o)
    BY <2>1 DEF OfferIsOld, OffersFit
  <2>2. CASE OfferIsMade(o)
    <3>1. <<offer'[o].request, offer'[o].lender>> \in disclosed
            => offer'[o].request \in Created(request)
      BY DEF TypeOK
    <3>2. QED BY <2>2, <3>1 DEF OfferIsMade, IsOpen
  <2>3. QED BY <1>3, <2>1, <2>2, OffersAfter
<1>4. QED BY <1>1, <1>3 DEF OffersFit, RequestsKept

-----------------------------------------------------------------------------
(* Profiles and the loans that closed through them *)

\* No loan is forgotten or reopened.
ClosuresKept ==
  \A ln \in Created(loan) : /\ ln \in Created(loan')
                            /\ loan'[ln].terms = loan[ln].terms
                            /\ loan[ln].state # "active" => loan'[ln].state # "active"

LEMMA ClosuresKeptByNext ==
  ASSUME TypeOK, [Next]_vars
  PROVE  ClosuresKept
<1>1. ASSUME NEW terms, CreateLoan(terms)
      PROVE  ClosuresKept
  BY <1>1 DEF CreateLoan, Fresh, ClosuresKept, Created, TypeOK
<1>2. ASSUME NEW ln \in Loans, NEW how \in {"repaid", "defaulted"}, NEW credit,
             CloseLoan(ln, how, credit)
      PROVE  ClosuresKept
  <2>1. loan[ln] \in LoanContract
        /\ loan' = [loan EXCEPT ![ln] = [loan[ln] EXCEPT !.state = how]]
    BY <1>2 DEF CloseLoan, IsActiveLoan, Archive, Created, TypeOK
  <2>2. [loan[ln] EXCEPT !.state = how] \in LoanContract
    BY <2>1 DEF LoanContract
  <2>3. QED BY <2>1, <2>2, NoContractAssumption DEF ClosuresKept, LoanContract, Created, TypeOK
<1>3. ASSUME UNCHANGED loan
      PROVE  ClosuresKept
  BY <1>3 DEF ClosuresKept
<1>4. QED
  BY <1>1, <1>2, <1>3
  DEF Next, Origination, TokenFunding, Servicing, Loan_CompleteRepaymentReceived,
     Tick, CreateCreditProfile, CreateLoanRequest, LoanRequest_Withdraw,
     LoanRequest_DiscloseToLender, CreateLoanOffer, LoanOffer_Accept,
     LoanOffer_AcceptWithToken, FundingIntent_ConfirmByLender, DropPrincipalRequest,
     LoanPrincipalRequest_CompleteFunding, Loan_RepayLoan, Loan_MarkDefault,
     Loan_RequestRepayment, AllocateRepayment, AllocatePrincipal, Allocate,
     DropRepaymentRequest, LoanRepaymentRequest_CompleteRepayment, Allocation_Withdraw,
     servicingVars, vars

\* A step archives a profile contract by closing a loan through it.
ArchivedByLoan(c) ==
  \E ln \in Created(loan') : loan'[ln].terms.profile = c /\ loan'[ln].state # "active"

LEMMA ProfilesArchived ==
  ASSUME TypeOK, [Next]_vars
  PROVE  \A c \in Created(profile') : profile'[c].state = "archived" =>
           \/ c \in Created(profile) /\ profile[c].state = "archived"
           \/ ArchivedByLoan(c)
<1> DEFINE After == \A c \in Created(profile') : profile'[c].state = "archived" =>
                      \/ c \in Created(profile) /\ profile[c].state = "archived"
                      \/ ArchivedByLoan(c)
<1>1. ASSUME NEW b \in Borrowers, CreateCreditProfile(b)
      PROVE  After
  BY <1>1 DEF CreateCreditProfile, Fresh, Created, TypeOK
<1>2. ASSUME NEW ln \in Loans, NEW how \in {"repaid", "defaulted"}, NEW credit,
             CloseLoan(ln, how, credit)
      PROVE  After
  <2>1. PICK p \in Profiles :
          /\ p = loan[ln].terms.profile /\ profile[p] \in ProfileContract
          /\ p \in Created(profile) /\ profile[p].state = "active"
          /\ ReplaceProfile(p, credit)
    BY <1>2 DEF CloseLoan, IsActiveProfile, Created, TypeOK
  <2>2. PICK next \in Profiles :
          /\ profile[next] = NoContract
          /\ profile' = [profile EXCEPT ![p].state = "archived",
                                        ![next] = [profile[p] EXCEPT !.credit = credit]]
    BY <2>1 DEF ReplaceProfile, Fresh, TypeOK
  <2>3. /\ profile'[next].state = "active"
        /\ \A c \in Profiles \ {p, next} : profile'[c] = profile[c]
    BY <2>1, <2>2 DEF TypeOK, ProfileContract
  <2>4. loan[ln] \in LoanContract
        /\ loan' = [loan EXCEPT ![ln] = [loan[ln] EXCEPT !.state = how]]
    BY <1>2 DEF CloseLoan, IsActiveLoan, Archive, Created, TypeOK
  <2>5. [loan[ln] EXCEPT !.state = how] \in LoanContract
    BY <2>4 DEF LoanContract
  <2>6. /\ ln \in Created(loan') /\ loan'[ln].terms.profile = p
        /\ loan'[ln].state # "active"
    BY <2>1, <2>4, <2>5, NoContractAssumption DEF LoanContract, Created, TypeOK
  <2>7. ArchivedByLoan(p)
    BY <2>6 DEF ArchivedByLoan
  <2>8. Created(profile') \subseteq Profiles
    BY <2>2 DEF Created, TypeOK
  <2>9. QED BY <2>3, <2>7, <2>8 DEF Created, TypeOK
<1>3. ASSUME UNCHANGED profile
      PROVE  After
  BY <1>3
<1> HIDE DEF After
<1>4. After
  BY <1>1, <1>2, <1>3
  DEF Next, Origination, TokenFunding, Servicing, Loan_CompleteRepaymentReceived,
     Tick, CreateLoanRequest, LoanRequest_Withdraw,
     LoanRequest_DiscloseToLender, CreateLoanOffer, LoanOffer_Accept,
     LoanOffer_AcceptWithToken, FundingIntent_ConfirmByLender, DropPrincipalRequest,
     LoanPrincipalRequest_CompleteFunding, Loan_RepayLoan, Loan_MarkDefault,
     Loan_RequestRepayment, AllocateRepayment, AllocatePrincipal, Allocate,
     DropRepaymentRequest, LoanRepaymentRequest_CompleteRepayment, Allocation_Withdraw,
     servicingVars, vars
<1>5. QED BY <1>4 DEF After

LEMMA SpentProfilesStayClosed ==
  ASSUME TypeOK, SpentProfilesClosed, [Next]_vars
  PROVE  SpentProfilesClosed'
<1>1. ClosuresKept
  BY ClosuresKeptByNext
<1>2. ASSUME NEW c \in Created(profile'), profile'[c].state = "archived"
      PROVE  ArchivedByLoan(c)
  <2>1. CASE c \in Created(profile) /\ profile[c].state = "archived"
    <3>1. PICK ln \in Created(loan) :
            loan[ln].terms.profile = c /\ loan[ln].state # "active"
      BY <2>1 DEF SpentProfilesClosed
    <3>2. QED BY <1>1, <3>1 DEF ClosuresKept, ArchivedByLoan
  <2>2. QED BY <1>2, <2>1, ProfilesArchived
<1>3. QED BY <1>2 DEF SpentProfilesClosed, ArchivedByLoan

LEMMA DeskInit == Init => DeskInv
<1> SUFFICES ASSUME Init PROVE DeskInv
  OBVIOUS
<1>1. Created(offer) = {} /\ Created(profile) = {}
  BY DEF Init, Created
<1>2. QED BY <1>1, FundingInit, CreditInit DEF DeskInv, OffersFit, SpentProfilesClosed

LEMMA DeskNext == DeskInv /\ [Next]_vars => DeskInv'
BY FundingNext, CreditNext, OffersStayFit, SpentProfilesStayClosed DEF DeskInv, FundingInv

LEMMA DeskInvariant == Spec => []DeskInv
BY DeskInit, DeskNext, PTL DEF Spec

-----------------------------------------------------------------------------
(* What the screens offer is done or explained *)

\* A request that is not open was withdrawn or became a loan.
LEMMA ClosedRequestTaken ==
  ASSUME DeskInv, NEW r \in Created(request), ~IsOpen(request, r)
  PROVE  RequestTaken(r)
<1>1. request[r] \in RequestContract
  BY DEF DeskInv, FundingInv, TypeOK, Created
<1>2. request[r].state = "funded" => \E ln \in Created(loan) : loan[ln].terms.request = r
  BY DEF DeskInv, FundingInv, EachRequestFundedOnce
<1>3. QED BY <1>1, <1>2 DEF RequestTaken, RequestContract, IsOpen

Explained(p, c) == Commits(p, c) \/ Reason(p, c)

\* The borrower's screen, section by section.
LEMMA WithdrawExplained ==
  ASSUME DeskInv, NEW p, NEW c \in MyLoanRequests(p)
  PROVE  Explained(p, c)
<1>1. PICK row \in ListLoanRequests(p) : /\ c = <<"withdraw", row[1]>>
                                         /\ request[row[1]].borrower = p
  BY DEF MyLoanRequests
<1>2. row[1] \in Created(request)
  BY <1>1 DEF ListLoanRequests, DisclosedTo, DeskInv, FundingInv, TypeOK
<1>3. IsOpen(request, row[1]) \/ RequestTaken(row[1])
  BY <1>2, ClosedRequestTaken
<1>4. QED BY <1>1, <1>3 DEF Explained, Commits, Reason, Alone

\* An offer is listed to its borrower, who may accept it, and to its lender, who may not.
LEMMA AcceptExplained ==
  ASSUME DeskInv, NEW p, NEW hasWallet \in BOOLEAN, NEW c \in PendingOffers(p, hasWallet)
  PROVE  Explained(p, c)
<1>1. PICK o \in ListLoanOffers(p), how \in {"accept", "acceptWithToken"} : c = <<how, o>>
  BY DEF PendingOffers
<1>2. /\ o \in Created(offer) /\ IsOpen(offer, o)
      /\ p = offer[o].borrower \/ (p = offer[o].lender /\ p # offer[o].borrower)
  BY <1>1 DEF ListLoanOffers
<1>3. /\ offer[o].request \in Created(request)
      /\ request[offer[o].request].borrower = offer[o].borrower
  BY <1>2 DEF DeskInv, OffersFit
<1>4. \/ RequestAcceptsOffer(o)
      \/ RequestTaken(offer[o].request)
      \/ offer[o].amount # request[offer[o].request].amount
  BY <1>3, ClosedRequestTaken DEF RequestAcceptsOffer
<1>5. QED BY <1>1, <1>2, <1>4 DEF Explained, Commits, Reason, MayAccept

\* A profile that is no longer active was spent by another loan, for this one is open.
LEMMA SpentByAnother ==
  ASSUME DeskInv, NEW ln, IsActiveLoan(ln), ~IsActiveProfile(loan[ln].terms.profile)
  PROVE  ProfileSpent(ln)
<1>1. ln \in Created(loan) /\ loan[ln].state = "active"
  BY DEF IsActiveLoan
<1>2. loan[ln].terms.profile \in Created(profile)
  BY <1>1 DEF DeskInv, CreditInv, ProfilesKnown
<1>3. profile[loan[ln].terms.profile].state = "archived"
  BY <1>2 DEF IsActiveProfile, DeskInv, FundingInv, TypeOK, Created, ProfileContract
<1>4. PICK other \in Created(loan) :
        loan[other].terms.profile = loan[ln].terms.profile /\ loan[other].state # "active"
  BY <1>2, <1>3 DEF DeskInv, SpentProfilesClosed
<1>5. QED BY <1>1, <1>4 DEF ProfileSpent, IsActiveLoan

LEMMA ServicingExplained ==
  ASSUME DeskInv, NEW p, NEW hasWallet \in BOOLEAN,
         NEW c \in ActiveLoans(p, hasWallet) \cup FundedLoans(p)
  PROVE  Explained(p, c)
<1>1. PICK ln \in ListLoans(p) :
        \/ /\ c = <<"requestRepayment", ln>> \/ c = <<"repay", ln>>
           /\ loan[ln].terms.borrower = p
        \/ c = <<"default", ln>> /\ loan[ln].terms.lender = p
  BY DEF ActiveLoans, FundedLoans
<1>2. IsActiveLoan(ln)
  BY <1>1 DEF ListLoans
<1>3. IsActiveProfile(loan[ln].terms.profile) \/ ProfileSpent(ln)
  BY <1>2, SpentByAnother
<1>4. CASE c = <<"requestRepayment", ln>> /\ loan[ln].terms.borrower = p
  BY <1>2, <1>4 DEF Explained, Commits, Alone
<1>5. CASE c = <<"repay", ln>> /\ loan[ln].terms.borrower = p
  BY <1>2, <1>3, <1>5 DEF Explained, Commits, Reason, Alone
<1>6. CASE c = <<"default", ln>> /\ loan[ln].terms.lender = p
  <2>1. Alone(p, BothParties(ln)) \/ p # loan[ln].terms.borrower
    BY <1>6 DEF Alone, BothParties
  <2>2. QED BY <1>2, <1>3, <1>6, <2>1 DEF Explained, Commits, Reason
<1>7. QED BY <1>1, <1>4, <1>5, <1>6

LEMMA RepaymentExplained ==
  ASSUME DeskInv, RepaymentsOwed, NEW p, NEW hasWallet \in BOOLEAN,
         NEW c \in PendingRepayments(p, hasWallet) \cup RepaymentActions(p)
  PROVE  Explained(p, c)
<1>1. PICK q \in ListRepaymentRequests(p) :
        \/ c = <<"allocateRepayment", q>> /\ repayment[q].borrower = p
        \/ c = <<"completeRepayment", q>> /\ repayment[q].lender = p
  BY DEF PendingRepayments, RepaymentActions
<1>2. IsOpen(repayment, q) /\ repayment[q] \in RepaymentContract
  BY <1>1 DEF ListRepaymentRequests, IsOpen, DeskInv, FundingInv, TypeOK, Created
<1>3. CASE c = <<"allocateRepayment", q>> /\ repayment[q].borrower = p
  BY <1>2, <1>3 DEF Explained, Commits, Reason, Alone
<1>4. CASE c = <<"completeRepayment", q>> /\ repayment[q].lender = p
  <2> DEFINE ln == repayment[q].loan
  <2>1. now < repayment[q].settleBefore \/ now >= repayment[q].settleBefore
    BY <1>2 DEF RepaymentContract, DeskInv, FundingInv, TypeOK
  <2>2. IsActiveLoan(ln) => IsActiveProfile(loan[ln].terms.profile) \/ ProfileSpent(ln)
    BY SpentByAnother
  <2>3. BothParties(ln) = {repayment[q].lender, repayment[q].borrower}
    BY <1>2 DEF RepaymentsOwed, BothParties, IsOpen
  <2>4. \/ Alone(p, BothParties(ln)) /\ Alone(p, {repayment[q].lender})
        \/ p # repayment[q].borrower
    BY <1>4, <2>3 DEF Alone
  <2>5. QED BY <1>2, <1>4, <2>1, <2>2, <2>4 DEF Explained, Commits, Reason
<1>5. QED BY <1>1, <1>3, <1>4

\* The lender's screen.
LEMMA FundingExplained ==
  ASSUME DeskInv, NEW p, NEW hasWallet \in BOOLEAN,
         NEW c \in OpenLoanRequests(p) \cup FundingToConfirm(p)
                     \cup PrincipalActions(p, hasWallet)
  PROVE  Explained(p, c)
<1>1. CASE c \in OpenLoanRequests(p)
  <2>1. PICK row \in ListLoanRequests(p) : c = <<"offer", row[1]>>
    BY <1>1 DEF OpenLoanRequests
  <2>2. QED BY <2>1 DEF Explained, Commits
<1>2. CASE c \in FundingToConfirm(p)
  <2>1. PICK i \in ListFundingIntents(p) : c = <<"confirm", i>> /\ intent[i].terms.lender = p
    BY <1>2 DEF FundingToConfirm
  <2>2. QED BY <2>1 DEF ListFundingIntents, Explained, Commits, Alone
<1>3. CASE c \in PrincipalActions(p, hasWallet)
  <2>1. PICK q \in ListPrincipalRequests(p) :
          /\ principal[q].terms.lender = p
          /\ \/ c = <<"completeFunding", q>>
             \/ /\ c = <<"allocatePrincipal", q>>
                /\ ~ShownAllocation(p, <<"principal", q>>)
    BY <1>3 DEF PrincipalActions
  <2>2. /\ q \in Created(principal) /\ IsOpen(principal, q)
        /\ principal[q] \in PrincipalContract
    BY <2>1 DEF ListPrincipalRequests, DeskInv, FundingInv, TypeOK, Created
  <2>3. /\ principal[q].terms.request \in Created(request)
        /\ request[principal[q].terms.request].borrower = principal[q].terms.borrower
    BY <2>2 DEF DeskInv, FundingInv, TermsHold, TermsAgreed
  <2>4. IsOpen(request, principal[q].terms.request) \/ RequestTaken(principal[q].terms.request)
    BY <2>3, ClosedRequestTaken
  <2>5. now < principal[q].settleBefore \/ now >= principal[q].settleBefore
    BY <2>2 DEF PrincipalContract, DeskInv, FundingInv, TypeOK
  <2>6. CASE c = <<"completeFunding", q>>
    <3>1. \/ Alone(p, {principal[q].terms.lender, principal[q].terms.borrower})
          \/ p # principal[q].terms.borrower
      BY <2>1 DEF Alone
    <3>2. QED BY <2>2, <2>3, <2>4, <2>5, <2>6, <3>1 DEF Explained, Commits, Reason
  <2>7. CASE c = <<"allocatePrincipal", q>> /\ ~ShownAllocation(p, <<"principal", q>>)
    BY <2>1, <2>2, <2>7 DEF ShownAllocation, Explained, Commits, Reason, Alone
  <2>8. QED BY <2>1, <2>6, <2>7
<1>4. QED BY <1>1, <1>2, <1>3

\* A command of a fresh screen is refused, or done by half, only for a reason named in
\* LoanDesk: a request taken, an amount the lender changed, an allocation missing or made,
\* a deadline, a profile another loan has used up, a loan closed under its repayment
\* request, one's own offer, or a party the caller alone does not submit for.
THEOREM RefusalsAlwaysExplained == Spec => []RefusalsExplained
<1>1. DeskInv /\ RepaymentsOwed => RefusalsExplained
  <2> SUFFICES ASSUME DeskInv, RepaymentsOwed, NEW p \in Parties, NEW hasWallet \in BOOLEAN,
                      NEW c \in Offered(p, hasWallet)
               PROVE  Explained(p, c)
    BY DEF RefusalsExplained, Explained
  <2>1. QED
    BY WithdrawExplained, AcceptExplained, ServicingExplained, RepaymentExplained,
       FundingExplained DEF Offered, BorrowerScreen, LenderScreen
<1>2. RefinementInv => RepaymentsOwed
  BY DEF RefinementInv
<1>3. QED BY <1>1, <1>2, DeskInvariant, RefinementInvariant, PTL

-----------------------------------------------------------------------------
(* What was done was offered *)

OfferedTo(p, what, on) == \E hasWallet \in BOOLEAN : <<what, on>> \in Offered(p, hasWallet)

Answered(step) ==
  \/ \E hasWallet \in BOOLEAN : <<step[2], step[3]>> \in Offered(step[1], hasWallet)
  \/ step[2] = "offer" /\ HiddenByTerms(step[1], step[3])
  \/ step[2] = "offer" /\ request[step[3]].borrower = step[1]
  \/ step[2] \in {"accept", "acceptWithToken"} /\ ~HasProfile(step[1])

\* An intent is made by accepting an open offer, a repayment request on an active loan.
LEMMA IntentMade ==
  ASSUME TypeOK, Next, NEW i \in Made(intent)
  PROVE  \E o \in Offers : /\ IsOpen(offer, o) /\ intent'[i].terms.offer = o
                           /\ intent'[i].terms.borrower = offer[o].borrower
<1> DEFINE Goal == \E o \in Offers : /\ IsOpen(offer, o) /\ intent'[i].terms.offer = o
                                     /\ intent'[i].terms.borrower = offer[o].borrower
<1>1. ASSUME NEW o \in Offers, NEW p \in Profiles, NEW w \in Windows,
             LoanOffer_AcceptWithToken(o, p, w)
      PROVE  Goal
  <2>1. PICK j \in Intents :
          intent' = [intent EXCEPT ![j] = [terms |-> AcceptedTerms(o, p), prepareUntil |-> w[1],
                                           settleBefore |-> w[2], state |-> "open"]]
    BY <1>1 DEF LoanOffer_AcceptWithToken, Fresh, TypeOK
  <2>2. i = j /\ intent'[j].terms = AcceptedTerms(o, p)
    BY <2>1 DEF Made, Created, TypeOK
  <2>3. QED BY <1>1, <2>2 DEF LoanOffer_AcceptWithToken, AcceptedTerms
<1>2. ASSUME NEW j \in Intents, FundingIntent_ConfirmByLender(j)
      PROVE  Goal
  BY <1>2 DEF FundingIntent_ConfirmByLender, Archive, IsOpen, Made, Created, TypeOK
<1>3. ASSUME UNCHANGED intent
      PROVE  Goal
  BY <1>3 DEF Made
<1> HIDE DEF Goal
<1>4. Goal
  BY <1>1, <1>2, <1>3
  DEF Next, Origination, TokenFunding, Servicing, Loan_CompleteRepaymentReceived,
     Tick, CreateCreditProfile, CreateLoanRequest, LoanRequest_Withdraw,
     LoanRequest_DiscloseToLender, CreateLoanOffer, LoanOffer_Accept,
     DropPrincipalRequest, LoanPrincipalRequest_CompleteFunding, Loan_RepayLoan,
     Loan_MarkDefault, CloseLoan, Loan_RequestRepayment,
     AllocateRepayment, AllocatePrincipal, Allocate, DropRepaymentRequest,
     LoanRepaymentRequest_CompleteRepayment, Allocation_Withdraw, fundingVars
<1>5. QED BY <1>4 DEF Goal

\* A loan whose offer was open until then is made by accepting that offer directly: a
\* principal request was made from an offer accepted before.
LEMMA LoanMade ==
  ASSUME TypeOK, TermsHold, Next, NEW ln \in Made(loan), IsOpen(offer, loan'[ln].terms.offer)
  PROVE  loan'[ln].terms.borrower = offer[loan'[ln].terms.offer].borrower
<1> DEFINE Goal == loan'[ln].terms.borrower = offer[loan'[ln].terms.offer].borrower
<1>1. ASSUME NEW terms, CreateLoan(terms)
      PROVE  loan'[ln].terms = terms
  BY <1>1 DEF CreateLoan, Fresh, Made, Created, TypeOK
<1>2. ASSUME NEW o \in Offers, NEW p \in Profiles, LoanOffer_Accept(o, p)
      PROVE  Goal
  BY <1>1, <1>2 DEF LoanOffer_Accept, AcceptedTerms
<1>3. ASSUME NEW q \in Principals, LoanPrincipalRequest_CompleteFunding(q)
      PROVE  Goal
  <2>1. loan'[ln].terms = principal[q].terms /\ q \in Created(principal)
    BY <1>1, <1>3 DEF LoanPrincipalRequest_CompleteFunding, IsOpen
  <2>2. QED BY <2>1 DEF TermsHold, TermsAgreed
<1>4. ASSUME NEW l \in Loans, NEW how, IsActiveLoan(l), loan' = Archive(loan, l, how)
      PROVE  Goal
  BY <1>4 DEF Archive, IsActiveLoan, Made, Created, TypeOK
<1>5. ASSUME UNCHANGED loan
      PROVE  Goal
  BY <1>5 DEF Made
<1> HIDE DEF Goal
<1>6. Goal
  BY <1>2, <1>3, <1>4, <1>5
  DEF Next, Origination, TokenFunding, Servicing, Loan_CompleteRepaymentReceived,
     Tick, CreateCreditProfile, CreateLoanRequest, LoanRequest_Withdraw,
     LoanRequest_DiscloseToLender, CreateLoanOffer, LoanOffer_AcceptWithToken,
     FundingIntent_ConfirmByLender, DropPrincipalRequest, Loan_RepayLoan,
     Loan_MarkDefault, CloseLoan, Loan_RequestRepayment,
     AllocateRepayment, AllocatePrincipal, Allocate, DropRepaymentRequest,
     LoanRepaymentRequest_CompleteRepayment, Allocation_Withdraw, servicingVars
<1>7. QED BY <1>6 DEF Goal

LEMMA RepaymentMade ==
  ASSUME TypeOK, Next, NEW q \in Made(repayment)
  PROVE  \E ln \in Loans : /\ IsActiveLoan(ln) /\ repayment'[q].loan = ln
                           /\ repayment'[q].borrower = loan[ln].terms.borrower
<1> DEFINE Goal == \E ln \in Loans : /\ IsActiveLoan(ln) /\ repayment'[q].loan = ln
                                     /\ repayment'[q].borrower = loan[ln].terms.borrower
<1>1. ASSUME NEW ln \in Loans, NEW w \in Windows, Loan_RequestRepayment(ln, w)
      PROVE  Goal
  <2>1. PICK s \in Repayments :
          repayment' = [repayment EXCEPT ![s] =
            [lender |-> loan[ln].terms.lender, borrower |-> loan[ln].terms.borrower,
             amount |-> RepaymentAmount(ln), prepareUntil |-> w[1], settleBefore |-> w[2],
             loan |-> ln, state |-> "open"]]
    BY <1>1 DEF Loan_RequestRepayment, Fresh, TypeOK
  <2>2. /\ q = s /\ repayment'[s].loan = ln
        /\ repayment'[s].borrower = loan[ln].terms.borrower
    BY <2>1 DEF Made, Created, TypeOK
  <2>3. QED BY <1>1, <2>2 DEF Loan_RequestRepayment
<1>2. ASSUME NEW s \in Repayments, NEW how, IsOpen(repayment, s),
             repayment' = Archive(repayment, s, how)
      PROVE  Goal
  BY <1>2 DEF Archive, IsOpen, Made, Created, TypeOK
<1>3. ASSUME UNCHANGED repayment
      PROVE  Goal
  BY <1>3 DEF Made
<1> HIDE DEF Goal
<1>4. Goal
  BY <1>1, <1>2, <1>3
  DEF Next, Origination, TokenFunding, Servicing, Loan_CompleteRepaymentReceived,
     Tick, CreateCreditProfile, CreateLoanRequest, LoanRequest_Withdraw,
     LoanRequest_DiscloseToLender, CreateLoanOffer, LoanOffer_Accept,
     LoanOffer_AcceptWithToken, FundingIntent_ConfirmByLender,
     DropPrincipalRequest, LoanPrincipalRequest_CompleteFunding, Loan_RepayLoan,
     Loan_MarkDefault, CloseLoan, AllocateRepayment, AllocatePrincipal, Allocate,
     DropRepaymentRequest, LoanRepaymentRequest_CompleteRepayment, Allocation_Withdraw,
     servicingVars
<1>5. QED BY <1>4 DEF Goal

\* The choices that consume what a screen lists.
LEMMA ConsumedOffered ==
  ASSUME TypeOK
  PROVE  /\ \A r \in Requests : IsOpen(request, r) =>
              OfferedTo(request[r].borrower, "withdraw", r)
         /\ \A i \in Intents : IsOpen(intent, i) =>
              OfferedTo(intent[i].terms.lender, "confirm", i)
         /\ \A q \in Principals : IsOpen(principal, q) =>
              OfferedTo(principal[q].terms.lender, "completeFunding", q)
         /\ \A ln \in Loans : IsActiveLoan(ln) =>
              /\ OfferedTo(loan[ln].terms.lender, "default", ln)
              /\ OfferedTo(loan[ln].terms.borrower, "requestRepayment", ln)
              /\ OfferedTo(loan[ln].terms.borrower, "repay", ln)
         /\ \A q \in Repayments : IsOpen(repayment, q) =>
              OfferedTo(repayment[q].lender, "completeRepayment", q)
<1>1. ASSUME NEW r \in Requests, IsOpen(request, r)
      PROVE  OfferedTo(request[r].borrower, "withdraw", r)
  <2> DEFINE p == request[r].borrower
  <2>1. <<r, NoContract>> \in ListLoanRequests(p)
    BY <1>1 DEF ListLoanRequests, IsOpen
  <2>2. <<"withdraw", r>> \in MyLoanRequests(p)
    BY <2>1 DEF MyLoanRequests
  <2>3. QED BY <2>2 DEF OfferedTo, Offered, BorrowerScreen
<1>2. ASSUME NEW i \in Intents, IsOpen(intent, i)
      PROVE  OfferedTo(intent[i].terms.lender, "confirm", i)
  <2>1. <<"confirm", i>> \in FundingToConfirm(intent[i].terms.lender)
    BY <1>2 DEF FundingToConfirm, ListFundingIntents, IsOpen
  <2>2. QED BY <2>1 DEF OfferedTo, Offered, LenderScreen
<1>3. ASSUME NEW q \in Principals, IsOpen(principal, q)
      PROVE  OfferedTo(principal[q].terms.lender, "completeFunding", q)
  <2>1. <<"completeFunding", q>> \in PrincipalActions(principal[q].terms.lender, TRUE)
    BY <1>3 DEF PrincipalActions, ListPrincipalRequests, IsOpen
  <2>2. QED BY <2>1 DEF OfferedTo, Offered, LenderScreen
<1>4. ASSUME NEW ln \in Loans, IsActiveLoan(ln)
      PROVE  /\ OfferedTo(loan[ln].terms.lender, "default", ln)
             /\ OfferedTo(loan[ln].terms.borrower, "requestRepayment", ln)
             /\ OfferedTo(loan[ln].terms.borrower, "repay", ln)
  <2>1. <<"default", ln>> \in FundedLoans(loan[ln].terms.lender)
    BY <1>4 DEF FundedLoans, ListLoans, IsActiveLoan
  <2>2. <<"requestRepayment", ln>> \in ActiveLoans(loan[ln].terms.borrower, TRUE)
    BY <1>4 DEF ActiveLoans, ListLoans, IsActiveLoan
  <2>3. <<"repay", ln>> \in ActiveLoans(loan[ln].terms.borrower, FALSE)
    BY <1>4 DEF ActiveLoans, ListLoans, IsActiveLoan
  <2>4. QED BY <2>1, <2>2, <2>3 DEF OfferedTo, Offered, LenderScreen, BorrowerScreen
<1>5. ASSUME NEW q \in Repayments, IsOpen(repayment, q)
      PROVE  OfferedTo(repayment[q].lender, "completeRepayment", q)
  <2>1. <<"completeRepayment", q>> \in RepaymentActions(repayment[q].lender)
    BY <1>5 DEF RepaymentActions, ListRepaymentRequests, IsOpen
  <2>2. QED BY <2>1 DEF OfferedTo, Offered, LenderScreen
<1>6. QED BY <1>1, <1>2, <1>3, <1>4, <1>5

\* An offer is made on a request disclosed to the lender or open.
LEMMA OfferAnswered ==
  ASSUME TypeOK, NEW r, NEW l, <<r, l>> \in disclosed \/ IsOpen(request, r)
  PROVE  \/ OfferedTo(l, "offer", r)
         \/ HiddenByTerms(l, r)
         \/ request[r].borrower = l
<1> SUFFICES ASSUME ~HiddenByTerms(l, r), request[r].borrower # l
             PROVE  OfferedTo(l, "offer", r)
  OBVIOUS
<1>1. r \in DisclosedTo(l)
  <2>1. CASE <<r, l>> \in disclosed
    BY <2>1 DEF DisclosedTo, TypeOK
  <2>2. CASE <<r, l>> \notin disclosed
    BY <2>2 DEF DisclosedTo, HiddenByTerms, SameTerms, IsOpen
  <2>3. QED BY <2>1, <2>2
<1>2. <<r, l>> \in ListLoanRequests(l)
  BY <1>1 DEF ListLoanRequests
<1>3. <<"offer", r>> \in OpenLoanRequests(l)
  BY <1>2 DEF OpenLoanRequests
<1>4. QED BY <1>3 DEF OfferedTo, Offered, LenderScreen

LEMMA AcceptAnswered ==
  ASSUME NEW o, IsOpen(offer, o), HasProfile(offer[o].borrower)
  PROVE  /\ OfferedTo(offer[o].borrower, "accept", o)
         /\ OfferedTo(offer[o].borrower, "acceptWithToken", o)
<1>1. o \in ListLoanOffers(offer[o].borrower)
  BY DEF ListLoanOffers, IsOpen
<1>2. /\ <<"accept", o>> \in PendingOffers(offer[o].borrower, FALSE)
      /\ <<"acceptWithToken", o>> \in PendingOffers(offer[o].borrower, TRUE)
  BY <1>1 DEF PendingOffers
<1>3. QED BY <1>2 DEF OfferedTo, Offered, BorrowerScreen

LEMMA StepAnswered ==
  ASSUME TypeOK, TermsHold, Next, NEW step \in Done
  PROVE  Answered(step)
<1>1. ASSUME NEW o \in Made(offer), step = <<offer'[o].lender, "offer", offer'[o].request>>
      PROVE  Answered(step)
  <2>1. \/ <<offer'[o].request, offer'[o].lender>> \in disclosed
        \/ IsOpen(request, offer'[o].request)
    BY <1>1, OffersAfter DEF Made, OfferIsOld, OfferIsMade
  <2>2. QED BY <1>1, <2>1, OfferAnswered DEF Answered, OfferedTo
<1>2. ASSUME NEW i \in Made(intent),
             step = <<intent'[i].terms.borrower, "acceptWithToken", intent'[i].terms.offer>>
      PROVE  Answered(step)
  BY <1>2, IntentMade, AcceptAnswered DEF Answered, OfferedTo
<1>3. ASSUME NEW q \in Made(repayment),
             step = <<repayment'[q].borrower, "requestRepayment", repayment'[q].loan>>
      PROVE  Answered(step)
  BY <1>3, RepaymentMade, ConsumedOffered DEF Answered, OfferedTo
<1>4. ASSUME \/ \E r \in Requests : /\ IsOpen(request, r)
                                    /\ step = <<request[r].borrower, "withdraw", r>>
             \/ \E i \in Intents : /\ IsOpen(intent, i)
                                    /\ step = <<intent[i].terms.lender, "confirm", i>>
             \/ \E q \in Principals :
                  /\ IsOpen(principal, q)
                  /\ step = <<principal[q].terms.lender, "completeFunding", q>>
             \/ \E ln \in Loans : /\ IsActiveLoan(ln)
                                   /\ \/ step = <<loan[ln].terms.lender, "default", ln>>
                                      \/ step = <<loan[ln].terms.borrower, "repay", ln>>
             \/ \E q \in Repayments :
                  /\ IsOpen(repayment, q)
                  /\ step = <<repayment[q].lender, "completeRepayment", q>>
      PROVE  Answered(step)
  <2>1. \E p, what, on : OfferedTo(p, what, on) /\ step = <<p, what, on>>
    BY <1>4, ConsumedOffered
  <2>2. QED BY <2>1 DEF Answered, OfferedTo
<1>5. \/ \E o \in Made(offer) : step = <<offer'[o].lender, "offer", offer'[o].request>>
      \/ \E i \in Made(intent) :
           step = <<intent'[i].terms.borrower, "acceptWithToken", intent'[i].terms.offer>>
      \/ \E q \in Made(repayment) :
           step = <<repayment'[q].borrower, "requestRepayment", repayment'[q].loan>>
      \/ \E r \in Requests : Turned(request, r, "withdrawn")
                              /\ step = <<request[r].borrower, "withdraw", r>>
      \/ \E i \in Intents : Turned(intent, i, "confirmed")
                             /\ step = <<intent[i].terms.lender, "confirm", i>>
      \/ \E q \in Principals : Turned(principal, q, "settled")
                                /\ step = <<principal[q].terms.lender, "completeFunding", q>>
      \/ \E ln \in Loans : /\ IsActiveLoan(ln)
                            /\ \/ step = <<loan[ln].terms.lender, "default", ln>>
                               \/ step = <<loan[ln].terms.borrower, "repay", ln>>
      \/ \E ln \in Made(loan) :
           /\ IsOpen(offer, loan'[ln].terms.offer)
           /\ step = <<loan'[ln].terms.borrower, "accept", loan'[ln].terms.offer>>
      \/ \E q \in Repayments : Turned(repayment, q, "settled")
                                /\ step = <<repayment[q].lender, "completeRepayment", q>>
  BY DEF Done
<1>6. ASSUME NEW ln \in Made(loan), IsOpen(offer, loan'[ln].terms.offer),
             step = <<loan'[ln].terms.borrower, "accept", loan'[ln].terms.offer>>
      PROVE  Answered(step)
  BY <1>6, LoanMade, AcceptAnswered DEF Answered, OfferedTo
<1>7. QED BY <1>1, <1>2, <1>3, <1>4, <1>5, <1>6 DEF Turned

\* Whatever the contracts let a party do next, a fresh screen of that party offers it,
\* but for what SameTerms hides, one's own request, and a profile that is spent.
THEOREM WorkAlwaysOffered == Spec => WorkIsOffered
<1>1. TypeOK /\ TermsHold /\ [Next]_vars => [\A step \in Done : Answered(step)]_vars
  BY StepAnswered
<1>2. [\A step \in Done : Answered(step)]_vars
        => [\A step \in Done :
             \/ \E hasWallet \in BOOLEAN : <<step[2], step[3]>> \in Offered(step[1], hasWallet)
             \/ step[2] = "offer" /\ HiddenByTerms(step[1], step[3])
             \/ step[2] = "offer" /\ request[step[3]].borrower = step[1]
             \/ step[2] \in {"accept", "acceptWithToken"} /\ ~HasProfile(step[1])]_vars
  BY DEF Answered
<1>3. DeskInv => TypeOK /\ TermsHold
  BY DEF DeskInv, FundingInv
<1>4. QED BY <1>1, <1>2, <1>3, DeskInvariant, PTL DEF Spec, WorkIsOffered
=============================================================================
