--------------------------- MODULE CreditProfile ---------------------------
(***************************************************************************)
(* The borrower's credit profile: the record a CreditProfile contract      *)
(* holds and the two choices that replace it                               *)
(* (Loan/CreditProfile.daml).  Both choices are consuming: the contract is *)
(* archived and a new one, with a new contract id, carries the updated     *)
(* counters.  This module holds the pure part, what the new record         *)
(* contains; LoanLedger decides which contract id it lands on.             *)
(***************************************************************************)
EXTENDS Integers

initialCreditScore     == 600
successRepayScoreDelta == 10
defaultScoreDelta      == -50
minCreditScore         == 300
maxCreditScore         == 850

CreditScores == minCreditScore .. maxCreditScore

AtMost(bound, n)  == IF n > bound THEN bound ELSE n
AtLeast(bound, n) == IF n < bound THEN bound ELSE n

(***************************************************************************)
(* The counters of a profile; createdAt is never read and is left out.     *)
(***************************************************************************)
CreditRecords == [creditScore     : CreditScores,
                  totalLoans      : Nat,
                  successfulLoans : Nat,
                  defaultedLoans  : Nat]

\* Bug: the positional arguments are one place off.
NewCredit_Shifted == [creditScore     |-> 0,
                      totalLoans      |-> initialCreditScore,
                      successfulLoans |-> 0,
                      defaultedLoans  |-> 0]

\* What getCreditProfile submits for a borrower that has none.
NewCredit == [creditScore     |-> initialCreditScore,
              totalLoans      |-> 0,
              successfulLoans |-> 0,
              defaultedLoans  |-> 0]

RecordSuccessfulLoan(c) ==
  [creditScore     |-> AtMost(maxCreditScore, c.creditScore + successRepayScoreDelta),
   totalLoans      |-> c.totalLoans + 1,
   successfulLoans |-> c.successfulLoans + 1,
   defaultedLoans  |-> c.defaultedLoans]

\* Bug: the sign of the delta is lost, and so is the lower bound.
RecordDefaultedLoan_Raises(c) ==
  [creditScore     |-> AtMost(maxCreditScore, c.creditScore - defaultScoreDelta),
   totalLoans      |-> c.totalLoans + 1,
   successfulLoans |-> c.successfulLoans,
   defaultedLoans  |-> c.defaultedLoans + 1]

RecordDefaultedLoan(c) ==
  [creditScore     |-> AtLeast(minCreditScore, c.creditScore + defaultScoreDelta),
   totalLoans      |-> c.totalLoans + 1,
   successfulLoans |-> c.successfulLoans,
   defaultedLoans  |-> c.defaultedLoans + 1]

(***************************************************************************)
(* The score is accounted for by the history: a record never scores more   *)
(* than its repayments earned nor less than its defaults cost, whatever    *)
(* clamping happened on the way.                                           *)
(***************************************************************************)
ScoreAccounted(c) ==
  /\ c.creditScore \in CreditScores
  /\ c.totalLoans = c.successfulLoans + c.defaultedLoans
  /\ c.creditScore <= initialCreditScore + successRepayScoreDelta * c.successfulLoans
  /\ c.creditScore >= initialCreditScore + defaultScoreDelta * c.defaultedLoans
=============================================================================
