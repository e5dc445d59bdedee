--------------------------- MODULE LoanAgreement ----------------------------
(***************************************************************************)
(* What the loan contracts promise their parties, without offers, intents, *)
(* allocation requests or contract ids of profiles: a need is met at most  *)
(* once and only by a debt on its own amount, money changes hands only     *)
(* when a debt is made or as a payment of a debt, and a credit history     *)
(* moves only when a debt is closed, one entry per debt.                   *)
(***************************************************************************)
EXTENDS CreditProfile

CONSTANTS Lenders, Borrowers, Amounts, Rates, Funds, Needs, Debts, Histories, Nothing

VARIABLES need, debt, cash, history

Agreement == <<need, debt, cash, history>>

Init ==
  /\ need    = [n \in Needs |-> Nothing]
  /\ debt    = [d \in Debts |-> Nothing]
  /\ cash    = [p \in Lenders \cup Borrowers |-> Funds]
  /\ history = [h \in Histories |-> Nothing]

OpenHistory(h) ==
  /\ history[h] = Nothing
  /\ history' = [history EXCEPT ![h] = NewCredit]
  /\ UNCHANGED <<need, debt, cash>>

Ask(n, b, a) ==
  /\ need[n] = Nothing
  /\ need' = [need EXCEPT ![n] = [borrower |-> b, amount |-> a, state |-> "open"]]
  /\ UNCHANGED <<debt, cash, history>>

IsOpenNeed(n) == need[n] # Nothing /\ need[n].state = "open"

GiveUp(n) ==
  /\ IsOpenNeed(n)
  /\ need' = [need EXCEPT ![n].state = "withdrawn"]
  /\ UNCHANGED <<debt, cash, history>>

Transfer(from, to, amount) ==
  /\ cash[from] >= amount
  /\ cash' = [p \in DOMAIN cash |-> cash[p] + (IF p = to THEN amount ELSE 0)
                                            - (IF p = from THEN amount ELSE 0)]

\* A lender meets a need, in tokens or by an arrangement outside the ledger.
Fund(n, d, l, rate, h) ==
  /\ IsOpenNeed(n)
  /\ debt[d] = Nothing
  /\ history[h] # Nothing
  /\ need' = [need EXCEPT ![n].state = "funded"]
  /\ debt' = [debt EXCEPT ![d] = [lender |-> l, borrower |-> need[n].borrower,
                                  amount |-> need[n].amount, rate |-> rate,
                                  need |-> n, history |-> h, state |-> "active"]]
  /\ Transfer(l, need[n].borrower, need[n].amount) \/ UNCHANGED cash
  /\ UNCHANGED history

Pay(d) ==
  /\ debt[d] # Nothing
  /\ Transfer(debt[d].borrower, debt[d].lender,
              debt[d].amount + (debt[d].amount * debt[d].rate) \div 100)
  /\ UNCHANGED <<need, debt, history>>

Close(d, how, credit) ==
  /\ debt[d].state = "active"
  /\ debt' = [debt EXCEPT ![d].state = how]
  /\ history' = [history EXCEPT ![debt[d].history] = credit]
  /\ UNCHANGED <<need, cash>>

Repay(d) ==
  debt[d] # Nothing /\ Close(d, "repaid", RecordSuccessfulLoan(history[debt[d].history]))

Default(d) ==
  debt[d] # Nothing /\ Close(d, "defaulted", RecordDefaultedLoan(history[debt[d].history]))

Next ==
  \/ \E h \in Histories : OpenHistory(h)
  \/ \E n \in Needs, b \in Borrowers, a \in Amounts : Ask(n, b, a)
  \/ \E n \in Needs : GiveUp(n)
  \/ \E n \in Needs, d \in Debts, l \in Lenders, rate \in Rates, h \in Histories :
       Fund(n, d, l, rate, h)
  \/ \E d \in Debts : Pay(d) \/ Repay(d) \/ Default(d)

Spec == Init /\ [][Next]_Agreement
=============================================================================
