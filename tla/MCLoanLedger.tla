---------------------------- MODULE MCLoanLedger ----------------------------
(***************************************************************************)
(* Small instances of LoanDesk: which parties there are and which          *)
(* deadlines a client may send.                                            *)
(***************************************************************************)
EXTENDS LoanDesk

CONSTANTS l1, l2, b1

\* Each lender with the borrower, as the scripts of the package submit.
LenderAndBorrower == {{l, b1} : l \in Lenders}

OneWindow  == {<<1, 2>>}
TwoWindows == {<<1, 2>>, <<2, 3>>}
\* The second is empty: its prepareUntil is its settleBefore.
AllWindows == {<<1, 2>>, <<2, 2>>}
=============================================================================
