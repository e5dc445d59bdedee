-------------------------- MODULE MatchingService --------------------------
(***************************************************************************)
(* The matching cycles that drive the order book (MarketMakerService).  A  *)
(* cycle reads the active bids, then the active asks, from PQS, an index   *)
(* that lags the ledger, and submits MatchOrders for crossing pairs in     *)
(* price order, each in a transaction of its own that the ledger may       *)
(* reject.                                                                 *)
(*                                                                         *)
(* scheduledMatch runs from the timer and after an order was posted, one   *)
(* at a time (the flag `running`), so all its runs are the one cycle       *)
(* "scheduled".  triggerMatch calls runMatchingCycle without the flag: its *)
(* calls are the cycles of Triggered and overlap with everything.          *)
(*                                                                         *)
(* The MatchingEngine contract is taken to exist.  No cycle reads what     *)
(* becomes of a proposal, which is the matter of MarketMakerApi.           *)
(***************************************************************************)
EXTENDS MarketMaker

CONSTANTS
  Triggered,    \* calls of /market/match in progress at a time
  MaxFaults     \* bound on the calls of PQS or the ledger that fail

ASSUME FaultsAssumption == MaxFaults \in Nat

\* A cycle that places no bid has 0 for its current one, so 0 is none.
ASSUME NoBidAssumption == 0 \notin Bids

Cycles == {"scheduled"} \cup Triggered

VARIABLES
  indexed,   \* the active orders as PQS shows them
  cycle,     \* what each matching cycle has read and has still to try
  faults     \* calls of a cycle that failed so far

vars == <<book, indexed, cycle, faults>>

IdleCycle == [pc |-> "idle", bids |-> {}, asks |-> {}, todo |-> {}, current |-> 0]

CycleStates == [pc   : {"idle", "asks", "match"},
                bids : SUBSET Bids, asks : SUBSET Asks,   \* what the queries returned
                todo : SUBSET (Bids \X Asks),             \* crossing pairs not tried yet
                current : Bids \cup {0}]                  \* the bid being placed

\* A cycle keeps nothing for the next one.
ServiceTypeOK ==
  /\ TypeOK
  /\ indexed \in [bids : SUBSET Created(bid), asks : SUBSET Created(ask)]
  /\ cycle \in [Cycles -> CycleStates]
  /\ \A c \in Cycles : cycle[c].pc = "idle" => cycle[c] = IdleCycle
  /\ faults \in 0 .. MaxFaults

ActiveOrders == [bids |-> {b \in Bids : IsOpen(bid, b)}, asks |-> {k \in Asks : IsOpen(ask, k)}]

Init ==
  /\ BookInit
  /\ indexed = [bids |-> {}, asks |-> {}]
  /\ cycle = [c \in Cycles |-> IdleCycle]
  /\ faults = 0

-----------------------------------------------------------------------------
\* PQS catches up with the ledger (external).
Index ==
  /\ indexed # ActiveOrders
  /\ indexed' = ActiveOrders
  /\ UNCHANGED <<book, cycle, faults>>

\* The parties' own calls.  Cancelling looks the order up in PQS first, which only
\* delays it.
ClientCalls ==
  /\ Post \/ Cancel
  /\ UNCHANGED <<indexed, cycle, faults>>

\* findActiveLenderBids.
ReadBids(c) ==
  /\ cycle[c].pc = "idle"
  /\ cycle' = [cycle EXCEPT ![c] = [IdleCycle EXCEPT !.pc = "asks", !.bids = indexed.bids]]
  /\ UNCHANGED <<book, indexed, faults>>

\* findActiveBorrowerAsks; the tests the loop makes on a pair only read the two
\* contracts, which never change, so they are made here for all pairs.
ReadAsks(c) ==
  /\ cycle[c].pc = "asks"
  /\ cycle' = [cycle EXCEPT
       ![c].pc = "match", ![c].asks = indexed.asks,
       ![c].todo = {pair \in cycle[c].bids \X indexed.asks : Crosses(pair[1], pair[2])}]
  /\ UNCHANGED <<book, indexed, faults>>

\* A query fails: the exception ends the cycle.
ReadFails(c) ==
  /\ faults < MaxFaults
  /\ cycle[c].pc = "asks"
  /\ faults' = faults + 1
  /\ cycle' = [cycle EXCEPT ![c] = IdleCycle]
  /\ UNCHANGED <<book, indexed>>

\* Bug: the bids are not sorted; the asks are.
NextPairs_BidsUnsorted(c) ==
  LET todo == cycle[c].todo
      same == {pair \in todo : pair[1] = cycle[c].current}
      bidFirst == IF same # {} THEN same ELSE todo
  IN {pair \in bidFirst : \A other \in bidFirst :
        other[1] = pair[1] => ask[other[2]].rate <= ask[pair[2]].rate}

\* The pairs the loops may try next: those of the current bid while it has some,
\* then those of a bid with the lowest rate; among them the highest rate asked.
NextPairs(c) ==
  LET todo == cycle[c].todo
      same == {pair \in todo : pair[1] = cycle[c].current}
      bidFirst == IF same # {} THEN same
                  ELSE {pair \in todo : \A other \in todo : bid[pair[1]].rate <= bid[other[1]].rate}
  IN {pair \in bidFirst : \A other \in bidFirst :
        other[1] = pair[1] => ask[other[2]].rate <= ask[pair[2]].rate}

\* Bug: the bid is given up when one of its matches fails.
Tried_GivesUp(c, pair) ==
  cycle' = [cycle EXCEPT ![c].todo = {other \in @ : other[1] # pair[1]}, ![c].current = pair[1]]

\* The pair failed: the loop goes on with the next ask for the same bid.
Tried(c, pair) ==
  cycle' = [cycle EXCEPT ![c].todo = @ \ {pair}, ![c].current = pair[1]]

\* The match was made and reported: neither order is used again in this cycle.
Placed(c, pair) ==
  cycle' = [cycle EXCEPT
    ![c].todo = {other \in @ : other[1] # pair[1] /\ other[2] # pair[2]},
    ![c].current = 0]

Match(c, pair) ==
  /\ pair \in NextPairs(c)
  /\ MatchOrders(pair[1], pair[2])
  /\ Placed(c, pair)
  /\ UNCHANGED <<indexed, faults>>

\* The transaction commits and its answer is lost: the cycle takes it for a failure.
MatchUnreported(c, pair) ==
  /\ pair \in NextPairs(c)
  /\ MatchOrders(pair[1], pair[2])
  /\ Tried(c, pair)
  /\ UNCHANGED <<indexed, faults>>

\* The ledger rejects the match: an order is gone, or the bid cannot be reduced.
MatchRejected(c, pair) ==
  /\ pair \in NextPairs(c)
  /\ ~CanMatch(pair[1], pair[2])
  /\ Tried(c, pair)
  /\ UNCHANGED <<book, indexed, faults>>

\* The submission never reaches the ledger.
MatchFails(c, pair) ==
  /\ faults < MaxFaults
  /\ pair \in NextPairs(c)
  /\ faults' = faults + 1
  /\ Tried(c, pair)
  /\ UNCHANGED <<book, indexed>>

\* Bug: the lists and the used orders are fields that are not cleared.
EndCycle_Uncleared(c) ==
  /\ cycle[c].pc = "match" /\ cycle[c].todo = {}
  /\ cycle' = [cycle EXCEPT ![c].pc = "idle"]
  /\ UNCHANGED <<book, indexed, faults>>

\* Bug: the scheduled cycle does not reset the flag `running` when it ends.
EndCycle_StaysRunning(c) ==
  /\ c # "scheduled"
  /\ cycle[c].pc = "match" /\ cycle[c].todo = {}
  /\ cycle' = [cycle EXCEPT ![c] = IdleCycle]
  /\ UNCHANGED <<book, indexed, faults>>

EndCycle(c) ==
  /\ cycle[c].pc = "match" /\ cycle[c].todo = {}
  /\ cycle' = [cycle EXCEPT ![c] = IdleCycle]
  /\ UNCHANGED <<book, indexed, faults>>

CycleStep(c) ==
  \/ ReadBids(c)
  \/ ReadAsks(c)
  \/ ReadFails(c)
  \/ \E pair \in cycle[c].todo : \/ Match(c, pair)
                                 \/ MatchUnreported(c, pair)
                                 \/ MatchRejected(c, pair)
                                 \/ MatchFails(c, pair)
  \/ EndCycle(c)

Next ==
  \/ Index
  \/ ClientCalls
  \/ \E c \in Cycles : CycleStep(c)

Spec == Init /\ [][Next]_vars

(***************************************************************************)
(* PQS follows the ledger, and the timer (@Scheduled, fixedDelay 5 s) runs *)
(* the scheduled cycle again and again.  Nothing makes a client act.       *)
(***************************************************************************)
FairSpec == Spec /\ WF_vars(Index) /\ WF_vars(CycleStep("scheduled"))

-----------------------------------------------------------------------------
\* A match is at the best price its cycle could have had: no cheaper bid and no
\* better paying ask that the cycle read, and that the ledger would still have
\* matched, is passed over (unless one of its calls failed).
MatchMade(b, k) ==
  /\ IsOpen(bid, b) /\ ~IsOpen(bid, b)'
  /\ IsOpen(ask, k) /\ ~IsOpen(ask, k)'

BestPrice ==
  [][\A c \in Cycles, b \in Bids, k \in Asks :
       (MatchMade(b, k) /\ cycle[c] # cycle[c]' /\ faults = 0)
       => /\ \A b2 \in cycle[c].bids : CanMatch(b2, k) => bid[b].rate <= bid[b2].rate
          /\ \A k2 \in cycle[c].asks : CanMatch(b, k2) => ask[k2].rate <= ask[k].rate]_vars

\* A cycle none of whose calls failed leaves no pair behind that it read and that the
\* ledger would match, whatever was rejected, cancelled, matched by another cycle or
\* matched without an answer while it ran.
CycleClearsItsReads ==
  [][\A c \in Cycles :
       (cycle[c].pc = "match" /\ cycle[c]'.pc = "idle" /\ faults = 0)
       => \A b \in cycle[c].bids, k \in cycle[c].asks : ~CanMatch(b, k)]_vars

\* Orders that cross and that the ledger would match do not both stay on the book.
CrossingResolved == \A b \in Bids, k \in Asks : []<>~CanMatch(b, k)
=============================================================================
