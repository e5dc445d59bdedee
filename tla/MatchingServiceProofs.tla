----------------------- MODULE MatchingServiceProofs ------------------------
(***************************************************************************)
(* The matching cycles, for every set of them and every number of failing  *)
(* calls, whatever they read and however long ago: a match is at the best  *)
(* price its cycle could have had, and a cycle leaves nothing behind that  *)
(* it read and could match.  A cycle changes the book only through         *)
(* MatchOrders, so what holds of the book holds under the service.         *)
(***************************************************************************)
EXTENDS MatchingService, MarketMakerProofs

LEMMA CyclesTakeBookSteps ==
  ASSUME NEW c \in Cycles, CycleStep(c), ServiceTypeOK
  PROVE  [BookNext]_book
<1>1. CASE ReadBids(c) \/ ReadAsks(c) \/ ReadFails(c) \/ EndCycle(c)
  BY <1>1 DEF ReadBids, ReadAsks, ReadFails, EndCycle
<1>2. ASSUME NEW pair \in cycle[c].todo,
             \/ Match(c, pair) \/ MatchUnreported(c, pair)
             \/ MatchRejected(c, pair) \/ MatchFails(c, pair)
      PROVE  [BookNext]_book
  <2>1. cycle[c] \in CycleStates
    BY DEF ServiceTypeOK
  <2>2. pair[1] \in Bids /\ pair[2] \in Asks
    BY <2>1 DEF CycleStates
  <2>3. CASE Match(c, pair) \/ MatchUnreported(c, pair)
    BY <2>2, <2>3 DEF Match, MatchUnreported, BookNext
  <2>4. CASE MatchRejected(c, pair) \/ MatchFails(c, pair)
    BY <2>4 DEF MatchRejected, MatchFails
  <2> QED
    BY <1>2, <2>3, <2>4
<1> QED
  BY <1>1, <1>2 DEF CycleStep

LEMMA CycleTypes ==
  ASSUME ServiceTypeOK, NEW c \in Cycles, CycleStep(c)
  PROVE  /\ cycle' \in [Cycles -> CycleStates]
         /\ \A d \in Cycles : cycle'[d].pc = "idle" => cycle'[d] = IdleCycle
         /\ faults' \in 0 .. MaxFaults
<1>1. cycle[c] \in CycleStates /\ cycle \in [Cycles -> CycleStates] /\ faults \in 0 .. MaxFaults
  BY DEF ServiceTypeOK
<1>2. IdleCycle \in CycleStates
  BY DEF IdleCycle, CycleStates
<1>3. CASE ReadBids(c)
  <2>1. indexed.bids \in SUBSET Bids
    BY DEF ServiceTypeOK, Created, TypeOK
  <2> DEFINE read == [IdleCycle EXCEPT !.pc = "asks", !.bids = indexed.bids]
  <2>2. read \in CycleStates /\ read.pc = "asks"
    BY <2>1 DEF IdleCycle, CycleStates
  <2> QED
    BY <1>1, <1>3, <2>2 DEF ReadBids, ServiceTypeOK
<1>4. CASE ReadAsks(c)
  <2>1. indexed.asks \in SUBSET Asks
    BY DEF ServiceTypeOK, Created, TypeOK
  <2> DEFINE crossing == {pair \in cycle[c].bids \X indexed.asks : Crosses(pair[1], pair[2])}
             read == [cycle[c] EXCEPT !.pc = "match", !.asks = indexed.asks, !.todo = crossing]
  <2>2. crossing \in SUBSET (Bids \X Asks)
    BY <1>1, <2>1 DEF CycleStates
  <2> HIDE DEF crossing
  <2>3. read \in CycleStates /\ read.pc = "match"
    BY <1>1, <2>1, <2>2 DEF CycleStates
  <2>4. cycle' = [cycle EXCEPT ![c] = read] /\ faults' = faults
    BY <1>4 DEF ReadAsks, crossing
  <2> QED
    BY <1>1, <2>3, <2>4 DEF ServiceTypeOK
<1>5. CASE ReadFails(c)
  BY <1>1, <1>2, <1>5, FaultsAssumption DEF ReadFails, ServiceTypeOK
<1>6. CASE EndCycle(c)
  BY <1>1, <1>2, <1>6 DEF EndCycle, ServiceTypeOK
<1>7. ASSUME NEW pair \in cycle[c].todo, pair \in NextPairs(c), Tried(c, pair) \/ Placed(c, pair)
      PROVE  /\ cycle' \in [Cycles -> CycleStates]
             /\ \A d \in Cycles : cycle'[d].pc = "idle" => cycle'[d] = IdleCycle
  <2>1. pair[1] \in Bids
    BY <1>1 DEF CycleStates
  <2>2. PICK todo \in SUBSET cycle[c].todo, current \in Bids \cup {0} :
          cycle' = [cycle EXCEPT ![c] = [cycle[c] EXCEPT !.todo = todo, !.current = current]]
    <3>1. CASE Tried(c, pair)
      <4>1. cycle' = [cycle EXCEPT ![c] = [cycle[c] EXCEPT !.todo = cycle[c].todo \ {pair},
                                                           !.current = pair[1]]]
        BY <1>1, <3>1 DEF Tried, CycleStates
      <4> QED
        BY <2>1, <4>1
    <3>2. CASE Placed(c, pair)
      <4> DEFINE left == {other \in cycle[c].todo : other[1] # pair[1] /\ other[2] # pair[2]}
      <4>1. cycle' = [cycle EXCEPT ![c] = [cycle[c] EXCEPT !.todo = left, !.current = 0]]
        BY <1>1, <3>2 DEF Placed, CycleStates
      <4> QED
        BY <4>1
    <3> QED
      BY <1>7, <3>1, <3>2
  <2> DEFINE next == [cycle[c] EXCEPT !.todo = todo, !.current = current]
  <2>3. next \in CycleStates /\ next.pc = cycle[c].pc
    BY <1>1, <2>2 DEF CycleStates
  <2>4. cycle[c].pc # "idle"
    BY <1>7 DEF ServiceTypeOK, IdleCycle
  <2> QED
    BY <1>1, <2>2, <2>3, <2>4 DEF ServiceTypeOK
<1>8. ASSUME NEW pair \in cycle[c].todo,
             \/ Match(c, pair) \/ MatchUnreported(c, pair)
             \/ MatchRejected(c, pair) \/ MatchFails(c, pair)
      PROVE  /\ pair \in NextPairs(c)
             /\ Tried(c, pair) \/ Placed(c, pair)
             /\ faults' \in 0 .. MaxFaults
  BY <1>1, <1>8, FaultsAssumption DEF Match, MatchUnreported, MatchRejected, MatchFails
<1> QED
  BY <1>1, <1>3, <1>4, <1>5, <1>6, <1>7, <1>8 DEF CycleStep, ReadBids, ReadAsks, EndCycle

-----------------------------------------------------------------------------
\* Contracts keep their entry.
LEMMA CreatedGrows ==
  ASSUME BookInv, [BookNext]_book
  PROVE  Created(bid) \subseteq Created(bid') /\ Created(ask) \subseteq Created(ask')
<1>1. ASSUME NEW l \in Lenders, NEW a \in BidAmounts, NEW rate \in Rates, NEW d \in Durations,
             CreateLenderBid(l, a, rate, d)
      PROVE  Created(bid) \subseteq Created(bid') /\ UNCHANGED ask
  BY <1>1 DEF CreateLenderBid, Fresh, Created, BookInv, TypeOK
<1>2. ASSUME NEW br \in Borrowers, NEW a \in AskAmounts, NEW rate \in Rates, NEW d \in Durations,
             CreateBorrowerAsk(br, a, rate, d)
      PROVE  Created(ask) \subseteq Created(ask') /\ UNCHANGED bid
  BY <1>2 DEF CreateBorrowerAsk, Fresh, Created, BookInv, TypeOK
<1>3. ASSUME NEW b \in Bids, LenderBid_Cancel(b)
      PROVE  Created(bid') = Created(bid) /\ UNCHANGED ask
  BY <1>3, BidArchived DEF LenderBid_Cancel, BookInv
<1>4. ASSUME NEW k \in Asks, BorrowerAsk_Cancel(k)
      PROVE  Created(ask') = Created(ask) /\ UNCHANGED bid
  BY <1>4, AskArchived DEF BorrowerAsk_Cancel, BookInv
<1>5. ASSUME NEW b \in Bids, NEW k \in Asks, MatchOrders(b, k)
      PROVE  Created(bid) \subseteq Created(bid') /\ Created(ask') = Created(ask)
  <2>1. BidsKept
    BY <1>5, BidMatched
  <2>2. IsOpen(ask, k) /\ ask' = Archive(ask, k, "matched")
    BY <1>5 DEF MatchOrders, CanMatch
  <2> QED
    BY <2>1, <2>2, AskArchived DEF BidsKept, BookInv
<1>6. ASSUME NEW p \in Proposals,
             \/ MatchedLoanProposal_Accept(p)
             \/ MatchedLoanProposal_Reject(p)
             \/ MatchedLoanProposal_Withdraw(p)
      PROVE  UNCHANGED <<bid, ask>>
  BY <1>6 DEF MatchedLoanProposal_Accept, MatchedLoanProposal_Reject,
              MatchedLoanProposal_Withdraw
<1>7. CASE Post
  BY <1>1, <1>2, <1>7 DEF Post
<1>8. CASE Cancel
  BY <1>3, <1>4, <1>8 DEF Cancel
<1> QED
  BY <1>5, <1>6, <1>7, <1>8 DEF BookNext, book

ServiceInv == ServiceTypeOK /\ BookInv

LEMMA ServiceTakesBookSteps == ServiceInv /\ [Next]_vars => [BookNext]_book
<1> SUFFICES ASSUME ServiceInv, [Next]_vars PROVE [BookNext]_book
  OBVIOUS
<1>1. CASE UNCHANGED vars \/ Index
  BY <1>1 DEF vars, Index
<1>2. CASE ClientCalls
  BY <1>2 DEF ClientCalls, BookNext
<1>3. CASE \E c \in Cycles : CycleStep(c)
  BY <1>3, CyclesTakeBookSteps DEF ServiceInv
<1> QED
  BY <1>1, <1>2, <1>3 DEF Next

LEMMA ServiceInit == Init => ServiceInv
<1> SUFFICES ASSUME Init PROVE ServiceInv
  OBVIOUS
<1>1. BookInv
  BY BookInvInit DEF Init
<1>2. IdleCycle \in CycleStates
  BY DEF IdleCycle, CycleStates
<1>3. indexed \in [bids : SUBSET Created(bid), asks : SUBSET Created(ask)]
  BY DEF Init
<1> QED
  BY <1>1, <1>2, <1>3, FaultsAssumption DEF Init, ServiceInv, ServiceTypeOK, BookInv

LEMMA ServiceNext == ServiceInv /\ [Next]_vars => ServiceInv'
<1> SUFFICES ASSUME ServiceInv, [Next]_vars PROVE ServiceInv'
  OBVIOUS
<1>1. [BookNext]_book
  BY ServiceTakesBookSteps
<1>2. BookInv' /\ TypeOK'
  BY <1>1, BookInvNext DEF ServiceInv, BookInv
<1>3. Created(bid) \subseteq Created(bid') /\ Created(ask) \subseteq Created(ask')
  BY <1>1, CreatedGrows DEF ServiceInv
<1>4. indexed' \in [bids : SUBSET Created(bid'), asks : SUBSET Created(ask')]
  <2>1. CASE UNCHANGED indexed
    BY <1>3, <2>1 DEF ServiceInv, ServiceTypeOK
  <2>2. CASE Index
    BY <1>3, <2>2 DEF Index, ActiveOrders, IsOpen
  <2>3. CASE \E c \in Cycles : CycleStep(c)
    BY <2>1, <2>3 DEF CycleStep, ReadBids, ReadAsks, ReadFails, EndCycle, Match, MatchUnreported,
                      MatchRejected, MatchFails
  <2> QED
    BY <2>1, <2>2, <2>3 DEF Next, vars, ClientCalls
<1>5. /\ cycle' \in [Cycles -> CycleStates]
      /\ \A c \in Cycles : cycle'[c].pc = "idle" => cycle'[c] = IdleCycle
      /\ faults' \in 0 .. MaxFaults
  <2>1. CASE UNCHANGED <<cycle, faults>>
    BY <2>1 DEF ServiceInv, ServiceTypeOK
  <2>2. CASE \E c \in Cycles : CycleStep(c)
    BY <2>2, CycleTypes DEF ServiceInv
  <2> QED
    BY <2>1, <2>2 DEF Next, vars, Index, ClientCalls
<1> QED
  BY <1>2, <1>4, <1>5 DEF ServiceInv, ServiceTypeOK

LEMMA ServiceInvariant == Spec => []ServiceInv
BY ServiceInit, ServiceNext, PTL DEF Spec

\* The state of the matching cycles and of the index is always well typed.
THEOREM ServiceTypeCorrect == Spec => []ServiceTypeOK
<1>1. ServiceInv => ServiceTypeOK
  BY DEF ServiceInv
<1> QED
  BY <1>1, ServiceInvariant, PTL

\* runMatchingCycle takes no step but those of the order book.
LEMMA ServiceKeepsToBook == Spec => BookSpec
<1>1. Init => BookInit
  BY DEF Init
<1>2. ServiceInv /\ [Next]_vars => [BookNext]_book
  BY ServiceTakesBookSteps
<1> QED
  BY <1>1, <1>2, ServiceInvariant, PTL DEF Spec, BookSpec

\* So no order is matched twice and no proposal is outside its limits, under the service.
THEOREM ServiceKeepsOrders == Spec => [](OrdersMatchedOnce /\ ProposalsWithinLimits)
<1>1. ServiceInv => OrdersMatchedOnce /\ ProposalsWithinLimits
  BY DEF ServiceInv, BookInv
<1> QED
  BY <1>1, ServiceInvariant, PTL

\* And no liquidity is promised twice or lost, under the service either.
THEOREM ServiceConservesLiquidity == Spec => []LiquidityConserved
BY LiquidityAlwaysConserved, ServiceKeepsToBook, PTL

-----------------------------------------------------------------------------
(***************************************************************************)
(* Best price, for every book, every number of overlapping cycles and      *)
(* however stale their reads.  A cycle that no call has failed still has   *)
(* every pair it could match among those to try (NothingMissed), and while *)
(* it places a bid it leaves no cheaper one behind (CheapestFirst).        *)
(***************************************************************************)

\* An order that left the book does not come back.
NoneReopened ==
  /\ \A b \in Created(bid) : bid'[b].state = "open" => bid[b].state = "open"
  /\ \A k \in Created(ask) : ask'[k].state = "open" => ask[k].state = "open"

\* What a cycle works on is what it read.
ReadsKnown(c) ==
  /\ cycle[c].bids \subseteq Created(bid) /\ cycle[c].asks \subseteq Created(ask)
  /\ cycle[c].todo \subseteq cycle[c].bids \X cycle[c].asks
  /\ cycle[c].pc # "match" => cycle[c].todo = {} /\ cycle[c].current = 0

NothingMissed(c) ==
  (cycle[c].pc = "match" /\ faults = 0) =>
    \A b \in cycle[c].bids, k \in cycle[c].asks : CanMatch(b, k) => <<b, k>> \in cycle[c].todo

CheapestFirst(c) ==
  \A pair \in cycle[c].todo : pair[1] = cycle[c].current =>
    \A other \in cycle[c].todo : bid[pair[1]].rate <= bid[other[1]].rate

PriceInv == \A c \in Cycles : ReadsKnown(c) /\ NothingMissed(c) /\ CheapestFirst(c)

-----------------------------------------------------------------------------
(* What a step of the book leaves of the orders. *)

LEMMA MatchKeepsOrders ==
  ASSUME BookInv, NEW b \in Bids, NEW k \in Asks, MatchOrders(b, k)
  PROVE  /\ BidsKept /\ AsksKept /\ NoneReopened
         /\ bid'[b].state # "open" /\ ask'[k].state # "open"
         /\ \A c \in Created(bid) \ {b} : bid'[c] = bid[c]
         /\ \A c \in Created(ask) \ {k} : ask'[c] = ask[c]
<1>1. /\ BidsKept
      /\ bid'[b].state \in {"matched", "reduced"}
      /\ \A c \in Created(bid) \ {b} : bid'[c] = bid[c]
  BY BidMatched DEF BidsKept
<1>2. IsOpen(ask, k) /\ ask' = Archive(ask, k, "matched")
  BY DEF MatchOrders, CanMatch
<1>3. /\ Created(ask') = Created(ask)
      /\ \A c \in Asks : c # k => ask'[c] = ask[c]
      /\ ask'[k] = [ask[k] EXCEPT !.state = "matched"]
      /\ ask[k] \in AskContract
  BY <1>2, AskArchived DEF BookInv
<1>4. AsksKept /\ ask'[k].state = "matched" /\ \A c \in Created(ask) \ {k} : ask'[c] = ask[c]
  BY <1>3 DEF AsksKept, AskContract, Created, BookInv, TypeOK
<1>5. NoneReopened
  BY <1>1, <1>4 DEF NoneReopened
<1> QED
  BY <1>1, <1>4, <1>5

LEMMA BookKeepsOrders ==
  ASSUME BookInv, [BookNext]_book
  PROVE  BidsKept /\ AsksKept /\ NoneReopened
<1>1. CASE UNCHANGED <<bid, ask>>
  BY <1>1 DEF BidsKept, AsksKept, NoneReopened, Created
<1>2. ASSUME NEW l \in Lenders, NEW a \in BidAmounts, NEW rate \in Rates, NEW d \in Durations,
             CreateLenderBid(l, a, rate, d)
      PROVE  BidsKept /\ AsksKept /\ NoneReopened
  <2>1. UNCHANGED ask /\ \A b \in Created(bid) : b \in Created(bid') /\ bid'[b] = bid[b]
    BY <1>2 DEF CreateLenderBid, Fresh, Created, BookInv, TypeOK
  <2> QED
    BY <2>1 DEF BidsKept, AsksKept, NoneReopened, Created
<1>3. ASSUME NEW br \in Borrowers, NEW a \in AskAmounts, NEW rate \in Rates, NEW d \in Durations,
             CreateBorrowerAsk(br, a, rate, d)
      PROVE  BidsKept /\ AsksKept /\ NoneReopened
  <2>1. UNCHANGED bid /\ \A k \in Created(ask) : k \in Created(ask') /\ ask'[k] = ask[k]
    BY <1>3 DEF CreateBorrowerAsk, Fresh, Created, BookInv, TypeOK
  <2> QED
    BY <2>1 DEF BidsKept, AsksKept, NoneReopened, Created
<1>4. ASSUME NEW b \in Bids, LenderBid_Cancel(b)
      PROVE  BidsKept /\ AsksKept /\ NoneReopened
  <2>1. /\ UNCHANGED ask
        /\ Created(bid') = Created(bid)
        /\ \A c \in Bids : c # b => bid'[c] = bid[c]
        /\ bid'[b] = [bid[b] EXCEPT !.state = "cancelled"] /\ bid[b] \in BidContract
    BY <1>4, BidArchived DEF LenderBid_Cancel, BookInv
  <2>2. /\ bid'[b].state = "cancelled"
        /\ bid'[b].lender = bid[b].lender /\ bid'[b].amount = bid[b].amount
        /\ bid'[b].remaining = bid[b].remaining /\ bid'[b].root = bid[b].root
        /\ bid'[b].rate = bid[b].rate /\ bid'[b].maxDuration = bid[b].maxDuration
    BY <2>1 DEF BidContract
  <2> QED
    BY <2>1, <2>2 DEF BidsKept, AsksKept, NoneReopened, Created, BookInv, TypeOK
<1>5. ASSUME NEW k \in Asks, BorrowerAsk_Cancel(k)
      PROVE  BidsKept /\ AsksKept /\ NoneReopened
  <2>1. /\ UNCHANGED bid
        /\ Created(ask') = Created(ask)
        /\ \A c \in Asks : c # k => ask'[c] = ask[c]
        /\ ask'[k] = [ask[k] EXCEPT !.state = "cancelled"] /\ ask[k] \in AskContract
    BY <1>5, AskArchived DEF BorrowerAsk_Cancel, BookInv
  <2>2. /\ ask'[k].state = "cancelled"
        /\ ask'[k].borrower = ask[k].borrower /\ ask'[k].amount = ask[k].amount
        /\ ask'[k].rate = ask[k].rate /\ ask'[k].duration = ask[k].duration
    BY <2>1 DEF AskContract
  <2> QED
    BY <2>1, <2>2 DEF BidsKept, AsksKept, NoneReopened, Created, BookInv, TypeOK
<1>6. CASE \E b \in Bids, k \in Asks : MatchOrders(b, k)
  BY <1>6, MatchKeepsOrders
<1>7. CASE \E p \in Proposals : \/ MatchedLoanProposal_Accept(p)
                                \/ MatchedLoanProposal_Reject(p)
                                \/ MatchedLoanProposal_Withdraw(p)
  BY <1>1, <1>7 DEF MatchedLoanProposal_Accept, MatchedLoanProposal_Reject,
                    MatchedLoanProposal_Withdraw
<1> QED
  BY <1>1, <1>2, <1>3, <1>4, <1>5, <1>6, <1>7 DEF BookNext, Post, Cancel, book

\* A pair the ledger would match now is one it would have matched before.
LEMMA CanMatchShrinks ==
  ASSUME BidsKept, AsksKept, NoneReopened,
         NEW b \in Created(bid), NEW k \in Created(ask), CanMatch(b, k)'
  PROVE  CanMatch(b, k)
<1>1. bid'[b].state = "open" /\ ask'[k].state = "open"
  BY DEF CanMatch, IsOpen
<1>2. IsOpen(bid, b) /\ IsOpen(ask, k)
  BY <1>1 DEF NoneReopened, IsOpen
<1>3. /\ bid'[b].remaining = bid[b].remaining /\ bid'[b].rate = bid[b].rate
      /\ bid'[b].maxDuration = bid[b].maxDuration
      /\ ask'[k].amount = ask[k].amount /\ ask'[k].rate = ask[k].rate
      /\ ask'[k].duration = ask[k].duration
  BY DEF BidsKept, AsksKept
<1> QED
  BY <1>2, <1>3 DEF CanMatch, Crosses, MatchedAmount

-----------------------------------------------------------------------------
(* The invariant is kept. *)

\* By a step that leaves the cycle alone.
LEMMA UndisturbedCycle ==
  ASSUME ServiceInv, BidsKept, AsksKept, NoneReopened, NEW c \in Cycles,
         ReadsKnown(c), NothingMissed(c), CheapestFirst(c),
         cycle'[c] = cycle[c], faults' = 0 => faults = 0
  PROVE  (ReadsKnown(c) /\ NothingMissed(c) /\ CheapestFirst(c))'
<1>1. Created(bid) \subseteq Created(bid') /\ Created(ask) \subseteq Created(ask')
  BY DEF BidsKept, AsksKept
<1>2. ReadsKnown(c)'
  BY <1>1 DEF ReadsKnown
<1>3. NothingMissed(c)'
  BY CanMatchShrinks DEF NothingMissed, ReadsKnown
<1>4. \A pair \in cycle[c].todo : bid'[pair[1]].rate = bid[pair[1]].rate
  BY DEF ReadsKnown, BidsKept
<1>5. CheapestFirst(c)'
  BY <1>4 DEF CheapestFirst
<1> QED
  BY <1>2, <1>3, <1>5

\* The bid of the pair tried next is as cheap as any left.
LEMMA NextIsCheapest ==
  ASSUME NEW c \in Cycles, CheapestFirst(c), NEW pair \in NextPairs(c)
  PROVE  /\ pair \in cycle[c].todo
         /\ \A other \in cycle[c].todo : bid[pair[1]].rate <= bid[other[1]].rate
BY DEF NextPairs, CheapestFirst

\* By the attempt to match a pair: it, or all pairs of its two orders, need no
\* further attempt, since one of the orders is gone or a call failed.
LEMMA TriedCycle ==
  ASSUME ServiceInv, BidsKept, AsksKept, NoneReopened, NEW c \in Cycles,
         ReadsKnown(c), NothingMissed(c), CheapestFirst(c),
         NEW pair \in NextPairs(c), Tried(c, pair),
         faults' = 0 => faults = 0 /\ ~CanMatch(pair[1], pair[2])'
  PROVE  (ReadsKnown(c) /\ NothingMissed(c) /\ CheapestFirst(c))'
<1>1. cycle[c] \in CycleStates /\ cycle \in [Cycles -> CycleStates]
  BY DEF ServiceInv, ServiceTypeOK
<1>2. /\ cycle'[c].pc = cycle[c].pc
      /\ cycle'[c].bids = cycle[c].bids /\ cycle'[c].asks = cycle[c].asks
      /\ cycle'[c].todo = cycle[c].todo \ {pair}
      /\ cycle'[c].current = pair[1]
  BY <1>1 DEF Tried, CycleStates
<1>3. pair \in cycle[c].todo /\ \A other \in cycle[c].todo : bid[pair[1]].rate <= bid[other[1]].rate
  BY NextIsCheapest
<1>4. Created(bid) \subseteq Created(bid') /\ Created(ask) \subseteq Created(ask')
  BY DEF BidsKept, AsksKept
<1>5. ReadsKnown(c)'
  BY <1>2, <1>3, <1>4 DEF ReadsKnown
<1>6. NothingMissed(c)'
  <2> SUFFICES ASSUME cycle'[c].pc = "match", faults' = 0,
                      NEW b \in cycle[c].bids, NEW k \in cycle[c].asks, CanMatch(b, k)'
               PROVE  <<b, k>> \in cycle[c].todo \ {pair}
    BY <1>2 DEF NothingMissed
  <2>1. <<b, k>> \in cycle[c].todo
    BY <1>2, CanMatchShrinks DEF NothingMissed, ReadsKnown
  <2>2. pair # <<b, k>>
    OBVIOUS
  <2> QED
    BY <2>1, <2>2
<1>7. \A other \in cycle[c].todo : bid'[other[1]].rate = bid[other[1]].rate
  BY DEF ReadsKnown, BidsKept
<1>8. CheapestFirst(c)'
  BY <1>2, <1>3, <1>7 DEF CheapestFirst
<1> QED
  BY <1>5, <1>6, <1>8

LEMMA PlacedCycle ==
  ASSUME ServiceInv, BidsKept, AsksKept, NoneReopened, NEW c \in Cycles,
         ReadsKnown(c), NothingMissed(c), CheapestFirst(c),
         NEW pair \in NextPairs(c), Placed(c, pair), faults' = faults,
         ~IsOpen(bid, pair[1])', ~IsOpen(ask, pair[2])'
  PROVE  (ReadsKnown(c) /\ NothingMissed(c) /\ CheapestFirst(c))'
<1> DEFINE left == {other \in cycle[c].todo : other[1] # pair[1] /\ other[2] # pair[2]}
<1>1. cycle[c] \in CycleStates /\ cycle \in [Cycles -> CycleStates]
  BY DEF ServiceInv, ServiceTypeOK
<1>2. /\ cycle'[c].pc = cycle[c].pc
      /\ cycle'[c].bids = cycle[c].bids /\ cycle'[c].asks = cycle[c].asks
      /\ cycle'[c].todo = left
      /\ cycle'[c].current = 0
  BY <1>1 DEF Placed, CycleStates
<1>3. Created(bid) \subseteq Created(bid') /\ Created(ask) \subseteq Created(ask')
  BY DEF BidsKept, AsksKept
<1>4. ReadsKnown(c)'
  BY <1>2, <1>3 DEF ReadsKnown
<1>5. NothingMissed(c)'
  <2> SUFFICES ASSUME cycle'[c].pc = "match", faults' = 0,
                      NEW b \in cycle[c].bids, NEW k \in cycle[c].asks, CanMatch(b, k)'
               PROVE  <<b, k>> \in left
    BY <1>2 DEF NothingMissed
  <2>1. <<b, k>> \in cycle[c].todo
    BY <1>2, CanMatchShrinks DEF NothingMissed, ReadsKnown
  <2>2. b # pair[1] /\ k # pair[2]
    BY DEF CanMatch
  <2> QED
    BY <2>1, <2>2
<1>6. \A other \in left : other[1] # 0
  BY <1>1, NoBidAssumption DEF CycleStates
<1>7. CheapestFirst(c)'
  BY <1>2, <1>6 DEF CheapestFirst
<1> QED
  BY <1>4, <1>5, <1>7

LEMMA ReadingCycle ==
  ASSUME ServiceInv, NEW c \in Cycles, ReadsKnown(c),
         ReadBids(c) \/ ReadAsks(c) \/ ReadFails(c) \/ EndCycle(c)
  PROVE  (ReadsKnown(c) /\ NothingMissed(c) /\ CheapestFirst(c))'
<1>1. cycle[c] \in CycleStates /\ cycle \in [Cycles -> CycleStates]
  BY DEF ServiceInv, ServiceTypeOK
<1>2. indexed.bids \subseteq Created(bid) /\ indexed.asks \subseteq Created(ask)
  BY DEF ServiceInv, ServiceTypeOK
<1>3. UNCHANGED <<bid, ask>>
  BY DEF ReadBids, ReadAsks, ReadFails, EndCycle, book
<1>4. CASE ReadBids(c)
  <2>1. /\ cycle'[c].pc = "asks" /\ cycle'[c].bids = indexed.bids
        /\ cycle'[c].asks = {} /\ cycle'[c].todo = {} /\ cycle'[c].current = 0
    BY <1>1, <1>4 DEF ReadBids, IdleCycle
  <2> QED
    BY <1>2, <1>3, <2>1 DEF ReadsKnown, NothingMissed, CheapestFirst, Created
<1>5. CASE ReadAsks(c)
  <2> DEFINE crossing == {pair \in cycle[c].bids \X indexed.asks : Crosses(pair[1], pair[2])}
  <2>1. /\ cycle'[c].pc = "match" /\ cycle'[c].bids = cycle[c].bids
        /\ cycle'[c].asks = indexed.asks /\ cycle'[c].todo = crossing
        /\ cycle'[c].current = cycle[c].current
    BY <1>1, <1>5 DEF ReadAsks, CycleStates
  <2>2. ReadsKnown(c)'
    BY <1>2, <1>3, <2>1 DEF ReadsKnown, Created
  <2>3. \A b \in cycle[c].bids, k \in indexed.asks : CanMatch(b, k)' => <<b, k>> \in crossing
    BY <1>3 DEF CanMatch, Crosses
  <2>4. NothingMissed(c)'
    BY <2>1, <2>3 DEF NothingMissed
  <2>5. cycle[c].current = 0 /\ \A pair \in crossing : pair[1] # 0
    BY <1>1, <1>5, NoBidAssumption DEF ReadAsks, ReadsKnown, CycleStates
  <2>6. CheapestFirst(c)'
    BY <2>1, <2>5 DEF CheapestFirst
  <2> QED
    BY <2>2, <2>4, <2>6
<1>6. CASE ReadFails(c) \/ EndCycle(c)
  <2>1. /\ cycle'[c].pc = "idle" /\ cycle'[c].bids = {}
        /\ cycle'[c].asks = {} /\ cycle'[c].todo = {} /\ cycle'[c].current = 0
    BY <1>1, <1>6 DEF ReadFails, EndCycle, IdleCycle
  <2> QED
    BY <2>1 DEF ReadsKnown, NothingMissed, CheapestFirst
<1> QED
  BY <1>4, <1>5, <1>6

LEMMA PriceInit == Init => PriceInv
BY DEF Init, PriceInv, ReadsKnown, NothingMissed, CheapestFirst, IdleCycle

LEMMA PriceNext == ServiceInv /\ PriceInv /\ [Next]_vars => PriceInv'
<1> SUFFICES ASSUME ServiceInv, PriceInv, [Next]_vars, NEW c \in Cycles
             PROVE  (ReadsKnown(c) /\ NothingMissed(c) /\ CheapestFirst(c))'
  BY DEF PriceInv
<1>1. ReadsKnown(c) /\ NothingMissed(c) /\ CheapestFirst(c)
  BY DEF PriceInv
<1>2. BidsKept /\ AsksKept /\ NoneReopened
  BY ServiceTakesBookSteps, BookKeepsOrders DEF ServiceInv
<1>3. cycle \in [Cycles -> CycleStates] /\ faults \in 0 .. MaxFaults
  BY DEF ServiceInv, ServiceTypeOK
<1>4. CASE UNCHANGED <<cycle, faults>>
  BY <1>1, <1>2, <1>4, UndisturbedCycle
<1>5. ASSUME NEW d \in Cycles, CycleStep(d), d # c
      PROVE  (ReadsKnown(c) /\ NothingMissed(c) /\ CheapestFirst(c))'
  <2>1. cycle'[c] = cycle[c]
    BY <1>3, <1>5 DEF CycleStep, ReadBids, ReadAsks, ReadFails, EndCycle, Match, MatchUnreported,
                      MatchRejected, MatchFails, Tried, Placed
  <2>2. faults' = 0 => faults = 0
    BY <1>3, <1>5, FaultsAssumption DEF CycleStep, ReadBids, ReadAsks, ReadFails, EndCycle, Match,
                      MatchUnreported, MatchRejected, MatchFails
  <2> QED
    BY <1>1, <1>2, <2>1, <2>2, UndisturbedCycle
<1>6. CASE CycleStep(c)
  <2>1. CASE ReadBids(c) \/ ReadAsks(c) \/ ReadFails(c) \/ EndCycle(c)
    BY <1>1, <2>1, ReadingCycle
  <2>2. ASSUME NEW pair \in cycle[c].todo
        PROVE  pair[1] \in Bids /\ pair[2] \in Asks
    BY <1>3 DEF CycleStates
  <2>3. ASSUME NEW pair \in cycle[c].todo, Match(c, pair)
        PROVE  (ReadsKnown(c) /\ NothingMissed(c) /\ CheapestFirst(c))'
    <3>1. ~IsOpen(bid, pair[1])' /\ ~IsOpen(ask, pair[2])'
      BY <2>2, <2>3, MatchKeepsOrders DEF Match, IsOpen, ServiceInv
    <3> QED
      BY <1>1, <1>2, <2>3, <3>1, PlacedCycle DEF Match
  <2>4. ASSUME NEW pair \in cycle[c].todo, MatchUnreported(c, pair)
        PROVE  (ReadsKnown(c) /\ NothingMissed(c) /\ CheapestFirst(c))'
    <3>1. ~CanMatch(pair[1], pair[2])'
      BY <2>2, <2>4, MatchKeepsOrders DEF MatchUnreported, CanMatch, IsOpen, ServiceInv
    <3> QED
      BY <1>1, <1>2, <2>4, <3>1, TriedCycle DEF MatchUnreported
  <2>5. ASSUME NEW pair \in cycle[c].todo, MatchRejected(c, pair)
        PROVE  (ReadsKnown(c) /\ NothingMissed(c) /\ CheapestFirst(c))'
    <3>1. UNCHANGED <<bid, ask>> /\ ~CanMatch(pair[1], pair[2]) /\ faults' = faults
      BY <2>5 DEF MatchRejected, book
    <3>2. ~CanMatch(pair[1], pair[2])'
      BY <3>1 DEF CanMatch, IsOpen, Created, Crosses, MatchedAmount
    <3> QED
      BY <1>1, <1>2, <2>5, <3>1, <3>2, TriedCycle DEF MatchRejected
  <2>6. ASSUME NEW pair \in cycle[c].todo, MatchFails(c, pair)
        PROVE  (ReadsKnown(c) /\ NothingMissed(c) /\ CheapestFirst(c))'
    <3>1. faults' # 0
      BY <1>3, <2>6, FaultsAssumption DEF MatchFails
    <3> QED
      BY <1>1, <1>2, <2>6, <3>1, TriedCycle DEF MatchFails
  <2> QED
    BY <1>6, <2>1, <2>3, <2>4, <2>5, <2>6 DEF CycleStep
<1> QED
  BY <1>4, <1>5, <1>6 DEF Next, Index, ClientCalls, vars

LEMMA PriceInvariant == Spec => [](ServiceInv /\ PriceInv)
BY ServiceInit, ServiceNext, PriceInit, PriceNext, PTL DEF Spec

-----------------------------------------------------------------------------
\* The cycle that took an open bid and an open ask off the book by a step of its own
\* matched the two.
LEMMA MatchedByCycle ==
  ASSUME ServiceInv, Next, NEW c \in Cycles, NEW b \in Bids, NEW k \in Asks,
         MatchMade(b, k), cycle'[c] # cycle[c]
  PROVE  <<b, k>> \in NextPairs(c)
<1>1. cycle \in [Cycles -> CycleStates]
  BY DEF ServiceInv, ServiceTypeOK
<1>2. CycleStep(c)
  <2>1. ASSUME NEW d \in Cycles, CycleStep(d), d # c
        PROVE  cycle'[c] = cycle[c]
    BY <1>1, <2>1 DEF CycleStep, ReadBids, ReadAsks, ReadFails, EndCycle, Match, MatchUnreported,
                      MatchRejected, MatchFails, Tried, Placed
  <2> QED
    BY <2>1 DEF Next, Index, ClientCalls
<1>3. ~UNCHANGED <<bid, ask>>
  BY DEF MatchMade, IsOpen, Created
<1>4. PICK pair \in cycle[c].todo : /\ pair \in NextPairs(c)
                                    /\ MatchOrders(pair[1], pair[2])
  BY <1>2, <1>3 DEF CycleStep, ReadBids, ReadAsks, ReadFails, EndCycle, MatchRejected, MatchFails,
                    Match, MatchUnreported, book
<1>5. pair[1] \in Bids /\ pair[2] \in Asks /\ pair = <<pair[1], pair[2]>>
  BY <1>1 DEF CycleStates
<1>6. /\ \A other \in Created(bid) \ {pair[1]} : bid'[other] = bid[other]
      /\ \A other \in Created(ask) \ {pair[2]} : ask'[other] = ask[other]
      /\ BidsKept /\ AsksKept
  BY <1>4, <1>5, MatchKeepsOrders DEF ServiceInv
<1>7. b = pair[1] /\ k = pair[2]
  BY <1>6 DEF MatchMade, IsOpen, BidsKept, AsksKept
<1> QED
  BY <1>4, <1>5, <1>7

LEMMA PriceStep ==
  ASSUME ServiceInv, PriceInv, [Next]_vars, NEW c \in Cycles, NEW b \in Bids, NEW k \in Asks,
         MatchMade(b, k), cycle'[c] # cycle[c], faults = 0
  PROVE  /\ \A b2 \in cycle[c].bids : CanMatch(b2, k) => bid[b].rate <= bid[b2].rate
         /\ \A k2 \in cycle[c].asks : CanMatch(b, k2) => ask[k2].rate <= ask[k].rate
<1>1. <<b, k>> \in NextPairs(c)
  BY MatchedByCycle DEF vars
<1>2. ReadsKnown(c) /\ NothingMissed(c) /\ CheapestFirst(c)
  BY DEF PriceInv
<1>3. /\ <<b, k>> \in cycle[c].todo
      /\ \A other \in cycle[c].todo : bid[b].rate <= bid[other[1]].rate
  BY <1>1, <1>2, NextIsCheapest
<1>4. b \in cycle[c].bids /\ k \in cycle[c].asks /\ cycle[c].pc = "match"
  BY <1>2, <1>3 DEF ReadsKnown
<1>5. ASSUME NEW b2 \in cycle[c].bids, CanMatch(b2, k)
      PROVE  bid[b].rate <= bid[b2].rate
  <2>1. <<b2, k>> \in cycle[c].todo
    BY <1>2, <1>4, <1>5 DEF NothingMissed
  <2> QED
    BY <1>3, <2>1
<1>6. ASSUME NEW k2 \in cycle[c].asks, CanMatch(b, k2)
      PROVE  ask[k2].rate <= ask[k].rate
  <2>1. <<b, k2>> \in cycle[c].todo
    BY <1>2, <1>4, <1>6 DEF NothingMissed
  <2> DEFINE same == {pair \in cycle[c].todo : pair[1] = cycle[c].current}
             first == IF same # {} THEN same
                      ELSE {pair \in cycle[c].todo :
                              \A other \in cycle[c].todo : bid[pair[1]].rate <= bid[other[1]].rate}
  <2>2. <<b, k>> \in first
        /\ \A other \in first : other[1] = b => ask[other[2]].rate <= ask[k].rate
    BY <1>1 DEF NextPairs
  <2>3. <<b, k2>> \in first
    BY <1>3, <2>1, <2>2
  <2> QED
    BY <2>2, <2>3
<1> QED
  BY <1>5, <1>6

\* runMatchingCycle: no cheaper bid and no better paying ask that the cycle read and
\* the ledger would have matched is passed over, however many cycles race for them.
THEOREM MatchesAreBestPriced == Spec => BestPrice
<1>1. ASSUME ServiceInv, PriceInv, [Next]_vars
      PROVE  [\A c \in Cycles, b \in Bids, k \in Asks :
                (MatchMade(b, k) /\ cycle[c] # cycle[c]' /\ faults = 0)
                => /\ \A b2 \in cycle[c].bids : CanMatch(b2, k) => bid[b].rate <= bid[b2].rate
                   /\ \A k2 \in cycle[c].asks : CanMatch(b, k2) => ask[k2].rate <= ask[k].rate]_vars
  BY <1>1, PriceStep
<1> QED
  BY <1>1, PriceInvariant, PTL DEF Spec, BestPrice

-----------------------------------------------------------------------------
LEMMA EndingStep ==
  ASSUME ServiceInv, PriceInv, Next, NEW c \in Cycles,
         cycle[c].pc = "match", cycle'[c].pc = "idle", faults = 0
  PROVE  \A b \in cycle[c].bids, k \in cycle[c].asks : ~CanMatch(b, k)
<1>1. cycle \in [Cycles -> CycleStates]
  BY DEF ServiceInv, ServiceTypeOK
<1>2. CycleStep(c)
  <2>1. ASSUME NEW d \in Cycles, CycleStep(d), d # c
        PROVE  cycle'[c] = cycle[c]
    BY <1>1, <2>1 DEF CycleStep, ReadBids, ReadAsks, ReadFails, EndCycle, Match, MatchUnreported,
                      MatchRejected, MatchFails, Tried, Placed
  <2> QED
    BY <2>1 DEF Next, Index, ClientCalls
<1>3. EndCycle(c)
  <2>1. ASSUME NEW pair \in cycle[c].todo, Tried(c, pair) \/ Placed(c, pair)
        PROVE  cycle'[c].pc = "match"
    BY <1>1, <2>1 DEF Tried, Placed, CycleStates
  <2>2. ~ReadBids(c) /\ ~ReadAsks(c) /\ ~ReadFails(c)
    BY DEF ReadBids, ReadAsks, ReadFails
  <2> QED
    BY <1>2, <2>1, <2>2 DEF CycleStep, Match, MatchUnreported, MatchRejected, MatchFails
<1> QED
  BY <1>3 DEF EndCycle, PriceInv, NothingMissed

\* runMatchingCycle: when its loops are through, the ledger would match no pair it read,
\* whatever other cycles, cancellations, rejections and lost answers came in between.
THEOREM CyclesClearTheirReads == Spec => CycleClearsItsReads
<1>1. ASSUME ServiceInv, PriceInv, [Next]_vars
      PROVE  [\A c \in Cycles :
                (cycle[c].pc = "match" /\ cycle[c]'.pc = "idle" /\ faults = 0)
                => \A b \in cycle[c].bids, k \in cycle[c].asks : ~CanMatch(b, k)]_vars
  BY <1>1, EndingStep DEF vars
<1> QED
  BY <1>1, PriceInvariant, PTL DEF Spec, CycleClearsItsReads
=============================================================================
