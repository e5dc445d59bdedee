----------------------------- MODULE BookScreen -----------------------------
(***************************************************************************)
(* The order book page: the OrderBook component (order-book.tsx), which    *)
(* polls the book and can be refreshed by hand, and MarketDepth beside it  *)
(* (market-depth.tsx), which shows what the hook's last load brought.      *)
(* What a book looks like is OrderBookView's matter; here a book is known  *)
(* by its age: the number of ledger changes each of its two sides          *)
(* reflects, since buildOrderBook reads them in two queries.               *)
(***************************************************************************)
EXTENDS Naturals

CONSTANTS
  MaxChanges,  \* bound: changes of the book that are told apart
  MaxFaults,   \* bound on the calls that fail
  HookLoads,   \* bound: loads of the hook in progress at a time
  NoBook

Books == [asks : 0 .. MaxChanges, bids : 0 .. MaxChanges]

ASSUME ScreenAssumption ==
  /\ MaxChanges \in Nat /\ MaxFaults \in Nat /\ NoBook \notin Books
  /\ HookLoads \cap {"poll", "refresh"} = {}

\* Who asks for the book: the component's interval, its Refresh button, and the loads of
\* the hook, any number of which overlap.
Callers == {"poll", "refresh"} \cup HookLoads
Sides   == {"asks", "bids"}

\* No call is under way.
NoCall == MaxChanges + 1

VARIABLES
  changes,    \* changes of the order book committed on the ledger
  indexed,    \* changes PQS shows
  open,       \* the page shows the order book view
  prop,       \* the hook's orderBook, which MarketDepth shows
  liveData,   \* what OrderBook shows
  pollError,  \* "Update failed"
  call,       \* the getOrderBook calls under way: what PQS showed when each was made
  overtaken,  \* history: calls during which another answer came
  faults      \* calls that failed so far

vars == <<changes, indexed, open, prop, liveData, pollError, call, overtaken, faults>>

marketVars == <<changes, indexed>>

Waiting(c) == call[c] # NoCall

\* While the view is closed there is no component: its state is reset, and the calls it
\* made set nothing any more.
ScreenTypeOK ==
  /\ changes \in 0 .. MaxChanges /\ indexed \in 0 .. changes
  /\ open \in BOOLEAN /\ pollError \in BOOLEAN
  /\ prop \in Books \cup {NoBook} /\ liveData \in Books \cup {NoBook}
  /\ call \in [Callers -> 0 .. NoCall]
  /\ overtaken \subseteq {c \in Callers : Waiting(c)}
  /\ faults \in 0 .. MaxFaults
  /\ ~open => liveData = NoBook /\ ~pollError /\ ~Waiting("poll") /\ ~Waiting("refresh")

Init ==
  /\ changes = 0 /\ indexed = 0
  /\ open = FALSE /\ prop = NoBook /\ liveData = NoBook /\ pollError = FALSE
  /\ call = [c \in Callers |-> NoCall] /\ overtaken = {}
  /\ faults = 0

-----------------------------------------------------------------------------
(* The market (external) and the service. *)

Change ==
  /\ changes < MaxChanges
  /\ changes' = changes + 1
  /\ UNCHANGED <<indexed, open, prop, liveData, pollError, call, overtaken, faults>>

Index ==
  /\ indexed < changes
  /\ indexed' = indexed + 1
  /\ UNCHANGED <<changes, open, prop, liveData, pollError, call, overtaken, faults>>

\* The books c may be answered with: buildOrderBook's two queries are sent together and
\* each shows what PQS showed at some moment since c asked.
BooksRead(c) == [asks : call[c] .. indexed, bids : call[c] .. indexed]

Ask(c)      == ~Waiting(c) /\ call' = [call EXCEPT ![c] = indexed]
Answered(c) == Waiting(c) /\ call' = [call EXCEPT ![c] = NoCall]

-----------------------------------------------------------------------------
(* The page *)

\* The component starts from the prop and polls at once.
OpenView ==
  /\ ~open
  /\ open' = TRUE
  /\ liveData' = prop
  /\ Ask("poll")
  /\ UNCHANGED <<marketVars, prop, pollError, overtaken, faults>>

\* Bug: the effect returns no cleanup.
CloseView_Uncancelled ==
  /\ open
  /\ open' = FALSE
  /\ liveData' = NoBook /\ pollError' = FALSE
  /\ call' = [call EXCEPT !["refresh"] = NoCall]
  /\ overtaken' = overtaken \ {"poll", "refresh"}
  /\ UNCHANGED <<marketVars, prop, faults>>

\* Clears the interval and sets "cancelled"; a refresh under way sets nothing either.
CloseView ==
  /\ open
  /\ open' = FALSE
  /\ liveData' = NoBook /\ pollError' = FALSE
  /\ call' = [call EXCEPT !["poll"] = NoCall, !["refresh"] = NoCall]
  /\ overtaken' = overtaken \ {"poll", "refresh"}
  /\ UNCHANGED <<marketVars, prop, faults>>

\* Bug: the interval is given up after a failure.
Poll_UntilError ==
  /\ open /\ ~pollError /\ Ask("poll")
  /\ UNCHANGED <<marketVars, open, prop, liveData, pollError, overtaken, faults>>

\* Every 5 seconds, unless the last poll is in flight still.
Poll ==
  /\ open /\ Ask("poll")
  /\ UNCHANGED <<marketVars, open, prop, liveData, pollError, overtaken, faults>>

\* The button is disabled while it refreshes.
HandleRefresh ==
  /\ open /\ Ask("refresh")
  /\ UNCHANGED <<marketVars, open, prop, liveData, pollError, overtaken, faults>>

\* A load of the hook, with the view open or not and beside other loads.
LoadRealData(h) ==
  /\ Ask(h)
  /\ UNCHANGED <<marketVars, open, prop, liveData, pollError, overtaken, faults>>

\* c's answer is taken: the calls still under way were made before it.
Overtake(c) == overtaken' = {d \in Callers \ {c} : Waiting(d)}

\* Bug: the effect on the prop runs after every render.
PollAnswered_ShowsProp ==
  /\ Answered("poll")
  /\ \E book \in BooksRead("poll") : liveData' = IF prop = NoBook THEN book ELSE prop
  /\ pollError' = FALSE
  /\ Overtake("poll")
  /\ UNCHANGED <<marketVars, open, prop, faults>>

PollAnswered ==
  /\ Answered("poll")
  /\ liveData' \in BooksRead("poll")
  /\ pollError' = FALSE
  /\ Overtake("poll")
  /\ UNCHANGED <<marketVars, open, prop, faults>>

RefreshAnswered ==
  /\ Answered("refresh")
  /\ liveData' \in BooksRead("refresh")
  /\ pollError' = FALSE
  /\ Overtake("refresh")
  /\ UNCHANGED <<marketVars, open, prop, faults>>

\* The load lands.  The new prop is shown by MarketDepth and, through the effect, by
\* OrderBook; a view that is closed will open on it.
HookAnswered(h) ==
  /\ Answered(h)
  /\ prop' \in BooksRead(h)
  /\ liveData' = IF open THEN prop' ELSE liveData
  /\ Overtake(h)
  /\ UNCHANGED <<marketVars, open, pollError, faults>>

\* getOrderBook answers null, or the load it is part of fails; only the poll reports it.
CallFails(c) ==
  /\ Answered(c)
  /\ faults < MaxFaults /\ faults' = faults + 1
  /\ overtaken' = overtaken \ {c}
  /\ pollError' = (pollError \/ c = "poll")
  /\ UNCHANGED <<marketVars, open, prop, liveData>>

Next ==
  \/ Change \/ Index
  \/ OpenView \/ CloseView
  \/ Poll \/ HandleRefresh
  \/ PollAnswered \/ RefreshAnswered
  \/ \E h \in HookLoads : LoadRealData(h) \/ HookAnswered(h)
  \/ \E c \in Callers : CallFails(c)

\* PQS catches up, the service answers, and the browser runs timers and promises.
Fairness ==
  /\ WF_vars(Index)
  /\ WF_vars(Poll)
  /\ WF_vars(PollAnswered) /\ WF_vars(RefreshAnswered)
  /\ \A h \in HookLoads : WF_vars(HookAnswered(h))

Spec == Init /\ [][Next]_vars /\ Fairness

-----------------------------------------------------------------------------
(***************************************************************************)
(* Properties.                                                             *)
(***************************************************************************)

\* Older on one side at least.
GoesBack == /\ open /\ open' /\ liveData # NoBook
            /\ \E side \in Sides : liveData'[side] < liveData[side]

\* OrderBook goes back to an older book only by an answer that was under way when a
\* newer one came, to the screen or to the hook while the view was closed: polls alone
\* never do, nor does a call made after what is shown, however many loads of the hook
\* overlap.  (poll's inflight, the disabled button, and the effect on the prop.)
OnlyOvertakenGoBack ==
  [][GoesBack => \E c \in overtaken : Waiting(c) /\ ~Waiting(c)']_vars

\* While the view stays open OrderBook comes to show the market as it is, both sides of
\* one moment, without "Update failed": whatever overtakes what, and however torn the
\* books it was answered with meanwhile.
FollowsMarket ==
  <>[]open => <>[](/\ liveData = [asks |-> changes, bids |-> changes]
                   /\ ~pollError)
=============================================================================
