----------------------------- MODULE DenverDemo -----------------------------
(***************************************************************************)
(* The standalone demo client, src/denver-lending-platform: a page that    *)
(* starts on mock data, asks once whether a backend is there, and from     *)
(* then on either stays a demo or loads its lists from the API and submits *)
(* commands to it.  A load that fails puts the mock rows back.             *)
(*                                                                         *)
(* A row keeps what a filter, a button or a sum reads: ids, parties,       *)
(* status, and for the book the rate (in tenths of a percent) and amount.  *)
(***************************************************************************)
EXTENDS Integers, FiniteSets, FiniteSetsExt, Functions

CONSTANTS
  LedgerRequests, LedgerOffers, LedgerLoans,  \* rows the API may list
  Answers, \* what a load may be answered with: some of these rows, a book, a profile, stats
  Jobs,    \* bound: calls and timers of buttons and forms under way
  First,   \* the load made when the API is found
  None

ASSUME JobAssumption == First \notin Jobs

(* mock-data.ts *)
MockLoanRequests ==
  {[id |-> "lr-001", borrower |-> "app-user",   status |-> "open"],
   [id |-> "lr-002", borrower |-> "app-user",   status |-> "funded"],
   [id |-> "lr-003", borrower |-> "borrower-2", status |-> "open"],
   [id |-> "lr-004", borrower |-> "borrower-3", status |-> "open"],
   [id |-> "lr-005", borrower |-> "app-user",   status |-> "open"]}

MockLoanOffers ==
  {[id |-> "lo-001", lender |-> "lender"], [id |-> "lo-002", lender |-> "lender-2"],
   [id |-> "lo-003", lender |-> "lender"]}

MockActiveLoans ==
  {[id |-> "al-001", borrower |-> "app-user", lender |-> "lender", status |-> "active"],
   [id |-> "al-002", borrower |-> "borrower-2", lender |-> "lender", status |-> "active"],
   [id |-> "al-003", borrower |-> "app-user", lender |-> "lender-2", status |-> "repaid"]}

MockLenderBids ==
  {[id |-> "lb-001", rate |-> 50, amount |-> 15000], [id |-> "lb-002", rate |-> 55, amount |-> 10000],
   [id |-> "lb-003", rate |-> 60, amount |-> 42000], [id |-> "lb-004", rate |-> 65, amount |-> 8000],
   [id |-> "lb-005", rate |-> 70, amount |-> 15000], [id |-> "lb-006", rate |-> 75, amount |-> 25000],
   [id |-> "lb-007", rate |-> 80, amount |-> 12000]}

MockBorrowerAsks ==
  {[id |-> "ba-001", rate |-> 90, amount |-> 5000], [id |-> "ba-002", rate |-> 85, amount |-> 3000],
   [id |-> "ba-003", rate |-> 80, amount |-> 10000], [id |-> "ba-004", rate |-> 75, amount |-> 2000],
   [id |-> "ba-005", rate |-> 70, amount |-> 7500], [id |-> "ba-006", rate |-> 65, amount |-> 4000]}

Ids(rows) == {r.id : r \in rows}

MockIds   == Ids(MockLoanRequests) \cup Ids(MockLoanOffers) \cup Ids(MockActiveLoans)
LedgerIds == Ids(LedgerRequests) \cup Ids(LedgerOffers) \cup Ids(LedgerLoans)

\* Parties of the ledger have names of the form hint::fingerprint.
ASSUME LedgerAssumption ==
  /\ LedgerIds \cap MockIds = {}
  /\ \A r \in LedgerRequests : r.borrower \notin {"app-user", "lender"} /\ r.status = "open"
  /\ \A l \in LedgerLoans : {l.borrower, l.lender} \cap {"app-user", "lender"} = {}
  /\ \A a \in Answers :
       /\ a.requests \subseteq LedgerRequests /\ a.offers \subseteq LedgerOffers
       /\ a.loans \subseteq LedgerLoans /\ a.profile \in BOOLEAN /\ a.stats \in BOOLEAN
       /\ IsFiniteSet(a.bids) /\ IsFiniteSet(a.asks)
       /\ \A o \in a.bids \cup a.asks : o.rate \in Nat /\ o.amount \in Nat

Views     == {"overview", "borrower", "lender", "orderbook", "privacy"}
FormKinds == {"request", "offer", "bid"}
Clicks    == {"accept", "repay", "default"}

VARIABLES
  useApi,      \* "unknown" (null), "api" (true), "demo" (false)
  requests, offers, loans, profile, bids, asks, stats,
  loading, error,
  page,        \* isLoggedIn, role, activeView
  form,        \* the dialogs of the dashboard on screen
  offerDialog, \* the request whose row has its offer dialog open
  job          \* calls and timers under way

vars == <<useApi, requests, offers, loans, profile, bids, asks, stats, loading, error,
          page, form, offerDialog, job>>

listVars == <<requests, offers, loans, profile, bids, asks, stats>>

NoJob == [pc |-> "idle", kind |-> "none", target |-> None, for |-> "none"]

\* "own": a form waits for it; "dashboard": that form is gone, its dashboard is not.
JobRecords ==
  [pc : {"idle", "command", "load", "timer"}, kind : FormKinds \cup Clicks \cup {"none"},
   target : MockIds \cup LedgerIds \cup {None}, for : {"own", "dashboard", "none"}]

Busy(j) == job[j].pc # "idle"

OnMock ==
  /\ requests = MockLoanRequests /\ offers = MockLoanOffers /\ loans = MockActiveLoans
  /\ profile = "mock" /\ stats = "mock"
  /\ bids = MockLenderBids /\ asks = MockBorrowerAsks

DemoTypeOK ==
  /\ useApi \in {"unknown", "api", "demo"}
  /\ requests = MockLoanRequests \/ requests \subseteq LedgerRequests
  /\ offers = MockLoanOffers \/ offers \subseteq LedgerOffers
  /\ loans = MockActiveLoans \/ loans \subseteq LedgerLoans
  /\ bids \in {MockLenderBids} \cup ({a.bids : a \in Answers} \ {{}})
  /\ asks \in {MockBorrowerAsks} \cup ({a.asks : a \in Answers} \ {{}})
  /\ profile \in {"mock", "api"} /\ stats \in {"mock", "api"}
  /\ loading \in BOOLEAN /\ error \in BOOLEAN
  /\ page \in [loggedIn : BOOLEAN, role : {"borrower", "lender"}, view : Views]
  /\ form \in [FormKinds -> {"closed", "open", "busy"}]
  /\ offerDialog \in Ids(MockLoanRequests) \cup Ids(LedgerRequests) \cup {None}
  /\ job \in [Jobs \cup {First} -> JobRecords]
  /\ \A j \in DOMAIN job : ~Busy(j) => job[j] = NoJob
  \* a busy form waits for one job of its own
  /\ \A k \in FormKinds :
       Cardinality({j \in DOMAIN job : job[j].kind = k /\ job[j].for = "own"})
         = IF form[k] = "busy" THEN 1 ELSE 0
  /\ loading => \E j \in DOMAIN job : job[j].pc = "load"
  \* without the API there is nothing but mock rows and the bid form's timer
  /\ useApi # "api" => OnMock /\ ~error /\ \A j \in DOMAIN job : job[j].pc \in {"idle", "timer"}

Init ==
  /\ useApi = "unknown"
  /\ OnMock
  /\ loading = FALSE /\ error = FALSE
  /\ page = [loggedIn |-> FALSE, role |-> "borrower", view |-> "overview"]
  /\ form = [k \in FormKinds |-> "closed"] /\ offerDialog = None
  /\ job = [j \in Jobs \cup {First} |-> NoJob]

-----------------------------------------------------------------------------
(* What the dashboards list. *)

\* The literals are the names of the mock users.
MyRequests   == {r \in requests : r.borrower = "app-user"}
MyLoans      == {l \in loans : l.borrower = "app-user"}
FundedLoans  == {l \in loans : l.lender = "lender"}

OpenRequests(rows) == {r \in rows : r.status = "open"}

\* The offer dialog is part of its request's row: without the row there is none.
HasRow(id, rows) == id \in Ids(OpenRequests(rows))

On(view) == page.loggedIn /\ page.view = view

\* The forms of the dashboard of each view.
FormsOf(view) ==
  CASE view = "borrower" -> {"request"} [] view = "lender" -> {"offer", "bid"}
    [] OTHER -> {}

-----------------------------------------------------------------------------
(* The order book view: market-depth.tsx over aggregateOrderBook. *)

Volume(orders) == SumFunction([o \in orders |-> o.amount])

Tier(rate, orders) ==
  LET same == {o \in orders : o.rate = rate}
  IN [rate |-> rate, totalAmount |-> Volume(same), count |-> Cardinality(same)]

\* Bug: an order replaces what its rate has so far.
AggregateOrderBook_LastOnly(orders) ==
  {[rate |-> o.rate, totalAmount |-> o.amount, count |-> 1] : o \in orders}

\* One side; the order of the tiers on screen is by rate, the best first.
AggregateOrderBook(orders) == {Tier(o.rate, orders) : o \in orders}

BarsAt(rate) ==
  LET side(book) == IF \E t \in book : t.rate = rate
                    THEN (CHOOSE t \in book : t.rate = rate).totalAmount ELSE 0
  IN [bids |-> side(AggregateOrderBook(bids)), asks |-> side(AggregateOrderBook(asks))]

DepthChart == [rate \in {o.rate : o \in bids \cup asks} |-> BarsAt(rate)]

\* bestAsk and bestBid, zero when there is none: a positive difference is an overlap.
BestBid == IF bids = {} THEN 0 ELSE Min({t.rate : t \in AggregateOrderBook(bids)})
BestAsk == IF asks = {} THEN 0 ELSE Max({t.rate : t \in AggregateOrderBook(asks)})

\* "N/A", the empty set here, when either is zero.
ShownSpread == IF BestAsk > 0 /\ BestBid > 0 THEN {BestAsk - BestBid} ELSE {}

\* The background of each row, in percent of its width: the deepest tier fills it.
OrderBookSide(book) ==
  LET maxAmount == Max({t.totalAmount : t \in book} \cup {1})
  IN [t \in book |-> (t.totalAmount * 100) \div maxAmount]

MarketDepth ==
  [bidLiquidity |-> Volume(bids), askDemand |-> Volume(asks),
   spread |-> ShownSpread, activeOrders |-> Cardinality(bids) + Cardinality(asks),
   chart |-> DepthChart,
   bidRows |-> OrderBookSide(AggregateOrderBook(bids)),
   askRows |-> OrderBookSide(AggregateOrderBook(asks))]

-----------------------------------------------------------------------------
(* Dialogs and the calls that serve them. *)

\* The forms are f now.  A call whose form is gone serves its dashboard still.
SetForms(f, jobs) ==
  /\ form' = f
  /\ job' = [j \in DOMAIN jobs |->
              IF jobs[j].for = "own" /\ f[jobs[j].kind] # "busy"
              THEN [jobs[j] EXCEPT !.for = "dashboard"] ELSE jobs[j]]

Done(j) == [job EXCEPT ![j] = NoJob]

\* Job j ends well with these request rows on screen: onClose shuts the dialog of its
\* kind, whoever opened it; an offer dialog follows its row.
Close(j, rows) ==
  LET shut   == IF job[j].for = "none" THEN {} ELSE {job[j].kind}
      dialog == IF "offer" \in shut THEN None ELSE offerDialog
      offer  == IF ~HasRow(dialog, rows) THEN "closed"
                ELSE IF HasRow(dialog, requests) THEN form["offer"] ELSE "open"
  IN /\ offerDialog' = dialog
     /\ SetForms([k \in FormKinds |-> IF k \in shut THEN "closed"
                                      ELSE IF k = "offer" THEN offer ELSE form[k]],
                 Done(j))

\* Bug: the forms go, their calls hold on to them.
Unmount_KeepsCalls ==
  /\ form' = [k \in FormKinds |-> "closed"] /\ offerDialog' = None
  /\ UNCHANGED job

\* The dashboard goes: its dialogs too, and no call finds a form or a dashboard.
Unmount ==
  /\ form' = [k \in FormKinds |-> "closed"] /\ offerDialog' = None
  /\ job' = [j \in DOMAIN job |-> [job[j] EXCEPT !.for = "none"]]

-----------------------------------------------------------------------------
(* The hook: availability and loads. *)

UseMock ==
  /\ requests' = MockLoanRequests /\ offers' = MockLoanOffers /\ loans' = MockActiveLoans
  /\ profile' = "mock" /\ stats' = "mock"
  /\ bids' = MockLenderBids /\ asks' = MockBorrowerAsks

ApiFound ==
  /\ useApi = "unknown"
  /\ useApi' = "api"
  /\ loading' = TRUE /\ error' = FALSE
  /\ job' = [job EXCEPT ![First] = [NoJob EXCEPT !.pc = "load"]]
  /\ UNCHANGED <<listVars, page, form, offerDialog>>

ApiMissing ==
  /\ useApi = "unknown"
  /\ useApi' = "demo"
  /\ UseMock
  /\ loading' = FALSE
  /\ UNCHANGED <<error, page, form, offerDialog, job>>

\* A profile that is not found and a book that is empty are replaced by the mock ones;
\* stats that cannot be had are left as they are.
LoadDone(j, a) ==
  /\ job[j].pc = "load"
  /\ requests' = a.requests /\ offers' = a.offers /\ loans' = a.loans
  /\ profile' = IF a.profile THEN "api" ELSE "mock"
  /\ bids' = IF a.bids # {} THEN a.bids ELSE MockLenderBids
  /\ asks' = IF a.asks # {} THEN a.asks ELSE MockBorrowerAsks
  /\ stats' = IF a.stats THEN "api" ELSE stats
  /\ loading' = FALSE
  /\ Close(j, requests')
  /\ UNCHANGED <<useApi, error, page>>

\* Bug: the profile on screen is kept.
LoadFails_KeepsProfile(j) ==
  /\ job[j].pc = "load"
  /\ requests' = MockLoanRequests /\ offers' = MockLoanOffers /\ loans' = MockActiveLoans
  /\ bids' = MockLenderBids /\ asks' = MockBorrowerAsks
  /\ error' = TRUE /\ loading' = FALSE
  /\ Close(j, MockLoanRequests)
  /\ UNCHANGED <<useApi, profile, stats, page>>

\* refresh() catches the failure: to its caller it has ended well.
LoadFails(j) ==
  /\ job[j].pc = "load"
  /\ UseMock
  /\ error' = TRUE /\ loading' = FALSE
  /\ Close(j, MockLoanRequests)
  /\ UNCHANGED <<useApi, page>>

-----------------------------------------------------------------------------
(* Commands. *)

Start(j, kind, target, for, pc) ==
  /\ j \in Jobs /\ ~Busy(j)
  /\ job' = [job EXCEPT ![j] = [pc |-> pc, kind |-> kind, target |-> target, for |-> for]]

\* The API has done it, which it cannot for a mock row; the reload starts.
CommandDone(j) ==
  /\ job[j].pc = "command" /\ job[j].target \notin MockIds
  /\ job' = [job EXCEPT ![j].pc = "load"]
  /\ loading' = TRUE /\ error' = FALSE
  /\ UNCHANGED <<useApi, listVars, page, form, offerDialog>>

\* Bug: setLoading(false) is not in a finally.
CommandFails_StaysBusy(j) ==
  /\ job[j].pc = "command"
  /\ job' = Done(j)
  /\ UNCHANGED <<useApi, listVars, loading, error, page, form, offerDialog>>

\* A form that still waits shows the reason; a button shows nothing.
CommandFails(j) ==
  /\ job[j].pc = "command"
  /\ form' = IF job[j].for = "own" THEN [form EXCEPT ![job[j].kind] = "open"] ELSE form
  /\ job' = Done(j)
  /\ UNCHANGED <<useApi, listVars, loading, error, page, offerDialog>>

\* The bid form sends nothing: after 1.5 seconds it closes.
BidTimer(j) ==
  /\ job[j].pc = "timer"
  /\ Close(j, requests)
  /\ UNCHANGED <<useApi, listVars, loading, error, page>>

\* handleSubmit.  Without the API the hook's function returns at once and the form
\* closes as it does after a submission.
Submit(k, j) ==
  /\ page.loggedIn /\ k \in FormsOf(page.view) /\ form[k] = "open"
  /\ IF k = "bid" \/ useApi = "api"
     THEN /\ Start(j, k, IF k = "offer" THEN offerDialog ELSE None, "own",
                   IF k = "bid" THEN "timer" ELSE "command")
          /\ form' = [form EXCEPT ![k] = "busy"]
          /\ UNCHANGED offerDialog
     ELSE /\ form' = [form EXCEPT ![k] = "closed"]
          /\ offerDialog' = IF k = "offer" THEN None ELSE offerDialog
          /\ UNCHANGED job
  /\ UNCHANGED <<useApi, listVars, loading, error, page>>

\* Accept needs the id of a profile, which the mock one has not.
Accept(o, j) ==
  /\ On("borrower") /\ o \in offers /\ profile = "api" /\ useApi = "api"
  /\ Start(j, "accept", o.id, "none", "command")
  /\ UNCHANGED <<useApi, listVars, loading, error, page, form, offerDialog>>

\* Bug: a click takes back what the last load reported.
Repay_ClearsError(l, j) ==
  /\ On("borrower") /\ l \in MyLoans /\ l.status = "active" /\ useApi = "api"
  /\ Start(j, "repay", l.id, "none", "command")
  /\ error' = FALSE
  /\ UNCHANGED <<useApi, listVars, loading, page, form, offerDialog>>

Repay(l, j) ==
  /\ On("borrower") /\ l \in MyLoans /\ l.status = "active" /\ useApi = "api"
  /\ Start(j, "repay", l.id, "none", "command")
  /\ UNCHANGED <<useApi, listVars, loading, error, page, form, offerDialog>>

MarkDefault(l, j) ==
  /\ On("lender") /\ l \in FundedLoans /\ l.status = "active" /\ useApi = "api"
  /\ Start(j, "default", l.id, "none", "command")
  /\ UNCHANGED <<useApi, listVars, loading, error, page, form, offerDialog>>

-----------------------------------------------------------------------------
(* The page. *)

Login(role) ==
  /\ ~page.loggedIn
  /\ page' = [loggedIn |-> TRUE, role |-> role, view |-> role]
  /\ UNCHANGED <<useApi, listVars, loading, error, form, offerDialog, job>>

\* The hook's lists and calls outlive the session.
Logout ==
  /\ page.loggedIn
  /\ page' = [page EXCEPT !.loggedIn = FALSE, !.view = "overview"]
  /\ Unmount
  /\ UNCHANGED <<useApi, listVars, loading, error>>

\* Every view is open to both roles.
SwitchView(v) ==
  /\ page.loggedIn /\ page.view # v
  /\ page' = [page EXCEPT !.view = v]
  /\ Unmount
  /\ UNCHANGED <<useApi, listVars, loading, error>>

\* Only one dialog at a time: the open one covers the buttons of the others.
OpenForm(k) ==
  /\ page.loggedIn /\ k \in FormsOf(page.view) \ {"offer"}
  /\ \A f \in FormKinds : form[f] = "closed"
  /\ form' = [form EXCEPT ![k] = "open"]
  /\ UNCHANGED <<useApi, listVars, loading, error, page, offerDialog, job>>

OpenOffer(r) ==
  /\ On("lender") /\ r \in OpenRequests(requests)
  /\ \A f \in FormKinds : form[f] = "closed"
  /\ form' = [form EXCEPT !["offer"] = "open"] /\ offerDialog' = r.id
  /\ UNCHANGED <<useApi, listVars, loading, error, page, job>>

CloseForm(k) ==
  /\ form[k] # "closed"
  /\ offerDialog' = IF k = "offer" THEN None ELSE offerDialog
  /\ SetForms([form EXCEPT ![k] = "closed"], job)
  /\ UNCHANGED <<useApi, listVars, loading, error, page>>

Next ==
  \/ ApiFound \/ ApiMissing
  \/ \E j \in DOMAIN job : \/ (\E a \in Answers : LoadDone(j, a)) \/ LoadFails(j)
                           \/ CommandDone(j) \/ CommandFails(j) \/ BidTimer(j)
  \/ \E j \in Jobs : \/ \E k \in FormKinds : Submit(k, j)
                     \/ \E o \in offers : Accept(o, j)
                     \/ \E l \in loans : Repay(l, j) \/ MarkDefault(l, j)
  \/ \E role \in {"borrower", "lender"} : Login(role)
  \/ Logout \/ \E v \in Views : SwitchView(v)
  \/ \E k \in FormKinds : OpenForm(k) \/ CloseForm(k)
  \/ \E r \in requests : OpenOffer(r)

\* A call ends one way or the other, and timers fire.
Fairness ==
  /\ WF_vars(ApiFound \/ ApiMissing)
  /\ \A j \in Jobs \cup {First} :
       /\ WF_vars((\E a \in Answers : LoadDone(j, a)) \/ LoadFails(j))
       /\ WF_vars(CommandDone(j) \/ CommandFails(j))
       /\ WF_vars(BidTimer(j))

Spec == Init /\ [][Next]_vars /\ Fairness

-----------------------------------------------------------------------------
(***************************************************************************)
(* Properties.                                                             *)
(***************************************************************************)

\* With the API in use mock requests, offers or loans are on screen only beside an
\* error or while a load is under way, however loads overlap: a user is never left on
\* the demo's rows of these three unawares.  (The catch of refresh, and Promise.all: no
\* list is set before all are there.)  Mock bids, asks and profile are no part of this:
\* a load that brings none leaves them on screen without an error.
MockExplained ==
  useApi = "api" /\ (\/ requests = MockLoanRequests \/ offers = MockLoanOffers
                     \/ loans = MockActiveLoans)
    => error \/ \E j \in DOMAIN job : job[j].pc = "load"

\* Accept is never submitted for a mock offer, though mock offers come back under a
\* failed load, for the profile goes with them; Repay and Mark Default are never
\* submitted for anything but a mock loan, which the API does not know, since the
\* sections they belong to filter by the names of the mock users.
SubmittedRows ==
  \A j \in DOMAIN job :
    /\ job[j].kind = "accept" => job[j].target \in Ids(LedgerOffers)
    /\ job[j].kind \in {"repay", "default"} => job[j].target \in MockIds

\* The order book view: one tier for a rate, the rows of the tables and the columns of the
\* chart each add up to the totals of the header, the rows' bars keep within the table,
\* and the spread is above zero exactly when some bid asks for less than some ask would
\* pay; "N/A" is shown where a bid asks for nothing or no ask pays anything.
DemoBookAddsUp ==
  On("orderbook") =>
  LET depth == MarketDepth
      Total(rows) == SumFunction([t \in DOMAIN rows |-> t.totalAmount])
      Count(rows) == SumFunction([t \in DOMAIN rows |-> t.count])
  IN
  /\ \A rows \in {depth.bidRows, depth.askRows} : \A s, t \in DOMAIN rows :
       (s.rate = t.rate => s = t) /\ rows[t] <= 100
  /\ Total(depth.bidRows) = depth.bidLiquidity /\ Total(depth.askRows) = depth.askDemand
  /\ Count(depth.bidRows) + Count(depth.askRows) = depth.activeOrders
  /\ SumFunction([r \in DOMAIN depth.chart |-> depth.chart[r].bids]) = depth.bidLiquidity
  /\ SumFunction([r \in DOMAIN depth.chart |-> depth.chart[r].asks]) = depth.askDemand
  /\ \A s \in depth.spread : s > 0 <=> \E b \in bids, a \in asks : b.rate < a.rate
  /\ depth.spread = {} <=> (\E b \in bids : b.rate = 0) \/ \A a \in asks : a.rate = 0

\* A form that says "Submitting..." does not say so for ever, whatever fails.
FormsFinish == \A k \in FormKinds : form[k] = "busy" ~> form[k] # "busy"
=============================================================================
