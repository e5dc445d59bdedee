# A TLA+ model of the lending platform

The repository is a lending platform on a Daml ledger: borrowers ask for money,
lenders offer it, loans are funded and repaid directly or through the token
standard, and a platform operator runs an order book that matches lenders' bids
with borrowers' asks. The Daml package (`quickstart/daml/licensing`) holds the
contracts; a Spring backend (`quickstart/backend`) submits the commands and reads
the ledger through PQS, a SQL index that lags it; a Next.js dashboard
(`quickstart/frontend`) loads lists from the backend, submits commands to it and
polls the order book; `denver-lending-platform` is a demo client of its own, which
works on mock data until it finds a backend.

This directory models all four layers, checks them with TLC on small instances, and
proves with TLAPS, for every instance, each property that the passing runs check but
the four liveness properties.

## Inventory

| component | state | operations | modelled in |
|---|---|---|---|
| Credit profile (`Loan/CreditProfile.daml`) | score, counters | record a repayment, record a default; both archive the profile contract and create its successor | `CreditProfile`, `LoanLedger` |
| Loan contracts (`Loan/LoanRequest`, `LoanOffer`, `Loan`, `LoanRepaymentRequest.daml`) | requests and their disclosures, offers, funding intents, principal requests, loans, repayment requests | create, withdraw, disclose, accept (direct or with token), confirm, complete funding, repay, default, request and complete a token repayment | `LoanLedger`, specified by `LoanAgreement` |
| Loan API (`LoanApiImpl`, `LoanRequestsApiImpl`, `CreditProfileApiImpl`) | none of its own | looks contracts up in PQS, submits one or two commands per call, lists contracts | commands in `LoanLedger`, listings in `LoanDesk` |
| Loan screens (`borrower-dashboard.tsx`, `lender-dashboard.tsx`) | none of their own | filter the lists, show or disable buttons | `LoanDesk` |
| Token allocations and wallet (external) | unlocked and locked holdings, open allocations | allocate, withdraw, execute a transfer | `LoanLedger`, `Licensing` |
| Order book contracts (`Loan/MarketMaker.daml`) | bids with their remaining amount, asks, proposals | post, cancel, match, accept, reject, withdraw | `MarketMaker` |
| Matching service (`MarketMakerService`) | cycles in progress, a running flag | timer, cycle after each post, `/market/match` | `MatchingService` |
| Market maker API (`MarketMakerApiImpl`) | none of its own | post, cancel, accept and reject for the parties | `MarketMaker`, `MarketMakerApi` |
| Order book view (`OrderBookService`, `order-book.tsx`, `market-depth.tsx`) | the book on screen, calls under way | aggregate into tiers, derive figures, rows and bars; poll, refresh | `OrderBookView`, `BookScreen` |
| Licensing (`Licensing/*.daml` and its API) | install requests, installs, licenses, renewals | accept, issue, cancel, renew, complete, expire | `Licensing` |
| Dashboard session (`page.tsx`, `login-screen.tsx`, `use-denver-data.ts`) | who is logged in, the lists shown, calls under way | check, log in, log out, load, retry, submit | `DashboardSession` |
| Demo client (`denver-lending-platform`) | lists, mock or loaded, forms, timers, views | look for the API, load, fall back, submit, switch views | `DenverDemo` |
| Ledger and PQS clients | the index | submit, query | as the lag and the failures of `MatchingService`, `DashboardSession`, `BookScreen` |
| Tenant registration, authentication, remaining interface, deployment | | | not modelled, see below |

How they interact: every change is a Daml transaction, which is atomic and either
commits or aborts as a whole; the parties' clients race each other on contracts
that any of them may archive; the backend and the frontends decide on what the
index showed some time ago; the token standard locks and moves holdings under
allocations whose life is not tied to that of the loan contracts; in the browser,
loads, polls, timers and commands run side by side, nothing cancels most of them,
and they end in any order, after the dialog, view or session they began in.

What is hard: two acceptances of one request in progress at a time by different
paths; contract ids kept by one contract of another that is meanwhile replaced;
choices that need two parties, submitted for one; settlements against deadlines;
allocations that outlive what they were made for;
partial fills in any order; overlapping matching cycles on stale reads; calls
whose answer is lost; answers that overtake each other on a screen; filters of a
screen that must agree with controllers of choices written elsewhere.
`PROJECT.json` lists each at its line under `hazards`, with the properties that
would catch it going wrong.

What makes each component correct: a request is funded once, on agreed terms, and
money moves only with a loan or its repayment; a credit history counts exactly the
loans closed in it; liquidity is neither lost from a bid nor matched twice; matches
keep to the limits posted and to the best price; a renewal fee is paid once and buys
the time it was asked for; a screen belongs to the user shown, goes back in time only
for a known reason, offers what the contracts allow, and adds up.

## Modules

`CreditProfile` holds the record of a credit profile and the two functions the
consuming choices apply to it. No run closes the 25 loans it takes to reach 850; that
the score stays in bounds over any history is proved (`ScoresAlwaysAccounted`).

`LoanLedger` is the core. Each template is a function from contract ids to contracts;
one action is one choice, with everything it fetches, checks, archives and creates. An
archived contract keeps its entry and remembers which choice archived it, as the
transaction log does; the properties relate such histories. Ids are handed out in order,
which loses nothing since they are opaque. Choice arguments a client caches (a profile
id, a disclosed request) range over contracts that existed, archived ones included. A
command carries the authority of its submitters and sees their contracts. The backend
submits for the caller alone, the scripts of the package also for lender and borrower
together: `JointSubmissions` says which parties do, and `SubmittedFor` guards the
choices that need two of them, `CompleteFunding` for its controllers, the closings for
the borrower's profile that the lender cannot see. `wallet`, `escrow` and `allocated`
stand for the token standard, which is not in the repository: an allocation is keyed by
the request it settles, because the settlement's `requestedAt` and reference make it
match no other. `LoanAgreement` is the abstract specification: needs, debts, cash and
credit histories, without offers, intents, allocations or ids. `LoanLedger` refines it
(`ImplementsAgreement`); the refinement mapping is at the end of the module.

`LoanDesk` puts the two dashboards over `LoanLedger`: what the backend lists to a party
(including the disclosure that listing does on the way), what each section of a screen
keeps of it and which buttons it offers. Two properties hold the screens against the
contracts, from both sides: `WorkIsOffered` (what the contracts let a party do next, a
fresh screen offers, but for the exceptions it names) and `RefusalsExplained`. The
second goes by who calls: `Commits(p, c)` is what the backend does with p's command when
it submits it for p alone, and `Reason(p, c)` names what may be wanting, which is
something that happened since, a deadline, holdings that are short, one's own offer
(listed beside the others', 403), or the borrower's part in a choice that the lender
submits. One gap shows in `HiddenByTerms`: the backend recognises what it disclosed
before by terms instead of by id (`LoanRequestsApiImpl.java:90`), so a second request on
the terms of an earlier one is not shown to a lender who saw the first.

`MarketMaker` is the order book as the ledger enforces it: any pair `MatchOrders`
commits may be matched. `MatchingService` extends it with the index, the matching cycles
(the scheduled one, guarded by the running flag, and triggered ones, which are not
guarded), failing calls and answers that are lost. Every change of the book it makes is
an action of the book, so what is proved of the book holds for the service too; its own
properties are about the cycles. `MatchOrders` consumes an ask whole, so the part its
bid does not fill leaves the book; only a bid keeps a remainder. A cycle's nested loop
over sorted lists is the choice of the next pair among those not tried yet.
`MarketMakerApi` adds who calls accept and reject.

`OrderBookView` is what people see of the book: `buildOrderBook`'s tiers and spread, the
totals, rows, bars and chart columns of `order-book.tsx` and `market-depth.tsx`, the
badge of a bid, and a party's own orders and proposals. The code sorts tiers by rate
only, so a table is any of the sequences that fall by rate (`OrderBookHalf`, which
leaves the bars behind its rows out) and its property is about all of them. All are
functions of the book, so its properties are invariants of the `MarketMaker` run.
`BookScreen` is how a book gets on screen: the interval, the Refresh button and the
hook's loads ask for it, as many loads at a time as there are, for nothing keeps one
from beginning beside another; the two queries behind an answer read a lagging index one
after the other, answers arrive in any order, and the view can close and open meanwhile.
A book is known there by the age of its two sides, and a call by what PQS showed when it
was made: its two queries read anything from then on.

`DashboardSession` is the browser side of the application: login, logout, the
start-up check, and the hook's async functions as jobs that no one cancels. A load
sends its requests at once, with the cookie the browser holds then; each is answered to
the user of that cookie, with what PQS shows when the server gets to it, and the lists
go on screen together once the last is there. `getUser` may find a user or nobody, or
throw, since it returns `res.json()` without awaiting it. The Sign-out buttons are not
disabled, so several logouts can be in progress. Commands reload the lists after a delay,
`Attempts` times. The contents of a list are the user they belong to and the number of
ledger changes they reflect.

`DenverDemo` is the demo client: the one check for an API, loads and their fall-back
to mock rows, forms, buttons, timers, views, and the mock order book with its
aggregation. Rows keep ids, parties, status, rates and amounts, since its filters go
by the names of the mock users. What the API may list and answer is a parameter: any
finite books with rates and amounts in range (a rate of zero, which makes the spread
"N/A", included), any ids but the mock ones, and any parties but the mock users.

`Licensing` models the licensing contracts in the manner of `LoanLedger`.

The `MC` modules fix the parties, windows, rows and answers of the instances.

## Runs

| run | module | what it asks |
|---|---|---|
| `Origination` | `MCLoanLedger` | types; each request is funded at most once, on agreed terms, principal moving with the loan |
| `TokenLifecycle` | `MCLoanLedger` | holdings are explained by settled legs, credit histories count the loans closed, the contracts implement `LoanAgreement`, the screens offer what the contracts allow |
| `OrderBook` | `MCMarketMaker` | liquidity conserved through partial fills, orders matched once, proposals within limits; tiers, spread, badges and lists tell the truth about the book |
| `OrderMatching` | `MCMatchingService` | a finished cycle, on a stale index and beside another, leaves nothing of what it read that could be matched; no better price of either side is passed over; nothing that crosses stays on the book |
| `LicenseRenewal` | `MCLicensing` | license numbers unique, fees paid once, paid time kept |
| `Session` | `MCDashboardSession` | lists belong to the user shown, but for what a load from before the session left; loads do not go back in time; the bar stands for a load; every call returns |
| `BookScreen` | `MCBookScreen` | the book on screen goes back only by an overtaken answer, however the hook's loads overlap, and settles on the market |
| `Demo` | `MCDenverDemo` | mock requests, offers and loans are on screen only with an error or beside a load; a mock offer is never accepted and a loan of the ledger never repaid or defaulted; the book adds up; forms finish |
| `PinnedProfile` (violation) | `MCLoanLedger` | an active loan's profile contract is active |
| `LateRepayment` (violation) | `MCLoanLedger` | a token repayment is settled while its loan is active |
| `UnilateralAccept` (violation) | `MCMarketMakerApi` | a loan needs both parties' accept calls |
| `RenumberedLicense` (violation) | `MCLicensing` | a renewal renews the license it was asked for |

Bounds, and why they are enough:

* `Origination`: two lenders, two requests, two offers, two intents, two loans, two
  amounts, a valid and an empty window, time to 2, no repayments. There is a second of
  everything that competes for a request, and a wrong amount to agree to.
* `TokenLifecycle`: one lender, two requests, offers and loans, three profile
  contracts (a duplicate, or a successor used again), one principal and one repayment
  request, one window, time to 2, and funds of 10 each, an amount's worth. A deadline is
  met, missed, and missed after allocating; a borrower has too little to repay, or enough
  once it was funded in tokens. Lender and borrower also submit together, or no joint
  choice would ever commit. 210,840 states.
* `OrderBook`: four posted orders, bids of 0 or 3 and at most two asks of 2, two rates and
  two durations. An amount is zero (a bid's), fills a part, or is more than what the first
  match left of the bid; one that fills it exactly is in `OrderMatching`, and an ask of
  zero is left to the theorems, which cover every amount. 442,149 states.
* `OrderMatching`: three posted orders, bids of 2 and asks of 1, two rates, a scheduled
  and a triggered cycle, one fault. Two bids of different rates can compete for an ask,
  and two asks of different rates for a bid and for its remainder, so a cycle can prefer
  wrongly on either side and two cycles can race. Zero amounts and a pair the ledger
  refuses every time are not met here; `MatchesAreBestPriced` and
  `CyclesClearTheirReads` hold with any. 512,945 states.
* `LicenseRenewal`: one user, three installations' worth of contracts, two renewals, two
  fees, two windows, time to 3.
* `Session`: two users, two core lists, two jobs, one change of the ledger, one fault, two
  attempts, two logouts. With two lists the answers of one load can be from different
  moments, and loads can land in another order than they were sent. Two jobs are a load of
  an earlier session beside one of the present, or a command beside a load. With two
  logouts one can end in the session after. 293,215 states.
* `BookScreen`: two changes, one fault, two overlapping loads of the hook beside a poll
  and a refresh. One answer can be older than another, and torn between two moments; a
  load can be overtaken by another that lands while the view is closed. 139,029 states.
* `Demo`: two jobs beside the first load, two answers (one with a request, an offer and
  bids, among them one of rate zero, but no asks; one with the loan made of them and asks,
  but no bids), any call failing any number of times. 122,736 states.

Contract ids bound each ledger run. `Bids` leaves room for every successor a reduction
creates (a match takes an ask for it, so there are no more bids than posted orders) and
`Proposals` for every ask, so those bounds never block a match. Amounts and rates are
few because the properties tell apart only equal, smaller and larger; rates are chosen
so that interest and mean are exact.

Deadlock is checked for `BookScreen` and `Demo`, which always have a next step. It is
not checked for the others: time, contract ids, changes and jobs are bounded, so a
behaviour may end where the bounds do, and the programs are idle when no client acts.

### Fairness

* `MatchingService`: the index eventually follows the ledger, and the timer
  (`@Scheduled(fixedDelay = 5000)`) makes the scheduled cycle go on. Nothing is assumed
  of triggered cycles. `MaxFaults` bounds failing calls: a ledger that fails for ever
  matches nothing.
* `DashboardSession` and `DenverDemo`: a request that was sent is answered or fails, a
  timer that was set fires, a callback that is due runs. A request that neither ends nor
  fails would leave a form "Submitting..."; the browser ends those. That a logout ends is
  not needed and not assumed.
* `BookScreen`: the same for every call, each load of the hook by itself, the interval
  fires while the view is open (`order-book.tsx`), and the index follows the ledger.

Nothing makes a user or a client act.

### What the violations show

* A loan keeps the contract id of the profile it was made with, and the profile's
  choices are consuming: once one of a borrower's loans is closed, another made
  with the same profile contract can be neither repaid nor defaulted.
* A repayment request does not fetch its loan: after a direct repayment it can
  still be settled, and the borrower pays twice.
* `acceptMatchedProposal` submits for both parties, so the loan exists after one
  party's call.
* License numbers restart with a new installation while licenses of the cancelled
  one live on, and a renewal finds its license by number.

### Seen on the way, and no run

* `market-depth.tsx:56` takes the first tier of a rate for its chart, and its rows use
  `side-rate` for their keys (`:172`), while tiers differ by duration too: the chart
  shows a part of the depth where two durations meet at one rate. The property
  `DepthAddsUp` therefore asks of the bars that they show no more than there is. A tier
  can be below zero (the API posts negative amounts unchecked), and beside one a bar may
  well show more than their sum, so it asks this of rates without such a tier only; the
  proof needs that premise and TLC's amounts, none of them negative, did not show it.
* A tenant that is lender and borrower at once may offer on its own request: the
  contracts allow it and the lender's screen hides the row, so only a direct call to the
  backend gets there. `WorkIsOffered` names it as an exception. The instance of
  `TokenLifecycle` has no such tenant; the attempt to prove the property found the case,
  and TLC confirmed it on an instance with one.
* The comment at `LoanRequestsApiImpl.java:76` takes the disclosing choice for
  consuming; it is not, and the request stays open beside its disclosures.
* A rejected or withdrawn proposal returns neither the bid's liquidity nor the ask to
  the book (`MarketMaker.daml:145`).
* Three buttons of the lender's screen lead to a choice that the lender alone cannot
  submit: `completeLoanFunding` (`LoanApiImpl.java:581`) submits for the lender a choice
  whose controllers are lender and borrower (`LoanOffer.daml:157`);
  `completeLoanRepayment` (`:710`) and `markLoanDefault` then exercise the borrower's
  credit profile (`Loan.daml`), which the lender is no stakeholder of. They commit when
  both submit, as the package's scripts do, or when lender and borrower are one tenant.
* A tenant's own offers are listed on its borrower's screen with an Accept button
  (`borrower-dashboard.tsx:470`), which the API answers with 403 (`LoanApiImpl.java:399`).
* `getUser` returns `res.json()` without awaiting it (`api.ts:57`), so its `catch` does
  not see a body that breaks off, and `checkAuth` (`use-denver-data.ts:131`) has none:
  the page stays on its start screen. `CallsReturn` excepts this case.
* Nothing cancels a load when the session ends: its rows come on screen in the session
  after, if they land last. `OwnData` excepts this case, as the code has no guard against
  it and no word on it. Likewise the progress bar goes with the first load that ends, also
  while another is under way.
* A loan can be marked as defaulted after its token repayment was settled, as long as
  `Loan_CompleteRepaymentReceived` has not been exercised.
* The demo client keeps mock bids, asks and profile on screen, without an error, when the
  API has none; its Offer button works on mock requests and its Repay and Mark Default
  buttons on mock loans, so these ids do reach the API, which does not know them.
* `completeLoanRepayment` (`LoanApiImpl.java:700`) settles in one transaction and closes
  the loan in another. The state between is a state of `LoanLedger`, where the two are
  actions of their own, and holdings are still explained in it; that the second follows
  is not asserted anywhere in the repository.

## Proofs

| module | about | theorems |
|---|---|---|
| `LoanLedgerProofs` | `LoanLedger`, `LoanDesk` | `TypeCorrect`, `FundedOnce`, `TermsAgreedForever`, `FundingIsAtomic`, `ScoresAlwaysAccounted`, `CreditHistoryExact`, `LoansImplementAgreement`, `HoldingsAlwaysExplained`, `RefusalsAlwaysExplained`, `WorkAlwaysOffered` |
| `MarketMakerProofs` | `MarketMaker`, `OrderBookView` | `BookTypeCorrect`, `NoOrderMatchedTwice`, `ProposalsAlwaysWithinLimits`, `LiquidityAlwaysConserved`, `BadgesTellFills`, `OrdersAlwaysInView`, `DepthAlwaysAddsUp`, `SpreadAlwaysTellsCrossing` |
| `MatchingServiceProofs` | `MatchingService` | `ServiceTypeCorrect`, `ServiceKeepsOrders`, `ServiceConservesLiquidity`, `CyclesClearTheirReads`, `MatchesAreBestPriced` |
| `BookScreenProofs` | `BookScreen` | `ScreenTypeCorrect`, `OnlyOvertakenAnswersGoBack` |
| `LicensingProofs` | `Licensing` | `LicensingTypeCorrect`, `NumbersAlwaysUnique`, `FeesAlwaysPaidOnce`, `FeesAlwaysBuyTime` |
| `DashboardSessionProofs` | `DashboardSession` | `SessionTypeCorrect`, `BarAlwaysHasLoad`, `DataAlwaysOwn`, `ScreenNeverGoesBack` |
| `DenverDemoProofs` | `DenverDemo` | `DemoTypeCorrect`, `MockAlwaysExplained`, `SubmitsOnlyTheseRows`, `DemoBookAlwaysAddsUp` |
| `Sums` | sums over finite sets | lemmas the others cite |

All hold for every set of parties, amounts, rates, windows, contract ids, cycles,
users, lists, jobs, changes and faults that meets the named assumptions of the modules:

* joint submissions are for sets of parties, any (`LedgerAssumption` of `LoanLedger`), so
  the theorems hold with none and with all;
* the sets are sets of numbers (`LedgerAssumption` and `IdAssumption` of `LoanLedger`,
  `LicensingAssumption`, `BookAssumption`, `FaultsAssumption`, `ScreenAssumption`,
  `SessionAssumption`); amounts on the order book may be zero or negative;
* the constants for "none" are no contract, no record, no bid, no book and no user
  (`NoContractAssumption`, `NoRecordAssumption`, `NoLicensingContractAssumption`,
  `NoOrderAssumption`, `NoBidAssumption`, `ScreenAssumption`, `SessionAssumption`);
* the load of the demo client that the availability check makes is no job of a button
  or form (`JobAssumption`), and what its API answers is as said above
  (`LedgerAssumption` of `DenverDemo`).

Sets of contracts are not assumed finite. Where a sum or a count needs that the
contracts created so far are finitely many, this is a part of the inductive invariant:
a step creates a few.

### Sums

Wallets, liquidity, fees and tiers are sums of a function over a finite set, by the
library's `SumFunction`, a fold that takes the elements in whatever order CHOOSE gives.
`Sums` shows what it is without citing an induction theorem that takes an operator:
`SubsetInduction` is about a *set* of good subsets, and follows from the strict subset
ordering being well founded (`FS_StrictSubsetOrderingWellFounded`). From it come that the
fold's recursion has a solution, that any element can be taken out first (`SumOut`), and
what the models need: a sum grows by what is added (`SumGrows`), moves with an element
(`SumMoves`), is the sum of its classes (`SumPartition`), bounds each of its terms
(`SumBounds`); and a finite set has a greatest and a least element by any integer
function (`HasGreatest`, `HasLeast`).

### Loan contracts and their screens

Types: `TypeOK` is inductive by itself; one lemma per group of actions. It needs
that a profile's record stays within bounds under both functions, which the lemmas
`SuccessAccounted` and `DefaultAccounted` give.

Funding: `FundingInv` adds to the three properties what makes them inductive. Terms
are copied from offer to intent to principal request to loan, so `TermsHold` states
the agreement for every contract on the way. `OfferUsedOnce` says that an accepted
offer stands for exactly one of the contracts that carry its terms: without it a
second loan could come from an offer taken before. That a request is funded once
then follows because both paths fetch and archive it in the transaction that
creates the loan.

Credit: `CreditInv` says that each chain of profile contracts has one active
contract and that its counters are the cardinalities of the sets of loans closed
through the chain. A closing step adds one loan to one of these sets and replaces
the active contract; the proof needs that the set of loans is finite, and that a
loan's pinned profile exists (`ProfilesKnown`).

Agreement: every choice is a step of `LoanAgreement` or invisible to it. Beside the
funding and credit invariants, `RefinementInv` says that chains hang on their first
contract (`ChainsRooted`), so a closing writes one entry into one history; that a
repayment request asks what its loan owes (`RepaymentsOwed`); and that what a party
has locked is the sum of its open allocations (`EscrowCovers`), so executing one does not
take another's. The mapping finds a chain's active contract with CHOOSE;
`HistoriesTold` says which one that is.

Holdings: `HoldingsInv` adds that the settled legs are finitely many, none of them
allocated, and that the cash of the agreement is the first funds with the settled legs
received and sent (`SettlementsExplained`). Settling moves one key from the allocated to
the settled legs; a leg's amount does not change after it is made, so the other terms of
both sums stay.

Screens: `DeskInv` adds to the funding and credit invariants that an offer names a
request of its borrower (`OffersFit`), and that a profile contract is archived only by a
loan that closed through it (`SpentProfilesClosed`). The second is what explains a
refused repayment. That lender and borrower of a settled request are those of its loan
(`RepaymentsOwed`) makes the authority its two submissions need the same.
`WorkAlwaysOffered` goes through the commands one by one: what a step archives or
creates was, before it, in the list and the section of the screen that offers the
command.

### Order book and its view

`BookInv` adds to the properties that a proposal refers to orders that exist
(`ProposalsRefer`), which `BookTypeCorrect` states beside the types. A match takes an
open order, from which by `OrdersMatchedOnce` nothing was proposed yet, and no step
changes anything of an order but its state, so an old proposal stays within its limits.

Liquidity: a reduced bid lives on as its successor, so what a lender posted is told by a
chain of bids. `LiquidityInv` adds to `LiquidityConserved` that chains hang on their
first bid (`OrdersRooted`) and that bids and proposals are finitely many. A match moves
an amount from the sum of the remainders to the sum of the principals.

`ChainInv` adds that one bid of a chain is left at a time (`OneLeft`), and that a bid has
all of what was posted left, or less but something (`ChainsHeld`). The badge of an open
bid follows, since the sum over its chain then has this bid for its only term.

Depth: a tier is the class of the orders on its terms, so by `SumPartition` a sum over
tiers is a sum over open orders, and the open orders' amounts are the posted ones less
the proposed and the cancelled ones, by the chains again. Of the bars only bounds are
stated: the chart's shows one of the tiers at its rate. No row's bar is wider than its
table because none is deeper than the deepest. Spread: the rows next to the line have
the lowest and the highest rate of their sides, whatever order equal rates are listed
in.

### Matching service

A cycle changes the book only through `MatchOrders` on a pair of its `todo`, which
`ServiceTypeOK` bounds; every other step leaves the book alone. So a step of the service
is one of the book or none (`ServiceKeepsToBook`, a lemma that says nothing of the cycles
themselves), and the order book's theorems hold for the service, conservation of liquidity
among them.

What a cycle leaves and what it prefers: `PriceInv` says of every cycle that it works on
what it read (`ReadsKnown`), that unless a call failed every pair it could match is
still among those to try (`NothingMissed`), and that the bid it is placing has the
lowest rate of those left (`CheapestFirst`). That orders never reopen keeps all three
while other cycles change the book. `CycleClearsItsReads` is `NothingMissed` of a cycle
that has no pair left; `BestPrice` takes all three.

### Order book page

A call is answered by a book no older than what PQS showed when it was made, because PQS
only moves forward, and no newer than what PQS shows now. The screen shows a book from
before now (`BooksKnown`), and unless a call has been marked as overtaken it was made when
PQS showed no less than the screen does (`CallsCurrent`). The screen changes by an answer,
which marks every other call in progress, by a load that lands while the view is closed,
which marks them as well, and by the view opening on the hook's prop, which no unmarked
load is behind. All of it is said of any number of loads of the hook.

### Licensing

`LicensingInv` adds that an installation's counter is in one open contract and bounds the
numbers of its licenses, and that the licenses of one number are one chain with one open
contract (`LicensesNumbered`); unique numbers follow. Only a completed renewal has
renewed a license (`RenewalsRecorded`), and by one extension at least: completing one
adds one term to `TimePaid` of one chain and no less to the new license's expiry, since
the renewal counts from the later of now and the old expiry. Fees move between wallet,
locked and paid sums as renewals are allocated, completed and withdrawn.

### Dashboard session

`SessionInv` adds whose session it is: while the page shows somebody as logged in, the
browser holds that user's cookie or none, and a `getUser` under way was sent with the
cookie held or one that is gone (`SessionCalls`); a load of the present session was sent
with that user's cookie or without any (`SentInSession`), and every answer is of the
user whose cookie its request carried (`AnswersOfSender`), so what such a load puts on
screen is that user's. Logout empties the core lists (`ScreenCleared`), so what the
login after it finds there is nobody's or a relic. `AnswersKnown` says that no answer is
ahead of PQS and that a load no other one overtook is not behind the screen.

### Demo client

`DemoInv` says of the forms that a busy one has one job of its own and the others none
(`FormsOK`), through dialogs that close under their calls and open again; of the lists
that the profile on screen comes with the offers (`ProfileOfOffers`), so Accept, which
needs the profile, is never offered for a mock offer; and that without an API there are
mock rows and the bid form's timer only (`OfflineIsMock`). The buttons for loans filter
by the names of mock users, which no ledger party has. The book adds up by `SumPartition`
twice, over the tiers and over the columns of the chart.

### Only model-checked

* Liveness under fairness: `CrossingResolved`, `CallsReturn`, `FollowsMarket` and
  `FormsFinish`. The provers do not reason about ENABLED, by which fairness is defined.
* Nothing is proved of `MarketMakerApi`: the one run on it is a violation.

## Not modelled

* In the loan contracts: descriptions, metadata and purposes; a request's rate and
  duration and a loan's due date, which no choice reads (`Loan_MarkDefault` does not
  look at the due date); `LoanStatus`, which is always `Active` on a contract that
  exists. Visibility and authority are modelled where a submission may lack them, which
  is where a choice needs two parties; every other choice needs its caller's alone.
* The steps inside one call of the loan API: its lookups in PQS come before one
  submission that the ledger validates anew, so they add refusals and nothing else,
  with two exceptions named among the hazards. The id of a contract just created is
  found again by its terms (`LoanApiImpl.java:165`), and `completeLoanRepayment` has two
  transactions (see above).
* `bootstrapMatchingEngine` and `ensureMatchingEngine`: the engine contract has no
  state, and a duplicate of it matches the same orders.
* The join of an accepted proposal with `LoanLedger`, and of the loan request and ask
  the frontend makes of one need: both loans are legal in both models.
* Tenant registration and authentication: administration of the deployment, apart from
  lending. `DashboardSession` has the cookie; the other models take the party as given.
* The dialogs and forms of the dashboard: a form is disabled while its own command is
  under way (`loading` of the form), which concerns no other state. Those of the demo
  client are modelled, where timers close dialogs under their calls.
* Deployment: containers and make files keep no state of the program.
* Of the interface: the overview's charts, the privacy page, the credit score card,
  themes, texts, layout and tooltips, which are functions of the lists; the wallet
  address, which no other step reads; the demo's 0.3 s exit animation.

The map covers about a fifth of the JavaScript and TypeScript lines, beside the Daml
and Java ones. Of some 22,000 such lines, about 12,900 are two copies of a vendored
widget library (`components/ui`) and about 1,500 are generated (`openapi.d.ts`). The
rest that is not mapped is markup, mock data the dashboard does not use, type
declarations, integration tests, and toast and sidebar helpers that no page calls:
none of it has a step that a property here could be about.
