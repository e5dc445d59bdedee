-------------------------- MODULE DenverDemoProofs --------------------------
(***************************************************************************)
(* Proofs about DenverDemo, for whatever the API may list and answer and   *)
(* any number of calls: types and which rows are on screen, then the sums  *)
(* of its order book view.                                                 *)
(***************************************************************************)
EXTENDS DenverDemo, Sums

AllJobs == Jobs \cup {First}

Serves(jobs, j, k) == jobs[j].kind = k /\ jobs[j].for = "own"

\* The jobs a form's kind has: one if the form is busy, and none if it is not.
ServedBy(f, jobs, k) ==
  IF f[k] = "busy" THEN \E j \in AllJobs : \A i \in AllJobs : Serves(jobs, i, k) <=> i = j
  ELSE \A j \in AllJobs : ~Serves(jobs, j, k)

FormStates == [FormKinds -> {"closed", "open", "busy"}]

JobsGood(jobs) ==
  /\ jobs \in [AllJobs -> JobRecords]
  /\ \A j \in AllJobs : jobs[j].pc = "idle" => jobs[j] = NoJob

ListsOK ==
  /\ requests = MockLoanRequests \/ requests \subseteq LedgerRequests
  /\ offers = MockLoanOffers \/ offers \subseteq LedgerOffers
  /\ loans = MockActiveLoans \/ loans \subseteq LedgerLoans
  /\ bids \in {MockLenderBids} \cup ({a.bids : a \in Answers} \ {{}})
  /\ asks \in {MockBorrowerAsks} \cup ({a.asks : a \in Answers} \ {{}})
  /\ profile \in {"mock", "api"} /\ stats \in {"mock", "api"}

PageOK ==
  /\ loading \in BOOLEAN /\ error \in BOOLEAN
  /\ page \in [loggedIn : BOOLEAN, role : {"borrower", "lender"}, view : Views]
  /\ offerDialog \in Ids(MockLoanRequests) \cup Ids(LedgerRequests) \cup {None}

FormsOK ==
  /\ form \in FormStates
  /\ JobsGood(job)
  /\ \A k \in FormKinds : ServedBy(form, job, k)

LoadUnderWay == \E j \in AllJobs : job[j].pc = "load"

\* Without the API: mock rows, no first load, and no job but the bid form's timer.
OfflineIsMock ==
  useApi # "api" => /\ OnMock /\ ~error /\ job[First].pc = "idle"
                    /\ \A j \in AllJobs : job[j].pc \in {"idle", "timer"}

\* The profile on screen comes with the offers.
ProfileOfOffers == profile = "api" => offers \subseteq LedgerOffers

RowsSubmitted ==
  \A j \in AllJobs :
    /\ job[j].kind = "accept" => job[j].target \in Ids(LedgerOffers)
    /\ job[j].kind \in {"repay", "default"} => job[j].target \in MockIds

RowsExplained ==
  useApi = "api" /\ (\/ requests = MockLoanRequests \/ offers = MockLoanOffers
                     \/ loans = MockActiveLoans)
    => error \/ LoadUnderWay

DemoInv == /\ useApi \in {"unknown", "api", "demo"}
           /\ ListsOK
           /\ PageOK
           /\ FormsOK
           /\ loading => LoadUnderWay
           /\ OfflineIsMock
           /\ ProfileOfOffers
           /\ RowsSubmitted
           /\ RowsExplained

-----------------------------------------------------------------------------
(* Jobs and the forms they serve *)

LEMMA NoJobIsJob == NoJob \in JobRecords
BY DEF NoJob, JobRecords

LEMMA ServedAsCounted ==
  ASSUME FormsOK, NEW k \in FormKinds
  PROVE  Cardinality({j \in DOMAIN job : job[j].kind = k /\ job[j].for = "own"})
           = IF form[k] = "busy" THEN 1 ELSE 0
<1>1. DOMAIN job = AllJobs
  BY DEF FormsOK, JobsGood
<1>2. CASE form[k] = "busy"
  <2>1. PICK j \in AllJobs : \A i \in AllJobs : Serves(job, i, k) <=> i = j
    BY <1>2 DEF FormsOK, ServedBy
  <2>2. {i \in DOMAIN job : job[i].kind = k /\ job[i].for = "own"} = {j}
    BY <1>1, <2>1 DEF Serves
  <2>3. QED BY <1>2, <2>2, FS_Singleton
<1>3. CASE form[k] # "busy"
  <2>1. {i \in DOMAIN job : job[i].kind = k /\ job[i].for = "own"} = {}
    BY <1>1, <1>3 DEF FormsOK, ServedBy, Serves
  <2>2. QED BY <1>3, <2>1, FS_EmptySet
<1>4. QED BY <1>2, <1>3

LEMMA TypesFollow == DemoInv => DemoTypeOK
<1> SUFFICES ASSUME DemoInv PROVE DemoTypeOK
  OBVIOUS
<1>1. DOMAIN job = AllJobs
  BY DEF DemoInv, FormsOK, JobsGood
<1>2. \A j \in DOMAIN job : ~Busy(j) => job[j] = NoJob
  BY <1>1 DEF DemoInv, FormsOK, JobsGood, Busy
<1>3. \A k \in FormKinds :
        Cardinality({j \in DOMAIN job : job[j].kind = k /\ job[j].for = "own"})
          = IF form[k] = "busy" THEN 1 ELSE 0
  BY ServedAsCounted DEF DemoInv
<1>4. /\ loading => \E j \in DOMAIN job : job[j].pc = "load"
      /\ useApi # "api" => OnMock /\ ~error /\ \A j \in DOMAIN job : job[j].pc \in {"idle", "timer"}
  BY <1>1 DEF DemoInv, LoadUnderWay, OfflineIsMock
<1>5. QED BY <1>2, <1>3, <1>4
          DEF DemoInv, DemoTypeOK, ListsOK, PageOK, FormsOK, FormStates, JobsGood, AllJobs

\* Jobs whose forms are gone keep what they do, and no form is left without its job.
LEMMA FormsSet ==
  ASSUME NEW f \in FormStates, NEW jobs, JobsGood(jobs), SetForms(f, jobs),
         \A k \in FormKinds : f[k] = "busy" => ServedBy(f, jobs, k)
  PROVE  /\ FormsOK' /\ form' = f
         /\ \A j \in AllJobs : /\ job'[j].pc = jobs[j].pc /\ job'[j].kind = jobs[j].kind
                               /\ job'[j].target = jobs[j].target
<1> DEFINE Gone(j) == jobs[j].for = "own" /\ f[jobs[j].kind] # "busy"
<1>1. /\ form' = f /\ DOMAIN jobs = AllJobs
      /\ job' = [j \in AllJobs |-> IF Gone(j) THEN [jobs[j] EXCEPT !.for = "dashboard"]
                                  ELSE jobs[j]]
  BY DEF SetForms, JobsGood
<1>2. ASSUME NEW j \in AllJobs
      PROVE  /\ job'[j] \in JobRecords
             /\ job'[j].pc = jobs[j].pc /\ job'[j].kind = jobs[j].kind
             /\ job'[j].target = jobs[j].target
             /\ job'[j].for = IF Gone(j) THEN "dashboard" ELSE jobs[j].for
             /\ job'[j].pc = "idle" => job'[j] = NoJob
  <2>1. jobs[j] \in JobRecords /\ (jobs[j].pc = "idle" => jobs[j] = NoJob)
    BY <1>2 DEF JobsGood
  <2>2. CASE Gone(j)
    <3>1. job'[j] = [jobs[j] EXCEPT !.for = "dashboard"]
      BY <1>1, <1>2, <2>2
    <3>2. jobs[j].pc # "idle"
      BY <2>1, <2>2 DEF NoJob
    <3>3. QED BY <2>1, <2>2, <3>1, <3>2 DEF JobRecords
  <2>3. CASE ~Gone(j)
    BY <1>1, <1>2, <2>1, <2>3
  <2>4. QED BY <2>2, <2>3
<1>3. job' \in [AllJobs -> JobRecords]
  <2> HIDE DEF Gone
  <2>1. QED BY <1>1, <1>2
<1>4. \A k \in FormKinds : ServedBy(f, job', k)
  <2> TAKE k \in FormKinds
  <2>1. CASE f[k] = "busy"
    <3>1. \A j \in AllJobs : Serves(job', j, k) <=> Serves(jobs, j, k)
      BY <1>2, <2>1 DEF Serves
    <3>2. ServedBy(f, jobs, k)
      BY <2>1
    <3>3. QED BY <2>1, <3>1, <3>2 DEF ServedBy
  <2>2. CASE f[k] # "busy"
    BY <1>2, <2>2 DEF ServedBy, Serves
  <2>3. QED BY <2>1, <2>2
<1>5. QED BY <1>1, <1>2, <1>3, <1>4 DEF FormsOK, JobsGood

\* A job is over and the others go on.
LEMMA JobDone ==
  ASSUME FormsOK, NEW j \in AllJobs
  PROVE  /\ JobsGood(Done(j)) /\ Done(j)[j] = NoJob
         /\ \A i \in AllJobs \ {j} : Done(j)[i] = job[i]
BY NoJobIsJob DEF FormsOK, JobsGood, Done

\* A job ends well: the form it serves closes, or the one opened since.
LEMMA ClosedWell ==
  ASSUME FormsOK, PageOK, NEW j \in AllJobs, NEW rows, Close(j, rows)
  PROVE  /\ FormsOK'
         /\ offerDialog' \in {offerDialog, None}
         /\ job'[j].pc = "idle" /\ job'[j].kind = "none"
         /\ \A i \in AllJobs \ {j} : /\ job'[i].pc = job[i].pc /\ job'[i].kind = job[i].kind
                                     /\ job'[i].target = job[i].target
<1>1. PICK shut : shut = IF job[j].for = "none" THEN {} ELSE {job[j].kind}
  OBVIOUS
<1>2. PICK f : /\ f \in FormStates
               /\ \A k \in FormKinds : f[k] = "busy" => k \notin shut /\ form[k] = "busy"
               /\ SetForms(f, Done(j)) /\ offerDialog' \in {offerDialog, None}
  <2>1. PICK offer \in {"closed", "open", "busy"} :
          /\ offer = "busy" => form["offer"] = "busy"
          /\ SetForms([k \in FormKinds |-> IF k \in shut THEN "closed"
                                           ELSE IF k = "offer" THEN offer ELSE form[k]],
                      Done(j))
    BY <1>1 DEF Close, FormsOK, FormStates, FormKinds
  <2> DEFINE f == [k \in FormKinds |-> IF k \in shut THEN "closed"
                                      ELSE IF k = "offer" THEN offer ELSE form[k]]
  <2>2. f \in FormStates
    BY DEF FormsOK, FormStates
  <2>3. offerDialog' \in {offerDialog, None}
    BY DEF Close
  <2>4. \A k \in FormKinds : f[k] = "busy" => k \notin shut /\ form[k] = "busy"
    BY <2>1
  <2>5. SetForms(f, Done(j))
    BY <2>1
  <2> HIDE DEF f
  <2>6. QED BY <2>2, <2>3, <2>4, <2>5
<1>3. /\ JobsGood(Done(j)) /\ Done(j)[j] = NoJob
      /\ \A i \in AllJobs \ {j} : Done(j)[i] = job[i]
  BY JobDone
<1>4. ASSUME NEW k \in FormKinds, f[k] = "busy"
      PROVE  ServedBy(f, Done(j), k)
  <2>1. k \notin shut /\ form[k] = "busy"
    BY <1>2, <1>4
  <2>2. PICK i \in AllJobs : \A x \in AllJobs : Serves(job, x, k) <=> x = i
    BY <2>1 DEF FormsOK, ServedBy
  <2>3. ~Serves(job, j, k)
    BY <1>1, <2>1 DEF Serves
  <2>4. \A x \in AllJobs : Serves(Done(j), x, k) <=> Serves(job, x, k)
    BY <1>3, <2>3 DEF Serves, NoJob
  <2>5. QED BY <1>4, <2>2, <2>4 DEF ServedBy
<1>5. /\ FormsOK'
      /\ \A i \in AllJobs : /\ job'[i].pc = Done(j)[i].pc /\ job'[i].kind = Done(j)[i].kind
                            /\ job'[i].target = Done(j)[i].target
  BY <1>2, <1>3, <1>4, FormsSet
<1>6. QED BY <1>2, <1>3, <1>5 DEF NoJob

-----------------------------------------------------------------------------
(* The steps *)

\* No mock list is one the API lists.
LEMMA MockIsNoAnswer ==
  /\ ~(MockLoanRequests \subseteq LedgerRequests)
  /\ ~(MockLoanOffers \subseteq LedgerOffers)
  /\ ~(MockActiveLoans \subseteq LedgerLoans)
<1> DEFINE r == [id |-> "lr-001", borrower |-> "app-user", status |-> "open"]
           o == [id |-> "lo-001", lender |-> "lender"]
           l == [id |-> "al-001", borrower |-> "app-user", lender |-> "lender", status |-> "active"]
<1>1. r \in MockLoanRequests /\ o \in MockLoanOffers /\ l \in MockActiveLoans
  BY DEF MockLoanRequests, MockLoanOffers, MockActiveLoans
<1>2. r.id \in MockIds /\ o.id \in MockIds /\ l.id \in MockIds
  BY <1>1 DEF MockIds, Ids
<1>3. /\ r \in LedgerRequests => r.id \in LedgerIds
      /\ o \in LedgerOffers => o.id \in LedgerIds
      /\ l \in LedgerLoans => l.id \in LedgerIds
  BY DEF LedgerIds, Ids
<1>4. QED BY <1>1, <1>2, <1>3, LedgerAssumption

\* The lists a load sets.
LEMMA ListsLoaded ==
  ASSUME ListsOK, NEW j, NEW a \in Answers, LoadDone(j, a)
  PROVE  ListsOK' /\ ProfileOfOffers'
<1>1. a.requests \subseteq LedgerRequests /\ a.offers \subseteq LedgerOffers
      /\ a.loans \subseteq LedgerLoans
  BY LedgerAssumption
<1>2. QED BY <1>1 DEF ListsOK, LoadDone, ProfileOfOffers

LEMMA ListsMocked ==
  ASSUME UseMock
  PROVE  ListsOK' /\ ProfileOfOffers' /\ OnMock'
BY DEF UseMock, ListsOK, ProfileOfOffers, OnMock

\* The jobs that go on keep their rows, a finished one has none.
LEMMA RowsKept ==
  ASSUME RowsSubmitted, NEW j \in AllJobs, job'[j].kind = "none",
         \A i \in AllJobs \ {j} : job'[i].kind = job[i].kind /\ job'[i].target = job[i].target
  PROVE  RowsSubmitted'
BY DEF RowsSubmitted

LEMMA LoadDoneStep ==
  ASSUME DemoInv, NEW j \in AllJobs, NEW a \in Answers, LoadDone(j, a)
  PROVE  DemoInv'
<1>1. /\ FormsOK'
      /\ offerDialog' \in {offerDialog, None}
      /\ job'[j].kind = "none"
      /\ \A i \in AllJobs \ {j} : /\ job'[i].kind = job[i].kind
                                  /\ job'[i].target = job[i].target
  BY ClosedWell DEF DemoInv, LoadDone
<1>2. ListsOK' /\ ProfileOfOffers'
  BY ListsLoaded DEF DemoInv
<1>3. useApi' = "api" /\ loading' = FALSE /\ UNCHANGED <<error, page>>
  BY DEF LoadDone, DemoInv, OfflineIsMock
<1>4. RowsSubmitted'
  BY <1>1, RowsKept DEF DemoInv
<1>5. RowsExplained'
  <2>1. /\ requests' \subseteq LedgerRequests /\ offers' \subseteq LedgerOffers
        /\ loans' \subseteq LedgerLoans
    BY LedgerAssumption DEF LoadDone
  <2>2. QED BY <2>1, MockIsNoAnswer DEF RowsExplained
<1>6. PageOK'
  BY <1>1, <1>3 DEF DemoInv, PageOK
<1>7. QED BY <1>1, <1>2, <1>3, <1>4, <1>5, <1>6 DEF DemoInv, OfflineIsMock

LEMMA LoadFailsStep ==
  ASSUME DemoInv, NEW j \in AllJobs, LoadFails(j)
  PROVE  DemoInv'
<1>1. /\ FormsOK'
      /\ offerDialog' \in {offerDialog, None}
      /\ job'[j].kind = "none"
      /\ \A i \in AllJobs \ {j} : /\ job'[i].kind = job[i].kind
                                  /\ job'[i].target = job[i].target
  BY ClosedWell DEF DemoInv, LoadFails
<1>2. ListsOK' /\ ProfileOfOffers'
  BY ListsMocked DEF LoadFails
<1>3. useApi' = "api" /\ loading' = FALSE /\ error' = TRUE /\ UNCHANGED page
  BY DEF LoadFails, DemoInv, OfflineIsMock
<1>4. RowsSubmitted'
  BY <1>1, RowsKept DEF DemoInv
<1>5. PageOK'
  BY <1>1, <1>3 DEF DemoInv, PageOK
<1>6. QED BY <1>1, <1>2, <1>3, <1>4, <1>5 DEF DemoInv, OfflineIsMock, RowsExplained

LEMMA BidTimerStep ==
  ASSUME DemoInv, NEW j \in AllJobs, BidTimer(j)
  PROVE  DemoInv'
<1>1. /\ FormsOK'
      /\ offerDialog' \in {offerDialog, None}
      /\ job'[j].pc = "idle" /\ job'[j].kind = "none" /\ job[j].pc = "timer"
      /\ \A i \in AllJobs \ {j} : /\ job'[i].kind = job[i].kind /\ job'[i].pc = job[i].pc
                                  /\ job'[i].target = job[i].target
  BY ClosedWell DEF DemoInv, BidTimer
<1>2. UNCHANGED <<useApi, requests, offers, loans, profile, bids, asks, stats, loading, error, page>>
  BY DEF BidTimer, listVars
<1>3. RowsSubmitted'
  BY <1>1, RowsKept DEF DemoInv
<1>4. LoadUnderWay => LoadUnderWay'
  BY <1>1 DEF LoadUnderWay
<1>5. PageOK' /\ ListsOK' /\ ProfileOfOffers'
  BY <1>1, <1>2 DEF DemoInv, PageOK, ListsOK, ProfileOfOffers
<1>6. OfflineIsMock'
  BY <1>1, <1>2 DEF DemoInv, OfflineIsMock, OnMock, AllJobs
<1>7. RowsExplained'
  BY <1>2, <1>4 DEF DemoInv, RowsExplained
<1>8. QED BY <1>1, <1>2, <1>3, <1>4, <1>5, <1>6, <1>7 DEF DemoInv

\* A step that leaves the lists and the error, keeps the loads and the rows of the jobs,
\* and starts none without the API.
LEMMA ListsLeft ==
  ASSUME DemoInv, UNCHANGED <<useApi, listVars, error>>, PageOK', FormsOK',
         loading' => LoadUnderWay', LoadUnderWay => LoadUnderWay', RowsSubmitted',
         useApi # "api" => /\ job'[First].pc = "idle"
                           /\ \A j \in AllJobs : job'[j].pc \in {"idle", "timer"}
  PROVE  DemoInv'
<1>1. UNCHANGED <<requests, offers, loans, profile, bids, asks, stats>>
  BY DEF listVars
<1>2. ListsOK' /\ ProfileOfOffers'
  BY <1>1 DEF DemoInv, ListsOK, ProfileOfOffers
<1>3. OfflineIsMock'
  BY <1>1 DEF DemoInv, OfflineIsMock, OnMock
<1>4. RowsExplained'
  BY <1>1 DEF DemoInv, RowsExplained
<1>5. QED BY <1>2, <1>3, <1>4 DEF DemoInv

\* The same of a step that leaves each job's stage and row.
LEMMA JobsLeft ==
  ASSUME DemoInv, UNCHANGED <<useApi, listVars, loading, error>>, PageOK', FormsOK',
         \A j \in AllJobs : /\ job'[j].pc = job[j].pc /\ job'[j].kind = job[j].kind
                            /\ job'[j].target = job[j].target
  PROVE  DemoInv'
<1>1. RowsSubmitted' /\ (LoadUnderWay <=> LoadUnderWay')
  BY DEF DemoInv, RowsSubmitted, LoadUnderWay
<1>2. First \in AllJobs
  BY DEF AllJobs
<1>3. QED BY <1>1, <1>2, ListsLeft DEF DemoInv, OfflineIsMock

LEMMA ApiFoundStep ==
  ASSUME DemoInv, ApiFound
  PROVE  DemoInv'
<1>1. /\ First \in AllJobs /\ job[First] = NoJob /\ job \in [AllJobs -> JobRecords]
      /\ job' = [job EXCEPT ![First] = [NoJob EXCEPT !.pc = "load"]]
  BY DEF DemoInv, ApiFound, OfflineIsMock, FormsOK, JobsGood, AllJobs
<1>2. /\ [NoJob EXCEPT !.pc = "load"] \in JobRecords
      /\ [NoJob EXCEPT !.pc = "load"].pc = "load" /\ [NoJob EXCEPT !.pc = "load"].kind = "none"
      /\ [NoJob EXCEPT !.pc = "load"].for = "none"
  BY NoJobIsJob DEF NoJob, JobRecords
<1>3. /\ job' \in [AllJobs -> JobRecords]
      /\ job'[First].pc = "load" /\ job'[First].kind = "none" /\ job'[First].for = "none"
      /\ \A j \in AllJobs \ {First} : job'[j] = job[j]
  BY <1>1, <1>2
<1>4. UNCHANGED <<requests, offers, loans, profile, bids, asks, stats, page, form, offerDialog>>
      /\ useApi' = "api" /\ error' = FALSE /\ loading' = TRUE
  BY DEF ApiFound, listVars
<1>5. FormsOK'
  <2>1. JobsGood(job')
    BY <1>3 DEF DemoInv, FormsOK, JobsGood
  <2>2. \A k \in FormKinds, j \in AllJobs : Serves(job', j, k) <=> Serves(job, j, k)
    BY <1>1, <1>3 DEF Serves, NoJob
  <2>3. QED BY <1>4, <2>1, <2>2 DEF DemoInv, FormsOK, ServedBy
<1>6. LoadUnderWay'
  BY <1>1, <1>3 DEF LoadUnderWay
<1>7. RowsSubmitted'
  BY <1>3 DEF DemoInv, RowsSubmitted
<1>8. ListsOK' /\ PageOK' /\ ProfileOfOffers'
  BY <1>4 DEF DemoInv, ListsOK, PageOK, ProfileOfOffers
<1>9. QED BY <1>4, <1>5, <1>6, <1>7, <1>8 DEF DemoInv, OfflineIsMock, RowsExplained

LEMMA ApiMissingStep ==
  ASSUME DemoInv, ApiMissing
  PROVE  DemoInv'
<1>1. ListsOK' /\ ProfileOfOffers' /\ OnMock'
  BY ListsMocked DEF ApiMissing
<1>2. useApi' = "demo" /\ loading' = FALSE /\ UNCHANGED <<error, page, form, offerDialog, job>>
  BY DEF ApiMissing
<1>3. FormsOK' /\ RowsSubmitted' /\ PageOK'
  BY <1>2 DEF DemoInv, FormsOK, RowsSubmitted, PageOK
<1>4. OfflineIsMock'
  BY <1>1, <1>2 DEF DemoInv, OfflineIsMock, ApiMissing
<1>5. QED BY <1>1, <1>2, <1>3, <1>4 DEF DemoInv, RowsExplained

LEMMA CommandDoneStep ==
  ASSUME DemoInv, NEW j \in AllJobs, CommandDone(j)
  PROVE  DemoInv'
<1>1. /\ job[j] \in JobRecords /\ job[j].pc = "command" /\ useApi = "api"
      /\ job \in [AllJobs -> JobRecords]
      /\ job' = [job EXCEPT ![j] = [job[j] EXCEPT !.pc = "load"]]
  BY DEF DemoInv, CommandDone, OfflineIsMock, FormsOK, JobsGood
<1>2. /\ job'[j] \in JobRecords /\ job'[j].pc = "load" /\ job'[j].kind = job[j].kind
      /\ job'[j].for = job[j].for /\ job'[j].target = job[j].target
      /\ \A i \in AllJobs \ {j} : job'[i] = job[i]
  BY <1>1 DEF JobRecords
<1>3. job' \in [AllJobs -> JobRecords]
  BY <1>1, <1>2
<1>4. UNCHANGED <<requests, offers, loans, profile, bids, asks, stats, page, form, offerDialog>>
      /\ useApi' = "api" /\ error' = FALSE /\ loading' = TRUE
  BY <1>1 DEF CommandDone, listVars
<1>5. FormsOK'
  <2>1. JobsGood(job')
    BY <1>2, <1>3 DEF DemoInv, FormsOK, JobsGood
  <2>2. \A k \in FormKinds, i \in AllJobs : Serves(job', i, k) <=> Serves(job, i, k)
    BY <1>2 DEF Serves
  <2>3. QED BY <1>4, <2>1, <2>2 DEF DemoInv, FormsOK, ServedBy
<1>6. LoadUnderWay'
  BY <1>2 DEF LoadUnderWay
<1>7. RowsSubmitted'
  BY <1>2 DEF DemoInv, RowsSubmitted
<1>8. ListsOK' /\ PageOK' /\ ProfileOfOffers'
  BY <1>4 DEF DemoInv, ListsOK, PageOK, ProfileOfOffers
<1>9. QED BY <1>4, <1>5, <1>6, <1>7, <1>8 DEF DemoInv, OfflineIsMock, RowsExplained

\* The form that waited is open again, and waits for nothing.
LEMMA CommandFailsStep ==
  ASSUME DemoInv, NEW j \in AllJobs, CommandFails(j)
  PROVE  DemoInv'
<1>1. /\ JobsGood(job') /\ job'[j] = NoJob /\ job[j].pc = "command" /\ useApi = "api"
      /\ \A i \in AllJobs \ {j} : job'[i] = job[i]
  BY JobDone DEF DemoInv, CommandFails, OfflineIsMock
<1>2. form' \in FormStates
  BY DEF DemoInv, FormsOK, FormStates, CommandFails
<1>3. \A k \in FormKinds : ServedBy(form', job', k)
  <2> TAKE k \in FormKinds
  <2>1. \A i \in AllJobs : Serves(job', i, k) <=> Serves(job, i, k) /\ i # j
    BY <1>1 DEF Serves, NoJob
  <2>2. ServedBy(form, job, k)
    BY DEF DemoInv, FormsOK
  <2>3. CASE Serves(job, j, k)
    <3>1. form'[k] = "open"
      BY <2>3 DEF Serves, CommandFails, DemoInv, FormsOK, FormStates
    <3>2. \A i \in AllJobs : Serves(job, i, k) => i = j
      BY <2>2, <2>3 DEF ServedBy
    <3>3. QED BY <2>1, <3>1, <3>2 DEF ServedBy
  <2>4. CASE ~Serves(job, j, k)
    <3>1. form'[k] = form[k]
      BY <2>4 DEF Serves, CommandFails, DemoInv, FormsOK, FormStates
    <3>2. QED BY <2>1, <2>2, <2>4, <3>1 DEF ServedBy
  <2>5. QED BY <2>3, <2>4
<1>4. FormsOK'
  BY <1>1, <1>2, <1>3 DEF FormsOK
<1>5. LoadUnderWay => LoadUnderWay'
  BY <1>1 DEF LoadUnderWay
<1>6. RowsSubmitted'
  BY <1>1 DEF DemoInv, RowsSubmitted, NoJob
<1>7. PageOK' /\ UNCHANGED <<useApi, listVars, loading, error>>
  BY DEF DemoInv, PageOK, CommandFails
<1>8. QED BY <1>1, <1>4, <1>5, <1>6, <1>7, ListsLeft DEF DemoInv

\* An idle job is given its record.
LEMMA JobStarted ==
  ASSUME FormsOK, NEW j, NEW kind, NEW target, NEW for, NEW pc,
         [pc |-> pc, kind |-> kind, target |-> target, for |-> for] \in JobRecords,
         pc # "idle", Start(j, kind, target, for, pc)
  PROVE  /\ j \in AllJobs /\ j # First /\ JobsGood(job') /\ job[j] = NoJob
         /\ job'[j] = [pc |-> pc, kind |-> kind, target |-> target, for |-> for]
         /\ \A i \in AllJobs \ {j} : job'[i] = job[i]
<1>1. j \in AllJobs /\ j # First
  BY JobAssumption DEF Start, AllJobs
<1>2. job \in [AllJobs -> JobRecords] /\ job[j] = NoJob
  BY <1>1 DEF FormsOK, JobsGood, Start, Busy
<1>3. PICK r : /\ r = [pc |-> pc, kind |-> kind, target |-> target, for |-> for]
               /\ r \in JobRecords /\ r.pc # "idle" /\ job' = [job EXCEPT ![j] = r]
  BY DEF Start
<1>4. /\ job' \in [AllJobs -> JobRecords] /\ job'[j] = r
      /\ \A i \in AllJobs \ {j} : job'[i] = job[i]
  BY <1>1, <1>2, <1>3
<1>5. JobsGood(job')
  BY <1>3, <1>4 DEF FormsOK, JobsGood
<1>6. QED BY <1>1, <1>2, <1>3, <1>4, <1>5

\* A click on a row: a job no form waits for, with the API in use.
LEMMA ClickStep ==
  ASSUME DemoInv, NEW j, NEW kind \in Clicks, NEW target, useApi = "api",
         kind = "accept" => target \in Ids(LedgerOffers),
         kind \in {"repay", "default"} => target \in MockIds,
         Start(j, kind, target, "none", "command"),
         UNCHANGED <<useApi, listVars, loading, error, page, form, offerDialog>>
  PROVE  DemoInv'
<1> DEFINE r == [pc |-> "command", kind |-> kind, target |-> target, for |-> "none"]
<1>1. target \in MockIds \cup LedgerIds
  BY DEF Clicks, LedgerIds
<1>2. r \in JobRecords
  BY <1>1 DEF JobRecords
<1>3. /\ j \in AllJobs /\ JobsGood(job') /\ job[j] = NoJob /\ job'[j] = r
      /\ \A i \in AllJobs \ {j} : job'[i] = job[i]
  BY <1>2, JobStarted DEF DemoInv
<1>4. FormsOK'
  <2>1. \A k \in FormKinds, i \in AllJobs : Serves(job', i, k) <=> Serves(job, i, k)
    BY <1>3 DEF Serves, NoJob
  <2>2. QED BY <1>3, <2>1 DEF DemoInv, FormsOK, ServedBy
<1>5. RowsSubmitted'
  BY <1>3 DEF DemoInv, RowsSubmitted
<1>6. LoadUnderWay => LoadUnderWay'
  BY <1>3 DEF LoadUnderWay, NoJob
<1>7. PageOK'
  BY DEF DemoInv, PageOK
<1>8. QED BY <1>4, <1>5, <1>6, <1>7, ListsLeft DEF DemoInv

LEMMA AcceptStep ==
  ASSUME DemoInv, NEW o \in offers, NEW j, Accept(o, j)
  PROVE  DemoInv'
<1>1. o.id \in Ids(LedgerOffers)
  BY DEF DemoInv, ProfileOfOffers, Accept, Ids
<1>2. QED BY <1>1, ClickStep DEF Accept, Clicks

\* A loan of one of the mock users is a mock loan.
LEMMA LoansOfMockUsers ==
  ASSUME DemoInv, NEW l \in loans, l.borrower = "app-user" \/ l.lender = "lender"
  PROVE  l.id \in MockIds
<1>1. ~(loans \subseteq LedgerLoans)
  BY LedgerAssumption
<1>2. l \in MockActiveLoans
  BY <1>1 DEF DemoInv, ListsOK
<1>3. QED BY <1>2 DEF MockIds, Ids

LEMMA RepayStep ==
  ASSUME DemoInv, NEW l \in loans, NEW j, Repay(l, j)
  PROVE  DemoInv'
<1>1. l.id \in MockIds
  BY LoansOfMockUsers DEF Repay, MyLoans
<1>2. QED BY <1>1, ClickStep DEF Repay, Clicks

LEMMA MarkDefaultStep ==
  ASSUME DemoInv, NEW l \in loans, NEW j, MarkDefault(l, j)
  PROVE  DemoInv'
<1>1. l.id \in MockIds
  BY LoansOfMockUsers DEF MarkDefault, FundedLoans
<1>2. QED BY <1>1, ClickStep DEF MarkDefault, Clicks

\* The form is busy with the one job it started, or has closed at once.
LEMMA SubmitStep ==
  ASSUME DemoInv, NEW k \in FormKinds, NEW j, Submit(k, j)
  PROVE  DemoInv'
<1>1. form \in FormStates /\ form[k] = "open"
  BY DEF DemoInv, FormsOK, Submit
<1>2. \A i \in AllJobs : ~Serves(job, i, k)
  BY <1>1 DEF DemoInv, FormsOK, ServedBy
<1>3. CASE k = "bid" \/ useApi = "api"
  <2>1. PICK target, pc :
          /\ target = (IF k = "offer" THEN offerDialog ELSE None)
          /\ pc = (IF k = "bid" THEN "timer" ELSE "command")
          /\ Start(j, k, target, "own", pc)
    BY <1>3 DEF Submit
  <2>2. /\ form' = [form EXCEPT ![k] = "busy"]
        /\ UNCHANGED <<useApi, listVars, loading, error, page, offerDialog>>
    BY <1>3 DEF Submit
  <2> DEFINE r == [pc |-> pc, kind |-> k, target |-> target, for |-> "own"]
  <2>3. target \in MockIds \cup LedgerIds \cup {None}
    BY <2>1 DEF DemoInv, PageOK, MockIds, LedgerIds
  <2>4. r \in JobRecords /\ pc # "idle"
    BY <2>1, <2>3 DEF JobRecords
  <2>5. /\ j \in AllJobs /\ j # First /\ JobsGood(job') /\ job[j] = NoJob /\ job'[j] = r
        /\ \A i \in AllJobs \ {j} : job'[i] = job[i]
    BY <2>1, <2>4, JobStarted DEF DemoInv
  <2>6. /\ form' \in FormStates /\ form'[k] = "busy"
        /\ \A f \in FormKinds \ {k} : form'[f] = form[f]
    BY <1>1, <2>2 DEF FormStates
  <2>7. \A f \in FormKinds : ServedBy(form', job', f)
    <3> TAKE f \in FormKinds
    <3>1. CASE f = k
      <4>1. \A i \in AllJobs : Serves(job', i, k) <=> i = j
        BY <1>2, <2>5 DEF Serves
      <4>2. QED BY <2>5, <2>6, <3>1, <4>1 DEF ServedBy
    <3>2. CASE f # k
      <4>1. \A i \in AllJobs : Serves(job', i, f) <=> Serves(job, i, f)
        BY <2>5, <3>2 DEF Serves, NoJob
      <4>2. QED BY <2>6, <3>2, <4>1 DEF DemoInv, FormsOK, ServedBy
    <3>3. QED BY <3>1, <3>2
  <2>8. FormsOK'
    BY <2>5, <2>6, <2>7 DEF FormsOK
  <2>9. RowsSubmitted'
    BY <2>5 DEF DemoInv, RowsSubmitted, FormKinds
  <2>10. LoadUnderWay => LoadUnderWay'
    BY <2>5 DEF LoadUnderWay, NoJob
  <2>11. PageOK'
    BY <2>2 DEF DemoInv, PageOK
  <2>12. useApi # "api" => /\ job'[First].pc = "idle"
                           /\ \A i \in AllJobs : job'[i].pc \in {"idle", "timer"}
    BY <1>3, <2>1, <2>5 DEF DemoInv, OfflineIsMock, AllJobs
  <2>13. QED BY <2>2, <2>8, <2>9, <2>10, <2>11, <2>12, ListsLeft DEF DemoInv
<1>4. CASE ~(k = "bid" \/ useApi = "api")
  <2>1. /\ form' = [form EXCEPT ![k] = "closed"] /\ offerDialog' \in {offerDialog, None}
        /\ UNCHANGED <<useApi, listVars, loading, error, page, job>>
    BY <1>4 DEF Submit
  <2>2. /\ form' \in FormStates /\ form'[k] = "closed"
        /\ \A f \in FormKinds \ {k} : form'[f] = form[f]
    BY <1>1, <2>1 DEF FormStates
  <2>3. \A f \in FormKinds : ServedBy(form', job, f)
    BY <1>2, <2>2 DEF DemoInv, FormsOK, ServedBy
  <2>4. FormsOK' /\ PageOK'
    BY <2>1, <2>2, <2>3 DEF DemoInv, FormsOK, PageOK
  <2>5. QED BY <2>1, <2>4, JobsLeft
<1>5. QED BY <1>3, <1>4

LEMMA LoginStep ==
  ASSUME DemoInv, NEW role \in {"borrower", "lender"}, Login(role)
  PROVE  DemoInv'
<1>1. PageOK'
  BY DEF DemoInv, PageOK, Login, Views
<1>2. FormsOK'
  BY DEF DemoInv, FormsOK, Login
<1>3. QED BY <1>1, <1>2, JobsLeft DEF Login

\* A dashboard goes: no form is left, and no job finds one.
LEMMA DashboardGone ==
  ASSUME FormsOK, Unmount
  PROVE  /\ FormsOK' /\ offerDialog' = None
         /\ \A j \in AllJobs : /\ job'[j].pc = job[j].pc /\ job'[j].kind = job[j].kind
                               /\ job'[j].target = job[j].target
<1>1. /\ form' = [k \in FormKinds |-> "closed"] /\ offerDialog' = None
      /\ job' = [j \in AllJobs |-> [job[j] EXCEPT !.for = "none"]]
  BY DEF FormsOK, JobsGood, Unmount
<1>2. ASSUME NEW j \in AllJobs
      PROVE  /\ job'[j] \in JobRecords
             /\ job'[j].pc = job[j].pc /\ job'[j].kind = job[j].kind
             /\ job'[j].target = job[j].target /\ job'[j].for = "none"
             /\ job'[j].pc = "idle" => job'[j] = NoJob
  BY <1>1, <1>2 DEF FormsOK, JobsGood, JobRecords, NoJob
<1>3. JobsGood(job')
  BY <1>1, <1>2 DEF JobsGood
<1>4. QED BY <1>1, <1>2, <1>3 DEF FormsOK, FormStates, ServedBy, Serves

LEMMA LogoutStep ==
  ASSUME DemoInv, Logout
  PROVE  DemoInv'
<1>1. PageOK'
  BY DashboardGone DEF DemoInv, PageOK, Logout, Views
<1>2. QED BY <1>1, DashboardGone, JobsLeft DEF DemoInv, Logout

LEMMA SwitchViewStep ==
  ASSUME DemoInv, NEW v \in Views, SwitchView(v)
  PROVE  DemoInv'
<1>1. PageOK'
  BY DashboardGone DEF DemoInv, PageOK, SwitchView
<1>2. QED BY <1>1, DashboardGone, JobsLeft DEF DemoInv, SwitchView

\* A form that is not busy and does not become so has no job, before and after.
LEMMA FormOpened ==
  ASSUME FormsOK, NEW k \in FormKinds, form[k] = "closed",
         form' = [form EXCEPT ![k] = "open"], UNCHANGED job
  PROVE  FormsOK'
<1>1. /\ form' \in FormStates /\ form'[k] = "open"
      /\ \A f \in FormKinds \ {k} : form'[f] = form[f]
  BY DEF FormsOK, FormStates
<1>2. QED BY <1>1 DEF FormsOK, ServedBy

LEMMA OpenFormStep ==
  ASSUME DemoInv, NEW k \in FormKinds, OpenForm(k)
  PROVE  DemoInv'
<1>1. FormsOK'
  BY FormOpened DEF DemoInv, OpenForm
<1>2. PageOK'
  BY DEF DemoInv, PageOK, OpenForm
<1>3. QED BY <1>1, <1>2, JobsLeft DEF OpenForm

LEMMA OpenOfferStep ==
  ASSUME DemoInv, NEW r \in requests, OpenOffer(r)
  PROVE  DemoInv'
<1>1. FormsOK'
  BY FormOpened DEF DemoInv, OpenOffer, FormKinds
<1>2. r.id \in Ids(MockLoanRequests) \cup Ids(LedgerRequests)
  BY DEF DemoInv, ListsOK, Ids
<1>3. PageOK'
  BY <1>2 DEF DemoInv, PageOK, OpenOffer
<1>4. QED BY <1>1, <1>3, JobsLeft DEF OpenOffer

LEMMA CloseFormStep ==
  ASSUME DemoInv, NEW k \in FormKinds, CloseForm(k)
  PROVE  DemoInv'
<1>1. PICK f : f = [form EXCEPT ![k] = "closed"]
  OBVIOUS
<1>2. /\ f \in FormStates /\ f[k] = "closed"
      /\ \A i \in FormKinds \ {k} : f[i] = form[i]
  BY <1>1 DEF DemoInv, FormsOK, FormStates
<1>3. \A i \in FormKinds : f[i] = "busy" => ServedBy(f, job, i)
  BY <1>2 DEF DemoInv, FormsOK, ServedBy
<1>4. SetForms(f, job) /\ JobsGood(job)
  BY <1>1 DEF CloseForm, DemoInv, FormsOK
<1>5. /\ FormsOK'
      /\ \A j \in AllJobs : /\ job'[j].pc = job[j].pc /\ job'[j].kind = job[j].kind
                            /\ job'[j].target = job[j].target
  BY <1>2, <1>3, <1>4, FormsSet
<1>6. PageOK'
  BY DEF DemoInv, PageOK, CloseForm
<1>7. QED BY <1>5, <1>6, JobsLeft DEF CloseForm

LEMMA DemoStutter ==
  ASSUME DemoInv, UNCHANGED vars
  PROVE  DemoInv'
<1>1. FormsOK' /\ PageOK'
  BY DEF DemoInv, FormsOK, PageOK, vars, listVars
<1>2. QED BY <1>1, JobsLeft DEF vars, listVars

LEMMA DemoInit == Init => DemoInv
<1> SUFFICES ASSUME Init PROVE DemoInv
  OBVIOUS
<1>1. job = [j \in AllJobs |-> NoJob] /\ form = [k \in FormKinds |-> "closed"]
  BY DEF Init, AllJobs
<1>2. JobsGood(job) /\ form \in FormStates
  BY <1>1, NoJobIsJob DEF JobsGood, FormStates
<1>3. FormsOK
  BY <1>1, <1>2 DEF FormsOK, ServedBy, Serves, NoJob
<1>4. ListsOK /\ PageOK
  BY DEF Init, OnMock, ListsOK, PageOK, Views
<1>5. RowsSubmitted /\ OfflineIsMock
  BY <1>1 DEF Init, RowsSubmitted, OfflineIsMock, NoJob, AllJobs
<1>6. QED BY <1>3, <1>4, <1>5 DEF Init, OnMock, DemoInv, ProfileOfOffers, RowsExplained

LEMMA DemoNext == DemoInv /\ [Next]_vars => DemoInv'
<1> SUFFICES ASSUME DemoInv, [Next]_vars PROVE DemoInv'
  OBVIOUS
<1>1. DOMAIN job = AllJobs /\ Jobs \subseteq AllJobs
  BY DEF DemoInv, FormsOK, JobsGood, AllJobs
<1>2. CASE ApiFound \/ ApiMissing
  BY <1>2, ApiFoundStep, ApiMissingStep
<1>3. ASSUME NEW j \in AllJobs,
             \/ \E a \in Answers : LoadDone(j, a)
             \/ LoadFails(j) \/ CommandDone(j) \/ CommandFails(j) \/ BidTimer(j)
      PROVE  DemoInv'
  BY <1>3, LoadDoneStep, LoadFailsStep, CommandDoneStep, CommandFailsStep, BidTimerStep
<1>4. ASSUME NEW j \in Jobs,
             \/ \E k \in FormKinds : Submit(k, j)
             \/ \E o \in offers : Accept(o, j)
             \/ \E l \in loans : Repay(l, j) \/ MarkDefault(l, j)
      PROVE  DemoInv'
  BY <1>4, SubmitStep, AcceptStep, RepayStep, MarkDefaultStep
<1>5. CASE (\E role \in {"borrower", "lender"} : Login(role)) \/ Logout
           \/ \E v \in Views : SwitchView(v)
  BY <1>5, LoginStep, LogoutStep, SwitchViewStep
<1>6. CASE (\E k \in FormKinds : OpenForm(k) \/ CloseForm(k)) \/ \E r \in requests : OpenOffer(r)
  BY <1>6, OpenFormStep, CloseFormStep, OpenOfferStep
<1>7. CASE UNCHANGED vars
  BY <1>7, DemoStutter
<1>8. QED BY <1>1, <1>2, <1>3, <1>4, <1>5, <1>6, <1>7 DEF Next

LEMMA DemoInvariant == Spec => []DemoInv
<1>1. QED BY DemoInit, DemoNext, PTL DEF Spec

-----------------------------------------------------------------------------
(* What follows of it *)

\* The demo client's types, and what holds while there is no API (DemoTypeOK).
THEOREM DemoTypeCorrect == Spec => []DemoTypeOK
<1>1. QED BY DemoInvariant, TypesFollow, PTL

\* Mock rows never stand for the ledger's unawares, however loads and commands overlap.
THEOREM MockAlwaysExplained == Spec => []MockExplained
<1>1. DemoInv => MockExplained
  BY DEF DemoInv, FormsOK, JobsGood, RowsExplained, LoadUnderWay, MockExplained
<1>2. QED BY <1>1, DemoInvariant, PTL

\* The buttons submit ledger offers and mock loans only.
THEOREM SubmitsOnlyTheseRows == Spec => []SubmittedRows
<1>1. DemoInv => SubmittedRows
  BY DEF DemoInv, FormsOK, JobsGood, RowsSubmitted, SubmittedRows
<1>2. QED BY <1>1, DemoInvariant, PTL

-----------------------------------------------------------------------------
(***************************************************************************)
(* The order book view.  A tier is the class of the orders at its rate, so *)
(* a sum over the tiers, or over the columns of the chart, is a sum over   *)
(* the orders.                                                             *)
(***************************************************************************)
At(rate, orders) == {o \in orders : o.rate = rate}

AmountOf(orders) == [o \in orders |-> o.amount]

\* What each side of the book is, mock or answered.
GoodSide(orders) ==
  /\ IsFiniteSet(orders) /\ orders # {}
  /\ \A o \in orders : o.rate \in Nat /\ o.amount \in Nat

LEMMA MockSidesAreGood == GoodSide(MockLenderBids) /\ GoodSide(MockBorrowerAsks)
<1>1. ASSUME NEW rows, \A o \in rows : o.rate \in 50..90,
             \A o, p \in rows : o.rate = p.rate => o = p
      PROVE  IsFiniteSet(rows)
  <2> DEFINE f == [o \in rows |-> o.rate]
  <2>1. f \in Injection(rows, 50..90)
    BY <1>1 DEF Injection, IsInjective
  <2>2. IsFiniteSet(50..90)
    <3>1. 50 \in Int /\ 90 \in Int
      OBVIOUS
    <3>2. QED BY <3>1, FS_Interval
  <2> HIDE DEF f
  <2>3. QED BY <2>1, <2>2, FS_Injection
<1>2. IsFiniteSet(MockLenderBids) /\ IsFiniteSet(MockBorrowerAsks)
  <2>1. /\ \A o \in MockLenderBids : o.rate \in 50..90
        /\ \A o, p \in MockLenderBids : o.rate = p.rate => o = p
    BY DEF MockLenderBids
  <2>2. /\ \A o \in MockBorrowerAsks : o.rate \in 50..90
        /\ \A o, p \in MockBorrowerAsks : o.rate = p.rate => o = p
    BY DEF MockBorrowerAsks
  <2>3. QED BY <1>1, <2>1, <2>2
<1>3. /\ MockLenderBids # {} /\ MockBorrowerAsks # {}
      /\ \A o \in MockLenderBids : o.rate \in Nat /\ o.amount \in Nat
      /\ \A o \in MockBorrowerAsks : o.rate \in Nat /\ o.amount \in Nat
  BY DEF MockLenderBids, MockBorrowerAsks
<1>4. QED BY <1>2, <1>3 DEF GoodSide

LEMMA SidesAreGood ==
  ASSUME DemoInv
  PROVE  GoodSide(bids) /\ GoodSide(asks)
<1>1. CASE bids = MockLenderBids /\ asks = MockBorrowerAsks
  BY <1>1, MockSidesAreGood
<1>2. \A a \in Answers : /\ a.bids # {} => GoodSide(a.bids)
                         /\ a.asks # {} => GoodSide(a.asks)
  BY LedgerAssumption DEF GoodSide
<1>3. QED BY <1>2, MockSidesAreGood DEF DemoInv, ListsOK

\* The volume of some of the orders.
LEMMA VolumeIsSum ==
  ASSUME NEW orders, GoodSide(orders), NEW some \in SUBSET orders
  PROVE  /\ IsFiniteSet(some) /\ Ints(AmountOf(orders), some)
         /\ Volume(some) = SumFunctionOnSet(AmountOf(orders), some) /\ Volume(some) \in Nat
<1>1. PICK amount : amount = AmountOf(orders)
  OBVIOUS
<1>2. \A o \in orders : amount[o] = o.amount /\ amount[o] \in Nat
  BY <1>1 DEF AmountOf, GoodSide
<1>3. IsFiniteSet(some) /\ Ints(amount, some)
  BY <1>2, FS_Subset DEF GoodSide, Ints
<1> DEFINE f == [o \in some |-> o.amount]
<1>4. DOMAIN f = some /\ \A o \in some : f[o] = amount[o]
  BY <1>2
<1>5. Volume(some) = SumFunction(f)
  BY DEF Volume
<1> HIDE DEF f
<1>6. SumFunction(f) = SumFunctionOnSet(amount, some)
  <2>1. SumFunctionOnSet(f, some) = SumFunctionOnSet(amount, some)
    BY <1>3, <1>4, SumSame
  <2>2. QED BY <1>4, <2>1 DEF SumFunction
<1>7. SumFunctionOnSet(amount, some) \in Nat
  BY <1>2, <1>3, SumNat
<1>8. QED BY <1>1, <1>3, <1>5, <1>6, <1>7

\* The tier of an order, and whose tier it is.
LEMMA TierIs ==
  ASSUME NEW orders, GoodSide(orders),
         NEW tier, tier = [o \in orders |-> Tier(o.rate, orders)], NEW o \in orders
  PROVE  /\ tier[o].rate = o.rate
         /\ tier[o].totalAmount = SumFunctionOnSet(AmountOf(orders), At(o.rate, orders))
         /\ tier[o].count = Cardinality(At(o.rate, orders))
         /\ tier[o].totalAmount \in Nat
         /\ \A p \in orders : tier[p] = tier[o] <=> p.rate = o.rate
<1> DEFINE same == {p \in orders : p.rate = o.rate}
<1>1. tier[o] = [rate |-> o.rate, totalAmount |-> Volume(same), count |-> Cardinality(same)]
  BY DEF Tier
<1>2. PICK T : T = same
  OBVIOUS
<1>3. PICK total : total = Volume(T)
  OBVIOUS
<1>4. tier[o] = [rate |-> o.rate, totalAmount |-> total, count |-> Cardinality(T)]
  BY <1>1, <1>2, <1>3
<1>5. T = At(o.rate, orders) /\ T \in SUBSET orders
  BY <1>2 DEF At
<1>6. total = SumFunctionOnSet(AmountOf(orders), T) /\ total \in Nat
  BY <1>3, <1>5, VolumeIsSum
<1>7. \A p \in orders : tier[p] = tier[o] <=> p.rate = o.rate
  <2> TAKE p \in orders
  <2>1. tier[p] = Tier(p.rate, orders) /\ tier[o] = Tier(o.rate, orders)
    OBVIOUS
  <2>2. tier[p].rate = p.rate
    BY <2>1 DEF Tier
  <2>3. tier[o].rate = o.rate
    BY <1>4
  <2>4. QED BY <2>1, <2>2, <2>3
<1>8. QED BY <1>4, <1>5, <1>6, <1>7

\* One tier for a rate, and a tier for every order.
LEMMA TiersAre ==
  ASSUME NEW orders, GoodSide(orders), NEW tiers, tiers = AggregateOrderBook(orders)
  PROVE  /\ IsFiniteSet(tiers)
         /\ \A t \in tiers : t.totalAmount \in Nat /\ t.rate \in Nat
         /\ \A s, t \in tiers : s.rate = t.rate => s = t
         /\ \A t \in tiers : \E o \in orders : t.rate = o.rate
         /\ \A o \in orders : \E t \in tiers :
              /\ t.rate = o.rate
              /\ t.totalAmount = SumFunctionOnSet(AmountOf(orders), At(o.rate, orders))
<1>1. PICK tier : tier = [o \in orders |-> Tier(o.rate, orders)]
  OBVIOUS
<1>2. tiers = {tier[o] : o \in orders}
  BY <1>1 DEF AggregateOrderBook
<1>3. IsFiniteSet(tiers)
  <2>1. tier \in Surjection(orders, tiers)
    BY <1>1, <1>2 DEF Surjection
  <2>2. QED BY <2>1, FS_Surjection DEF GoodSide
<1>4. PICK sum : sum = [o \in orders |-> SumFunctionOnSet(AmountOf(orders), At(o.rate, orders))]
  OBVIOUS
<1>5. \A o \in orders :
        /\ tier[o].rate = o.rate /\ o.rate \in Nat
        /\ tier[o].totalAmount = sum[o] /\ tier[o].totalAmount \in Nat
        /\ \A p \in orders : tier[p] = tier[o] <=> p.rate = o.rate
  BY <1>1, <1>4, TierIs DEF GoodSide
<1>6. \A s, t \in tiers : s.rate = t.rate => s = t
  <2> SUFFICES ASSUME NEW s \in tiers, NEW t \in tiers, s.rate = t.rate PROVE s = t
    OBVIOUS
  <2>1. PICK o \in orders, p \in orders : s = tier[o] /\ t = tier[p]
    BY <1>2
  <2>2. o.rate = p.rate
    BY <1>5, <2>1
  <2>3. QED BY <1>5, <2>1, <2>2
<1>7. \A t \in tiers : /\ t.totalAmount \in Nat /\ t.rate \in Nat
                       /\ \E o \in orders : t.rate = o.rate
  <2> TAKE t \in tiers
  <2>1. PICK o \in orders : t = tier[o]
    BY <1>2
  <2>2. QED BY <1>5, <2>1
<1>8. \A o \in orders : \E t \in tiers : t.rate = o.rate /\ t.totalAmount = sum[o]
  BY <1>2, <1>5
<1>9. QED BY <1>3, <1>4, <1>6, <1>7, <1>8

\* The tiers hold the amounts of the orders and every order once.
LEMMA TiersAddUp ==
  ASSUME NEW orders, GoodSide(orders), NEW tiers, tiers = AggregateOrderBook(orders)
  PROVE  /\ SumFunction([t \in tiers |-> t.totalAmount]) = Volume(orders)
         /\ SumFunction([t \in tiers |-> t.count]) = Cardinality(orders)
<1>1. PICK tier : tier = [o \in orders |-> Tier(o.rate, orders)]
  OBVIOUS
<1>2. PICK amount : amount = AmountOf(orders)
  OBVIOUS
<1>3. PICK at : at = [o \in orders |-> At(o.rate, orders)]
  OBVIOUS
<1>4. tiers = {tier[o] : o \in orders} /\ IsFiniteSet(tiers)
  BY <1>1, TiersAre DEF AggregateOrderBook
<1>5. /\ IsFiniteSet(orders) /\ Ints(amount, orders)
      /\ Volume(orders) = SumFunctionOnSet(amount, orders)
  <2>1. orders \in SUBSET orders
    OBVIOUS
  <2>2. QED BY <1>2, <2>1, VolumeIsSum
<1>6. \A o \in orders : /\ tier[o] \in tiers
                        /\ tier[o].totalAmount = SumFunctionOnSet(amount, at[o])
                        /\ tier[o].count = Cardinality(at[o])
                        /\ at[o] = {p \in orders : tier[p] = tier[o]}
  <2> TAKE o \in orders
  <2>1. /\ tier[o].totalAmount = SumFunctionOnSet(amount, at[o])
        /\ tier[o].count = Cardinality(at[o])
        /\ \A p \in orders : tier[p] = tier[o] <=> p.rate = o.rate
    BY <1>1, <1>2, <1>3, TierIs
  <2>2. at[o] = {p \in orders : p.rate = o.rate}
    BY <1>3 DEF At
  <2>3. QED BY <1>4, <2>1, <2>2
<1>7. PICK members : members = [t \in tiers |-> {o \in orders : tier[o] = t}]
  OBVIOUS
<1>8. \A t \in tiers : \A o : o \in members[t] <=> o \in orders /\ tier[o] = t
  BY <1>7
<1>9. \A t \in tiers : /\ t.totalAmount = SumFunctionOnSet(amount, members[t])
                       /\ t.count = Cardinality(members[t])
  <2> TAKE t \in tiers
  <2>1. PICK o \in orders : t = tier[o]
    BY <1>4
  <2>2. members[t] = at[o]
    BY <1>6, <1>7, <2>1
  <2>3. QED BY <1>6, <2>1, <2>2
<1>10. SumFunction([t \in tiers |-> t.totalAmount]) = Volume(orders)
  <2> DEFINE f == [t \in tiers |-> t.totalAmount]
  <2>1. DOMAIN f = tiers /\ \A t \in tiers : f[t] = t.totalAmount
    OBVIOUS
  <2>2. \A t \in tiers : f[t] = SumFunctionOnSet(amount, members[t])
    BY <1>9, <2>1
  <2> HIDE DEF f
  <2>3. \A o \in orders : tier[o] \in tiers
    BY <1>6
  <2>4. SumFunctionOnSet(f, tiers) = SumFunctionOnSet(amount, orders)
    BY <1>4, <1>5, <1>8, <2>2, <2>3, SumPartition
  <2>5. SumFunction(f) = Volume(orders)
    BY <1>5, <2>1, <2>4 DEF SumFunction
  <2>6. QED BY <2>5 DEF f
<1>11. SumFunction([t \in tiers |-> t.count]) = Cardinality(orders)
  <2> DEFINE f == [t \in tiers |-> t.count]
             ones == [o \in orders |-> 1]
  <2>1. /\ DOMAIN f = tiers /\ \A t \in tiers : f[t] = t.count
        /\ \A o \in orders : ones[o] = 1
    OBVIOUS
  <2> HIDE DEF f, ones
  <2>2. ASSUME NEW t \in tiers PROVE f[t] = SumFunctionOnSet(ones, members[t])
    <3>1. PICK T : T = members[t]
      OBVIOUS
    <3>2. IsFiniteSet(T) /\ \A o \in T : ones[o] = 1
      BY <1>5, <1>8, <2>1, <3>1, FS_Subset
    <3>3. SumFunctionOnSet(ones, T) = Cardinality(T)
      BY <3>2, SumOnes
    <3>4. QED BY <1>9, <2>1, <3>1, <3>3
  <2>3. Ints(ones, orders)
    BY <2>1 DEF Ints
  <2>4. \A o \in orders : tier[o] \in tiers
    BY <1>6
  <2>5. SumFunctionOnSet(f, tiers) = SumFunctionOnSet(ones, orders)
    BY <1>4, <1>5, <1>8, <2>2, <2>3, <2>4, SumPartition
  <2>6. SumFunctionOnSet(ones, orders) = Cardinality(orders)
    BY <1>5, <2>1, SumOnes
  <2>7. SumFunction(f) = Cardinality(orders)
    BY <2>1, <2>5, <2>6 DEF SumFunction
  <2>8. QED BY <2>7 DEF f
<1>12. QED BY <1>10, <1>11

\* No bar of a side's rows is wider than the table.
LEMMA BarsWithinTable ==
  ASSUME NEW tiers, IsFiniteSet(tiers), \A t \in tiers : t.totalAmount \in Nat,
         NEW t \in tiers
  PROVE  OrderBookSide(tiers)[t] <= 100
<1> DEFINE f == [v \in tiers |-> v.totalAmount]
           amounts == {v.totalAmount : v \in tiers} \cup {1}
<1>1. Ints(f, tiers) /\ \A v \in tiers : f[v] = v.totalAmount
  BY DEF Ints
<1>2. PICK top \in tiers : \A v \in tiers : v.totalAmount <= top.totalAmount
  <2> HIDE DEF f
  <2>1. PICK top \in tiers : \A v \in tiers : f[v] <= f[top]
    BY <1>1, HasGreatest
  <2>2. QED BY <1>1, <2>1
<1>3. \E m \in amounts : \A x \in amounts : m >= x
  <2>1. CASE top.totalAmount >= 1
    BY <1>2, <2>1
  <2>2. CASE top.totalAmount = 0
    BY <1>2, <2>2
  <2>3. QED BY <2>1, <2>2
<1>4. PICK m : m = Max(amounts)
  OBVIOUS
<1>5. m \in amounts /\ \A x \in amounts : m >= x
  BY <1>3, <1>4 DEF Max
<1>6. PICK a \in Nat : a = t.totalAmount
  OBVIOUS
<1>7. m \in Nat \ {0} /\ a <= m
  BY <1>5, <1>6
<1>8. (a * 100) \div m <= 100
  BY <1>7
<1>9. OrderBookSide(tiers)[t] = (a * 100) \div m
  BY <1>4, <1>6 DEF OrderBookSide
<1>10. QED BY <1>8, <1>9

\* The columns of the chart for one side hold the side's volume.
LEMMA ColumnsAddUp ==
  ASSUME NEW orders, GoodSide(orders), NEW rates, IsFiniteSet(rates),
         \A o \in orders : o.rate \in rates,
         NEW f, DOMAIN f = rates,
         NEW tiers, tiers = AggregateOrderBook(orders),
         \A r \in rates : f[r] = IF \E t \in tiers : t.rate = r
                                 THEN (CHOOSE t \in tiers : t.rate = r).totalAmount ELSE 0
  PROVE  SumFunction(f) = Volume(orders)
<1>1. PICK amount : amount = AmountOf(orders)
  OBVIOUS
<1>2. PICK class : class = [o \in orders |-> o.rate]
  OBVIOUS
<1>3. PICK members : members = [r \in rates |-> At(r, orders)]
  OBVIOUS
<1>4. /\ IsFiniteSet(orders) /\ Ints(amount, orders)
      /\ Volume(orders) = SumFunctionOnSet(amount, orders)
  <2>1. orders \in SUBSET orders
    OBVIOUS
  <2>2. QED BY <1>1, <2>1, VolumeIsSum
<1>5. ASSUME NEW r \in rates PROVE f[r] = SumFunctionOnSet(amount, members[r])
  <2>1. /\ \A s, t \in tiers : s.rate = t.rate => s = t
        /\ \A t \in tiers : \E o \in orders : t.rate = o.rate
        /\ \A o \in orders : \E t \in tiers :
             t.rate = o.rate /\ t.totalAmount = SumFunctionOnSet(amount, At(o.rate, orders))
    BY <1>1, TiersAre
  <2>2. CASE \E o \in orders : o.rate = r
    <3>1. PICK t \in tiers : /\ t.rate = r
                             /\ t.totalAmount = SumFunctionOnSet(amount, At(r, orders))
      BY <2>1, <2>2
    <3>2. (CHOOSE s \in tiers : s.rate = r) = t
      BY <2>1, <3>1
    <3>3. QED BY <1>3, <3>1, <3>2
  <2>3. CASE ~\E o \in orders : o.rate = r
    <3>1. At(r, orders) = {} /\ ~\E t \in tiers : t.rate = r
      BY <2>1, <2>3 DEF At
    <3>2. SumFunctionOnSet(amount, At(r, orders)) = 0
      BY <3>1, SumEmpty
    <3>3. QED BY <1>3, <3>1, <3>2
  <2>4. QED BY <2>2, <2>3
<1>6. \A r \in rates : \A o : o \in members[r] <=> o \in orders /\ class[o] = r
  BY <1>2, <1>3 DEF At
<1>7. \A o \in orders : class[o] \in rates
  BY <1>2
<1>8. SumFunctionOnSet(f, rates) = SumFunctionOnSet(amount, orders)
  BY <1>4, <1>5, <1>6, <1>7, SumPartition
<1>9. QED BY <1>4, <1>8 DEF SumFunction

\* The rates of the tiers have a least and a greatest one, and they are the orders'.
LEMMA BestRates ==
  ASSUME NEW orders, GoodSide(orders), NEW rates,
         rates = {t.rate : t \in AggregateOrderBook(orders)}
  PROVE  /\ Min(rates) \in Nat /\ Max(rates) \in Nat
         /\ \A o \in orders : Min(rates) <= o.rate /\ o.rate <= Max(rates)
         /\ \E o \in orders : o.rate = Min(rates)
         /\ \E o \in orders : o.rate = Max(rates)
<1>1. PICK rate : rate = [o \in orders |-> o.rate]
  OBVIOUS
<1>2. IsFiniteSet(orders) /\ orders # {} /\ \A o \in orders : rate[o] = o.rate /\ rate[o] \in Nat
  BY <1>1 DEF GoodSide
<1>3. \A r : r \in rates <=> \E o \in orders : r = o.rate
  <2>1. PICK tiers : tiers = AggregateOrderBook(orders)
    OBVIOUS
  <2>2. /\ \A t \in tiers : \E o \in orders : t.rate = o.rate
        /\ \A o \in orders : \E t \in tiers : t.rate = o.rate
    BY <2>1, TiersAre
  <2>3. QED BY <2>1, <2>2
<1>4. Ints(rate, orders)
  BY <1>2 DEF Ints
<1>5. PICK low \in orders : \A o \in orders : rate[low] <= rate[o]
  BY <1>2, <1>4, HasLeast
<1>6. PICK high \in orders : \A o \in orders : rate[o] <= rate[high]
  BY <1>2, <1>4, HasGreatest
<1>7. \A r \in rates : low.rate <= r /\ r <= high.rate /\ r \in Nat
  <2> TAKE r \in rates
  <2>1. PICK o \in orders : r = o.rate
    BY <1>3
  <2>2. rate[low] = low.rate /\ rate[high] = high.rate /\ rate[o] = o.rate /\ rate[o] \in Nat
    BY <1>2
  <2>3. QED BY <1>5, <1>6, <2>1, <2>2
<1>8. low.rate \in rates /\ high.rate \in rates
  BY <1>3
<1>9. PICK least, most : least = Min(rates) /\ most = Max(rates)
  OBVIOUS
<1>10. least \in rates /\ \A r \in rates : least <= r
  BY <1>7, <1>8, <1>9 DEF Min
<1>11. most \in rates /\ \A r \in rates : most >= r
  BY <1>7, <1>8, <1>9 DEF Max
<1>12. QED BY <1>3, <1>7, <1>9, <1>10, <1>11

\* The rates of the chart.
LEMMA RatesAreFinite ==
  ASSUME NEW orders, IsFiniteSet(orders), NEW rates, rates = {o.rate : o \in orders}
  PROVE  IsFiniteSet(rates)
<1> DEFINE f == [o \in orders |-> o.rate]
<1>1. f \in Surjection(orders, rates)
  BY DEF Surjection
<1> HIDE DEF f
<1>2. QED BY <1>1, FS_Surjection

\* The columns of the chart add up to the totals of the header.
LEMMA ChartAddsUp ==
  ASSUME DemoInv, NEW chart, chart = DepthChart
  PROVE  /\ SumFunction([r \in DOMAIN chart |-> chart[r].bids]) = Volume(bids)
         /\ SumFunction([r \in DOMAIN chart |-> chart[r].asks]) = Volume(asks)
<1>1. PICK rates : rates = {o.rate : o \in bids \cup asks}
  OBVIOUS
<1>2. PICK bidTiers, askTiers : /\ bidTiers = AggregateOrderBook(bids)
                                /\ askTiers = AggregateOrderBook(asks)
  OBVIOUS
<1>3. GoodSide(bids) /\ GoodSide(asks)
  BY SidesAreGood
<1>4. IsFiniteSet(rates) /\ (\A o \in bids : o.rate \in rates) /\ \A o \in asks : o.rate \in rates
  <2>1. IsFiniteSet(bids \cup asks)
    BY <1>3, FS_Union DEF GoodSide
  <2>2. QED BY <1>1, <2>1, RatesAreFinite
<1>5. /\ DOMAIN chart = rates
      /\ \A r \in rates :
           /\ chart[r].bids = IF \E t \in bidTiers : t.rate = r
                              THEN (CHOOSE t \in bidTiers : t.rate = r).totalAmount ELSE 0
           /\ chart[r].asks = IF \E t \in askTiers : t.rate = r
                              THEN (CHOOSE t \in askTiers : t.rate = r).totalAmount ELSE 0
  BY <1>1, <1>2 DEF DepthChart, BarsAt
<1> DEFINE f == [r \in DOMAIN chart |-> chart[r].bids]
           g == [r \in DOMAIN chart |-> chart[r].asks]
<1>6. /\ DOMAIN f = rates /\ \A r \in rates : f[r] = chart[r].bids
      /\ DOMAIN g = rates /\ \A r \in rates : g[r] = chart[r].asks
  BY <1>5
<1> HIDE DEF f, g
<1>7. SumFunction(f) = Volume(bids)
  <2>1. \A r \in rates : f[r] = IF \E t \in bidTiers : t.rate = r
                                THEN (CHOOSE t \in bidTiers : t.rate = r).totalAmount ELSE 0
    <3> TAKE r \in rates
    <3>1. f[r] = chart[r].bids
      BY <1>6
    <3>2. QED BY <1>5, <3>1
  <2>2. QED BY <1>2, <1>3, <1>4, <1>6, <2>1, ColumnsAddUp
<1>8. SumFunction(g) = Volume(asks)
  <2>1. \A r \in rates : g[r] = IF \E t \in askTiers : t.rate = r
                                THEN (CHOOSE t \in askTiers : t.rate = r).totalAmount ELSE 0
    <3> TAKE r \in rates
    <3>1. g[r] = chart[r].asks
      BY <1>6
    <3>2. QED BY <1>5, <3>1
  <2>2. QED BY <1>2, <1>3, <1>4, <1>6, <2>1, ColumnsAddUp
<1>9. QED BY <1>7, <1>8 DEF f, g

\* The rows of one side's table.
LEMMA TableAddsUp ==
  ASSUME NEW orders, GoodSide(orders),
         NEW rows, rows = OrderBookSide(AggregateOrderBook(orders))
  PROVE  /\ \A s, t \in DOMAIN rows : (s.rate = t.rate => s = t) /\ rows[t] <= 100
         /\ SumFunction([t \in DOMAIN rows |-> t.totalAmount]) = Volume(orders)
         /\ SumFunction([t \in DOMAIN rows |-> t.count]) = Cardinality(orders)
<1>1. PICK tiers : tiers = AggregateOrderBook(orders)
  OBVIOUS
<1>2. DOMAIN rows = tiers
  BY <1>1 DEF OrderBookSide
<1>3. /\ \A s, t \in tiers : s.rate = t.rate => s = t
      /\ IsFiniteSet(tiers) /\ \A t \in tiers : t.totalAmount \in Nat
  BY <1>1, TiersAre
<1>4. \A t \in tiers : rows[t] <= 100
  BY <1>1, <1>3, BarsWithinTable
<1>5. /\ SumFunction([t \in tiers |-> t.totalAmount]) = Volume(orders)
      /\ SumFunction([t \in tiers |-> t.count]) = Cardinality(orders)
  BY <1>1, TiersAddUp
<1>6. QED BY <1>2, <1>3, <1>4, <1>5

\* The spread is above zero exactly when a bid asks for less than an ask would pay, and
\* "N/A" exactly when a bid asks for nothing or no ask pays anything.
LEMMA SpreadTells ==
  ASSUME DemoInv
  PROVE  /\ \A s \in ShownSpread : s > 0 <=> \E b \in bids, a \in asks : b.rate < a.rate
         /\ ShownSpread = {} <=> (\E b \in bids : b.rate = 0) \/ \A a \in asks : a.rate = 0
<1>1. PICK low, high : low = BestBid /\ high = BestAsk
  OBVIOUS
<1>2. /\ low \in Nat /\ \A b \in bids : low <= b.rate /\ b.rate \in Nat
      /\ \E b \in bids : b.rate = low
  BY <1>1, SidesAreGood, BestRates DEF BestBid, GoodSide
<1>3. /\ high \in Nat /\ \A a \in asks : a.rate <= high /\ a.rate \in Nat
      /\ \E a \in asks : a.rate = high
  BY <1>1, SidesAreGood, BestRates DEF BestAsk, GoodSide
<1>4. high - low > 0 <=> \E b \in bids, a \in asks : b.rate < a.rate
  BY <1>2, <1>3
<1>5. low = 0 <=> \E b \in bids : b.rate = 0
  BY <1>2
<1>6. high = 0 <=> \A a \in asks : a.rate = 0
  BY <1>3
<1>7. ShownSpread = IF low # 0 /\ high # 0 THEN {high - low} ELSE {}
  BY <1>1, <1>2, <1>3 DEF ShownSpread
<1>8. QED BY <1>4, <1>5, <1>6, <1>7

\* The tables, the chart and the header of the order book view agree with each other and
\* with the rows the hook holds, mock or answered.
THEOREM DemoBookAlwaysAddsUp == Spec => []DemoBookAddsUp
<1>1. DemoInv => DemoBookAddsUp
  <2> SUFFICES ASSUME DemoInv PROVE DemoBookAddsUp
    OBVIOUS
  <2>1. PICK depth : depth = MarketDepth
    OBVIOUS
  <2>2. /\ depth.bidLiquidity = Volume(bids) /\ depth.askDemand = Volume(asks)
        /\ depth.spread = ShownSpread
        /\ depth.activeOrders = Cardinality(bids) + Cardinality(asks)
        /\ depth.chart = DepthChart
        /\ depth.bidRows = OrderBookSide(AggregateOrderBook(bids))
        /\ depth.askRows = OrderBookSide(AggregateOrderBook(asks))
    BY <2>1 DEF MarketDepth
  <2>3. GoodSide(bids) /\ GoodSide(asks)
    BY SidesAreGood
  <2>4. /\ \A s, t \in DOMAIN depth.bidRows : (s.rate = t.rate => s = t) /\ depth.bidRows[t] <= 100
        /\ SumFunction([t \in DOMAIN depth.bidRows |-> t.totalAmount]) = Volume(bids)
        /\ SumFunction([t \in DOMAIN depth.bidRows |-> t.count]) = Cardinality(bids)
    BY <2>2, <2>3, TableAddsUp
  <2>5. /\ \A s, t \in DOMAIN depth.askRows : (s.rate = t.rate => s = t) /\ depth.askRows[t] <= 100
        /\ SumFunction([t \in DOMAIN depth.askRows |-> t.totalAmount]) = Volume(asks)
        /\ SumFunction([t \in DOMAIN depth.askRows |-> t.count]) = Cardinality(asks)
    BY <2>2, <2>3, TableAddsUp
  <2>6. /\ SumFunction([r \in DOMAIN depth.chart |-> depth.chart[r].bids]) = Volume(bids)
        /\ SumFunction([r \in DOMAIN depth.chart |-> depth.chart[r].asks]) = Volume(asks)
    BY <2>2, ChartAddsUp
  <2>7. /\ \A s \in depth.spread : s > 0 <=> \E b \in bids, a \in asks : b.rate < a.rate
        /\ depth.spread = {} <=> (\E b \in bids : b.rate = 0) \/ \A a \in asks : a.rate = 0
    BY <2>2, SpreadTells
  <2>8. DemoBookAddsUp <=>
          (On("orderbook") =>
             /\ \A rows \in {depth.bidRows, depth.askRows} : \A s, t \in DOMAIN rows :
                  (s.rate = t.rate => s = t) /\ rows[t] <= 100
             /\ SumFunction([t \in DOMAIN depth.bidRows |-> t.totalAmount]) = depth.bidLiquidity
             /\ SumFunction([t \in DOMAIN depth.askRows |-> t.totalAmount]) = depth.askDemand
             /\ SumFunction([t \in DOMAIN depth.bidRows |-> t.count])
                  + SumFunction([t \in DOMAIN depth.askRows |-> t.count]) = depth.activeOrders
             /\ SumFunction([r \in DOMAIN depth.chart |-> depth.chart[r].bids])
                  = depth.bidLiquidity
             /\ SumFunction([r \in DOMAIN depth.chart |-> depth.chart[r].asks])
                  = depth.askDemand
             /\ \A s \in depth.spread : s > 0 <=> \E b \in bids, a \in asks : b.rate < a.rate
             /\ depth.spread = {}
                  <=> (\E b \in bids : b.rate = 0) \/ \A a \in asks : a.rate = 0)
    BY <2>1 DEF DemoBookAddsUp
  <2>9. QED BY <2>2, <2>4, <2>5, <2>6, <2>7, <2>8
<1>2. QED BY <1>1, DemoInvariant, PTL
=============================================================================
