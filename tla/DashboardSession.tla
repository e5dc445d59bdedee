-------------------------- MODULE DashboardSession --------------------------
(***************************************************************************)
(* The browser side of the lending application: the session of one page    *)
(* (LoginScreen, page.tsx) and the hook that loads the lists and submits   *)
(* the commands (useDenverData).                                           *)
(*                                                                         *)
(* Every call of an async function of the hook is a job.  A load sends all *)
(* its requests at once, with the session cookie the browser holds at that *)
(* moment; the server answers each when it gets to it, with what PQS shows *)
(* then to the user of that session.  Nothing cancels a job: it goes on    *)
(* after a logout, a login, a switch of view and beside other loads, and   *)
(* its setters still apply.                                                *)
(*                                                                         *)
(* The contents of a list are the number of ledger changes it reflects.    *)
(***************************************************************************)
EXTENDS Naturals

CONSTANTS
  Users,
  Lists,         \* the lists an instance follows, out of AllLists
  Entries,       \* bound: loads that an effect has in progress at a time
  Commands,      \* bound: commands in progress at a time
  Attempts,      \* how often a command reloads the lists afterwards
  MaxChanges,    \* bound: changes of the ledger that are told apart
  MaxFaults,     \* bound on the calls that fail
  MaxLogouts,    \* bound on the logouts in progress at a time
  Nobody

\* A failed request for one of these fails the load; any other list is taken to be empty.
CoreLists == {"requests", "offers", "loans", "creditProfile"}

\* Lists that logout empties.
ClearedLists == CoreLists \cup {"bids", "asks"}

AllLists == ClearedLists \cup
  {"fundingIntents", "principalRequests", "repaymentRequests", "matchedProposals"}

ASSUME SessionAssumption ==
  /\ Nobody \notin Users
  /\ Entries \cap Commands = {}
  /\ Lists \subseteq AllLists
  /\ Attempts \subseteq Nat \ {0}
  /\ MaxChanges \in Nat /\ MaxFaults \in Nat /\ MaxLogouts \in Nat

\* The calls of async functions.
Jobs == Entries \cup Commands

VARIABLES
  changes,     \* changes committed on the ledger
  indexed,     \* changes PQS shows
  cookie,      \* whose session the browser holds
  auth,        \* authStatus
  user,        \* currentUser
  call,        \* the call of the login screen or of the start screen
  asked,       \* whose session the getUser of that call was sent with
  logouts,     \* logouts in progress
  shown,       \* the lists on screen: whose they are and what they reflect
  loading,     \* the progress bar
  job,         \* the calls in progress
  relic,       \* history: what is on screen is of a load from before the present session
  faults       \* calls that failed so far

vars == <<changes, indexed, cookie, auth, user, call, asked, logouts, shown, loading,
          job, relic, faults>>

ledgerVars == <<changes, indexed>>
pageVars   == <<auth, user, call, asked, logouts>>
authVars   == <<cookie, pageVars>>
screenVars == <<shown, loading, relic>>

Content == [owner : Users \cup {Nobody}, at : 0 .. MaxChanges]
Empty   == [owner |-> Nobody, at |-> 0]
Pending == [owner |-> Nobody, at |-> MaxChanges + 1]   \* no answer yet

JobStates ==
  [pc    : {"idle", "command", "ask", "sleep", "fetch"},
   left  : Nat,                                         \* loads still to make
   sent  : Users \cup {Nobody},                         \* the cookie its requests carry
   got   : [Lists -> Content \cup {Pending}],
   current   : BOOLEAN,    \* history: the load was sent in the present session
   overtaken : BOOLEAN]    \* history: another load landed meanwhile

NoJob == [pc |-> "idle", left |-> 0, sent |-> Nobody,
          got |-> [l \in Lists |-> Pending], current |-> FALSE, overtaken |-> FALSE]

\* A call that has returned leaves nothing behind.
SessionTypeOK ==
  /\ changes \in 0 .. MaxChanges
  /\ indexed \in 0 .. changes
  /\ cookie \in Users \cup {Nobody}
  /\ auth \in {"checking", "authenticated", "unauthenticated", "no-backend"}
  /\ user \in Users \cup {Nobody}
  /\ call \in {"none", "checkUser", "login", "rejected"}
  /\ asked \in Users \cup {Nobody}
  /\ logouts \in 0 .. MaxLogouts
  /\ shown \in [Lists -> Content]
  /\ loading \in BOOLEAN
  /\ job \in [Jobs -> JobStates]
  /\ \A j \in Jobs : job[j].pc = "idle" => job[j] = NoJob
  /\ relic \in BOOLEAN
  /\ faults \in 0 .. MaxFaults

Init ==
  /\ changes = 0 /\ indexed = 0
  /\ cookie \in Users \cup {Nobody}
  /\ auth = "checking" /\ user = Nobody
  /\ call = "none" /\ asked = Nobody /\ logouts = 0
  /\ shown = [l \in Lists |-> Empty]
  /\ loading = FALSE
  /\ job = [j \in Jobs |-> NoJob]
  /\ relic = FALSE /\ faults = 0

Idle(j) == job[j].pc = "idle"

\* What the page shows, and so what its user can do.
ShowsLogin     == auth \in {"unauthenticated", "no-backend"}
ShowsDashboard == auth = "authenticated"

Fault == faults < MaxFaults /\ faults' = faults + 1

\* The server does not know, or no longer knows, the session that was sent.  A request it
\* took in before the session ended may still be served.
Unknown(sent) == sent = Nobody \/ sent # cookie

-----------------------------------------------------------------------------
(* The server (external): other users change the ledger, PQS follows it. *)

\* Beyond MaxChanges a change is not told apart from the last one.
Change == changes' = IF changes < MaxChanges THEN changes + 1 ELSE changes

OthersChange ==
  /\ changes < MaxChanges
  /\ Change
  /\ UNCHANGED <<indexed, authVars, screenVars, job, faults>>

Index ==
  /\ indexed < changes
  /\ indexed' = changes
  /\ UNCHANGED <<changes, authVars, screenVars, job, faults>>

-----------------------------------------------------------------------------
(***************************************************************************)
(* loadRealData.  Beginning a load shows the progress bar; it ends when    *)
(* every request was answered or one for a core list failed.               *)
(***************************************************************************)
LoadOf(left, current) ==
  [NoJob EXCEPT !.pc = "fetch", !.left = left, !.sent = cookie, !.current = current]

\* Bug: the lists are polled for good.
Returned_Polls(j) == [NoJob EXCEPT !.pc = "sleep", !.left = job[j].left]

\* After the last load the call returns.
Returned(j) ==
  IF job[j].left > 1 THEN [NoJob EXCEPT !.pc = "sleep", !.left = job[j].left - 1] ELSE NoJob

Overtaken == [k \in Jobs |-> IF job[k].pc = "fetch" THEN [job[k] EXCEPT !.overtaken = TRUE]
                            ELSE job[k]]

\* Bug: the progress bar is left to the other loads.
DropLoad_KeepsBar(j) ==
  /\ UNCHANGED screenVars
  /\ job' = [job EXCEPT ![j] = Returned(j)]

\* The error is shown; the lists stay as they are.
DropLoad(j) ==
  /\ loading' = FALSE
  /\ UNCHANGED <<shown, relic>>
  /\ job' = [job EXCEPT ![j] = Returned(j)]

Awaits(j, l) == job[j].pc = "fetch" /\ job[j].got[l] = Pending

Receive(j, l, content) ==
  /\ job' = [job EXCEPT ![j].got[l] = content]
  /\ UNCHANGED screenVars

\* Bug: the browser may answer from its cache.
Answer_Cached(j, l) ==
  /\ Awaits(j, l) /\ job[j].sent # Nobody
  /\ \E n \in 0 .. indexed : Receive(j, l, [owner |-> job[j].sent, at |-> n])
  /\ UNCHANGED <<ledgerVars, authVars, faults>>

\* The server reads one list for the user of the session the request was sent with.
Answer(j, l) ==
  /\ Awaits(j, l) /\ job[j].sent # Nobody
  /\ Receive(j, l, [owner |-> job[j].sent, at |-> indexed])
  /\ UNCHANGED <<ledgerVars, authVars, faults>>

\* The request fails, as it does without a session.
AnswerFails(j, l) ==
  /\ Awaits(j, l)
  /\ Fault \/ (Unknown(job[j].sent) /\ UNCHANGED faults)
  /\ IF l \in CoreLists THEN DropLoad(j) ELSE Receive(j, l, Empty)
  /\ UNCHANGED <<ledgerVars, authVars>>

\* The last answer arrives: the lists of the load go on screen, all together.
Land(j) ==
  /\ job[j].pc = "fetch" /\ \A l \in Lists : job[j].got[l] # Pending
  /\ shown' = job[j].got
  /\ relic' = ~job[j].current
  /\ loading' = FALSE
  /\ job' = [Overtaken EXCEPT ![j] = Returned(j)]
  /\ UNCHANGED <<ledgerVars, authVars, faults>>

\* The timer of refreshWithRetry.
Wake(j) ==
  /\ job[j].pc = "sleep"
  /\ job' = [job EXCEPT ![j] = LoadOf(job[j].left, ShowsDashboard)]
  /\ loading' = TRUE
  /\ UNCHANGED <<ledgerVars, authVars, shown, relic, faults>>

-----------------------------------------------------------------------------
(***************************************************************************)
(* Commands.  Each awaits its own POST and then reloads the lists several  *)
(* times.  A rejected or unanswered command ends the call with an error.   *)
(***************************************************************************)
\* A form, or a button of a row: accept, repay, cancel, confirm...
Submit(j) ==
  /\ ShowsDashboard /\ Idle(j)
  /\ \E n \in Attempts :
       job' = [job EXCEPT ![j] = [NoJob EXCEPT !.pc = "command", !.left = n, !.sent = cookie]]
  /\ UNCHANGED <<ledgerVars, authVars, screenVars, faults>>

\* createLoanRequest goes on to place an ask; every other command reloads at once.
CommandDone(j) ==
  /\ job[j].pc = "command" /\ job[j].sent # Nobody
  /\ Change
  /\ \E next \in {"ask", "sleep"} :
       job' = [job EXCEPT ![j] = [@ EXCEPT !.pc = next, !.sent = Nobody]]
  /\ UNCHANGED <<indexed, authVars, screenVars, faults>>

CommandLost(j) ==
  \/ Fault /\ ((job[j].sent # Nobody /\ Change) \/ UNCHANGED changes)
  \/ Unknown(job[j].sent) /\ UNCHANGED <<changes, faults>>

\* Bug: a failed command ends but its reloads are still due.
CommandFails_KeepsLoads(j) ==
  /\ job[j].pc = "command" /\ CommandLost(j)
  /\ job' = [job EXCEPT ![j].pc = "idle"]
  /\ UNCHANGED <<indexed, authVars, screenVars>>

\* The command is rejected, or its answer is lost after it committed.
CommandFails(j) ==
  /\ job[j].pc = "command" /\ CommandLost(j)
  /\ job' = [job EXCEPT ![j] = NoJob]
  /\ UNCHANGED <<indexed, authVars, screenVars>>

\* Placing the ask may fail, or be left out for want of a profile: nobody is told.
AskAnswered(j) ==
  /\ job[j].pc = "ask"
  /\ Change \/ UNCHANGED changes
  /\ job' = [job EXCEPT ![j].pc = "sleep"]
  /\ UNCHANGED <<indexed, authVars, screenVars, faults>>

-----------------------------------------------------------------------------
(***************************************************************************)
(* The session.  Becoming authenticated runs the effect that loads.        *)
(***************************************************************************)
Enter(j) ==
  /\ auth' = "authenticated"
  /\ user' = asked
  /\ job' = [k \in Jobs |-> IF k = j THEN LoadOf(1, TRUE)
                            ELSE [job[k] EXCEPT !.current = FALSE]]
  /\ loading' = TRUE
  /\ UNCHANGED <<shown, relic>>

\* isBackendReachable, in the effect that runs on mount, and the getUser it goes on to.
CheckReachable ==
  /\ auth = "checking" /\ call = "none"
  /\ \/ call' = "checkUser" /\ asked' = cookie /\ UNCHANGED <<auth, faults>>
     \/ auth' = "no-backend" /\ Fault /\ UNCHANGED <<call, asked>>
  /\ UNCHANGED <<ledgerVars, cookie, user, logouts, screenVars, job>>

\* The server checked the password and set the cookie, or left it as it is; either way
\* getUser goes out.
PostLogin(u) ==
  /\ ShowsLogin /\ call = "none"
  /\ cookie' \in {u, cookie}
  /\ call' = "login" /\ asked' = cookie'
  /\ UNCHANGED <<ledgerVars, auth, user, logouts, screenVars, job, faults>>

\* getUser, after a login or on mount: the user of the session it was sent with.
UserKnown(j) ==
  /\ call \in {"checkUser", "login"} /\ asked # Nobody /\ Idle(j)
  /\ call' = "none" /\ asked' = Nobody
  /\ Enter(j)
  /\ UNCHANGED <<ledgerVars, cookie, logouts, faults>>

\* A 401, an error or no answer is taken for nobody.
UserUnknown ==
  /\ Fault \/ (Unknown(asked) /\ UNCHANGED faults)
  /\ \/ call = "checkUser" /\ auth' = "unauthenticated"
     \/ call = "login" /\ UNCHANGED auth
  /\ call' = "none" /\ asked' = Nobody
  /\ UNCHANGED <<ledgerVars, cookie, user, logouts, screenVars, job>>

\* A body that breaks off makes getUser throw, for it does not await res.json().  The login
\* screen reports it; checkAuth does not catch it.
UserRejected ==
  /\ Fault
  /\ \/ call = "checkUser" /\ call' = "rejected"
     \/ call = "login" /\ call' = "none"
  /\ asked' = Nobody
  /\ UNCHANGED <<ledgerVars, cookie, auth, user, logouts, screenVars, job>>

\* The POST of logout, as often as the button is clicked: the server may end the session
\* at once, or be slower than what the page sends next.
PostLogout ==
  /\ ShowsDashboard /\ logouts < MaxLogouts
  /\ logouts' = logouts + 1
  /\ cookie' \in {cookie, Nobody}
  /\ UNCHANGED <<ledgerVars, auth, user, call, asked, screenVars, job, faults>>

\* Bug: the loans are forgotten among the lists that are emptied.
FinishLogout_KeepsLoans ==
  /\ logouts > 0
  /\ logouts' = logouts - 1
  /\ \/ cookie' = Nobody /\ UNCHANGED faults
     \/ Fault /\ UNCHANGED cookie
  /\ auth' = "unauthenticated" /\ user' = Nobody
  /\ shown' = [l \in Lists |-> IF l \in ClearedLists \ {"loans"} THEN Empty ELSE shown[l]]
  /\ relic' = FALSE
  /\ job' = [j \in Jobs |-> [job[j] EXCEPT !.current = FALSE]]
  /\ UNCHANGED <<ledgerVars, call, asked, loading>>

\* Its answer takes the cookie away, another session's too when an earlier logout has let
\* somebody log in meanwhile.  When the POST fails the server keeps the session.
FinishLogout ==
  /\ logouts > 0
  /\ logouts' = logouts - 1
  /\ \/ cookie' = Nobody /\ UNCHANGED faults
     \/ Fault /\ UNCHANGED cookie
  /\ auth' = "unauthenticated" /\ user' = Nobody
  /\ shown' = [l \in Lists |-> IF l \in ClearedLists THEN Empty ELSE shown[l]]
  /\ relic' = FALSE
  /\ job' = [j \in Jobs |-> [job[j] EXCEPT !.current = FALSE]]
  /\ UNCHANGED <<ledgerVars, call, asked, loading>>

-----------------------------------------------------------------------------
LoadStep(j) ==
  Land(j) \/ \E l \in Lists : Answer(j, l) \/ AnswerFails(j, l)

CommandStep(j) == CommandDone(j) \/ CommandFails(j) \/ AskAnswered(j)

JobStep(j) == LoadStep(j) \/ Wake(j) \/ CommandStep(j)

UserStep ==
  \/ \E j \in Commands : Submit(j)
  \/ \E u \in Users : PostLogin(u)
  \/ PostLogout

UserAnswered == (\E j \in Entries : UserKnown(j)) \/ UserUnknown \/ UserRejected

PageStep == CheckReachable \/ UserAnswered

Next ==
  \/ OthersChange
  \/ Index
  \/ UserStep
  \/ PageStep
  \/ FinishLogout
  \/ \E j \in Jobs : JobStep(j)

Spec == Init /\ [][Next]_vars

(***************************************************************************)
(* The browser runs its timers and callbacks and every request is answered *)
(* or fails; nothing makes a user act.                                     *)
(***************************************************************************)
FairSpec ==
  /\ Spec
  /\ WF_vars(PageStep)
  /\ \A j \in Jobs : WF_vars(JobStep(j))

-----------------------------------------------------------------------------
Loading(j) == job[j].pc = "fetch"

\* The progress bar never outlives the loads: setLoading(false) runs on every way out of
\* loadRealData, so the bar on screen stands for a load that will still take it away.
BarHasLoad == loading => \E j \in Jobs : Loading(j)

\* The core lists on screen are those of the user shown as logged in, or empty, through
\* failed logouts, refused logins, logouts that end late and whatever their calls load.
\* The one exception is what a load sent before the session left there: nothing cancels
\* it, and its rows do come on screen.
OwnData ==
  auth = "authenticated" /\ ~relic
  => \A l \in Lists \cap CoreLists : shown[l].owner \in {user, Nobody}

\* A load that no other one overtook never replaces a core list by an older one of the
\* same user, whatever PQS and the ledger did while its requests were answered.
NoGoingBack ==
  [][\A j \in Jobs : Loading(j) /\ ~Loading(j)' /\ ~job[j].overtaken
       => \A l \in Lists \cap CoreLists :
            shown[l].owner = shown'[l].owner => shown[l].at <= shown'[l].at]_vars

\* Every call of the hook returns, so no form stays "Submitting..." for good, and the
\* page leaves its start screen unless its getUser throws.
CallsReturn ==
  /\ \A j \in Jobs : job[j].pc # "idle" ~> job[j].pc = "idle"
  /\ auth = "checking" ~> auth # "checking" \/ call = "rejected"
=============================================================================
