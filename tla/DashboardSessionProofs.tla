----------------------- MODULE DashboardSessionProofs -----------------------
(***************************************************************************)
(* The page's session and the hook's calls, for any users, lists and       *)
(* number of calls, changes, failures and logouts.                         *)
(*                                                                         *)
(* The argument: while the page shows somebody as logged in the browser    *)
(* holds that user's cookie or none, so a load sent in the session only    *)
(* has answers for that user, and what the session found on screen was     *)
(* emptied by the logout before it; and what a load has got since another  *)
(* one last landed is as new as the screen, because PQS only moves         *)
(* forward.                                                                *)
(***************************************************************************)
EXTENDS DashboardSession, TLAPS

\* Whose session it is: the page's own call fits what the page shows, and only a login
\* puts another user's cookie in the place of the one that was asked for.
SessionCalls ==
  /\ call = "checkUser" => auth = "checking"
  /\ call = "login" => ShowsLogin
  /\ auth = "checking" => logouts = 0
  /\ call \in {"checkUser", "login"} => cookie \in {asked, Nobody}
  /\ auth = "authenticated" => user \in Users /\ cookie \in {user, Nobody}

\* What a call has got that is not loading.
Blank == [l \in Lists |-> Pending]

\* Nothing on screen or on its way is ahead of PQS, and a load that was not overtaken
\* is not behind the screen.
AnswersKnown ==
  /\ \A j \in Jobs : Loading(j) \/ job[j].got = Blank
  /\ \A l \in Lists : shown[l].at <= indexed
  /\ \A j \in Jobs, l \in Lists : job[j].got[l] # Pending => job[j].got[l].at <= indexed
  /\ \A j \in Jobs, l \in Lists \cap CoreLists :
       job[j].got[l] # Pending /\ ~job[j].overtaken => shown[l].at <= job[j].got[l].at

\* The core lists a load has got are those of the user whose cookie it was sent with.
AnswersOfSender ==
  \A j \in Jobs, l \in Lists \cap CoreLists :
    job[j].got[l] # Pending => job[j].got[l].owner = job[j].sent

\* A load of the present session was sent by its user, or without a session.
SentInSession ==
  \A j \in Jobs : job[j].current =>
    Loading(j) /\ auth = "authenticated" /\ job[j].sent \in {user, Nobody}

\* Outside a session nobody's core lists are left but those of a relic.
ScreenCleared ==
  auth # "authenticated" /\ ~relic => \A l \in Lists \cap CoreLists : shown[l].owner = Nobody

SessionInv == /\ SessionTypeOK
              /\ BarHasLoad
              /\ SessionCalls
              /\ AnswersKnown
              /\ AnswersOfSender
              /\ SentInSession
              /\ ScreenCleared
              /\ OwnData

-----------------------------------------------------------------------------
(* Calls *)

LEMMA NoJobShape ==
  /\ NoJob \in JobStates /\ NoJob.pc = "idle" /\ NoJob.left = 0 /\ NoJob.sent = Nobody
  /\ NoJob.got = Blank /\ NoJob.current = FALSE /\ NoJob.overtaken = FALSE
BY DEF NoJob, JobStates, Blank

LEMMA SameCall ==
  ASSUME NEW r \in JobStates, r.current = FALSE
  PROVE  [r EXCEPT !.current = FALSE] = r
BY DEF JobStates

LEMMA ContentIsNoPending == Pending \notin Content /\ Empty \in Content
<1>1. MaxChanges \in Nat
  BY SessionAssumption
<1>2. Pending.at = MaxChanges + 1 /\ \A c \in Content : c.at \in 0 .. MaxChanges
  BY DEF Pending, Content
<1>3. Empty \in Content
  BY <1>1 DEF Empty, Content
<1> QED
  BY <1>1, <1>2, <1>3

LEMMA LoadShape ==
  ASSUME NEW left \in Nat, NEW current \in BOOLEAN, cookie \in Users \cup {Nobody}
  PROVE  /\ LoadOf(left, current) \in JobStates /\ LoadOf(left, current).pc = "fetch"
         /\ LoadOf(left, current).sent = cookie /\ LoadOf(left, current).got = Blank
         /\ LoadOf(left, current).current = current
BY DEF LoadOf, NoJob, JobStates, Blank

\* A call that ends a load has nothing left of it.
LEMMA ReturnedShape ==
  ASSUME NEW j, job[j] \in JobStates
  PROVE  /\ Returned(j) \in JobStates /\ Returned(j).pc # "fetch" /\ Returned(j).got = Blank
         /\ Returned(j).current = FALSE
         /\ Returned(j).pc = "idle" => Returned(j) = NoJob
<1>1. job[j].left \in Nat
  BY DEF JobStates
<1>2. CASE job[j].left > 1
  <2>1. job[j].left - 1 \in Nat
    BY <1>1, <1>2
  <2>2. PICK left \in Nat : left = job[j].left - 1
    BY <2>1
  <2>3. Returned(j) = [NoJob EXCEPT !.pc = "sleep", !.left = left]
    BY <1>2, <2>2 DEF Returned
  <2> QED
    BY <2>3, NoJobShape DEF JobStates
<1>3. CASE ~(job[j].left > 1)
  BY <1>3, NoJobShape DEF Returned
<1> QED
  BY <1>2, <1>3

\* What a step leaves of the answers call k has got: nothing, or all of them, and then
\* neither who sent it nor that it was overtaken is forgotten.
AnswersKept(k) ==
  \/ job'[k].got = Blank
  \/ /\ job'[k].got = job[k].got /\ job'[k].sent = job[k].sent
     /\ job[k].overtaken => job'[k].overtaken
     /\ Loading(k) => Loading(k)'

JobsTyped == /\ job \in [Jobs -> JobStates]
             /\ \A j \in Jobs : job[j].pc = "idle" => job[j] = NoJob

LEMMA SessionTypes ==
  ASSUME SessionTypeOK
  PROVE  /\ JobsTyped /\ indexed \in Nat /\ changes \in Nat /\ indexed \in 0 .. MaxChanges
         /\ MaxChanges \in Nat
         /\ \A l \in Lists : shown[l] \in Content /\ shown[l].at \in Nat
         /\ \A j \in Jobs, l \in Lists :
              job[j].got[l] # Pending => /\ job[j].got[l] \in Content
                                         /\ job[j].got[l].at \in Nat
<1>1. indexed \in Nat /\ changes \in Nat /\ indexed \in 0 .. MaxChanges /\ MaxChanges \in Nat
  BY SessionAssumption DEF SessionTypeOK
<1>2. \A c \in Content : c.at \in Nat
  BY SessionAssumption DEF Content
<1>3. \A l \in Lists : shown[l] \in Content
  BY DEF SessionTypeOK
<1>4. \A j \in Jobs, l \in Lists : job[j].got[l] \in Content \cup {Pending}
  BY DEF SessionTypeOK, JobStates
<1>5. JobsTyped
  BY DEF SessionTypeOK, JobsTyped
<1> QED
  BY <1>1, <1>2, <1>3, <1>4, <1>5

\* A step that only takes answers away leaves the screen's relation to them alone.
LEMMA AnswersStay ==
  ASSUME SessionInv, \A k \in Jobs : AnswersKept(k), shown' = shown,
         indexed' \in Nat, indexed <= indexed'
  PROVE  AnswersKnown' /\ AnswersOfSender'
<1>1. /\ SessionTypeOK /\ AnswersKnown /\ AnswersOfSender
  BY DEF SessionInv
<1>2. \A k \in Jobs, l \in Lists :
        job'[k].got[l] # Pending => /\ job'[k].got = job[k].got /\ job'[k].sent = job[k].sent
                                    /\ job[k].overtaken => job'[k].overtaken
  BY DEF AnswersKept, Blank
<1>3. \A l \in Lists : shown'[l].at <= indexed'
  BY <1>1, SessionTypes DEF AnswersKnown
<1>4. \A j \in Jobs, l \in Lists : job'[j].got[l] # Pending => job'[j].got[l].at <= indexed'
  BY <1>1, <1>2, SessionTypes DEF AnswersKnown
<1>5. \A j \in Jobs, l \in Lists \cap CoreLists :
        job'[j].got[l] # Pending /\ ~job'[j].overtaken => shown'[l].at <= job'[j].got[l].at
  BY <1>1, <1>2 DEF AnswersKnown
<1>6. \A j \in Jobs : Loading(j)' \/ job'[j].got = Blank
  BY <1>1 DEF AnswersKnown, AnswersKept
<1>7. AnswersOfSender'
  BY <1>1, <1>2 DEF AnswersOfSender
<1> QED
  BY <1>3, <1>4, <1>5, <1>6, <1>7 DEF AnswersKnown

\* The contract of one call replaced.
LEMMA JobReplaced ==
  ASSUME SessionTypeOK, NEW j \in Jobs, NEW new \in JobStates,
         new.pc = "idle" => new = NoJob, job' = [job EXCEPT ![j] = new]
  PROVE  /\ JobsTyped' /\ job'[j] = new /\ \A k \in Jobs \ {j} : job'[k] = job[k]
BY DEF SessionTypeOK, JobsTyped

\* A step that changes one call and not the screen or the page, and gives the call no
\* answer: a load it begins is sent with the present cookie.
LEMMA OneCallStep ==
  ASSUME SessionInv, NEW j \in Jobs, NEW new \in JobStates,
         new.pc = "idle" => new = NoJob, job' = [job EXCEPT ![j] = new],
         new.got = Blank,
         new.current => new.pc = "fetch" /\ auth = "authenticated" /\ new.sent = cookie,
         authVars' = authVars, shown' = shown, relic' = relic, indexed' = indexed,
         \/ loading' = FALSE
         \/ loading' = TRUE /\ new.pc = "fetch"
         \/ loading' = loading /\ ~Loading(j),
         changes' \in changes .. MaxChanges, faults' \in 0 .. MaxFaults
  PROVE  SessionInv'
<1>0. /\ SessionTypeOK /\ BarHasLoad /\ SessionCalls /\ OwnData /\ ScreenCleared
      /\ SentInSession
  BY DEF SessionInv
<1>1. /\ JobsTyped' /\ job'[j] = new /\ \A k \in Jobs \ {j} : job'[k] = job[k]
  BY <1>0, JobReplaced
<1>2. /\ cookie' = cookie /\ auth' = auth /\ user' = user /\ call' = call /\ asked' = asked
      /\ logouts' = logouts
  BY DEF authVars, pageVars
<1>3. \A k \in Jobs : AnswersKept(k)
  BY <1>1 DEF AnswersKept, Loading
<1>4. AnswersKnown' /\ AnswersOfSender'
  <2>1. indexed' \in Nat /\ indexed <= indexed'
    BY <1>0, SessionTypes
  <2> QED
    BY <2>1, <1>3, AnswersStay
<1>5. SessionTypeOK'
  <2>1. changes' \in 0 .. MaxChanges /\ indexed' \in 0 .. changes'
    BY <1>0, SessionAssumption DEF SessionTypeOK
  <2>2. loading' \in BOOLEAN
    BY <1>0 DEF SessionTypeOK
  <2> QED
    BY <2>1, <2>2, <1>0, <1>1, <1>2 DEF SessionTypeOK, JobsTyped
<1>6. BarHasLoad'
  BY <1>0, <1>1 DEF BarHasLoad, Loading
<1>7. SentInSession'
  BY <1>0, <1>1, <1>2 DEF SentInSession, SessionCalls, Loading
<1>8. SessionCalls' /\ OwnData' /\ ScreenCleared'
  BY <1>0, <1>2 DEF SessionCalls, OwnData, ShowsLogin, ScreenCleared
<1> QED
  BY <1>4, <1>5, <1>6, <1>7, <1>8 DEF SessionInv

LEMMA FaultCounts ==
  ASSUME SessionTypeOK, Fault \/ UNCHANGED faults PROVE faults' \in 0 .. MaxFaults
BY SessionAssumption DEF SessionTypeOK, Fault

-----------------------------------------------------------------------------
(* Commands *)

LEMMA CommandSteps ==
  ASSUME SessionInv, NEW j \in Jobs, Submit(j) \/ CommandStep(j) \/ Wake(j)
  PROVE  SessionInv'
<1>0. SessionTypeOK /\ job[j] \in JobStates /\ cookie \in Users \cup {Nobody} /\ AnswersKnown
      /\ SentInSession
  BY DEF SessionInv, SessionTypeOK
<1>1. changes \in changes .. MaxChanges /\ faults \in 0 .. MaxFaults
  BY <1>0, SessionAssumption DEF SessionTypeOK
<1>2. ASSUME Change \/ UNCHANGED changes PROVE changes' \in changes .. MaxChanges
  BY <1>0, <1>2, SessionAssumption DEF SessionTypeOK, Change
<1>3. CASE Submit(j)
  <2>1. PICK n \in Attempts : job' = [job EXCEPT ![j] =
           [NoJob EXCEPT !.pc = "command", !.left = n, !.sent = cookie]]
    BY <1>3 DEF Submit
  <2>2. n \in Nat
    BY SessionAssumption
  <2>3. PICK new \in JobStates :
          new = [NoJob EXCEPT !.pc = "command", !.left = n, !.sent = cookie]
    BY <1>0, <2>2, NoJobShape DEF JobStates
  <2>4. new.pc = "command" /\ new.got = Blank /\ new.current = FALSE
    BY <2>3, NoJobShape DEF JobStates
  <2>5. job' = [job EXCEPT ![j] = new]
    BY <2>1, <2>3
  <2>6. /\ ~Loading(j) /\ authVars' = authVars /\ shown' = shown /\ relic' = relic
        /\ indexed' = indexed /\ loading' = loading /\ changes' = changes
        /\ faults' = faults
    BY <1>3 DEF Submit, Idle, Loading, screenVars, ledgerVars
  <2> QED
    BY <2>4, <2>5, <2>6, <1>1, OneCallStep
<1>4. ASSUME NEW new \in JobStates, new.pc \in {"ask", "sleep"}, ~Loading(j),
             new.got = job[j].got, new.current = job[j].current,
             job' = [job EXCEPT ![j] = new],
             Change \/ UNCHANGED changes, indexed' = indexed, authVars' = authVars,
             screenVars' = screenVars, faults' = faults
      PROVE  SessionInv'
  <2>1. new.got = Blank /\ new.current = FALSE /\ new.pc # "idle"
    BY <1>0, <1>4 DEF AnswersKnown, SentInSession, JobStates
  <2>2. shown' = shown /\ relic' = relic /\ loading' = loading
    BY <1>4 DEF screenVars
  <2> QED
    BY <2>1, <2>2, <1>1, <1>2, <1>4, OneCallStep
<1>5. CASE CommandDone(j)
  <2>1. PICK next \in {"ask", "sleep"} :
          job' = [job EXCEPT ![j] = [job[j] EXCEPT !.pc = next, !.sent = Nobody]]
    BY <1>0, <1>5 DEF CommandDone
  <2>2. PICK new \in JobStates : new = [job[j] EXCEPT !.pc = next, !.sent = Nobody]
    BY <1>0 DEF JobStates
  <2>3. new.pc = next /\ new.got = job[j].got /\ new.current = job[j].current
    BY <1>0, <2>2 DEF JobStates
  <2> QED
    BY <2>1, <2>2, <2>3, <1>4, <1>5 DEF CommandDone, Loading
<1>6. CASE AskAnswered(j)
  <2>1. PICK new \in JobStates : new = [job[j] EXCEPT !.pc = "sleep"]
    BY <1>0 DEF JobStates
  <2>2. new.pc = "sleep" /\ new.got = job[j].got /\ new.current = job[j].current
    BY <1>0, <2>1 DEF JobStates
  <2>3. job' = [job EXCEPT ![j] = new]
    BY <1>6, <2>1 DEF AskAnswered
  <2> QED
    BY <2>2, <2>3, <1>4, <1>6 DEF AskAnswered, Loading
<1>7. CASE CommandFails(j)
  <2>1. /\ ~Loading(j) /\ authVars' = authVars /\ shown' = shown /\ relic' = relic
        /\ indexed' = indexed /\ loading' = loading /\ job' = [job EXCEPT ![j] = NoJob]
        /\ Change \/ UNCHANGED changes
        /\ Fault \/ UNCHANGED faults
    BY <1>7 DEF CommandFails, CommandLost, Loading, screenVars
  <2>2. faults' \in 0 .. MaxFaults
    BY <1>0, <2>1, FaultCounts
  <2>3. PICK new \in JobStates : new = NoJob
    BY NoJobShape
  <2>4. new.got = Blank /\ new.current = FALSE /\ job' = [job EXCEPT ![j] = new]
    BY <2>1, <2>3, NoJobShape
  <2> QED
    BY <2>1, <2>2, <2>3, <2>4, <1>1, <1>2, OneCallStep
<1>8. CASE Wake(j)
  <2>1. ShowsDashboard \in BOOLEAN
    BY DEF ShowsDashboard
  <2>2. PICK new \in JobStates : /\ new = LoadOf(job[j].left, ShowsDashboard)
                                 /\ new.pc = "fetch" /\ new.got = Blank
                                 /\ new.sent = cookie /\ new.current = ShowsDashboard
    <3>1. job[j].left \in Nat
      BY <1>0 DEF JobStates
    <3> QED
      BY <1>0, <2>1, <3>1, LoadShape
  <2>3. /\ ~Loading(j) /\ authVars' = authVars /\ shown' = shown /\ relic' = relic
        /\ indexed' = indexed /\ loading' = TRUE /\ changes' = changes
        /\ faults' = faults /\ job' = [job EXCEPT ![j] = new]
    BY <1>8, <2>2 DEF Wake, Loading, ledgerVars
  <2>4. new.current => auth = "authenticated" /\ new.sent = cookie
    BY <2>2 DEF ShowsDashboard
  <2> QED
    BY <2>2, <2>3, <2>4, <1>1, OneCallStep
<1> QED
  BY <1>3, <1>5, <1>6, <1>7, <1>8 DEF CommandStep

-----------------------------------------------------------------------------
(* Steps that change no call *)

LEMMA CallsKept ==
  ASSUME SessionInv, job' = job, screenVars' = screenVars
  PROVE  /\ JobsTyped' /\ BarHasLoad' /\ shown' \in [Lists -> Content]
         /\ loading' \in BOOLEAN /\ relic' \in BOOLEAN
         /\ \A k \in Jobs : AnswersKept(k)
         /\ shown' = shown /\ relic' = relic
BY DEF SessionInv, SessionTypeOK, JobsTyped, BarHasLoad, Loading, screenVars, AnswersKept

LEMMA LedgerSteps ==
  ASSUME SessionInv, OthersChange \/ Index PROVE SessionInv'
<1>0. SessionTypeOK /\ OwnData /\ SessionCalls /\ SentInSession /\ ScreenCleared
  BY DEF SessionInv
<1>1. /\ job' = job /\ screenVars' = screenVars /\ cookie' = cookie /\ auth' = auth
      /\ user' = user /\ call' = call /\ asked' = asked /\ logouts' = logouts
      /\ faults' = faults
  BY DEF OthersChange, Index, authVars, pageVars
<1>2. /\ changes' \in 0 .. MaxChanges /\ indexed' \in 0 .. changes' /\ indexed' \in Nat
      /\ indexed <= indexed'
  BY <1>0, SessionAssumption DEF OthersChange, Index, Change, SessionTypeOK
<1>3. AnswersKnown' /\ AnswersOfSender'
  BY <1>1, <1>2, CallsKept, AnswersStay
<1>4. SessionTypeOK'
  BY <1>0, <1>1, <1>2, CallsKept DEF SessionTypeOK, JobsTyped
<1>5. OwnData' /\ SessionCalls' /\ SentInSession' /\ ScreenCleared'
  BY <1>0, <1>1, CallsKept
  DEF OwnData, SessionCalls, ShowsLogin, SentInSession, ScreenCleared, Loading
<1> QED
  BY <1>1, <1>3, <1>4, <1>5, CallsKept DEF SessionInv

\* The page's own calls, but for a getUser that finds a user.
LEMMA PageCalls ==
  ASSUME SessionInv,
         \/ CheckReachable \/ UserUnknown \/ UserRejected \/ PostLogout
         \/ \E u \in Users : PostLogin(u)
  PROVE  SessionInv'
<1>0. SessionTypeOK /\ OwnData /\ SessionCalls /\ SentInSession /\ ScreenCleared
  BY DEF SessionInv
<1>1. /\ job' = job /\ screenVars' = screenVars /\ user' = user
      /\ changes' = changes /\ indexed' = indexed
  BY DEF CheckReachable, UserUnknown, UserRejected, PostLogout, PostLogin, ledgerVars
<1>2. faults' \in 0 .. MaxFaults
  <2>1. Fault \/ UNCHANGED faults
    BY DEF CheckReachable, UserUnknown, UserRejected, PostLogout, PostLogin
  <2> QED
    BY <2>1, <1>0, FaultCounts
<1>3. (auth' = "authenticated") = (auth = "authenticated")
  BY <1>0 DEF SessionCalls, ShowsLogin, CheckReachable, UserUnknown, UserRejected, PostLogout,
              PostLogin
<1>4. AnswersKnown' /\ AnswersOfSender'
  <2>1. indexed' \in Nat /\ indexed <= indexed'
    BY <1>0, <1>1, SessionTypes
  <2> QED
    BY <2>1, <1>1, CallsKept, AnswersStay
<1>5. /\ cookie' \in Users \cup {Nobody} /\ asked' \in Users \cup {Nobody}
      /\ call' \in {"none", "checkUser", "login", "rejected"}
      /\ auth' \in {"checking", "authenticated", "unauthenticated", "no-backend"}
      /\ logouts' \in 0 .. MaxLogouts
  BY <1>0, SessionAssumption
  DEF SessionTypeOK, CheckReachable, UserUnknown, UserRejected, PostLogout, PostLogin
<1>6. SessionTypeOK'
  BY <1>0, <1>1, <1>2, <1>5, CallsKept DEF SessionTypeOK, JobsTyped
<1>7. OwnData' /\ SentInSession' /\ ScreenCleared'
  BY <1>0, <1>1, <1>3, CallsKept DEF OwnData, SentInSession, ScreenCleared, Loading
<1>8. SessionCalls'
  <2>1. CASE CheckReachable
    BY <1>0, <1>1, <2>1 DEF SessionCalls, CheckReachable, ShowsLogin, SessionTypeOK
  <2>2. CASE UserUnknown \/ UserRejected
    BY <1>0, <1>1, <2>2 DEF SessionCalls, UserUnknown, UserRejected, ShowsLogin
  <2>3. CASE PostLogout
    BY <1>0, <1>1, <2>3 DEF SessionCalls, PostLogout, ShowsLogin, ShowsDashboard
  <2>4. CASE \E u \in Users : PostLogin(u)
    BY <1>0, <1>1, <2>4 DEF SessionCalls, PostLogin, ShowsLogin
  <2> QED
    BY <2>1, <2>2, <2>3, <2>4
<1> QED
  BY <1>1, <1>4, <1>6, <1>7, <1>8, CallsKept DEF SessionInv

-----------------------------------------------------------------------------
(* The session *)

\* Calls that are no longer of the present session keep all else.
LEMMA CallsDisowned ==
  ASSUME SessionTypeOK, NEW Left \in SUBSET Jobs,
         \A k \in Left : job'[k] = [job[k] EXCEPT !.current = FALSE]
  PROVE  \A k \in Left : /\ job'[k] \in JobStates /\ (job'[k].pc = "idle" => job'[k] = NoJob)
                         /\ job'[k].pc = job[k].pc /\ job'[k].got = job[k].got
                         /\ job'[k].sent = job[k].sent /\ job'[k].current = FALSE
                         /\ job'[k].overtaken = job[k].overtaken
<1> SUFFICES ASSUME NEW k \in Left
             PROVE  /\ job'[k] \in JobStates /\ (job'[k].pc = "idle" => job'[k] = NoJob)
                    /\ job'[k].pc = job[k].pc /\ job'[k].got = job[k].got
                    /\ job'[k].sent = job[k].sent /\ job'[k].current = FALSE
                    /\ job'[k].overtaken = job[k].overtaken
  OBVIOUS
<1>1. job[k] \in JobStates /\ (job[k].pc = "idle" => job[k] = NoJob)
  BY DEF SessionTypeOK
<1>2. PICK s \in JobStates : s = [job[k] EXCEPT !.current = FALSE]
  BY <1>1 DEF JobStates
<1>3. /\ s.pc = job[k].pc /\ s.got = job[k].got /\ s.current = FALSE
      /\ s.overtaken = job[k].overtaken /\ s.sent = job[k].sent
  BY <1>1, <1>2 DEF JobStates
<1>4. s.pc = "idle" => s = NoJob
  BY <1>1, <1>2, <1>3, NoJobShape, SameCall
<1> QED
  BY <1>2, <1>3, <1>4

LEMMA LogoutStep ==
  ASSUME SessionInv, FinishLogout PROVE SessionInv'
<1>0. SessionTypeOK /\ AnswersKnown /\ AnswersOfSender /\ JobsTyped /\ SessionCalls /\ BarHasLoad
  BY SessionTypes DEF SessionInv
<1>1. /\ cookie' \in {cookie, Nobody} /\ auth' = "unauthenticated" /\ user' = Nobody
      /\ call' = call /\ asked' = asked /\ logouts' = logouts - 1 /\ logouts > 0
      /\ relic' = FALSE /\ loading' = loading /\ changes' = changes
      /\ indexed' = indexed
      /\ shown' = [l \in Lists |-> IF l \in ClearedLists THEN Empty ELSE shown[l]]
      /\ job' = [k \in Jobs |-> [job[k] EXCEPT !.current = FALSE]]
      /\ Fault \/ UNCHANGED faults
  BY DEF FinishLogout, ledgerVars
<1>2. \A k \in Jobs : /\ job'[k] \in JobStates /\ (job'[k].pc = "idle" => job'[k] = NoJob)
                      /\ job'[k].pc = job[k].pc /\ job'[k].got = job[k].got
                      /\ job'[k].sent = job[k].sent /\ job'[k].current = FALSE
                      /\ job'[k].overtaken = job[k].overtaken
  <2>1. PICK Left \in SUBSET Jobs : Left = Jobs
    OBVIOUS
  <2>2. \A k \in Left : job'[k] = [job[k] EXCEPT !.current = FALSE]
    BY <1>1, <2>1
  <2> QED
    BY <1>0, <2>1, <2>2, CallsDisowned
<1>3. /\ shown' \in [Lists -> Content]
      /\ \A l \in Lists : shown'[l].at \in Nat /\ shown'[l].at <= shown[l].at
  <2>1. \A l \in Lists : shown'[l] \in {Empty, shown[l]}
    BY <1>1
  <2>2. Empty.at = 0
    BY DEF Empty
  <2>3. \A l \in Lists : shown[l] \in Content /\ shown[l].at \in Nat
    BY <1>0, SessionTypes
  <2> QED
    BY <2>1, <2>2, <2>3, <1>1, ContentIsNoPending
<1>4. AnswersKnown'
  <2>1. \A l \in Lists : shown'[l].at <= indexed'
    BY <1>0, <1>1, <1>3, SessionTypes DEF AnswersKnown
  <2>2. \A j \in Jobs, l \in Lists : job'[j].got[l] # Pending => job'[j].got[l].at <= indexed'
    BY <1>0, <1>1, <1>2 DEF AnswersKnown
  <2>3. ASSUME NEW j \in Jobs, NEW l \in Lists \cap CoreLists,
               job'[j].got[l] # Pending, ~job'[j].overtaken
        PROVE  shown'[l].at <= job'[j].got[l].at
    <3>1. /\ job[j].got[l] # Pending /\ job'[j].got[l] = job[j].got[l]
          /\ shown[l].at <= job[j].got[l].at
      BY <1>0, <1>2, <2>3 DEF AnswersKnown
    <3>2. job[j].got[l].at \in Nat /\ shown[l].at \in Nat
      BY <1>0, <3>1, SessionTypes
    <3> QED
      BY <1>3, <3>1, <3>2
  <2>4. \A j \in Jobs : Loading(j)' \/ job'[j].got = Blank
    BY <1>0, <1>2 DEF AnswersKnown, Loading
  <2> QED
    BY <2>1, <2>2, <2>3, <2>4 DEF AnswersKnown
<1>5. AnswersOfSender' /\ SentInSession' /\ OwnData' /\ BarHasLoad'
  BY <1>0, <1>1, <1>2 DEF AnswersOfSender, SentInSession, OwnData, BarHasLoad, Loading
<1>6. SessionCalls'
  BY <1>0, <1>1 DEF SessionCalls, ShowsLogin, SessionTypeOK
<1>7. ScreenCleared'
  <2>1. \A l \in Lists \cap CoreLists : shown'[l] = Empty
    BY <1>1 DEF ClearedLists
  <2> QED
    BY <2>1 DEF ScreenCleared, Empty
<1>8. SessionTypeOK'
  <2>1. job' \in [Jobs -> JobStates]
    BY <1>1, <1>2
  <2>2. faults' \in 0 .. MaxFaults
    BY <1>0, <1>1, FaultCounts
  <2>3. logouts' \in 0 .. MaxLogouts
    BY <1>0, <1>1, SessionAssumption DEF SessionTypeOK
  <2> QED
    BY <2>1, <2>2, <2>3, <1>0, <1>1, <1>2, <1>3 DEF SessionTypeOK
<1> QED
  BY <1>4, <1>5, <1>6, <1>7, <1>8 DEF SessionInv

LEMMA EnterStep ==
  ASSUME SessionInv, NEW j \in Jobs, UserKnown(j) PROVE SessionInv'
<1>0. /\ SessionTypeOK /\ AnswersKnown /\ SessionCalls /\ ScreenCleared
      /\ cookie \in Users \cup {Nobody}
  BY DEF SessionInv, SessionTypeOK
<1>1. /\ cookie' = cookie /\ call \in {"checkUser", "login"} /\ asked # Nobody
      /\ auth' = "authenticated" /\ user' = asked /\ asked' = Nobody
      /\ call' = "none" /\ faults' = faults /\ logouts' = logouts /\ loading' = TRUE
      /\ changes' = changes /\ indexed' = indexed /\ shown' = shown /\ relic' = relic
      /\ job' = [k \in Jobs |-> IF k = j THEN LoadOf(1, TRUE)
                                ELSE [job[k] EXCEPT !.current = FALSE]]
  BY DEF UserKnown, Enter, ledgerVars
<1>2. /\ job'[j] \in JobStates /\ job'[j].pc = "fetch" /\ job'[j].got = Blank
      /\ job'[j].sent = cookie /\ job'[j].current = TRUE
  BY <1>0, <1>1, LoadShape
<1>3. \A k \in Jobs \ {j} :
        /\ job'[k] \in JobStates /\ (job'[k].pc = "idle" => job'[k] = NoJob)
        /\ job'[k].pc = job[k].pc /\ job'[k].got = job[k].got
        /\ job'[k].sent = job[k].sent /\ job'[k].current = FALSE
        /\ job'[k].overtaken = job[k].overtaken
  <2>1. PICK Left \in SUBSET Jobs : Left = Jobs \ {j}
    OBVIOUS
  <2>2. \A k \in Left : job'[k] = [job[k] EXCEPT !.current = FALSE]
    BY <1>1, <2>1
  <2> QED
    BY <1>0, <2>1, <2>2, CallsDisowned
<1>4. JobsTyped'
  <2>1. job' = [k \in Jobs |-> job'[k]]
    BY <1>1
  <2>2. job' \in [Jobs -> JobStates]
    BY <1>2, <1>3, <2>1
  <2> QED
    BY <1>2, <1>3, <2>2 DEF JobsTyped
<1>5. AnswersKnown' /\ AnswersOfSender'
  <2>1. indexed' \in Nat /\ indexed <= indexed'
    BY <1>0, <1>1, SessionTypes
  <2>2. \A k \in Jobs : AnswersKept(k)
    BY <1>2, <1>3 DEF AnswersKept, Loading
  <2> QED
    BY <2>1, <2>2, <1>1, AnswersStay
<1>6. cookie \in {asked, Nobody} /\ auth # "authenticated" /\ asked \in Users
  BY <1>0, <1>1 DEF SessionCalls, ShowsLogin, SessionTypeOK
<1>7. BarHasLoad' /\ SentInSession'
  BY <1>1, <1>2, <1>3, <1>6 DEF BarHasLoad, SentInSession, Loading
<1>8. SessionTypeOK'
  BY <1>0, <1>1, <1>4 DEF SessionTypeOK, JobsTyped
<1>9. OwnData' /\ ScreenCleared' /\ SessionCalls'
  BY <1>0, <1>1, <1>6 DEF OwnData, ScreenCleared, SessionCalls, ShowsLogin
<1> QED
  BY <1>5, <1>7, <1>8, <1>9 DEF SessionInv

-----------------------------------------------------------------------------
(* Loads *)

\* One more list has come, or has been taken to be empty.
LEMMA AnswerArrives ==
  ASSUME SessionInv, NEW j \in Jobs, NEW l \in Lists, NEW content \in Content,
         Awaits(j, l), Receive(j, l, content), content.at <= indexed,
         l \in CoreLists => content.at = indexed /\ content.owner = job[j].sent,
         ledgerVars' = ledgerVars, authVars' = authVars, faults' \in 0 .. MaxFaults
  PROVE  SessionInv'
<1>0. /\ SessionTypeOK /\ AnswersKnown /\ AnswersOfSender /\ SentInSession /\ OwnData
      /\ SessionCalls /\ BarHasLoad /\ ScreenCleared
  BY DEF SessionInv
<1>1. job[j] \in JobStates /\ job[j].pc = "fetch"
  BY <1>0 DEF SessionTypeOK, Awaits
<1>2. /\ job' = [job EXCEPT ![j].got[l] = content]
      /\ shown' = shown /\ loading' = loading /\ relic' = relic
  BY DEF Receive, screenVars
<1>3. PICK got \in [Lists -> Content \cup {Pending}] : got = [job[j].got EXCEPT ![l] = content]
  BY <1>1 DEF JobStates
<1>4. PICK s \in JobStates : s = [job[j] EXCEPT !.got = got]
  BY <1>1 DEF JobStates
<1>5. /\ s.pc = "fetch" /\ s.got = got /\ s.sent = job[j].sent /\ s.current = job[j].current
      /\ s.overtaken = job[j].overtaken
  BY <1>1, <1>4 DEF JobStates
<1>6. job' = [job EXCEPT ![j] = s]
  BY <1>2, <1>3, <1>4
<1>7. /\ JobsTyped' /\ job'[j] = s /\ \A k \in Jobs \ {j} : job'[k] = job[k]
  BY <1>0, <1>5, <1>6, JobReplaced
<1>8. got[l] = content /\ \A m \in Lists \ {l} : got[m] = job[j].got[m]
  BY <1>1, <1>3 DEF JobStates
<1>9. /\ changes' = changes /\ indexed' = indexed /\ cookie' = cookie /\ auth' = auth
      /\ user' = user /\ call' = call /\ asked' = asked /\ logouts' = logouts
  BY DEF ledgerVars, authVars, pageVars
<1>10. AnswersKnown'
  <2>1. \A k \in Jobs : Loading(k)' \/ job'[k].got = Blank
    BY <1>0, <1>5, <1>7 DEF AnswersKnown, Loading
  <2>2. \A m \in Lists : shown'[m].at <= indexed'
    BY <1>0, <1>2, <1>9 DEF AnswersKnown
  <2>3. \A k \in Jobs, m \in Lists : job'[k].got[m] # Pending => job'[k].got[m].at <= indexed'
    BY <1>0, <1>5, <1>7, <1>8, <1>9 DEF AnswersKnown
  <2>4. \A k \in Jobs, m \in Lists \cap CoreLists :
          job'[k].got[m] # Pending /\ ~job'[k].overtaken => shown'[m].at <= job'[k].got[m].at
    BY <1>0, <1>2, <1>5, <1>7, <1>8 DEF AnswersKnown
  <2> QED
    BY <2>1, <2>2, <2>3, <2>4 DEF AnswersKnown
<1>11. AnswersOfSender' /\ SentInSession'
  BY <1>0, <1>1, <1>5, <1>7, <1>8, <1>9 DEF AnswersOfSender, SentInSession, Loading
<1>12. SessionTypeOK'
  BY <1>0, <1>2, <1>7, <1>9 DEF SessionTypeOK, JobsTyped
<1>13. BarHasLoad'
  BY <1>0, <1>2, <1>5, <1>7 DEF BarHasLoad, Loading
<1>14. OwnData' /\ SessionCalls' /\ ScreenCleared'
  BY <1>0, <1>2, <1>9 DEF OwnData, SessionCalls, ShowsLogin, ScreenCleared
<1> QED
  BY <1>10, <1>11, <1>12, <1>13, <1>14 DEF SessionInv

\* What the server answers, or takes a failed list for.
LEMMA AnswerSteps ==
  ASSUME SessionInv, NEW j \in Jobs, NEW l \in Lists, Answer(j, l) \/ AnswerFails(j, l)
  PROVE  SessionInv'
<1>0. SessionTypeOK /\ AnswersKnown /\ job[j] \in JobStates
  BY DEF SessionInv, SessionTypeOK
<1>1. indexed \in 0 .. MaxChanges /\ indexed \in Nat
  BY <1>0, SessionTypes
<1>2. CASE Answer(j, l)
  <2>1. PICK content \in Content : content = [owner |-> job[j].sent, at |-> indexed]
    BY <1>0, <1>1 DEF JobStates, Content
  <2>2. content.owner = job[j].sent /\ content.at = indexed /\ content.at <= indexed
    BY <1>1, <2>1
  <2>3. /\ Awaits(j, l) /\ Receive(j, l, content) /\ ledgerVars' = ledgerVars
        /\ authVars' = authVars /\ faults' = faults
    BY <1>2, <2>1 DEF Answer
  <2>4. faults' \in 0 .. MaxFaults
    BY <1>0, <2>3 DEF SessionTypeOK
  <2> QED
    BY <2>2, <2>3, <2>4, AnswerArrives
<1>3. ASSUME AnswerFails(j, l)
      PROVE  Awaits(j, l) /\ ledgerVars' = ledgerVars /\ authVars' = authVars
             /\ faults' \in 0 .. MaxFaults
  <2>1. Fault \/ UNCHANGED faults
    BY <1>3 DEF AnswerFails
  <2> QED
    BY <2>1, <1>0, <1>3, FaultCounts DEF AnswerFails
<1>4. CASE AnswerFails(j, l) /\ l \notin CoreLists
  <2>1. PICK content \in Content : content = Empty
    BY ContentIsNoPending
  <2>2. content.at <= indexed
    BY <1>1, <2>1 DEF Empty
  <2>3. Receive(j, l, content)
    BY <1>4, <2>1 DEF AnswerFails
  <2> QED
    BY <1>3, <1>4, <2>2, <2>3, AnswerArrives
<1>5. CASE AnswerFails(j, l) /\ l \in CoreLists
  <2>1. /\ loading' = FALSE /\ shown' = shown /\ relic' = relic
        /\ job' = [job EXCEPT ![j] = Returned(j)]
    BY <1>5 DEF AnswerFails, DropLoad
  <2>2. PICK new \in JobStates : /\ new = Returned(j) /\ new.got = Blank /\ new.current = FALSE
                                 /\ new.pc = "idle" => new = NoJob
    BY <1>0, ReturnedShape
  <2>3. indexed' = indexed /\ changes' = changes /\ changes \in changes .. MaxChanges
    BY <1>0, <1>3, <1>5, SessionAssumption DEF ledgerVars, SessionTypeOK
  <2> QED
    BY <1>3, <1>5, <2>1, <2>2, <2>3, OneCallStep
<1> QED
  BY <1>2, <1>4, <1>5

\* The lists of a load go on screen.
LEMMA LoadLands ==
  ASSUME SessionInv, NEW j \in Jobs, Land(j)
  PROVE  SessionInv'
<1>0. /\ SessionTypeOK /\ AnswersKnown /\ AnswersOfSender /\ SentInSession /\ SessionCalls
      /\ job[j] \in JobStates
  BY DEF SessionInv, SessionTypeOK
<1>1. /\ shown' = job[j].got /\ relic' = ~job[j].current /\ loading' = FALSE
      /\ job' = [Overtaken EXCEPT ![j] = Returned(j)]
      /\ \A l \in Lists : job[j].got[l] # Pending
      /\ changes' = changes /\ indexed' = indexed /\ cookie' = cookie /\ auth' = auth
      /\ user' = user /\ call' = call /\ asked' = asked /\ logouts' = logouts
      /\ faults' = faults
  BY DEF Land, ledgerVars, authVars, pageVars
<1>2. /\ job'[j] \in JobStates /\ job'[j].pc # "fetch" /\ job'[j].got = Blank
      /\ job'[j].current = FALSE
      /\ job'[j].pc = "idle" => job'[j] = NoJob
  <2>1. job'[j] = Returned(j)
    BY <1>1 DEF Overtaken
  <2> QED
    BY <1>0, <2>1, ReturnedShape
<1>3. ASSUME NEW k \in Jobs \ {j}
      PROVE  /\ job'[k] \in JobStates /\ (job'[k].pc = "idle" => job'[k] = NoJob)
             /\ job'[k].pc = job[k].pc /\ job'[k].got = job[k].got
             /\ job'[k].sent = job[k].sent /\ job'[k].current = job[k].current
             /\ Loading(k) => job'[k].overtaken
  <2>1. job[k] \in JobStates /\ (job[k].pc = "idle" => job[k] = NoJob)
    BY <1>0 DEF SessionTypeOK
  <2>2. CASE Loading(k)
    <3>1. job'[k] = [job[k] EXCEPT !.overtaken = TRUE]
      BY <1>1, <2>2 DEF Overtaken, Loading
    <3> QED
      BY <2>1, <2>2, <3>1 DEF JobStates, Loading
  <2>3. CASE ~Loading(k)
    <3>1. job'[k] = job[k]
      BY <1>1, <2>3 DEF Overtaken, Loading
    <3> QED
      BY <2>1, <2>3, <3>1
  <2> QED
    BY <2>2, <2>3
<1>4. JobsTyped'
  <2>1. job' = [k \in Jobs |-> job'[k]]
    BY <1>1 DEF Overtaken
  <2>2. job' \in [Jobs -> JobStates]
    BY <1>2, <1>3, <2>1
  <2> QED
    BY <1>2, <1>3, <2>2 DEF JobsTyped
<1>5. shown' \in [Lists -> Content]
  BY <1>0, <1>1 DEF JobStates
<1>6. AnswersKnown'
  <2>1. \A k \in Jobs : Loading(k)' \/ job'[k].got = Blank
    BY <1>0, <1>2, <1>3 DEF AnswersKnown, Loading
  <2>2. \A m \in Lists : shown'[m].at <= indexed'
    BY <1>0, <1>1 DEF AnswersKnown
  <2>3. \A k \in Jobs, m \in Lists : job'[k].got[m] # Pending => job'[k].got[m].at <= indexed'
    BY <1>0, <1>1, <1>2, <1>3 DEF AnswersKnown, Blank
  <2>4. \A k \in Jobs, m \in Lists \cap CoreLists :
          job'[k].got[m] # Pending /\ ~job'[k].overtaken => shown'[m].at <= job'[k].got[m].at
    BY <1>0, <1>2, <1>3 DEF AnswersKnown, Loading, Blank
  <2> QED
    BY <2>1, <2>2, <2>3, <2>4 DEF AnswersKnown
<1>7. AnswersOfSender' /\ SentInSession'
  BY <1>0, <1>1, <1>2, <1>3 DEF AnswersOfSender, SentInSession, Loading, Blank
<1>8. OwnData' /\ ScreenCleared'
  BY <1>0, <1>1 DEF OwnData, ScreenCleared, AnswersOfSender, SentInSession
<1>9. SessionTypeOK'
  <2>1. relic' \in BOOLEAN
    BY <1>1
  <2> QED
    BY <2>1, <1>0, <1>1, <1>4, <1>5 DEF SessionTypeOK, JobsTyped
<1>10. BarHasLoad' /\ SessionCalls'
  BY <1>0, <1>1 DEF BarHasLoad, SessionCalls, ShowsLogin
<1> QED
  BY <1>6, <1>7, <1>8, <1>9, <1>10 DEF SessionInv

-----------------------------------------------------------------------------
(* Every step keeps the invariant *)

LEMMA SessionInitial == ASSUME Init PROVE SessionInv
<1>1. \A j \in Jobs : job[j] = NoJob
  BY DEF Init
<1>2. SessionTypeOK
  <2>1. changes \in 0 .. MaxChanges /\ indexed \in 0 .. changes /\ faults \in 0 .. MaxFaults
        /\ logouts \in 0 .. MaxLogouts
    BY SessionAssumption DEF Init
  <2>2. shown \in [Lists -> Content] /\ job \in [Jobs -> JobStates]
    BY ContentIsNoPending, NoJobShape DEF Init
  <2> QED
    BY <1>1, <2>1, <2>2 DEF Init, SessionTypeOK
<1>3. AnswersKnown /\ AnswersOfSender
  <2>1. \A l \in Lists : shown[l].at <= indexed
    BY DEF Init, Empty
  <2>2. \A j \in Jobs : job[j].got = Blank
    BY <1>1, NoJobShape
  <2> QED
    BY <2>1, <2>2 DEF AnswersKnown, AnswersOfSender, Blank
<1>4. SentInSession
  BY <1>1, NoJobShape DEF SentInSession
<1>5. ScreenCleared
  BY DEF Init, ScreenCleared, Empty
<1>6. BarHasLoad /\ SessionCalls /\ OwnData
  BY DEF Init, BarHasLoad, SessionCalls, ShowsLogin, OwnData
<1> QED
  BY <1>2, <1>3, <1>4, <1>5, <1>6 DEF SessionInv

LEMMA SessionStuttering ==
  ASSUME SessionInv, UNCHANGED vars PROVE SessionInv'
<1>0. SessionTypeOK /\ OwnData /\ SessionCalls /\ SentInSession /\ ScreenCleared
  BY DEF SessionInv
<1>1. /\ job' = job /\ screenVars' = screenVars /\ changes' = changes /\ indexed' = indexed
      /\ cookie' = cookie /\ auth' = auth /\ user' = user /\ call' = call /\ asked' = asked
      /\ logouts' = logouts /\ faults' = faults
  BY DEF vars, screenVars
<1>2. AnswersKnown' /\ AnswersOfSender'
  <2>1. indexed' \in Nat /\ indexed <= indexed'
    BY <1>0, <1>1, SessionTypes
  <2> QED
    BY <2>1, <1>1, CallsKept, AnswersStay
<1>3. SessionTypeOK'
  BY <1>0, <1>1, CallsKept DEF SessionTypeOK, JobsTyped
<1>4. OwnData' /\ SessionCalls' /\ SentInSession' /\ ScreenCleared'
  BY <1>0, <1>1, CallsKept
  DEF OwnData, SessionCalls, ShowsLogin, SentInSession, ScreenCleared, Loading
<1> QED
  BY <1>1, <1>2, <1>3, <1>4, CallsKept DEF SessionInv

LEMMA SessionInductive == Spec => []SessionInv
<1>1. SessionInv /\ [Next]_vars => SessionInv'
  <2> SUFFICES ASSUME SessionInv, [Next]_vars PROVE SessionInv'
    OBVIOUS
  <2>1. CASE OthersChange \/ Index
    BY <2>1, LedgerSteps
  <2>2. CASE UserStep
    <3>1. CASE \E j \in Commands : Submit(j)
      BY <3>1, CommandSteps DEF Jobs
    <3>2. CASE PostLogout \/ \E u \in Users : PostLogin(u)
      BY <3>2, PageCalls
    <3> QED
      BY <2>2, <3>1, <3>2 DEF UserStep
  <2>3. CASE PageStep
    <3>1. CASE \E j \in Entries : UserKnown(j)
      BY <3>1, EnterStep DEF Jobs
    <3>2. CASE CheckReachable \/ UserUnknown \/ UserRejected
      BY <3>2, PageCalls
    <3> QED
      BY <2>3, <3>1, <3>2 DEF PageStep, UserAnswered
  <2>4. CASE FinishLogout
    BY <2>4, LogoutStep
  <2>5. ASSUME NEW j \in Jobs, JobStep(j) PROVE SessionInv'
    <3>1. CASE LoadStep(j)
      BY <3>1, LoadLands, AnswerSteps DEF LoadStep
    <3>2. CASE Wake(j) \/ CommandStep(j)
      BY <3>2, CommandSteps
    <3> QED
      BY <2>5, <3>1, <3>2 DEF JobStep
  <2>6. CASE UNCHANGED vars
    BY <2>6, SessionStuttering
  <2> QED
    BY <2>1, <2>2, <2>3, <2>4, <2>5, <2>6 DEF Next
<1> QED
  BY <1>1, SessionInitial, PTL DEF Spec

\* A load ends by landing, or leaves the screen as it is: a logout ends no load.
LEMMA LoadEndsOnlyHere ==
  ASSUME SessionInv, NEW j \in Jobs, [Next]_vars, Loading(j), ~Loading(j)'
  PROVE  shown' = shown \/ Land(j)
<1>0. SessionTypeOK /\ job[j] \in JobStates
  BY DEF SessionInv, SessionTypeOK
<1>1. CASE FinishLogout
  <2>1. job'[j] = [job[j] EXCEPT !.current = FALSE]
    BY <1>1 DEF FinishLogout
  <2>2. job'[j].pc = job[j].pc
    BY <2>1, <1>0 DEF JobStates
  <2> QED
    BY <2>2 DEF Loading
<1>2. ASSUME NEW k \in Jobs, Land(k), k # j PROVE FALSE
  <2>1. job'[j] = Overtaken[j]
    BY <1>2 DEF Land, Overtaken
  <2>2. job'[j] = [job[j] EXCEPT !.overtaken = TRUE]
    BY <2>1 DEF Overtaken, Loading
  <2>3. job'[j].pc = job[j].pc
    BY <2>2, <1>0 DEF JobStates
  <2> QED
    BY <2>3 DEF Loading
<1>3. ASSUME shown' # shown PROVE FinishLogout \/ \E k \in Jobs : Land(k)
  BY <1>3 DEF Next, OthersChange, Index, UserStep, PageStep, UserAnswered, JobStep, LoadStep,
       CommandStep, vars, screenVars, Submit, PostLogin, PostLogout, CheckReachable, UserKnown,
       Enter, UserUnknown, UserRejected, CommandDone, CommandFails, AskAnswered, Wake, Answer,
       AnswerFails, Receive, DropLoad
<1> QED
  BY <1>1, <1>2, <1>3

-----------------------------------------------------------------------------
(* Theorems *)

\* The page's state has its types, and a call that has returned leaves nothing behind.
THEOREM SessionTypeCorrect == Spec => []SessionTypeOK
<1>1. SessionInv => SessionTypeOK
  BY DEF SessionInv
<1> QED
  BY <1>1, SessionInductive, PTL

\* The progress bar never outlives the loads, however many overlap, fail or belong to an
\* earlier session (setLoading in loadRealData).
THEOREM BarAlwaysHasLoad == Spec => []BarHasLoad
<1>1. SessionInv => BarHasLoad
  BY DEF SessionInv
<1> QED
  BY <1>1, SessionInductive, PTL

\* But for what a load sent before the session has left on screen, the core lists are
\* those of the user shown as logged in, or empty, though requests are answered for the
\* session they were sent in and logouts end late (useDenverData).
THEOREM DataAlwaysOwn == Spec => []OwnData
<1>1. SessionInv => OwnData
  BY DEF SessionInv
<1> QED
  BY <1>1, SessionInductive, PTL

\* A load that was not overtaken never puts an older list on screen.
THEOREM ScreenNeverGoesBack == Spec => NoGoingBack
<1> DEFINE Step == \A j \in Jobs : Loading(j) /\ ~Loading(j)' /\ ~job[j].overtaken
                     => \A l \in Lists \cap CoreLists :
                          shown[l].owner = shown'[l].owner => shown[l].at <= shown'[l].at
<1>1. SessionInv /\ [Next]_vars => Step
  <2> SUFFICES ASSUME SessionInv, [Next]_vars, NEW j \in Jobs,
                      Loading(j), ~Loading(j)', ~job[j].overtaken,
                      NEW l \in Lists \cap CoreLists
               PROVE  shown[l].at <= shown'[l].at
    OBVIOUS
  <2>1. CASE shown' = shown
    <3>1. shown[l].at \in Nat
      BY SessionTypes DEF SessionInv
    <3> QED
      BY <2>1, <3>1
  <2>2. CASE Land(j)
    BY <2>2 DEF SessionInv, AnswersKnown, Land
  <2> QED
    BY <2>1, <2>2, LoadEndsOnlyHere
<1>2. SessionInv /\ [Next]_vars => [Step]_vars
  BY <1>1
<1> QED
  BY <1>2, SessionInductive, PTL DEF Spec, NoGoingBack
=============================================================================
