-------------------------- MODULE BookScreenProofs --------------------------
(***************************************************************************)
(* The order book page, for any number of changes, of failures and of      *)
(* overlapping loads of the hook: its types, and that it goes back to an   *)
(* older book only by an answer that was overtaken.                        *)
(*                                                                         *)
(* The argument: a call is answered with a book no older than what PQS     *)
(* showed when it was made, and that was no older than what was on screen  *)
(* then, because PQS only moves forward.  What is on screen changes during *)
(* a call only by an answer, which marks the call as overtaken, or by the  *)
(* view opening on the hook's prop; then only loads of the hook are under  *)
(* way, and each is marked or was made after the prop came.                *)
(***************************************************************************)
EXTENDS BookScreen, TLAPS

\* Book b reflects no more than n changes.
Within(b, n) == b # NoBook => b.asks <= n /\ b.bids <= n

\* Nothing on screen is ahead of PQS, nor was what PQS showed when a call was made.
BooksKnown ==
  /\ Within(prop, indexed) /\ Within(liveData, indexed)
  /\ \A c \in Callers : Waiting(c) => call[c] <= indexed

\* A call under way that nothing overtook was made after the book on screen was read; a
\* load of the hook, after the prop.
CallsCurrent ==
  \A c \in Callers : Waiting(c) /\ c \notin overtaken
                     => /\ Within(liveData, call[c])
                        /\ c \in HookLoads => Within(prop, call[c])

ScreenInv == ScreenTypeOK /\ BooksKnown /\ CallsCurrent

\* No call under way is a value of its own.
LEMMA NoCallIsApart == NoCall \in Nat /\ NoCall \in 0 .. NoCall /\ MaxChanges < NoCall
  BY ScreenAssumption DEF NoCall

LEMMA InitScreen == Init => ScreenInv
  <1> SUFFICES ASSUME Init PROVE ScreenInv
    OBVIOUS
  <1>1. \A c \in Callers : ~Waiting(c)
    BY DEF Init, Waiting
  <1>2. call \in [Callers -> 0 .. NoCall]
    BY NoCallIsApart DEF Init
  <1>3. ScreenTypeOK
    <2>1. changes \in 0 .. MaxChanges /\ indexed \in 0 .. changes /\ faults \in 0 .. MaxFaults
      BY ScreenAssumption DEF Init
    <2>2. ~Waiting("poll") /\ ~Waiting("refresh")
      BY <1>1 DEF Callers
    <2> QED
      BY <1>2, <2>1, <2>2 DEF Init, ScreenTypeOK
  <1>4. BooksKnown /\ CallsCurrent
    BY <1>1 DEF Init, BooksKnown, CallsCurrent, Within
  <1> QED
    BY <1>3, <1>4 DEF ScreenInv

\* The counters and the books can be compared.
LEMMA AgesAreNumbers ==
  ASSUME ScreenTypeOK
  PROVE  /\ indexed \in Nat /\ indexed \in 0 .. NoCall /\ indexed # NoCall
         /\ call \in [Callers -> 0 .. NoCall]
         /\ \A c \in Callers : call[c] \in Nat
         /\ \A b \in {prop, liveData} : b # NoBook => b.asks \in Nat /\ b.bids \in Nat
  BY ScreenAssumption, NoCallIsApart DEF ScreenTypeOK, Books

\* What asking and being answered do to the calls.
LEMMA AskingCalls ==
  ASSUME ScreenTypeOK, NEW c \in Callers, Ask(c)
  PROVE  /\ call' \in [Callers -> 0 .. NoCall]
         /\ ~Waiting(c) /\ call'[c] = indexed
         /\ \A d \in Callers \ {c} : call'[d] = call[d]
  BY AgesAreNumbers DEF Ask

LEMMA AnsweredCalls ==
  ASSUME ScreenTypeOK, NEW c \in Callers, Answered(c)
  PROVE  /\ call' \in [Callers -> 0 .. NoCall]
         /\ Waiting(c) /\ call'[c] = NoCall
         /\ \A d \in Callers \ {c} : call'[d] = call[d]
  BY AgesAreNumbers, NoCallIsApart DEF Answered

\* The book of an answer is one, not ahead of PQS and not older than the call.
LEMMA BookOfAnswer ==
  ASSUME ScreenInv, NEW c \in Callers, Waiting(c), NEW b \in BooksRead(c)
  PROVE  /\ b \in Books /\ b # NoBook /\ Within(b, indexed)
         /\ call[c] <= b.asks /\ call[c] <= b.bids /\ b.asks \in Nat /\ b.bids \in Nat
  <1>1. ScreenTypeOK /\ call[c] <= indexed
    BY DEF ScreenInv, BooksKnown
  <1>2. /\ b.asks \in call[c] .. indexed /\ b.bids \in call[c] .. indexed
        /\ b = [asks |-> b.asks, bids |-> b.bids]
    BY DEF BooksRead
  <1>3. indexed \in Nat /\ call[c] \in Nat /\ MaxChanges \in Nat /\ indexed <= MaxChanges
    BY <1>1, AgesAreNumbers, ScreenAssumption DEF ScreenTypeOK
  <1>4. b.asks \in 0 .. MaxChanges /\ b.bids \in 0 .. MaxChanges
    BY <1>2, <1>3
  <1>5. b \in Books
    BY <1>2, <1>4 DEF Books
  <1> QED
    BY <1>2, <1>3, <1>5, ScreenAssumption DEF Within

-----------------------------------------------------------------------------
(* The steps. *)

\* Every action keeps the types.
LEMMA TypeStep == ScreenInv /\ [Next]_vars => ScreenTypeOK'
  <1> SUFFICES ASSUME ScreenInv, [Next]_vars PROVE ScreenTypeOK'
    OBVIOUS
  <1>0. ScreenTypeOK
    BY DEF ScreenInv
  <1> USE ScreenAssumption
  <1>1. CASE Change
    BY <1>0, <1>1 DEF ScreenTypeOK, Change, Waiting
  <1>2. CASE Index
    BY <1>0, <1>2 DEF ScreenTypeOK, Index, Waiting
  <1>3. CASE OpenView
    BY <1>0, <1>3, AskingCalls DEF ScreenTypeOK, OpenView, Waiting, marketVars, Callers
  <1>4. CASE CloseView
    BY <1>0, <1>4, NoCallIsApart DEF ScreenTypeOK, CloseView, Waiting, marketVars, Callers
  <1>5. CASE Poll
    BY <1>0, <1>5, AskingCalls DEF ScreenTypeOK, Poll, Waiting, marketVars, Callers
  <1>6. CASE HandleRefresh
    BY <1>0, <1>6, AskingCalls DEF ScreenTypeOK, HandleRefresh, Waiting, marketVars, Callers
  <1>7. ASSUME NEW h \in HookLoads, LoadRealData(h) PROVE ScreenTypeOK'
    BY <1>0, <1>7, AskingCalls DEF ScreenTypeOK, LoadRealData, Waiting, marketVars, Callers
  <1>8. CASE PollAnswered
    BY <1>0, <1>8, AnsweredCalls, BookOfAnswer
       DEF ScreenTypeOK, PollAnswered, Overtake, Answered, Waiting, marketVars, Callers
  <1>9. CASE RefreshAnswered
    BY <1>0, <1>9, AnsweredCalls, BookOfAnswer
       DEF ScreenTypeOK, RefreshAnswered, Overtake, Answered, Waiting, marketVars, Callers
  <1>10. ASSUME NEW h \in HookLoads, HookAnswered(h) PROVE ScreenTypeOK'
    BY <1>0, <1>10, AnsweredCalls, BookOfAnswer
       DEF ScreenTypeOK, HookAnswered, Overtake, Answered, Waiting, marketVars, Callers
  <1>11. ASSUME NEW c \in Callers, CallFails(c) PROVE ScreenTypeOK'
    <2>1. /\ call' \in [Callers -> 0 .. NoCall] /\ Waiting(c) /\ call'[c] = NoCall
          /\ \A d \in Callers \ {c} : call'[d] = call[d]
      BY <1>0, <1>11, AnsweredCalls DEF CallFails
    <2>2. /\ faults' \in 0 .. MaxFaults /\ overtaken' = overtaken \ {c}
          /\ UNCHANGED <<changes, indexed, open, prop, liveData>>
      BY <1>0, <1>11 DEF ScreenTypeOK, CallFails, marketVars
    <2>3. overtaken' \subseteq {d \in Callers : Waiting(d)'}
      BY <1>0, <2>1, <2>2 DEF ScreenTypeOK, Waiting
    <2>4. pollError' \in BOOLEAN
      BY <1>11 DEF CallFails
    <2>5. ~open => c # "poll" /\ c # "refresh" /\ ~pollError'
      BY <1>0, <1>11, <2>1 DEF ScreenTypeOK, CallFails
    <2>6. ~open => ~Waiting("poll")' /\ ~Waiting("refresh")'
      BY <1>0, <2>1, <2>5 DEF ScreenTypeOK, Waiting, Callers
    <2> QED
      BY <1>0, <2>1, <2>2, <2>3, <2>4, <2>5, <2>6 DEF ScreenTypeOK
  <1>12. CASE UNCHANGED vars
    BY <1>0, <1>12 DEF ScreenTypeOK, vars, Waiting
  <1> QED
    BY <1>1, <1>2, <1>3, <1>4, <1>5, <1>6, <1>7, <1>8, <1>9, <1>10, <1>11, <1>12 DEF Next

\* A call made now is current: nothing on screen is ahead of PQS.
LEMMA AskStep ==
  ASSUME ScreenInv, NEW c \in Callers, Ask(c), UNCHANGED <<indexed, prop, overtaken>>,
         liveData' \in {liveData, prop},
         liveData' = liveData \/ \A d \in Callers : Waiting(d) => d \in HookLoads
  PROVE  BooksKnown' /\ CallsCurrent'
  BY AgesAreNumbers, AskingCalls DEF ScreenInv, BooksKnown, CallsCurrent, Within, Waiting

\* After an answer every call still under way is overtaken.
LEMMA AnswerStep ==
  ASSUME ScreenInv, NEW c \in Callers, Answered(c), Overtake(c), UNCHANGED indexed,
         prop' \in {prop} \cup BooksRead(c), liveData' \in {liveData} \cup BooksRead(c)
  PROVE  BooksKnown' /\ CallsCurrent'
  <1>1. /\ ScreenTypeOK /\ BooksKnown /\ Waiting(c) /\ call'[c] = NoCall
        /\ \A d \in Callers \ {c} : call'[d] = call[d]
    BY AnsweredCalls DEF ScreenInv
  <1>2. Within(prop, indexed)' /\ Within(liveData, indexed)'
    BY <1>1, BookOfAnswer DEF BooksKnown, Within
  <1>3. \A d \in Callers : ~(Waiting(d)' /\ d \notin overtaken')
    BY <1>1 DEF Overtake, Waiting
  <1>4. \A d \in Callers : Waiting(d)' => call'[d] <= indexed'
    BY <1>1 DEF BooksKnown, Waiting
  <1> QED
    BY <1>2, <1>3, <1>4 DEF BooksKnown, CallsCurrent

\* Every action keeps the screen within what PQS shows, and the calls that nothing
\* overtook up with the screen.
LEMMA BookStep == ScreenInv /\ [Next]_vars => BooksKnown' /\ CallsCurrent'
  <1> SUFFICES ASSUME ScreenInv, [Next]_vars PROVE BooksKnown' /\ CallsCurrent'
    OBVIOUS
  <1>0. ScreenTypeOK /\ BooksKnown /\ CallsCurrent
    BY DEF ScreenInv
  <1>1. CASE Change
    BY <1>0, <1>1 DEF Change, BooksKnown, CallsCurrent, Within, Waiting
  <1>2. CASE Index
    BY <1>0, <1>2, AgesAreNumbers DEF Index, BooksKnown, CallsCurrent, Within, Waiting
  <1>3. CASE OpenView
    <2>1. \A d \in Callers : Waiting(d) => d \in HookLoads
      BY <1>0, <1>3 DEF ScreenTypeOK, OpenView, Callers
    <2> QED
      BY <1>3, <2>1, AskStep DEF OpenView, marketVars, Callers
  <1>4. CASE CloseView
    <2>1. /\ \A d \in Callers : call'[d] \in {call[d], NoCall}
          /\ \A d \in Callers : Waiting(d)' => d \notin {"poll", "refresh"}
          /\ overtaken' = overtaken \ {"poll", "refresh"} /\ liveData' = NoBook
          /\ UNCHANGED <<indexed, prop>>
      BY <1>0, <1>4, AgesAreNumbers DEF CloseView, Waiting, marketVars, Callers
    <2> QED
      BY <1>0, <2>1 DEF BooksKnown, CallsCurrent, Within, Waiting
  <1>5. CASE Poll
    BY <1>5, AskStep DEF Poll, marketVars, Callers
  <1>6. CASE HandleRefresh
    BY <1>6, AskStep DEF HandleRefresh, marketVars, Callers
  <1>7. ASSUME NEW h \in HookLoads, LoadRealData(h) PROVE BooksKnown' /\ CallsCurrent'
    BY <1>7, AskStep DEF LoadRealData, marketVars, Callers
  <1>8. CASE PollAnswered
    BY <1>8, AnswerStep DEF PollAnswered, marketVars, Callers
  <1>9. CASE RefreshAnswered
    BY <1>9, AnswerStep DEF RefreshAnswered, marketVars, Callers
  <1>10. ASSUME NEW h \in HookLoads, HookAnswered(h) PROVE BooksKnown' /\ CallsCurrent'
    BY <1>10, AnswerStep DEF HookAnswered, marketVars, Callers
  <1>11. ASSUME NEW c \in Callers, CallFails(c) PROVE BooksKnown' /\ CallsCurrent'
    <2>1. /\ call'[c] = NoCall /\ \A d \in Callers \ {c} : call'[d] = call[d]
          /\ overtaken' = overtaken \ {c} /\ UNCHANGED <<indexed, prop, liveData>>
      BY <1>0, <1>11, AnsweredCalls DEF CallFails, marketVars
    <2> QED
      BY <1>0, <2>1 DEF BooksKnown, CallsCurrent, Within, Waiting
  <1>12. CASE UNCHANGED vars
    BY <1>0, <1>12 DEF BooksKnown, CallsCurrent, Within, Waiting, vars
  <1> QED
    BY <1>1, <1>2, <1>3, <1>4, <1>5, <1>6, <1>7, <1>8, <1>9, <1>10, <1>11, <1>12 DEF Next

-----------------------------------------------------------------------------

\* Everything above holds of every reachable state of the page.
THEOREM ScreenInvariant == Spec => []ScreenInv
  <1>1. ScreenInv /\ [Next]_vars => ScreenInv'
    BY TypeStep, BookStep DEF ScreenInv
  <1> QED
    BY InitScreen, <1>1, PTL DEF Spec

\* The order book page's variables keep their types; a closed view has nothing on screen
\* and no call of its own under way, and only calls under way count as overtaken.
THEOREM ScreenTypeCorrect == Spec => []ScreenTypeOK
  <1>1. ScreenInv => ScreenTypeOK
    BY DEF ScreenInv
  <1> QED
    BY ScreenInvariant, <1>1, PTL

\* OrderBook shows an older book than before only when an answer arrives that was under
\* way while another came (order-book.tsx 81-149), however many loads of the hook overlap
\* (use-denver-data.ts 77-126 has no guard against it).
THEOREM OnlyOvertakenAnswersGoBack == Spec => OnlyOvertakenGoBack
  <1>1. ASSUME ScreenInv, Next, GoesBack
        PROVE  \E c \in overtaken : Waiting(c) /\ ~Waiting(c)'
    <2>0. ScreenTypeOK /\ CallsCurrent
      BY <1>1 DEF ScreenInv
    <2>n. /\ \A c \in Callers : call[c] \in Nat
          /\ liveData.asks \in Nat /\ liveData.bids \in Nat
      BY <1>1, <2>0, AgesAreNumbers DEF GoesBack
    <2>1. ASSUME NEW c \in Callers, Answered(c), liveData' \in BooksRead(c)
          PROVE  c \in overtaken /\ Waiting(c) /\ ~Waiting(c)'
      <3>1. Waiting(c) /\ ~Waiting(c)'
        BY <2>0, <2>1, AnsweredCalls DEF Waiting
      <3>2. /\ call[c] <= liveData'.asks /\ call[c] <= liveData'.bids
            /\ liveData'.asks \in Nat /\ liveData'.bids \in Nat
        BY <1>1, <2>1, <3>1, BookOfAnswer
      <3>3. liveData'.asks < liveData.asks \/ liveData'.bids < liveData.bids
        BY <1>1 DEF GoesBack, Sides
      <3>4. ~Within(liveData, call[c])
        BY <1>1, <2>n, <3>2, <3>3 DEF Within, GoesBack
      <3> QED
        BY <2>0, <3>1, <3>4 DEF CallsCurrent
    <2>2. open /\ open' /\ liveData' # liveData
      BY <1>1, <2>n DEF GoesBack, Sides
    <2>3. \/ PollAnswered \/ RefreshAnswered
          \/ \E h \in HookLoads : HookAnswered(h)
      BY <1>1, <2>2 DEF Next, Change, Index, OpenView, CloseView, Poll, HandleRefresh,
                        LoadRealData, CallFails
    <2>4. CASE PollAnswered
      BY <2>1, <2>4 DEF PollAnswered, Callers
    <2>5. CASE RefreshAnswered
      BY <2>1, <2>5 DEF RefreshAnswered, Callers
    <2>6. ASSUME NEW h \in HookLoads, HookAnswered(h)
          PROVE  \E c \in overtaken : Waiting(c) /\ ~Waiting(c)'
      BY <2>1, <2>2, <2>6 DEF HookAnswered, Callers
    <2> QED
      BY <2>3, <2>4, <2>5, <2>6
  <1>2. ScreenInv /\ [Next]_vars
        => [GoesBack => \E c \in overtaken : Waiting(c) /\ ~Waiting(c)']_vars
    BY <1>1
  <1> QED
    BY ScreenInvariant, <1>2, PTL DEF Spec, OnlyOvertakenGoBack
=============================================================================
