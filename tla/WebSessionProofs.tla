----------------------------- MODULE WebSessionProofs ------------------------------
(* Machine-checked proofs about WebSession, for any number of tabs and calls.       *)
EXTENDS WebSession, AccountsProofs

(* Every step is one of these.                                                      *)
LEMMA BrowserSteps ==
  ASSUME SessionNext
  PROVE  \/ \E c \in Requests, tab \in Tabs, kind \in Kind :
               Send(c, tab, kind) /\ persisted' \in {persisted, memory[tab]}
         \/ \E c \in Requests : Serve(c) \/ Receive(c) \/ Lost(c)
         \/ TokensAge \/ Suspended
<1> USE DEF Kind, Entry
<1>1. ASSUME NEW c \in Requests, NEW tab \in Tabs,
             CallApi(c, tab) \/ ClickLogout(c, tab) \/ SignIn(c, tab) \/ SignUp(c, tab)
               \/ ForgotPasswordForm(c, tab) \/ ResetPasswordForm(c, tab)
      PROVE  \E kind \in Kind : Send(c, tab, kind) /\ persisted' \in {persisted, memory[tab]}
  BY <1>1 DEF CallApi, ClickLogout, SignIn, SignUp, SubmitForm, ForgotPasswordForm,
              ResetPasswordForm
<1> QED
  BY <1>1 DEF SessionNext

(* The shape of a call in flight.                                                   *)
CallsTyped == call \in [Requests -> Call \cup {NoCall}]

LEMMA CallFields ==
  ASSUME CallsTyped, NEW c \in Requests, InFlight(c)
  PROVE  call[c] \in Call
  BY DEF CallsTyped, NoCall, InFlight

-----------------------------------------------------------------------------------
(* NoRefreshStorm.  What a call has cost the server so far is told by where it is.  *)
CountedByStep ==
  \A c \in Requests : InFlight(c) =>
    /\ call[c].requests \in 1..3
    /\ call[c].retried \in BOOLEAN
    /\ ~call[c].retried => call[c].requests = 1
    /\ call[c].pc \in {"refreshing", "renewed"} => call[c].requests = 2

(* a first answer is not the answer to a refresh                                    *)
TokensOfEntry ==
  \A c \in Requests : /\ Waiting(c, "createRow") => task[c].enter = TRUE
                      /\ At(c, "sent") /\ Waiting(c, "issueTokens") => task[c].entry = TRUE
                      /\ At(c, "renewed") => Waiting(c, "idle")
(* What the server does to its own records: the tasks it starts and ends.           *)
RecordsTyped == user \in [Users -> UserRow] /\ task \in [Requests -> Task]

LEMMA ServerWrites ==
  ASSUME RecordsTyped, NEW c \in Requests
  PROVE  /\ Login(c, Me) => Waiting(c, "idle") /\ user' = user /\ Exists(Me)
                            /\ task' = [task EXCEPT ![c] = IssueTo(Me, TRUE)]
         /\ Register(c, Me) => Waiting(c, "idle") /\ user' = user
                               /\ task' = [task EXCEPT ![c] = CreateRow(Me, "USER", TRUE)]
         /\ RefreshRead(c, Me) => Waiting(c, "idle") /\ user' = user /\ Exists(Me)
                                  /\ user[Me].refresh = TRUE
                                  /\ task' = [task EXCEPT ![c] = IssueTo(Me, FALSE)]
         /\ Logout(c, Me) => Waiting(c, "idle") /\ task' = [task EXCEPT ![c] = Idle]
                             /\ user' = [user EXCEPT ![Me].refresh = FALSE]
         /\ IssueTokens(c) => Waiting(c, "issueTokens") /\ task' = [task EXCEPT ![c] = Idle]
                              /\ user' = [user EXCEPT ![Me].refresh = TRUE]
         /\ InsertRow(c) => Waiting(c, "createRow")
                            /\ \/ /\ Exists(Me) /\ user' = user
                                  /\ task' = [task EXCEPT ![c] = Idle]
                               \/ /\ ~Exists(Me)
                                  /\ user' = [user EXCEPT ![Me] = NewRow(task[c].role)]
                                  /\ task' = [task EXCEPT ![c] = IF task[c].enter
                                                                 THEN IssueTo(Me, TRUE)
                                                                 ELSE Idle]
<1> USE OnlyMe, TaskArgs DEF RecordsTyped, Waiting, Continue, WriteUser
<1>1. Login(c, Me) => Waiting(c, "idle") /\ user' = user /\ Exists(Me)
                      /\ task' = [task EXCEPT ![c] = IssueTo(Me, TRUE)]
  BY DEF Login
<1>2. Register(c, Me) => Waiting(c, "idle") /\ user' = user
                         /\ task' = [task EXCEPT ![c] = CreateRow(Me, "USER", TRUE)]
  BY DEF Register
<1>3. RefreshRead(c, Me) => Waiting(c, "idle") /\ user' = user /\ Exists(Me)
                            /\ user[Me].refresh = TRUE
                            /\ task' = [task EXCEPT ![c] = IssueTo(Me, FALSE)]
  BY DEF RefreshRead, UserRow
<1>4. Logout(c, Me) => Waiting(c, "idle") /\ task' = [task EXCEPT ![c] = Idle]
                       /\ user' = [user EXCEPT ![Me].refresh = FALSE]
  BY DEF Logout
<1>5. IssueTokens(c) => Waiting(c, "issueTokens") /\ task' = [task EXCEPT ![c] = Idle]
                        /\ user' = [user EXCEPT ![Me].refresh = TRUE]
  BY DEF IssueTokens
<1>6. ASSUME InsertRow(c)
      PROVE  /\ Waiting(c, "createRow")
             /\ \/ /\ Exists(Me) /\ user' = user
                   /\ task' = [task EXCEPT ![c] = Idle]
                \/ /\ ~Exists(Me)
                   /\ user' = [user EXCEPT ![Me] = NewRow(task[c].role)]
                   /\ task' = [task EXCEPT ![c] = IF task[c].enter THEN IssueTo(Me, TRUE) ELSE Idle]
  <2>1. task[c].on = Me
    BY <1>6 DEF InsertRow
  <2> QED
    BY <1>6, <2>1 DEF InsertRow, IssueTo
<1> QED
  BY <1>1, <1>2, <1>3, <1>4, <1>5, <1>6

LEMMA RecordsTypeStep ==
  ASSUME RecordsTyped, [SessionNext]_sessionVars
  PROVE  RecordsTyped'
<1> USE OnlyMe, RowsMade, TasksMade DEF RecordsTyped
<1>1. ASSUME NEW c \in Requests, NEW tab \in Tabs, NEW kind \in Kind,
             Send(c, tab, kind), persisted' \in {persisted, memory[tab]}
      PROVE  RecordsTyped'
  BY <1>1, ServerWrites, TaskArgs DEF Send, StoredPair, recordVars
<1>2. ASSUME NEW c \in Requests, ServeLogout(c)
      PROVE  RecordsTyped'
  <2>1. Logout(c, Me) /\ [user[Me] EXCEPT !.refresh = FALSE] \in UserRow
    BY <1>2 DEF ServeLogout
  <2> QED
    BY <2>1, ServerWrites
<1>3. ASSUME NEW c \in Requests, ServeLogin(c)
      PROVE  RecordsTyped'
  BY <1>3, ServerWrites, TaskArgs DEF ServeLogin, recordVars
<1>4. ASSUME NEW c \in Requests, ServeRegister(c)
      PROVE  RecordsTyped'
  BY <1>4, ServerWrites DEF ServeRegister, recordVars, Role
<1>5. ASSUME NEW c \in Requests, ServeInsert(c)
      PROVE  RecordsTyped'
  <2>1. InsertRow(c) /\ (Waiting(c, "createRow") => task[c].role \in Role)
    BY <1>5, TaskArgs DEF ServeInsert, Waiting
  <2>2. IssueTo(Me, TRUE) \in Task /\ (Waiting(c, "createRow") => NewRow(task[c].role) \in UserRow)
    BY <2>1
  <2> QED
    BY <2>1, <2>2, ServerWrites
<1>6. ASSUME NEW c \in Requests, ServeRefresh(c)
      PROVE  RecordsTyped'
  BY <1>6, ServerWrites, TaskArgs DEF ServeRefresh, recordVars
<1>7. ASSUME NEW c \in Requests, ServeTokens(c)
      PROVE  RecordsTyped'
  <2>1. IssueTokens(c) /\ [user[Me] EXCEPT !.refresh = TRUE] \in UserRow
    BY <1>7 DEF ServeTokens
  <2> QED
    BY <2>1, ServerWrites
<1>8. ASSUME TokensAge
      PROVE  RecordsTyped'
  BY <1>8 DEF TokensAge, AccessExpires
<1>9. ASSUME Suspended
      PROVE  RecordsTyped'
  <2>1. [user[Me] EXCEPT !.status = "SUSPENDED"] \in UserRow
    BY DEF AccountStatus
  <2> QED
    BY <1>9, <2>1 DEF Suspended
<1>10. ASSUME NEW c \in Requests,
             ServeApi(c) \/ RefuseLogout(c) \/ ServeRecover(c) \/ StartRefresh(c)
               \/ SignOut(c) \/ Retry(c)
       PROVE  RecordsTyped'
  BY <1>10 DEF ServeApi, RefuseLogout, ServeRecover, StartRefresh, SignOut, Retry,
     recordVars
<1>11. ASSUME NEW c \in Requests,
             EndApi(c) \/ EnterApp(c) \/ FormFails(c) \/ EndLogout(c) \/ Lost(c)
       PROVE  RecordsTyped'
  BY <1>11 DEF EndApi, EnterApp, FormFails, EndLogout, Lost, recordVars
<1>12. CASE UNCHANGED sessionVars
  BY <1>12 DEF sessionVars, browserVars, recordVars, ghosts
<1> QED
  BY <1>1, <1>2, <1>3, <1>4, <1>5, <1>6, <1>7, <1>8, <1>9, <1>10, <1>11, <1>12,
     BrowserSteps DEF Serve, Receive

(* What a step does to a call of the browser keeps it a call.                       *)
LEMMA CallsMade ==
  ASSUME NEW k \in Call
  PROVE  /\ \A pc \in {"sent", "unauthorized", "renewed", "done", "refreshing", "refused", "failed"} :
              /\ [k EXCEPT !.pc = pc] \in Call
              /\ [k EXCEPT !.pc = pc, !.token = "fresh"] \in Call
              /\ [k EXCEPT !.pc = pc, !.requests = @ + 1] \in Call
              /\ [k EXCEPT !.pc = pc, !.retried = TRUE, !.requests = @ + 1] \in Call
         /\ [k EXCEPT !.late = TRUE] \in Call
         /\ [k EXCEPT !.token = Age(@)] \in Call
         /\ k.token \in Pair /\ k.tab \in Tabs /\ k.pc # "idle"
<1> USE DEF Call, Pair
<1>1. ASSUME NEW pc \in {"sent", "unauthorized", "renewed", "done", "refreshing", "refused", "failed"}
      PROVE  [k EXCEPT !.pc = pc] \in Call /\ [k EXCEPT !.pc = pc, !.token = "fresh"] \in Call
  OBVIOUS
<1>2. ASSUME NEW pc \in {"sent", "unauthorized", "renewed", "done", "refreshing", "refused", "failed"}
      PROVE  /\ [k EXCEPT !.pc = pc, !.requests = @ + 1] \in Call
             /\ [k EXCEPT !.pc = pc, !.retried = TRUE, !.requests = @ + 1] \in Call
  <2>1. k.requests + 1 \in Nat
    OBVIOUS
  <2> QED
    BY <2>1
<1>3. [k EXCEPT !.late = TRUE] \in Call
  OBVIOUS
<1>4. [k EXCEPT !.token = Age(@)] \in Call
  <2>1. Age(k.token) \in Pair
    BY DEF Age
  <2> QED
    BY <2>1
<1>5. k.token \in Pair /\ k.tab \in Tabs /\ k.pc # "idle"
  OBVIOUS
<1> QED
  BY <1>1, <1>2, <1>3, <1>4, <1>5

(* the stores hold pairs, and what is under way are calls                           *)
StoresTyped == stored \in Pair /\ persisted \in Pair /\ memory \in [Tabs -> Pair]
BrowserTyped == RecordsTyped /\ StoresTyped /\ CallsTyped

LEMMA StepTyped ==
  ASSUME CallsTyped, NEW c \in Requests, InFlight(c),
         NEW pc \in {"sent", "unauthorized", "renewed", "done", "refreshing", "refused", "failed"},
         Step(c, pc)
  PROVE  CallsTyped'
<1>1. [call[c] EXCEPT !.pc = pc] \in Call
  BY CallFields, CallsMade
<1>2. call' = [call EXCEPT ![c] = [call[c] EXCEPT !.pc = pc]]
  BY DEF Step
<1> QED
  BY <1>1, <1>2 DEF CallsTyped

LEMMA CallsUnchanged == CallsTyped /\ call' = call => CallsTyped'
  BY DEF CallsTyped

LEMMA CallsTypeStep ==
  ASSUME BrowserTyped, [SessionNext]_sessionVars
  PROVE  CallsTyped'
<1> USE CallFields, CallsMade DEF CallsTyped, BrowserTyped, InFlight, At
<1>1. ASSUME NEW c \in Requests, NEW tab \in Tabs, NEW kind \in Kind,
             Send(c, tab, kind), persisted' \in {persisted, memory[tab]}
      PROVE  CallsTyped'
  <2>1. StoredPair \in Pair
    BY DEF StoredPair, StoresTyped
  <2> QED
    BY <1>1, <2>1 DEF Send, Call
<1>2. ASSUME NEW c \in Requests, ServeApi(c)
      PROVE  CallsTyped'
  BY <1>2, CallFields DEF ServeApi, Step, Close, Reload, browserVars
<1>3. ASSUME NEW c \in Requests, ServeLogout(c)
      PROVE  CallsTyped'
  BY <1>3, CallFields DEF ServeLogout, Step, Close, Reload, browserVars
<1>4. ASSUME NEW c \in Requests, RefuseLogout(c)
      PROVE  CallsTyped'
  BY <1>4, CallFields DEF RefuseLogout, Step, Close, Reload, browserVars
<1>5. ASSUME NEW c \in Requests, ServeLogin(c)
      PROVE  CallsTyped'
  <2>1. InFlight(c) /\ (call' = call \/ Step(c, "unauthorized"))
    BY <1>5 DEF ServeLogin
  <2> QED
    BY <2>1, StepTyped, CallsUnchanged
<1>6. ASSUME NEW c \in Requests, ServeRegister(c)
      PROVE  CallsTyped'
  <2>1. InFlight(c) /\ (call' = call \/ Step(c, "failed"))
    BY <1>6 DEF ServeRegister
  <2> QED
    BY <2>1, StepTyped, CallsUnchanged
<1>7. ASSUME NEW c \in Requests, ServeRecover(c)
      PROVE  CallsTyped'
  BY <1>7, CallFields DEF ServeRecover, Step, Close, Reload, browserVars
<1>8. ASSUME NEW c \in Requests, ServeInsert(c)
      PROVE  CallsTyped'
  <2>1. call' = call \/ (InFlight(c) /\ Step(c, "failed"))
    BY <1>8 DEF ServeInsert
  <2> QED
    BY <2>1, StepTyped, CallsUnchanged
<1>9. ASSUME NEW c \in Requests, ServeRefresh(c)
      PROVE  CallsTyped'
  <2>1. InFlight(c) /\ (call' = call \/ Step(c, "refused"))
    BY <1>9 DEF ServeRefresh
  <2> QED
    BY <2>1, StepTyped, CallsUnchanged
<1>10. ASSUME NEW c \in Requests, ServeTokens(c)
       PROVE  CallsTyped'
  BY <1>10, CallFields DEF ServeTokens, Step, Close, Reload, browserVars
<1>11. ASSUME NEW c \in Requests, StartRefresh(c)
       PROVE  CallsTyped'
  BY <1>11, CallFields DEF StartRefresh, Step, Close, Reload, browserVars
<1>12. ASSUME NEW c \in Requests, SignOut(c)
       PROVE  CallsTyped'
  BY <1>12, CallFields DEF SignOut, Step, Close, Reload, browserVars
<1>13. ASSUME NEW c \in Requests, Retry(c)
       PROVE  CallsTyped'
  BY <1>13, CallFields DEF Retry, Step, Close, Reload, browserVars
<1>14. ASSUME NEW c \in Requests, EndApi(c)
       PROVE  CallsTyped'
  BY <1>14, CallFields DEF EndApi, Step, Close, Reload, browserVars
<1>15. ASSUME NEW c \in Requests, EnterApp(c)
       PROVE  CallsTyped'
  BY <1>15, CallFields DEF EnterApp, Step, Close, Reload, browserVars
<1>16. ASSUME NEW c \in Requests, FormFails(c)
       PROVE  CallsTyped'
  BY <1>16, CallFields DEF FormFails, Step, Close, Reload, browserVars
<1>17. ASSUME NEW c \in Requests, EndLogout(c)
       PROVE  CallsTyped'
  BY <1>17, CallFields DEF EndLogout, Step, Close, Reload, browserVars
<1>18. ASSUME NEW c \in Requests, Lost(c)
       PROVE  CallsTyped'
  BY <1>18, CallFields DEF Lost, Step, Close, Reload, browserVars
<1>19. ASSUME TokensAge
       PROVE  CallsTyped'
  BY <1>19, CallFields DEF TokensAge, Step, Close, Reload, browserVars
<1>20. ASSUME Suspended
       PROVE  CallsTyped'
  BY <1>20, CallFields DEF Suspended, Step, Close, Reload, browserVars
<1>21. CASE UNCHANGED sessionVars
  BY <1>21 DEF sessionVars, browserVars, recordVars, ghosts
<1> QED
  BY <1>1, <1>2, <1>3, <1>4, <1>5, <1>6, <1>7, <1>8, <1>9, <1>10, <1>11, <1>12, <1>13, <1>14, <1>15, <1>16, <1>17, <1>18, <1>19, <1>20, <1>21,
     BrowserSteps DEF Serve, Receive

LEMMA StoresTypeStep ==
  ASSUME BrowserTyped, [SessionNext]_sessionVars
  PROVE  StoresTyped'
<1> USE DEF BrowserTyped, StoresTyped
<1>1. ASSUME NEW c \in Requests, NEW tab \in Tabs, NEW kind \in Kind,
             Send(c, tab, kind), persisted' \in {persisted, memory[tab]}
      PROVE  StoresTyped'
  BY <1>1 DEF Send, StoredPair, Reload, Pair, Age
<1>2. ASSUME NEW c \in Requests, SignOut(c)
      PROVE  StoresTyped'
  <2>1. call[c].tab \in Tabs
    BY <1>2, CallFields, CallsMade DEF SignOut, At, InFlight
  <2> QED
    BY <1>2, <2>1 DEF SignOut, Reload, Pair
<1>3. ASSUME NEW c \in Requests, Retry(c)
      PROVE  StoresTyped'
  <2>1. call[c].token \in Pair
    BY <1>3, CallFields, CallsMade DEF Retry, At, InFlight
  <2> QED
    BY <1>3, <2>1 DEF Retry
<1>4. ASSUME NEW c \in Requests, EnterApp(c)
      PROVE  StoresTyped'
  <2>1. call[c].token \in Pair /\ call[c].tab \in Tabs
    BY <1>4, CallFields, CallsMade DEF EnterApp, At, InFlight
  <2> QED
    BY <1>4, <2>1 DEF EnterApp
<1>5. ASSUME NEW c \in Requests, FormFails(c)
      PROVE  StoresTyped'
  <2>1. call[c].tab \in Tabs
    BY <1>5, CallFields, CallsMade DEF FormFails, InFlight
  <2> QED
    BY <1>5, <2>1 DEF FormFails
<1>6. ASSUME NEW c \in Requests, EndLogout(c)
      PROVE  StoresTyped'
  BY <1>6 DEF EndLogout, Reload, Pair, Age
<1>7. ASSUME TokensAge
      PROVE  StoresTyped'
  BY <1>7 DEF TokensAge, Reload, Pair, Age
<1>8. ASSUME NEW c \in Requests,
             ServeApi(c) \/ ServeLogout(c) \/ RefuseLogout(c) \/ ServeLogin(c)
               \/ ServeRegister(c) \/ ServeRecover(c)
      PROVE  StoresTyped'
  BY <1>8 DEF ServeApi, ServeLogout, RefuseLogout, ServeLogin, ServeRegister, ServeRecover,
     Reload, Pair, Age
<1>9. ASSUME NEW c \in Requests,
             ServeInsert(c) \/ ServeRefresh(c) \/ ServeTokens(c) \/ StartRefresh(c)
               \/ EndApi(c) \/ Lost(c)
      PROVE  StoresTyped'
  BY <1>9 DEF ServeInsert, ServeRefresh, ServeTokens, StartRefresh, EndApi, Lost, Reload,
     Pair, Age
<1>10. ASSUME Suspended
       PROVE  StoresTyped'
  BY <1>10 DEF Suspended, browserVars
<1>11. CASE UNCHANGED sessionVars
  BY <1>11 DEF sessionVars, browserVars, recordVars, ghosts
<1> QED
  BY <1>1, <1>2, <1>3, <1>4, <1>5, <1>6, <1>7, <1>8, <1>9, <1>10, <1>11,
     BrowserSteps DEF Serve, Receive

(* what a call has cost is told by where it is                                      *)
LEMMA CountStep ==
  ASSUME BrowserTyped, CountedByStep, TokensOfEntry, [SessionNext]_sessionVars
  PROVE  CountedByStep'
<1> USE DEF BrowserTyped, CallsTyped, CountedByStep, InFlight, At, NoCall, Call
<1>1. ASSUME NEW c \in Requests, NEW tab \in Tabs, NEW kind \in Kind,
             Send(c, tab, kind), persisted' \in {persisted, memory[tab]}
      PROVE  CountedByStep'
  <2>1. /\ call'[c].requests = 1 /\ call'[c].pc = "sent" /\ call'[c].retried = FALSE
        /\ \A d \in Requests : d # c => call'[d] = call[d]
    BY <1>1 DEF Send
  <2>2. ASSUME NEW d \in Requests, d # c, call'[d].pc # "idle"
        PROVE  /\ call'[d].requests \in 1..3 /\ call'[d].retried \in BOOLEAN
               /\ ~call'[d].retried => call'[d].requests = 1
               /\ call'[d].pc \in {"refreshing", "renewed"} => call'[d].requests = 2
    BY <2>1, <2>2
  <2>3. call'[c].requests \in 1..3 /\ call'[c].pc \notin {"refreshing", "renewed"}
    BY <2>1
  <2>4. call'[c].retried \in BOOLEAN
    BY <2>1, Zenon
  <2> QED
    BY <2>1, <2>2, <2>3, <2>4
<1>2. ASSUME NEW c \in Requests, ServeTokens(c)
      PROVE  CountedByStep'
  <2>1. Waiting(c, "issueTokens")
    BY <1>2, ServerWrites DEF ServeTokens
  <2>2. At(c, "sent") => task[c].entry = TRUE
    BY <2>1 DEF TokensOfEntry
  <2> QED
    BY <1>2, <2>2 DEF ServeTokens
<1>3. ASSUME NEW c \in Requests, EnterApp(c)
      PROVE  CountedByStep'
  BY <1>3 DEF EnterApp, Step, Close
<1>4. ASSUME TokensAge
      PROVE  CountedByStep'
  BY <1>4 DEF TokensAge, Step, Close
<1>5. ASSUME Suspended
      PROVE  CountedByStep'
  BY <1>5 DEF Suspended, browserVars
<1>6. ASSUME NEW c \in Requests,
             ServeApi(c) \/ ServeLogout(c) \/ RefuseLogout(c) \/ ServeLogin(c)
      PROVE  CountedByStep'
  BY <1>6 DEF ServeApi, ServeLogout, RefuseLogout, ServeLogin, Step, Close
<1>7. ASSUME NEW c \in Requests,
             ServeRegister(c) \/ ServeRecover(c) \/ ServeInsert(c)
               \/ ServeRefresh(c)
      PROVE  CountedByStep'
  BY <1>7 DEF ServeRegister, ServeRecover, ServeInsert, ServeRefresh, Step, Close
<1>8. ASSUME NEW c \in Requests, StartRefresh(c) \/ Retry(c) \/ Lost(c)
      PROVE  CountedByStep'
  BY <1>8 DEF StartRefresh, Retry, Lost, Step, Close
<1>9. ASSUME NEW c \in Requests, EndApi(c) \/ FormFails(c)
      PROVE  CountedByStep'
  BY <1>9 DEF EndApi, FormFails, Step, Close
<1>10. ASSUME NEW c \in Requests, SignOut(c) \/ EndLogout(c)
       PROVE  CountedByStep'
  BY <1>10 DEF SignOut, EndLogout, Reload
<1>11. CASE UNCHANGED sessionVars
  BY <1>11 DEF sessionVars, browserVars, recordVars, ghosts
<1> QED
  BY <1>1, <1>2, <1>3, <1>4, <1>5, <1>6, <1>7, <1>8, <1>9, <1>10, <1>11,
     BrowserSteps DEF Serve, Receive

(* What a step of the server does to the row, the tasks and the calls.              *)
LEMMA ServerSteps ==
  ASSUME RecordsTyped, NEW c \in Requests
  PROVE  /\ ServeLogin(c) =>
              /\ At(c, "sent") /\ Waiting(c, "idle") /\ user' = user
              /\ \/ Exists(Me) /\ task' = [task EXCEPT ![c] = IssueTo(Me, TRUE)] /\ call' = call
                 \/ task' = task /\ Step(c, "unauthorized")
         /\ ServeRegister(c) =>
              /\ At(c, "sent") /\ Waiting(c, "idle") /\ user' = user
              /\ \/ task' = [task EXCEPT ![c] = CreateRow(Me, "USER", TRUE)] /\ call' = call
                 \/ task' = task /\ Step(c, "failed")
         /\ ServeRefresh(c) =>
              /\ At(c, "refreshing") /\ Waiting(c, "idle") /\ user' = user
              /\ \/ /\ Exists(Me) /\ user[Me].refresh = TRUE
                    /\ task' = [task EXCEPT ![c] = IssueTo(Me, FALSE)] /\ call' = call
                 \/ /\ ~(user[Me].refresh /\ user[Me].status = "ACTIVE")
                    /\ task' = task /\ Step(c, "refused")
         /\ ServeInsert(c) =>
              /\ Waiting(c, "createRow")
              /\ \/ Exists(Me) /\ user' = user /\ task' = [task EXCEPT ![c] = Idle]
                 \/ /\ ~Exists(Me) /\ user' = [user EXCEPT ![Me] = NewRow(task[c].role)]
                    /\ \/ task' = [task EXCEPT ![c] = IssueTo(Me, TRUE)]
                       \/ task[c].enter # TRUE
              /\ call' = call \/ Step(c, "failed")
         /\ ServeLogout(c) =>
              /\ At(c, "sent") /\ Waiting(c, "idle") /\ task' = [task EXCEPT ![c] = Idle]
              /\ user' = [user EXCEPT ![Me].refresh = FALSE] /\ Step(c, "done")
         /\ ServeTokens(c) =>
              /\ Waiting(c, "issueTokens") /\ task' = [task EXCEPT ![c] = Idle]
              /\ user' = [user EXCEPT ![Me].refresh = TRUE]
<1>1. ASSUME ServeLogin(c)
      PROVE  /\ At(c, "sent") /\ Waiting(c, "idle") /\ user' = user
             /\ \/ Exists(Me) /\ task' = [task EXCEPT ![c] = IssueTo(Me, TRUE)] /\ call' = call
                \/ task' = task /\ Step(c, "unauthorized")
  BY <1>1, ServerWrites DEF ServeLogin, recordVars
<1>2. ASSUME ServeRegister(c)
      PROVE  /\ At(c, "sent") /\ Waiting(c, "idle") /\ user' = user
             /\ \/ task' = [task EXCEPT ![c] = CreateRow(Me, "USER", TRUE)] /\ call' = call
                \/ task' = task /\ Step(c, "failed")
  BY <1>2, ServerWrites DEF ServeRegister, recordVars
<1>3. ASSUME ServeRefresh(c)
      PROVE  /\ At(c, "refreshing") /\ Waiting(c, "idle") /\ user' = user
             /\ \/ /\ Exists(Me) /\ user[Me].refresh = TRUE
                   /\ task' = [task EXCEPT ![c] = IssueTo(Me, FALSE)] /\ call' = call
                \/ /\ ~(user[Me].refresh /\ user[Me].status = "ACTIVE")
                   /\ task' = task /\ Step(c, "refused")
  BY <1>3, ServerWrites DEF ServeRefresh, recordVars
<1>4. ASSUME ServeInsert(c)
      PROVE  /\ Waiting(c, "createRow")
             /\ \/ Exists(Me) /\ user' = user /\ task' = [task EXCEPT ![c] = Idle]
                \/ /\ ~Exists(Me) /\ user' = [user EXCEPT ![Me] = NewRow(task[c].role)]
                   /\ \/ task' = [task EXCEPT ![c] = IssueTo(Me, TRUE)]
                      \/ task[c].enter # TRUE
             /\ call' = call \/ Step(c, "failed")
  BY <1>4, ServerWrites DEF ServeInsert
<1>5. ServeLogout(c) =>
        /\ At(c, "sent") /\ Waiting(c, "idle") /\ task' = [task EXCEPT ![c] = Idle]
        /\ user' = [user EXCEPT ![Me].refresh = FALSE] /\ Step(c, "done")
  BY ServerWrites DEF ServeLogout
<1>6. ServeTokens(c) =>
        /\ Waiting(c, "issueTokens") /\ task' = [task EXCEPT ![c] = Idle]
        /\ user' = [user EXCEPT ![Me].refresh = TRUE]
  BY ServerWrites DEF ServeTokens
<1> QED
  BY <1>1, <1>2, <1>3, <1>4, <1>5, <1>6

LEMMA TokensStep ==
  ASSUME BrowserTyped, TokensOfEntry, [SessionNext]_sessionVars
  PROVE  TokensOfEntry'
<1> USE DEF BrowserTyped, RecordsTyped, CallsTyped, TokensOfEntry, InFlight, At, Waiting, NoCall, Call
<1>1. ASSUME NEW c \in Requests, NEW tab \in Tabs, NEW kind \in Kind,
             Send(c, tab, kind), persisted' \in {persisted, memory[tab]}
      PROVE  TokensOfEntry'
  BY <1>1 DEF Send, Free, recordVars
<1>2. ASSUME NEW c \in Requests, ServeLogout(c)
      PROVE  TokensOfEntry'
  <2>1. task' = [task EXCEPT ![c] = Idle] /\ Step(c, "done")
    BY <1>2, ServerSteps
  <2> QED
    BY <2>1 DEF Step, Idle
<1>3. ASSUME NEW c \in Requests, ServeLogin(c)
      PROVE  TokensOfEntry'
  <2>1. CASE task' = [task EXCEPT ![c] = IssueTo(Me, TRUE)] /\ call' = call
    <3>1. /\ task'[c].pc = "issueTokens" /\ task'[c].entry = TRUE /\ call[c].pc = "sent"
          /\ \A d \in Requests : d # c => task'[d] = task[d]
      BY <1>3, <2>1, ServerSteps DEF IssueTo
    <3> QED
      BY <2>1, <3>1
  <2>2. CASE task' = task /\ Step(c, "unauthorized")
    BY <2>2 DEF Step
  <2> QED
    BY <1>3, <2>1, <2>2, ServerSteps
<1>4. ASSUME NEW c \in Requests, ServeRegister(c)
      PROVE  TokensOfEntry'
  <2>1. CASE task' = [task EXCEPT ![c] = CreateRow(Me, "USER", TRUE)] /\ call' = call
    <3>1. /\ task'[c].pc = "createRow" /\ task'[c].enter = TRUE /\ call[c].pc = "sent"
          /\ \A d \in Requests : d # c => task'[d] = task[d]
      BY <1>4, <2>1, ServerSteps DEF CreateRow
    <3> QED
      BY <2>1, <3>1
  <2>2. CASE task' = task /\ Step(c, "failed")
    BY <2>2 DEF Step
  <2> QED
    BY <1>4, <2>1, <2>2, ServerSteps
<1>5. ASSUME NEW c \in Requests, ServeInsert(c)
      PROVE  TokensOfEntry'
  <2>1. /\ task[c].enter = TRUE
        /\ task' = [task EXCEPT ![c] = Idle] \/ task' = [task EXCEPT ![c] = IssueTo(Me, TRUE)]
        /\ call[c].pc # "renewed"
        /\ call' = call \/ Step(c, "failed")
    BY <1>5, ServerSteps
  <2>2. /\ task'[c].pc = "idle" \/ (task'[c].pc = "issueTokens" /\ task'[c].entry = TRUE)
        /\ \A d \in Requests : d # c => task'[d] = task[d]
    BY <2>1 DEF Idle, IssueTo
  <2>3. \A d \in Requests : /\ call'[d].pc = call[d].pc \/ (d = c /\ call'[d].pc = "failed")
    BY <2>1, CallFields DEF Step
  <2> QED
    BY <2>1, <2>2, <2>3
<1>6. ASSUME NEW c \in Requests, ServeRefresh(c)
      PROVE  TokensOfEntry'
  <2>1. CASE task' = [task EXCEPT ![c] = IssueTo(Me, FALSE)] /\ call' = call
    <3>1. /\ task'[c].pc = "issueTokens" /\ call[c].pc = "refreshing"
          /\ \A d \in Requests : d # c => task'[d] = task[d]
      BY <1>6, <2>1, ServerSteps DEF IssueTo
    <3> QED
      BY <2>1, <3>1
  <2>2. CASE task' = task /\ Step(c, "refused")
    BY <2>2 DEF Step
  <2> QED
    BY <1>6, <2>1, <2>2, ServerSteps
<1>7. ASSUME NEW c \in Requests, ServeTokens(c)
      PROVE  TokensOfEntry'
  <2>1. task' = [task EXCEPT ![c] = Idle]
    BY <1>7, ServerSteps
  <2>2. \A d \in Requests : d # c => call'[d] = call[d]
    BY <1>7 DEF ServeTokens
  <2> QED
    BY <2>1, <2>2 DEF Idle
<1>8. ASSUME TokensAge
      PROVE  TokensOfEntry'
  BY <1>8 DEF TokensAge, AccessExpires
<1>9. ASSUME Suspended
      PROVE  TokensOfEntry'
  BY <1>9 DEF Suspended, browserVars
<1>10. ASSUME NEW c \in Requests, ServeApi(c) \/ RefuseLogout(c) \/ ServeRecover(c)
       PROVE  TokensOfEntry'
  BY <1>10 DEF ServeApi, RefuseLogout, ServeRecover, Step, Close, recordVars
<1>11. ASSUME NEW c \in Requests, StartRefresh(c) \/ Retry(c) \/ Lost(c)
       PROVE  TokensOfEntry'
  BY <1>11 DEF StartRefresh, Retry, Lost, Step, Close, recordVars
<1>12. ASSUME NEW c \in Requests, EndApi(c) \/ EnterApp(c) \/ FormFails(c)
       PROVE  TokensOfEntry'
  BY <1>12 DEF EndApi, EnterApp, FormFails, Step, Close, recordVars
<1>13. ASSUME NEW c \in Requests, SignOut(c) \/ EndLogout(c)
       PROVE  TokensOfEntry'
  BY <1>13 DEF SignOut, EndLogout, Reload, recordVars
<1>14. CASE UNCHANGED sessionVars
  BY <1>14 DEF sessionVars, browserVars, recordVars, ghosts
<1> QED
  BY <1>1, <1>2, <1>3, <1>4, <1>5, <1>6, <1>7, <1>8, <1>9, <1>10, <1>11, <1>12, <1>13, <1>14,
     BrowserSteps DEF Serve, Receive

-----------------------------------------------------------------------------------
(* The invariant so far, and the first theorem.                                     *)
StormInv == BrowserTyped /\ CountedByStep /\ TokensOfEntry

LEMMA StormStep == StormInv /\ [SessionNext]_sessionVars => StormInv'
<1> SUFFICES ASSUME StormInv, [SessionNext]_sessionVars PROVE StormInv'
  OBVIOUS
<1>1. BrowserTyped'
  BY RecordsTypeStep, StoresTypeStep, CallsTypeStep DEF StormInv, BrowserTyped
<1>2. CountedByStep' /\ TokensOfEntry'
  BY CountStep, TokensStep DEF StormInv
<1> QED
  BY <1>1, <1>2 DEF StormInv

LEMMA StormStart == SessionInit => StormInv
<1> SUFFICES ASSUME SessionInit PROVE StormInv
  OBVIOUS
<1> USE DEF SessionInit
<1>1. BrowserTyped
  BY RowsMade, TasksMade, LinkBound DEF BrowserTyped, RecordsTyped, StoresTyped, CallsTyped, Pair, Role
<1>2. CountedByStep /\ TokensOfEntry
  BY DEF CountedByStep, TokensOfEntry, InFlight, At, Waiting, NoCall, Idle
<1> QED
  BY <1>1, <1>2 DEF StormInv

(* NoRefreshStorm: the interceptor of apiClient never lets a call cost more than    *)
(* three requests, whenever tokens expire and whatever the other tabs do.           *)
THEOREM NoStorm == SessionSpec => []NoRefreshStorm
<1>1. StormInv => NoRefreshStorm
  BY DEF StormInv, CountedByStep, NoRefreshStorm
<1> QED
  BY <1>1, StormStart, StormStep, PTL DEF SessionSpec

-----------------------------------------------------------------------------------
(* LogoutHolds.  After a logout that no refresh was racing with, the slot is empty, *)
(* and only a new sign-in is about to fill it.                                      *)
SlotEmpty ==
  out /\ ~raced => /\ ~user[Me].refresh
                   /\ \A r \in Requests : Waiting(r, "issueTokens") => task[r].entry

LEMMA LogoutStep ==
  ASSUME StormInv, SlotEmpty, [SessionNext]_sessionVars
  PROVE  SlotEmpty'
<1> USE OnlyMe DEF SlotEmpty, StormInv, BrowserTyped, RecordsTyped, Waiting
<1>1. ASSUME NEW c \in Requests, NEW tab \in Tabs, NEW kind \in Kind,
             Send(c, tab, kind), persisted' \in {persisted, memory[tab]}
      PROVE  SlotEmpty'
  BY <1>1 DEF Send, StoredPair, recordVars, ghosts
<1>2. ASSUME NEW c \in Requests, ServeLogout(c)
      PROVE  SlotEmpty'
  <2>1. user' = [user EXCEPT ![Me].refresh = FALSE] /\ task' = [task EXCEPT ![c] = Idle]
    BY <1>2, ServerSteps
  <2>2. ~user'[Me].refresh
    BY <2>1 DEF UserRow
  <2>3. ~raced' => \A r \in Requests : task[r].pc # "issueTokens"
    BY <1>2 DEF ServeLogout
  <2> QED
    BY <2>1, <2>2, <2>3 DEF Idle
<1>3. ASSUME NEW c \in Requests, ServeLogin(c)
      PROVE  SlotEmpty'
  <2>1. /\ \A d \in Requests : d # c => task'[d] = task[d]
        /\ task'[c].pc = "issueTokens" => task'[c].entry = TRUE
    <3>1. /\ Waiting(c, "idle")
          /\ \/ task' = task
             \/ task' = [task EXCEPT ![c] = IssueTo(Me, TRUE)]
             \/ task' = [task EXCEPT ![c] = CreateRow(Me, "USER", TRUE)]
      BY <1>3, ServerSteps
    <3> QED
      BY <3>1 DEF IssueTo, CreateRow
  <2>2. user' = user /\ out' = out /\ raced' = raced
    BY <1>3, ServerSteps DEF ServeLogin, ghosts
  <2> QED
    BY <2>1, <2>2
<1>4. ASSUME NEW c \in Requests, ServeRegister(c)
      PROVE  SlotEmpty'
  <2>1. /\ \A d \in Requests : d # c => task'[d] = task[d]
        /\ task'[c].pc = "issueTokens" => task'[c].entry = TRUE
    <3>1. /\ Waiting(c, "idle")
          /\ \/ task' = task
             \/ task' = [task EXCEPT ![c] = IssueTo(Me, TRUE)]
             \/ task' = [task EXCEPT ![c] = CreateRow(Me, "USER", TRUE)]
      BY <1>4, ServerSteps
    <3> QED
      BY <3>1 DEF IssueTo, CreateRow
  <2>2. user' = user /\ out' = out /\ raced' = raced
    BY <1>4, ServerSteps DEF ServeRegister, ghosts
  <2> QED
    BY <2>1, <2>2
<1>5. ASSUME NEW c \in Requests, ServeInsert(c)
      PROVE  SlotEmpty'
  <2>1. task[c].enter = TRUE /\ Waiting(c, "createRow")
    BY <1>5, ServerSteps DEF StormInv, TokensOfEntry
  <2>2. /\ \A d \in Requests : d # c => task'[d] = task[d]
        /\ task'[c].pc = "issueTokens" => task'[c].entry = TRUE
    <3>1. \/ task' = [task EXCEPT ![c] = Idle]
          \/ task' = [task EXCEPT ![c] = IssueTo(Me, TRUE)]
      BY <1>5, <2>1, ServerSteps
    <3> QED
      BY <3>1 DEF IssueTo, Idle
  <2>3. user' = user \/ user' = [user EXCEPT ![Me] = NewRow(task[c].role)]
    BY <1>5, ServerSteps
  <2>4. out' = out /\ raced' = raced
    BY <1>5 DEF ServeInsert, ghosts
  <2>5. ~user[Me].refresh => ~user'[Me].refresh
    BY <2>3 DEF NewRow, NoRow
  <2> QED
    BY <2>2, <2>4, <2>5
<1>6. ASSUME NEW c \in Requests, ServeRefresh(c)
      PROVE  SlotEmpty'
  <2>1. CASE task' = task
    BY <1>6, <2>1, ServerSteps DEF ServeRefresh, ghosts
  <2>2. CASE task' # task
    <3>1. user' = user /\ user[Me].refresh = TRUE /\ out' = out /\ raced' = raced
      BY <1>6, <2>2, ServerSteps DEF ServeRefresh, ghosts
    <3> QED
      BY <3>1
  <2> QED
    BY <2>1, <2>2
<1>7. ASSUME NEW c \in Requests, ServeTokens(c)
      PROVE  SlotEmpty'
  <2>1. Waiting(c, "issueTokens") /\ task' = [task EXCEPT ![c] = Idle]
    BY <1>7, ServerSteps
  <2>2. (out' <=> out /\ ~task[c].entry) /\ raced' = raced
    BY <1>7 DEF ServeTokens
  <2> QED
    BY <2>1, <2>2
<1>8. ASSUME TokensAge
      PROVE  SlotEmpty'
  BY <1>8 DEF TokensAge, AccessExpires, ghosts
<1>9. ASSUME Suspended
      PROVE  SlotEmpty'
  <2>1. user'[Me].refresh = user[Me].refresh
    BY <1>9 DEF Suspended, UserRow
  <2> QED
    BY <1>9, <2>1 DEF Suspended
<1>10. ASSUME NEW c \in Requests, ServeApi(c) \/ RefuseLogout(c) \/ ServeRecover(c)
       PROVE  SlotEmpty'
  BY <1>10 DEF ServeApi, RefuseLogout, ServeRecover, recordVars, ghosts
<1>11. ASSUME NEW c \in Requests, StartRefresh(c) \/ Retry(c) \/ Lost(c)
       PROVE  SlotEmpty'
  BY <1>11 DEF StartRefresh, Retry, Lost, recordVars, ghosts
<1>12. ASSUME NEW c \in Requests, EndApi(c) \/ EnterApp(c) \/ FormFails(c)
       PROVE  SlotEmpty'
  BY <1>12 DEF EndApi, EnterApp, FormFails, recordVars, ghosts
<1>13. ASSUME NEW c \in Requests, SignOut(c) \/ EndLogout(c)
       PROVE  SlotEmpty'
  BY <1>13 DEF SignOut, EndLogout, recordVars, ghosts
<1>14. CASE UNCHANGED sessionVars
  BY <1>14 DEF sessionVars, browserVars, recordVars, ghosts
<1> QED
  BY <1>1, <1>2, <1>3, <1>4, <1>5, <1>6, <1>7, <1>8, <1>9, <1>10, <1>11, <1>12, <1>13, <1>14,
     BrowserSteps DEF Serve, Receive

(* LogoutHolds: logout() of auth.service.ts is final on the server until the owner   *)
(* signs in again, unless a refresh was past its reading when it cleared the slot.  *)
THEOREM LogoutFinal == SessionSpec => []LogoutHolds
<1>1. SessionInit => SlotEmpty
  BY DEF SessionInit, SlotEmpty
<1>2. StormInv /\ SlotEmpty /\ [SessionNext]_sessionVars => SlotEmpty'
  BY LogoutStep
<1>3. SlotEmpty => LogoutHolds
  BY DEF SlotEmpty, LogoutHolds
<1> QED
  BY <1>1, <1>2, <1>3, StormStart, StormStep, PTL DEF SessionSpec

-----------------------------------------------------------------------------------
(* KeptSignedIn.  Tokens are only issued and kept for an account that has a row,    *)
(* an answer that signs in or renews carries a pair, and a settled session has both *)
(* its halves: the slot on the server and the pair in the browser.                  *)
RowKnown == /\ user[Me].refresh => Exists(Me)
            /\ \A r \in Requests : Waiting(r, "issueTokens") => Exists(Me)
PairsCome ==
  \A c \in Requests : /\ At(c, "renewed") => call[c].token # "none"
                      /\ At(c, "done") /\ call[c].kind \in Entry => call[c].token # "none"
SettledStands ==
  settled => /\ user[Me].refresh /\ user[Me].status = "ACTIVE"
             /\ stored # "none"
             /\ \A c \in Requests : At(c, "refused") => call[c].late

LEMMA RowKnownStep ==
  ASSUME StormInv, RowKnown, [SessionNext]_sessionVars
  PROVE  RowKnown'
<1> USE OnlyMe DEF RowKnown, StormInv, BrowserTyped, RecordsTyped, Waiting, Exists
<1>1. ASSUME NEW c \in Requests, NEW tab \in Tabs, NEW kind \in Kind,
             Send(c, tab, kind), persisted' \in {persisted, memory[tab]}
      PROVE  RowKnown'
  BY <1>1 DEF Send, StoredPair, recordVars
<1>2. ASSUME NEW c \in Requests, ServeLogout(c)
      PROVE  RowKnown'
  <2>1. user' = [user EXCEPT ![Me].refresh = FALSE] /\ task' = [task EXCEPT ![c] = Idle]
    BY <1>2, ServerSteps
  <2> QED
    BY <2>1 DEF UserRow, Idle
<1>3. ASSUME NEW c \in Requests, ServeLogin(c)
      PROVE  RowKnown'
  <2>1. /\ \A d \in Requests : d # c => task'[d] = task[d]
        /\ task'[c].pc = "issueTokens" => user[Me].role # "NONE"
    <3>1. /\ Waiting(c, "idle")
          /\ \/ task' = task
             \/ Exists(Me) /\ \E t : task' = [task EXCEPT ![c] = t]
             \/ task' = [task EXCEPT ![c] = CreateRow(Me, "USER", TRUE)]
      BY <1>3, ServerSteps
    <3> QED
      BY <3>1 DEF CreateRow
  <2>2. user' = user
    BY <1>3, ServerSteps
  <2> QED
    BY <2>1, <2>2
<1>4. ASSUME NEW c \in Requests, ServeRegister(c)
      PROVE  RowKnown'
  <2>1. /\ \A d \in Requests : d # c => task'[d] = task[d]
        /\ task'[c].pc = "issueTokens" => user[Me].role # "NONE"
    <3>1. /\ Waiting(c, "idle")
          /\ \/ task' = task
             \/ Exists(Me) /\ \E t : task' = [task EXCEPT ![c] = t]
             \/ task' = [task EXCEPT ![c] = CreateRow(Me, "USER", TRUE)]
      BY <1>4, ServerSteps
    <3> QED
      BY <3>1 DEF CreateRow
  <2>2. user' = user
    BY <1>4, ServerSteps
  <2> QED
    BY <2>1, <2>2
<1>5. ASSUME NEW c \in Requests, ServeInsert(c)
      PROVE  RowKnown'
  <2>1. task[c].enter = TRUE /\ Waiting(c, "createRow") /\ task[c].role \in Role
    BY <1>5, ServerSteps, TaskArgs DEF StormInv, TokensOfEntry
  <2>2. CASE Exists(Me)
    <3>1. user' = user
      BY <1>5, <2>2, ServerSteps
    <3> QED
      BY <2>2, <3>1
  <2>3. CASE ~Exists(Me)
    <3>1. user' = [user EXCEPT ![Me] = NewRow(task[c].role)]
      BY <1>5, <2>3, ServerSteps
    <3>2. user'[Me].role # "NONE"
      BY <2>1, <3>1 DEF NewRow, NoRow, Role
    <3> QED
      BY <3>2
  <2> QED
    BY <2>2, <2>3
<1>6. ASSUME NEW c \in Requests, ServeRefresh(c)
      PROVE  RowKnown'
  <2>1. /\ \A d \in Requests : d # c => task'[d] = task[d]
        /\ task'[c].pc = "issueTokens" => user[Me].role # "NONE"
    <3>1. /\ Waiting(c, "idle")
          /\ \/ task' = task
             \/ Exists(Me) /\ \E t : task' = [task EXCEPT ![c] = t]
             \/ task' = [task EXCEPT ![c] = CreateRow(Me, "USER", TRUE)]
      BY <1>6, ServerSteps
    <3> QED
      BY <3>1 DEF CreateRow
  <2>2. user' = user
    BY <1>6, ServerSteps
  <2> QED
    BY <2>1, <2>2
<1>7. ASSUME NEW c \in Requests, ServeTokens(c)
      PROVE  RowKnown'
  <2>1. /\ Waiting(c, "issueTokens") /\ task' = [task EXCEPT ![c] = Idle]
        /\ user' = [user EXCEPT ![Me].refresh = TRUE]
    BY <1>7, ServerSteps
  <2> QED
    BY <2>1 DEF UserRow, Idle
<1>8. ASSUME TokensAge
      PROVE  RowKnown'
  BY <1>8 DEF TokensAge, AccessExpires
<1>9. ASSUME Suspended
      PROVE  RowKnown'
  <2>1. user'[Me].refresh = user[Me].refresh /\ user'[Me].role = user[Me].role
    BY <1>9 DEF Suspended, UserRow
  <2> QED
    BY <1>9, <2>1 DEF Suspended
<1>10. ASSUME NEW c \in Requests, ServeApi(c) \/ RefuseLogout(c) \/ ServeRecover(c)
       PROVE  RowKnown'
  BY <1>10 DEF ServeApi, RefuseLogout, ServeRecover, recordVars
<1>11. ASSUME NEW c \in Requests, StartRefresh(c) \/ Retry(c) \/ Lost(c)
       PROVE  RowKnown'
  BY <1>11 DEF StartRefresh, Retry, Lost, recordVars
<1>12. ASSUME NEW c \in Requests, EndApi(c) \/ EnterApp(c) \/ FormFails(c)
       PROVE  RowKnown'
  BY <1>12 DEF EndApi, EnterApp, FormFails, recordVars
<1>13. ASSUME NEW c \in Requests, SignOut(c) \/ EndLogout(c)
       PROVE  RowKnown'
  BY <1>13 DEF SignOut, EndLogout, recordVars
<1>14. CASE UNCHANGED sessionVars
  BY <1>14 DEF sessionVars, browserVars, recordVars, ghosts
<1> QED
  BY <1>1, <1>2, <1>3, <1>4, <1>5, <1>6, <1>7, <1>8, <1>9, <1>10, <1>11, <1>12, <1>13, <1>14,
     BrowserSteps DEF Serve, Receive

LEMMA PairsStep ==
  ASSUME StormInv, PairsCome, [SessionNext]_sessionVars
  PROVE  PairsCome'
<1> USE DEF StormInv, BrowserTyped, CallsTyped, PairsCome, At, Call, NoCall, Entry
<1>1. ASSUME NEW c \in Requests, NEW tab \in Tabs, NEW kind \in Kind,
             Send(c, tab, kind), persisted' \in {persisted, memory[tab]}
      PROVE  PairsCome'
  BY <1>1 DEF Send
<1>2. ASSUME NEW c \in Requests, ServeLogin(c)
      PROVE  PairsCome'
  <2>1. call' = call \/ Step(c, "unauthorized")
    BY <1>2, ServerSteps
  <2> QED
    BY <2>1 DEF Step
<1>3. ASSUME NEW c \in Requests, ServeRegister(c)
      PROVE  PairsCome'
  <2>1. call' = call \/ Step(c, "failed")
    BY <1>3, ServerSteps
  <2> QED
    BY <2>1 DEF Step
<1>4. ASSUME NEW c \in Requests, ServeInsert(c)
      PROVE  PairsCome'
  <2>1. call' = call \/ Step(c, "failed")
    BY <1>4, ServerSteps
  <2> QED
    BY <2>1 DEF Step
<1>5. ASSUME NEW c \in Requests, ServeRefresh(c)
      PROVE  PairsCome'
  <2>1. call' = call \/ Step(c, "refused")
    BY <1>5, ServerSteps
  <2> QED
    BY <2>1 DEF Step
<1>6. ASSUME NEW c \in Requests, ServeTokens(c)
      PROVE  PairsCome'
  BY <1>6 DEF ServeTokens, Step, Close
<1>7. ASSUME TokensAge
      PROVE  PairsCome'
  BY <1>7 DEF TokensAge, Age, InFlight
<1>8. ASSUME Suspended
      PROVE  PairsCome'
  BY <1>8 DEF Suspended, browserVars
<1>9. ASSUME NEW c \in Requests,
             ServeApi(c) \/ ServeLogout(c) \/ RefuseLogout(c) \/ ServeRecover(c)
      PROVE  PairsCome'
  BY <1>9 DEF ServeApi, ServeLogout, RefuseLogout, ServeRecover, Step, Close
<1>10. ASSUME NEW c \in Requests, StartRefresh(c) \/ Retry(c) \/ Lost(c)
       PROVE  PairsCome'
  BY <1>10 DEF StartRefresh, Retry, Lost, Step, Close
<1>11. ASSUME NEW c \in Requests, EndApi(c) \/ EnterApp(c) \/ FormFails(c)
       PROVE  PairsCome'
  BY <1>11 DEF EndApi, EnterApp, FormFails, Step, Close
<1>12. ASSUME NEW c \in Requests, SignOut(c) \/ EndLogout(c)
       PROVE  PairsCome'
  BY <1>12 DEF SignOut, EndLogout, Reload
<1>13. CASE UNCHANGED sessionVars
  BY <1>13 DEF sessionVars, browserVars, recordVars, ghosts
<1> QED
  BY <1>1, <1>2, <1>3, <1>4, <1>5, <1>6, <1>7, <1>8, <1>9, <1>10, <1>11, <1>12, <1>13,
     BrowserSteps DEF Serve, Receive

LEMMA SettledStep ==
  ASSUME StormInv, RowKnown, PairsCome, SettledStands, [SessionNext]_sessionVars
  PROVE  SettledStands'
<1> USE OnlyMe DEF StormInv, BrowserTyped, RecordsTyped, CallsTyped, SettledStands, At, Call, NoCall
<1>1. ASSUME NEW c \in Requests, NEW tab \in Tabs, NEW kind \in Kind,
             Send(c, tab, kind), persisted' \in {persisted, memory[tab]}
      PROVE  SettledStands'
  BY <1>1 DEF Send, recordVars, ghosts
<1>2. ASSUME NEW c \in Requests, ServeLogin(c)
      PROVE  SettledStands'
  <2>1. call' = call \/ Step(c, "unauthorized")
    BY <1>2, ServerSteps
  <2>2. user' = user /\ stored' = stored /\ settled' = settled
    BY <1>2, ServerSteps DEF ServeLogin, ghosts
  <2> QED
    BY <2>1, <2>2 DEF Step
<1>3. ASSUME NEW c \in Requests, ServeRegister(c)
      PROVE  SettledStands'
  <2>1. call' = call \/ Step(c, "failed")
    BY <1>3, ServerSteps
  <2>2. user' = user /\ stored' = stored /\ settled' = settled
    BY <1>3, ServerSteps DEF ServeRegister, ghosts
  <2> QED
    BY <2>1, <2>2 DEF Step
<1>4. ASSUME NEW c \in Requests, ServeInsert(c)
      PROVE  SettledStands'
  <2>1. call' = call \/ Step(c, "failed")
    BY <1>4, ServerSteps
  <2>2. user[Me].refresh => user' = user
    BY <1>4, ServerSteps DEF RowKnown
  <2>3. stored' = stored /\ settled' = settled
    BY <1>4 DEF ServeInsert, ghosts
  <2> QED
    BY <2>1, <2>2, <2>3 DEF Step
<1>5. ASSUME NEW c \in Requests, ServeRefresh(c)
      PROVE  SettledStands'
  <2>1. settled => call' = call
    BY <1>5, ServerSteps
  <2>2. user' = user /\ stored' = stored /\ settled' = settled
    BY <1>5, ServerSteps DEF ServeRefresh, ghosts
  <2> QED
    BY <2>1, <2>2
<1>6. ASSUME NEW c \in Requests, ServeTokens(c)
      PROVE  SettledStands'
  <2>1. user'[Me].refresh /\ user'[Me].status = user[Me].status
    <3>1. user' = [user EXCEPT ![Me].refresh = TRUE]
      BY <1>6, ServerSteps
    <3> QED
      BY <3>1 DEF UserRow
  <2> QED
    BY <1>6, <2>1 DEF ServeTokens
<1>7. ASSUME NEW c \in Requests, Retry(c)
      PROVE  SettledStands'
  <2>1. call[c].token # "none"
    BY <1>7 DEF Retry, PairsCome
  <2> QED
    BY <1>7, <2>1 DEF Retry, recordVars, ghosts
<1>8. ASSUME NEW c \in Requests, EnterApp(c)
      PROVE  SettledStands'
  <2>1. call[c].token # "none"
    BY <1>8 DEF EnterApp, PairsCome
  <2>2. \A d \in Requests : call'[d].pc = "refused" => call'[d].late
    BY <1>8 DEF EnterApp, InFlight
  <2> QED
    BY <1>8, <2>1, <2>2 DEF EnterApp, recordVars
<1>9. ASSUME TokensAge
      PROVE  SettledStands'
  <2>1. stored # "none" => stored' # "none"
    BY <1>9 DEF TokensAge, Age
  <2>2. \A d \in Requests : call'[d].pc = call[d].pc /\ (InFlight(d) => call'[d].late = call[d].late)
    BY <1>9, CallFields DEF TokensAge, InFlight
  <2>3. user' = user /\ settled' = settled
    BY <1>9 DEF TokensAge, AccessExpires, ghosts
  <2> QED
    BY <2>1, <2>2, <2>3 DEF InFlight
<1>10. ASSUME Suspended
       PROVE  SettledStands'
  BY <1>10 DEF Suspended
<1>11. ASSUME NEW c \in Requests, ServeApi(c) \/ RefuseLogout(c) \/ ServeRecover(c)
       PROVE  SettledStands'
  <2>1. user' = user /\ stored' = stored /\ settled' = settled
    BY <1>11 DEF ServeApi, RefuseLogout, ServeRecover, recordVars, ghosts
  <2>2. \A d \in Requests : call'[d].pc = "refused" => call[d].pc = "refused" /\ call'[d].late = call[d].late
    BY <1>11 DEF ServeApi, RefuseLogout, ServeRecover, Step, Close
  <2> QED
    BY <2>1, <2>2
<1>12. ASSUME NEW c \in Requests, StartRefresh(c) \/ EndApi(c) \/ FormFails(c)
       PROVE  SettledStands'
  <2>1. user' = user /\ stored' = stored /\ settled' = settled
    BY <1>12 DEF StartRefresh, EndApi, FormFails, recordVars, ghosts
  <2>2. \A d \in Requests : call'[d].pc = "refused" => call[d].pc = "refused" /\ call'[d].late = call[d].late
    BY <1>12 DEF StartRefresh, EndApi, FormFails, Step, Close
  <2> QED
    BY <2>1, <2>2
<1>13. ASSUME NEW c \in Requests, Lost(c)
       PROVE  SettledStands'
  <2>1. user' = user /\ stored' = stored /\ (settled' => settled /\ At(c, "sent"))
    BY <1>13 DEF Lost, recordVars, ghosts
  <2>2. settled' => \A d \in Requests : call'[d].pc = "refused" => call[d].pc = "refused" /\ call'[d].late = call[d].late
    BY <1>13, <2>1 DEF Lost, Step, Close
  <2> QED
    BY <2>1, <2>2
<1>14. ASSUME NEW c \in Requests, ServeLogout(c) \/ SignOut(c) \/ EndLogout(c)
       PROVE  SettledStands'
  BY <1>14 DEF ServeLogout, SignOut, EndLogout
<1>15. CASE UNCHANGED sessionVars
  BY <1>15 DEF sessionVars, browserVars, recordVars, ghosts
<1> QED
  BY <1>1, <1>2, <1>3, <1>4, <1>5, <1>6, <1>7, <1>8, <1>9, <1>10, <1>11, <1>12, <1>13, <1>14, <1>15,
     BrowserSteps DEF Serve, Receive

(* KeptSignedIn: while nobody logs out, no answer is lost and the account stays      *)
(* active, the interceptor of apiClient sends no tab to the sign-in page, except for *)
(* a call older than the sign-in.                                                   *)
THEOREM SignedInKept == SessionSpec => KeptSignedIn
<1>1. SessionInit => RowKnown /\ PairsCome /\ SettledStands
  BY OnlyMe DEF SessionInit, RowKnown, PairsCome, SettledStands, NoRow, NewRow, Waiting, Idle,
               At, NoCall, Exists
<1>2. StormInv /\ RowKnown /\ PairsCome /\ SettledStands /\ [SessionNext]_sessionVars
        => RowKnown' /\ PairsCome' /\ SettledStands'
  BY RowKnownStep, PairsStep, SettledStep
<1>3. SettledStands => \A c \in Requests : SignOut(c) /\ settled => call[c].late
  BY DEF SettledStands, SignOut, StoredPair
<1>4. SettledStands /\ [SessionNext]_sessionVars
        => [\A c \in Requests : SignOut(c) /\ settled => call[c].late]_sessionVars
  BY <1>3
<1> QED
  BY <1>1, <1>2, <1>4, StormStart, StormStep, PTL DEF SessionSpec, KeptSignedIn

===================================================================================
