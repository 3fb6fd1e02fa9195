------------------------------- MODULE AccountsProofs ------------------------------
(* Machine-checked proofs about Accounts, for every set of addresses and requests   *)
(* and any number of reset links.                                                   *)
EXTENDS Accounts, SequenceTheorems, TLAPS

(* What a request in flight has put down is of the kind its next step needs.        *)
LEMMA TaskArgs ==
  ASSUME task \in [Requests -> Task], NEW r \in Requests
  PROVE  /\ task[r].pc \in {"statusWrite", "roleWrite"} => task[r].by \in Users
         /\ task[r].pc # "idle" => task[r].on \in Users
         /\ task[r].pc = "statusWrite" => task[r].status \in AccountStatus
         /\ task[r].pc \in {"roleWrite", "createRow"} => task[r].role \in Role
         /\ task[r].pc = "createRow" => task[r].enter \in BOOLEAN
         /\ task[r].pc = "issueTokens" => task[r].entry \in BOOLEAN
         /\ task[r].pc = "resetWrite" => task[r].link \in 1..MaxLinks
  BY DEF Task

LEMMA TasksMade ==
  /\ Idle \in Task
  /\ \A a, u \in Users :
       /\ \A status \in AccountStatus : StatusWrite(a, u, status) \in Task
       /\ \A role \in Role : RoleWrite(a, u, role) \in Task
  /\ \A u \in Users :
       /\ \A role \in Role, enter \in BOOLEAN : CreateRow(u, role, enter) \in Task
       /\ \A entry \in BOOLEAN : IssueTo(u, entry) \in Task
       /\ \A l \in 1..MaxLinks : [pc |-> "resetWrite", on |-> u, link |-> l] \in Task
  BY DEF Task, Idle, StatusWrite, RoleWrite, CreateRow, IssueTo

LEMMA RowsMade ==
  /\ NoRow \in UserRow
  /\ \A role \in Role : NewRow(role) \in UserRow
  /\ \A row \in UserRow :
       /\ \A status \in AccountStatus : [row EXCEPT !.status = status] \in UserRow
       /\ \A role \in Role : [row EXCEPT !.role = role] \in UserRow
       /\ \A b \in BOOLEAN : [row EXCEPT !.refresh = b] \in UserRow
       /\ \A l \in 0..MaxLinks : [row EXCEPT !.link = l] \in UserRow
       /\ [row EXCEPT !.link = 0] \in UserRow
<1>1. NoRow \in UserRow
  BY LinkBound DEF UserRow, NoRow, Role, AccountStatus
<1>2. ASSUME NEW row \in UserRow
      PROVE  /\ \A status \in AccountStatus : [row EXCEPT !.status = status] \in UserRow
             /\ \A role \in Role : [row EXCEPT !.role = role] \in UserRow
             /\ \A b \in BOOLEAN : [row EXCEPT !.refresh = b] \in UserRow
             /\ \A l \in 0..MaxLinks : [row EXCEPT !.link = l] \in UserRow
  BY DEF UserRow
<1> QED
  BY <1>1, <1>2, LinkBound DEF NewRow

(* The steps by which a handler only reads: nothing but the task changes.           *)
Reads(r, a, u) ==
  \/ SuspendUser(r, a, u) \/ UnsuspendUser(r, a, u) \/ Deactivate(r, a, u)
  \/ CreateRider(r, a, u) \/ CreateAdmin(r, a, u)
  \/ \E role \in Role : ChangeUserRole(r, a, u, role) \/ UpdateRole(r, a, u, role)
  \/ Register(r, u) \/ Login(r, u) \/ RefreshRead(r, u) \/ ResetRead(r, u)

LEMMA ReadsOnly ==
  ASSUME NEW r \in Requests, NEW a \in Users, NEW u \in Users,
         AccountsTypeOK, Reads(r, a, u)
  PROVE  /\ UNCHANGED <<user, live, uses, overtaken>>
         /\ \E next \in Task :
              /\ task' = [task EXCEPT ![r] = next]
              /\ next.pc = "roleWrite" => next.by # next.on
              /\ next.pc = "resetWrite" => next.link = user[u].link
<1> USE TasksMade DEF Continue
<1>1. CASE SuspendUser(r, a, u) \/ UnsuspendUser(r, a, u) \/ Deactivate(r, a, u)
  <2>1. PICK status \in AccountStatus : task' = [task EXCEPT ![r] = StatusWrite(a, u, status)]
    BY <1>1 DEF SuspendUser, UnsuspendUser, Deactivate, AccountStatus
  <2> QED
    BY <1>1, <2>1 DEF SuspendUser, UnsuspendUser, Deactivate, StatusWrite
<1>2. CASE CreateRider(r, a, u) \/ CreateAdmin(r, a, u) \/ Register(r, u)
  <2>1. PICK role \in Role, enter \in BOOLEAN : task' = [task EXCEPT ![r] = CreateRow(u, role, enter)]
    BY <1>2 DEF CreateRider, CreateAdmin, Register, Role
  <2> QED
    BY <1>2, <2>1 DEF CreateRider, CreateAdmin, Register, CreateRow
<1>3. CASE \E role \in Role : ChangeUserRole(r, a, u, role) \/ UpdateRole(r, a, u, role)
  <2>1. PICK role \in Role : a # u /\ task' = [task EXCEPT ![r] = RoleWrite(a, u, role)]
    BY <1>3 DEF ChangeUserRole, UpdateRole
  <2> QED
    BY <1>3, <2>1 DEF ChangeUserRole, UpdateRole, RoleWrite
<1>4. CASE Login(r, u) \/ RefreshRead(r, u)
  BY <1>4 DEF Login, RefreshRead, IssueTo
<1>5. CASE ResetRead(r, u)
  <2>1. user[u].link \in 1..MaxLinks
    BY <1>5, LinkBound DEF ResetRead, AccountsTypeOK, UserRow
  <2> QED
    BY <1>5, <2>1 DEF ResetRead
<1> QED
  BY <1>1, <1>2, <1>3, <1>4, <1>5 DEF Reads

(* Every step is one of these.                                                      *)
LEMMA AccountSteps ==
  ASSUME AccountsNext
  PROVE  \/ \E r \in Requests, a, u \in Users : Reads(r, a, u)
         \/ \E r \in Requests, u \in Users : Logout(r, u) \/ ForgotPassword(r, u)
         \/ \E r \in Requests : SetStatus(r) \/ SetRole(r) \/ InsertRow(r)
                                \/ IssueTokens(r) \/ ResetWrite(r)
         \/ \E u \in Users : LinkExpires(u) \/ AccessExpires(u)
  BY DEF AccountsNext, Reads

(* What a step leaves of a row: only the two writes of an admin and the one of a new   *)
(* account touch role and status.                                                    *)
LEMMA OtherWrites ==
  ASSUME AccountsTypeOK
  PROVE  /\ \A u \in Users : LinkExpires(u) \/ AccessExpires(u)
              => \A v \in Users : user'[v].role = user[v].role /\ user'[v].status = user[v].status
         /\ \A r \in Requests, u \in Users : Logout(r, u) \/ ForgotPassword(r, u)
              => \A v \in Users : user'[v].role = user[v].role /\ user'[v].status = user[v].status
         /\ \A r \in Requests : IssueTokens(r) \/ ResetWrite(r)
              => \A v \in Users : user'[v].role = user[v].role /\ user'[v].status = user[v].status
<1> DEFINE Kept == \A v \in Users : user'[v].role = user[v].role /\ user'[v].status = user[v].status
<1>0. user \in [Users -> UserRow] /\ task \in [Requests -> Task]
  BY DEF AccountsTypeOK
<1>1. ASSUME NEW u \in Users, NEW row,
             user' = [user EXCEPT ![u] = row], row.role = user[u].role, row.status = user[u].status
      PROVE  Kept
  BY <1>0, <1>1
<1>2. ASSUME NEW u \in Users, LinkExpires(u) PROVE Kept
  <2>1. user' = [user EXCEPT ![u] = [user[u] EXCEPT !.link = 0]]
    BY <1>2 DEF LinkExpires
  <2>2. LET row == [user[u] EXCEPT !.link = 0] IN row.role = user[u].role /\ row.status = user[u].status
    BY <1>0 DEF UserRow
  <2> QED
    BY <1>1, <2>1, <2>2
<1>3. ASSUME NEW u \in Users, AccessExpires(u) PROVE Kept
  BY <1>3 DEF AccessExpires
<1>4. ASSUME NEW r \in Requests, NEW u \in Users, Logout(r, u) \/ ForgotPassword(r, u)
      PROVE  Kept
  <2>1. \E row : /\ user' = [user EXCEPT ![u] = row]
                 /\ row.role = user[u].role /\ row.status = user[u].status
    BY <1>0, <1>4 DEF Logout, ForgotPassword, WriteUser, UserRow
  <2> QED
    BY <1>1, <2>1
<1>5. ASSUME NEW r \in Requests, IssueTokens(r) \/ ResetWrite(r)
      PROVE  Kept
  <2>1. task[r].on \in Users
    BY <1>0, <1>5, TaskArgs DEF IssueTokens, ResetWrite, Waiting
  <2>2. \E row : /\ user' = [user EXCEPT ![task[r].on] = row]
                 /\ row.role = user[task[r].on].role /\ row.status = user[task[r].on].status
    BY <1>0, <1>5, <2>1 DEF IssueTokens, ResetWrite, WriteUser, UserRow
  <2> QED
    BY <1>1, <2>1, <2>2
<1> QED
  BY <1>2, <1>3, <1>4, <1>5

-----------------------------------------------------------------------------------
(* Types, and which links there are: a row and a task know only links that were      *)
(* mailed.                                                                          *)
LinksMailed ==
  /\ \A u \in Users : user[u].link <= Len(uses)
  /\ \A r \in Requests : Waiting(r, "resetWrite") => task[r].link <= Len(uses)

LEMMA AccountsTypeStep ==
  ASSUME AccountsTypeOK, LinksMailed, [AccountsNext]_recordVars
  PROVE  AccountsTypeOK'
<1> USE RowsMade, TasksMade DEF AccountsTypeOK
<1>1. ASSUME NEW r \in Requests, NEW a \in Users, NEW u \in Users, Reads(r, a, u)
      PROVE  AccountsTypeOK'
  BY <1>1, ReadsOnly
<1>2. ASSUME NEW r \in Requests, NEW u \in Users, Logout(r, u)
      PROVE  AccountsTypeOK'
  BY <1>2 DEF Logout, WriteUser, Continue
<1>3. ASSUME NEW r \in Requests, NEW u \in Users, ForgotPassword(r, u)
      PROVE  AccountsTypeOK'
  <2>1. uses' \in Seq(Nat) /\ Len(uses') = Len(uses) + 1 /\ Len(uses') \in 0..MaxLinks
    BY <1>3, LinkBound DEF ForgotPassword
  <2>2. [user[u] EXCEPT !.link = Len(uses')] \in UserRow
    BY <2>1
  <2>3. user' \in [Users -> UserRow] /\ task' \in [Requests -> Task]
    BY <1>3, <2>2 DEF ForgotPassword, WriteUser, Continue
  <2> QED
    BY <1>3, <2>1, <2>3, LinkBound DEF ForgotPassword
<1>4. ASSUME NEW r \in Requests, SetStatus(r)
      PROVE  AccountsTypeOK'
  BY <1>4, TaskArgs DEF SetStatus, WriteUser, Continue, Waiting
<1>5. ASSUME NEW r \in Requests, SetRole(r)
      PROVE  AccountsTypeOK'
  BY <1>5, TaskArgs DEF SetRole, WriteUser, Continue, Waiting
<1>6. ASSUME NEW r \in Requests, InsertRow(r)
      PROVE  AccountsTypeOK'
  <2>1. task[r].on \in Users /\ task[r].role \in Role
    BY <1>6, TaskArgs DEF InsertRow, Waiting
  <2>2. [pc |-> "issueTokens", on |-> task[r].on, entry |-> TRUE] \in Task
    BY <2>1 DEF Task
  <2> QED
    BY <1>6, <2>1, <2>2 DEF InsertRow, WriteUser, Continue
<1>7. ASSUME NEW r \in Requests, IssueTokens(r)
      PROVE  AccountsTypeOK'
  BY <1>7, TaskArgs DEF IssueTokens, WriteUser, Continue, Waiting
<1>8. ASSUME NEW r \in Requests, ResetWrite(r)
      PROVE  AccountsTypeOK'
  <2>1. task[r].on \in Users /\ task[r].link \in 1..MaxLinks
    BY <1>8, TaskArgs DEF ResetWrite, Waiting
  <2>2. uses' \in Seq(Nat) /\ Len(uses') = Len(uses)
    <3>1. task[r].link \in 1..Len(uses) /\ uses[task[r].link] + 1 \in Nat
      BY <1>8, <2>1 DEF ResetWrite, LinksMailed
    <3> QED
      BY <1>8, <3>1, ExceptSeq DEF ResetWrite
  <2>3. user' \in [Users -> UserRow] /\ task' \in [Requests -> Task]
    BY <1>8, <2>1 DEF ResetWrite, WriteUser, Continue
  <2> QED
    BY <1>8, <2>2, <2>3 DEF ResetWrite
<1>9. ASSUME NEW u \in Users, LinkExpires(u)
      PROVE  AccountsTypeOK'
  <2>1. user' \in [Users -> UserRow]
    BY <1>9 DEF LinkExpires
  <2> QED
    BY <1>9, <2>1 DEF LinkExpires
<1>10. ASSUME NEW u \in Users, AccessExpires(u)
       PROVE  AccountsTypeOK'
  BY <1>10 DEF AccessExpires
<1>11. CASE UNCHANGED recordVars
  BY <1>11 DEF recordVars
<1> QED
  BY <1>1, <1>2, <1>3, <1>4, <1>5, <1>6, <1>7, <1>8, <1>9, <1>10, <1>11, AccountSteps

LEMMA LinksMailedStep ==
  ASSUME AccountsTypeOK, AccountsTypeOK', LinksMailed, [AccountsNext]_recordVars
  PROVE  LinksMailed'
<1> USE DEF AccountsTypeOK, LinksMailed, Waiting
<1>1. ASSUME NEW r \in Requests, NEW a \in Users, NEW u \in Users, Reads(r, a, u)
      PROVE  LinksMailed'
  BY <1>1, ReadsOnly
<1>2. ASSUME NEW r \in Requests, NEW u \in Users, Logout(r, u)
      PROVE  LinksMailed'
  BY <1>2 DEF Logout, WriteUser, Continue, Idle, UserRow
<1>3. ASSUME NEW r \in Requests, NEW u \in Users, ForgotPassword(r, u)
      PROVE  LinksMailed'
  <2>1. Len(uses') = Len(uses) + 1
    BY <1>3 DEF ForgotPassword
  <2>2. \A v \in Users : user[v].link \in Nat
    BY LinkBound DEF UserRow
  <2>3. \A v \in Users : user'[v].link = IF v = u THEN Len(uses') ELSE user[v].link
    BY <1>3 DEF ForgotPassword, WriteUser, UserRow
  <2>4. \A q \in Requests : task'[q] = IF q = r THEN Idle ELSE task[q]
    BY <1>3 DEF ForgotPassword, WriteUser, Continue
  <2>5. \A q \in Requests : Waiting(q, "resetWrite") => task[q].link \in Nat
    BY TaskArgs, LinkBound
  <2> QED
    BY <2>1, <2>2, <2>3, <2>4, <2>5 DEF Idle
<1>4. ASSUME NEW r \in Requests, SetStatus(r)
      PROVE  LinksMailed'
  BY <1>4, TaskArgs DEF SetStatus, WriteUser, Continue, Idle, UserRow
<1>5. ASSUME NEW r \in Requests, SetRole(r)
      PROVE  LinksMailed'
  BY <1>5, TaskArgs DEF SetRole, WriteUser, Continue, Idle, UserRow
<1>6. ASSUME NEW r \in Requests, InsertRow(r)
      PROVE  LinksMailed'
  <2>1. \A v \in Users : user'[v].link = user[v].link \/ user'[v].link = 0
    BY <1>6, TaskArgs DEF InsertRow, WriteUser, NewRow, NoRow
  <2>2. \A q \in Requests : q # r => task'[q] = task[q]
    BY <1>6 DEF InsertRow, WriteUser, Continue
  <2>3. task'[r].pc # "resetWrite"
    BY <1>6 DEF InsertRow, WriteUser, Continue, Idle
  <2>4. uses' = uses /\ Len(uses) \in Nat
    BY <1>6 DEF InsertRow
  <2> QED
    BY <2>1, <2>2, <2>3, <2>4
<1>7. ASSUME NEW r \in Requests, IssueTokens(r)
      PROVE  LinksMailed'
  BY <1>7, TaskArgs DEF IssueTokens, WriteUser, Continue, Idle, UserRow
<1>8. ASSUME NEW r \in Requests, ResetWrite(r)
      PROVE  LinksMailed'
  <2>1. Len(uses') = Len(uses) /\ task[r].on \in Users
    BY <1>8, TaskArgs DEF ResetWrite
  <2> QED
    BY <1>8, <2>1 DEF ResetWrite, WriteUser, Continue, Idle, UserRow
<1>9. ASSUME NEW u \in Users, LinkExpires(u) \/ AccessExpires(u)
      PROVE  LinksMailed'
  <2>1. \A v \in Users : user'[v].link = user[v].link \/ user'[v].link = 0
    BY <1>9 DEF LinkExpires, AccessExpires, UserRow
  <2>2. task' = task /\ uses' = uses /\ Len(uses) \in Nat
    BY <1>9 DEF LinkExpires, AccessExpires
  <2> QED
    BY <2>1, <2>2
<1>10. CASE UNCHANGED recordVars
  BY <1>10 DEF recordVars
<1> QED
  BY <1>1, <1>2, <1>3, <1>4, <1>5, <1>6, <1>7, <1>8, <1>9, <1>10, AccountSteps

LEMMA AccountsStart == AccountsInit => AccountsTypeOK /\ LinksMailed
<1> SUFFICES ASSUME AccountsInit PROVE AccountsTypeOK /\ LinksMailed
  OBVIOUS
<1> USE LinkBound DEF AccountsInit, UserRecordsInit
<1>1. AccountsTypeOK
  BY RowsMade, TasksMade DEF AccountsTypeOK, Role
<1>2. LinksMailed
  BY DEF LinksMailed, NoRow, NewRow, Idle, Waiting
<1> QED
  BY <1>1, <1>2

(* AccountsTypeOK: the rows, links and tasks of auth.service.ts, users.service.ts   *)
(* and admin.service.ts have their types in every reachable state.                  *)
THEOREM AccountsTypeCorrect == AccountsSpec => []AccountsTypeOK
<1>1. AccountsTypeOK /\ LinksMailed /\ [AccountsNext]_recordVars => (AccountsTypeOK /\ LinksMailed)'
  BY AccountsTypeStep, LinksMailedStep
<1> QED
  BY <1>1, AccountsStart, PTL DEF AccountsSpec

-----------------------------------------------------------------------------------
(* AdminRemains.  A caller still has the role when the role of another account is   *)
(* written, or the write is one of an overtaken caller; nobody is written to by     *)
(* the own request.                                                                 *)
OthersRolesOnly == \A r \in Requests : Waiting(r, "roleWrite") => task[r].by # task[r].on

LEMMA AdminStep ==
  ASSUME AccountsTypeOK, OthersRolesOnly, AdminRemains, [AccountsNext]_recordVars
  PROVE  OthersRolesOnly' /\ AdminRemains'
<1> USE DEF AccountsTypeOK, OthersRolesOnly, AdminRemains, Waiting
<1>1. ASSUME NEW r \in Requests, NEW a \in Users, NEW u \in Users, Reads(r, a, u)
      PROVE  OthersRolesOnly' /\ AdminRemains'
  BY <1>1, ReadsOnly
<1>2. ASSUME NEW r \in Requests, NEW u \in Users, Logout(r, u) \/ ForgotPassword(r, u)
      PROVE  OthersRolesOnly' /\ AdminRemains'
  <2>1. \A v \in Users : user'[v].role = user[v].role
    <3>1. \E row : user' = [user EXCEPT ![u] = row] /\ row.role = user[u].role
      BY <1>2 DEF Logout, ForgotPassword, WriteUser, UserRow
    <3> QED
      BY <3>1
  <2>2. \A q \in Requests : task'[q] = IF q = r THEN Idle ELSE task[q]
    BY <1>2 DEF Logout, ForgotPassword, WriteUser, Continue
  <2>3. overtaken' = overtaken
    BY <1>2 DEF Logout, ForgotPassword
  <2> QED
    BY <2>1, <2>2, <2>3 DEF Idle
<1>3. ASSUME NEW r \in Requests, SetStatus(r)
      PROVE  OthersRolesOnly' /\ AdminRemains'
  BY <1>3, TaskArgs DEF SetStatus, WriteUser, Continue, Idle, UserRow
<1>4. ASSUME NEW r \in Requests, SetRole(r)
      PROVE  OthersRolesOnly' /\ AdminRemains'
  <2>1. task[r].by \in Users /\ task[r].on \in Users /\ task[r].by # task[r].on
    BY <1>4, TaskArgs DEF SetRole
  <2>2. user'[task[r].by] = user[task[r].by]
    BY <1>4, <2>1 DEF SetRole, WriteUser
  <2>3. user[task[r].by].role = "ADMIN" \/ "caller" \in overtaken'
    BY <1>4 DEF SetRole
  <2>4. AdminRemains'
    BY <2>1, <2>2, <2>3
  <2>5. OthersRolesOnly'
    BY <1>4 DEF SetRole, WriteUser, Continue, Idle
  <2> QED
    BY <2>4, <2>5
<1>5. ASSUME NEW r \in Requests, InsertRow(r)
      PROVE  OthersRolesOnly' /\ AdminRemains'
  <2>1. \A v \in Users : user[v].role = "ADMIN" => user'[v] = user[v]
    BY <1>5, TaskArgs DEF InsertRow, WriteUser, Exists
  <2>2. \A q \in Requests : q # r => task'[q] = task[q]
    BY <1>5 DEF InsertRow, WriteUser, Continue
  <2>3. task'[r].pc # "roleWrite" /\ overtaken' = overtaken
    BY <1>5 DEF InsertRow, WriteUser, Continue, Idle
  <2> QED
    BY <2>1, <2>2, <2>3
<1>6. ASSUME NEW r \in Requests, IssueTokens(r)
      PROVE  OthersRolesOnly' /\ AdminRemains'
  BY <1>6, TaskArgs DEF IssueTokens, WriteUser, Continue, Idle, UserRow
<1>7. ASSUME NEW r \in Requests, ResetWrite(r)
      PROVE  OthersRolesOnly' /\ AdminRemains'
  <2>1. \A v \in Users : user'[v].role = user[v].role
    BY <1>7, TaskArgs DEF ResetWrite, WriteUser, UserRow
  <2>2. "caller" \in overtaken <=> "caller" \in overtaken'
    BY <1>7 DEF ResetWrite
  <2>3. \A q \in Requests : task'[q] = IF q = r THEN Idle ELSE task[q]
    BY <1>7 DEF ResetWrite, WriteUser, Continue
  <2> QED
    BY <2>1, <2>2, <2>3 DEF Idle
<1>8. ASSUME NEW u \in Users, LinkExpires(u) \/ AccessExpires(u)
      PROVE  OthersRolesOnly' /\ AdminRemains'
  <2>1. \A v \in Users : user'[v].role = user[v].role
    BY <1>8, OtherWrites
  <2>2. task' = task /\ overtaken' = overtaken
    BY <1>8 DEF LinkExpires, AccessExpires
  <2> QED
    BY <2>1, <2>2
<1>9. CASE UNCHANGED recordVars
  BY <1>9 DEF recordVars
<1> QED
  BY <1>1, <1>2, <1>3, <1>4, <1>5, <1>6, <1>7, <1>8, <1>9, AccountSteps

(* AdminRemains: whoever demotes whom through changeUserRole and updateRole, an     *)
(* account with the role ADMIN is left, until a caller is demoted under a request.  *)
THEOREM AdminStays == AccountsSpec => []AdminRemains
<1>1. AccountsInit => OthersRolesOnly /\ AdminRemains
  BY DEF AccountsInit, UserRecordsInit, OthersRolesOnly, AdminRemains, Waiting, Idle
<1>2. AccountsTypeOK /\ OthersRolesOnly /\ AdminRemains /\ [AccountsNext]_recordVars
        => OthersRolesOnly' /\ AdminRemains'
  BY AdminStep
<1> QED
  BY <1>1, <1>2, AccountsTypeCorrect, PTL DEF AccountsSpec

-----------------------------------------------------------------------------------
(* LinkUsedOnce.  A link is in one row at most, and while no write was overtaken a  *)
(* link that is in a row has not been used.                                         *)
LinksApart == \A u, v \in Users : user[u].link # 0 /\ user[u].link = user[v].link => u = v
LinksUnspent ==
  "link" \notin overtaken => \A u \in Users : user[u].link # 0 => uses[user[u].link] = 0

(* a row only ever loses its link, but for the one that forgotPassword writes       *)
LosesLinks == \A v \in Users : user'[v].link = user[v].link \/ user'[v].link = 0

LEMMA OnlyLost ==
  ASSUME LinksApart, LinksUnspent, LinkUsedOnce, LosesLinks,
         uses' = uses, "link" \in overtaken => "link" \in overtaken'
  PROVE  LinksApart' /\ LinksUnspent' /\ LinkUsedOnce'
  BY DEF LinksApart, LinksUnspent, LinkUsedOnce, LosesLinks

LEMMA OthersLoseLinks ==
  ASSUME AccountsTypeOK, AccountsNext,
         ~ \E r \in Requests, u \in Users : ForgotPassword(r, u),
         ~ \E r \in Requests : ResetWrite(r)
  PROVE  LosesLinks /\ uses' = uses /\ ("link" \in overtaken => "link" \in overtaken')
<1> USE DEF AccountsTypeOK, LosesLinks
<1>1. ASSUME NEW r \in Requests, NEW a \in Users, NEW u \in Users, Reads(r, a, u)
      PROVE  LosesLinks /\ uses' = uses /\ overtaken' = overtaken
  BY <1>1, ReadsOnly
<1>2. ASSUME NEW r \in Requests, NEW u \in Users, Logout(r, u)
      PROVE  LosesLinks /\ uses' = uses /\ overtaken' = overtaken
  BY <1>2 DEF Logout, WriteUser, UserRow
<1>3. ASSUME NEW r \in Requests, SetStatus(r)
      PROVE  LosesLinks /\ uses' = uses /\ overtaken' = overtaken
  BY <1>3, TaskArgs DEF SetStatus, WriteUser, Waiting, UserRow
<1>4. ASSUME NEW r \in Requests, SetRole(r)
      PROVE  LosesLinks /\ uses' = uses /\ overtaken \subseteq overtaken'
  BY <1>4, TaskArgs DEF SetRole, WriteUser, Waiting, UserRow
<1>5. ASSUME NEW r \in Requests, InsertRow(r)
      PROVE  LosesLinks /\ uses' = uses /\ overtaken' = overtaken
  BY <1>5, TaskArgs DEF InsertRow, WriteUser, Waiting, NewRow, NoRow
<1>6. ASSUME NEW r \in Requests, IssueTokens(r)
      PROVE  LosesLinks /\ uses' = uses /\ overtaken' = overtaken
  BY <1>6, TaskArgs DEF IssueTokens, WriteUser, Waiting, UserRow
<1>7. ASSUME NEW u \in Users, LinkExpires(u) \/ AccessExpires(u)
      PROVE  LosesLinks /\ uses' = uses /\ overtaken' = overtaken
  BY <1>7 DEF LinkExpires, AccessExpires, UserRow
<1> QED
  BY <1>1, <1>2, <1>3, <1>4, <1>5, <1>6, <1>7, AccountSteps

LEMMA LinkStep ==
  ASSUME AccountsTypeOK, LinksMailed, LinksApart, LinksUnspent, LinkUsedOnce,
         [AccountsNext]_recordVars
  PROVE  LinksApart' /\ LinksUnspent' /\ LinkUsedOnce'
<1>1. ASSUME NEW r \in Requests, NEW u \in Users, ForgotPassword(r, u)
      PROVE  LinksApart' /\ LinksUnspent' /\ LinkUsedOnce'
  <2>1. /\ Len(uses') = Len(uses) + 1 /\ Len(uses) \in Nat
        /\ \A l \in 1..Len(uses) : uses'[l] = uses[l]
        /\ uses'[Len(uses) + 1] = 0
        /\ overtaken' = overtaken
    BY <1>1 DEF ForgotPassword, AccountsTypeOK
  <2>2. \A v \in Users : user[v].link \in 0..Len(uses)
    BY LinkBound, <2>1 DEF AccountsTypeOK, UserRow, LinksMailed
  <2>3. \A v \in Users : user'[v].link = IF v = u THEN Len(uses) + 1 ELSE user[v].link
    BY <1>1, <2>1 DEF ForgotPassword, WriteUser, AccountsTypeOK, UserRow
  <2>4. LinksApart'
    BY <2>1, <2>2, <2>3 DEF LinksApart
  <2>5. LinksUnspent'
    BY <2>1, <2>2, <2>3 DEF LinksUnspent
  <2>6. LinkUsedOnce'
    <3>1. ASSUME "link" \notin overtaken', NEW l \in 1..Len(uses')
          PROVE  uses'[l] <= 1
      BY <2>1, <3>1 DEF LinkUsedOnce
    <3> QED
      BY <3>1 DEF LinkUsedOnce
  <2> QED
    BY <2>4, <2>5, <2>6
<1>2. ASSUME NEW r \in Requests, ResetWrite(r)
      PROVE  LinksApart' /\ LinksUnspent' /\ LinkUsedOnce'
  <2> DEFINE u == task[r].on
             l == task[r].link
  <2>1. u \in Users /\ l \in 1..Len(uses) /\ uses[l] \in Nat
    BY <1>2, TaskArgs DEF ResetWrite, AccountsTypeOK, LinksMailed, Waiting
  <2>2. /\ Len(uses') = Len(uses)
        /\ \A k \in 1..Len(uses) : uses'[k] = IF k = l THEN uses[l] + 1 ELSE uses[k]
    <3>1. uses \in Seq(Nat) /\ uses[l] + 1 \in Nat /\ uses' = [uses EXCEPT ![l] = uses[l] + 1]
      BY <1>2, <2>1 DEF ResetWrite, AccountsTypeOK
    <3> HIDE DEF l
    <3> QED
      BY <2>1, <3>1, ExceptSeq
  <2>3. \A v \in Users : user'[v].link = IF v = u THEN 0 ELSE user[v].link
    BY <1>2, <2>1 DEF ResetWrite, WriteUser, AccountsTypeOK, UserRow
  <2>4. LinksApart'
    BY <2>3 DEF LinksApart
  <2>5. CASE "link" \in overtaken'
    BY <2>4, <2>5 DEF LinksUnspent, LinkUsedOnce
  <2>6. CASE "link" \notin overtaken'
    <3>1. "link" \notin overtaken /\ user[u].link = l
      BY <1>2, <2>6 DEF ResetWrite
    <3>2. uses[l] = 0 /\ \A v \in Users : v # u => user[v].link # l
      BY <2>1, <3>1 DEF LinksUnspent, LinksApart
    <3>3. \A v \in Users : user[v].link \in 0..Len(uses)
      BY LinkBound DEF AccountsTypeOK, UserRow, LinksMailed
    <3>4. LinksUnspent'
      BY <2>2, <2>3, <3>1, <3>2, <3>3 DEF LinksUnspent
    <3>5. LinkUsedOnce'
      BY <2>2, <3>1, <3>2 DEF LinkUsedOnce
    <3> QED
      BY <2>4, <3>4, <3>5
  <2> QED
    BY <2>5, <2>6
<1>3. CASE UNCHANGED recordVars
  BY <1>3 DEF recordVars, LinksApart, LinksUnspent, LinkUsedOnce
<1> QED
  BY <1>1, <1>2, <1>3, OthersLoseLinks, OnlyLost

(* LinkUsedOnce: a reset link sets one password, unless the row was written between *)
(* the look-up in resetPassword and its update.                                     *)
THEOREM LinkOnce == AccountsSpec => []LinkUsedOnce
<1>1. AccountsInit => LinksApart /\ LinksUnspent /\ LinkUsedOnce
  BY DEF AccountsInit, UserRecordsInit, LinksApart, LinksUnspent, LinkUsedOnce, NoRow, NewRow
<1>2. AccountsTypeOK /\ LinksMailed /\ [AccountsNext]_recordVars => (AccountsTypeOK /\ LinksMailed)'
  BY AccountsTypeStep, LinksMailedStep
<1>3. /\ AccountsTypeOK /\ LinksMailed /\ LinksApart /\ LinksUnspent /\ LinkUsedOnce
      /\ [AccountsNext]_recordVars
      => (LinksApart /\ LinksUnspent /\ LinkUsedOnce)'
  BY LinkStep
<1> QED
  BY <1>1, <1>2, <1>3, AccountsStart, PTL DEF AccountsSpec

-----------------------------------------------------------------------------------
(* Suspension.  A suspended account has a row and keeps it; the sign-ins that have    *)
(* passed the check of its status are all there will be.                             *)
SigningIn(u) == {r \in Requests : task[r].pc = "issueTokens" /\ task[r].on = u}

SuspendedExist ==
  /\ \A u \in Users : user[u].status = "SUSPENDED" => Exists(u)
  /\ \A r \in Requests : task[r].pc = "statusWrite" => Exists(task[r].on)

LEMMA RowsKept ==
  ASSUME AccountsTypeOK, [AccountsNext]_recordVars
  PROVE  \A u \in Users : Exists(u) => Exists(u)'
<1> USE DEF AccountsTypeOK, Exists
<1>1. ASSUME NEW r \in Requests, NEW a \in Users, NEW u \in Users, Reads(r, a, u)
      PROVE  user' = user
  BY <1>1, ReadsOnly
<1>2. ASSUME NEW r \in Requests, SetRole(r)
      PROVE  \A v \in Users : Exists(v) => Exists(v)'
  <2>1. task[r].role # "NONE"
    BY <1>2, TaskArgs DEF SetRole, Waiting, Role
  <2> QED
    BY <1>2, <2>1, TaskArgs DEF SetRole, WriteUser, UserRow
<1>3. ASSUME NEW r \in Requests, InsertRow(r)
      PROVE  \A v \in Users : Exists(v) => Exists(v)'
  BY <1>3, TaskArgs DEF InsertRow, WriteUser
<1>4. ASSUME NEW r \in Requests, SetStatus(r)
      PROVE  \A v \in Users : user'[v].role = user[v].role
  BY <1>4, TaskArgs DEF SetStatus, WriteUser, Waiting, UserRow
<1>5. ASSUME \/ \E r \in Requests, u \in Users : Logout(r, u) \/ ForgotPassword(r, u)
             \/ \E r \in Requests : IssueTokens(r) \/ ResetWrite(r)
             \/ \E u \in Users : LinkExpires(u) \/ AccessExpires(u)
      PROVE  \A v \in Users : user'[v].role = user[v].role
  BY <1>5, OtherWrites
<1>6. CASE UNCHANGED recordVars
  BY <1>6 DEF recordVars
<1> QED
  BY <1>1, <1>2, <1>3, <1>4, <1>5, <1>6, AccountSteps

(* The status of a row changes in two ways: by the write of a request, and with the   *)
(* row that a new account is given.                                                  *)
LEMMA StatusWrites ==
  ASSUME AccountsTypeOK, [AccountsNext]_recordVars, NEW u \in Users,
         user'[u].status = "SUSPENDED", user[u].status # "SUSPENDED"
  PROVE  \E r \in Requests : task[r].pc = "statusWrite" /\ task[r].on = u
<1> USE DEF AccountsTypeOK
<1>1. ASSUME NEW r \in Requests, NEW a \in Users, NEW v \in Users, Reads(r, a, v)
      PROVE  FALSE
  BY <1>1, ReadsOnly
<1>2. ASSUME NEW r \in Requests, SetStatus(r)
      PROVE  task[r].pc = "statusWrite" /\ task[r].on = u
  BY <1>2, TaskArgs DEF SetStatus, WriteUser, Waiting, UserRow
<1>3. ASSUME NEW r \in Requests, InsertRow(r)
      PROVE  FALSE
  BY <1>3, TaskArgs DEF InsertRow, WriteUser, NewRow, NoRow
<1>4. ASSUME NEW r \in Requests, SetRole(r)
      PROVE  FALSE
  <2>1. user'[u].status = user[u].status
    BY <1>4, TaskArgs DEF SetRole, WriteUser, Waiting, UserRow
  <2> QED
    BY <2>1
<1>5. ASSUME \/ \E r \in Requests, v \in Users : Logout(r, v) \/ ForgotPassword(r, v)
             \/ \E r \in Requests : IssueTokens(r) \/ ResetWrite(r)
             \/ \E v \in Users : LinkExpires(v) \/ AccessExpires(v)
      PROVE  FALSE
  <2>1. user'[u].status = user[u].status
    BY <1>5, OtherWrites
  <2> QED
    BY <2>1
<1>6. CASE UNCHANGED recordVars
  BY <1>6 DEF recordVars
<1> QED
  BY <1>1, <1>2, <1>3, <1>4, <1>5, <1>6, AccountSteps

(* A request that goes on to write a status, or to issue tokens, has found the row    *)
(* there and, for the tokens, ACTIVE, or it has just made the row.                    *)
LEMMA TasksTaken ==
  ASSUME AccountsTypeOK, [AccountsNext]_recordVars, NEW r \in Requests, task'[r] # task[r]
  PROVE  /\ task'[r].pc = "statusWrite" => task'[r].on \in Users /\ Exists(task'[r].on)
         /\ task'[r].pc = "issueTokens"
              => \/ user[task'[r].on].status = "ACTIVE"
                 \/ ~Exists(task'[r].on)
<1> USE DEF AccountsTypeOK, Continue
<1>1. ASSUME NEW q \in Requests, NEW a \in Users, NEW u \in Users, Reads(q, a, u)
      PROVE  /\ task'[r].pc = "statusWrite" => task'[r].on \in Users /\ Exists(task'[r].on)
             /\ task'[r].pc = "issueTokens" => user[task'[r].on].status = "ACTIVE"
  <2>1. q = r
    BY <1>1, ReadsOnly
  <2>2. CASE SuspendUser(r, a, u) \/ UnsuspendUser(r, a, u) \/ Deactivate(r, a, u)
    BY <2>2 DEF SuspendUser, UnsuspendUser, Deactivate, StatusWrite
  <2>3. CASE CreateRider(r, a, u) \/ CreateAdmin(r, a, u) \/ Register(r, u)
    BY <2>3 DEF CreateRider, CreateAdmin, Register, CreateRow
  <2>4. CASE \E role \in Role : ChangeUserRole(r, a, u, role) \/ UpdateRole(r, a, u, role)
    BY <2>4 DEF ChangeUserRole, UpdateRole, RoleWrite
  <2>5. CASE Login(r, u) \/ RefreshRead(r, u)
    BY <2>5 DEF Login, RefreshRead, IssueTo
  <2>6. CASE ResetRead(r, u)
    BY <2>6 DEF ResetRead
  <2> QED
    BY <1>1, <2>1, <2>2, <2>3, <2>4, <2>5, <2>6 DEF Reads
<1>2. ASSUME NEW q \in Requests, InsertRow(q)
      PROVE  \/ task'[r] = Idle
             \/ task'[r].pc = "issueTokens" /\ ~Exists(task'[r].on)
  BY <1>2 DEF InsertRow, WriteUser
<1>3. ASSUME NEW q \in Requests, SetStatus(q) \/ SetRole(q) \/ IssueTokens(q) \/ ResetWrite(q)
      PROVE  task'[r] = Idle
  BY <1>3 DEF SetStatus, SetRole, IssueTokens, ResetWrite, WriteUser
<1>4. ASSUME NEW q \in Requests, NEW u \in Users, Logout(q, u) \/ ForgotPassword(q, u)
      PROVE  task'[r] = Idle
  BY <1>4 DEF Logout, ForgotPassword, WriteUser
<1>5. ASSUME NEW u \in Users, LinkExpires(u) \/ AccessExpires(u)
      PROVE  FALSE
  BY <1>5 DEF LinkExpires, AccessExpires
<1>6. CASE UNCHANGED recordVars
  BY <1>6 DEF recordVars
<1> QED
  BY <1>1, <1>2, <1>3, <1>4, <1>5, <1>6, AccountSteps DEF Idle

LEMMA SuspendedExistStep ==
  ASSUME AccountsTypeOK, SuspendedExist, [AccountsNext]_recordVars
  PROVE  SuspendedExist'
<1>1. \A u \in Users : Exists(u) => Exists(u)'
  BY RowsKept
<1>2. ASSUME NEW u \in Users, user'[u].status = "SUSPENDED" PROVE Exists(u)'
  <2>1. CASE user[u].status = "SUSPENDED"
    BY <1>1, <2>1 DEF SuspendedExist
  <2>2. CASE user[u].status # "SUSPENDED"
    BY <1>1, <1>2, <2>2, StatusWrites DEF SuspendedExist
  <2> QED
    BY <2>1, <2>2
<1>3. ASSUME NEW r \in Requests, task'[r].pc = "statusWrite" PROVE Exists(task[r].on)'
  <2>1. CASE task'[r] = task[r]
    <3>1. task[r].on \in Users /\ Exists(task[r].on)
      BY <1>3, <2>1, TaskArgs DEF SuspendedExist, AccountsTypeOK
    <3> QED
      BY <1>1, <2>1, <3>1 DEF Exists
  <2>2. CASE task'[r] # task[r]
    <3>1. task'[r].on \in Users /\ Exists(task'[r].on)
      BY <1>3, <2>2, TasksTaken
    <3> QED
      BY <1>1, <3>1 DEF Exists
  <2> QED
    BY <2>1, <2>2
<1> QED
  BY <1>2, <1>3 DEF SuspendedExist

(* an access token comes from a request that issues it                                *)
LEMMA TokensIssued ==
  ASSUME AccountsTypeOK, [AccountsNext]_recordVars, NEW u \in live' \ live
  PROVE  \E r \in Requests : task[r].pc = "issueTokens" /\ task[r].on = u
<1>1. ASSUME NEW r \in Requests, NEW a \in Users, NEW v \in Users, Reads(r, a, v)
      PROVE  FALSE
  BY <1>1, ReadsOnly
<1>2. ASSUME NEW r \in Requests, IssueTokens(r)
      PROVE  task[r].pc = "issueTokens" /\ task[r].on = u
  BY <1>2 DEF IssueTokens, Waiting
<1>3. ASSUME NEW r \in Requests, SetStatus(r) \/ SetRole(r) \/ InsertRow(r) \/ ResetWrite(r)
      PROVE  FALSE
  BY <1>3 DEF SetStatus, SetRole, InsertRow, ResetWrite
<1>4. ASSUME NEW r \in Requests, NEW v \in Users, Logout(r, v) \/ ForgotPassword(r, v)
      PROVE  FALSE
  BY <1>4 DEF Logout, ForgotPassword
<1>5. ASSUME NEW v \in Users, LinkExpires(v) \/ AccessExpires(v)
      PROVE  FALSE
  BY <1>5 DEF LinkExpires, AccessExpires
<1>6. CASE UNCHANGED recordVars
  BY <1>6 DEF recordVars
<1> QED
  BY <1>1, <1>2, <1>3, <1>4, <1>5, <1>6, AccountSteps

(* The safety half of SuspensionBites: suspendUser and deactivate revoke nothing, but   *)
(* no login or refresh begins on a suspended account, so that the sign-ins already past *)
(* their check are all that can still give it an access token.                         *)
THEOREM NoNewSignIn ==
  AccountsSpec =>
    [][\A u \in Users :
         user[u].status = "SUSPENDED" =>
           /\ SigningIn(u)' \subseteq SigningIn(u)
           /\ u \in live' => u \in live \/ SigningIn(u) # {}]_recordVars
<1>1. AccountsInit => SuspendedExist
  BY DEF AccountsInit, UserRecordsInit, SuspendedExist, NoRow, NewRow, Idle
<1>2. AccountsTypeOK /\ SuspendedExist /\ [AccountsNext]_recordVars => SuspendedExist'
  BY SuspendedExistStep
<1>3. ASSUME AccountsTypeOK, SuspendedExist, [AccountsNext]_recordVars,
             NEW u \in Users, user[u].status = "SUSPENDED"
      PROVE  /\ SigningIn(u)' \subseteq SigningIn(u)
             /\ u \in live' => u \in live \/ SigningIn(u) # {}
  <2>1. ASSUME NEW r \in Requests, task'[r].pc = "issueTokens", task'[r].on = u
        PROVE  task'[r] = task[r]
    BY <1>3, <2>1, TasksTaken DEF SuspendedExist
  <2>2. SigningIn(u)' \subseteq SigningIn(u)
    BY <2>1 DEF SigningIn
  <2>3. u \in live' /\ u \notin live => SigningIn(u) # {}
    BY <1>3, TokensIssued DEF SigningIn
  <2> QED
    BY <2>2, <2>3
<1>4. AccountsTypeOK /\ SuspendedExist /\ [AccountsNext]_recordVars
        => [\A u \in Users :
              user[u].status = "SUSPENDED" =>
                /\ SigningIn(u)' \subseteq SigningIn(u)
                /\ u \in live' => u \in live \/ SigningIn(u) # {}]_recordVars
  BY <1>3
<1> QED
  BY <1>1, <1>2, <1>4, AccountsTypeCorrect, PTL DEF AccountsSpec
===================================================================================
