---------------------------------- MODULE Accounts ---------------------------------
(* The accounts: admins suspend, demote and create accounts while their owners    *)
(* sign in and out, refresh their tokens and reset their passwords.               *)
EXTENDS AuthService

(* the service starts with some accounts, at least one an admin; nobody signed in *)
AccountsInit == UserRecordsInit

AccountsNext ==
  \/ \E r \in Requests, a, u \in Users :
        \/ SuspendUser(r, a, u) \/ UnsuspendUser(r, a, u) \/ Deactivate(r, a, u)
        \/ CreateRider(r, a, u) \/ CreateAdmin(r, a, u)
        \/ \E role \in Role : ChangeUserRole(r, a, u, role) \/ UpdateRole(r, a, u, role)
  \/ \E r \in Requests, u \in Users :
        \/ Register(r, u) \/ Login(r, u) \/ RefreshRead(r, u) \/ Logout(r, u)
        \/ ForgotPassword(r, u) \/ ResetRead(r, u)
  \/ \E r \in Requests :
        \/ SetStatus(r) \/ SetRole(r) \/ InsertRow(r)
        \/ IssueTokens(r) \/ ResetWrite(r)
  \/ \E u \in Users : LinkExpires(u) \/ AccessExpires(u)

(* The server finishes the request it works on, and access tokens expire.  Nothing *)
(* is assumed of the people: whether and when they call.                          *)
AccountsFairness ==
  /\ \A r \in Requests : WF_recordVars(SetStatus(r) \/ SetRole(r) \/ InsertRow(r)
                                       \/ IssueTokens(r) \/ ResetWrite(r))
  /\ \A u \in Users : WF_recordVars(AccessExpires(u))

AccountsSpec == AccountsInit /\ [][AccountsNext]_recordVars /\ AccountsFairness

-----------------------------------------------------------------------------------
(* The rows, links and tasks have their types.                                    *)
AccountsTypeOK ==
  /\ user \in [Users -> UserRow]
  /\ live \subseteq Users
  /\ uses \in Seq(Nat) /\ Len(uses) <= MaxLinks
  /\ task \in [Requests -> Task]
  /\ overtaken \subseteq {"caller", "link"}

(* The system is never without an administrator: an account with the role ADMIN   *)
(* remains, whoever demotes whom, unless a caller was demoted while the request   *)
(* to demote somebody else was already past the guard.  Nothing but the ban on    *)
(* changing the own role carries this: PATCH /users/:id/role counts no admins.    *)
AdminRemains ==
  "caller" \notin overtaken => \E u \in Users : user[u].role = "ADMIN"

(* A reset link sets a password at most once, unless the row was written between  *)
(* the look-up of the link and the write of the new password.                     *)
LinkUsedOnce ==
  "link" \notin overtaken => \A l \in 1..Len(uses) : uses[l] <= 1

(* A suspension ends all access: once an account stays suspended, it is some day  *)
(* without a live access token for good, although suspending revokes no token,    *)
(* and although a login or refresh in flight may still issue one.                 *)
SuspensionBites ==
  \A u \in Users : <>[](user[u].status = "SUSPENDED") => <>[](u \notin live)

===================================================================================
