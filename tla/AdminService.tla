-------------------------------- MODULE AdminService -------------------------------
(* The handlers of admin.service.ts and users.service.ts that write User rows.   *)
EXTENDS UserRecords

(* JwtStrategy.validate and RolesGuard: the token is alive, and the role in the  *)
(* row of its account, read now, is ADMIN.  The row's status is not looked at:   *)
(* !user.accountStatus is false for both values of the enum.                     *)
AdminCall(r, a) ==
  /\ Waiting(r, "idle")
  /\ a \in live
  /\ user[a].role = "ADMIN"

(* adminCount > 1, for a user who is counted: somebody else has the role         *)
AnotherAdmin(u) == \E b \in Users \ {u} : user[b].role = "ADMIN"

StatusWrite(a, u, status) ==
  [pc |-> "statusWrite", by |-> a, on |-> u, status |-> status]
RoleWrite(a, u, role) ==
  [pc |-> "roleWrite", by |-> a, on |-> u, role |-> role]
CreateRow(u, role, enter) ==
  [pc |-> "createRow", on |-> u, role |-> role, enter |-> enter]

(* mutation: an admin may act on the own account, and the count is not asked for *)
ChangeAnyRole(r, a, u, role) ==
  /\ AdminCall(r, a)
  /\ Exists(u)
  /\ Continue(r, RoleWrite(a, u, role))
  /\ UNCHANGED <<user, live, uses, overtaken>>

(* suspendUser: never the own account, and an ADMIN only while there is another  *)
(* row with that role -- active or not                                           *)
SuspendUser(r, a, u) ==
  /\ AdminCall(r, a)
  /\ a # u
  /\ Exists(u)
  /\ user[u].role = "ADMIN" => AnotherAdmin(u)
  /\ Continue(r, StatusWrite(a, u, "SUSPENDED"))
  /\ UNCHANGED <<user, live, uses, overtaken>>

(* unsuspendUser: any account, the own one too                                   *)
UnsuspendUser(r, a, u) ==
  /\ AdminCall(r, a)
  /\ Exists(u)
  /\ Continue(r, StatusWrite(a, u, "ACTIVE"))
  /\ UNCHANGED <<user, live, uses, overtaken>>

(* UsersService.deactivate (DELETE /users/:id): no count                         *)
Deactivate(r, a, u) ==
  /\ AdminCall(r, a)
  /\ a # u
  /\ Exists(u)
  /\ Continue(r, StatusWrite(a, u, "SUSPENDED"))
  /\ UNCHANGED <<user, live, uses, overtaken>>

(* changeUserRole: the count is asked for when an ADMIN loses the role           *)
ChangeUserRole(r, a, u, role) ==
  /\ AdminCall(r, a)
  /\ a # u
  /\ Exists(u)
  /\ user[u].role = "ADMIN" /\ role # "ADMIN" => AnotherAdmin(u)
  /\ Continue(r, RoleWrite(a, u, role))
  /\ UNCHANGED <<user, live, uses, overtaken>>

(* UsersService.updateRole (PATCH /users/:id/role): no count                     *)
UpdateRole(r, a, u, role) ==
  /\ AdminCall(r, a)
  /\ a # u
  /\ Exists(u)
  /\ Continue(r, RoleWrite(a, u, role))
  /\ UNCHANGED <<user, live, uses, overtaken>>

(* createRider and createAdmin: the address is looked up as it was typed, then   *)
(* the password is hashed                                                        *)
CreateRider(r, a, u) ==
  /\ AdminCall(r, a)
  /\ ~Exists(u)
  /\ Continue(r, CreateRow(u, "USER", FALSE))
  /\ UNCHANGED <<user, live, uses, overtaken>>

CreateAdmin(r, a, u) ==
  /\ AdminCall(r, a)
  /\ ~Exists(u)
  /\ Continue(r, CreateRow(u, "ADMIN", FALSE))
  /\ UNCHANGED <<user, live, uses, overtaken>>

(* the update of suspendUser, unsuspendUser and deactivate: by id alone, whatever *)
(* the caller has become in the meantime                                         *)
SetStatus(r) ==
  /\ Waiting(r, "statusWrite")
  /\ WriteUser(r, task[r].on, [user[task[r].on] EXCEPT !.status = task[r].status], Idle)
  /\ UNCHANGED <<live, uses, overtaken>>

(* the update of changeUserRole and updateRole.  A caller who lost the role since *)
(* the guard let the request in still changes somebody else's.                   *)
SetRole(r) ==
  /\ Waiting(r, "roleWrite")
  /\ WriteUser(r, task[r].on, [user[task[r].on] EXCEPT !.role = task[r].role], Idle)
  /\ overtaken' = IF user[task[r].by].role = "ADMIN" THEN overtaken
                  ELSE overtaken \cup {"caller"}
  /\ UNCHANGED <<live, uses>>

(* user.create: the unique index on email refuses the second of two              *)
InsertRow(r) ==
  /\ Waiting(r, "createRow")
  /\ IF Exists(task[r].on)
     THEN /\ Continue(r, Idle)
          /\ UNCHANGED user
     ELSE WriteUser(r, task[r].on, NewRow(task[r].role),
                    IF task[r].enter
                    THEN [pc |-> "issueTokens", on |-> task[r].on, entry |-> TRUE]
                    ELSE Idle)
  /\ UNCHANGED <<live, uses, overtaken>>
===================================================================================
