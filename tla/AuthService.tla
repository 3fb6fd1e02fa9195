-------------------------------- MODULE AuthService --------------------------------
(* The handlers of auth.service.ts.  verifyEmail is left out: isEmailVerified is  *)
(* written once, to TRUE, and no handler asks for it.                            *)
EXTENDS AdminService

IssueTo(u, entry) == [pc |-> "issueTokens", on |-> u, entry |-> entry]

(* mutation: the status is not looked at *)
LoginAnyone(r, u) ==
  /\ Waiting(r, "idle")
  /\ Exists(u)
  /\ Continue(r, IssueTo(u, TRUE))
  /\ UNCHANGED <<user, live, uses, overtaken>>

(* mutations: a refresh uses the token up before the new pair is issued; the slot *)
(* is left as it is; the link stays in the row                                    *)
RefreshReadOnce(r, u) ==
  /\ Waiting(r, "idle")
  /\ Exists(u)
  /\ user[u].refresh
  /\ user[u].status = "ACTIVE"
  /\ WriteUser(r, u, [user[u] EXCEPT !.refresh = FALSE], IssueTo(u, FALSE))
  /\ UNCHANGED <<live, uses, overtaken>>
LogoutKeepsSlot(r, u) ==
  /\ Waiting(r, "idle")
  /\ u \in live
  /\ UNCHANGED recordVars
ResetWriteKeepsLink(r) ==
  /\ Waiting(r, "resetWrite")
  /\ Continue(r, Idle)
  /\ uses' = [uses EXCEPT ![task[r].link] = @ + 1]
  /\ overtaken' = IF user[task[r].on].link = task[r].link THEN overtaken
                  ELSE overtaken \cup {"link"}
  /\ UNCHANGED <<user, live>>

(* register: the address is free when looked up; hashing, creation, tokens follow *)
Register(r, u) ==
  /\ Waiting(r, "idle")
  /\ ~Exists(u)
  /\ Continue(r, CreateRow(u, "USER", TRUE))
  /\ UNCHANGED <<user, live, uses, overtaken>>

(* login with the right password: an account that is not ACTIVE is refused       *)
Login(r, u) ==
  /\ Waiting(r, "idle")
  /\ Exists(u)
  /\ user[u].status = "ACTIVE"
  /\ Continue(r, IssueTo(u, TRUE))
  /\ UNCHANGED <<user, live, uses, overtaken>>

(* refresh: the row holds a hash and is ACTIVE.  The branch for a token that does *)
(* not match the hash is not here: see UserRow.                                  *)
RefreshRead(r, u) ==
  /\ Waiting(r, "idle")
  /\ Exists(u)
  /\ user[u].refresh
  /\ user[u].status = "ACTIVE"
  /\ Continue(r, IssueTo(u, FALSE))
  /\ UNCHANGED <<user, live, uses, overtaken>>

(* issueTokens: signs a pair, hashes the refresh token, and stores the hash by id *)
IssueTokens(r) ==
  /\ Waiting(r, "issueTokens")
  /\ WriteUser(r, task[r].on, [user[task[r].on] EXCEPT !.refresh = TRUE], Idle)
  /\ live' = live \cup {task[r].on}
  /\ UNCHANGED <<uses, overtaken>>

(* logout: the slot is cleared; access tokens already out stay good              *)
Logout(r, u) ==
  /\ Waiting(r, "idle")
  /\ u \in live
  /\ WriteUser(r, u, [user[u] EXCEPT !.refresh = FALSE], Idle)
  /\ UNCHANGED <<live, uses, overtaken>>

(* forgotPassword: a new link replaces the old one in the row, and is mailed     *)
ForgotPassword(r, u) ==
  /\ Waiting(r, "idle")
  /\ Exists(u)
  /\ Len(uses) < MaxLinks
  /\ uses' = Append(uses, 0)
  /\ WriteUser(r, u, [user[u] EXCEPT !.link = Len(uses')], Idle)
  /\ UNCHANGED <<live, overtaken>>

(* resetPassword, first half: the row that holds this link, unexpired            *)
ResetRead(r, u) ==
  /\ Waiting(r, "idle")
  /\ user[u].link # 0
  /\ Continue(r, [pc |-> "resetWrite", on |-> u, link |-> user[u].link])
  /\ UNCHANGED <<user, live, uses, overtaken>>

(* ... and second half, after the hash: the row gets the new password and no      *)
(* link, whichever it holds by then.  The sessions stay.                          *)
ResetWrite(r) ==
  /\ Waiting(r, "resetWrite")
  /\ WriteUser(r, task[r].on, [user[task[r].on] EXCEPT !.link = 0], Idle)
  /\ uses' = [uses EXCEPT ![task[r].link] = @ + 1]
  /\ overtaken' = IF user[task[r].on].link = task[r].link THEN overtaken
                  ELSE overtaken \cup {"link"}
  /\ UNCHANGED live

(* passwordResetExpires has passed                                               *)
LinkExpires(u) ==
  /\ user[u].link # 0
  /\ user' = [user EXCEPT ![u].link = 0]
  /\ UNCHANGED <<live, uses, task, overtaken>>

(* the last access token of the account has reached its 15 minutes               *)
AccessExpires(u) ==
  /\ u \in live
  /\ live' = live \ {u}
  /\ UNCHANGED <<user, uses, task, overtaken>>
===================================================================================
