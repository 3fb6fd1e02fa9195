-------------------------------- MODULE UserRecords --------------------------------
(* The User rows, as the auth, users and admin modules of the API read and write *)
(* them, and the requests in flight on them.  As everywhere in this code base a  *)
(* handler reads the row, awaits a hash or a count, and writes with an           *)
(* unconditional update: each task is what a handler has read and not yet done.  *)
EXTENDS Naturals, Sequences

CONSTANTS Users,       \* e-mail addresses, each the key of at most one account
          Requests,    \* HTTP requests that may be in flight at the same time
          MaxLinks     \* bound: reset links mailed in one behaviour

ASSUME LinkBound == MaxLinks \in Nat

VARIABLES
  user,       \* the User row of each address; role "NONE" while there is no row
  live,       \* accounts for which an unexpired access token exists
  uses,       \* how often each reset link mailed so far has set a password
  task,       \* the requests in flight
  overtaken   \* ghost: what was written on the strength of an outdated reading

recordVars == <<user, live, uses, task, overtaken>>

-----------------------------------------------------------------------------------
(* of the three values of UserRole, USER stands for RIDER too: no handler here    *)
(* tells the two apart                                                            *)
Role == {"USER", "ADMIN"}
AccountStatus == {"ACTIVE", "SUSPENDED"}

(* refresh: whether refreshToken is set.  bcrypt reads the first 72 bytes of what *)
(* it hashes, and in a refresh token these are the header and the start of the    *)
(* account id, the same in every token of an account: the stored hash tells the   *)
(* account and not the token, so any unexpired refresh token of the account       *)
(* matches it.  link: the link whose hash is in passwordResetToken, 0 for none.   *)
UserRow == [role : Role \cup {"NONE"}, status : AccountStatus,
            refresh : BOOLEAN, link : 0..MaxLinks]
NoRow == [role |-> "NONE", status |-> "ACTIVE", refresh |-> FALSE, link |-> 0]
NewRow(role) == [NoRow EXCEPT !.role = role]

Exists(u) == user[u].role # "NONE"

(* The first step of a handler puts down what its later steps need; by is the     *)
(* caller, on the account the request is about.                                  *)
Task ==
  [pc : {"idle"}]
  \cup [pc : {"statusWrite"}, by : Users, on : Users, status : AccountStatus]
  \cup [pc : {"roleWrite"}, by : Users, on : Users, role : Role]
  \cup [pc : {"createRow"}, on : Users, role : Role, enter : BOOLEAN]
  \cup [pc : {"issueTokens"}, on : Users, entry : BOOLEAN]
  \cup [pc : {"resetWrite"}, on : Users, link : 1..MaxLinks]

Idle == [pc |-> "idle"]
Waiting(r, pc) == task[r].pc = pc

(* the handler of r has read the row of u and goes on to its next step            *)
Continue(r, next) == task' = [task EXCEPT ![r] = next]

(* user.update on the row of u by the task of r, which goes on as next            *)
WriteUser(r, u, row, next) ==
  /\ user' = [user EXCEPT ![u] = row]
  /\ Continue(r, next)

UserRecordsInit ==
  /\ user \in [Users -> {NoRow, NewRow("ADMIN")}]
  /\ \E u \in Users : user[u].role = "ADMIN"
  /\ live = {}
  /\ uses = <<>>
  /\ task = [r \in Requests |-> Idle]
  /\ overtaken = {}
===================================================================================
