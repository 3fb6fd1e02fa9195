--------------------------------- MODULE WebSession --------------------------------
(* One account and the browser it is used from: several tabs of the web client     *)
(* share localStorage, each keeps its own copy of the session in memory, and every  *)
(* call may find its access token expired, refresh it and try again.                *)
EXTENDS AuthService

CONSTANTS Me,      \* the account
          Tabs     \* tabs of one browser

ASSUME OnlyMe == Users = {Me}

VARIABLES
  stored,     \* the keys accessToken and refreshToken of localStorage, set and removed together
  persisted,  \* the pair in the key easewaybill-auth, written by every set of a store
  memory,     \* the pair in the store of each tab
  call,       \* the API calls of the tabs; the server works on call c as task c
  out,        \* ghost: the owner has logged out, and not signed in since
  raced,      \* ghost: a logout found a refresh past its reading
  settled     \* ghost: signed in, and nothing has ended or disturbed the session since

browserVars == <<stored, persisted, memory, call>>
ghosts == <<out, raced, settled>>
sessionVars == <<user, live, uses, task, overtaken, stored, persisted, memory, call,
                 out, raced, settled>>

(* what is kept of a token pair: whether its access token is still good           *)
Pair == {"none", "fresh", "stale"}
Entry == {"login", "register"}
Kind == {"api", "recover", "logout"} \cup Entry
Call == [pc : {"sent", "unauthorized", "renewed", "done", "refreshing", "refused", "failed"},
         kind : Kind, tab : Tabs, token : Pair, retried : BOOLEAN,
         late : BOOLEAN,       \* ghost: sent before the last sign-in
         requests : Nat]       \* ghost: how many it has cost the server so far
NoCall == [pc |-> "idle"]
InFlight(c) == call[c].pc # "idle"
At(c, pc) == call[c].pc = pc
CallsOf(tab) == {c \in Requests : InFlight(c) /\ call[c].tab = tab}
Step(c, pc) == call' = [call EXCEPT ![c].pc = pc]
Close(c) == call' = [call EXCEPT ![c] = NoCall]

(* getStoredToken and getStoredRefreshToken: the direct keys, else the store's copy *)
StoredPair == IF stored # "none" THEN stored ELSE persisted

(* in reuse order: a call record is free once the server is done with it too      *)
Free(c) == ~InFlight(c) /\ Waiting(c, "idle")

-----------------------------------------------------------------------------------
(* Sending.  The request interceptor attaches the stored access token; nothing in  *)
(* the client looks at its expiry.                                                 *)
Send(c, tab, kind) ==
  /\ Free(c)
  /\ call' = [call EXCEPT ![c] = [pc |-> "sent", kind |-> kind, tab |-> tab,
                                  token |-> StoredPair, retried |-> FALSE,
                                  late |-> FALSE, requests |-> 1]]
  /\ UNCHANGED <<recordVars, stored, memory, ghosts>>

(* a page fetches or changes something                                             *)
CallApi(c, tab) == Send(c, tab, "api") /\ UNCHANGED persisted

(* The two forms that enter: the button is disabled while the call is under way;     *)
(* bound: nobody goes on to another form meanwhile.  clearError and isLoading are    *)
(* sets of the store: the tab's memory is persisted again, outdated or not.         *)
FormOpen(tab) == \A d \in CallsOf(tab) : call[d].kind \notin Entry \cup {"recover"}
SubmitForm(c, tab, kind) ==
  /\ FormOpen(tab)
  /\ Send(c, tab, kind)
  /\ persisted' = memory[tab]

SignIn(c, tab) == SubmitForm(c, tab, "login")
SignUp(c, tab) == SubmitForm(c, tab, "register")

(* forgot-password and reset-password call the API past the store                   *)
ForgotPasswordForm(c, tab) ==
  FormOpen(tab) /\ Send(c, tab, "recover") /\ UNCHANGED persisted
ResetPasswordForm(c, tab) ==
  FormOpen(tab) /\ Send(c, tab, "recover") /\ UNCHANGED persisted

(* logout() of the sidebar, the admin panel and the settings page                   *)
ClickLogout(c, tab) == Send(c, tab, "logout") /\ UNCHANGED persisted

-----------------------------------------------------------------------------------
(* The server's side of a call.                                                     *)

(* JwtAuthGuard lets an unexpired token pass, and any other call with a guard gets  *)
(* a 401                                                                            *)
ServeApi(c) ==
  /\ At(c, "sent") /\ call[c].kind = "api"
  /\ Step(c, IF call[c].token = "fresh" THEN "done" ELSE "unauthorized")
  /\ UNCHANGED <<recordVars, stored, persisted, memory, ghosts>>

(* the token is checked, and the slot cleared                                       *)
ServeLogout(c) ==
  /\ At(c, "sent") /\ call[c].kind = "logout"
  /\ call[c].token = "fresh"
  /\ Logout(c, Me)
  /\ Step(c, "done")
  /\ out' = TRUE
  /\ raced' = (raced \/ \E r \in Requests : Waiting(r, "issueTokens"))
  /\ settled' = FALSE
  /\ UNCHANGED <<stored, persisted, memory>>
RefuseLogout(c) ==
  /\ At(c, "sent") /\ call[c].kind = "logout"
  /\ call[c].token # "fresh"
  /\ Step(c, "unauthorized")
  /\ UNCHANGED <<recordVars, stored, persisted, memory, ghosts>>

(* an unknown address, a wrong password and a suspended account give a 401           *)
ServeLogin(c) ==
  /\ At(c, "sent") /\ call[c].kind = "login" /\ Waiting(c, "idle")
  /\ \/ Login(c, Me) /\ UNCHANGED call
     \/ Step(c, "unauthorized") /\ UNCHANGED recordVars
  /\ UNCHANGED <<stored, persisted, memory, ghosts>>

(* an address that is taken gives a 409                                              *)
ServeRegister(c) ==
  /\ At(c, "sent") /\ call[c].kind = "register" /\ Waiting(c, "idle")
  /\ \/ Register(c, Me) /\ UNCHANGED call
     \/ Exists(Me) /\ Step(c, "failed") /\ UNCHANGED recordVars
  /\ UNCHANGED <<stored, persisted, memory, ghosts>>

(* a link is mailed, or a new password set, or neither: no session feels it, see     *)
(* Accounts for the rest.  The endpoints have no guard and never give a 401.         *)
ServeRecover(c) ==
  /\ At(c, "sent") /\ call[c].kind = "recover"
  /\ Step(c, "done")
  /\ UNCHANGED <<recordVars, stored, persisted, memory, ghosts>>

(* of two registrations of the address one is refused, not with a 401                *)
ServeInsert(c) ==
  /\ InsertRow(c)
  /\ IF Exists(Me) /\ At(c, "sent") THEN Step(c, "failed") ELSE UNCHANGED call
  /\ UNCHANGED <<stored, persisted, memory, ghosts>>

(* the refresh call carries no access token; what it carries matches any stored     *)
(* hash of the account                                                              *)
ServeRefresh(c) ==
  /\ At(c, "refreshing") /\ Waiting(c, "idle")
  /\ \/ RefreshRead(c, Me) /\ UNCHANGED call
     \/ ~(user[Me].refresh /\ user[Me].status = "ACTIVE") /\ Step(c, "refused") /\ UNCHANGED recordVars
  /\ UNCHANGED <<stored, persisted, memory, ghosts>>

(* the pair is issued, and sent back unless the client has given up                 *)
ServeTokens(c) ==
  /\ IssueTokens(c)
  /\ call' = [d \in Requests |->
                IF d = c /\ (At(c, "sent") \/ At(c, "refreshing"))
                THEN [call[c] EXCEPT !.pc = IF task[c].entry THEN "done" ELSE "renewed",
                                     !.token = "fresh"]
                ELSE call[d]]
  /\ out' = (out /\ ~task[c].entry)
  /\ UNCHANGED <<stored, persisted, memory, raced, settled>>

-----------------------------------------------------------------------------------
(* The answer arrives.                                                              *)

Reload(tab, kept) ==
  /\ memory' = [memory EXCEPT ![tab] = kept]
  /\ call' = [c \in Requests |-> IF c \in CallsOf(tab) THEN NoCall ELSE call[c]]

(* mutation: the second try is refreshed like the first *)
StartRefreshAgain(c) ==
  /\ At(c, "unauthorized")
  /\ StoredPair # "none"
  /\ call' = [call EXCEPT ![c].pc = "refreshing", ![c].retried = TRUE, ![c].requests = @ + 1]
  /\ UNCHANGED <<recordVars, stored, persisted, memory, ghosts>>

(* The 401 of a first try: the stored refresh token is sent                         *)
StartRefresh(c) ==
  /\ At(c, "unauthorized") /\ ~call[c].retried
  /\ StoredPair # "none"
  /\ call' = [call EXCEPT ![c].pc = "refreshing", ![c].retried = TRUE, ![c].requests = @ + 1]
  /\ UNCHANGED <<recordVars, stored, persisted, memory, ghosts>>

(* There is none, or refreshing failed: everything stored is removed, and the tab    *)
(* goes to /sign-in by a page load.  The rejection still reaches the caller: after a *)
(* failed login the store is set once more, which persists the tab's memory.  A      *)
(* logout clears the memory first.                                                   *)
SignOut(c) ==
  /\ \/ At(c, "unauthorized") /\ ~call[c].retried /\ StoredPair = "none"
     \/ At(c, "refused")
  /\ stored' = "none"
  /\ persisted' = IF call[c].kind \in Entry THEN memory[call[c].tab] ELSE "none"
  /\ Reload(call[c].tab, persisted')
  /\ settled' = FALSE
  /\ UNCHANGED <<recordVars, out, raced>>

(* the new pair is stored, and the call goes out again with it.  The store of the    *)
(* tab and its persisted copy keep the old one.                                      *)
Retry(c) ==
  /\ At(c, "renewed")
  /\ stored' = call[c].token
  /\ call' = [call EXCEPT ![c].pc = "sent", ![c].requests = @ + 1]
  /\ UNCHANGED <<recordVars, persisted, memory, ghosts>>

(* any other end of a page's call, good or bad                                       *)
EndApi(c) ==
  /\ call[c].pc # "idle" /\ call[c].kind \in {"api", "recover"}
  /\ At(c, "done") \/ At(c, "failed") \/ (At(c, "unauthorized") /\ call[c].retried)
  /\ Close(c)
  /\ UNCHANGED <<recordVars, stored, persisted, memory, ghosts>>

(* signed in: both places are filled, and the calls of other tabs that are still      *)
(* under way belong to the time before                                               *)
EnterApp(c) ==
  /\ At(c, "done") /\ call[c].kind \in Entry
  /\ stored' = call[c].token
  /\ persisted' = call[c].token
  /\ memory' = [memory EXCEPT ![call[c].tab] = call[c].token]
  /\ call' = [d \in Requests |-> IF d = c \/ ~InFlight(d) THEN NoCall
                                 ELSE [call[d] EXCEPT !.late = TRUE]]
  /\ settled' = (user[Me].refresh /\ user[Me].status = "ACTIVE")
  /\ UNCHANGED <<recordVars, out, raced>>

(* the error is put in the store, which persists the tab's memory                    *)
FormFails(c) ==
  /\ call[c].pc # "idle" /\ call[c].kind \in Entry
  /\ At(c, "failed") \/ (At(c, "unauthorized") /\ call[c].retried)
  /\ persisted' = memory[call[c].tab]
  /\ Close(c)
  /\ UNCHANGED <<recordVars, stored, memory, ghosts>>

(* whatever became of the logout call, the tab forgets the session                   *)
EndLogout(c) ==
  /\ call[c].pc # "idle" /\ call[c].kind = "logout"
  /\ At(c, "done") \/ At(c, "failed") \/ (At(c, "unauthorized") /\ call[c].retried)
  /\ stored' = "none"
  /\ persisted' = "none"
  /\ Reload(call[c].tab, "none")
  /\ settled' = FALSE
  /\ UNCHANGED <<recordVars, out, raced>>

-----------------------------------------------------------------------------------
(* What else happens to the session.                                                 *)

(* the answer is lost, or takes longer than the client's 30 seconds: the interceptor  *)
(* rejects the call, and signs out when it was the refresh                            *)
Lost(c) ==
  /\ At(c, "sent") \/ At(c, "refreshing")
  /\ Step(c, IF At(c, "sent") THEN "failed" ELSE "refused")
  /\ settled' = (settled /\ At(c, "sent"))
  /\ UNCHANGED <<recordVars, stored, persisted, memory, out, raced>>

(* 15 minutes: every access token issued so far is expired                            *)
Age(pair) == IF pair = "fresh" THEN "stale" ELSE pair
TokensAge ==
  /\ AccessExpires(Me)
  /\ stored' = Age(stored)
  /\ persisted' = Age(persisted)
  /\ memory' = [tab \in Tabs |-> Age(memory[tab])]
  /\ call' = [c \in Requests |-> IF InFlight(c) THEN [call[c] EXCEPT !.token = Age(@)] ELSE NoCall]
  /\ UNCHANGED ghosts

(* an admin suspends the account; that it may be reinstated is left to Accounts       *)
Suspended ==
  /\ Exists(Me)
  /\ user[Me].status = "ACTIVE"
  /\ user' = [user EXCEPT ![Me].status = "SUSPENDED"]
  /\ settled' = FALSE
  /\ UNCHANGED <<live, uses, task, overtaken, browserVars, out, raced>>

-----------------------------------------------------------------------------------
SessionInit ==
  /\ user \in [Users -> {NoRow, NewRow("USER")}]
  /\ live = {} /\ uses = <<>> /\ overtaken = {}
  /\ task = [r \in Requests |-> Idle]
  /\ stored = "none" /\ persisted = "none"
  /\ memory = [tab \in Tabs |-> "none"]
  /\ call = [c \in Requests |-> NoCall]
  /\ out = FALSE /\ raced = FALSE /\ settled = FALSE

Serve(c) == \/ ServeApi(c) \/ ServeLogout(c) \/ RefuseLogout(c) \/ ServeLogin(c)
            \/ ServeRegister(c) \/ ServeRecover(c) \/ ServeInsert(c) \/ ServeRefresh(c) \/ ServeTokens(c)
Receive(c) == \/ StartRefresh(c) \/ SignOut(c) \/ Retry(c) \/ EndApi(c)
              \/ EnterApp(c) \/ FormFails(c) \/ EndLogout(c)

SessionNext ==
  \/ \E c \in Requests, tab \in Tabs :
        \/ CallApi(c, tab) \/ ClickLogout(c, tab)
        \/ SignIn(c, tab) \/ SignUp(c, tab)
        \/ ForgotPasswordForm(c, tab) \/ ResetPasswordForm(c, tab)
  \/ \E c \in Requests : Serve(c) \/ Receive(c) \/ Lost(c)
  \/ TokensAge \/ Suspended

SessionSpec == SessionInit /\ [][SessionNext]_sessionVars

-----------------------------------------------------------------------------------
SessionTypeOK ==
  /\ user \in [Users -> UserRow] /\ live \subseteq Users /\ task \in [Requests -> Task]
  /\ stored \in Pair /\ persisted \in Pair /\ memory \in [Tabs -> Pair]
  /\ call \in [Requests -> Call \cup {NoCall}]
  /\ {out, raced, settled} \subseteq BOOLEAN

(* Logging out is final on the server: until the owner signs in again no refresh      *)
(* token of the account is accepted, unless a refresh was past its reading when the   *)
(* logout cleared the slot, and set it again.                                         *)
LogoutHolds == out /\ ~raced => ~user[Me].refresh

(* A session survives its tabs: while nobody logs out, no answer is lost and the       *)
(* account stays active, parallel refreshes, wrong passwords and other tabs never      *)
(* send anyone to the sign-in page -- except a call older than the sign-in itself.     *)
KeptSignedIn ==
  [][\A c \in Requests : SignOut(c) /\ settled => call[c].late]_sessionVars

(* However often access tokens expire under it, a call never costs the server more than *)
(* three requests: the first try, one refresh, and the second try.                      *)
NoRefreshStorm == \A c \in Requests : InFlight(c) => call[c].requests <= 3

===================================================================================
