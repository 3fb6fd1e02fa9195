---------------------------------- MODULE Inbox ----------------------------------
(* What one person reads: the notifications page (useNotifications over          *)
(* GET /notifications) and the message thread of an order (useMessages over      *)
(* /orders/:id/messages), of which a tab shows one at a time.  The header of a   *)
(* page keeps the notifications in a hook of its own with the same code.         *)
EXTENDS Naturals, Sequences, FiniteSets

CONSTANTS PageLimit,     \* notifications the page asks for (50; the header 5)
          ThreadLimit,   \* messages a list call returns (50)
          MaxRows, MaxMessages,   \* bounds: what comes in and what is written
          MaxCalls       \* bound: answers on their way at a time, of one kind

ASSUME ListLimits == PageLimit \in Nat /\ ThreadLimit \in Nat

VARIABLES
  rows,     \* my notifications by createdAt: TRUE once read
  thread,   \* the messages by createdAt: "me" or "peer"
  page,     \* "notices", "thread" or elsewhere
  list,     \* the hook of the notifications page
  asked,    \* its GET calls, the cancelled ones included
  patch,    \* its PATCH call
  chat,     \* the state of useMessages; raced: history, see HeardWhileListening
  fetch,    \* the list call of the thread's first load or of Try Again
  polls,    \* the list calls of the poll
  post      \* the call that sends my message

noticeVars == <<rows, list, asked, patch>>
chatVars == <<thread, chat, fetch, polls, post>>
inboxVars == <<rows, thread, page, list, asked, patch, chat, fetch, polls, post>>

-----------------------------------------------------------------------------------
(* GET /notifications: the newest, and the number of unread ones.  findAll runs  *)
(* its queries side by side, without a transaction.                              *)
Unread == Cardinality({i \in DOMAIN rows : ~rows[i]})
Newest == [i \in {j \in DOMAIN rows : j > Len(rows) - PageLimit} |-> rows[i]]

NoRows == [i \in {} |-> FALSE]
Call == [fresh |-> TRUE, rows |-> NoRows, unread |-> 0, done |-> {}]

(* mutation: the effect is left without setting the cancelled flag *)
SupersedeNot(calls) == calls

(* the cleanup of the effect sets 'cancelled', so that the answer changes nothing *)
Supersede(calls) == {[c EXCEPT !.fresh = FALSE] : c \in calls}

NoPatch == [of |-> {}, done |-> FALSE]

Refetch ==
  /\ Cardinality(asked) < MaxCalls
  /\ asked' = Supersede(asked) \cup {Call}
  /\ list' = [list EXCEPT !.loading = TRUE, !.error = FALSE]

RowsRead(c) ==
  /\ c \in asked /\ "rows" \notin c.done
  /\ asked' = (asked \ {c}) \cup {[c EXCEPT !.rows = Newest, !.done = @ \cup {"rows"}]}
  /\ UNCHANGED <<rows, list, patch, page, chatVars>>

UnreadCounted(c) ==
  /\ c \in asked /\ "unread" \notin c.done
  /\ asked' = (asked \ {c}) \cup {[c EXCEPT !.unread = Unread, !.done = @ \cup {"unread"}]}
  /\ UNCHANGED <<rows, list, patch, page, chatVars>>

Answered(c) ==
  /\ c \in asked /\ c.done = {"rows", "unread"}
  /\ asked' = asked \ {c}
  /\ list' = IF c.fresh
             THEN [rows |-> c.rows, unread |-> c.unread, loading |-> FALSE, error |-> FALSE]
             ELSE list
  /\ UNCHANGED <<rows, patch, page, chatVars>>

CallFails(c) ==
  /\ c \in asked
  /\ asked' = asked \ {c}
  /\ list' = IF c.fresh THEN [list EXCEPT !.loading = FALSE, !.error = TRUE] ELSE list
  /\ UNCHANGED <<rows, patch, page, chatVars>>

(* the Refresh button of the page, and Try Again after an error *)
Refresh ==
  /\ page = "notices"
  /\ Refetch
  /\ UNCHANGED <<rows, patch, page, chatVars>>

(* a click on an unread notification, which is shown once the list is loaded, or *)
(* Mark all read, offered while the badge counts any; bound: one click at a time *)
MarkRead(i) ==
  /\ page = "notices" /\ patch = NoPatch
  /\ ~list.loading /\ ~list.error
  /\ i \in DOMAIN list.rows /\ ~list.rows[i]
  /\ patch' = [of |-> {i}, done |-> FALSE]
  /\ UNCHANGED <<rows, list, asked, page, chatVars>>

MarkAllRead ==
  /\ page = "notices" /\ patch = NoPatch
  /\ list.unread > 0
  /\ patch' = [of |-> 1 .. MaxRows, done |-> FALSE]
  /\ UNCHANGED <<rows, list, asked, page, chatVars>>

(* the update of markRead, or updateMany of markAllRead for what is there by then *)
Marked ==
  /\ patch # NoPatch /\ ~patch.done
  /\ rows' = [i \in DOMAIN rows |-> rows[i] \/ i \in patch.of]
  /\ patch' = [patch EXCEPT !.done = TRUE]
  /\ UNCHANGED <<list, asked, page, chatVars>>

MarkAnswered ==
  /\ patch # NoPatch /\ patch.done
  /\ patch' = NoPatch
  /\ IF page = "notices" THEN Refetch ELSE UNCHANGED <<list, asked>>
  /\ UNCHANGED <<rows, page, chatVars>>

(* nobody catches the rejection: the list stays as it is *)
MarkFails ==
  /\ patch # NoPatch
  /\ patch' = NoPatch
  /\ UNCHANGED <<rows, list, asked, page, chatVars>>

(* NotificationsService.create for this user *)
Arrives ==
  /\ Len(rows) < MaxRows
  /\ rows' = Append(rows, FALSE)
  /\ UNCHANGED <<list, asked, patch, page, chatVars>>

-----------------------------------------------------------------------------------
(* The thread.  Messages are the positions of the thread; 0 is the optimistic    *)
(* one, of which there is at most one since send() returns while it is sending.  *)
(* What is shown is the set of them: a poll appends in the order of the answer,  *)
(* and no property here is about order or about a message that is shown twice.   *)
Temp == 0

(* list(): orderBy createdAt asc, take limit: the oldest messages, not the newest *)
LastListed(n) == IF n < ThreadLimit THEN n ELSE ThreadLimit
Listed(n) == 1 .. LastListed(n)

Shown == IF chat.status = "success" THEN chat.msgs ELSE {}

(* the reducer ignores every change of the list unless the list is loaded *)
Dispatch(state, msgs) == IF state.status = "success" THEN [state EXCEPT !.msgs = msgs] ELSE state

(* A call of the thread: on its way, then served, with the number of messages    *)
(* there were or, for my own, its place among them.                              *)
NoCall == [at |-> "none", n |-> 0]
Sent == [at |-> "sent", n |-> 0]
Served(n) == [at |-> "served", n |-> n]

FetchServed ==
  /\ fetch = Sent
  /\ fetch' = Served(Len(thread))
  /\ UNCHANGED <<page, noticeVars, thread, chat, polls, post>>

FetchAnswered ==
  /\ fetch.at = "served"
  /\ fetch' = NoCall
  /\ chat' = [chat EXCEPT !.status = "success", !.msgs = Listed(fetch.n),
                          !.latest = IF fetch.n > 0 THEN LastListed(fetch.n) ELSE @]
  /\ UNCHANGED <<page, noticeVars, thread, polls, post>>

FetchFails ==
  /\ fetch # NoCall
  /\ fetch' = NoCall
  /\ chat' = [chat EXCEPT !.status = "error", !.msgs = {}]
  /\ UNCHANGED <<page, noticeVars, thread, polls, post>>

(* Try Again *)
Retry ==
  /\ page = "thread" /\ chat.status = "error"
  /\ chat' = [chat EXCEPT !.status = "loading"]
  /\ fetch' = Sent
  /\ UNCHANGED <<page, noticeVars, thread, polls, post>>

(* the timer does not wait for the answer of the last poll *)
Poll ==
  /\ page = "thread"
  /\ Cardinality(polls) < MaxCalls
  /\ polls' = polls \cup {Len(thread)}
  /\ UNCHANGED <<page, noticeVars, thread, chat, fetch, post>>

(* mutation: what is new is counted from the last answer, not compared *)
PollAnsweredLonger(n) ==
  /\ n \in polls
  /\ polls' = polls \ {n}
  /\ chat' = IF n > chat.latest + 1
             THEN [Dispatch(chat, chat.msgs \cup Listed(n))
                     EXCEPT !.latest = LastListed(n), !.raced = @ \/ chat.status # "success"]
             ELSE chat
  /\ UNCHANGED <<page, noticeVars, thread, fetch, post>>

(* The last message of the answer is compared with the one remembered, and what  *)
(* is not shown yet is appended.  A poll that fails is ignored.                  *)
PollAnswered(n) ==
  /\ n \in polls
  /\ polls' = polls \ {n}
  /\ chat' = IF n > 0 /\ LastListed(n) # chat.latest
             THEN [Dispatch(chat, chat.msgs \cup Listed(n))
                     EXCEPT !.latest = LastListed(n), !.raced = @ \/ chat.status # "success"]
             ELSE chat
  /\ UNCHANGED <<page, noticeVars, thread, fetch, post>>

PollFails(n) ==
  /\ n \in polls
  /\ polls' = polls \ {n}
  /\ UNCHANGED <<page, noticeVars, thread, chat, fetch, post>>

(* Enter or the button, whatever the state of the list *)
Send ==
  /\ page = "thread" /\ ~chat.sending
  /\ Len(thread) < MaxMessages
  /\ chat' = [Dispatch(chat, chat.msgs \cup {Temp}) EXCEPT !.sending = TRUE, !.raced = TRUE]
  /\ post' = Sent
  /\ UNCHANGED <<page, noticeVars, thread, fetch, polls>>

PostServed ==
  /\ post = Sent /\ Len(thread) < MaxMessages
  /\ thread' = Append(thread, "me")
  /\ post' = Served(Len(thread'))
  /\ UNCHANGED <<page, noticeVars, chat, fetch, polls>>

(* REPLACE_OPTIMISTIC, whether or not a poll has brought the message already *)
PostAnswered ==
  /\ post.at = "served"
  /\ post' = NoCall
  /\ chat' = [Dispatch(chat, {IF m = Temp THEN post.n ELSE m : m \in chat.msgs})
                EXCEPT !.sending = FALSE, !.latest = post.n]
  /\ UNCHANGED <<page, noticeVars, thread, fetch, polls>>

(* mutation: the optimistic message stays when the call fails *)
PostFailsKept ==
  /\ post # NoCall
  /\ post' = NoCall
  /\ chat' = [chat EXCEPT !.sending = FALSE]
  /\ UNCHANGED <<page, noticeVars, thread, fetch, polls>>

(* REMOVE_OPTIMISTIC: refused, or written and the answer lost *)
PostFails ==
  /\ post # NoCall
  /\ post' = NoCall
  /\ chat' = [Dispatch(chat, chat.msgs \ {Temp}) EXCEPT !.sending = FALSE]
  /\ UNCHANGED <<page, noticeVars, thread, fetch, polls>>

PeerWrites ==
  /\ Len(thread) < MaxMessages
  /\ thread' = Append(thread, "peer")
  /\ UNCHANGED <<page, noticeVars, chat, fetch, polls, post>>

-----------------------------------------------------------------------------------
Blank == [rows |-> NoRows, unread |-> 0, loading |-> FALSE, error |-> FALSE]
Silent == [status |-> "idle", msgs |-> {}, latest |-> 0, sending |-> FALSE, raced |-> FALSE]

(* Another page: the hooks of the old one are gone, with everything they waited  *)
(* for; what they have sent goes on at the server.                               *)
Open(p) ==
  /\ page # p
  /\ page' = p
  /\ asked' = IF p = "notices" THEN {Call} ELSE {}
  /\ list' = IF p = "notices" THEN [Blank EXCEPT !.loading = TRUE] ELSE Blank
  /\ chat' = IF p = "thread" THEN [Silent EXCEPT !.status = "loading"] ELSE Silent
  /\ fetch' = IF p = "thread" THEN Sent ELSE NoCall
  /\ polls' = {}
  /\ post' = NoCall
  /\ thread' \in {thread} \cup (IF post = Sent /\ Len(thread) < MaxMessages
                               THEN {Append(thread, "me")} ELSE {})
  /\ UNCHANGED <<rows, patch>>

InboxInit ==
  /\ rows = <<>> /\ thread = <<>>
  /\ page = "elsewhere"
  /\ list = Blank /\ asked = {} /\ patch = NoPatch
  /\ chat = Silent /\ fetch = NoCall /\ polls = {} /\ post = NoCall

InboxNext ==
  \/ \E p \in {"notices", "thread", "elsewhere"} : Open(p)
  \/ \E c \in asked : RowsRead(c) \/ UnreadCounted(c) \/ Answered(c) \/ CallFails(c)
  \/ Refresh \/ MarkAllRead \/ Marked \/ MarkAnswered \/ MarkFails \/ Arrives
  \/ \E i \in DOMAIN rows : MarkRead(i)
  \/ FetchServed \/ FetchAnswered \/ FetchFails \/ Retry \/ Poll
  \/ \E n \in polls : PollAnswered(n) \/ PollFails(n)
  \/ Send \/ PostServed \/ PostAnswered \/ PostFails \/ PeerWrites

(* The timer runs, and a poll that is sent again and again is answered sometime. *)
InboxFairness ==
  /\ WF_inboxVars(Poll) /\ WF_inboxVars(FetchServed) /\ WF_inboxVars(FetchAnswered)
  /\ \A n \in 0 .. MaxMessages : SF_inboxVars(PollAnswered(n))

InboxSpec == InboxInit /\ [][InboxNext]_inboxVars /\ InboxFairness

-----------------------------------------------------------------------------------
(* A notification shown as read never turns unread again on the same page,       *)
(* however the answers overtake each other and the marks.                        *)
ReadStaysRead ==
  [][\A i \in DOMAIN list.rows \cap DOMAIN list'.rows : list.rows[i] => list'.rows[i]]_inboxVars

(* The thread shows nothing that is not in the database, except the message      *)
(* being sent, and that one only until its call ends.                            *)
NothingInvented ==
  Shown \subseteq (1 .. Len(thread)) \cup (IF chat.sending THEN {Temp} ELSE {})

(* Whoever only reads along gets every message the call returns, by the first    *)
(* load or a poll, unless the load failed.  Two races are exempt (raced), since   *)
(* both leave the remembered message ahead of the list: writing, when the answer *)
(* to my message comes before the poll that has a message written just before    *)
(* it, and a poll that is answered while the first load is still on its way.      *)
HeardWhileListening ==
  \A k \in 1 .. ThreadLimit :
    (page = "thread" /\ k <= Len(thread))
      ~> (k \in Shown \/ chat.status = "error" \/ chat.raced \/ page # "thread")

==================================================================================
