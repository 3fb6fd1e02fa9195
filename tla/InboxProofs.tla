-------------------------------- MODULE InboxProofs --------------------------------
(* Machine-checked proofs about Inbox, for any number of rows and messages, any      *)
(* length of the lists and any number of answers on their way.                      *)
EXTENDS Inbox, TLAPS

(* what is shown, or answered, was there and was read at some time *)
Past(shown) == \A i \in DOMAIN shown : i \in DOMAIN rows /\ (shown[i] = TRUE => rows[i] = TRUE)

IsCall(c) ==
  /\ DOMAIN c = {"fresh", "rows", "unread", "done"}
  /\ c.fresh \in BOOLEAN

(* One call at most may still change the list, and once it has read the rows it is   *)
(* not behind what is shown.                                                        *)
OneFresh == \A c, d \in asked : c.fresh /\ d.fresh => c = d

AheadOf(shown, c) ==
  \A i \in DOMAIN shown \cap DOMAIN c.rows : shown[i] = TRUE => c.rows[i] = TRUE

NoticesInv ==
  /\ rows \in Seq(BOOLEAN)
  /\ DOMAIN list = {"rows", "unread", "loading", "error"}
  /\ Past(list.rows)
  /\ \A c \in asked : IsCall(c) /\ Past(c.rows)
  /\ OneFresh
  /\ \A c \in asked : c.fresh /\ "rows" \in c.done => AheadOf(list.rows, c)

(* the list of a page that is not open, and the call it starts with *)
LEMMA Fresh ==
  /\ DOMAIN NoRows = {}
  /\ IsCall(Call) /\ Call.done = {} /\ Call.rows = NoRows
  /\ DOMAIN Blank = {"rows", "unread", "loading", "error"} /\ Blank.rows = NoRows
BY DEF NoRows, IsCall, Call, Blank

LEMMA NoticesInvInit ==
  ASSUME InboxInit
  PROVE  NoticesInv
BY Fresh DEF InboxInit, NoticesInv, Past, OneFresh, AheadOf

(* Cancelled calls change nothing, and the new one has not read yet.                *)
LEMMA Superseded ==
  ASSUME NoticesInv
  PROVE  \A c \in Supersede(asked) : IsCall(c) /\ ~c.fresh /\ Past(c.rows)
<1>1. ASSUME NEW c \in asked
      PROVE  LET d == [c EXCEPT !.fresh = FALSE]
             IN  IsCall(d) /\ ~d.fresh /\ d.rows = c.rows
  <2>1. IsCall(c) BY DEF NoticesInv
  <2> QED BY <2>1 DEF IsCall
<1> QED
  BY <1>1 DEF Supersede, NoticesInv, Past

LEMMA RefetchKeeps ==
  ASSUME NoticesInv, Refetch, UNCHANGED rows
  PROVE  NoticesInv'
<1>1. list'.rows = list.rows /\ DOMAIN list' = DOMAIN list
  <2>1. DOMAIN list = {"rows", "unread", "loading", "error"}
    BY DEF NoticesInv
  <2> QED BY <2>1 DEF Refetch
<1>2. asked' = Supersede(asked) \cup {Call}
  BY DEF Refetch
<1>3. OneFresh'
  BY <1>2, Superseded DEF OneFresh
<1>4. \A c \in asked' : /\ IsCall(c) /\ Past(c.rows)
                        /\ c.fresh => c.done = {}
  BY <1>2, Superseded, Fresh DEF Past
<1> QED
  BY <1>1, <1>3, <1>4 DEF NoticesInv, Past

(* the two queries of a call *)
LEMMA ReadKeeps ==
  ASSUME NoticesInv, NEW c \in asked, RowsRead(c)
  PROVE  NoticesInv'
<1> DEFINE d == [c EXCEPT !.rows = Newest, !.done = @ \cup {"rows"}]
<1>1. IsCall(d) /\ d.fresh = c.fresh /\ d.rows = Newest
  <2>1. IsCall(c) BY DEF NoticesInv
  <2> QED BY <2>1 DEF IsCall
<1>2. Past(Newest) /\ AheadOf(list.rows, d)
  BY <1>1 DEF Past, AheadOf, Newest, NoticesInv
<1>3. asked' = (asked \ {c}) \cup {d} /\ UNCHANGED <<rows, list>>
  BY DEF RowsRead
<1> HIDE DEF d
<1> QED
  BY <1>1, <1>2, <1>3 DEF NoticesInv, Past, OneFresh, AheadOf

LEMMA CountKeeps ==
  ASSUME NoticesInv, NEW c \in asked, UnreadCounted(c)
  PROVE  NoticesInv'
<1> DEFINE d == [c EXCEPT !.unread = Unread, !.done = @ \cup {"unread"}]
<1>1. /\ IsCall(d) /\ d.fresh = c.fresh /\ d.rows = c.rows
      /\ "rows" \in d.done => "rows" \in c.done
  <2>1. IsCall(c) BY DEF NoticesInv
  <2> QED BY <2>1 DEF IsCall
<1>2. asked' = (asked \ {c}) \cup {d} /\ UNCHANGED <<rows, list>>
  BY DEF UnreadCounted
<1> HIDE DEF d
<1> QED
  BY <1>1, <1>2 DEF NoticesInv, Past, OneFresh, AheadOf

(* the answer of the one call that counts *)
LEMMA AnsweredKeeps ==
  ASSUME NoticesInv, NEW c \in asked, Answered(c)
  PROVE  /\ NoticesInv'
         /\ AheadOf(list.rows, list')
<1>1. CASE c.fresh
  <2>1. list'.rows = c.rows /\ DOMAIN list' = {"rows", "unread", "loading", "error"}
    BY <1>1 DEF Answered
  <2>2. AheadOf(list.rows, c) /\ Past(c.rows)
    BY <1>1 DEF Answered, NoticesInv
  <2>3. \A d \in asked' : d \in asked /\ ~d.fresh
    BY <1>1 DEF Answered, NoticesInv, OneFresh, IsCall
  <2>4. UNCHANGED rows
    BY DEF Answered
  <2> QED
    BY <2>1, <2>2, <2>3, <2>4 DEF NoticesInv, Past, OneFresh, AheadOf
<1>2. CASE ~c.fresh
  <2>1. UNCHANGED <<rows, list>> /\ asked' = asked \ {c}
    BY <1>2 DEF Answered
  <2> QED
    BY <2>1 DEF NoticesInv, Past, OneFresh, AheadOf
<1> QED
  BY <1>1, <1>2

LEMMA FailsKeeps ==
  ASSUME NoticesInv, NEW c \in asked, CallFails(c)
  PROVE  NoticesInv' /\ list'.rows = list.rows
<1>1. list'.rows = list.rows /\ DOMAIN list' = DOMAIN list
  <2>1. DOMAIN list = {"rows", "unread", "loading", "error"}
    BY DEF NoticesInv
  <2> QED BY <2>1 DEF CallFails
<1>2. UNCHANGED rows /\ asked' = asked \ {c}
  BY DEF CallFails
<1> QED
  BY <1>1, <1>2 DEF NoticesInv, Past, OneFresh, AheadOf

(* the rows only grow, and what is read stays read in the table *)
LEMMA RowsGrow ==
  ASSUME NoticesInv, Marked \/ Arrives
  PROVE  NoticesInv' /\ UNCHANGED list
<1> DEFINE Grown == /\ rows' \in Seq(BOOLEAN)
                    /\ \A i \in DOMAIN rows : i \in DOMAIN rows' /\ (rows[i] = TRUE => rows'[i] = TRUE)
<1>0. rows \in Seq(BOOLEAN)
  BY DEF NoticesInv
<1>1. ASSUME Marked PROVE Grown
  <2>1. rows' = [i \in 1 .. Len(rows) |-> rows[i] \/ i \in patch.of]
    BY <1>0, <1>1 DEF Marked
  <2>2. \A i \in 1 .. Len(rows) : rows'[i] \in BOOLEAN
    BY <2>1, Zenon
  <2>3. \A i \in 1 .. Len(rows) : rows[i] = TRUE => rows'[i] = TRUE
    BY <2>1, Zenon
  <2>4. DOMAIN rows' = 1 .. Len(rows) /\ rows' = [i \in 1 .. Len(rows) |-> rows'[i]]
    BY <2>1
  <2> QED
    BY <1>0, <2>2, <2>3, <2>4
<1>2. ASSUME Arrives PROVE Grown
  BY <1>0, <1>2 DEF Arrives
<1>3. UNCHANGED <<list, asked>>
  BY DEF Marked, Arrives
<1> QED
  BY <1>1, <1>2, <1>3 DEF NoticesInv, Past, OneFresh, AheadOf

LEMMA OpenKeeps ==
  ASSUME NoticesInv, NEW p, Open(p)
  PROVE  NoticesInv' /\ DOMAIN list'.rows = {}
<1>1. DOMAIN list' = {"rows", "unread", "loading", "error"} /\ list'.rows = NoRows
  <2>1. DOMAIN Blank = {"rows", "unread", "loading", "error"} /\ Blank.rows = NoRows
    BY Fresh
  <2> QED
    BY <2>1 DEF Open
<1>2. asked' \in {{}, {Call}} /\ UNCHANGED rows
  BY DEF Open
<1> QED
  BY <1>1, <1>2, Fresh DEF NoticesInv, Past, OneFresh, AheadOf

(* Every step is one of these.                                                      *)
LEMMA InboxSteps ==
  ASSUME InboxNext
  PROVE  \/ \E p : Open(p)
         \/ \E c \in asked : RowsRead(c) \/ UnreadCounted(c) \/ Answered(c) \/ CallFails(c)
         \/ Refetch /\ UNCHANGED rows
         \/ Marked \/ Arrives
         \/ UNCHANGED <<rows, list, asked>>
BY DEF InboxNext, Refresh, MarkAllRead, MarkAnswered, MarkFails, MarkRead, FetchServed,
   FetchAnswered, FetchFails, Retry, Poll, PollAnswered, PollFails, Send, PostServed, PostAnswered,
   PostFails, PeerWrites, noticeVars

LEMMA NoticesInvStep ==
  ASSUME NoticesInv, [InboxNext]_inboxVars
  PROVE  NoticesInv' /\ AheadOf(list.rows, list')
<1>1. CASE UNCHANGED <<rows, list, asked>>
  BY <1>1 DEF NoticesInv, Past, OneFresh, AheadOf
<1>2. ASSUME NEW p, Open(p) PROVE NoticesInv' /\ AheadOf(list.rows, list')
  BY <1>2, OpenKeeps DEF AheadOf
<1>3. ASSUME NEW c \in asked, RowsRead(c) \/ UnreadCounted(c)
      PROVE  NoticesInv' /\ AheadOf(list.rows, list')
  BY <1>3, ReadKeeps, CountKeeps DEF AheadOf, RowsRead, UnreadCounted
<1>4. ASSUME NEW c \in asked, Answered(c) \/ CallFails(c)
      PROVE  NoticesInv' /\ AheadOf(list.rows, list')
  BY <1>4, AnsweredKeeps, FailsKeeps DEF AheadOf
<1>5. CASE Refetch /\ UNCHANGED rows
  <2>1. list'.rows = list.rows
    BY <1>5 DEF Refetch, NoticesInv
  <2> QED
    BY <1>5, <2>1, RefetchKeeps DEF AheadOf
<1>6. CASE Marked \/ Arrives
  BY <1>6, RowsGrow DEF AheadOf
<1>7. CASE UNCHANGED inboxVars
  BY <1>7, <1>1 DEF inboxVars
<1> QED
  BY <1>1, <1>2, <1>3, <1>4, <1>5, <1>6, <1>7, InboxSteps

(* ReadStaysRead: whatever order the answers of useNotifications come in, and        *)
(* whatever is marked meanwhile, no notification on the page turns unread again.    *)
THEOREM ReadForGood == InboxSpec => ReadStaysRead
<1>1. InboxInit => NoticesInv
  BY NoticesInvInit
<1>2. NoticesInv /\ [InboxNext]_inboxVars => NoticesInv'
  BY NoticesInvStep
<1>3. NoticesInv /\ [InboxNext]_inboxVars
        => [\A i \in DOMAIN list.rows \cap DOMAIN list'.rows :
              list.rows[i] => list'.rows[i]]_inboxVars
  <2>1. AheadOf(list.rows, list') => \A i \in DOMAIN list.rows \cap DOMAIN list'.rows :
                                        list.rows[i] => list'.rows[i]
    BY DEF AheadOf
  <2> QED
    BY <2>1, NoticesInvStep
<1> QED
  BY <1>1, <1>2, <1>3, PTL DEF InboxSpec, ReadStaysRead

-----------------------------------------------------------------------------------
(* The thread: answers on their way know no message that is not written, and the     *)
(* one being sent is shown only while its call is under way.                        *)
InThread == 1 .. Len(thread)

ThreadTyped ==
  /\ thread \in Seq({"me", "peer"})
  /\ DOMAIN chat = {"status", "msgs", "latest", "sending", "raced"}
  /\ chat.sending \in BOOLEAN
  /\ fetch.at = "served" => fetch.n \in 0 .. Len(thread)
  /\ polls \subseteq 0 .. Len(thread)
  /\ post.at = "served" => post.n \in InThread

NothingAhead ==
  /\ chat.msgs \subseteq InThread \cup {Temp}
  /\ Temp \in chat.msgs => chat.sending
  /\ chat.status # "success" => chat.msgs = {}

ThreadInv == ThreadTyped /\ NothingAhead

LEMMA CallParts ==
  /\ NoCall.at = "none" /\ Sent.at = "sent"
  /\ \A n : Served(n).at = "served" /\ Served(n).n = n
BY DEF NoCall, Sent, Served

LEMMA ListedBelow ==
  ASSUME NEW n \in 0 .. Len(thread), thread \in Seq({"me", "peer"})
  PROVE  Listed(n) \subseteq InThread
BY ListLimits DEF Listed, LastListed, InThread

LEMMA ThreadInvInit ==
  ASSUME InboxInit
  PROVE  ThreadInv
BY CallParts DEF InboxInit, ThreadInv, ThreadTyped, NothingAhead, InThread, Silent

(* the fields of the state after a change of the list, loaded or not *)
LEMMA DispatchParts ==
  ASSUME ThreadInv, NEW msgs
  PROVE  LET d == Dispatch(chat, msgs) IN
         /\ DOMAIN d = {"status", "msgs", "latest", "sending", "raced"}
         /\ d.status = chat.status /\ d.sending = chat.sending
         /\ d.msgs = IF chat.status = "success" THEN msgs ELSE chat.msgs
<1>1. DOMAIN chat = {"status", "msgs", "latest", "sending", "raced"}
  BY DEF ThreadInv, ThreadTyped
<1> QED
  BY <1>1 DEF Dispatch

(* the steps that write to the thread: what was there stays *)
LEMMA ThreadGrows ==
  ASSUME ThreadInv, NEW m \in {"me", "peer"}, thread' = Append(thread, m),
         UNCHANGED <<chat, fetch, polls>>,
         UNCHANGED post \/ post' = Served(Len(thread'))
  PROVE  ThreadInv'
<1>1. thread' \in Seq({"me", "peer"}) /\ Len(thread') = Len(thread) + 1 /\ Len(thread) \in Nat
  BY DEF ThreadInv, ThreadTyped
<1> QED
  BY <1>1, CallParts DEF ThreadInv, ThreadTyped, NothingAhead, InThread, Temp

(* the answers to the list calls *)
LEMMA ListKeeps ==
  ASSUME ThreadInv,
         FetchServed \/ FetchAnswered \/ FetchFails \/ Retry \/ Poll
           \/ \E n \in polls : PollAnswered(n) \/ PollFails(n)
  PROVE  ThreadInv'
<1> USE CallParts DEF ThreadInv, InThread
<1>0. DOMAIN chat = {"status", "msgs", "latest", "sending", "raced"} /\ Len(thread) \in Nat
  BY DEF ThreadTyped
<1>1. CASE FetchServed
  BY <1>0, <1>1 DEF FetchServed, ThreadTyped, NothingAhead
<1>2. CASE FetchAnswered
  <2>1. /\ DOMAIN chat' = DOMAIN chat /\ chat'.sending = chat.sending
        /\ chat'.status = "success" /\ chat'.msgs = Listed(fetch.n)
    BY <1>0, <1>2 DEF FetchAnswered
  <2>2. Listed(fetch.n) \subseteq InThread
    BY <1>2, ListedBelow DEF FetchAnswered, ThreadTyped
  <2> QED
    BY <1>0, <1>2, <2>1, <2>2 DEF FetchAnswered, ThreadTyped, NothingAhead, Temp
<1>3. CASE FetchFails
  <2>1. DOMAIN chat' = DOMAIN chat /\ chat'.sending = chat.sending /\ chat'.msgs = {}
    BY <1>0, <1>3 DEF FetchFails
  <2> QED
    BY <1>0, <1>3, <2>1 DEF FetchFails, ThreadTyped, NothingAhead
<1>4. CASE Retry
  <2>1. /\ DOMAIN chat' = DOMAIN chat /\ chat'.sending = chat.sending
        /\ chat'.msgs = chat.msgs /\ chat.status = "error"
    BY <1>0, <1>4 DEF Retry
  <2> QED
    BY <1>0, <1>4, <2>1 DEF Retry, ThreadTyped, NothingAhead
<1>5. CASE Poll
  <2>1. polls' = polls \cup {Len(thread)} /\ UNCHANGED <<thread, chat, fetch, post>>
    BY <1>5 DEF Poll
  <2>2. polls' \subseteq 0 .. Len(thread)
    <3>1. polls \subseteq 0 .. Len(thread)
      BY DEF ThreadTyped
    <3>2. Len(thread) \in 0 .. Len(thread)
      BY <1>0
    <3> QED
      BY <2>1, <3>1, <3>2
  <2> QED
    BY <2>1, <2>2 DEF ThreadTyped, NothingAhead
<1>6. ASSUME NEW n \in polls, PollAnswered(n) PROVE ThreadInv'
  <2> DEFINE d == Dispatch(chat, chat.msgs \cup Listed(n))
  <2>1. /\ DOMAIN d = {"status", "msgs", "latest", "sending", "raced"}
        /\ d.status = chat.status /\ d.sending = chat.sending
        /\ d.msgs = IF chat.status = "success" THEN chat.msgs \cup Listed(n) ELSE chat.msgs
    BY DispatchParts
  <2>2. chat' = chat \/ chat' = [d EXCEPT !.latest = LastListed(n), !.raced = @ \/ chat.status # "success"]
    BY <1>6 DEF PollAnswered
  <2> HIDE DEF d
  <2>3. /\ DOMAIN chat' = DOMAIN chat /\ chat'.status = chat.status /\ chat'.sending = chat.sending
        /\ chat'.msgs = chat.msgs \/ (chat.status = "success" /\ chat'.msgs = chat.msgs \cup Listed(n))
    BY <1>0, <2>1, <2>2
  <2>4. Listed(n) \subseteq InThread
    BY <1>6, ListedBelow DEF ThreadTyped
  <2>5. polls' \subseteq polls /\ UNCHANGED <<thread, fetch, post>>
    BY <1>6 DEF PollAnswered
  <2>6. chat'.msgs \subseteq InThread \cup {Temp} /\ (Temp \in chat'.msgs => Temp \in chat.msgs)
    BY <1>0, <2>3, <2>4 DEF NothingAhead, Temp
  <2>7. ThreadTyped'
    BY <1>0, <2>3, <2>5 DEF ThreadTyped
  <2> QED
    BY <2>3, <2>5, <2>6, <2>7 DEF NothingAhead
<1>7. ASSUME NEW n \in polls, PollFails(n) PROVE ThreadInv'
  BY <1>0, <1>7 DEF PollFails, ThreadTyped, NothingAhead
<1> QED
  BY <1>1, <1>2, <1>3, <1>4, <1>5, <1>6, <1>7

(* my message: shown at once, replaced or removed when its call ends *)
LEMMA PostKeeps ==
  ASSUME ThreadInv, Send \/ PostAnswered \/ PostFails
  PROVE  ThreadInv'
<1> USE CallParts DEF ThreadInv, InThread
<1>0. DOMAIN chat = {"status", "msgs", "latest", "sending", "raced"} /\ Len(thread) \in Nat
  BY DEF ThreadTyped
<1>1. CASE Send
  <2> DEFINE d == Dispatch(chat, chat.msgs \cup {Temp})
  <2>1. /\ DOMAIN d = {"status", "msgs", "latest", "sending", "raced"}
        /\ d.status = chat.status
        /\ d.msgs = IF chat.status = "success" THEN chat.msgs \cup {Temp} ELSE chat.msgs
    BY DispatchParts
  <2>2. chat' = [d EXCEPT !.sending = TRUE, !.raced = TRUE]
    BY <1>1 DEF Send
  <2> HIDE DEF d
  <2>3. /\ DOMAIN chat' = DOMAIN chat /\ chat'.status = chat.status /\ chat'.sending = TRUE
        /\ chat'.msgs = IF chat.status = "success" THEN chat.msgs \cup {Temp} ELSE chat.msgs
    BY <1>0, <2>1, <2>2
  <2> QED
    BY <1>0, <1>1, <2>3 DEF Send, ThreadTyped, NothingAhead
<1>2. CASE PostAnswered
  <2> DEFINE replaced == {IF m = Temp THEN post.n ELSE m : m \in chat.msgs}
             d == Dispatch(chat, replaced)
  <2>1. /\ DOMAIN d = {"status", "msgs", "latest", "sending", "raced"}
        /\ d.status = chat.status
        /\ d.msgs = IF chat.status = "success" THEN replaced ELSE chat.msgs
    BY DispatchParts
  <2>2. chat' = [d EXCEPT !.sending = FALSE, !.latest = post.n]
    BY <1>2 DEF PostAnswered
  <2>3. replaced \subseteq InThread
    BY <1>2 DEF PostAnswered, ThreadTyped, NothingAhead, Temp
  <2> HIDE DEF d, replaced
  <2>4. /\ DOMAIN chat' = DOMAIN chat /\ chat'.status = chat.status /\ chat'.sending = FALSE
        /\ chat'.msgs = IF chat.status = "success" THEN replaced ELSE chat.msgs
    BY <1>0, <2>1, <2>2
  <2>5. UNCHANGED <<thread, fetch, polls>> /\ post' = NoCall
    BY <1>2 DEF PostAnswered
  <2>6. chat'.msgs \subseteq InThread \/ (chat.status # "success" /\ chat'.msgs = {})
    BY <2>3, <2>4 DEF NothingAhead
  <2>7. ThreadTyped'
    BY <1>0, <2>4, <2>5 DEF ThreadTyped
  <2> QED
    BY <2>4, <2>5, <2>6, <2>7 DEF NothingAhead, Temp
<1>3. CASE PostFails
  <2> DEFINE d == Dispatch(chat, chat.msgs \ {Temp})
  <2>1. /\ DOMAIN d = {"status", "msgs", "latest", "sending", "raced"}
        /\ d.status = chat.status
        /\ d.msgs = IF chat.status = "success" THEN chat.msgs \ {Temp} ELSE chat.msgs
    BY DispatchParts
  <2>2. chat' = [d EXCEPT !.sending = FALSE]
    BY <1>3 DEF PostFails
  <2> HIDE DEF d
  <2>3. /\ DOMAIN chat' = DOMAIN chat /\ chat'.status = chat.status /\ chat'.sending = FALSE
        /\ chat'.msgs = IF chat.status = "success" THEN chat.msgs \ {Temp} ELSE chat.msgs
    BY <1>0, <2>1, <2>2
  <2> QED
    BY <1>0, <1>3, <2>3 DEF PostFails, ThreadTyped, NothingAhead
<1> QED
  BY <1>1, <1>2, <1>3

(* another page: what was on its way is forgotten, or written without the page *)
LEMMA LeaveKeeps ==
  ASSUME ThreadInv, NEW p, Open(p)
  PROVE  ThreadInv'
<1>1. /\ DOMAIN chat' = {"status", "msgs", "latest", "sending", "raced"}
      /\ chat'.sending = FALSE /\ chat'.msgs = {}
  BY DEF Open, Silent
<1>2. fetch' \in {Sent, NoCall} /\ polls' = {} /\ post' = NoCall
  BY DEF Open
<1>3. thread' = thread \/ thread' = Append(thread, "me")
  BY DEF Open
<1>4. thread' \in Seq({"me", "peer"})
  BY <1>3 DEF ThreadInv, ThreadTyped
<1> QED
  BY <1>1, <1>2, <1>4, CallParts DEF ThreadInv, ThreadTyped, NothingAhead

(* every step, as far as the thread goes *)
LEMMA ThreadSteps ==
  ASSUME [InboxNext]_inboxVars
  PROVE  \/ UNCHANGED chatVars \/ UNCHANGED inboxVars \/ PostServed \/ PeerWrites
         \/ FetchServed \/ FetchAnswered \/ FetchFails \/ Retry \/ Poll
         \/ \E n \in polls : PollAnswered(n) \/ PollFails(n)
         \/ Send \/ PostAnswered \/ PostFails
         \/ \E p : Open(p)
BY DEF InboxNext, RowsRead, UnreadCounted, Answered, CallFails, Refresh, MarkRead, MarkAllRead,
     Marked, MarkAnswered, MarkFails, Arrives

LEMMA ThreadInvStep ==
  ASSUME ThreadInv, [InboxNext]_inboxVars
  PROVE  ThreadInv'
<1>1. CASE UNCHANGED chatVars
  BY <1>1 DEF chatVars, ThreadInv, ThreadTyped, NothingAhead, InThread
<1>2. CASE PostServed \/ PeerWrites
  BY <1>2, ThreadGrows DEF PostServed, PeerWrites
<1>3. CASE UNCHANGED inboxVars
  BY <1>1, <1>3 DEF inboxVars, chatVars
<1> QED
  BY <1>1, <1>2, <1>3, ThreadSteps, ListKeeps, PostKeeps, LeaveKeeps

(* NothingInvented: useMessages shows no message that is not in the database, but    *)
(* the one being sent, through polls that overtake each other and calls that fail.   *)
THEOREM OnlyWhatIsWritten == InboxSpec => []NothingInvented
<1>1. ThreadInv => NothingInvented
  BY DEF ThreadInv, NothingAhead, NothingInvented, Shown, InThread
<1> QED
  BY <1>1, ThreadInvInit, ThreadInvStep, PTL DEF InboxSpec

-----------------------------------------------------------------------------------
(* What is remembered as the last message stands for all before it: whoever only     *)
(* reads along misses none of them.                                                 *)
KeptUp ==
  /\ chat.latest \in Nat
  /\ fetch # NoCall => chat.status = "loading"
  /\ post # NoCall => chat.raced = TRUE
  /\ chat.raced # TRUE =>
       IF chat.status = "success" THEN 1 .. chat.latest \subseteq chat.msgs ELSE chat.latest = 0

LEMMA KeptUpInit ==
  ASSUME InboxInit
  PROVE  KeptUp
BY DEF InboxInit, KeptUp, Silent

LEMMA LastListedNat == \A n \in Nat : LastListed(n) \in Nat /\ (n > 0 \/ LastListed(n) = 0)
BY ListLimits DEF LastListed

LEMMA LoadKeepsUp ==
  ASSUME ThreadInv, KeptUp, FetchServed \/ FetchAnswered \/ FetchFails \/ Retry \/ Poll
  PROVE  KeptUp'
<1> USE CallParts DEF KeptUp
<1>0. /\ DOMAIN chat = {"status", "msgs", "latest", "sending", "raced"}
      /\ fetch.at = "served" => fetch.n \in Nat
  BY DEF ThreadInv, ThreadTyped
<1>1. CASE FetchServed
  BY <1>1 DEF FetchServed
<1>2. CASE FetchAnswered
  <2>1. /\ fetch.n \in Nat /\ fetch' = NoCall /\ post' = post /\ fetch # NoCall
        /\ chat'.status = "success" /\ chat'.msgs = Listed(fetch.n) /\ chat'.raced = chat.raced
        /\ chat'.latest = IF fetch.n > 0 THEN LastListed(fetch.n) ELSE chat.latest
    BY <1>0, <1>2 DEF FetchAnswered
  <2>2. chat'.latest \in Nat
    BY <2>1, LastListedNat
  <2>3. chat.raced # TRUE => 1 .. chat'.latest \subseteq chat'.msgs
    <3>1. CASE fetch.n > 0
      BY <2>1, <3>1 DEF Listed
    <3>2. CASE ~(fetch.n > 0)
      BY <2>1, <3>2
    <3> QED
      BY <3>1, <3>2
  <2> QED
    BY <2>1, <2>2, <2>3
<1>3. CASE FetchFails
  <2>1. /\ fetch' = NoCall /\ post' = post /\ fetch # NoCall
        /\ chat'.status = "error" /\ chat'.latest = chat.latest /\ chat'.raced = chat.raced
    BY <1>0, <1>3 DEF FetchFails
  <2> QED
    BY <2>1
<1>4. CASE Retry
  <2>1. /\ post' = post /\ chat.status = "error"
        /\ chat'.status = "loading" /\ chat'.latest = chat.latest /\ chat'.raced = chat.raced
    BY <1>0, <1>4 DEF Retry
  <2> QED
    BY <2>1
<1>5. CASE Poll
  BY <1>5 DEF Poll
<1> QED
  BY <1>1, <1>2, <1>3, <1>4, <1>5

LEMMA PollKeepsUp ==
  ASSUME ThreadInv, KeptUp, NEW n \in polls, PollAnswered(n) \/ PollFails(n)
  PROVE  KeptUp'
<1> USE CallParts DEF KeptUp
<1>1. CASE UNCHANGED <<chat, fetch, post>>
  BY <1>1
<1>2. CASE ~UNCHANGED <<chat, fetch, post>>
  <2> DEFINE d == Dispatch(chat, chat.msgs \cup Listed(n))
  <2>0. n \in Nat
    BY DEF ThreadInv, ThreadTyped
  <2>1. /\ DOMAIN d = {"status", "msgs", "latest", "sending", "raced"}
        /\ d.status = chat.status /\ d.raced = chat.raced
        /\ d.msgs = IF chat.status = "success" THEN chat.msgs \cup Listed(n) ELSE chat.msgs
    <3>1. d.raced = chat.raced
      BY DEF Dispatch, ThreadInv, ThreadTyped
    <3> QED
      BY <3>1, DispatchParts
  <2>2. /\ chat' = [d EXCEPT !.latest = LastListed(n), !.raced = @ \/ chat.status # "success"]
        /\ UNCHANGED <<fetch, post>>
    BY <1>2 DEF PollAnswered, PollFails
  <2> HIDE DEF d
  <2>3. /\ chat'.status = chat.status /\ chat'.msgs = d.msgs /\ chat'.latest = LastListed(n)
        /\ chat'.raced = (chat.raced \/ chat.status # "success")
    BY <2>1, <2>2
  <2>4. chat.raced = TRUE \/ chat.status # "success" => chat'.raced = TRUE
    BY <2>3
  <2>5. chat.raced # TRUE /\ chat.status = "success" => Listed(n) \subseteq chat'.msgs
    BY <2>1, <2>3
  <2> QED
    BY <2>0, <2>2, <2>3, <2>4, <2>5, LastListedNat DEF Listed
<1> QED
  BY <1>1, <1>2

LEMMA WritingKeepsUp ==
  ASSUME ThreadInv, KeptUp, Send \/ PostServed \/ PostAnswered \/ PostFails \/ PeerWrites
  PROVE  KeptUp'
<1> USE CallParts DEF KeptUp
<1>0. /\ DOMAIN chat = {"status", "msgs", "latest", "sending", "raced"}
      /\ post.at = "served" => post.n \in Nat
  BY DEF ThreadInv, ThreadTyped, InThread
<1>1. CASE PostServed \/ PeerWrites
  BY <1>1 DEF PostServed, PeerWrites
<1>2. ASSUME NEW msgs, NEW d, d = Dispatch(chat, msgs)
      PROVE  /\ DOMAIN d = {"status", "msgs", "latest", "sending", "raced"}
             /\ d.status = chat.status /\ d.raced = chat.raced /\ d.latest = chat.latest
  BY <1>0, <1>2 DEF Dispatch
<1>3. CASE Send
  <2> DEFINE d == Dispatch(chat, chat.msgs \cup {Temp})
  <2>1. chat' = [d EXCEPT !.sending = TRUE, !.raced = TRUE] /\ UNCHANGED fetch
    BY <1>3 DEF Send
  <2>2. /\ DOMAIN d = {"status", "msgs", "latest", "sending", "raced"}
        /\ d.status = chat.status /\ d.latest = chat.latest
    BY <1>2
  <2> HIDE DEF d
  <2>3. chat'.raced = TRUE /\ chat'.status = chat.status /\ chat'.latest = chat.latest
    BY <2>1, <2>2
  <2> QED
    BY <2>1, <2>3
<1>4. CASE PostAnswered
  <2> DEFINE d == Dispatch(chat, {IF m = Temp THEN post.n ELSE m : m \in chat.msgs})
  <2>1. /\ chat' = [d EXCEPT !.sending = FALSE, !.latest = post.n] /\ UNCHANGED fetch
        /\ post' = NoCall /\ post # NoCall /\ post.n \in Nat
    BY <1>0, <1>4 DEF PostAnswered
  <2>2. /\ DOMAIN d = {"status", "msgs", "latest", "sending", "raced"}
        /\ d.status = chat.status /\ d.raced = chat.raced
    BY <1>2
  <2> HIDE DEF d
  <2>3. chat'.raced = chat.raced /\ chat'.status = chat.status /\ chat'.latest = post.n
    BY <2>1, <2>2
  <2> QED
    BY <2>1, <2>3
<1>5. CASE PostFails
  <2> DEFINE d == Dispatch(chat, chat.msgs \ {Temp})
  <2>1. /\ chat' = [d EXCEPT !.sending = FALSE] /\ UNCHANGED fetch
        /\ post' = NoCall /\ post # NoCall
    BY <1>5 DEF PostFails
  <2>2. /\ DOMAIN d = {"status", "msgs", "latest", "sending", "raced"}
        /\ d.status = chat.status /\ d.raced = chat.raced /\ d.latest = chat.latest
    BY <1>2
  <2> HIDE DEF d
  <2>3. chat'.raced = chat.raced /\ chat'.status = chat.status /\ chat'.latest = chat.latest
    BY <2>1, <2>2
  <2> QED
    BY <2>1, <2>3
<1> QED
  BY <1>1, <1>3, <1>4, <1>5

LEMMA KeptUpStep ==
  ASSUME ThreadInv, KeptUp, [InboxNext]_inboxVars
  PROVE  KeptUp'
<1>1. CASE UNCHANGED chatVars
  BY <1>1 DEF chatVars, KeptUp
<1>2. CASE UNCHANGED inboxVars
  BY <1>1, <1>2 DEF inboxVars, chatVars
<1>3. ASSUME NEW p, Open(p) PROVE KeptUp'
  <2>1. /\ chat'.latest = 0 /\ chat'.raced = FALSE /\ chat'.status # "success" /\ post' = NoCall
        /\ fetch' # NoCall => chat'.status = "loading"
    BY <1>3 DEF Open, Silent
  <2> QED
    BY <2>1 DEF KeptUp
<1> QED
  BY <1>1, <1>2, <1>3, ThreadSteps, LoadKeepsUp, PollKeepsUp, WritingKeepsUp

(* The safety half of HeardWhileListening: as long as neither race of useMessages    *)
(* has happened, the thread shows every message up to the one it remembers, so that   *)
(* the next poll that finds a later one brings all there is between.                 *)
THEOREM NoneSkipped ==
  InboxSpec => [](chat.status = "success" /\ chat.raced # TRUE => 1 .. chat.latest \subseteq Shown)
<1>1. KeptUp => (chat.status = "success" /\ chat.raced # TRUE => 1 .. chat.latest \subseteq Shown)
  BY DEF KeptUp, Shown
<1>2. InboxInit => ThreadInv /\ KeptUp
  BY ThreadInvInit, KeptUpInit
<1>3. ThreadInv /\ KeptUp /\ [InboxNext]_inboxVars => (ThreadInv /\ KeptUp)'
  BY ThreadInvStep, KeptUpStep
<1> QED
  BY <1>1, <1>2, <1>3, PTL DEF InboxSpec
===================================================================================
