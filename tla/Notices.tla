--------------------------------- MODULE Notices ---------------------------------
(* What the parties of one order are told: the events the services emit, the     *)
(* listeners of notifications.service.ts that turn them into rows and mails, and *)
(* the queue that delivers the mails.  The order is reduced to what they say of  *)
(* it.  A handler reads the order, checks what it read, and writes the order by  *)
(* its id later, over whatever was written since.                                *)
EXTENDS OrderStateMachine, Naturals, Sequences, FiniteSets

CONSTANTS MaxTries,    \* attempts of a mail job (3 in email.service.ts)
          MaxListeners, MaxMails   \* bounds: listeners at work and mails queued when
                                   \* a service goes on to emit

VARIABLES
  order,      \* status, escrow column, whether it has a hold row and an account of the buyer
  past,       \* what the order was before each write: handlers at work may have read it
  dispute,    \* its dispute row: "none", "open" or "resolved"
  happened,   \* history: the statuses and movements of money that were committed
  tx,         \* the transaction of holdFunds or refundFunds that has emitted already
  running,    \* what the listener of each event has still to do
  rows,       \* the notification table: who has been told what
  mails,      \* the jobs of the mail queue
  gap         \* "money": a movement was told that did not take place; "untold": a
              \* listener or a mail left somebody without a message; "overtaken": the
              \* order was written by a handler that had read an older one, or by
              \* polling, which reads none; "linkedLate": such a write linked the buyer

orderVars == <<order, past, dispute, happened>>
noticeVars == <<orderVars, tx, running, rows, mails, gap>>

Party == {"SELLER", "BUYER"}

(* the events somebody listens to; 'dispute.raised' and 'dispute.resolved', the  *)
(* names disputes.service.ts emits, are not among them (DISPUTE_OPENED is        *)
(* 'notification.dispute.opened'), and nobody emits ORDER_CREATED                *)
Event == {"ORDER_SENT_TO_BUYER", "ORDER_CONFIRMED", "ORDER_PAID", "ORDER_SHIPPED",
          "ORDER_PICKED_UP", "ORDER_DELIVERED", "ORDER_COMPLETED", "ORDER_CANCELLED",
          "ORDER_DISPUTED", "ESCROW_RELEASED", "ESCROW_REFUNDED"}

(* a step of a listener: a row for one party, or a mail to one *)
Note(p, t) == [do |-> "note", to |-> p, what |-> t]
Mail(p, t) == [do |-> "mail", to |-> p, what |-> t]
IfLinked(linked, steps) == IF linked THEN steps ELSE <<>>

(* the listeners, each with the payload's buyerId as it was at the emission *)
Listener(e, linked) ==
  CASE e = "ORDER_SENT_TO_BUYER" ->
         IfLinked(linked, <<Note("BUYER", "ORDER_SENT_TO_BUYER")>>)
           \o <<Mail("BUYER", "confirmRequest")>>
    [] e = "ORDER_CONFIRMED" ->
         <<Note("SELLER", "ORDER_CONFIRMED_BUYER")>>
           \o IfLinked(linked, <<Mail("BUYER", "confirmed")>>)
    [] e = "ORDER_PAID" ->
         <<Note("SELLER", "ESCROW_FUNDED")>>
           \o IfLinked(linked, <<Note("BUYER", "PAYMENT_SUCCESS")>>)
           \o <<Mail("SELLER", "shipNow")>> \o IfLinked(linked, <<Mail("BUYER", "paid")>>)
    [] e = "ORDER_DELIVERED" ->
         IfLinked(linked, <<Note("BUYER", "ORDER_DELIVERED"), Mail("BUYER", "delivered")>>)
    [] e = "ORDER_CANCELLED" ->
         <<Note("SELLER", "ORDER_CANCELLED")>>
           \o IfLinked(linked, <<Note("BUYER", "ORDER_CANCELLED")>>)
    [] e = "ESCROW_RELEASED" ->
         <<Note("SELLER", "ESCROW_RELEASED"), Mail("SELLER", "released")>>
    [] e \in {"ORDER_COMPLETED", "ORDER_DISPUTED"} -> <<Note("SELLER", e)>>
    [] e \in {"ORDER_SHIPPED", "ORDER_PICKED_UP", "ESCROW_REFUNDED"} ->
         IfLinked(linked, <<Note("BUYER", e)>>)

(* emit() starts the listeners and does not wait for them; bounds: an event is   *)
(* not emitted again before its last listener has ended, nor a further one while *)
(* MaxListeners are at work or MaxMails wait                                     *)
Emit(events, linked) ==
  /\ \A e \in events : running[e] = <<>>
  /\ Cardinality({e \in Event : running[e] # <<>>}) < MaxListeners
  /\ Cardinality(mails) < MaxMails
  /\ running' = [e \in Event |-> IF e \in events THEN Listener(e, linked) ELSE running[e]]
  /\ UNCHANGED <<rows, mails>>

-----------------------------------------------------------------------------------
(* The services, each with what it checks on the order it has read, its write,    *)
(* and the events that go with it.                                                *)

(* the order as handlers at work may have read it: the last one is on time *)
Readings == Append(past, order)
Now == Len(past) + 1
Overtaken(i) == IF i < Now THEN {"overtaken"} ELSE {}

(* A write waits for a transaction that holds the row.  Bound: once a write was    *)
(* overtaken, the others of the behaviour are on time.                            *)
WriteRow(new, facts, excuse) ==
  /\ order' = new
  /\ happened' = happened \cup {new.status} \cup facts
  /\ gap' = gap \cup excuse
  /\ past' = IF "overtaken" \in gap' THEN <<>>
             ELSE IF new = order THEN past ELSE Readings

Write(new, facts, excuse) == tx = "none" /\ WriteRow(new, facts, excuse)

(* the rows the handlers write, over whatever else the order is by then *)
Moved(to) == [order EXCEPT !.status = to]
Confirmed == [order EXCEPT !.status = "AWAITING_PAYMENT", !.buyer = TRUE]
Funded == [order EXCEPT !.status = "PAID", !.escrow = "HOLDING", !.held = TRUE]
Released == [order EXCEPT !.status = "COMPLETED", !.escrow = "RELEASED"]
Refunded == [order EXCEPT !.status = "REFUNDED", !.escrow = "REFUNDED"]
Disputed == [order EXCEPT !.status = "DISPUTED", !.escrow = "DISPUTED"]

(* confirmByBuyer links the account that confirms *)
ConfirmByBuyer(i) ==
  /\ Readings[i].status = "PENDING_BUYER"
  /\ Write(Confirmed, {}, IF i < Now THEN {"overtaken", "linkedLate"} ELSE {})
  /\ Emit({"ORDER_CONFIRMED"}, TRUE)
  /\ UNCHANGED <<dispute, tx>>

(* mutation: the event is emitted whether the order could be funded or not *)
ChargeSucceedsAnyOrder ==
  /\ tx = "none" /\ "AWAITING_PAYMENT" \in happened /\ ~order.held
  /\ IF order.status \in {"AWAITING_PAYMENT", "PAID"} THEN Write(Funded, {"HOLD"}, {})
                                                     ELSE UNCHANGED <<order, past, happened, gap>>
  /\ Emit({"ORDER_PAID"}, order.buyer)
  /\ UNCHANGED <<dispute, tx>>

(* charge.success checks and writes in one serializable transaction, and emits    *)
(* after it                                                                       *)
ChargeSucceeds ==
  /\ "AWAITING_PAYMENT" \in happened
  /\ ~order.held /\ order.escrow = "PENDING" /\ order.status \in {"AWAITING_PAYMENT", "PAID"}
  /\ Write(Funded, {"HOLD"}, {})
  /\ Emit({"ORDER_PAID"}, order.buyer)
  /\ UNCHANGED <<dispute, tx>>

(* verifyByReference, for a payment begun while the order awaited it, reads no     *)
(* order: it writes PAID over any status, and tells nobody                        *)
VerifyByReference ==
  /\ "AWAITING_PAYMENT" \in happened
  /\ LET onTime == order.status \in {"AWAITING_PAYMENT", "PAID"}
     IN  /\ onTime \/ "overtaken" \notin gap   \* bound, as in Write
         /\ Write(Moved("PAID"), {}, IF onTime THEN {} ELSE {"overtaken"})
  /\ UNCHANGED <<dispute, tx, running, rows, mails>>

(* holdFunds (POST /escrow/hold) and refundFunds emit as the last statement of   *)
(* their transactions, before the commit ...                                     *)
BeginInTransaction(i, kind, event) ==
  /\ tx = "none"
  /\ tx' = kind
  /\ Emit({event}, Readings[i].buyer)
  /\ gap' = gap \cup Overtaken(i)
  /\ past' = IF i < Now THEN <<>> ELSE past
  /\ UNCHANGED <<order, dispute, happened>>

HoldFunds(i) ==
  /\ Readings[i].status = "AWAITING_PAYMENT" /\ ~Readings[i].held
  /\ BeginInTransaction(i, "hold", "ORDER_PAID")

RefundFunds(i) ==
  /\ Readings[i].status = "DISPUTED" /\ Readings[i].escrow \notin {"REFUNDED", "RELEASED"}
  /\ order.held
  /\ BeginInTransaction(i, "refund", "ESCROW_REFUNDED")

(* ... which may still fail *)
EndTransaction ==
  /\ tx # "none"
  /\ tx' = "none"
  /\ \/ tx = "hold" /\ WriteRow(Funded, {"HOLD"}, {})
     \/ tx = "refund" /\ WriteRow(Refunded, {"REFUND"}, {})
     \/ gap' = gap \cup {"money"} /\ UNCHANGED <<order, past, happened>>
  /\ UNCHANGED <<dispute, running, rows, mails>>

(* releaseFunds: by the auto-release job, or for a buyer or an admin.  The job    *)
(* runs in the worker process, which has the listeners as well.                   *)
Releasable(read) ==
  read.status \in {"DELIVERED", "COMPLETED"} /\ read.escrow \in {"PENDING", "HOLDING"} /\ order.held

ReleaseFunds(i) ==
  /\ Releasable(Readings[i])
  /\ Write(Released, {"RELEASE"}, Overtaken(i))
  /\ Emit({"ESCROW_RELEASED"}, Readings[i].buyer)
  /\ UNCHANGED <<dispute, tx>>

(* mutation: the delivery is missing in the map *)
EventMapUndelivered(to) ==
  CASE to = "AWAITING_PAYMENT" -> {"ORDER_CONFIRMED"}
    [] to = "PAID"             -> {"ORDER_PAID"}
    [] to = "SHIPPED"          -> {"ORDER_SHIPPED"}
    [] to = "IN_TRANSIT"       -> {"ORDER_PICKED_UP"}
    [] to = "CANCELLED"        -> {"ORDER_CANCELLED"}
    [] to = "DISPUTED"         -> {"ORDER_DISPUTED"}
    [] OTHER                   -> {}

EVENT_MAP(to) ==
  CASE to = "AWAITING_PAYMENT" -> {"ORDER_CONFIRMED"}
    [] to = "PAID"             -> {"ORDER_PAID"}
    [] to = "SHIPPED"          -> {"ORDER_SHIPPED"}
    [] to = "IN_TRANSIT"       -> {"ORDER_PICKED_UP"}
    [] to = "DELIVERED"        -> {"ORDER_DELIVERED"}
    [] to = "CANCELLED"        -> {"ORDER_CANCELLED"}
    [] to = "DISPUTED"         -> {"ORDER_DISPUTED"}
    [] OTHER                   -> {}

(* updateStatus.  Completing an order whose money is held is left to releaseFunds, *)
(* which reads the order again (i) after updateStatus has read it (first).         *)
UpdateStatusCompletes(first, i) ==
  /\ first <= i
  /\ OnTable(Readings[first].status, "COMPLETED") /\ Readings[first].escrow = "HOLDING"
  /\ Releasable(Readings[i])
  /\ Write(Released, {"RELEASE"}, Overtaken(i))
  /\ Emit({"ESCROW_RELEASED", "ORDER_COMPLETED"}, order.buyer)
  /\ UNCHANGED <<dispute, tx>>

(* any other status is written as it is; PAID, and COMPLETED without a release, say *)
(* that money moved                                                               *)
UpdateStatus(i, to) ==
  /\ OnTable(Readings[i].status, to)
  /\ to = "COMPLETED" => Readings[i].escrow # "HOLDING"
  /\ Write(Moved(to), {},
           Overtaken(i) \cup (IF to \in {"PAID", "COMPLETED"} THEN {"money"} ELSE {}))
  /\ Emit(IF to = "COMPLETED" THEN {"ORDER_COMPLETED"} ELSE EVENT_MAP(to), order.buyer)
  /\ UNCHANGED <<dispute, tx>>

(* disputes.service.ts: raise and resolve emit names nobody listens to; each looks *)
(* at the dispute row again in its transaction                                     *)
RaiseDispute(i) ==
  /\ Readings[i].status = "DELIVERED" /\ Readings[i].buyer /\ dispute = "none"
  /\ Write(Disputed, {}, Overtaken(i))
  /\ dispute' = "open"
  /\ UNCHANGED <<tx, running, rows, mails>>

ResolveDispute(i) ==
  /\ Readings[i].status = "DISPUTED" /\ dispute = "open"
  /\ Write(Refunded, {"REFUND"}, Overtaken(i)) \/ Write(Released, {"RELEASE"}, Overtaken(i))
  /\ dispute' = "resolved"
  /\ UNCHANGED <<tx, running, rows, mails>>

-----------------------------------------------------------------------------------
(* The listeners at work, one awaited call at a time.                            *)

Rest(e) == [running EXCEPT ![e] = Tail(@)]
Drop(e) == [running EXCEPT ![e] = <<>>]

(* sendBuyerConfirmationEmail looks at the order again *)
StillMeant(step) == step.what = "confirmRequest" => order.status = "PENDING_BUYER"

QueueEmail(step) == mails' = mails \cup {[to |-> step.to, what |-> step.what, tries |-> 0]}

ListenerStep(e) ==
  /\ running[e] # <<>>
  /\ LET step == Head(running[e]) IN
     \/ /\ step.do = "note"
        /\ rows' = rows \cup {[to |-> step.to, type |-> step.what]}
        /\ mails' = mails
     \/ /\ step.do = "mail"
        /\ IF StillMeant(step) THEN QueueEmail(step) ELSE mails' = mails
        /\ rows' = rows
  /\ running' = Rest(e)
  /\ UNCHANGED <<orderVars, tx, gap>>

(* the insert or the queue throws: the event module logs it, the rest is not done; *)
(* bound: one listener or process of a behaviour fails                             *)
ListenerThrows(e) ==
  /\ running[e] # <<>> /\ "untold" \notin gap
  /\ running' = Drop(e)
  /\ gap' = gap \cup {"untold"}
  /\ UNCHANGED <<orderVars, tx, rows, mails>>

(* the process dies with what its listeners had left, with its transaction, and, if *)
(* it is the only one, with its handlers                                           *)
ProcessDies ==
  /\ (\E e \in Event : running[e] # <<>>) /\ "untold" \notin gap
  /\ running' = [e \in Event |-> <<>>]
  /\ tx' = "none"
  /\ gap' = gap \cup {"untold"} \cup (IF tx = "none" THEN {} ELSE {"money"})
  /\ past' \in {past, <<>>}
  /\ UNCHANGED <<order, dispute, happened, rows, mails>>

(* EmailProcessor: sendNow, and a throw if it returned false, so that BullMQ tries *)
(* again after a pause until the attempts are used up                             *)
SendNow(m) ==
  /\ m \in mails
  /\ \/ mails' = mails \ {m} /\ gap' = gap
     \/ /\ m.tries + 1 < MaxTries
        /\ mails' = (mails \ {m}) \cup {[m EXCEPT !.tries = @ + 1]}
        /\ gap' = gap
     \/ m.tries + 1 = MaxTries /\ mails' = mails \ {m} /\ gap' = gap \cup {"untold"}
  /\ UNCHANGED <<orderVars, tx, running, rows>>

-----------------------------------------------------------------------------------
(* an order just created, for a buyer with or without an account *)
NoticesInit ==
  /\ order \in [status : {"PENDING_BUYER"}, escrow : {"PENDING"}, buyer : BOOLEAN, held : {FALSE}]
  /\ past = <<>> /\ dispute = "none"
  /\ happened = {"PENDING_BUYER"}
  /\ tx = "none"
  /\ running = [e \in Event |->
                  IF e = "ORDER_SENT_TO_BUYER" THEN Listener(e, order.buyer) ELSE <<>>]
  /\ rows = {}
  /\ mails = {}
  /\ gap = {}

NoticesNext ==
  \/ \E i \in 1 .. Now :
       \/ ConfirmByBuyer(i) \/ HoldFunds(i) \/ RefundFunds(i) \/ ReleaseFunds(i)
       \/ RaiseDispute(i) \/ ResolveDispute(i)
       \/ \E first \in 1 .. Now : UpdateStatusCompletes(first, i)
       \/ \E to \in OrderStatus : UpdateStatus(i, to)
  \/ ChargeSucceeds \/ VerifyByReference \/ EndTransaction
  \/ \E e \in Event : ListenerStep(e) \/ ListenerThrows(e)
  \/ ProcessDies
  \/ \E m \in mails : SendNow(m)

(* the event loop goes on with every awaited call, and the worker takes every job, *)
(* however many are queued after it                                               *)
NoticesFairness ==
  /\ \A e \in Event : WF_noticeVars(ListenerStep(e))
  /\ \A w \in {"confirmRequest", "confirmed", "paid", "shipNow", "delivered", "released"} :
       WF_noticeVars(\E m \in mails : m.what = w /\ SendNow(m))

NoticesSpec == NoticesInit /\ [][NoticesNext]_noticeVars /\ NoticesFairness

-----------------------------------------------------------------------------------
(* what a notification says has happened; the others ask for something *)
Fact == [ORDER_CONFIRMED_BUYER |-> "AWAITING_PAYMENT", ORDER_SHIPPED |-> "SHIPPED",
         ORDER_PICKED_UP |-> "IN_TRANSIT", ORDER_DELIVERED |-> "DELIVERED",
         ORDER_CANCELLED |-> "CANCELLED", ORDER_DISPUTED |-> "DISPUTED",
         ESCROW_FUNDED |-> "HOLD", PAYMENT_SUCCESS |-> "HOLD",
         ORDER_COMPLETED |-> "RELEASE",    \* 'Order completed - funds released'
         ESCROW_RELEASED |-> "RELEASE", ESCROW_REFUNDED |-> "REFUND"]

(* Nobody reads of a step of the order, or of its money, that has not been       *)
(* committed: notices come from events, and events after the commit.  Two kinds  *)
(* are exempt, with the reason kept in gap: a status an admin sets by hand, which *)
(* says that money moved, and an event emitted by a transaction that is still    *)
(* open or has failed since.                                                     *)
ToldWhatHappened ==
  \A n \in rows :
    n.type \in DOMAIN Fact =>
      \/ Fact[n.type] \in happened
      \/ Fact[n.type] \in {"HOLD", "RELEASE", "REFUND"} /\ (tx # "none" \/ "money" \in gap)

(* A buyer who has an account on the order is told of its delivery, in the app   *)
(* and by a mail that has left the queue, and so is asked to confirm or to       *)
(* dispute before the auto-release: unless a listener, a process or every        *)
(* attempt of the mail failed, or a confirmation overtaken by other writes       *)
(* linked the account.                                                           *)
DeliveryIsTold ==
  ("DELIVERED" \in happened /\ order.buyer)
    ~> \/ gap \cap {"untold", "linkedLate"} # {}
       \/ /\ [to |-> "BUYER", type |-> "ORDER_DELIVERED"] \in rows
          /\ running["ORDER_DELIVERED"] = <<>>
          /\ \A m \in mails : m.what # "delivered"

==================================================================================
