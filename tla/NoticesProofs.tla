------------------------------- MODULE NoticesProofs -------------------------------
(* Machine-checked proofs about Notices, for every bound on attempts and listeners. *)
EXTENDS Notices, SequenceTheorems, TLAPS

(* what each event stands for *)
EventFact ==
  [ORDER_SENT_TO_BUYER |-> "PENDING_BUYER", ORDER_CONFIRMED |-> "AWAITING_PAYMENT",
   ORDER_PAID |-> "HOLD", ORDER_SHIPPED |-> "SHIPPED", ORDER_PICKED_UP |-> "IN_TRANSIT",
   ORDER_DELIVERED |-> "DELIVERED", ORDER_COMPLETED |-> "RELEASE",
   ORDER_CANCELLED |-> "CANCELLED", ORDER_DISPUTED |-> "DISPUTED",
   ESCROW_RELEASED |-> "RELEASE", ESCROW_REFUNDED |-> "REFUND"]

Money == {"HOLD", "RELEASE", "REFUND"}

(* A fact is known once it is committed, while the transaction that emitted early is *)
(* open, or if it is money and the reason it may be missing is on record.           *)
Known(f) ==
  \/ f \in happened
  \/ f = "HOLD" /\ tx = "hold"
  \/ f = "REFUND" /\ tx = "refund"
  \/ f \in Money /\ "money" \in gap

Words == DOMAIN Fact \cup {"ORDER_SENT_TO_BUYER", "confirmRequest", "confirmed", "shipNow", "paid",
                            "delivered", "released"}
Step == [do : {"note", "mail"}, to : Party, what : Words]
Says(what, f) == what \in DOMAIN Fact => Fact[what] = f
AllSay(steps, f) ==
  /\ steps \in Seq(Step)
  /\ \A i \in 1 .. Len(steps) : steps[i].do = "note" => Says(steps[i].what, f)

(* A listener says nothing but what its event stands for.                           *)
LEMMA OneStep ==
  ASSUME NEW p \in Party, NEW t \in Words, NEW f
  PROVE  /\ AllSay(<<Mail(p, t)>>, f)
         /\ Says(t, f) => AllSay(<<Note(p, t)>>, f)
         /\ AllSay(<<>>, f)
<1>1. Mail(p, t) \in Step /\ Note(p, t) \in Step /\ Mail(p, t).do = "mail" /\ Note(p, t).what = t
  BY DEF Mail, Note, Step
<1> QED
  BY <1>1 DEF AllSay

LEMMA Joined ==
  ASSUME NEW f, NEW s, NEW t, AllSay(s, f), AllSay(t, f)
  PROVE  AllSay(s \o t, f)
BY DEF AllSay

LEMMA Linked ==
  ASSUME NEW f, NEW s, NEW linked, AllSay(s, f)
  PROVE  AllSay(IfLinked(linked, s), f)
BY DEF AllSay, IfLinked

LEMMA ListenerSays ==
  ASSUME NEW e \in Event, NEW linked
  PROVE  AllSay(Listener(e, linked), EventFact[e])
<1>0. /\ {"ORDER_SENT_TO_BUYER", "confirmRequest", "confirmed", "shipNow", "paid", "delivered",
          "released"} \subseteq Words
      /\ {"ORDER_CONFIRMED_BUYER", "ESCROW_FUNDED", "PAYMENT_SUCCESS", "ORDER_DELIVERED",
          "ORDER_CANCELLED", "ESCROW_RELEASED"} \subseteq Words
      /\ Party = {"SELLER", "BUYER"}
  BY DEF Words, Fact, Party
<1>1. CASE e = "ORDER_SENT_TO_BUYER"
  <2>1. Says("ORDER_SENT_TO_BUYER", EventFact[e]) BY DEF Says, Fact
  <2>2. AllSay(<<Note("BUYER", "ORDER_SENT_TO_BUYER")>>, EventFact[e]) BY <1>0, <2>1, OneStep
  <2>3. AllSay(<<Mail("BUYER", "confirmRequest")>>, EventFact[e]) BY <1>0, OneStep
  <2>4. Listener(e, linked) = IfLinked(linked, <<Note("BUYER", "ORDER_SENT_TO_BUYER")>>)
                                \o <<Mail("BUYER", "confirmRequest")>>
    BY <1>1 DEF Listener
  <2> QED BY <2>2, <2>3, <2>4, Joined, Linked
<1>2. CASE e = "ORDER_CONFIRMED"
  <2>1. Says("ORDER_CONFIRMED_BUYER", EventFact[e]) BY <1>2 DEF Says, Fact, EventFact
  <2>2. AllSay(<<Note("SELLER", "ORDER_CONFIRMED_BUYER")>>, EventFact[e]) BY <1>0, <2>1, OneStep
  <2>3. AllSay(<<Mail("BUYER", "confirmed")>>, EventFact[e]) BY <1>0, OneStep
  <2>4. Listener(e, linked) = <<Note("SELLER", "ORDER_CONFIRMED_BUYER")>>
                                \o IfLinked(linked, <<Mail("BUYER", "confirmed")>>)
    BY <1>2 DEF Listener
  <2> QED BY <2>2, <2>3, <2>4, Joined, Linked
<1>3. CASE e = "ORDER_PAID"
  <2>1. Says("ESCROW_FUNDED", EventFact[e]) /\ Says("PAYMENT_SUCCESS", EventFact[e])
    BY <1>3 DEF Says, Fact, EventFact
  <2>2. AllSay(<<Note("SELLER", "ESCROW_FUNDED")>>, EventFact[e]) BY <1>0, <2>1, OneStep
  <2>3. AllSay(<<Note("BUYER", "PAYMENT_SUCCESS")>>, EventFact[e]) BY <1>0, <2>1, OneStep
  <2>4. AllSay(<<Mail("SELLER", "shipNow")>>, EventFact[e]) BY <1>0, OneStep
  <2>5. AllSay(<<Mail("BUYER", "paid")>>, EventFact[e]) BY <1>0, OneStep
  <2>6. Listener(e, linked) = <<Note("SELLER", "ESCROW_FUNDED")>>
                        \o IfLinked(linked, <<Note("BUYER", "PAYMENT_SUCCESS")>>)
                        \o <<Mail("SELLER", "shipNow")>> \o IfLinked(linked, <<Mail("BUYER", "paid")>>)
    BY <1>3 DEF Listener
  <2> QED BY <2>2, <2>3, <2>4, <2>5, <2>6, Joined, Linked
<1>4. CASE e = "ORDER_DELIVERED"
  <2>1. Says("ORDER_DELIVERED", EventFact[e]) BY <1>4 DEF Says, Fact, EventFact
  <2>2. AllSay(<<Note("BUYER", "ORDER_DELIVERED")>>, EventFact[e]) BY <1>0, <2>1, OneStep
  <2>3. AllSay(<<Mail("BUYER", "delivered")>>, EventFact[e]) BY <1>0, OneStep
  <2>4. <<Note("BUYER", "ORDER_DELIVERED"), Mail("BUYER", "delivered")>>
          = <<Note("BUYER", "ORDER_DELIVERED")>> \o <<Mail("BUYER", "delivered")>>
    OBVIOUS
  <2>5. AllSay(<<Note("BUYER", "ORDER_DELIVERED"), Mail("BUYER", "delivered")>>, EventFact[e])
    BY <2>2, <2>3, <2>4, Joined
  <2>6. Listener(e, linked) = IfLinked(linked, <<Note("BUYER", "ORDER_DELIVERED"), Mail("BUYER", "delivered")>>)
    BY <1>4 DEF Listener
  <2> QED BY <2>5, <2>6, Linked
<1>5. CASE e = "ORDER_CANCELLED"
  <2>1. Says("ORDER_CANCELLED", EventFact[e]) BY <1>5 DEF Says, Fact, EventFact
  <2>2. AllSay(<<Note("SELLER", "ORDER_CANCELLED")>>, EventFact[e]) BY <1>0, <2>1, OneStep
  <2>3. AllSay(<<Note("BUYER", "ORDER_CANCELLED")>>, EventFact[e]) BY <1>0, <2>1, OneStep
  <2>4. Listener(e, linked) = <<Note("SELLER", "ORDER_CANCELLED")>>
                                \o IfLinked(linked, <<Note("BUYER", "ORDER_CANCELLED")>>)
    BY <1>5 DEF Listener
  <2> QED BY <2>2, <2>3, <2>4, Joined, Linked
<1>6. CASE e = "ESCROW_RELEASED"
  <2>1. Says("ESCROW_RELEASED", EventFact[e]) BY <1>6 DEF Says, Fact, EventFact
  <2>2. AllSay(<<Note("SELLER", "ESCROW_RELEASED")>>, EventFact[e]) BY <1>0, <2>1, OneStep
  <2>3. AllSay(<<Mail("SELLER", "released")>>, EventFact[e]) BY <1>0, OneStep
  <2>4. <<Note("SELLER", "ESCROW_RELEASED"), Mail("SELLER", "released")>>
          = <<Note("SELLER", "ESCROW_RELEASED")>> \o <<Mail("SELLER", "released")>>
    OBVIOUS
  <2>5. Listener(e, linked) = <<Note("SELLER", "ESCROW_RELEASED"), Mail("SELLER", "released")>>
    BY <1>6 DEF Listener
  <2> QED BY <2>2, <2>3, <2>4, <2>5, Joined
<1>7. CASE e \in {"ORDER_COMPLETED", "ORDER_DISPUTED"}
  <2>1. Says(e, EventFact[e]) BY <1>7 DEF Says, Fact, EventFact
  <2>2. Listener(e, linked) = <<Note("SELLER", e)>> BY <1>7 DEF Listener
  <2>3. e \in Words BY <1>7 DEF Words, Fact
  <2> QED BY <1>0, <2>1, <2>2, <2>3, OneStep
<1>8. CASE e \in {"ORDER_SHIPPED", "ORDER_PICKED_UP", "ESCROW_REFUNDED"}
  <2>1. Says(e, EventFact[e]) BY <1>8 DEF Says, Fact, EventFact
  <2>2. Listener(e, linked) = IfLinked(linked, <<Note("BUYER", e)>>) BY <1>8 DEF Listener
  <2>3. e \in Words BY <1>8 DEF Words, Fact
  <2>4. AllSay(<<Note("BUYER", e)>>, EventFact[e]) BY <1>0, <2>1, <2>3, OneStep
  <2> QED BY <2>2, <2>4, Linked
<1> QED
  BY <1>1, <1>2, <1>3, <1>4, <1>5, <1>6, <1>7, <1>8 DEF Event

-----------------------------------------------------------------------------------
(* All that is told, or about to be told by a listener at work, is known.           *)
StepsKnown(e) ==
  /\ running[e] \in Seq(Step)
  /\ \A i \in 1 .. Len(running[e]) :
       running[e][i].do = "note" /\ running[e][i].what \in DOMAIN Fact
         => Known(Fact[running[e][i].what])

EscrowColumn == {"PENDING", "HOLDING", "DISPUTED", "RELEASED", "REFUNDED"}
NoticeRow == [status : OrderStatus, escrow : EscrowColumn, buyer : BOOLEAN, held : BOOLEAN]

RowsTyped == order \in NoticeRow /\ past \in Seq(NoticeRow)

NoticesInv ==
  /\ tx \in {"none", "hold", "refund"}
  /\ running = [e \in Event |-> running[e]]
  /\ \A e \in Event : StepsKnown(e)
  /\ \A n \in rows : n.type \in DOMAIN Fact => Known(Fact[n.type])

KnownStays == \A f : Known(f) => Known(f)'

(* the rows the handlers write *)
LEMMA NewRows ==
  ASSUME order \in NoticeRow
  PROVE  /\ \A to \in OrderStatus : Moved(to) \in NoticeRow /\ Moved(to).status = to
                                     /\ Moved(to).buyer = order.buyer
         /\ Confirmed \in NoticeRow /\ Confirmed.status = "AWAITING_PAYMENT"
         /\ Funded \in NoticeRow /\ Funded.status = "PAID" /\ Funded.buyer = order.buyer
         /\ Released \in NoticeRow /\ Released.status = "COMPLETED" /\ Released.buyer = order.buyer
         /\ Refunded \in NoticeRow /\ Refunded.status = "REFUNDED" /\ Refunded.buyer = order.buyer
         /\ Disputed \in NoticeRow /\ Disputed.status = "DISPUTED" /\ Disputed.buyer = order.buyer
<1>1. ASSUME NEW to \in OrderStatus
      PROVE  Moved(to) \in NoticeRow /\ Moved(to).status = to /\ Moved(to).buyer = order.buyer
  BY DEF NoticeRow, Moved
<1>2. Confirmed \in NoticeRow /\ Confirmed.status = "AWAITING_PAYMENT"
  BY DEF NoticeRow, OrderStatus, Confirmed
<1>3. Funded \in NoticeRow /\ Funded.status = "PAID" /\ Funded.buyer = order.buyer
  BY DEF NoticeRow, OrderStatus, EscrowColumn, Funded
<1>4. Released \in NoticeRow /\ Released.status = "COMPLETED" /\ Released.buyer = order.buyer
  BY DEF NoticeRow, OrderStatus, EscrowColumn, Released
<1>5. Refunded \in NoticeRow /\ Refunded.status = "REFUNDED" /\ Refunded.buyer = order.buyer
  BY DEF NoticeRow, OrderStatus, EscrowColumn, Refunded
<1>6. Disputed \in NoticeRow /\ Disputed.status = "DISPUTED" /\ Disputed.buyer = order.buyer
  BY DEF NoticeRow, OrderStatus, EscrowColumn, Disputed
<1> QED
  BY <1>1, <1>2, <1>3, <1>4, <1>5, <1>6

LEMMA WriteTyped ==
  ASSUME RowsTyped, NEW new \in NoticeRow, NEW facts, NEW excuse, WriteRow(new, facts, excuse)
  PROVE  RowsTyped'
BY DEF RowsTyped, WriteRow, Readings

LEMMA PastForgotten ==
  ASSUME RowsTyped, UNCHANGED order, past' \in {past, <<>>}
  PROVE  RowsTyped'
<1>1. <<>> \in Seq(NoticeRow)
  OBVIOUS
<1> QED
  BY <1>1 DEF RowsTyped

LEMMA RowsTypedStep ==
  ASSUME RowsTyped, [NoticesNext]_noticeVars
  PROVE  RowsTyped'
<1>1. order \in NoticeRow
  BY DEF RowsTyped
<1>2. ASSUME NEW i, ConfirmByBuyer(i) \/ ReleaseFunds(i) \/ RaiseDispute(i) \/ ResolveDispute(i)
      PROVE  RowsTyped'
  BY <1>1, <1>2, NewRows, WriteTyped
  DEF ConfirmByBuyer, ReleaseFunds, RaiseDispute, ResolveDispute, Write
<1>3. ASSUME NEW i, NEW first, UpdateStatusCompletes(first, i) PROVE RowsTyped'
  BY <1>1, <1>3, NewRows, WriteTyped DEF UpdateStatusCompletes, Write
<1>4. ASSUME NEW i, NEW to \in OrderStatus, UpdateStatus(i, to) PROVE RowsTyped'
  BY <1>1, <1>4, NewRows, WriteTyped DEF UpdateStatus, Write
<1>5. CASE ChargeSucceeds \/ VerifyByReference
  <2>1. "PAID" \in OrderStatus BY DEF OrderStatus
  <2> QED
    BY <1>1, <1>5, <2>1, NewRows, WriteTyped DEF ChargeSucceeds, VerifyByReference, Write
<1>6. CASE EndTransaction
  <2>1. CASE UNCHANGED <<order, past>>
    BY <2>1 DEF RowsTyped
  <2> QED
    BY <1>1, <1>6, <2>1, NewRows, WriteTyped DEF EndTransaction
<1>7. ASSUME NEW i, HoldFunds(i) \/ RefundFunds(i) PROVE RowsTyped'
  <2>1. UNCHANGED order /\ past' \in {past, <<>>}
    BY <1>7 DEF HoldFunds, RefundFunds, BeginInTransaction
  <2> QED
    BY <2>1, PastForgotten
<1>8. CASE \/ ProcessDies \/ UNCHANGED noticeVars
           \/ \E e \in Event : ListenerStep(e) \/ ListenerThrows(e)
           \/ \E m \in mails : SendNow(m)
  <2>1. UNCHANGED order /\ past' \in {past, <<>>}
    BY <1>8 DEF ProcessDies, ListenerStep, ListenerThrows, SendNow, noticeVars, orderVars
  <2> QED
    BY <2>1, PastForgotten
<1> QED
  BY <1>2, <1>3, <1>4, <1>5, <1>6, <1>7, <1>8 DEF NoticesNext

LEMMA RowsAlwaysTyped == NoticesSpec => []RowsTyped
<1>1. NoticesInit => RowsTyped
  <2>1. ASSUME NoticesInit PROVE order \in NoticeRow
    BY <2>1 DEF NoticesInit, NoticeRow, OrderStatus, EscrowColumn
  <2>2. ASSUME NoticesInit PROVE past \in Seq(NoticeRow)
    BY <2>2 DEF NoticesInit
  <2> QED
    BY <2>1, <2>2 DEF RowsTyped
<1> QED
  BY <1>1, RowsTypedStep, PTL DEF NoticesSpec

(* the steps that emit nothing and tell nothing, but for the listeners they stop *)
LEMMA QuietSteps ==
  ASSUME NoticesInv, KnownStays, tx' \in {"none", "hold", "refund"}, UNCHANGED rows,
         UNCHANGED running \/ running' = [e \in Event |-> <<>>]
  PROVE  NoticesInv'
<1>1. CASE UNCHANGED running
  BY <1>1 DEF NoticesInv, KnownStays, StepsKnown
<1>2. CASE running' = [e \in Event |-> <<>>]
  BY <1>2 DEF NoticesInv, KnownStays, StepsKnown
<1> QED
  BY <1>1, <1>2

(* the steps that emit events that stand for something known by then *)
LEMMA EmitSteps ==
  ASSUME NoticesInv, KnownStays, tx' \in {"none", "hold", "refund"}, UNCHANGED rows,
         NEW events \in SUBSET Event, NEW linked, Emit(events, linked), \A e \in events : Known(EventFact[e])'
  PROVE  NoticesInv'
<1>1. running' = [e \in Event |-> IF e \in events THEN Listener(e, linked) ELSE running[e]]
  BY DEF Emit
<1>2. ASSUME NEW e \in events PROVE StepsKnown(e)'
  BY <1>1, <1>2, ListenerSays DEF StepsKnown, AllSay, Says
<1>3. ASSUME NEW e \in Event \ events PROVE StepsKnown(e)'
  BY <1>1, <1>3 DEF StepsKnown, KnownStays, NoticesInv
<1> QED
  BY <1>1, <1>2, <1>3 DEF NoticesInv, KnownStays

LEMMA NoticesInvInit ==
  ASSUME NoticesInit
  PROVE  NoticesInv
<1>1. Known(EventFact["ORDER_SENT_TO_BUYER"])
  BY DEF NoticesInit, Known, EventFact
<1>2. ASSUME NEW e \in Event PROVE StepsKnown(e)
  <2>1. CASE e = "ORDER_SENT_TO_BUYER"
    BY <1>1, <2>1, ListenerSays DEF NoticesInit, StepsKnown, AllSay, Says
  <2>2. CASE e # "ORDER_SENT_TO_BUYER"
    BY <2>2 DEF NoticesInit, StepsKnown
  <2> QED BY <2>1, <2>2
<1> QED
  BY <1>2 DEF NoticesInit, NoticesInv

-----------------------------------------------------------------------------------
(* The services.                                                                    *)

(* what is committed, open or on record stays so *)
LEMMA Stays ==
  ASSUME happened \subseteq happened', gap \subseteq gap', UNCHANGED tx \/ tx = "none"
  PROVE  KnownStays
BY DEF KnownStays, Known

LEMMA Wrote ==
  ASSUME NEW new, NEW facts, NEW excuse, Write(new, facts, excuse)
  PROVE  /\ tx = "none" /\ happened \subseteq happened' /\ gap \subseteq gap'
         /\ new.status \in happened' /\ facts \subseteq happened' /\ excuse \subseteq gap'
BY DEF Write, WriteRow

LEMMA Tells ==
  ASSUME NoticesInv, NEW events \in SUBSET Event, NEW linked, Emit(events, linked),
         happened \subseteq happened', gap \subseteq gap', UNCHANGED tx,
         \A e \in events : Known(EventFact[e])'
  PROVE  NoticesInv'
BY Stays, EmitSteps DEF NoticesInv, Emit

LEMMA CommittedEvents ==
  ASSUME NoticesInv, RowsTyped, NEW i, ConfirmByBuyer(i) \/ ChargeSucceeds \/ ReleaseFunds(i)
  PROVE  NoticesInv'
<1>1. CASE ConfirmByBuyer(i)
  <2>1. "AWAITING_PAYMENT" \in happened' /\ happened \subseteq happened' /\ gap \subseteq gap'
    BY <1>1, NewRows, Wrote DEF ConfirmByBuyer, RowsTyped
  <2>2. Known(EventFact["ORDER_CONFIRMED"])'
    BY <2>1 DEF Known, EventFact
  <2>3. PICK linked : Emit({"ORDER_CONFIRMED"}, linked)
    BY <1>1 DEF ConfirmByBuyer
  <2> QED
    BY <1>1, <2>1, <2>2, <2>3, Tells DEF ConfirmByBuyer, Event
<1>2. CASE ChargeSucceeds
  <2>1. "HOLD" \in happened' /\ happened \subseteq happened' /\ gap \subseteq gap'
    BY <1>2, Wrote DEF ChargeSucceeds
  <2>2. Known(EventFact["ORDER_PAID"])'
    BY <2>1 DEF Known, EventFact
  <2> QED
    BY <1>2, <2>1, <2>2, Tells DEF ChargeSucceeds, Event
<1>3. CASE ReleaseFunds(i)
  <2>1. "RELEASE" \in happened' /\ happened \subseteq happened' /\ gap \subseteq gap'
    BY <1>3, Wrote DEF ReleaseFunds
  <2>2. Known(EventFact["ESCROW_RELEASED"])'
    BY <2>1 DEF Known, EventFact
  <2>3. PICK linked : Emit({"ESCROW_RELEASED"}, linked)
    BY <1>3 DEF ReleaseFunds
  <2> QED
    BY <1>3, <2>1, <2>2, <2>3, Tells DEF ReleaseFunds, Event
<1> QED
  BY <1>1, <1>2, <1>3

(* emitted before the commit: known while the transaction is open *)
LEMMA EarlyEvents ==
  ASSUME NoticesInv, NEW i, HoldFunds(i) \/ RefundFunds(i)
  PROVE  NoticesInv'
<1>1. CASE HoldFunds(i)
  <2>1. Known(EventFact["ORDER_PAID"])' /\ tx' = "hold"
    BY <1>1 DEF HoldFunds, BeginInTransaction, Known, EventFact
  <2>2. PICK linked : Emit({"ORDER_PAID"}, linked)
    BY <1>1 DEF HoldFunds, BeginInTransaction
  <2>3. UNCHANGED happened /\ gap \subseteq gap' /\ tx = "none"
    BY <1>1 DEF HoldFunds, BeginInTransaction
  <2>4. UNCHANGED rows
    BY <2>2 DEF Emit
  <2> QED
    BY <2>1, <2>2, <2>3, <2>4, Stays, EmitSteps DEF Event
<1>2. CASE RefundFunds(i)
  <2>1. Known(EventFact["ESCROW_REFUNDED"])' /\ tx' = "refund"
    BY <1>2 DEF RefundFunds, BeginInTransaction, Known, EventFact
  <2>2. PICK linked : Emit({"ESCROW_REFUNDED"}, linked)
    BY <1>2 DEF RefundFunds, BeginInTransaction
  <2>3. UNCHANGED happened /\ gap \subseteq gap' /\ tx = "none"
    BY <1>2 DEF RefundFunds, BeginInTransaction
  <2>4. UNCHANGED rows
    BY <2>2 DEF Emit
  <2> QED
    BY <2>1, <2>2, <2>3, <2>4, Stays, EmitSteps DEF Event
<1> QED
  BY <1>1, <1>2

(* the transaction that has emitted commits, or leaves its reason *)
LEMMA TransactionEnds ==
  ASSUME NoticesInv, EndTransaction
  PROVE  NoticesInv'
<1>1. /\ happened \subseteq happened' /\ gap \subseteq gap' /\ tx' = "none"
      /\ \/ tx = "hold" /\ "HOLD" \in happened'
         \/ tx = "refund" /\ "REFUND" \in happened'
         \/ "money" \in gap'
      /\ UNCHANGED <<rows, running>>
  BY DEF EndTransaction, WriteRow
<1>2. KnownStays
  BY <1>1 DEF KnownStays, Known, Money
<1> QED
  BY <1>1, <1>2, QuietSteps

LEMMA CompletionEvents ==
  ASSUME NoticesInv, NEW i, NEW first, UpdateStatusCompletes(first, i)
  PROVE  NoticesInv'
<1>1. "RELEASE" \in happened' /\ happened \subseteq happened' /\ gap \subseteq gap' /\ UNCHANGED tx
  BY Wrote DEF UpdateStatusCompletes
<1>2. Known(EventFact["ESCROW_RELEASED"])' /\ Known(EventFact["ORDER_COMPLETED"])'
  BY <1>1 DEF Known, EventFact
<1>3. PICK linked : Emit({"ESCROW_RELEASED", "ORDER_COMPLETED"}, linked)
  BY DEF UpdateStatusCompletes
<1> QED
  BY <1>1, <1>2, <1>3, Tells DEF Event

LEMMA StatusEvents ==
  ASSUME NoticesInv, RowsTyped, NEW i, NEW to \in OrderStatus, UpdateStatus(i, to)
  PROVE  NoticesInv'
<1>1. /\ happened \subseteq happened' /\ to \in happened' /\ gap \subseteq gap' /\ UNCHANGED tx
      /\ to \in {"PAID", "COMPLETED"} => "money" \in gap'
  BY NewRows, Wrote DEF UpdateStatus, RowsTyped
<1>2. CASE to = "COMPLETED"
  <2>1. Known(EventFact["ORDER_COMPLETED"])'
    BY <1>1, <1>2 DEF Known, EventFact, Money
  <2>2. PICK linked : Emit({"ORDER_COMPLETED"}, linked)
    BY <1>2 DEF UpdateStatus
  <2> QED
    BY <1>1, <2>1, <2>2, Tells DEF Event
<1>3. CASE to # "COMPLETED"
  <2>1. PICK linked : Emit(EVENT_MAP(to), linked)
    BY <1>3 DEF UpdateStatus
  <2>2. ASSUME NEW e \in EVENT_MAP(to)
        PROVE  e \in Event /\ (EventFact[e] = to \/ (to = "PAID" /\ EventFact[e] = "HOLD"))
    BY DEF EVENT_MAP, Event, EventFact, OrderStatus
  <2>3. \A e \in EVENT_MAP(to) : Known(EventFact[e])'
    BY <1>1, <2>2 DEF Known, Money
  <2> QED
    BY <1>1, <2>1, <2>2, <2>3, Tells
<1> QED
  BY <1>2, <1>3

-----------------------------------------------------------------------------------
(* The listeners.                                                                   *)
LEMMA ListenerKeeps ==
  ASSUME NoticesInv, NEW e \in Event, ListenerStep(e)
  PROVE  NoticesInv'
<1> DEFINE step == Head(running[e])
<1>1. running[e] \in Seq(Step) /\ running[e] # <<>>
  BY DEF NoticesInv, StepsKnown, ListenerStep
<1>2. /\ step = running[e][1] /\ 1 \in 1 .. Len(running[e])
      /\ Tail(running[e]) \in Seq(Step)
      /\ \A i \in 1 .. Len(Tail(running[e])) :
           i + 1 \in 1 .. Len(running[e]) /\ Tail(running[e])[i] = running[e][i + 1]
  BY <1>1
<1>3. UNCHANGED <<happened, tx, gap>> /\ running' = [running EXCEPT ![e] = Tail(@)]
  BY DEF ListenerStep, Rest, orderVars
<1>4. \A n \in rows' : n \in rows \/ (step.do = "note" /\ n.type = step.what)
  BY DEF ListenerStep
<1>5. step.do = "note" /\ step.what \in DOMAIN Fact => Known(Fact[step.what])
  BY <1>2 DEF NoticesInv, StepsKnown
<1>6. \A f : Known(f) => Known(f)'
  BY <1>3 DEF Known
<1> HIDE DEF step
<1>7. ASSUME NEW d \in Event PROVE StepsKnown(d)'
  <2>1. CASE d = e
    BY <1>2, <1>3, <1>6, <2>1 DEF NoticesInv, StepsKnown
  <2>2. CASE d # e
    BY <1>3, <1>6, <2>2 DEF NoticesInv, StepsKnown
  <2> QED BY <2>1, <2>2
<1>8. \A n \in rows' : n.type \in DOMAIN Fact => Known(Fact[n.type])'
  BY <1>4, <1>5, <1>6 DEF NoticesInv
<1> QED
  BY <1>3, <1>7, <1>8 DEF NoticesInv

LEMMA ThrowKeeps ==
  ASSUME NoticesInv, NEW e \in Event, ListenerThrows(e)
  PROVE  NoticesInv'
<1>1. UNCHANGED <<happened, tx, rows>> /\ gap \subseteq gap' /\ running' = [running EXCEPT ![e] = <<>>]
  BY DEF ListenerThrows, Drop, orderVars
<1>2. KnownStays
  BY <1>1, Stays
<1>3. ASSUME NEW d \in Event PROVE StepsKnown(d)'
  <2>1. CASE d = e
    BY <1>1, <2>1 DEF NoticesInv, StepsKnown
  <2>2. CASE d # e
    BY <1>1, <1>2, <2>2 DEF NoticesInv, StepsKnown, KnownStays
  <2> QED BY <2>1, <2>2
<1> QED
  BY <1>1, <1>2, <1>3 DEF NoticesInv, KnownStays

LEMMA DeathKeeps ==
  ASSUME NoticesInv, ProcessDies
  PROVE  NoticesInv'
<1>1. /\ UNCHANGED <<happened, rows>> /\ gap \subseteq gap' /\ tx' = "none"
      /\ tx # "none" => "money" \in gap'
      /\ running' = [e \in Event |-> <<>>]
  BY DEF ProcessDies
<1>2. KnownStays
  BY <1>1 DEF KnownStays, Known, Money
<1> QED
  BY <1>1, <1>2, QuietSteps

LEMMA NoticesInvStep ==
  ASSUME NoticesInv, RowsTyped, [NoticesNext]_noticeVars
  PROVE  NoticesInv'
<1>1. ASSUME happened \subseteq happened', gap \subseteq gap', UNCHANGED <<tx, running, rows>>
      PROVE  NoticesInv'
  BY <1>1, Stays, QuietSteps DEF NoticesInv
<1>2. ASSUME NEW i, RaiseDispute(i) \/ ResolveDispute(i) PROVE NoticesInv'
  BY <1>1, <1>2, Wrote DEF RaiseDispute, ResolveDispute
<1>3. CASE VerifyByReference
  BY <1>1, <1>3, Wrote DEF VerifyByReference
<1>4. CASE UNCHANGED noticeVars \/ \E m \in mails : SendNow(m)
  BY <1>1, <1>4 DEF noticeVars, orderVars, SendNow
<1> QED
  BY <1>2, <1>3, <1>4, CommittedEvents, EarlyEvents, TransactionEnds, CompletionEvents, StatusEvents,
     ListenerKeeps, ThrowKeeps, DeathKeeps DEF NoticesNext

(* ToldWhatHappened: the listeners of notifications.service.ts write nothing of a    *)
(* step or a movement of money that is not committed, except what holdFunds and      *)
(* refundFunds emit before their commit and what an admin sets by hand.             *)
THEOREM NothingUntrueTold == NoticesSpec => []ToldWhatHappened
<1>1. NoticesInv => ToldWhatHappened
  BY DEF NoticesInv, ToldWhatHappened, Known, Money
<1> QED
  BY <1>1, NoticesInvInit, NoticesInvStep, RowsAlwaysTyped, PTL DEF NoticesSpec

-----------------------------------------------------------------------------------
(* The delivery.  Its listener has the notification still to write, or has written it  *)
(* and has at most the mail left.                                                     *)
DeliveryNote == Note("BUYER", "ORDER_DELIVERED")
DeliveryMail == Mail("BUYER", "delivered")
DeliveryTold == [to |-> "BUYER", type |-> "ORDER_DELIVERED"] \in rows

DeliveryDue ==
  \/ running["ORDER_DELIVERED"] = <<DeliveryNote, DeliveryMail>>
  \/ DeliveryTold /\ running["ORDER_DELIVERED"] \in {<<DeliveryMail>>, <<>>}

DeliveryInv ==
  /\ DOMAIN running = Event
  /\ "DELIVERED" \in happened => order.status # "PENDING_BUYER"
  /\ "DELIVERED" \in happened /\ order.buyer = TRUE /\ gap \cap {"untold", "linkedLate"} = {}
       => DeliveryDue

LEMMA NeverPendingAgain ==
  ASSUME NEW from, NEW to, OnTable(from, to)
  PROVE  to # "PENDING_BUYER"
BY DEF OnTable, ORDER_STATE_MACHINE, Edge

LEMMA OnTime ==
  ASSUME RowsTyped, NEW i \in 1 .. Now
  PROVE  i < Now \/ Readings[i] = order
BY DEF RowsTyped, Readings, Now

LEMMA DeliveryListener ==
  Listener("ORDER_DELIVERED", TRUE) = <<DeliveryNote, DeliveryMail>>
BY DEF Listener, IfLinked, DeliveryNote, DeliveryMail

LEMMA EmitParts ==
  ASSUME DeliveryInv, NEW events \in SUBSET Event, NEW linked, Emit(events, linked)
  PROVE  /\ DOMAIN running' = Event /\ UNCHANGED rows
         /\ "ORDER_DELIVERED" \notin events => running'["ORDER_DELIVERED"] = running["ORDER_DELIVERED"]
         /\ "ORDER_DELIVERED" \in events
              => running'["ORDER_DELIVERED"] = Listener("ORDER_DELIVERED", linked)
BY DEF Emit, DeliveryInv, Event

(* the steps that neither deliver nor tell of it *)
LEMMA DeliveryKept ==
  ASSUME DeliveryInv, rows \subseteq rows', gap \subseteq gap',
         DOMAIN running' = Event, running'["ORDER_DELIVERED"] = running["ORDER_DELIVERED"],
         order'.status = order.status \/ order'.status # "PENDING_BUYER",
         \/ order'.buyer = order.buyer \/ order.status = "PENDING_BUYER"
         \/ "linkedLate" \in gap',
         "DELIVERED" \in happened' => "DELIVERED" \in happened
  PROVE  DeliveryInv'
BY DEF DeliveryInv, DeliveryDue, DeliveryTold

(* a write of another status, with or without events *)
LEMMA OtherWrites ==
  ASSUME DeliveryInv, NEW new, NEW facts \in SUBSET {"HOLD", "RELEASE", "REFUND"}, NEW excuse,
         WriteRow(new, facts, excuse), new.status \notin {"DELIVERED", "PENDING_BUYER"},
         \/ new.buyer = order.buyer \/ order.status = "PENDING_BUYER" \/ "linkedLate" \in excuse,
         \/ UNCHANGED <<running, rows>>
         \/ \E events \in SUBSET (Event \ {"ORDER_DELIVERED"}) : \E linked : Emit(events, linked)
  PROVE  DeliveryInv'
<1>1. /\ order' = new /\ happened' = happened \cup {new.status} \cup facts
      /\ gap' = gap \cup excuse
  BY DEF WriteRow
<1>2. "DELIVERED" \in happened' => "DELIVERED" \in happened
  BY <1>1
<1>3. /\ DOMAIN running' = Event /\ running'["ORDER_DELIVERED"] = running["ORDER_DELIVERED"]
      /\ UNCHANGED rows
  BY EmitParts DEF DeliveryInv
<1> QED
  BY <1>1, <1>2, <1>3, DeliveryKept

LEMMA ServicesDeliver ==
  ASSUME DeliveryInv, RowsTyped, NEW i \in 1 .. Now,
         \/ ConfirmByBuyer(i) \/ ChargeSucceeds \/ VerifyByReference
         \/ HoldFunds(i) \/ RefundFunds(i) \/ EndTransaction
         \/ ReleaseFunds(i) \/ RaiseDispute(i) \/ ResolveDispute(i)
         \/ \E first \in 1 .. Now : UpdateStatusCompletes(first, i)
         \/ \E to \in OrderStatus \ {"DELIVERED"} : UpdateStatus(i, to)
  PROVE  DeliveryInv'
<1>0. DOMAIN running = Event /\ order \in NoticeRow
  BY DEF DeliveryInv, RowsTyped
<1>1. CASE ConfirmByBuyer(i)
  <2>1. PICK excuse : /\ WriteRow(Confirmed, {}, excuse)
                      /\ i < Now => "linkedLate" \in excuse
    BY <1>1 DEF ConfirmByBuyer, Write
  <2>2. order.status = "PENDING_BUYER" \/ "linkedLate" \in excuse
    BY <1>1, <2>1, OnTime DEF ConfirmByBuyer
  <2>3. Emit({"ORDER_CONFIRMED"}, TRUE) /\ {"ORDER_CONFIRMED"} \in SUBSET (Event \ {"ORDER_DELIVERED"})
    BY <1>1 DEF ConfirmByBuyer, Event
  <2>4. \E events \in SUBSET (Event \ {"ORDER_DELIVERED"}) : \E linked : Emit(events, linked)
    BY <2>3
  <2> QED
    BY <1>0, <2>1, <2>2, <2>4, NewRows, OtherWrites
<1>2. CASE ChargeSucceeds
  <2>1. Write(Funded, {"HOLD"}, {}) /\ \E linked : Emit({"ORDER_PAID"}, linked)
    BY <1>2 DEF ChargeSucceeds
  <2> QED
    BY <1>0, <2>1, NewRows, OtherWrites DEF Write, Event
<1>3. CASE VerifyByReference
  <2>1. UNCHANGED <<running, rows>> /\ \E excuse : WriteRow(Moved("PAID"), {}, excuse)
    BY <1>3 DEF VerifyByReference, Write
  <2> QED
    BY <1>0, <2>1, NewRows, OtherWrites DEF OrderStatus
<1>4. CASE HoldFunds(i) \/ RefundFunds(i)
  <2>1. /\ UNCHANGED <<order, happened>> /\ gap \subseteq gap'
        /\ \E e \in {"ORDER_PAID", "ESCROW_REFUNDED"} : \E linked : Emit({e}, linked)
    BY <1>4 DEF HoldFunds, RefundFunds, BeginInTransaction
  <2>2. ASSUME NEW e \in {"ORDER_PAID", "ESCROW_REFUNDED"}, NEW linked, Emit({e}, linked)
        PROVE  /\ DOMAIN running' = Event /\ UNCHANGED rows
               /\ running'["ORDER_DELIVERED"] = running["ORDER_DELIVERED"]
    BY <2>2, EmitParts DEF Event
  <2> QED
    BY <2>1, <2>2, DeliveryKept
<1>5. CASE EndTransaction
  <2>1. UNCHANGED <<running, rows>> /\ gap \subseteq gap'
    BY <1>5 DEF EndTransaction, WriteRow
  <2>2. \/ WriteRow(Funded, {"HOLD"}, {}) \/ WriteRow(Refunded, {"REFUND"}, {})
        \/ UNCHANGED <<order, happened>>
    BY <1>5 DEF EndTransaction
  <2>3. CASE UNCHANGED <<order, happened>>
    BY <1>0, <2>1, <2>3, DeliveryKept
  <2> QED
    BY <1>0, <2>1, <2>2, <2>3, NewRows, OtherWrites
<1>6. CASE ReleaseFunds(i)
  <2>1. /\ \E excuse : WriteRow(Released, {"RELEASE"}, excuse)
        /\ \E linked : Emit({"ESCROW_RELEASED"}, linked)
    BY <1>6 DEF ReleaseFunds, Write
  <2> QED
    BY <1>0, <2>1, NewRows, OtherWrites DEF Event
<1>7. ASSUME NEW first, UpdateStatusCompletes(first, i) PROVE DeliveryInv'
  <2>1. /\ \E excuse : WriteRow(Released, {"RELEASE"}, excuse)
        /\ \E linked : Emit({"ESCROW_RELEASED", "ORDER_COMPLETED"}, linked)
    BY <1>7 DEF UpdateStatusCompletes, Write
  <2> QED
    BY <1>0, <2>1, NewRows, OtherWrites DEF Event
<1>8. CASE RaiseDispute(i) \/ ResolveDispute(i)
  <2>1. UNCHANGED <<running, rows>>
    BY <1>8 DEF RaiseDispute, ResolveDispute
  <2>2. \E excuse : \/ WriteRow(Disputed, {}, excuse) \/ WriteRow(Refunded, {"REFUND"}, excuse)
                    \/ WriteRow(Released, {"RELEASE"}, excuse)
    BY <1>8 DEF RaiseDispute, ResolveDispute, Write
  <2> QED
    BY <1>0, <2>1, <2>2, NewRows, OtherWrites
<1>9. ASSUME NEW to \in OrderStatus \ {"DELIVERED"}, UpdateStatus(i, to)
      PROVE  DeliveryInv'
  <2>1. to # "PENDING_BUYER" /\ \E excuse : WriteRow(Moved(to), {}, excuse)
    BY <1>9, NeverPendingAgain DEF UpdateStatus, Write
  <2>2. \E events \in SUBSET (Event \ {"ORDER_DELIVERED"}) : \E linked : Emit(events, linked)
    <3>1. EVENT_MAP(to) \in SUBSET (Event \ {"ORDER_DELIVERED"})
      BY <1>9 DEF EVENT_MAP, Event, OrderStatus
    <3>2. {"ORDER_COMPLETED"} \in SUBSET (Event \ {"ORDER_DELIVERED"})
      BY DEF Event
    <3>3. \E linked : Emit(EVENT_MAP(to), linked) \/ Emit({"ORDER_COMPLETED"}, linked)
      BY <1>9 DEF UpdateStatus
    <3> QED
      BY <3>1, <3>2, <3>3
  <2> QED
    BY <1>0, <2>1, <2>2, NewRows, OtherWrites
<1> QED
  BY <1>1, <1>2, <1>3, <1>4, <1>5, <1>6, <1>7, <1>8, <1>9

LEMMA Delivers ==
  ASSUME DeliveryInv, RowsTyped, NEW i, UpdateStatus(i, "DELIVERED")
  PROVE  DeliveryInv'
<1>0. order \in NoticeRow /\ "DELIVERED" \in OrderStatus
  BY DEF RowsTyped, OrderStatus
<1>1. /\ order' = Moved("DELIVERED") /\ Emit(EVENT_MAP("DELIVERED"), order.buyer)
      /\ EVENT_MAP("DELIVERED") = {"ORDER_DELIVERED"}
  BY DEF UpdateStatus, EVENT_MAP, Write, WriteRow
<1>2. order'.status = "DELIVERED" /\ order'.buyer = order.buyer
  BY <1>0, <1>1, NewRows
<1>3. PICK linked : linked = order.buyer /\ Emit({"ORDER_DELIVERED"}, linked)
  BY <1>1
<1>4. DOMAIN running' = Event /\ running'["ORDER_DELIVERED"] = Listener("ORDER_DELIVERED", linked)
  BY <1>3, EmitParts DEF Event
<1>5. order'.buyer = TRUE => running'["ORDER_DELIVERED"] = <<DeliveryNote, DeliveryMail>>
  BY <1>2, <1>3, <1>4, DeliveryListener
<1> QED
  BY <1>2, <1>4, <1>5 DEF DeliveryInv, DeliveryDue, DeliveryNote, DeliveryMail, Note, Mail

LEMMA ListenersDeliver ==
  ASSUME DeliveryInv, NEW e \in Event, ListenerStep(e) \/ ListenerThrows(e)
  PROVE  DeliveryInv'
<1>0. DOMAIN running = Event /\ "ORDER_DELIVERED" \in Event
  BY DEF DeliveryInv, Event
<1>1. CASE ListenerThrows(e)
  BY <1>0, <1>1 DEF ListenerThrows, Drop, DeliveryInv, orderVars
<1>2. CASE ListenerStep(e)
  <2>1. /\ UNCHANGED <<order, happened, gap>> /\ rows \subseteq rows'
        /\ running' = [running EXCEPT ![e] = Tail(@)]
    BY <1>2 DEF ListenerStep, Rest, orderVars
  <2>2. CASE e # "ORDER_DELIVERED"
    BY <1>0, <2>1, <2>2, DeliveryKept
  <2>3. CASE e = "ORDER_DELIVERED"
    <3>1. running'["ORDER_DELIVERED"] = Tail(running["ORDER_DELIVERED"]) /\ DOMAIN running' = Event
      BY <1>0, <2>1, <2>3
    <3>2. CASE running["ORDER_DELIVERED"] = <<DeliveryNote, DeliveryMail>>
      <4>1. Head(running[e]) = DeliveryNote /\ running'["ORDER_DELIVERED"] = <<DeliveryMail>>
        BY <2>3, <3>1, <3>2
      <4>2. DeliveryTold'
        BY <1>2, <4>1 DEF ListenerStep, DeliveryNote, Note, DeliveryTold
      <4> QED
        BY <2>1, <3>1, <4>1, <4>2 DEF DeliveryInv, DeliveryDue
    <3>3. CASE DeliveryTold /\ running["ORDER_DELIVERED"] \in {<<DeliveryMail>>, <<>>}
      <4>1. running["ORDER_DELIVERED"] = <<DeliveryMail>>
        BY <1>2, <2>3, <3>3 DEF ListenerStep
      <4>2. running'["ORDER_DELIVERED"] = <<>> /\ DeliveryTold'
        BY <2>1, <3>1, <3>3, <4>1 DEF DeliveryTold
      <4> QED
        BY <2>1, <3>1, <4>2 DEF DeliveryInv, DeliveryDue
    <3>4. CASE ~DeliveryDue
      BY <2>1, <3>1, <3>4 DEF DeliveryInv
    <3> QED
      BY <3>2, <3>3, <3>4 DEF DeliveryDue
  <2> QED
    BY <2>2, <2>3
<1> QED
  BY <1>1, <1>2

LEMMA DeliveryInvStep ==
  ASSUME DeliveryInv, RowsTyped, [NoticesNext]_noticeVars
  PROVE  DeliveryInv'
<1>1. CASE ProcessDies
  BY <1>1 DEF ProcessDies, DeliveryInv
<1>2. CASE UNCHANGED noticeVars \/ \E m \in mails : SendNow(m)
  <2>1. UNCHANGED <<order, happened, running, rows>> /\ gap \subseteq gap'
    BY <1>2 DEF noticeVars, orderVars, SendNow
  <2> QED
    BY <2>1, DeliveryKept DEF DeliveryInv
<1>3. Now \in 1 .. Now
  BY DEF RowsTyped, Now
<1>4. ASSUME NEW i \in 1 .. Now, NEW to \in OrderStatus, UpdateStatus(i, to)
      PROVE  DeliveryInv'
  <2>1. CASE to = "DELIVERED"
    BY <1>4, <2>1, Delivers
  <2> QED
    BY <1>4, <2>1, ServicesDeliver
<1> QED
  BY <1>1, <1>2, <1>3, <1>4, ServicesDeliver, ListenersDeliver DEF NoticesNext

(* The safety half of DeliveryIsTold: no delivery is lost between the commit of       *)
(* updateStatus and the notification of the buyer, unless a listener threw, the        *)
(* process died, or a confirmation that was overtaken linked the buyer afterwards: it  *)
(* is written, or what its listener does next is to write it.                          *)
THEOREM DeliveryNotLost ==
  NoticesSpec =>
    []("DELIVERED" \in happened /\ order.buyer = TRUE /\ gap \cap {"untold", "linkedLate"} = {}
         => DeliveryTold \/ Head(running["ORDER_DELIVERED"]) = DeliveryNote)
<1>1. DeliveryInv =>
        ("DELIVERED" \in happened /\ order.buyer = TRUE /\ gap \cap {"untold", "linkedLate"} = {}
           => DeliveryTold \/ Head(running["ORDER_DELIVERED"]) = DeliveryNote)
  BY DEF DeliveryInv, DeliveryDue
<1>2. NoticesInit => DeliveryInv
  BY DEF NoticesInit, DeliveryInv
<1> QED
  BY <1>1, <1>2, DeliveryInvStep, RowsAlwaysTyped, PTL DEF NoticesSpec

-----------------------------------------------------------------------------------
(* Where the order is, as long as no write was overtaken, once its money has gone one *)
(* way or the other, and while a transaction that has emitted already is open.        *)
WayOut ==
  "overtaken" \notin gap =>
    /\ "RELEASE" \in happened => order.status = "COMPLETED"
    /\ "REFUND" \in happened => order.status = "REFUNDED"
    /\ tx = "hold" => order.status = "AWAITING_PAYMENT"
    /\ tx = "refund" => order.status = "DISPUTED"

LEMMA EdgesLead ==
  ASSUME NEW from, NEW to, OnTable(from, to)
  PROVE  from \notin {"COMPLETED", "REFUNDED", "CANCELLED"} /\ from # to
BY DEF OnTable, ORDER_STATE_MACHINE, Edge

LEMMA EdgesOfServices ==
  /\ OnTable("PENDING_BUYER", "AWAITING_PAYMENT") /\ OnTable("AWAITING_PAYMENT", "PAID")
  /\ OnTable("DELIVERED", "COMPLETED") /\ OnTable("DELIVERED", "DISPUTED")
  /\ OnTable("DISPUTED", "COMPLETED") /\ OnTable("DISPUTED", "REFUNDED")
BY DEF OnTable, ORDER_STATE_MACHINE, Edge

(* A step that is on time leaves the status and its history alone, or takes it along  *)
(* an edge; the money goes out on a step that ends the order.                         *)
StatusStep ==
  \/ UNCHANGED <<order, happened>>
  \/ /\ order'.status = order.status \/ OnTable(order.status, order'.status)
     /\ "RELEASE" \in happened' => "RELEASE" \in happened \/ order'.status = "COMPLETED"
     /\ "REFUND" \in happened' => "REFUND" \in happened \/ order'.status = "REFUNDED"

TxStep ==
  \/ tx' = tx /\ (tx = "none" \/ UNCHANGED order)
  \/ tx' = "none"
  \/ tx' = "hold" /\ UNCHANGED order /\ order.status = "AWAITING_PAYMENT"
  \/ tx' = "refund" /\ UNCHANGED order /\ order.status = "DISPUTED"

(* a write on time, along an edge or within a status *)
LEMMA WriteOnTime ==
  ASSUME NEW new, NEW to \in OrderStatus, NEW facts, NEW excuse, WriteRow(new, facts, excuse),
         new.status = to, order.status = to \/ OnTable(order.status, to),
         "RELEASE" \in facts => to = "COMPLETED", "REFUND" \in facts => to = "REFUNDED",
         tx' = "none"
  PROVE  StatusStep /\ TxStep
<1>1. order'.status = to /\ happened' = happened \cup {to} \cup facts
  BY DEF WriteRow
<1>2. "RELEASE" # to /\ "REFUND" # to
  BY DEF OrderStatus
<1> QED
  BY <1>1, <1>2 DEF StatusStep, TxStep

LEMMA GapGrows ==
  ASSUME [NoticesNext]_noticeVars
  PROVE  gap \subseteq gap'
<1>1. ASSUME NEW i, \/ ConfirmByBuyer(i) \/ HoldFunds(i) \/ RefundFunds(i) \/ ReleaseFunds(i)
                   \/ RaiseDispute(i) \/ ResolveDispute(i)
      PROVE  gap \subseteq gap'
  BY <1>1 DEF ConfirmByBuyer, HoldFunds, RefundFunds, BeginInTransaction, ReleaseFunds, RaiseDispute,
              ResolveDispute, Write, WriteRow
<1>2. ASSUME NEW i, NEW first, UpdateStatusCompletes(first, i) PROVE gap \subseteq gap'
  BY <1>2 DEF UpdateStatusCompletes, Write, WriteRow
<1>3. ASSUME NEW i, NEW to, UpdateStatus(i, to) PROVE gap \subseteq gap'
  BY <1>3 DEF UpdateStatus, Write, WriteRow
<1>4. CASE ChargeSucceeds \/ VerifyByReference \/ EndTransaction
  BY <1>4 DEF ChargeSucceeds, VerifyByReference, EndTransaction, Write, WriteRow
<1>5. CASE ProcessDies \/ UNCHANGED noticeVars
  BY <1>5 DEF ProcessDies, noticeVars
<1>6. CASE \/ \E e \in Event : ListenerStep(e) \/ ListenerThrows(e)
           \/ \E m \in mails : SendNow(m)
  BY <1>6 DEF ListenerStep, ListenerThrows, SendNow
<1> QED
  BY <1>1, <1>2, <1>3, <1>4, <1>5, <1>6 DEF NoticesNext

LEMMA HandlersOnTime ==
  ASSUME RowsTyped, NEW i \in 1 .. Now, "overtaken" \notin gap',
         \/ ConfirmByBuyer(i) \/ ReleaseFunds(i) \/ RaiseDispute(i) \/ ResolveDispute(i)
         \/ \E first \in 1 .. Now : UpdateStatusCompletes(first, i)
         \/ \E to \in OrderStatus : UpdateStatus(i, to)
  PROVE  StatusStep /\ TxStep
<1>0. order \in NoticeRow /\ {"AWAITING_PAYMENT", "COMPLETED", "DISPUTED", "REFUNDED"} \subseteq OrderStatus
  BY DEF RowsTyped, OrderStatus
<1>1. ASSUME NEW new, NEW facts, Write(new, facts, Overtaken(i)) PROVE Readings[i] = order
  BY <1>1, OnTime DEF Write, WriteRow, Overtaken
<1>2. CASE ConfirmByBuyer(i)
  <2>1. PICK excuse : /\ Write(Confirmed, {}, excuse)
                      /\ i < Now => "overtaken" \in excuse
                      /\ Readings[i].status = "PENDING_BUYER" /\ tx' = tx
    BY <1>2 DEF ConfirmByBuyer
  <2>2. tx = "none" /\ WriteRow(Confirmed, {}, excuse) /\ "overtaken" \notin excuse
    BY <2>1 DEF Write, WriteRow
  <2>3. Readings[i] = order
    BY <2>1, <2>2, OnTime
  <2> QED
    BY <1>0, <2>1, <2>2, <2>3, NewRows, EdgesOfServices, WriteOnTime
<1>3. CASE ReleaseFunds(i) \/ \E first \in 1 .. Now : UpdateStatusCompletes(first, i)
  <2>1. Write(Released, {"RELEASE"}, Overtaken(i)) /\ Releasable(Readings[i]) /\ tx' = tx
    BY <1>3 DEF ReleaseFunds, UpdateStatusCompletes
  <2>2. order.status \in {"DELIVERED", "COMPLETED"}
    BY <1>1, <2>1 DEF Releasable
  <2>3. tx' = "none" /\ WriteRow(Released, {"RELEASE"}, Overtaken(i))
    BY <2>1 DEF Write
  <2> QED
    BY <1>0, <2>2, <2>3, NewRows, EdgesOfServices, WriteOnTime
<1>4. CASE RaiseDispute(i)
  <2>1. Write(Disputed, {}, Overtaken(i)) /\ Readings[i].status = "DELIVERED" /\ tx' = tx
    BY <1>4 DEF RaiseDispute
  <2>2. order.status = "DELIVERED" /\ tx' = "none" /\ WriteRow(Disputed, {}, Overtaken(i))
    BY <1>1, <2>1 DEF Write
  <2> QED
    BY <1>0, <2>2, NewRows, EdgesOfServices, WriteOnTime
<1>5. CASE ResolveDispute(i)
  <2>1. /\ \/ Write(Refunded, {"REFUND"}, Overtaken(i))
           \/ Write(Released, {"RELEASE"}, Overtaken(i))
        /\ Readings[i].status = "DISPUTED" /\ tx' = tx
    BY <1>5 DEF ResolveDispute
  <2>2. order.status = "DISPUTED" /\ tx' = "none"
    BY <1>1, <2>1 DEF Write
  <2>3. \/ WriteRow(Refunded, {"REFUND"}, Overtaken(i))
        \/ WriteRow(Released, {"RELEASE"}, Overtaken(i))
    BY <2>1 DEF Write
  <2> QED
    BY <1>0, <2>2, <2>3, NewRows, EdgesOfServices, WriteOnTime
<1>6. ASSUME NEW to \in OrderStatus, UpdateStatus(i, to) PROVE StatusStep /\ TxStep
  <2>1. PICK excuse : /\ Write(Moved(to), {}, Overtaken(i) \cup excuse)
                      /\ OnTable(Readings[i].status, to) /\ tx' = tx
    BY <1>6 DEF UpdateStatus
  <2>2. Readings[i] = order
    BY <2>1, OnTime DEF Write, WriteRow, Overtaken
  <2>3. tx' = "none" /\ WriteRow(Moved(to), {}, Overtaken(i) \cup excuse)
    BY <2>1 DEF Write
  <2> QED
    BY <1>0, <2>1, <2>2, <2>3, NewRows, WriteOnTime
<1> QED
  BY <1>2, <1>3, <1>4, <1>5, <1>6

LEMMA NoticeSteps ==
  ASSUME WayOut, RowsTyped, [NoticesNext]_noticeVars, "overtaken" \notin gap'
  PROVE  StatusStep /\ TxStep
<1>0. order \in NoticeRow /\ "overtaken" \notin gap /\ "PAID" \in OrderStatus /\ "REFUNDED" \in OrderStatus
  BY GapGrows DEF RowsTyped, OrderStatus
<1>1. ASSUME UNCHANGED <<order, happened, tx>> PROVE StatusStep /\ TxStep
  BY <1>1 DEF StatusStep, TxStep
<1>2. CASE ChargeSucceeds
  <2>1. /\ order.status \in {"AWAITING_PAYMENT", "PAID"} /\ tx' = "none"
        /\ WriteRow(Funded, {"HOLD"}, {})
    BY <1>2 DEF ChargeSucceeds, Write
  <2> QED
    BY <1>0, <2>1, NewRows, EdgesOfServices, WriteOnTime
<1>3. CASE VerifyByReference
  <2>1. PICK excuse : /\ WriteRow(Moved("PAID"), {}, excuse) /\ tx' = "none"
                      /\ order.status \notin {"AWAITING_PAYMENT", "PAID"} => "overtaken" \in excuse
    BY <1>3 DEF VerifyByReference, Write
  <2>2. order.status \in {"AWAITING_PAYMENT", "PAID"}
    BY <2>1 DEF WriteRow
  <2> QED
    BY <1>0, <2>1, <2>2, NewRows, EdgesOfServices, WriteOnTime
<1>4. CASE EndTransaction
  <2>1. CASE UNCHANGED <<order, happened>>
    BY <1>4, <2>1 DEF EndTransaction, StatusStep, TxStep
  <2>2. CASE tx = "hold" /\ WriteRow(Funded, {"HOLD"}, {})
    BY <1>0, <1>4, <2>2, NewRows, EdgesOfServices, WriteOnTime DEF EndTransaction, WayOut
  <2>3. CASE tx = "refund" /\ WriteRow(Refunded, {"REFUND"}, {})
    BY <1>0, <1>4, <2>3, NewRows, EdgesOfServices, WriteOnTime DEF EndTransaction, WayOut
  <2> QED
    BY <1>4, <2>1, <2>2, <2>3 DEF EndTransaction
<1>5. ASSUME NEW i \in 1 .. Now, HoldFunds(i) \/ RefundFunds(i) PROVE StatusStep /\ TxStep
  <2>1. UNCHANGED <<order, happened>> /\ gap' = gap \cup Overtaken(i)
    BY <1>5 DEF HoldFunds, RefundFunds, BeginInTransaction
  <2>2. Readings[i] = order
    BY <2>1, OnTime DEF Overtaken
  <2> QED
    BY <1>5, <2>1, <2>2 DEF HoldFunds, RefundFunds, BeginInTransaction, StatusStep, TxStep
<1>6. CASE ProcessDies
  BY <1>6 DEF ProcessDies, StatusStep, TxStep
<1>7. ASSUME (\E e \in Event : ListenerStep(e) \/ ListenerThrows(e)) \/ \E m \in mails : SendNow(m)
      PROVE  UNCHANGED <<order, happened, tx>>
  BY <1>7 DEF ListenerStep, ListenerThrows, SendNow, orderVars
<1>8. UNCHANGED noticeVars => UNCHANGED <<order, happened, tx>>
  BY DEF noticeVars, orderVars
<1> QED
  BY <1>1, <1>2, <1>3, <1>4, <1>5, <1>6, <1>7, <1>8, HandlersOnTime DEF NoticesNext

LEMMA WayOutAlways == NoticesSpec => []WayOut
<1>1. NoticesInit => WayOut
  BY DEF NoticesInit, WayOut
<1>2. ASSUME WayOut, RowsTyped, [NoticesNext]_noticeVars PROVE WayOut'
  <2> SUFFICES ASSUME "overtaken" \notin gap'
               PROVE  WayOut'
    BY DEF WayOut
  <2>0. "overtaken" \notin gap /\ StatusStep /\ TxStep
    BY <1>2, GapGrows, NoticeSteps
  <2>1. CASE UNCHANGED <<order, happened>>
    BY <1>2, <2>0, <2>1 DEF WayOut, TxStep
  <2>2. CASE ~UNCHANGED <<order, happened>>
    <3>1. /\ order'.status = order.status \/ OnTable(order.status, order'.status)
          /\ "RELEASE" \in happened' => "RELEASE" \in happened \/ order'.status = "COMPLETED"
          /\ "REFUND" \in happened' => "REFUND" \in happened \/ order'.status = "REFUNDED"
      BY <2>0, <2>2 DEF StatusStep
    <3>2. \/ order'.status = order.status
          \/ order.status \notin {"COMPLETED", "REFUNDED", "CANCELLED"}
      BY <3>1, EdgesLead
    <3>3. /\ "RELEASE" \in happened' => order'.status = "COMPLETED"
          /\ "REFUND" \in happened' => order'.status = "REFUNDED"
      BY <1>2, <2>0, <3>1, <3>2 DEF WayOut
    <3>4. /\ tx' = "hold" => order'.status = "AWAITING_PAYMENT"
          /\ tx' = "refund" => order'.status = "DISPUTED"
      BY <1>2, <2>0 DEF WayOut, TxStep
    <3> QED
      BY <3>3, <3>4 DEF WayOut
  <2> QED
    BY <2>1, <2>2
<1> QED
  BY <1>1, <1>2, RowsAlwaysTyped, PTL DEF NoticesSpec

(* Off ORDER_STATE_MACHINE the order the parties are told of is taken by nothing but  *)
(* a write that was overtaken, although only updateStatus() consults the table: every *)
(* handler that writes the order it has read follows it, whatever was told or failed. *)
THEOREM NoticesTableFollowed ==
  NoticesSpec => [][\/ order'.status = order.status \/ OnTable(order.status, order'.status)
                    \/ "overtaken" \in gap']_noticeVars
<1>1. WayOut /\ RowsTyped /\ [NoticesNext]_noticeVars
        => [\/ order'.status = order.status \/ OnTable(order.status, order'.status)
            \/ "overtaken" \in gap']_noticeVars
  BY NoticeSteps DEF StatusStep
<1> QED
  BY <1>1, WayOutAlways, RowsAlwaysTyped, PTL DEF NoticesSpec

(* That the funds were released and that they were refunded is told of one order only *)
(* if a movement was announced that did not take place, or if one of the handlers had *)
(* read an older order than it wrote over: a release and a refund that both passed    *)
(* their checks.  In every other behaviour one of the two excludes the other, even    *)
(* by the event of a refund whose transaction is still open.                          *)
THEOREM ToldOneWay ==
  NoticesSpec =>
    [](\A n, m \in rows :
         /\ n.type \in DOMAIN Fact /\ m.type \in DOMAIN Fact
         /\ Fact[n.type] = "RELEASE" /\ Fact[m.type] = "REFUND"
         => gap \cap {"money", "overtaken"} # {})
<1> DEFINE OneWay == \A n, m \in rows :
                       /\ n.type \in DOMAIN Fact /\ m.type \in DOMAIN Fact
                       /\ Fact[n.type] = "RELEASE" /\ Fact[m.type] = "REFUND"
                       => gap \cap {"money", "overtaken"} # {}
<1>1. ASSUME NoticesInv, WayOut PROVE OneWay
  <2> SUFFICES ASSUME NEW n \in rows, NEW m \in rows,
                      n.type \in DOMAIN Fact, m.type \in DOMAIN Fact,
                      Fact[n.type] = "RELEASE", Fact[m.type] = "REFUND",
                      "money" \notin gap, "overtaken" \notin gap
               PROVE  FALSE
    OBVIOUS
  <2>1. Known(Fact[n.type]) /\ Known(Fact[m.type])
    BY <1>1 DEF NoticesInv
  <2>2. Known("RELEASE") /\ Known("REFUND")
    BY <2>1
  <2>3. "RELEASE" \in happened /\ ("REFUND" \in happened \/ tx = "refund")
    BY <2>2 DEF Known
  <2> QED
    BY <1>1, <2>3 DEF WayOut
<1>2. NoticesSpec => []NoticesInv
  BY NoticesInvInit, NoticesInvStep, RowsAlwaysTyped, PTL DEF NoticesSpec
<1> QED
  BY <1>1, <1>2, WayOutAlways, PTL
===================================================================================
