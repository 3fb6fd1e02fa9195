------------------------------- MODULE OrderDeskProofs -------------------------------
(* What holds of the order and of the pages of OrderDesk for any number of people,      *)
(* calls and pages: a click on an outdated page is refused, a page shows what it has    *)
(* changed, and the pages offer what the server accepts.                                *)
EXTENDS OrderDesk, FiniteSetTheorems, TLAPS

-----------------------------------------------------------------------------------
(* The offers, page by page, with what the page asks of the order it shows.             *)
Offer(pg, p, act, o) ==
  \/ act = Act("confirm") /\ o.status = "PENDING_BUYER" /\ o.addressee = p
  \/ act = Act("pay") /\ o.status = "AWAITING_PAYMENT" /\ IsBuyer(p, o)
  \/ act = Act("raise") /\ o.status = "DELIVERED" /\ IsBuyer(p, o)
  \/ act = Act("scan") /\ RiderListed(o) /\ p \in Riders
  \/ act = StatusAct("SHIPPED") /\ o.status = "PAID" /\ o.seller = p
  \/ act = StatusAct("IN_TRANSIT") /\ o.status = "SHIPPED" /\ p \in Riders
  \/ act = StatusAct("DELIVERED") /\ o.status = "IN_TRANSIT" /\ p \in Riders
  \/ act = StatusAct("COMPLETED") /\ o.status = "DELIVERED" /\ IsBuyer(p, o)
  \/ act \in AssignRiderModal /\ o.status = "SHIPPED" /\ p \in Admins
  \/ act \in {StatusAct("COMPLETED"), StatusAct("REFUNDED")} /\ o.dispute = "OPEN" /\ p \in Admins
       /\ pg = "adminDisputes"

LEMMA OfferTable ==
  ASSUME NEW p \in People, NEW o \in DeskRow, o.rider \in Riders \cup {NoOne},
         NEW pg \in PagesOf(p), NEW act \in OffersOn(pg, p, o)
  PROVE  Offer(pg, p, act, o)
<1>0. p # NoOne
  BY NoOneIsNobody
<1>1. CASE pg = "order"
  <2>1. act \in OrderActions(p, o) \cup DisputeCard(p, o)
    BY <1>1 DEF OffersOn
  <2>2. CASE act \in DisputeCard(p, o)
    BY <2>2 DEF DisputeCard, When, Offer
  <2>3. CASE act \in OrderActions(p, o)
    <3>1. \/ o.status = "PENDING_BUYER" /\ MatchesEmail(p, o) /\ act \in {Act("confirm")}
          \/ o.status = "AWAITING_PAYMENT" /\ IsBuyer(p, o) /\ act \in {Act("pay")}
          \/ act \in SellerActions(p, o) \cup RiderActions(p, o) \cup BuyerActions(p, o)
      BY <2>3 DEF OrderActions
    <3>2. act \in SellerActions(p, o) => Offer(pg, p, act, o)
      BY DEF SellerActions, When, Offer
    <3>3. act \in RiderActions(p, o) => Offer(pg, p, act, o)
      BY <1>0 DEF RiderActions, When, Offer
    <3>4. act \in BuyerActions(p, o) => Offer(pg, p, act, o)
      BY DEF BuyerActions, When, Offer
    <3> QED
      BY <3>1, <3>2, <3>3, <3>4 DEF Offer, MatchesEmail
  <2> QED
    BY <2>1, <2>2, <2>3
<1>2. CASE pg = "payments"
  BY <1>2 DEF OffersOn, Payments, When, Offer
<1>3. CASE pg \in RiderLayout(p)
  <2>1. p \in Riders /\ pg \in {"riderOrders", "riderOrder"}
    BY <1>3 DEF RiderLayout, When
  <2>2. act \in RiderOrders(o) \cup RiderOrder(o)
    BY <2>1 DEF OffersOn
  <2> QED
    BY <2>1, <2>2 DEF RiderOrders, RiderOrderCard, RiderOrderRow, GetRiderAction, RiderOrder, When, Offer
<1>4. CASE pg \in AdminLayout(p)
  <2>1. p \in Admins /\ pg \in {"adminOrders", "adminDisputes"}
    BY <1>4 DEF AdminLayout, When
  <2>2. act \in AdminOrders(o) \/ (act \in AdminDisputes(o) /\ pg = "adminDisputes")
    BY <2>1 DEF OffersOn
  <2> QED
    BY <2>1, <2>2 DEF AdminOrders, AdminDisputes, When, Offer
<1> QED
  BY <1>1, <1>2, <1>3, <1>4 DEF PagesOf

(* what does not depend on the page any more: who sends which act, and from which status *)
Leaves(act, s) ==
  \/ act.do = "confirm" /\ s = "PENDING_BUYER"
  \/ act.do = "pay" /\ s = "AWAITING_PAYMENT"
  \/ act.do = "raise" /\ s = "DELIVERED"
  \/ act.do = "status" /\ act.to = "SHIPPED" /\ s = "PAID"
  \/ act.do = "status" /\ act.to = "IN_TRANSIT" /\ s = "SHIPPED"
  \/ act.do = "status" /\ act.to = "DELIVERED" /\ s = "IN_TRANSIT"
  \/ act.do = "status" /\ act.to = "COMPLETED" /\ s = "DELIVERED"

Fits(p, act, o) ==
  /\ act \in Acts
  /\ act.do = "status" => act.to \in {"SHIPPED", "IN_TRANSIT", "DELIVERED", "COMPLETED", "REFUNDED"}
  /\ act.do = "status" /\ act.to \in {"IN_TRANSIT", "DELIVERED"} => p \in Riders
  /\ act.do = "status" /\ act.to = "REFUNDED" => p \in Admins /\ o.dispute # "NONE"
  /\ act.do = "assign" => p \in Admins

LEMMA ActParts ==
  /\ \A do : Act(do).do = do /\ Act(do).to = "none"
  /\ \A to : StatusAct(to).do = "status" /\ StatusAct(to).to = to
  /\ \A rider : AssignAct(rider).do = "assign" /\ AssignAct(rider).to = rider
BY DEF Act, StatusAct, AssignAct

LEMMA OfferFits ==
  ASSUME NEW pg, NEW p, NEW o, NEW act, Offer(pg, p, act, o)
  PROVE  /\ Fits(p, act, o)
         /\ p \notin Admins /\ act.do # "scan" => Leaves(act, o.status)
<1>1. act \in Acts
  BY DEF Offer, Acts, AssignRiderModal, OrderStatus
<1>2. CASE act \in AssignRiderModal /\ o.status = "SHIPPED" /\ p \in Admins
  BY <1>1, <1>2, ActParts DEF AssignRiderModal, Fits
<1>3. CASE act \notin AssignRiderModal
  <2>1. \/ act.do = "confirm" /\ o.status = "PENDING_BUYER"
        \/ act.do = "pay" /\ o.status = "AWAITING_PAYMENT"
        \/ act.do = "raise" /\ o.status = "DELIVERED"
        \/ act.do = "scan"
        \/ act.do = "status" /\ act.to = "SHIPPED" /\ o.status = "PAID"
        \/ act.do = "status" /\ act.to = "IN_TRANSIT" /\ o.status = "SHIPPED" /\ p \in Riders
        \/ act.do = "status" /\ act.to = "DELIVERED" /\ o.status = "IN_TRANSIT" /\ p \in Riders
        \/ act.do = "status" /\ act.to = "COMPLETED" /\ o.status = "DELIVERED"
        \/ act.do = "status" /\ act.to = "COMPLETED" /\ p \in Admins
        \/ act.do = "status" /\ act.to = "REFUNDED" /\ o.dispute = "OPEN" /\ p \in Admins
    BY <1>3, ActParts DEF Offer
  <2> QED
    BY <1>1, <2>1 DEF Fits, Leaves
<1>4. act \in AssignRiderModal => act.do = "assign"
  BY ActParts DEF AssignRiderModal
<1>5. act.do = "assign" => act \in AssignRiderModal /\ o.status = "SHIPPED" /\ p \in Admins
  BY ActParts DEF Offer
<1> QED
  BY <1>2, <1>3, <1>4, <1>5

-----------------------------------------------------------------------------------
(* The handlers: the status each of them finds, for whom.                               *)
LEMMA TableEdges ==
  ASSUME NEW from, NEW to, NEW role, ValidTransition(from, to, role)
  PROVE  /\ to = "SHIPPED" => from = "PAID"
         /\ to = "IN_TRANSIT" => from = "SHIPPED" /\ role \in {"RIDER", "ADMIN"}
         /\ to = "DELIVERED" => from = "IN_TRANSIT"
         /\ to = "COMPLETED" => from = "DELIVERED" \/ (from = "DISPUTED" /\ role = "ADMIN")
         /\ to = "REFUNDED" => from \in {"PAID", "DISPUTED"}
<1>1. PICK e \in ORDER_STATE_MACHINE : e.from = from /\ e.to = to /\ role \in e.roles
  BY DEF ValidTransition
<1> QED
  BY <1>1 DEF ORDER_STATE_MACHINE, Edge

LEMMA Roles ==
  ASSUME NEW p, NEW o
  PROVE  /\ RoleOn(p, o) = "ADMIN" => p \in Admins
         /\ RoleOn(p, o) = "RIDER" => o.rider = p
BY DEF RoleOn

(* what a handler has made sure of when it goes on to write                             *)
Met(p, act, o, paid) ==
  /\ act.do = "confirm" => o.status = "PENDING_BUYER" /\ o.addressee = p
  /\ act.do = "pay" => o.status = "AWAITING_PAYMENT" /\ ~paid
  /\ act.do = "raise" => o.status = "DELIVERED"
  /\ act.do = "assign" => o.status = "SHIPPED" /\ act.to \in Riders
  /\ act.do = "status" => /\ act.to = "SHIPPED" => o.status = "PAID"
                          /\ act.to = "IN_TRANSIT" => o.status = "SHIPPED" /\ o.rider = p
                          /\ act.to = "DELIVERED" => o.status = "IN_TRANSIT"
                          /\ act.to = "COMPLETED" => o.status \in {"DELIVERED", "DISPUTED"}
                          /\ act.to = "REFUNDED" => o.status \in {"PAID", "DISPUTED"}

LEMMA AcceptedMet ==
  ASSUME NEW p, NEW act, NEW o, Accepts(p, act, o), Fits(p, act, o)
  PROVE  /\ Met(p, act, o, Settled)
         /\ p \notin Admins /\ act.do # "scan" => Leaves(act, o.status)
<1>0. Agrees(p, act, o)
  BY DEF Accepts
<1>1. act.do \in {"confirm", "pay", "raise", "scan", "assign", "status"}
  BY ActParts DEF Fits, Acts
<1>2. CASE act.do = "status"
  <2>1. ValidTransition(o.status, act.to, RoleOn(p, o))
    BY <1>0, <1>2 DEF Agrees
  <2>2. act.to \in {"IN_TRANSIT", "DELIVERED"} => p \notin Admins
    BY <1>2, RolesOfPeople DEF Fits
  <2> QED
    BY <1>2, <2>1, <2>2, TableEdges, Roles DEF Met, Leaves, Fits
<1>3. CASE act.do = "assign"
  BY <1>0, <1>3, ActParts DEF Agrees, Met, Fits, Acts
<1>4. CASE act.do \in {"confirm", "pay", "raise", "scan"}
  BY <1>0, <1>4 DEF Agrees, Met, Leaves
<1> QED
  BY <1>1, <1>2, <1>3, <1>4

-----------------------------------------------------------------------------------
(* The rows the handlers write.                                                         *)
LEMMA StampedRow ==
  ASSUME NEW o \in DeskRow, NEW status \in OrderStatus
  PROVE  /\ Stamped(o, status) \in DeskRow
         /\ Stamped(o, status).status = status /\ Stamped(o, status).stamps = o.stamps \cup {status}
         /\ Stamped(o, status).escrow = o.escrow /\ Stamped(o, status).dispute = o.dispute
         /\ Stamped(o, status).seller = o.seller /\ Stamped(o, status).addressee = o.addressee
         /\ Stamped(o, status).buyer = o.buyer /\ Stamped(o, status).rider = o.rider
BY DEF Stamped, DeskRow

(* the fields of a row that has moved on to another status                              *)
Moved(o, row, status) ==
  /\ row \in DeskRow
  /\ row.status = status /\ row.stamps = o.stamps \cup {status}
  /\ row.seller = o.seller /\ row.addressee = o.addressee /\ row.rider = o.rider

LEMMA ReleasedRow ==
  ASSUME NEW o \in DeskRow
  PROVE  /\ Moved(o, Released(o), "COMPLETED")
         /\ Released(o).escrow = "RELEASED" /\ Released(o).dispute = o.dispute
         /\ Released(o).buyer = o.buyer
<1> DEFINE s == Stamped(o, "COMPLETED")
<1>1. /\ s \in DeskRow /\ Moved(o, s, "COMPLETED")
      /\ s.dispute = o.dispute /\ s.buyer = o.buyer
  BY StampedRow DEF Moved, OrderStatus
<1>2. Released(o) = [s EXCEPT !.escrow = "RELEASED"]
  BY DEF Released
<1> HIDE DEF s
<1> QED
  BY <1>1, <1>2 DEF Moved, DeskRow

LEMMA ConfirmedRow ==
  ASSUME NEW o \in DeskRow, NEW p \in People
  PROVE  LET row == [Stamped(o, "AWAITING_PAYMENT") EXCEPT !.buyer = p] IN
         /\ Moved(o, row, "AWAITING_PAYMENT")
         /\ row.escrow = o.escrow /\ row.dispute = o.dispute /\ row.buyer = p
<1> DEFINE s == Stamped(o, "AWAITING_PAYMENT")
<1>1. /\ s \in DeskRow /\ Moved(o, s, "AWAITING_PAYMENT")
      /\ s.dispute = o.dispute /\ s.escrow = o.escrow
  BY StampedRow DEF Moved, OrderStatus
<1> HIDE DEF s
<1>2. LET row == [s EXCEPT !.buyer = p] IN
      /\ Moved(o, row, "AWAITING_PAYMENT")
      /\ row.escrow = o.escrow /\ row.dispute = o.dispute /\ row.buyer = p
  BY <1>1 DEF Moved, DeskRow
<1> QED
  BY <1>2 DEF s

LEMMA DisputedRow ==
  ASSUME NEW o \in DeskRow
  PROVE  LET row == [Stamped(o, "DISPUTED") EXCEPT !.escrow = "DISPUTED", !.dispute = "OPEN"] IN
         /\ Moved(o, row, "DISPUTED")
         /\ row.escrow = "DISPUTED" /\ row.dispute = "OPEN" /\ row.buyer = o.buyer
<1> DEFINE s == Stamped(o, "DISPUTED")
<1>1. s \in DeskRow /\ Moved(o, s, "DISPUTED") /\ s.buyer = o.buyer
  BY StampedRow DEF Moved, OrderStatus
<1> HIDE DEF s
<1>2. LET row == [s EXCEPT !.escrow = "DISPUTED", !.dispute = "OPEN"] IN
      /\ Moved(o, row, "DISPUTED")
      /\ row.escrow = "DISPUTED" /\ row.dispute = "OPEN" /\ row.buyer = o.buyer
  BY <1>1 DEF Moved, DeskRow
<1> QED
  BY <1>2 DEF s

LEMMA PaidRow ==
  ASSUME NEW o \in DeskRow
  PROVE  LET row == [Stamped(o, "PAID") EXCEPT !.escrow = "HOLDING"] IN
         /\ Moved(o, row, "PAID")
         /\ row.escrow = "HOLDING" /\ row.dispute = o.dispute /\ row.buyer = o.buyer
<1> DEFINE s == Stamped(o, "PAID")
<1>1. s \in DeskRow /\ Moved(o, s, "PAID") /\ s.buyer = o.buyer /\ s.dispute = o.dispute
  BY StampedRow DEF Moved, OrderStatus
<1> HIDE DEF s
<1>2. LET row == [s EXCEPT !.escrow = "HOLDING"] IN
      /\ Moved(o, row, "PAID")
      /\ row.escrow = "HOLDING" /\ row.dispute = o.dispute /\ row.buyer = o.buyer
  BY <1>1 DEF Moved, DeskRow
<1> QED
  BY <1>2 DEF s

LEMMA AssignedRow ==
  ASSUME NEW o \in DeskRow, NEW rider \in Riders
  PROVE  LET row == [o EXCEPT !.rider = rider] IN
         /\ row \in DeskRow /\ row.rider = rider
         /\ row.status = o.status /\ row.stamps = o.stamps /\ row.escrow = o.escrow
         /\ row.dispute = o.dispute /\ row.seller = o.seller /\ row.addressee = o.addressee
         /\ row.buyer = o.buyer
BY RolesOfPeople DEF DeskRow

-----------------------------------------------------------------------------------
(* The inductive invariant, in four parts.  The row: its timestamps are where it has     *)
(* been, and only riders carry it.                                                      *)
RowInv ==
  /\ order \in DeskRow /\ checkout \in Checkout /\ overtaken \in Nat
  /\ asked \in BOOLEAN /\ late \in BOOLEAN
  /\ asked => checkout \notin {"none", "open"}
  /\ order.stamps = reached /\ order.status \in reached
  /\ order.rider \in Riders \cup {NoOne}
  /\ events \in Seq(OrderStatus) /\ \A i \in DOMAIN events : events[i] \in reached

(* A call in flight: what its button asked for and, once the server has read the row,    *)
(* that it found the status shown at the click; as long as the reading holds, the row     *)
(* still meets what the handler asks.                                                     *)
CallTrue(k, o, paid, past) ==
  /\ Fits(k.by, k.act, o)
  /\ k.clicked # "none" => k.by \notin Admins /\ Leaves(k.act, k.clicked)
  /\ k.pc \in {"checked", "done"} => k.read \in past /\ (k.clicked # "none" => k.read = k.clicked)
  /\ k.pc = "checked" /\ k.fresh /\ k.act.do # "scan" => Met(k.by, k.act, o, paid)
  /\ k.pc = "done" => Set(k.act) \subseteq past

CallOK(k, o, paid, past) == k = NoCall \/ (k \in Call /\ CallTrue(k, o, paid, past))

CallsInv ==
  /\ call \in [Calls -> Call \cup {NoCall}]
  /\ \A c \in Calls : CallOK(call[c], order, Settled, reached)

(* The page: what it shows is an earlier state of the row, at least as late as what its   *)
(* own calls have done; a modal is open over a delivered order only.                      *)
TabInv ==
  /\ viewer \in People /\ tab \in Tab
  /\ tab.page \in PagesOf(viewer) \cup {"none"}
  /\ tab.page = "none" => tab.view = NoView /\ ~tab.loading
  /\ tab.mine \subseteq reached
  /\ tab.view # NoView => /\ tab.view.rider \in Riders \cup {NoOne}
                          /\ tab.view.dispute # "NONE" => order.dispute # "NONE"
  /\ Shown => tab.mine \subseteq tab.view.stamps
  /\ tab.modal # "none" => Shown /\ tab.view.status = "DELIVERED"

(* a page waits for one call at a time                                                    *)
OwnInv == \A c \in Own : tab.page # "none" /\ \A d \in Own : d = c

DeskInv == RowInv /\ CallsInv /\ TabInv /\ OwnInv

-----------------------------------------------------------------------------------
(* One call at a time: what the steps make of its record.                                 *)
LEMMA CallShapes ==
  /\ NoCall.pc = "idle"
  /\ \A k \in Call : /\ k.pc \in {"sent", "checked", "done", "refused"} /\ k.pc # "idle"
                     /\ k.by \in People /\ k.act \in Acts /\ k.own \in BOOLEAN
                     /\ k.read \in OrderStatus \cup {"none"} /\ k.fresh \in BOOLEAN
                     /\ k.clicked \in OrderStatus \cup {"none"}
BY DEF NoCall, Call

LEMMA LeavesOnce ==
  ASSUME NEW act, NEW s, NEW t, Leaves(act, s), Leaves(act, t)
  PROVE  s = t
BY DEF Leaves

LEMMA StaleCall ==
  ASSUME NEW k \in Call, NEW o, NEW paid, NEW past, CallTrue(k, o, paid, past)
  PROVE  LET s == [k EXCEPT !.fresh = FALSE] IN
         CallOK(s, o, paid, past) /\ s \in Call /\ s.pc = k.pc /\ s.own = k.own /\ ~s.fresh
<1> DEFINE s == [k EXCEPT !.fresh = FALSE]
<1>1. /\ s \in Call /\ s.by = k.by /\ s.act = k.act /\ s.clicked = k.clicked /\ s.read = k.read
      /\ s.pc = k.pc /\ s.own = k.own /\ s.fresh = FALSE
  BY DEF Call
<1> HIDE DEF s
<1>2. CallOK(s, o, paid, past)
  BY <1>1 DEF CallOK, CallTrue
<1> QED
  BY <1>1, <1>2 DEF s

LEMMA EndedCall ==
  ASSUME NEW k \in Call, NEW pc \in {"done", "refused"}, NEW o, NEW paid, NEW past,
         CallTrue(k, o, paid, past),
         pc = "done" => k.pc = "checked" /\ Set(k.act) \subseteq past
  PROVE  /\ CallOK([k EXCEPT !.pc = pc], o, paid, past)
         /\ [k EXCEPT !.pc = pc] \in Call /\ [k EXCEPT !.pc = pc].pc = pc
<1> DEFINE s == [k EXCEPT !.pc = pc]
<1>1. /\ s \in Call /\ s.by = k.by /\ s.act = k.act /\ s.clicked = k.clicked /\ s.read = k.read
      /\ s.pc = pc
  BY DEF Call
<1> HIDE DEF s
<1>2. CallOK(s, o, paid, past)
  BY <1>1 DEF CallOK, CallTrue
<1> QED
  BY <1>1, <1>2 DEF s

LEMMA CheckedCall ==
  ASSUME NEW k \in Call, NEW o, NEW paid, NEW past, CallTrue(k, o, paid, past),
         o.status \in OrderStatus, o.status \in past, Met(k.by, k.act, o, paid),
         k.by \notin Admins /\ k.act.do # "scan" => Leaves(k.act, o.status)
  PROVE  CallOK([k EXCEPT !.pc = "checked", !.read = o.status, !.fresh = TRUE], o, paid, past)
<1> DEFINE s == [k EXCEPT !.pc = "checked", !.read = o.status, !.fresh = TRUE]
<1>1. /\ s \in Call /\ s.by = k.by /\ s.act = k.act /\ s.clicked = k.clicked
      /\ s.read = o.status /\ s.pc = "checked"
  BY DEF Call
<1> HIDE DEF s
<1>2. k.clicked # "none" => k.clicked = o.status
  <2>1. k.clicked # "none" => k.act.do # "scan"
    BY DEF CallTrue, Leaves
  <2> QED
    BY <2>1, LeavesOnce DEF CallTrue
<1>3. CallOK(s, o, paid, past)
  BY <1>1, <1>2 DEF CallOK, CallTrue
<1> QED
  BY <1>3 DEF s

(* the row moves on: what the calls know of it stays true, but for a reading              *)
LEMMA CallAfterWrite ==
  ASSUME NEW k, NEW o, NEW r, NEW paid, NEW after, NEW past, NEW later,
         CallOK(k, o, paid, past), past \subseteq later,
         o.dispute # "NONE" => r.dispute # "NONE",
         k \in Call /\ k.pc = "checked" /\ k.fresh /\ k.act.do # "scan"
           => Met(k.by, k.act, r, after)
  PROVE  CallOK(k, r, after, later)
BY DEF CallOK, CallTrue, Fits

(* the answer to a call                                                                   *)
LEMMA AnsweredCalls ==
  ASSUME DeskInv, NEW c \in Calls, call[c] # NoCall, NEW pc \in {"done", "refused"},
         NEW past, reached \subseteq past,
         pc = "done" => call[c].pc = "checked" /\ Set(call[c].act) \subseteq past
  PROVE  /\ Answered(c, pc) \in [Calls -> Call \cup {NoCall}]
         /\ \A d \in Calls : CallOK(Answered(c, pc)[d], order, Settled, past)
         /\ \A d \in Calls : Answered(c, pc)[d].pc # "idle" /\ Answered(c, pc)[d].own => d \in Own
<1> DEFINE k == call[c]
           e == [k EXCEPT !.pc = pc]
<1>1. call \in [Calls -> Call \cup {NoCall}]
  BY DEF DeskInv, CallsInv
<1>2. \A d \in Calls : CallOK(call[d], order, Settled, past)
  BY DEF DeskInv, CallsInv, CallOK, CallTrue
<1>3. k \in Call /\ CallTrue(k, order, Settled, past)
  BY <1>2 DEF CallOK
<1>4. e \in Call /\ CallOK(e, order, Settled, past)
  BY <1>3, EndedCall
<1>5. Answered(c, pc) = [call EXCEPT ![c] = IF k.own THEN e ELSE NoCall]
  BY <1>1 DEF Answered
<1>6. k.pc # "idle"
  BY <1>3, CallShapes
<1> HIDE DEF k, e
<1>7. \A d \in Calls : Answered(c, pc)[d] = IF d = c THEN IF k.own THEN e ELSE NoCall ELSE call[d]
  BY <1>1, <1>5
<1>8. Answered(c, pc) \in [Calls -> Call \cup {NoCall}]
  BY <1>1, <1>4, <1>5
<1>9. \A d \in Calls : CallOK(Answered(c, pc)[d], order, Settled, past)
  BY <1>2, <1>4, <1>7 DEF CallOK
<1>10. ASSUME NEW d \in Calls, Answered(c, pc)[d].pc # "idle", Answered(c, pc)[d].own
       PROVE  d \in Own
  <2>1. CASE d = c
    BY <1>6, <1>7, <1>10, <2>1, CallShapes DEF Own, k
  <2>2. CASE d # c
    BY <1>7, <1>10, <2>2 DEF Own
  <2> QED
    BY <2>1, <2>2
<1> QED
  BY <1>8, <1>9, <1>10

-----------------------------------------------------------------------------------
(* The row moves on.                                                                      *)
Onward(o, row) ==
  /\ row \in DeskRow /\ row.stamps = o.stamps \cup {row.status}
  /\ row.rider \in Riders \cup {NoOne}
  /\ o.dispute # "NONE" => row.dispute # "NONE"

LEMMA NewTabs ==
  ASSUME NEW pg \in Page \cup {"none"}, NEW callback \in BOOLEAN
  PROVE  LET t == NewTab(pg, callback) IN
         /\ t \in Tab /\ t.page = pg /\ t.view = NoView /\ t.modal = "none" /\ t.mine = {}
         /\ pg = "none" => ~t.loading
BY DEF NewTab, Tab, Modal

(* a page that is opened anew shows nothing yet                                            *)
LEMMA NewTabKeeps ==
  ASSUME TabInv, viewer' = viewer, NEW pg \in PagesOf(viewer) \cup {"none"}, NEW callback \in BOOLEAN,
         tab' = NewTab(pg, callback)
  PROVE  TabInv' /\ tab'.page = pg
<1>1. pg \in Page \cup {"none"}
  BY DEF PagesOf, AdminLayout, RiderLayout, When, Page
<1> QED
  BY <1>1, NewTabs DEF TabInv, Shown

LEMMA RowMoved ==
  ASSUME DeskInv, NEW row, NEW calls, WriteRow(row, calls), UNCHANGED viewer,
         tab' = tab \/ tab' = NewTab("payments", FALSE),
         Onward(order, row),
         checkout' \in Checkout, overtaken' \in Nat, asked' \in BOOLEAN, late' \in BOOLEAN,
         asked' => checkout' \notin {"none", "open"},
         row = order /\ Settled' => Settled \/ order.status # "AWAITING_PAYMENT",
         events' \in Seq(OrderStatus), \A i \in DOMAIN events' : events'[i] \in reached,
         calls \in [Calls -> Call \cup {NoCall}],
         \A d \in Calls : CallOK(calls[d], order, Settled, reached \cup {row.status}),
         \A d \in Calls : calls[d].pc # "idle" /\ calls[d].own => d \in Own
  PROVE  DeskInv'
<1>1. order' = row /\ reached' = reached \cup {row.status}
  BY DEF WriteRow
<1>2. RowInv'
  BY <1>1 DEF DeskInv, RowInv, Onward
<1>3. TabInv' /\ (tab.page # "none" => tab'.page # "none")
  <2>1. CASE tab' = tab
    BY <1>1, <2>1 DEF DeskInv, TabInv, Shown, Onward
  <2>2. CASE tab' = NewTab("payments", FALSE)
    <3>1. TabInv /\ viewer' = viewer /\ "payments" \in PagesOf(viewer)
      BY DEF DeskInv, PagesOf
    <3>2. TabInv' /\ tab'.page = "payments"
      BY <2>2, <3>1, NewTabKeeps
    <3> QED
      BY <3>2
  <2> QED
    BY <2>1, <2>2
<1> DEFINE Late(d) == calls[d].pc = "checked" /\ calls[d].act.do # "scan"
           stale == [d \in Calls |-> IF Late(d) THEN [calls[d] EXCEPT !.fresh = FALSE] ELSE calls[d]]
<1>4. call' = IF row = order THEN calls ELSE stale
  BY DEF WriteRow
<1>5. ASSUME NEW d \in Calls
      PROVE  /\ call'[d] \in Call \cup {NoCall}
             /\ CallOK(call'[d], order, Settled, reached')
             /\ row # order /\ call'[d] \in Call /\ call'[d].pc = "checked"
                  /\ call'[d].act.do # "scan" => ~call'[d].fresh
             /\ call'[d].pc # "idle" /\ call'[d].own => d \in Own
  <2>1. calls[d] \in Call \cup {NoCall} /\ CallOK(calls[d], order, Settled, reached')
    BY <1>1
  <2>2. CASE row = order
    BY <1>4, <2>1, <2>2
  <2>3. CASE row # order /\ ~Late(d)
    <3>1. call'[d] = calls[d]
      BY <1>4, <2>3
    <3> QED
      BY <2>1, <2>3, <3>1
  <2>4. CASE row # order /\ Late(d)
    <3>1. call'[d] = [calls[d] EXCEPT !.fresh = FALSE]
      BY <1>4, <2>4
    <3>2. calls[d] \in Call /\ CallTrue(calls[d], order, Settled, reached')
      BY <2>1, <2>4, CallShapes DEF CallOK
    <3> QED
      BY <3>1, <3>2, StaleCall
  <2> QED
    BY <2>2, <2>3, <2>4
<1>6. call' \in [Calls -> Call \cup {NoCall}]
  <2>1. CASE row = order
    BY <1>4, <2>1
  <2>2. CASE row # order
    <3>1. call' = stale
      BY <1>4, <2>2
    <3>2. \A d \in Calls : stale[d] \in Call \cup {NoCall}
      BY <1>5, <3>1
    <3> HIDE DEF Late
    <3> QED
      BY <3>1, <3>2
  <2> QED
    BY <2>1, <2>2
<1> HIDE DEF stale, Late
<1>7. ASSUME NEW d \in Calls PROVE CallOK(call'[d], order', Settled', reached')
  <2>1. ASSUME call'[d] \in Call, call'[d].pc = "checked", call'[d].fresh, call'[d].act.do # "scan"
        PROVE  Met(call'[d].by, call'[d].act, order', Settled')
    <3>1. row = order /\ call'[d] # NoCall
      BY <1>5, <2>1, CallShapes
    <3>2. Met(call'[d].by, call'[d].act, order, Settled)
      BY <1>5, <2>1, <3>1 DEF CallOK, CallTrue
    <3> QED
      BY <1>1, <3>1, <3>2 DEF Met
  <2> QED
    BY <1>1, <1>5, <2>1, CallAfterWrite DEF Onward
<1>8. CallsInv'
  BY <1>6, <1>7 DEF CallsInv
<1>9. Own' \subseteq Own
  BY <1>5 DEF Own
<1>10. OwnInv'
  BY <1>3, <1>9 DEF DeskInv, OwnInv
<1> QED
  BY <1>2, <1>3, <1>8, <1>10 DEF DeskInv

LEMMA WrittenRow ==
  ASSUME RowInv, NEW act \in Acts, NEW p \in People
  PROVE  /\ Onward(order, Written(act, p, order))
         /\ Set(act) \subseteq reached \cup {Written(act, p, order).status}
<1> DEFINE row == Written(act, p, order)
<1>0. /\ order \in DeskRow /\ order.stamps = reached /\ order.status \in reached
      /\ order.stamps = order.stamps \cup {order.status}
      /\ order.rider \in Riders \cup {NoOne}
  BY DEF RowInv
<1>1. \/ act.do = "status" /\ act.to \in OrderStatus
      \/ act.do \in {"confirm", "pay", "raise", "scan"}
      \/ act.do = "assign" /\ act.to \in Riders
  BY ActParts DEF Acts
<1>2. CASE act.do = "status" /\ act.to = "COMPLETED" /\ order.escrow = "HOLDING"
  <2>1. row = Released(order)
    BY <1>2 DEF Written
  <2> HIDE DEF row
  <2> QED
    BY <1>0, <1>2, <2>1, ReleasedRow DEF Onward, Moved, Set, row
<1>3. CASE act.do = "status" /\ ~(act.to = "COMPLETED" /\ order.escrow = "HOLDING")
  <2>1. row = Stamped(order, act.to) /\ act.to \in OrderStatus
    BY <1>1, <1>3 DEF Written
  <2> HIDE DEF row
  <2> QED
    BY <1>0, <1>3, <2>1, StampedRow DEF Onward, Set, row
<1>4. CASE act.do = "confirm"
  <2>1. row = [Stamped(order, "AWAITING_PAYMENT") EXCEPT !.buyer = p]
    BY <1>4 DEF Written
  <2> HIDE DEF row
  <2>2. Moved(order, row, "AWAITING_PAYMENT") /\ row.dispute = order.dispute
    BY <1>0, <2>1, ConfirmedRow
  <2> QED
    BY <1>0, <1>4, <2>2 DEF Onward, Moved, Set, row
<1>5. CASE act.do = "raise"
  <2>1. row = [Stamped(order, "DISPUTED") EXCEPT !.escrow = "DISPUTED", !.dispute = "OPEN"]
    BY <1>5 DEF Written
  <2> HIDE DEF row
  <2>2. Moved(order, row, "DISPUTED") /\ row.dispute = "OPEN"
    BY <1>0, <2>1, DisputedRow
  <2> QED
    BY <1>0, <1>5, <2>2 DEF Onward, Moved, Set, row
<1>6. CASE act.do = "assign"
  <2>1. row = [order EXCEPT !.rider = act.to] /\ act.to \in Riders
    BY <1>1, <1>6 DEF Written
  <2> HIDE DEF row
  <2> QED
    BY <1>0, <1>6, <2>1, AssignedRow DEF Onward, Set, row
<1>7. CASE act.do \in {"pay", "scan"}
  <2>1. row = order
    BY <1>7 DEF Written
  <2> HIDE DEF row
  <2> QED
    BY <1>0, <1>7, <2>1 DEF Onward, Set, row
<1> QED
  BY <1>1, <1>2, <1>3, <1>4, <1>5, <1>6, <1>7

(* the calls change, the row and the page do not                                           *)
LEMMA CallsMoved ==
  ASSUME DeskInv, UNCHANGED <<rowVars, viewer, tab>>,
         call' \in [Calls -> Call \cup {NoCall}],
         \A d \in Calls : CallOK(call'[d], order, Settled, reached),
         \A d \in Calls : call'[d].pc # "idle" /\ call'[d].own => d \in Own
  PROVE  DeskInv'
<1>1. RowInv' /\ TabInv'
  BY DEF DeskInv, RowInv, TabInv, Shown, rowVars
<1>2. CallsInv'
  BY DEF CallsInv, Settled, rowVars
<1>3. OwnInv'
  BY DEF DeskInv, OwnInv, Own
<1> QED
  BY <1>1, <1>2, <1>3 DEF DeskInv

LEMMA BusyCall ==
  ASSUME DeskInv, NEW c \in Calls, call[c].pc # "idle"
  PROVE  /\ call[c] \in Call /\ call[c] # NoCall
         /\ CallTrue(call[c], order, Settled, reached)
BY CallShapes DEF DeskInv, CallsInv, CallOK

LEMMA WriteKeeps ==
  ASSUME DeskInv, NEW c \in Calls, Write(c)
  PROVE  DeskInv'
<1> DEFINE k == call[c]
           row == Written(k.act, k.by, order)
<1>1. /\ k \in Call /\ k # NoCall /\ k.pc = "checked"
      /\ CallTrue(k, order, Settled, reached)
  BY BusyCall DEF Write
<1>2. k.act \in Acts /\ k.by \in People
  BY <1>1, CallShapes
<1>3. CASE call' = Answered(c, "refused") /\ UNCHANGED rowVars
  BY <1>1, <1>3, AnsweredCalls, CallsMoved DEF Write
<1>4. CASE /\ WriteRow(row, Answered(c, "done"))
           /\ checkout' = IF k.act.do = "pay" /\ checkout = "none" THEN "open" ELSE checkout
           /\ late' = (late /\ order'.status = order.status /\ k.act # StatusAct("DELIVERED"))
           /\ events' = IF k.act.do = "scan" THEN Append(events, k.read) ELSE events
           /\ overtaken' = IF Harmless(c) THEN overtaken ELSE overtaken + 1
           /\ UNCHANGED asked
  <2>1. Onward(order, row) /\ Set(k.act) \subseteq reached \cup {row.status}
    BY <1>2, WrittenRow DEF DeskInv
  <2>2. k.read \in reached /\ reached \subseteq OrderStatus
    BY <1>1 DEF CallTrue, DeskInv, RowInv, DeskRow
  <2>3. events' \in Seq(OrderStatus) /\ \A i \in DOMAIN events' : events'[i] \in reached
    <3>1. events \in Seq(OrderStatus) /\ \A i \in DOMAIN events : events[i] \in reached
      BY DEF DeskInv, RowInv
    <3> QED
      BY <1>4, <2>2, <3>1
  <2>4. /\ checkout' \in Checkout /\ overtaken' \in Nat /\ asked' \in BOOLEAN
        /\ asked' => checkout' \notin {"none", "open"}
        /\ Settled' => Settled
    BY <1>4 DEF DeskInv, RowInv, Checkout, Settled
  <2>7. late' \in BOOLEAN
    BY <1>4 DEF DeskInv, RowInv
  <2> HIDE DEF row, k
  <2>5. /\ Answered(c, "done") \in [Calls -> Call \cup {NoCall}]
        /\ \A d \in Calls : CallOK(Answered(c, "done")[d], order, Settled, reached \cup {row.status})
        /\ \A d \in Calls : Answered(c, "done")[d].pc # "idle" /\ Answered(c, "done")[d].own => d \in Own
    BY <1>1, <2>1, AnsweredCalls DEF k
  <2>6. UNCHANGED <<viewer, tab>>
    BY DEF Write
  <2> QED
    BY <1>4, <2>1, <2>3, <2>4, <2>5, <2>6, <2>7, RowMoved
<1> QED
  BY <1>3, <1>4 DEF Write

LEMMA CheckKeeps ==
  ASSUME DeskInv, NEW c \in Calls, Check(c)
  PROVE  DeskInv'
<1> DEFINE k == call[c]
<1>1. /\ k \in Call /\ k # NoCall /\ CallTrue(k, order, Settled, reached)
  BY BusyCall DEF Check
<1>2. CASE call' = Answered(c, "refused")
  BY <1>1, <1>2, AnsweredCalls, CallsMoved DEF Check
<1>3. CASE /\ Accepts(k.by, k.act, order)
           /\ call' = [call EXCEPT ![c].pc = "checked", ![c].read = order.status, ![c].fresh = TRUE]
  <2> DEFINE s == [k EXCEPT !.pc = "checked", !.read = order.status, !.fresh = TRUE]
  <2>1. order.status \in OrderStatus /\ order.status \in reached
    BY DEF DeskInv, RowInv, DeskRow
  <2>2. CallOK(s, order, Settled, reached)
    <3>1. Met(k.by, k.act, order, Settled)
          /\ (k.by \notin Admins /\ k.act.do # "scan" => Leaves(k.act, order.status))
      BY <1>1, <1>3, AcceptedMet DEF CallTrue
    <3> QED
      BY <1>1, <2>1, <3>1, CheckedCall
  <2>3. s \in Call /\ s.own = k.own
    BY <1>1, <2>1 DEF Call
  <2>4. call \in [Calls -> Call \cup {NoCall}]
        /\ \A d \in Calls : CallOK(call[d], order, Settled, reached)
    BY DEF DeskInv, CallsInv
  <2>5. call' = [call EXCEPT ![c] = s]
    BY <1>3, <2>4
  <2> HIDE DEF s, k
  <2>6. call' \in [Calls -> Call \cup {NoCall}]
        /\ \A d \in Calls : call'[d] = IF d = c THEN s ELSE call[d]
    BY <2>3, <2>4, <2>5
  <2>7. \A d \in Calls : CallOK(call'[d], order, Settled, reached)
    BY <2>2, <2>4, <2>6
  <2>8. \A d \in Calls : call'[d].pc # "idle" /\ call'[d].own => d \in Own
    BY <1>1, <2>3, <2>6, CallShapes DEF Own, k
  <2> QED
    BY <2>6, <2>7, <2>8, CallsMoved DEF Check
<1> QED
  BY <1>2, <1>3 DEF Check

LEMMA MoneyKeeps ==
  ASSUME DeskInv, PaymentArrives \/ VerifyWrite \/ AutoRelease
  PROVE  DeskInv'
<1>1. /\ order \in DeskRow /\ order.status \in order.stamps /\ order.stamps = reached
      /\ order.rider \in Riders \cup {NoOne}
      /\ checkout \in Checkout /\ overtaken \in Nat /\ asked \in BOOLEAN /\ late \in BOOLEAN
      /\ asked => checkout \notin {"none", "open"}
      /\ events \in Seq(OrderStatus) /\ \A i \in DOMAIN events : events[i] \in reached
  BY DEF DeskInv, RowInv
<1>2. /\ call \in [Calls -> Call \cup {NoCall}]
      /\ \A s : \A d \in Calls : CallOK(call[d], order, Settled, reached \cup {s})
      /\ \A d \in Calls : call[d].pc # "idle" /\ call[d].own => d \in Own
  BY DEF DeskInv, CallsInv, CallOK, CallTrue, Own
<1>3. CASE PaymentArrives
  <2> DEFINE row == [Stamped(order, "PAID") EXCEPT !.escrow = "HOLDING"]
  <2>1. Moved(order, row, "PAID") /\ row.dispute = order.dispute /\ row.escrow = "HOLDING"
    BY <1>1, PaidRow
  <2>2. WriteRow(row, call) /\ order.escrow = "PENDING" /\ checkout' = "held"
        /\ UNCHANGED <<asked, late, events, overtaken, viewer, tab>>
    BY <1>3 DEF PaymentArrives
  <2> HIDE DEF row
  <2>3. Onward(order, row) /\ row # order
    BY <1>1, <2>1, <2>2 DEF Onward, Moved
  <2>4. checkout' \in Checkout /\ checkout' \notin {"none", "open"}
    BY <2>2 DEF Checkout
  <2> QED
    BY <1>1, <1>2, <2>2, <2>3, <2>4, RowMoved
<1>4. CASE VerifyWrite
  <2> DEFINE row == Stamped(order, "PAID")
  <2>1. Onward(order, row) /\ row.status = "PAID"
    BY <1>1, StampedRow DEF Onward, OrderStatus
  <2>2. /\ WriteRow(row, call) /\ asked' = FALSE /\ late' = FALSE /\ UNCHANGED <<events, viewer>>
        /\ checkout' = IF checkout = "charged" THEN "verified" ELSE checkout
        /\ overtaken' \in {overtaken, overtaken + 1}
        /\ tab' = tab \/ tab' = NewTab("payments", FALSE)
    BY <1>4 DEF VerifyWrite
  <2> HIDE DEF row
  <2>3. row = order => order.status # "AWAITING_PAYMENT"
    BY <2>1
  <2>4. checkout' \in Checkout /\ overtaken' \in Nat
    BY <1>1, <2>2 DEF Checkout
  <2> QED
    BY <1>1, <1>2, <2>1, <2>2, <2>3, <2>4, RowMoved
<1>5. CASE AutoRelease
  <2> DEFINE row == Released(order)
  <2>1. Moved(order, row, "COMPLETED") /\ row.dispute = order.dispute
    BY <1>1, ReleasedRow
  <2>2. WriteRow(row, call) /\ late' = FALSE
        /\ UNCHANGED <<checkout, asked, events, overtaken, viewer, tab>>
    BY <1>5 DEF AutoRelease
  <2> HIDE DEF row
  <2>3. Onward(order, row)
    BY <1>1, <2>1 DEF Onward, Moved
  <2>4. Settled' => Settled
    BY <2>2 DEF Settled
  <2> QED
    BY <1>1, <1>2, <2>2, <2>3, <2>4, RowMoved
<1> QED
  BY <1>3, <1>4, <1>5

(* what changes the payment and the clock alone                                           *)
LEMMA ClocksKeep ==
  ASSUME DeskInv, CustomerPays \/ Verify \/ WindowCloses
  PROVE  DeskInv'
<1>0. RowInv
  BY DEF DeskInv
<1>1. UNCHANGED <<order, events, reached, overtaken, call, viewer, tab>> /\ Settled' = Settled
  BY DEF CustomerPays, Verify, WindowCloses, Settled
<1>2. RowInv'
  <2>1. /\ checkout' \in Checkout /\ asked' \in BOOLEAN /\ late' \in BOOLEAN
        /\ asked' => checkout' \notin {"none", "open"}
    <3>1. CASE CustomerPays
      BY <1>0, <3>1 DEF CustomerPays, RowInv, Checkout
    <3>2. CASE Verify
      <4>1. asked' = TRUE /\ checkout' = checkout /\ late' = late
        BY <3>2 DEF Verify
      <4>2. checkout \notin {"none", "open"}
        BY <3>2 DEF Verify, Settled
      <4> QED
        BY <1>0, <4>1, <4>2 DEF RowInv
    <3>3. CASE WindowCloses
      <4>1. late' = TRUE /\ checkout' = checkout /\ asked' = asked
        BY <3>3 DEF WindowCloses
      <4> QED
        BY <1>0, <4>1 DEF RowInv
    <3> QED
      BY <3>1, <3>2, <3>3
  <2> QED
    BY <1>0, <1>1, <2>1 DEF RowInv
<1>3. CallsInv' /\ TabInv' /\ OwnInv'
  BY <1>1 DEF DeskInv, CallsInv, TabInv, OwnInv, Own, Shown
<1> QED
  BY <1>2, <1>3 DEF DeskInv

-----------------------------------------------------------------------------------
(* The clicks.                                                                            *)
LEMMA SendKeeps ==
  ASSUME DeskInv, NEW c \in Calls, NEW p \in People, NEW act, NEW own \in BOOLEAN,
         NEW clicked \in OrderStatus,
         Send(c, p, act, own, clicked), UNCHANGED <<rowVars, viewer, tab>>,
         Fits(p, act, order), p \notin Admins /\ act.do # "scan" => Leaves(act, clicked),
         own => Own = {} /\ tab.page # "none"
  PROVE  DeskInv'
<1> DEFINE shown == IF p \in Admins \/ act.do = "scan" THEN "none" ELSE clicked
           s == [pc |-> "sent", by |-> p, act |-> act, own |-> own,
                 read |-> "none", fresh |-> FALSE, clicked |-> shown]
<1>1. call[c] = NoCall /\ call' = [call EXCEPT ![c] = s]
  BY DEF Send
<1>2. s \in Call
  BY DEF Call, Fits
<1>3. /\ s.pc = "sent" /\ s.by = p /\ s.act = act /\ s.own = own
      /\ s.clicked # "none" => p \notin Admins /\ act.do # "scan" /\ s.clicked = clicked
  OBVIOUS
<1> HIDE DEF s
<1>4. CallOK(s, order, Settled, reached)
  BY <1>2, <1>3 DEF CallOK, CallTrue
<1>5. call \in [Calls -> Call \cup {NoCall}]
      /\ \A d \in Calls : CallOK(call[d], order, Settled, reached)
  BY DEF DeskInv, CallsInv
<1>6. call' \in [Calls -> Call \cup {NoCall}]
      /\ \A d \in Calls : call'[d] = IF d = c THEN s ELSE call[d]
  BY <1>1, <1>2, <1>5
<1>7. CallsInv'
  BY <1>4, <1>5, <1>6 DEF CallsInv, Settled, rowVars
<1>8. RowInv' /\ TabInv'
  BY DEF DeskInv, RowInv, TabInv, Shown, rowVars
<1>9. Own' \subseteq Own \cup (IF own THEN {c} ELSE {})
  BY <1>3, <1>6 DEF Own
<1>10. OwnInv'
  BY <1>9 DEF DeskInv, OwnInv
<1> QED
  BY <1>7, <1>8, <1>10 DEF DeskInv

LEMMA ViewParts ==
  ASSUME DeskInv, Shown
  PROVE  /\ viewer \in People
         /\ tab.view \in DeskRow /\ tab.view.status \in OrderStatus
         /\ tab.view.rider \in Riders \cup {NoOne}
         /\ tab.view.dispute # "NONE" => order.dispute # "NONE"
         /\ tab.page \in PagesOf(viewer) /\ tab.page # "none"
BY DEF DeskInv, TabInv, Tab, Shown, DeskRow

LEMMA ClicksKeep ==
  ASSUME DeskInv, NEW c \in Calls,
         Click(c) \/ ConfirmReceiptModal(c) \/ RaiseDisputeModal(c) \/ \E p \in People : OtherClicks(c, p)
  PROVE  DeskInv'
<1>1. CASE Click(c)
  <2>1. PICK act \in Offered : Send(c, viewer, act, TRUE, tab.view.status)
    BY <1>1 DEF Click
  <2>2. Shown /\ Own = {} /\ UNCHANGED <<rowVars, viewer, tab>>
    BY <1>1 DEF Click
  <2>3. Offer(tab.page, viewer, act, tab.view)
    BY <2>1, <2>2, ViewParts, OfferTable DEF Offered
  <2>4. /\ Fits(viewer, act, tab.view)
        /\ viewer \notin Admins /\ act.do # "scan" => Leaves(act, tab.view.status)
    BY <2>3, OfferFits
  <2>5. Fits(viewer, act, order)
    BY <2>2, <2>4, ViewParts DEF Fits
  <2> QED
    BY <2>1, <2>2, <2>4, <2>5, ViewParts, SendKeeps
<1>2. ASSUME NEW act \in {StatusAct("COMPLETED"), Act("raise")}, Shown, Own = {}, tab.modal # "none",
             Send(c, viewer, act, TRUE, tab.view.status), UNCHANGED <<rowVars, viewer, tab>>
      PROVE  DeskInv'
  <2>1. tab.view.status = "DELIVERED"
    BY <1>2 DEF DeskInv, TabInv
  <2>2. Fits(viewer, act, order)
    BY <1>2, ActParts DEF Fits, Acts, OrderStatus
  <2>3. Leaves(act, tab.view.status)
    BY <1>2, <2>1, ActParts DEF Leaves
  <2> QED
    BY <1>2, <2>2, <2>3, ViewParts, SendKeeps
<1>3. ASSUME NEW p \in People, OtherClicks(c, p) PROVE DeskInv'
  <2>1. PICK pg \in PagesOf(p) : \E act \in OffersOn(pg, p, order) : Send(c, p, act, FALSE, order.status)
    BY <1>3 DEF OtherClicks
  <2>2. PICK act \in OffersOn(pg, p, order) : Send(c, p, act, FALSE, order.status)
    BY <2>1
  <2>3. order \in DeskRow /\ order.status \in OrderStatus /\ order.rider \in Riders \cup {NoOne}
    BY DEF DeskInv, RowInv, DeskRow
  <2>4. Offer(pg, p, act, order)
    BY <2>3, OfferTable
  <2>5. /\ Fits(p, act, order)
        /\ p \notin Admins /\ act.do # "scan" => Leaves(act, order.status)
    BY <2>4, OfferFits
  <2> QED
    BY <1>3, <2>2, <2>3, <2>5, SendKeeps DEF OtherClicks
<1> QED
  BY <1>1, <1>2, <1>3 DEF ConfirmReceiptModal, RaiseDisputeModal

-----------------------------------------------------------------------------------
(* The page alone.                                                                        *)
LEMMA TabMoved ==
  ASSUME DeskInv, UNCHANGED <<rowVars, viewer, call>>, TabInv',
         tab'.page = "none" => tab.page = "none"
  PROVE  DeskInv'
<1>1. RowInv' /\ CallsInv'
  BY DEF DeskInv, RowInv, CallsInv, Settled, rowVars
<1>2. OwnInv'
  BY DEF DeskInv, OwnInv, Own
<1> QED
  BY <1>1, <1>2 DEF DeskInv

LEMMA PagesKeep ==
  ASSUME DeskInv, ReturnFromPaystack \/ Fetched \/ FetchFails \/ Poll
  PROVE  DeskInv'
<1>0. TabInv /\ tab \in Tab /\ order \in DeskRow
  BY DEF DeskInv, TabInv, RowInv
<1>1. CASE ReturnFromPaystack
  BY <1>0, <1>1, NewTabKeeps, TabMoved DEF ReturnFromPaystack, PagesOf
<1>3. CASE Fetched
  <2>1. /\ tab' \in Tab /\ tab'.page = tab.page /\ tab'.modal = tab.modal /\ tab'.mine = tab.mine
        /\ tab'.view = order /\ ~tab'.loading
    BY <1>0, <1>3 DEF Fetched, Tab
  <2>2. tab.loading /\ UNCHANGED <<rowVars, viewer, call>>
    BY <1>3 DEF Fetched
  <2>3. tab.modal = "none" /\ tab.page # "none"
    BY <1>0, <2>2 DEF TabInv, Shown
  <2>4. TabInv'
    BY <2>1, <2>2, <2>3 DEF DeskInv, TabInv, RowInv, Shown, rowVars
  <2> QED
    BY <2>1, <2>2, <2>4, TabMoved
<1>4. CASE FetchFails
  <2>1. /\ tab' \in Tab /\ tab'.page = tab.page /\ tab'.modal = tab.modal /\ tab'.mine = tab.mine
        /\ tab'.view = tab.view /\ ~tab'.loading /\ tab'.error
    BY <1>0, <1>4 DEF FetchFails, Tab
  <2>2. tab.loading /\ UNCHANGED <<rowVars, viewer, call>>
    BY <1>4 DEF FetchFails
  <2>3. tab.modal = "none" /\ tab.page # "none"
    BY <1>0, <2>2 DEF TabInv, Shown
  <2>4. TabInv'
    BY <2>1, <2>2, <2>3 DEF DeskInv, TabInv, Shown, rowVars
  <2> QED
    BY <2>1, <2>2, <2>4, TabMoved
<1>5. CASE Poll
  <2>1. /\ tab' \in Tab /\ tab'.page = tab.page /\ tab'.modal = tab.modal /\ tab'.mine = tab.mine
        /\ tab'.view = tab.view /\ tab'.loading
    BY <1>0, <1>5 DEF Poll, Refetch, Tab
  <2>2. tab.page = "order" /\ tab.view.status = "AWAITING_PAYMENT" /\ UNCHANGED <<rowVars, viewer, call>>
    BY <1>5 DEF Poll
  <2>3. tab.modal = "none"
    BY <1>0, <2>2 DEF TabInv
  <2>4. TabInv'
    BY <2>1, <2>2, <2>3 DEF DeskInv, TabInv, Shown, rowVars
  <2> QED
    BY <2>1, <2>2, <2>4, TabMoved
<1> QED
  BY <1>1, <1>3, <1>4, <1>5

(* the modals open over what the order page offers on a delivered order                     *)
LEMMA ModalsKeep ==
  ASSUME DeskInv,
         Acknowledge \/ Describe \/ CloseModal \/ \E m \in {"receipt", "dispute"} : OpenModal(m)
  PROVE  DeskInv'
<1>0. tab \in Tab /\ TabInv
  BY DEF DeskInv, TabInv
<1>1. ASSUME NEW m \in Modal, tab' = [tab EXCEPT !.modal = m], UNCHANGED <<rowVars, viewer, call>>,
             Shown, m # "none" => tab.view.status = "DELIVERED"
      PROVE  DeskInv'
  <2>1. /\ tab' \in Tab /\ tab'.page = tab.page /\ tab'.modal = m /\ tab'.mine = tab.mine
        /\ tab'.view = tab.view /\ tab'.loading = tab.loading /\ tab'.error = tab.error
    BY <1>0, <1>1 DEF Tab
  <2>2. TabInv'
    BY <1>0, <1>1, <2>1 DEF TabInv, Shown, rowVars
  <2> QED
    BY <1>1, <2>1, <2>2, TabMoved
<1>2. CASE Acknowledge \/ Describe \/ CloseModal
  BY <1>0, <1>1, <1>2 DEF Acknowledge, Describe, CloseModal, TabInv, Modal
<1>3. ASSUME NEW m \in {"receipt", "dispute"}, OpenModal(m) PROVE DeskInv'
  <2>1. CASE tab.modal # "none"
    BY <1>0, <1>1, <1>3, <2>1 DEF OpenModal, TabInv, Modal
  <2>2. CASE tab.modal = "none"
    <3>1. PICK act \in Offered : ModalOf(act) = m
      BY <1>3, <2>2 DEF OpenModal
    <3>2. Shown /\ tab.page = "order"
      BY <1>3 DEF OpenModal
    <3>3. act = StatusAct("COMPLETED") \/ act = Act("raise")
      BY <3>1 DEF ModalOf
    <3>4. act \in OrderActions(viewer, tab.view) \cup DisputeCard(viewer, tab.view)
      BY <3>1, <3>2 DEF Offered, OffersOn
    <3>5. tab.view.status = "DELIVERED"
      BY <3>3, <3>4, ActParts DEF OrderActions, DisputeCard, SellerActions, RiderActions, BuyerActions, When
    <3> QED
      BY <1>1, <1>3, <3>2, <3>5 DEF OpenModal, Modal
  <2> QED
    BY <2>1, <2>2
<1> QED
  BY <1>2, <1>3

-----------------------------------------------------------------------------------
(* The page and its calls.                                                                *)
LEMMA OpenKeeps ==
  ASSUME DeskInv, NEW pg, Open(pg)
  PROVE  DeskInv'
<1> DEFINE Left(c) == [call[c] EXCEPT !.own = FALSE]
<1>1. /\ call \in [Calls -> Call \cup {NoCall}]
      /\ \A c \in Calls : CallOK(call[c], order, Settled, reached)
  BY DEF DeskInv, CallsInv
<1>2. /\ UNCHANGED <<rowVars, viewer>> /\ pg \in PagesOf(viewer) \cup {"none"}
      /\ tab' = NewTab(pg, FALSE)
      /\ call' = [c \in Calls |-> IF c \in Own THEN Left(c) ELSE call[c]]
  BY DEF Open
<1>3. ASSUME NEW c \in Own
      PROVE  Left(c) \in Call /\ ~Left(c).own /\ CallOK(Left(c), order, Settled, reached)
  <2> DEFINE s == Left(c)
  <2>1. call[c] \in Call /\ CallTrue(call[c], order, Settled, reached)
    BY BusyCall DEF Own
  <2>2. /\ s \in Call /\ s.pc = call[c].pc /\ s.by = call[c].by /\ s.act = call[c].act
        /\ s.clicked = call[c].clicked /\ s.read = call[c].read /\ s.fresh = call[c].fresh
        /\ ~s.own
    BY <2>1 DEF Call
  <2> HIDE DEF s
  <2>3. s \in Call /\ ~s.own /\ CallOK(s, order, Settled, reached)
    BY <2>1, <2>2 DEF CallOK, CallTrue
  <2> QED
    BY <2>3 DEF s
<1> HIDE DEF Left
<1>4. \A c \in Calls : call'[c] = IF c \in Own THEN Left(c) ELSE call[c]
  BY <1>2
<1>5. call' \in [Calls -> Call \cup {NoCall}]
  BY <1>1, <1>2, <1>3
<1>6. CallsInv'
  BY <1>1, <1>2, <1>3, <1>4, <1>5 DEF CallsInv, Settled, rowVars
<1>7. Own' = {}
  BY <1>3, <1>4 DEF Own
<1>8. RowInv' /\ TabInv'
  BY <1>2, NewTabKeeps DEF DeskInv, RowInv, rowVars
<1> QED
  BY <1>6, <1>7, <1>8 DEF DeskInv, OwnInv

LEMMA EndCallKeeps ==
  ASSUME DeskInv, NEW c \in Calls, EndCall(c)
  PROVE  DeskInv'
<1> DEFINE k == call[c]
<1>1. c \in Own /\ k.pc \in {"done", "refused"} /\ call' = [call EXCEPT ![c] = NoCall]
      /\ UNCHANGED <<rowVars, viewer>>
  BY DEF EndCall
<1>2. /\ call \in [Calls -> Call \cup {NoCall}]
      /\ \A d \in Calls : CallOK(call[d], order, Settled, reached)
      /\ TabInv /\ tab \in Tab /\ tab.page # "none" /\ \A d \in Own : d = c
  BY <1>1 DEF DeskInv, CallsInv, OwnInv, TabInv
<1>3. k.pc = "done" => Set(k.act) \subseteq reached
  BY <1>1, BusyCall DEF CallTrue
<1>4. call' \in [Calls -> Call \cup {NoCall}]
      /\ \A d \in Calls : call'[d] = IF d = c THEN NoCall ELSE call[d]
  BY <1>1, <1>2
<1>5. CallsInv'
  BY <1>1, <1>2, <1>4 DEF CallsInv, CallOK, Settled, rowVars
<1>6. Own' = {}
  BY <1>2, <1>4, CallShapes DEF Own
<1>7. RowInv'
  BY <1>1 DEF DeskInv, RowInv, rowVars
<1>8. \/ tab' = tab
      \/ tab' = NewTab("none", FALSE)
      \/ tab' = Refetch([tab EXCEPT !.modal = "none"])
      \/ k.pc = "done" /\ tab' = Refetch([tab EXCEPT !.modal = "none", !.mine = @ \cup Set(k.act)])
  BY <1>1 DEF EndCall
<1> HIDE DEF k
<1>9. reached \subseteq OrderStatus
  BY DEF DeskInv, RowInv, DeskRow
<1>10. ASSUME tab' = tab PROVE TabInv'
  BY <1>1, <1>2, <1>10 DEF TabInv, Shown, rowVars
<1>11. ASSUME tab' = NewTab("none", FALSE) PROVE TabInv'
  BY <1>1, <1>2, <1>11, NewTabKeeps
<1>12. ASSUME NEW mine \in SUBSET reached,
              tab' = Refetch([tab EXCEPT !.modal = "none", !.mine = mine])
       PROVE  TabInv'
  <2>1. /\ tab' \in Tab /\ tab'.page = tab.page /\ tab'.modal = "none" /\ tab'.mine = mine
        /\ tab'.view = tab.view /\ tab'.loading
    BY <1>2, <1>9, <1>12 DEF Refetch, Tab, Modal
  <2> QED
    BY <1>1, <1>2, <2>1 DEF TabInv, Shown, rowVars
<1>13. ASSUME tab' = Refetch([tab EXCEPT !.modal = "none"]) PROVE TabInv'
  <2>1. [tab EXCEPT !.modal = "none"] = [tab EXCEPT !.modal = "none", !.mine = tab.mine]
    BY <1>2 DEF Tab
  <2> QED
    BY <1>2, <1>12, <1>13, <2>1 DEF TabInv
<1>14. ASSUME k.pc = "done",
              tab' = Refetch([tab EXCEPT !.modal = "none", !.mine = @ \cup Set(k.act)])
       PROVE  TabInv'
  <2>1. tab.mine \cup Set(k.act) \subseteq reached
    BY <1>2, <1>3, <1>14 DEF TabInv
  <2> QED
    BY <1>12, <1>14, <2>1
<1> QED
  BY <1>5, <1>6, <1>7, <1>8, <1>10, <1>11, <1>13, <1>14 DEF DeskInv, OwnInv

-----------------------------------------------------------------------------------
LEMMA DeskInvInit ==
  ASSUME DeskInit
  PROVE  DeskInv
<1>1. PICK s \in Sellers, b \in Addressees :
        order = [status |-> "PENDING_BUYER", escrow |-> "PENDING", seller |-> s, addressee |-> b,
                 buyer |-> NoOne, rider |-> NoOne, dispute |-> "NONE", stamps |-> {"PENDING_BUYER"}]
  BY DEF DeskInit
<1>2. order \in DeskRow
  BY <1>1, DeskParties DEF DeskRow, OrderStatus
<1>3. RowInv
  <2>1. asked = FALSE /\ late = FALSE /\ checkout = "none"
    BY DEF DeskInit
  <2>2. asked \in BOOLEAN /\ late \in BOOLEAN /\ ~asked /\ checkout \in Checkout
    BY <2>1 DEF Checkout
  <2>3. /\ order.stamps = reached /\ order.status \in reached /\ order.rider = NoOne
        /\ overtaken \in Nat /\ events = <<>>
    BY <1>1 DEF DeskInit
  <2> QED
    BY <1>2, <2>2, <2>3 DEF RowInv
<1>4. CallsInv /\ Own = {}
  BY CallShapes DEF DeskInit, CallsInv, CallOK, Own
<1>5. TabInv
  BY DeskParties, NewTabs DEF DeskInit, TabInv, Shown
<1> QED
  BY <1>3, <1>4, <1>5 DEF DeskInv, OwnInv

LEMMA DeskInvStep ==
  ASSUME DeskInv, [DeskNext]_deskVars
  PROVE  DeskInv'
<1>1. CASE UNCHANGED deskVars
  BY <1>1 DEF deskVars, DeskInv, RowInv, CallsInv, TabInv, OwnInv, Shown, Own, Settled
<1>2. ASSUME NEW c \in Calls,
             Check(c) \/ Write(c) \/ Click(c) \/ EndCall(c) \/ ConfirmReceiptModal(c) \/ RaiseDisputeModal(c)
      PROVE  DeskInv'
  BY <1>2, CheckKeeps, WriteKeeps, ClicksKeep, EndCallKeeps
<1>3. ASSUME NEW c \in Calls, NEW p \in People, OtherClicks(c, p) PROVE DeskInv'
  BY <1>3, ClicksKeep
<1>4. CASE PaymentArrives \/ VerifyWrite \/ AutoRelease
  BY <1>4, MoneyKeeps
<1>8. CASE CustomerPays \/ Verify \/ WindowCloses
  BY <1>8, ClocksKeep
<1>5. ASSUME NEW pg, Open(pg) PROVE DeskInv'
  BY <1>5, OpenKeeps
<1>6. CASE ReturnFromPaystack \/ Fetched \/ FetchFails \/ Poll
  BY <1>6, PagesKeep
<1>7. CASE CloseModal \/ Acknowledge \/ Describe \/ \E m \in {"receipt", "dispute"} : OpenModal(m)
  BY <1>7, ModalsKeep
<1> QED
  BY <1>1, <1>2, <1>3, <1>4, <1>5, <1>6, <1>7, <1>8 DEF DeskNext

(* Every state of OrderDesk is of its type, for any people and any number of calls.        *)
THEOREM DeskTyped == DeskSpec => []DeskTypeOK
<1>1. DeskInv => DeskTypeOK
  BY DEF DeskInv, RowInv, CallsInv, TabInv, DeskTypeOK, DeskRow
<1> QED
  BY <1>1, DeskInvInit, DeskInvStep, PTL DEF DeskSpec

(* StaleClickRefused: updateStatus, confirmByBuyer, initiatePayment and raise each accept   *)
(* one status of the order, and the pages offer their buttons in just that one, so that a   *)
(* page that has fallen behind has its click refused.                                      *)
THEOREM OldButtonsAreDead == DeskSpec => []StaleClickRefused
<1>1. DeskInv => StaleClickRefused
  <2> SUFFICES ASSUME DeskInv, NEW c \in Calls, call[c].pc \in {"checked", "done"},
                      call[c].clicked # "none"
               PROVE  call[c].read = call[c].clicked
    BY DEF StaleClickRefused
  <2> QED
    BY BusyCall DEF CallTrue
<1> QED
  BY <1>1, DeskInvInit, DeskInvStep, PTL DEF DeskSpec

(* OwnChangeShown: every handler of the order page refetches after its own change, and no   *)
(* poll, failed fetch or modal leaves it showing less than what its calls have done.        *)
THEOREM PagesKeepUp == DeskSpec => []OwnChangeShown
<1>1. DeskInv => OwnChangeShown
  BY DEF DeskInv, TabInv, OwnChangeShown
<1> QED
  BY <1>1, DeskInvInit, DeskInvStep, PTL DEF DeskSpec

-----------------------------------------------------------------------------------
(* Where an order comes to as long as no write was overtaken: the path, with the money     *)
(* and the dispute that go with each status of it.                                         *)
Story(o, past, status, since, escrow, dispute) ==
  /\ o.status = status /\ o.escrow = escrow /\ o.dispute = dispute
  /\ past = {"PENDING_BUYER"} \cup since

(* ck is the payment: "verified" if only the poll of it has come in, "held" once the webhook has *)
OnPath(o, past, ck) ==
  LET paid == IF ck = "held" THEN "HOLDING" ELSE "PENDING"
      out == IF ck = "held" THEN "RELEASED" ELSE "PENDING" IN
  /\ o.buyer = IF o.status = "PENDING_BUYER" THEN NoOne ELSE o.addressee
  /\ o.status \in {"PENDING_BUYER", "AWAITING_PAYMENT"} <=> ck \notin {"verified", "held"}
  /\ o.status = "IN_TRANSIT" => o.rider # NoOne
  /\ \/ Story(o, past, "PENDING_BUYER", {}, "PENDING", "NONE")
     \/ Story(o, past, "AWAITING_PAYMENT", {"AWAITING_PAYMENT"}, "PENDING", "NONE")
     \/ Story(o, past, "PAID", {"AWAITING_PAYMENT", "PAID"}, paid, "NONE")
     \/ Story(o, past, "SHIPPED", {"AWAITING_PAYMENT", "PAID", "SHIPPED"}, paid, "NONE")
     \/ Story(o, past, "IN_TRANSIT", {"AWAITING_PAYMENT", "PAID", "SHIPPED", "IN_TRANSIT"},
              paid, "NONE")
     \/ Story(o, past, "DELIVERED",
              {"AWAITING_PAYMENT", "PAID", "SHIPPED", "IN_TRANSIT", "DELIVERED"}, paid, "NONE")
     \/ Story(o, past, "COMPLETED",
              {"AWAITING_PAYMENT", "PAID", "SHIPPED", "IN_TRANSIT", "DELIVERED", "COMPLETED"},
              out, "NONE")
     \/ Story(o, past, "DISPUTED",
              {"AWAITING_PAYMENT", "PAID", "SHIPPED", "IN_TRANSIT", "DELIVERED", "DISPUTED"},
              "DISPUTED", "OPEN")
     \/ Story(o, past, "COMPLETED",
              {"AWAITING_PAYMENT", "PAID", "SHIPPED", "IN_TRANSIT", "DELIVERED", "DISPUTED", "COMPLETED"},
              "DISPUTED", "OPEN")
     \/ Story(o, past, "REFUNDED",
              {"AWAITING_PAYMENT", "PAID", "SHIPPED", "IN_TRANSIT", "DELIVERED", "DISPUTED", "REFUNDED"},
              "DISPUTED", "OPEN")

PathInv == overtaken = 0 => OnPath(order, reached, checkout)

(* the steps of the path, with what they do to the money and to the dispute                 *)
Kept(o, row) == row.escrow = o.escrow /\ row.dispute = o.dispute /\ row.buyer = o.buyer

PathStep(o, row, ck, after) ==
  \/ /\ o.status = "PENDING_BUYER" /\ row.status = "AWAITING_PAYMENT" /\ after = ck
     /\ row.escrow = o.escrow /\ row.dispute = o.dispute /\ row.buyer = o.addressee
  \/ /\ o.status = "AWAITING_PAYMENT" /\ row.status = "PAID" /\ after = "verified" /\ Kept(o, row)
  \/ /\ o.status \in {"AWAITING_PAYMENT", "PAID"} /\ o.escrow = "PENDING"
     /\ row.status = "PAID" /\ row.escrow = "HOLDING" /\ after = "held"
     /\ row.dispute = o.dispute /\ row.buyer = o.buyer
  \/ o.status = "PAID" /\ row.status = "SHIPPED" /\ Kept(o, row) /\ after = ck
  \/ o.status = "SHIPPED" /\ row.status = "IN_TRANSIT" /\ o.rider # NoOne /\ Kept(o, row) /\ after = ck
  \/ o.status = "IN_TRANSIT" /\ row.status = "DELIVERED" /\ Kept(o, row) /\ after = ck
  \/ /\ o.status = "DELIVERED" /\ row.status = "COMPLETED" /\ after = ck
     /\ row.escrow = IF o.escrow = "HOLDING" THEN "RELEASED" ELSE o.escrow
     /\ row.dispute = o.dispute /\ row.buyer = o.buyer
  \/ /\ o.status = "DELIVERED" /\ row.status = "DISPUTED" /\ after = ck
     /\ row.escrow = "DISPUTED" /\ row.dispute = "OPEN" /\ row.buyer = o.buyer
  \/ o.status = "DISPUTED" /\ row.status \in {"COMPLETED", "REFUNDED"} /\ Kept(o, row) /\ after = ck

LEMMA AlongThePath ==
  ASSUME NEW o, NEW row, NEW past, NEW ck, NEW after, OnPath(o, past, ck),
         Moved(o, row, row.status), PathStep(o, row, ck, after)
  PROVE  OnPath(row, past \cup {row.status}, after)
<1>1. row.addressee = o.addressee /\ row.rider = o.rider
  BY DEF Moved
<1>2. CASE o.status = "PENDING_BUYER"
  BY <1>1, <1>2 DEF OnPath, Story, PathStep, Kept
<1>3. CASE o.status = "AWAITING_PAYMENT"
  BY <1>1, <1>3 DEF OnPath, Story, PathStep, Kept
<1>4. CASE o.status = "PAID"
  BY <1>1, <1>4 DEF OnPath, Story, PathStep, Kept
<1>5. CASE o.status = "SHIPPED"
  BY <1>1, <1>5 DEF OnPath, Story, PathStep, Kept
<1>6. CASE o.status = "IN_TRANSIT"
  BY <1>1, <1>6 DEF OnPath, Story, PathStep, Kept
<1>7. CASE o.status = "DELIVERED"
  BY <1>1, <1>7 DEF OnPath, Story, PathStep, Kept
<1>8. CASE o.status = "DISPUTED"
  BY <1>1, <1>8 DEF OnPath, Story, PathStep, Kept
<1> QED
  BY <1>2, <1>3, <1>4, <1>5, <1>6, <1>7, <1>8 DEF PathStep

LEMMA DisputeOnPath ==
  ASSUME NEW o, NEW past, NEW ck, OnPath(o, past, ck)
  PROVE  /\ o.dispute = "NONE" => o.status # "DISPUTED"
         /\ o.status = "DISPUTED" => o.escrow # "HOLDING"
         /\ o.dispute # "NONE" => o.status # "PAID"
         /\ o.status = "PENDING_BUYER" => o.buyer = NoOne
         /\ o.status \in past
BY DEF OnPath, Story

(* a write that was not overtaken goes along the path, or leaves the status alone            *)
LEMMA WriteOnPath ==
  ASSUME DeskInv, NEW c \in Calls, call[c].pc = "checked", call[c].fresh, call[c].act.do # "scan",
         OnPath(order, reached, checkout),
         NEW row, row = Written(call[c].act, call[c].by, order)
  PROVE  \/ Moved(order, row, row.status) /\ PathStep(order, row, checkout, checkout)
         \/ row = order /\ call[c].act.do = "pay"
         \/ \E rider \in Riders : row = [order EXCEPT !.rider = rider]
<1> DEFINE act == call[c].act
           p == call[c].by
<1>1. /\ call[c] \in Call /\ Fits(p, act, order) /\ Met(p, act, order, Settled)
      /\ act \in Acts /\ p \in People
  BY BusyCall, CallShapes DEF CallTrue
<1>2. order \in DeskRow
  BY DEF DeskInv, RowInv
<1>3. p # NoOne
  BY <1>1, NoOneIsNobody
<1>4. \/ act.do = "status"
      \/ act.do \in {"confirm", "pay", "raise"}
      \/ act.do = "assign" /\ act.to \in Riders
  BY <1>1, ActParts DEF Acts
<1>5. CASE act.do = "status"
  <2>1. act.to \in {"SHIPPED", "IN_TRANSIT", "DELIVERED", "COMPLETED", "REFUNDED"}
    BY <1>1, <1>5 DEF Fits
  <2>2. CASE act.to = "COMPLETED" /\ order.escrow = "HOLDING"
    <3>1. row = Released(order)
      BY <1>5, <2>2 DEF Written
    <3>2. Moved(order, row, "COMPLETED") /\ row.escrow = "RELEASED" /\ row.dispute = order.dispute
          /\ row.buyer = order.buyer
      BY <1>2, <3>1, ReleasedRow
    <3>3. order.status = "DELIVERED" /\ row.status = "COMPLETED"
      BY <1>1, <1>5, <2>2, <3>2, DisputeOnPath DEF Met, Moved
    <3>4. Moved(order, row, row.status) /\ PathStep(order, row, checkout, checkout)
      BY <2>2, <3>2, <3>3 DEF PathStep
    <3> QED
      BY <3>4
  <2>3. CASE ~(act.to = "COMPLETED" /\ order.escrow = "HOLDING")
    <3>1. row = Stamped(order, act.to) /\ act.to \in OrderStatus
      BY <1>5, <2>1, <2>3 DEF Written, OrderStatus
    <3>2. Moved(order, row, act.to) /\ Kept(order, row) /\ row.status = act.to
      BY <1>2, <3>1, StampedRow DEF Moved, Kept
    <3>3. \/ act.to = "SHIPPED" /\ order.status = "PAID"
          \/ act.to = "IN_TRANSIT" /\ order.status = "SHIPPED" /\ order.rider # NoOne
          \/ act.to = "DELIVERED" /\ order.status = "IN_TRANSIT"
          \/ act.to = "COMPLETED" /\ order.status = "DELIVERED" /\ order.escrow # "HOLDING"
          \/ act.to \in {"COMPLETED", "REFUNDED"} /\ order.status = "DISPUTED"
      BY <1>1, <1>3, <1>5, <2>1, <2>3, DisputeOnPath DEF Met, Fits
    <3>4. Moved(order, row, row.status) /\ PathStep(order, row, checkout, checkout)
      BY <3>2, <3>3 DEF PathStep, Kept
    <3> QED
      BY <3>4
  <2> QED
    BY <2>2, <2>3
<1>6. CASE act.do = "confirm"
  <2>1. row = [Stamped(order, "AWAITING_PAYMENT") EXCEPT !.buyer = p]
    BY <1>6 DEF Written
  <2>2. order.status = "PENDING_BUYER" /\ order.addressee = p
    BY <1>1, <1>6 DEF Met
  <2>3. Moved(order, row, "AWAITING_PAYMENT") /\ row.escrow = order.escrow
        /\ row.dispute = order.dispute /\ row.buyer = p /\ row.status = "AWAITING_PAYMENT"
    BY <1>1, <1>2, <2>1, ConfirmedRow DEF Moved
  <2>4. Moved(order, row, row.status) /\ PathStep(order, row, checkout, checkout)
    BY <2>2, <2>3, DisputeOnPath DEF PathStep
  <2> QED
    BY <2>4
<1>7. CASE act.do = "raise"
  <2>1. row = [Stamped(order, "DISPUTED") EXCEPT !.escrow = "DISPUTED", !.dispute = "OPEN"]
    BY <1>7 DEF Written
  <2>2. order.status = "DELIVERED"
    BY <1>1, <1>7 DEF Met
  <2>3. Moved(order, row, "DISPUTED") /\ row.escrow = "DISPUTED" /\ row.dispute = "OPEN"
        /\ row.buyer = order.buyer /\ row.status = "DISPUTED"
    BY <1>2, <2>1, DisputedRow DEF Moved
  <2>4. Moved(order, row, row.status) /\ PathStep(order, row, checkout, checkout)
    BY <2>2, <2>3 DEF PathStep
  <2> QED
    BY <2>4
<1>8. CASE act.do = "pay"
  BY <1>8 DEF Written
<1>9. CASE act.do = "assign"
  BY <1>4, <1>9 DEF Written
<1> QED
  BY <1>4, <1>5, <1>6, <1>7, <1>8, <1>9

LEMMA PathInvInit ==
  ASSUME DeskInit
  PROVE  PathInv
BY DEF DeskInit, PathInv, OnPath, Story

LEMMA PathInvWrite ==
  ASSUME DeskInv, PathInv, NEW c \in Calls, Write(c)
  PROVE  PathInv'
<1> DEFINE act == call[c].act
           row == Written(act, call[c].by, order)
<1>0. /\ order \in DeskRow /\ order.stamps = reached /\ order.status \in reached /\ overtaken \in Nat
      /\ call[c].pc = "checked"
  BY DEF DeskInv, RowInv, Write
<1>1. CASE UNCHANGED rowVars
  BY <1>1 DEF rowVars, PathInv
<1>2. CASE /\ WriteRow(row, Answered(c, "done"))
           /\ checkout' = IF act.do = "pay" /\ checkout = "none" THEN "open" ELSE checkout
           /\ overtaken' = IF Harmless(c) THEN overtaken ELSE overtaken + 1
  <2> SUFFICES ASSUME overtaken' = 0
               PROVE  OnPath(order', reached', checkout')
    BY DEF PathInv
  <2>1. Harmless(c) /\ overtaken = 0
    BY <1>0, <1>2
  <2>2. OnPath(order, reached, checkout)
    BY <2>1 DEF PathInv
  <2>3. order' = row /\ reached' = reached \cup {row.status}
    BY <1>2 DEF WriteRow
  <2>4. CASE act.do = "scan"
    <3>1. row = order /\ checkout' = checkout
      BY <1>2, <2>4 DEF Written
    <3> QED
      BY <1>0, <2>2, <2>3, <3>1 DEF OnPath, Story
  <2>5. CASE call[c].fresh /\ act.do # "scan"
    <3> HIDE DEF row
    <3>1. \/ Moved(order, row, row.status) /\ PathStep(order, row, checkout, checkout)
          \/ row = order /\ act.do = "pay"
          \/ \E rider \in Riders : row = [order EXCEPT !.rider = rider]
      BY <1>0, <2>2, <2>5, WriteOnPath DEF row
    <3>2. CASE row = order /\ act.do = "pay"
      BY <1>0, <1>2, <2>2, <2>3, <3>2 DEF OnPath, Story
    <3>3. CASE act.do # "pay"
      <4>1. checkout' = checkout
        BY <1>2, <3>3
      <4>2. CASE Moved(order, row, row.status) /\ PathStep(order, row, checkout, checkout)
        BY <2>2, <2>3, <4>1, <4>2, AlongThePath
      <4>3. ASSUME NEW rider \in Riders, row = [order EXCEPT !.rider = rider]
            PROVE  OnPath(order', reached', checkout')
        <5>1. /\ row.rider = rider /\ row.status = order.status /\ row.escrow = order.escrow
              /\ row.dispute = order.dispute /\ row.addressee = order.addressee
              /\ row.buyer = order.buyer
          BY <1>0, <4>3, AssignedRow
        <5>2. rider # NoOne /\ reached' = reached
          BY <1>0, <2>3, <5>1, RolesOfPeople, NoOneIsNobody
        <5> QED
          BY <2>2, <2>3, <4>1, <5>1, <5>2 DEF OnPath, Story
      <4> QED
        BY <3>1, <3>3, <4>2, <4>3
    <3>4. CASE act.do = "pay" /\ row # order
      BY <3>4 DEF Written, row
    <3> QED
      BY <3>2, <3>3, <3>4
  <2> QED
    BY <2>1, <2>4, <2>5 DEF Harmless
<1> QED
  BY <1>1, <1>2 DEF Write

(* the steps that write the row or change the payment                                      *)
LEMMA PathSteps ==
  ASSUME [DeskNext]_deskVars
  PROVE  \/ UNCHANGED <<order, checkout, events, reached, overtaken>> /\ (asked' = asked \/ Verify)
         \/ CustomerPays \/ PaymentArrives \/ VerifyWrite \/ AutoRelease
         \/ \E c \in Calls : Write(c)
<1>1. CASE UNCHANGED deskVars
  BY <1>1 DEF deskVars
<1>2. ASSUME NEW c \in Calls, Check(c) \/ Click(c) \/ EndCall(c)
                               \/ ConfirmReceiptModal(c) \/ RaiseDisputeModal(c)
                               \/ \E p \in People : OtherClicks(c, p)
      PROVE  UNCHANGED rowVars
  BY <1>2 DEF Check, Click, EndCall, ConfirmReceiptModal, RaiseDisputeModal, OtherClicks
<1>3. ASSUME (\E pg : Open(pg)) \/ ReturnFromPaystack \/ Fetched \/ FetchFails \/ Poll
             \/ CloseModal \/ Acknowledge \/ Describe \/ \E m : OpenModal(m)
      PROVE  UNCHANGED rowVars
  BY <1>3 DEF Open, ReturnFromPaystack, Fetched, FetchFails, Poll, CloseModal, Acknowledge,
     Describe, OpenModal
<1>4. ASSUME Verify \/ WindowCloses
      PROVE  UNCHANGED <<order, checkout, events, reached, overtaken>> /\ (asked' = asked \/ Verify)
  BY <1>4 DEF Verify, WindowCloses
<1> QED
  BY <1>1, <1>2, <1>3, <1>4 DEF DeskNext, rowVars

(* a verification answered in time makes an order that waits PAID, and leaves one that is so  *)
LEMMA VerifiedOnPath ==
  ASSUME DeskInv, VerifyWrite, overtaken' = 0, OnPath(order, reached, checkout)
  PROVE  \/ order' = order /\ checkout' = checkout /\ reached' = reached
         \/ Moved(order, order', order'.status) /\ PathStep(order, order', checkout, checkout')
              /\ reached' = reached \cup {order'.status}
<1> DEFINE row == Stamped(order, "PAID")
<1>1. /\ order \in DeskRow /\ overtaken \in Nat /\ order.stamps = reached /\ order.status \in reached
      /\ asked => checkout \notin {"none", "open"}
      /\ checkout \in Checkout
  BY DEF DeskInv, RowInv
<1>2. /\ Moved(order, row, "PAID") /\ Kept(order, row) /\ row.status = "PAID"
      /\ order' = row /\ reached' = reached \cup {"PAID"}
      /\ checkout' = IF checkout = "charged" THEN "verified" ELSE checkout
      /\ order.status \in {"AWAITING_PAYMENT", "PAID"} /\ asked
  BY <1>1, StampedRow DEF VerifyWrite, WriteRow, Moved, Kept, OrderStatus
<1>3. CASE order.status = "AWAITING_PAYMENT"
  <2>1. checkout = "charged" /\ checkout' = "verified"
    BY <1>1, <1>2, <1>3 DEF OnPath, Checkout
  <2> HIDE DEF row
  <2> QED
    BY <1>2, <1>3, <2>1 DEF PathStep
<1>4. CASE order.status = "PAID"
  <2>1. order' = order /\ reached' = reached
    <3>1. row = order
      BY <1>1, <1>4 DEF Stamped, DeskRow
    <3> QED
      BY <1>1, <1>2, <1>4, <3>1
  <2>2. checkout' = checkout
    BY <1>2, <1>4 DEF OnPath
  <2> QED
    BY <2>1, <2>2
<1> QED
  BY <1>2, <1>3, <1>4

(* the webhook funds an order that awaits its payment, or that a poll has set to PAID before   *)
LEMMA FundedOnPath ==
  ASSUME DeskInv, PaymentArrives
  PROVE  /\ Moved(order, order', order'.status) /\ PathStep(order, order', checkout, checkout')
         /\ reached' = reached \cup {order'.status} /\ overtaken' = overtaken
<1> DEFINE row == [Stamped(order, "PAID") EXCEPT !.escrow = "HOLDING"]
<1>1. /\ Moved(order, row, "PAID") /\ row.escrow = "HOLDING" /\ row.dispute = order.dispute
      /\ row.buyer = order.buyer
  BY PaidRow DEF DeskInv, RowInv
<1>2. /\ order' = row /\ reached' = reached \cup {row.status} /\ checkout' = "held"
      /\ order.status \in {"AWAITING_PAYMENT", "PAID"} /\ order.escrow = "PENDING"
      /\ overtaken' = overtaken
  BY DEF PaymentArrives, WriteRow
<1> HIDE DEF row
<1> QED
  BY <1>1, <1>2 DEF PathStep, Moved

(* the job completes a delivered order and releases what is held                              *)
LEMMA ReleasedOnPath ==
  ASSUME DeskInv, AutoRelease
  PROVE  /\ Moved(order, order', order'.status) /\ PathStep(order, order', checkout, checkout')
         /\ reached' = reached \cup {order'.status} /\ overtaken' = overtaken
<1> DEFINE row == Released(order)
<1>1. /\ Moved(order, row, "COMPLETED") /\ row.escrow = "RELEASED" /\ row.dispute = order.dispute
      /\ row.buyer = order.buyer
  BY ReleasedRow DEF DeskInv, RowInv
<1>2. /\ order' = row /\ reached' = reached \cup {row.status} /\ checkout' = checkout
      /\ order.status = "DELIVERED" /\ order.escrow = "HOLDING" /\ overtaken' = overtaken
  BY DEF AutoRelease, WriteRow
<1> HIDE DEF row
<1> QED
  BY <1>1, <1>2 DEF PathStep, Moved

LEMMA PathInvStep ==
  ASSUME DeskInv, PathInv, [DeskNext]_deskVars
  PROVE  PathInv'
<1>1. CASE UNCHANGED <<order, checkout, events, reached, overtaken>>
  BY <1>1 DEF PathInv
<1>2. ASSUME NEW c \in Calls, Write(c) PROVE PathInv'
  BY <1>2, PathInvWrite
<1>3. CASE CustomerPays
  <2>1. /\ UNCHANGED <<order, reached, overtaken>> /\ checkout' = "charged" /\ checkout = "open"
    BY <1>3 DEF CustomerPays
  <2>2. OnPath(order, reached, "open") => OnPath(order, reached, "charged")
    BY DEF OnPath, Story
  <2> QED
    BY <2>1, <2>2 DEF PathInv
<1>4. CASE PaymentArrives \/ AutoRelease
  BY <1>4, FundedOnPath, ReleasedOnPath, AlongThePath DEF PathInv
<1>5. CASE VerifyWrite
  <2> SUFFICES ASSUME overtaken' = 0
               PROVE  OnPath(order', reached', checkout')
    BY DEF PathInv
  <2>1. overtaken = 0
    BY <1>5 DEF VerifyWrite, DeskInv, RowInv
  <2>2. OnPath(order, reached, checkout)
    BY <2>1 DEF PathInv
  <2> QED
    BY <1>5, <2>2, VerifiedOnPath, AlongThePath
<1> QED
  BY <1>1, <1>2, <1>3, <1>4, <1>5, PathSteps

(* the invariant with the path, from which everything that follows is read off              *)
DeskPath == DeskInv /\ PathInv

LEMMA DeskPathAlways == DeskSpec => []DeskPath
<1>1. DeskInit => DeskPath
  BY DeskInvInit, PathInvInit DEF DeskPath
<1>2. DeskPath /\ [DeskNext]_deskVars => DeskPath'
  BY DeskInvStep, PathInvStep DEF DeskPath
<1> QED
  BY <1>1, <1>2, PTL DEF DeskSpec

-----------------------------------------------------------------------------------
(* The timeline.                                                                          *)
LEMMA Steps ==
  /\ DOMAIN TimelineOrder = 1 .. 7
  /\ TimelineOrder[1] = "PENDING_BUYER" /\ TimelineOrder[2] = "AWAITING_PAYMENT"
  /\ TimelineOrder[3] = "PAID" /\ TimelineOrder[4] = "SHIPPED" /\ TimelineOrder[5] = "IN_TRANSIT"
  /\ TimelineOrder[6] = "DELIVERED" /\ TimelineOrder[7] = "COMPLETED"
BY DEF TimelineOrder

LEMMA StepPlaces ==
  ASSUME NEW i \in 1 .. 7
  PROVE  IndexIn(TimelineOrder, TimelineOrder[i]) = i
<1>1. \A j \in DOMAIN TimelineOrder : TimelineOrder[j] = TimelineOrder[i] => j = i
  BY Steps
<1>2. i \in DOMAIN TimelineOrder
  BY Steps
<1> QED
  BY <1>1, <1>2 DEF IndexIn

LEMMA Prefixes ==
  /\ Upto(TimelineOrder, 1) = {"PENDING_BUYER"}
  /\ Upto(TimelineOrder, 2) = {"PENDING_BUYER", "AWAITING_PAYMENT"}
  /\ Upto(TimelineOrder, 3) = {"PENDING_BUYER", "AWAITING_PAYMENT", "PAID"}
  /\ Upto(TimelineOrder, 4) = {"PENDING_BUYER", "AWAITING_PAYMENT", "PAID", "SHIPPED"}
  /\ Upto(TimelineOrder, 5) = {"PENDING_BUYER", "AWAITING_PAYMENT", "PAID", "SHIPPED", "IN_TRANSIT"}
  /\ Upto(TimelineOrder, 6) = {"PENDING_BUYER", "AWAITING_PAYMENT", "PAID", "SHIPPED", "IN_TRANSIT",
                               "DELIVERED"}
  /\ Upto(TimelineOrder, 7) = {"PENDING_BUYER", "AWAITING_PAYMENT", "PAID", "SHIPPED", "IN_TRANSIT",
                               "DELIVERED", "COMPLETED"}
<1>1. 1 .. 1 = {1} /\ 1 .. 2 = {1, 2} /\ 1 .. 3 = {1, 2, 3} /\ 1 .. 4 = {1, 2, 3, 4}
  OBVIOUS
<1>2. 1 .. 5 = {1, 2, 3, 4, 5} /\ 1 .. 6 = {1, 2, 3, 4, 5, 6} /\ 1 .. 7 = {1, 2, 3, 4, 5, 6, 7}
  OBVIOUS
<1> QED
  BY <1>1, <1>2, Steps DEF Upto

(* the timeline of an order on the path, and of one that was disputed                        *)
LEMMA TimelineOnPath ==
  ASSUME NEW o, NEW i \in 1 .. 7, o.status = TimelineOrder[i]
  PROVE  Timeline(o) = Upto(TimelineOrder, i)
<1>1. Occurs(TimelineOrder, o.status)
  BY Steps DEF Occurs
<1>2. StepsKnown(o) = {TimelineOrder[i]}
  BY <1>1 DEF StepsKnown
<1> QED
  BY <1>2, StepPlaces DEF Timeline

LEMMA TimelineOffPath ==
  ASSUME NEW o, o.status \in {"DISPUTED", "REFUNDED"},
         {"AWAITING_PAYMENT", "PAID", "SHIPPED", "DELIVERED"} \subseteq o.stamps,
         "COMPLETED" \notin o.stamps
  PROVE  Timeline(o) = Upto(TimelineOrder, 6)
<1>1. \A i \in 1 .. 7 : TimelineOrder[i] \notin {"DISPUTED", "REFUNDED"}
  <2>1. ASSUME NEW i \in 1 .. 7 PROVE TimelineOrder[i] \notin {"DISPUTED", "REFUNDED"}
    <3>1. i \in {1, 2, 3, 4, 5, 6, 7}
      OBVIOUS
    <3> QED
      BY <3>1, Steps
  <2> QED
    BY <2>1
<1>2. ~Occurs(TimelineOrder, o.status)
  BY <1>1, Steps DEF Occurs
<1>3. StepsKnown(o) = {"PENDING_BUYER", "AWAITING_PAYMENT", "PAID", "SHIPPED", "DELIVERED"}
  BY <1>2 DEF StepsKnown
<1>4. /\ IndexIn(TimelineOrder, "PENDING_BUYER") = 1 /\ IndexIn(TimelineOrder, "AWAITING_PAYMENT") = 2
      /\ IndexIn(TimelineOrder, "PAID") = 3 /\ IndexIn(TimelineOrder, "SHIPPED") = 4
      /\ IndexIn(TimelineOrder, "DELIVERED") = 6
  BY Steps, StepPlaces
<1>5. Timeline(o) = Upto(TimelineOrder, 1) \cup Upto(TimelineOrder, 2) \cup Upto(TimelineOrder, 3)
                      \cup Upto(TimelineOrder, 4) \cup Upto(TimelineOrder, 6)
  BY <1>3, <1>4 DEF Timeline
<1> QED
  BY <1>5, Prefixes

(* the stepper of the tracking page leaves the first step out                                *)
LEMMA HappySteps ==
  /\ DOMAIN HappyPath = 1 .. 6
  /\ \A i \in 1 .. 6 : HappyPath[i] = TimelineOrder[i + 1]
BY DEF HappyPath, TimelineOrder

LEMMA StepperOnPath ==
  ASSUME NEW o, StatusStepper(o) # {}
  PROVE  \E i \in 1 .. 7 : o.status = TimelineOrder[i] /\ StatusStepper(o) \subseteq Upto(TimelineOrder, i)
<1>1. Occurs(HappyPath, o.status)
  BY DEF StatusStepper
<1>2. PICK j \in 1 .. 6 : HappyPath[j] = o.status
  BY <1>1, HappySteps DEF Occurs
<1>3. \A k \in 1 .. 6 : HappyPath[k] = HappyPath[j] => k = j
  <2>1. \A k \in 1 .. 7 : TimelineOrder[k] = TimelineOrder[j + 1] => k = j + 1
    BY StepPlaces, j + 1 \in 1 .. 7
  <2> QED
    BY <2>1, HappySteps
<1>4. IndexIn(HappyPath, o.status) = j
  BY <1>2, <1>3, HappySteps DEF IndexIn
<1>5. StatusStepper(o) = {HappyPath[k] : k \in 1 .. j}
  BY <1>1, <1>4 DEF StatusStepper, Upto
<1>6. {HappyPath[k] : k \in 1 .. j} \subseteq {TimelineOrder[k] : k \in 1 .. (j + 1)}
  <2>1. ASSUME NEW k \in 1 .. j PROVE HappyPath[k] = TimelineOrder[k + 1] /\ k + 1 \in 1 .. (j + 1)
    BY HappySteps
  <2> QED
    BY <2>1
<1>7. j + 1 \in 1 .. 7 /\ o.status = TimelineOrder[j + 1]
  BY <1>2, HappySteps
<1> QED
  BY <1>5, <1>6, <1>7 DEF Upto

LEMMA OneStory ==
  ASSUME DeskPath
  PROVE  PagesTellOneStory
<1> SUFFICES ASSUME overtaken = 0
             PROVE  /\ Timeline(order) = reached \ {"DISPUTED", "CANCELLED", "REFUNDED"}
                    /\ TrackResults(order, events) \subseteq reached
  BY DEF PagesTellOneStory
<1>0. /\ OnPath(order, reached, checkout) /\ order.stamps = reached
      /\ order.status \in reached /\ \A i \in DOMAIN events : events[i] \in reached
  BY DEF DeskPath, DeskInv, RowInv, PathInv
<1>1. \E s \in {"PENDING_BUYER", "AWAITING_PAYMENT", "PAID", "SHIPPED", "IN_TRANSIT", "DELIVERED",
                "COMPLETED", "DISPUTED", "REFUNDED"} : order.status = s
  BY <1>0 DEF OnPath, Story
<1>2. Timeline(order) = reached \ {"DISPUTED", "CANCELLED", "REFUNDED"}
  <2>1. CASE order.status = "PENDING_BUYER"
    BY <1>0, <2>1, TimelineOnPath, Steps, Prefixes DEF OnPath, Story
  <2>2. CASE order.status = "AWAITING_PAYMENT"
    BY <1>0, <2>2, TimelineOnPath, Steps, Prefixes DEF OnPath, Story
  <2>3. CASE order.status = "PAID"
    BY <1>0, <2>3, TimelineOnPath, Steps, Prefixes DEF OnPath, Story
  <2>4. CASE order.status = "SHIPPED"
    BY <1>0, <2>4, TimelineOnPath, Steps, Prefixes DEF OnPath, Story
  <2>5. CASE order.status = "IN_TRANSIT"
    BY <1>0, <2>5, TimelineOnPath, Steps, Prefixes DEF OnPath, Story
  <2>6. CASE order.status = "DELIVERED"
    BY <1>0, <2>6, TimelineOnPath, Steps, Prefixes DEF OnPath, Story
  <2>7. CASE order.status = "COMPLETED"
    BY <1>0, <2>7, TimelineOnPath, Steps, Prefixes DEF OnPath, Story
  <2>8. CASE order.status \in {"DISPUTED", "REFUNDED"}
    <3>1. /\ {"AWAITING_PAYMENT", "PAID", "SHIPPED", "DELIVERED"} \subseteq reached
          /\ "COMPLETED" \notin reached
          /\ reached \ {"DISPUTED", "CANCELLED", "REFUNDED"}
               = {"PENDING_BUYER", "AWAITING_PAYMENT", "PAID", "SHIPPED", "IN_TRANSIT", "DELIVERED"}
      BY <1>0, <2>8 DEF OnPath, Story
    <3> QED
      BY <1>0, <2>8, <3>1, TimelineOffPath, Prefixes
  <2> QED
    BY <1>1, <2>1, <2>2, <2>3, <2>4, <2>5, <2>6, <2>7, <2>8
<1>3. StatusStepper(order) \subseteq reached
  <2>1. CASE StatusStepper(order) = {}
    BY <2>1
  <2>2. CASE StatusStepper(order) # {}
    BY <1>2, <2>2, StepperOnPath, TimelineOnPath
  <2> QED
    BY <2>1, <2>2
<1>4. Track(order, events) \subseteq reached
  BY <1>0 DEF Track
<1> QED
  BY <1>2, <1>3, <1>4 DEF TrackResults

(* PagesTellOneStory: buildTimeline puts a disputed or refunded order where its timestamps    *)
(* are, and StatusStepper and the scans of the tracking page claim no step that was not taken. *)
THEOREM OneStoryAlways == DeskSpec => []PagesTellOneStory
BY OneStory, DeskPathAlways, PTL

-----------------------------------------------------------------------------------
(* What the pages offer, and what the server makes of it.                                  *)
LEMMA AccountRoles ==
  ASSUME NEW p
  PROVE  /\ RoleOf(p) \in Everybody
         /\ p \in Admins => RoleOf(p) = "ADMIN"
         /\ p \notin Admins \cup Riders => RoleOf(p) = "USER"
BY RolesOfPeople DEF RoleOf, Everybody

LEMMA GuardsLetIn ==
  /\ \A role \in Everybody : /\ LetIn(role, Act("confirm")) /\ LetIn(role, Act("pay"))
                             /\ LetIn(role, Act("scan")) /\ \A to : LetIn(role, StatusAct(to))
  /\ LetIn("USER", Act("raise"))
  /\ \A rider : LetIn("ADMIN", AssignAct(rider))
BY ActParts DEF LetIn, Handlers, OrdersController, PaymentsController, DisputesController,
   WaybillsController

LEMMA TableAllows ==
  ASSUME NEW role
  PROVE  /\ role \in {"SELLER", "ADMIN"} => ValidTransition("PAID", "SHIPPED", role)
         /\ role \in {"RIDER", "ADMIN"} => ValidTransition("SHIPPED", "IN_TRANSIT", role)
         /\ role \in {"RIDER", "ADMIN"} => ValidTransition("IN_TRANSIT", "DELIVERED", role)
         /\ role \in {"BUYER", "ADMIN"} => ValidTransition("DELIVERED", "COMPLETED", role)
         /\ role = "ADMIN" => ValidTransition("DISPUTED", "COMPLETED", role)
<1> DEFINE Allowed(e) == e \in ORDER_STATE_MACHINE /\ role \in e.roles
<1>1. \A from, to, roles : Edge(from, to, roles).from = from /\ Edge(from, to, roles).to = to
                           /\ Edge(from, to, roles).roles = roles
  BY DEF Edge
<1>2. /\ Edge("PAID", "SHIPPED", {"SELLER", "ADMIN"}) \in ORDER_STATE_MACHINE
      /\ Edge("SHIPPED", "IN_TRANSIT", {"RIDER", "ADMIN"}) \in ORDER_STATE_MACHINE
      /\ Edge("IN_TRANSIT", "DELIVERED", {"RIDER", "ADMIN"}) \in ORDER_STATE_MACHINE
      /\ Edge("DELIVERED", "COMPLETED", {"BUYER", "ADMIN"}) \in ORDER_STATE_MACHINE
      /\ Edge("DISPUTED", "COMPLETED", {"ADMIN"}) \in ORDER_STATE_MACHINE
  BY DEF ORDER_STATE_MACHINE
<1>3. ASSUME NEW from, NEW to, NEW roles, Edge(from, to, roles) \in ORDER_STATE_MACHINE, role \in roles
      PROVE  ValidTransition(from, to, role)
  BY <1>1, <1>3 DEF ValidTransition
<1> QED
  BY <1>2, <1>3

LEMMA StatusAccepted ==
  ASSUME NEW p, NEW to, NEW o, ValidTransition(o.status, to, RoleOn(p, o))
  PROVE  Accepts(p, StatusAct(to), o)
<1>1. LetIn(RoleOf(p), StatusAct(to))
  BY AccountRoles, GuardsLetIn
<1>2. Agrees(p, StatusAct(to), o)
  BY ActParts DEF Agrees
<1> QED
  BY <1>1, <1>2 DEF Accepts

(* the parties of an order nobody has two parts in                                           *)
LEMMA Parties ==
  ASSUME DeskPath, Undisturbed
  PROVE  /\ order \in DeskRow /\ OnPath(order, reached, checkout)
         /\ order.seller \in People /\ order.addressee \in People /\ order.addressee # NoOne
         /\ order.seller # order.addressee /\ order.addressee \notin Admins \cup Riders
         /\ order.seller \notin Riders /\ order.rider \in Riders \cup {NoOne}
         /\ order.status # "PENDING_BUYER" => order.buyer = order.addressee
         /\ order.status = "PENDING_BUYER" => order.buyer = NoOne
BY NoOneIsNobody DEF DeskPath, DeskInv, RowInv, PathInv, Undisturbed, OneHatEach, DeskRow, OnPath

LEMMA ButtonAccepted ==
  ASSUME DeskPath, Undisturbed, NEW p \in People, NEW pg \in PagesOf(p) \ {"adminDisputes"},
         Sees(p, order), NEW act \in OffersOn(pg, p, order)
  PROVE  Accepts(p, act, order) \/ (act = Act("raise") /\ late)
<1>1. Offer(pg, p, act, order)
  BY Parties, OfferTable
<1>2. p # NoOne
  BY NoOneIsNobody
<1>3. CASE act = Act("confirm") /\ order.status = "PENDING_BUYER" /\ order.addressee = p
  BY <1>3, ActParts, AccountRoles, GuardsLetIn DEF Accepts, Agrees
<1>4. CASE act = Act("pay") /\ order.status = "AWAITING_PAYMENT" /\ IsBuyer(p, order)
  <2>1. order.buyer = p /\ p # NoOne /\ ~Settled
    BY <1>2, <1>4, Parties DEF IsBuyer, MatchesEmail, OnPath, Settled
  <2> QED
    BY <1>4, <2>1, ActParts, AccountRoles, GuardsLetIn DEF Accepts, Agrees
<1>5. CASE act = Act("raise") /\ order.status = "DELIVERED" /\ IsBuyer(p, order) /\ ~late
  <2>1. order.buyer = p /\ p \notin Admins \cup Riders /\ order.dispute = "NONE"
    BY <1>5, Parties DEF IsBuyer, MatchesEmail, OnPath, Story
  <2>2. LetIn(RoleOf(p), act)
    <3>1. RoleOf(p) = "USER"
      BY <2>1, AccountRoles
    <3> QED
      BY <1>5, <3>1, GuardsLetIn
  <2>3. Agrees(p, act, order)
    BY <1>5, <2>1, ActParts DEF Agrees
  <2> QED
    BY <2>2, <2>3 DEF Accepts
<1>6. ASSUME p \in Riders, order.status \in {"SHIPPED", "IN_TRANSIT", "DELIVERED"}
      PROVE  order.rider = p /\ p \notin Admins /\ RoleOn(p, order) = "RIDER"
  <2>1. p # order.seller /\ p # order.buyer /\ p \notin Admins
    BY <1>6, Parties, RolesOfPeople
  <2>2. order.rider = p
    BY <1>6, <2>1 DEF Sees
  <2> QED
    BY <2>1, <2>2 DEF RoleOn
<1>7. CASE act = Act("scan") /\ RiderListed(order) /\ p \in Riders
  BY <1>6, <1>7, ActParts, AccountRoles, GuardsLetIn DEF Accepts, Agrees, RiderListed, MayScan
<1>8. CASE act = StatusAct("SHIPPED") /\ order.status = "PAID" /\ order.seller = p
  <2>1. RoleOn(p, order) \in {"SELLER", "ADMIN"}
    BY <1>8 DEF RoleOn
  <2> QED
    BY <1>8, <2>1, TableAllows, StatusAccepted
<1>9. CASE act = StatusAct("IN_TRANSIT") /\ order.status = "SHIPPED" /\ p \in Riders
  BY <1>6, <1>9, TableAllows, StatusAccepted
<1>10. CASE act = StatusAct("DELIVERED") /\ order.status = "IN_TRANSIT" /\ p \in Riders
  BY <1>6, <1>10, TableAllows, StatusAccepted
<1>11. CASE act = StatusAct("COMPLETED") /\ order.status = "DELIVERED" /\ IsBuyer(p, order)
  <2>1. order.buyer = p /\ p \notin Admins \cup {order.seller}
    BY <1>11, Parties DEF IsBuyer, MatchesEmail
  <2>2. RoleOn(p, order) = "BUYER"
    BY <2>1 DEF RoleOn
  <2> QED
    BY <1>11, <2>2, TableAllows, StatusAccepted
<1>12. CASE act \in AssignRiderModal /\ order.status = "SHIPPED" /\ p \in Admins
  <2>1. PICK rider \in Riders : act = AssignAct(rider)
    BY <1>12 DEF AssignRiderModal
  <2>2. RoleOf(p) = "ADMIN"
    BY <1>12, AccountRoles
  <2>3. LetIn(RoleOf(p), act)
    BY <2>1, <2>2, GuardsLetIn
  <2>4. Agrees(p, act, order)
    BY <1>12, <2>1, ActParts DEF Agrees
  <2> QED
    BY <2>3, <2>4 DEF Accepts
<1> QED
  BY <1>1, <1>3, <1>4, <1>5, <1>7, <1>8, <1>9, <1>10, <1>11, <1>12 DEF Offer

LEMMA PagesLoad ==
  ASSUME NEW p, NEW pg \in PagesOf(p) \ {"adminDisputes"}, NEW required \in Fetches(pg)
  PROVE  RoleOf(p) \in required
<1>1. pg \in {"order", "payments", "riderOrders", "riderOrder"} => required = Everybody
  BY DEF Fetches, OrdersController, MessagesController, PaymentsController
<1>2. pg = "adminOrders" => p \in Admins /\ required \in {Everybody, {"ADMIN"}}
  BY DEF Fetches, OrdersController, AdminController, PagesOf, AdminLayout, RiderLayout, When
<1>3. pg \in {"order", "payments", "riderOrders", "riderOrder", "adminOrders"}
  BY DEF PagesOf, AdminLayout, RiderLayout, When
<1> QED
  BY <1>1, <1>2, <1>3, AccountRoles

(* OfferedIsAccepted: the buttons of the order page, the rider's, the admin's order and the   *)
(* payments page ask for no more than updateStatus, confirmByBuyer, initiatePayment, raise,    *)
(* assignRider and scan then demand, the guards and the two notions of a role included.       *)
THEOREM ButtonsWork == DeskSpec => []OfferedIsAccepted
<1>1. DeskPath => OfferedIsAccepted
  BY ButtonAccepted, PagesLoad DEF OfferedIsAccepted
<1> QED
  BY <1>1, DeskPathAlways, PTL

-----------------------------------------------------------------------------------
(* Somebody can go on.                                                                    *)
LEMMA OrderPageLinked ==
  ASSUME NEW p \in People, NEW o
  PROVE  /\ "order" \in Linked(p, o) \cap PagesOf(p)
         /\ p \in Admins => {"adminOrders", "adminDisputes"} \subseteq Linked(p, o) \cap PagesOf(p)
<1>1. "dashboard" \in Sidebar(p) /\ Links("dashboard", p, o) = {"order"}
  BY DEF Sidebar, SidebarNavItems, Links, OrdersTable
<1>2. ASSUME p \in Admins
      PROVE  "adminPanel" \in Sidebar(p) /\ Links("adminPanel", p, o) = {"adminOrders", "adminDisputes"}
  BY <1>2 DEF Sidebar, AdminNavItems, When, Links
<1> QED
  BY <1>1, <1>2 DEF Linked, Page, PagesOf, AdminLayout, When

(* NobodyStuck: with an admin and a rider at work, every status that is not the end of an     *)
(* order has a button, on a page its party gets to, that the server accepts.                  *)
THEOREM AlwaysAWayOn ==
  ASSUME Admins # {}, Riders # {}
  PROVE  DeskSpec => []NobodyStuck
<1>1. DeskPath => NobodyStuck
  <2> SUFFICES ASSUME DeskPath, Undisturbed, EndNotice(order) = "none"
               PROVE  \E p \in People : \E pg \in Linked(p, order) \cap PagesOf(p) :
                        Sees(p, order) /\ \E act \in OffersOn(pg, p, order) \ {Act("scan")} :
                                             Accepts(p, act, order)
    BY DEF NobodyStuck
  <2>1. ASSUME NEW p \in People, Sees(p, order),
               NEW pg \in Linked(p, order) \cap PagesOf(p), pg # "adminDisputes",
               NEW act \in OffersOn(pg, p, order), act.do \notin {"scan", "raise"}
        PROVE  \E q \in People : \E g \in Linked(q, order) \cap PagesOf(q) :
                 Sees(q, order) /\ \E a \in OffersOn(g, q, order) \ {Act("scan")} :
                                      Accepts(q, a, order)
    <3>1. Accepts(p, act, order) /\ act # Act("scan")
      BY <2>1, ButtonAccepted, ActParts
    <3> QED
      BY <2>1, <3>1
  <2>2. order.status \in {"PENDING_BUYER", "AWAITING_PAYMENT", "PAID", "SHIPPED", "IN_TRANSIT",
                          "DELIVERED", "DISPUTED"}
    BY Parties DEF EndNotice, OnPath, Story
  <2> DEFINE buyer == order.addressee
  <2>3. \A p \in People : OffersOn("order", p, order) = OrderActions(p, order) \cup DisputeCard(p, order)
    BY DEF OffersOn
  <2>4. CASE order.status = "PENDING_BUYER"
    <3>1. Act("confirm") \in OffersOn("order", buyer, order) /\ Sees(buyer, order)
      BY <2>3, <2>4, Parties DEF OrderActions, MatchesEmail, Sees
    <3> QED
      BY <2>1, <3>1, Parties, OrderPageLinked, ActParts
  <2>5. CASE order.status = "AWAITING_PAYMENT"
    <3>1. Act("pay") \in OffersOn("order", buyer, order) /\ Sees(buyer, order)
      BY <2>3, <2>5, Parties DEF OrderActions, IsBuyer, MatchesEmail, Sees
    <3> QED
      BY <2>1, <3>1, Parties, OrderPageLinked, ActParts
  <2>6. CASE order.status = "PAID"
    <3>1. StatusAct("SHIPPED") \in OffersOn("order", order.seller, order) /\ Sees(order.seller, order)
      BY <2>3, <2>6, Parties DEF OrderActions, SellerActions, When, Sees
    <3> QED
      BY <2>1, <3>1, Parties, OrderPageLinked, ActParts
  <2>7. CASE order.status = "SHIPPED" /\ order.rider = NoOne
    <3>1. PICK a \in Admins, r \in Riders : TRUE
      OBVIOUS
    <3>2. AssignAct(r) \in OffersOn("adminOrders", a, order) /\ Sees(a, order) /\ a \in People
      BY <2>7, RolesOfPeople DEF OffersOn, AdminOrders, AssignRiderModal, When, Sees
    <3> QED
      BY <2>1, <3>2, OrderPageLinked, ActParts
  <2>8. CASE order.status \in {"SHIPPED", "IN_TRANSIT"} /\ order.rider # NoOne
    <3>1. order.rider \in People
      BY <2>8, Parties, RolesOfPeople
    <3>2. \E act \in OffersOn("order", order.rider, order) : act.do = "status"
      BY <2>3, <2>8, <3>1, ActParts DEF OrderActions, RiderActions, When
    <3>3. Sees(order.rider, order)
      BY DEF Sees
    <3> QED
      BY <2>1, <3>1, <3>2, <3>3, OrderPageLinked
  <2>9. CASE order.status = "DELIVERED"
    <3>1. StatusAct("COMPLETED") \in OffersOn("order", buyer, order) /\ Sees(buyer, order)
      BY <2>3, <2>9, Parties DEF OrderActions, BuyerActions, IsBuyer, MatchesEmail, When, Sees
    <3> QED
      BY <2>1, <3>1, Parties, OrderPageLinked, ActParts
  <2>10. CASE order.status = "DISPUTED"
    <3>1. PICK a \in Admins : TRUE
      OBVIOUS
    <3>2. order.dispute = "OPEN"
      BY <2>10, Parties DEF OnPath, Story
    <3>3. StatusAct("COMPLETED") \in OffersOn("adminDisputes", a, order) /\ Sees(a, order) /\ a \in People
      BY <3>2, RolesOfPeople DEF OffersOn, AdminDisputes, When, Sees
    <3>4. RoleOn(a, order) = "ADMIN"
      BY DEF RoleOn
    <3>5. Accepts(a, StatusAct("COMPLETED"), order) /\ StatusAct("COMPLETED") # Act("scan")
      BY <2>10, <3>4, ActParts, TableAllows, StatusAccepted
    <3> QED
      BY <3>3, <3>5, OrderPageLinked
  <2>11. order.status = "IN_TRANSIT" => order.rider # NoOne
    BY Parties DEF OnPath
  <2> QED
    BY <2>2, <2>4, <2>5, <2>6, <2>7, <2>8, <2>9, <2>10, <2>11
<1> QED
  BY <1>1, DeskPathAlways, PTL

-----------------------------------------------------------------------------------
(* The lists and figures.                                                                  *)
LEMMA Found ==
  ASSUME DeskPath, Undisturbed
  PROVE  FoundByStatus
<1> DEFINE confirmed == "AWAITING_PAYMENT" \in reached
           listed == StatusBars(order) \cup OrdersTabs(order)
<1>1. OnPath(order, reached, checkout)
  BY Parties
<1>2. listed # {"All"} <=> order.status \in FilterTabs \cup {"IN_TRANSIT", "DISPUTED"}
  BY DEF StatusBars, OrdersTabs, FilterTabs
<1>3. /\ confirmed <=> order.status # "PENDING_BUYER"
      /\ order.status \in {"PENDING_BUYER", "AWAITING_PAYMENT", "PAID", "SHIPPED", "IN_TRANSIT",
                           "DELIVERED", "COMPLETED", "DISPUTED", "REFUNDED"}
      /\ order.status = "DISPUTED" => order.dispute = "OPEN"
  BY <1>1 DEF OnPath, Story
<1>4. listed # {"All"} <=> confirmed /\ EndNotice(order) \notin {"refunded", "cancelled"}
  BY <1>2, <1>3 DEF FilterTabs, EndNotice
<1>5. AdminDashboard(order) \cap OrderStatus = {} <=> EndNotice(order) = "refunded"
  <2>1. AdminStats(order) \cap OrderStatus = {}
    BY DEF AdminStats, When, OrderStatus
  <2>2. OrderStatusRows(order) \cap OrderStatus = {} <=> order.status = "REFUNDED"
    BY <1>3 DEF OrderStatusRows, OrderStatus
  <2>3. EndNotice(order) = "refunded" <=> order.status = "REFUNDED"
    BY <1>3 DEF EndNotice
  <2> QED
    BY <2>1, <2>2, <2>3 DEF AdminDashboard
<1>6. OrderSummary(order) = [buyer |-> order.addressee, confirmed |-> confirmed]
  <2>1. CASE order.status = "PENDING_BUYER"
    <3>1. confirmed = FALSE
      BY <1>3, <2>1
    <3>2. order.buyer = NoOne
      BY <2>1, Parties
    <3> HIDE DEF confirmed
    <3> QED
      BY <3>1, <3>2 DEF OrderSummary
  <2>2. CASE order.status # "PENDING_BUYER"
    <3>1. confirmed = TRUE
      BY <1>3, <2>2
    <3>2. order.buyer = order.addressee /\ order.buyer # NoOne
      BY <2>2, Parties
    <3> HIDE DEF confirmed
    <3> QED
      BY <3>1, <3>2 DEF OrderSummary
  <2> QED
    BY <2>1, <2>2
<1>7. order.status = "DISPUTED" => DisputeDetails(order) = "locked"
  BY <1>3 DEF DisputeDetails
<1> QED
  BY <1>4, <1>5, <1>6, <1>7 DEF FoundByStatus

(* where the money is, without a dispute                                                    *)
LEMMA MoneyOnPath ==
  ASSUME DeskPath, Undisturbed, order.dispute = "NONE"
  PROVE  \/ /\ order.status \in {"PENDING_BUYER", "AWAITING_PAYMENT"} /\ order.escrow = "PENDING"
            /\ ~PaidOn(order) /\ ~ReleasedOn(order)
         \/ /\ order.status \in {"PAID", "SHIPPED", "IN_TRANSIT", "DELIVERED"}
            /\ order.escrow = IF checkout = "held" THEN "HOLDING" ELSE "PENDING"
            /\ PaidOn(order) /\ ~ReleasedOn(order)
         \/ /\ order.status = "COMPLETED"
            /\ order.escrow = IF checkout = "held" THEN "RELEASED" ELSE "PENDING"
            /\ PaidOn(order) /\ ReleasedOn(order)
<1>1. order.stamps = reached /\ OnPath(order, reached, checkout)
  BY Parties DEF DeskPath, DeskInv, RowInv
<1> QED
  BY <1>1 DEF OnPath, Story, PaidOn, ReleasedOn

(* the figures, by the two columns they are counted from                                    *)
LEMMA FiguresOf ==
  ASSUME NEW p, NEW o
  PROVE  /\ Dashboard(p, o) \cap MoneyFigures
              = When(o.escrow = "HOLDING", {"inEscrow"}) \cup When(o.status = "COMPLETED", {"released"})
         /\ "released" \in AdminDashboard(o) <=> o.escrow = "RELEASED"
         /\ EndNotice(o) = "released" <=> o.status = "COMPLETED"
<1>1. Dashboard(p, o) \cap MoneyFigures
        = When(o.escrow = "HOLDING", {"inEscrow"}) \cup When(o.status = "COMPLETED", {"released"})
  <2>1. StatsGrid(o) \cap MoneyFigures
          = When(o.escrow = "HOLDING", {"inEscrow"}) \cup When(o.status = "COMPLETED", {"released"})
    BY DEF StatsGrid, MoneyFigures, When
  <2>2. (MobileStats(o) \cup ContextPills(p, o)) \cap MoneyFigures = {}
    BY DEF MobileStats, ContextPills, MoneyFigures, When
  <2> QED
    BY <2>1, <2>2 DEF Dashboard
<1>2. "released" \in AdminDashboard(o) <=> o.escrow = "RELEASED"
  <2>1. "released" \in AdminStats(o) <=> o.escrow = "RELEASED"
    BY DEF AdminStats, When
  <2>2. "released" \notin OrderStatusRows(o)
    BY DEF OrderStatusRows
  <2> QED
    BY <2>1, <2>2 DEF AdminDashboard
<1> QED
  BY <1>1, <1>2 DEF EndNotice

LEMMA MoneyOnce ==
  ASSUME DeskPath, Undisturbed, order.dispute = "NONE", PaidOn(order) => checkout = "held",
         NEW p \in People
  PROVE  MoneyCountedOnce(p)
<1> DEFINE counted == Dashboard(p, order) \cap MoneyFigures
<1>1. /\ counted = When(order.escrow = "HOLDING", {"inEscrow"})
                      \cup When(order.status = "COMPLETED", {"released"})
      /\ "released" \in AdminDashboard(order) <=> order.escrow = "RELEASED"
      /\ EndNotice(order) = "released" <=> order.status = "COMPLETED"
  BY FiguresOf
<1> HIDE DEF counted
<1>3. CASE order.status \in {"PENDING_BUYER", "AWAITING_PAYMENT"}
  <2>1. order.escrow = "PENDING" /\ ~PaidOn(order) /\ ~ReleasedOn(order)
    BY <1>3, MoneyOnPath
  <2>2. counted = {} /\ PaymentCards(p, order) = {}
    BY <1>1, <1>3, <2>1 DEF When, PaymentCards
  <2> QED
    BY <1>1, <1>3, <2>1, <2>2 DEF MoneyCountedOnce, counted, MobilePaymentCards, EscrowCard
<1>4. CASE order.status \in {"PAID", "SHIPPED", "IN_TRANSIT", "DELIVERED"}
  <2>1. order.escrow = "HOLDING" /\ PaidOn(order) /\ ~ReleasedOn(order)
    BY <1>4, MoneyOnPath
  <2>2. counted = {"inEscrow"} /\ (Mine(p, order) => PaymentCards(p, order) = {"inEscrow"})
    BY <1>1, <1>4, <2>1 DEF When, PaymentCards
  <2> QED
    BY <1>1, <1>4, <2>1, <2>2 DEF MoneyCountedOnce, counted, MobilePaymentCards, EscrowCard
<1>5. CASE order.status = "COMPLETED"
  <2>1. order.escrow = "RELEASED" /\ PaidOn(order) /\ ReleasedOn(order)
    BY <1>5, MoneyOnPath
  <2>2. counted = {"released"} /\ (Mine(p, order) => PaymentCards(p, order) = {"released"})
    BY <1>1, <1>5, <2>1 DEF When, PaymentCards
  <2> QED
    BY <1>1, <1>5, <2>1, <2>2 DEF MoneyCountedOnce, counted, MobilePaymentCards, EscrowCard
<1> QED
  BY <1>3, <1>4, <1>5, MoneyOnPath

(* an order set to PAID whose money never came in                                            *)
LEMMA MoneyMissing ==
  ASSUME DeskPath, Undisturbed, order.dispute = "NONE", PaidOn(order), checkout # "held",
         NEW p \in People
  PROVE  UnfundedCounted(p)
<1> DEFINE counted == Dashboard(p, order) \cap MoneyFigures
<1>1. /\ counted = When(order.escrow = "HOLDING", {"inEscrow"})
                      \cup When(order.status = "COMPLETED", {"released"})
      /\ "released" \in AdminDashboard(order) <=> order.escrow = "RELEASED"
  BY FiguresOf
<1> HIDE DEF counted
<1>2. order.escrow = "PENDING" /\ (order.status = "COMPLETED" <=> ReleasedOn(order))
  BY MoneyOnPath
<1>3. counted = IF ReleasedOn(order) THEN {"released"} ELSE {}
  BY <1>1, <1>2 DEF When
<1>4. PaymentCards(p, order) = {} /\ EscrowCard(order) = "awaiting payment"
  BY <1>2 DEF When, PaymentCards, EscrowCard
<1> QED
  BY <1>1, <1>2, <1>3, <1>4 DEF UnfundedCounted, counted

LEMMA SmallCards ==
  /\ Cardinality({}) = 0
  /\ \A a, b : a # b => Cardinality({a, b}) = 2
<1>1. Cardinality({}) = 0 /\ IsFiniteSet({})
  BY FS_EmptySet
<1>2. ASSUME NEW a, NEW b, a # b PROVE Cardinality({a, b}) = 2
  <2>1. IsFiniteSet({b}) /\ Cardinality({b}) = 1
    BY FS_Singleton
  <2>2. {a, b} = {b} \cup {a} /\ a \notin {b}
    BY <1>2
  <2> QED
    BY <2>1, <2>2, FS_AddElement
<1> QED
  BY <1>1, <1>2

(* badge and progress of a card, by the status it shows                                     *)
LEMMA CardOfStatus ==
  ASSUME NEW o, o.status \in {"PENDING_BUYER", "AWAITING_PAYMENT", "PAID", "SHIPPED", "IN_TRANSIT",
                             "DELIVERED", "COMPLETED"}
  PROVE  /\ GetProgress(o) >= 20 <=> o.status \in {"SHIPPED", "IN_TRANSIT", "DELIVERED", "COMPLETED"}
         /\ GetProgress(o) >= 90 <=> ShipmentStatus(o) = "Delivered"
         /\ GetProgress(o) = 100 <=> o.status = "COMPLETED"
         /\ ShipmentStatus(o) # "Pending"
              <=> o.status \in {"SHIPPED", "IN_TRANSIT", "DELIVERED", "COMPLETED"}
<1>1. CASE o.status \in {"PENDING_BUYER", "AWAITING_PAYMENT"}
  <2>1. GetProgress(o) = 0 /\ ShipmentStatus(o) = "Pending"
    BY <1>1 DEF GetProgress, ShipmentStatus
  <2> QED
    BY <1>1, <2>1
<1>2. CASE o.status = "PAID"
  <2>1. GetProgress(o) = 5 /\ ShipmentStatus(o) = "Pending"
    BY <1>2 DEF GetProgress, ShipmentStatus
  <2> QED
    BY <1>2, <2>1
<1>3. CASE o.status = "SHIPPED"
  <2>1. GetProgress(o) = 20 /\ ShipmentStatus(o) = "Processing"
    BY <1>3 DEF GetProgress, ShipmentStatus
  <2> QED
    BY <1>3, <2>1
<1>4. CASE o.status = "IN_TRANSIT"
  <2>1. GetProgress(o) = 60 /\ ShipmentStatus(o) = "InTransit"
    BY <1>4 DEF GetProgress, ShipmentStatus
  <2> QED
    BY <1>4, <2>1
<1>5. CASE o.status = "DELIVERED"
  <2>1. GetProgress(o) = 90 /\ ShipmentStatus(o) = "Delivered"
    BY <1>5 DEF GetProgress, ShipmentStatus
  <2> QED
    BY <1>5, <2>1
<1>6. CASE o.status = "COMPLETED"
  <2>1. GetProgress(o) = 100 /\ ShipmentStatus(o) = "Delivered"
    BY <1>6 DEF GetProgress, ShipmentStatus
  <2> QED
    BY <1>6, <2>1
<1> QED
  BY <1>1, <1>2, <1>3, <1>4, <1>5, <1>6

LEMMA Shipments ==
  ASSUME DeskPath, Undisturbed, order.dispute = "NONE", NEW p \in People
  PROVE  ShipmentListed(p)
<1> DEFINE shipped == "SHIPPED" \in reached /\ order.status # "DISPUTED"
           card == ShipmentCard(p, order)
<1>1. /\ order.status \in {"PENDING_BUYER", "AWAITING_PAYMENT", "PAID", "SHIPPED", "IN_TRANSIT",
                           "DELIVERED", "COMPLETED"}
      /\ shipped <=> order.status \in {"SHIPPED", "IN_TRANSIT", "DELIVERED", "COMPLETED"}
      /\ "COMPLETED" \in reached <=> order.status = "COMPLETED"
  BY Parties DEF OnPath, Story
<1>2. DOMAIN FilterMap = {"All", "Processing", "InTransit", "Delivered"}
      /\ FilterMap.All = {"SHIPPED", "IN_TRANSIT", "DELIVERED", "COMPLETED"}
      /\ FilterMap["All"] = {"SHIPPED", "IN_TRANSIT", "DELIVERED", "COMPLETED"}
      /\ FilterMap["Processing"] = {"SHIPPED"} /\ FilterMap["InTransit"] = {"IN_TRANSIT"}
      /\ FilterMap["Delivered"] = {"DELIVERED", "COMPLETED"}
  BY DEF FilterMap
<1>3. ~(Mine(p, order) /\ shipped) =>
        ShipmentTabs(p, order) = {} /\ ShipmentStats(p, order) = {}
  BY <1>1, <1>2 DEF ShipmentTabs, ShipmentStats, When
<1>4. Mine(p, order) /\ order.status = "SHIPPED" =>
        /\ ShipmentTabs(p, order) = {"All", "Processing"}
        /\ ShipmentStats(p, order) = {"total", "processing"}
  BY <1>2 DEF ShipmentTabs, ShipmentStats, When
<1>5. Mine(p, order) /\ order.status = "IN_TRANSIT" =>
        /\ ShipmentTabs(p, order) = {"All", "InTransit"}
        /\ ShipmentStats(p, order) = {"total", "inTransit"}
  BY <1>2 DEF ShipmentTabs, ShipmentStats, When
<1>6. Mine(p, order) /\ order.status \in {"DELIVERED", "COMPLETED"} =>
        /\ ShipmentTabs(p, order) = {"All", "Delivered"}
        /\ ShipmentStats(p, order) = {"total", "delivered"}
  BY <1>2 DEF ShipmentTabs, ShipmentStats, When
<1>7. /\ Mine(p, order) /\ shipped <=> Cardinality(ShipmentTabs(p, order)) = 2
      /\ Cardinality(ShipmentTabs(p, order)) = Cardinality(ShipmentStats(p, order))
  <2>1. CASE ~(Mine(p, order) /\ shipped)
    BY <1>3, <2>1, SmallCards
  <2>2. CASE Mine(p, order) /\ shipped
    <3>1. /\ Cardinality({"All", "Processing"}) = 2 /\ Cardinality({"total", "processing"}) = 2
          /\ Cardinality({"All", "InTransit"}) = 2 /\ Cardinality({"total", "inTransit"}) = 2
          /\ Cardinality({"All", "Delivered"}) = 2 /\ Cardinality({"total", "delivered"}) = 2
      BY SmallCards
    <3> QED
      BY <1>1, <1>4, <1>5, <1>6, <2>2, <3>1
  <2> QED
    BY <2>1, <2>2
<1>8. RiderListed(order) => Cardinality(RiderStats(order)) = 2 /\ Cardinality(RiderTabs(order)) = 2
  <2> SUFFICES ASSUME RiderListed(order)
               PROVE  Cardinality(RiderStats(order)) = 2 /\ Cardinality(RiderTabs(order)) = 2
    OBVIOUS
  <2>1. RiderTabs(order) = {"All", order.status} /\ order.status # "All"
    BY DEF RiderTabs, RiderListed, When
  <2>2. \/ RiderStats(order) = {"total", "outForDelivery"}
        \/ RiderStats(order) = {"total", "inTransit"}
        \/ RiderStats(order) = {"total", "delivered"}
    BY DEF RiderStats, RiderListed, When
  <2>3. /\ Cardinality({"total", "outForDelivery"}) = 2 /\ Cardinality({"total", "inTransit"}) = 2
        /\ Cardinality({"total", "delivered"}) = 2 /\ Cardinality({"All", order.status}) = 2
    BY <2>1, SmallCards
  <2> QED
    BY <2>1, <2>2, <2>3
<1>9. card.badge = ShipmentStatus(order) /\ card.progress = GetProgress(order)
  BY DEF ShipmentCard
<1>10. /\ card.badge # "Pending" <=> shipped
       /\ card.progress >= 20 <=> shipped
       /\ card.progress >= 90 <=> card.badge = "Delivered"
       /\ card.progress = 100 <=> "COMPLETED" \in reached
  <2>1. /\ GetProgress(order) >= 20
             <=> order.status \in {"SHIPPED", "IN_TRANSIT", "DELIVERED", "COMPLETED"}
        /\ GetProgress(order) >= 90 <=> ShipmentStatus(order) = "Delivered"
        /\ GetProgress(order) = 100 <=> order.status = "COMPLETED"
        /\ ShipmentStatus(order) # "Pending"
             <=> order.status \in {"SHIPPED", "IN_TRANSIT", "DELIVERED", "COMPLETED"}
    BY <1>1, CardOfStatus
  <2> HIDE DEF card
  <2> QED
    BY <1>1, <1>9, <2>1
<1> HIDE DEF shipped, card
<1> QED
  BY <1>7, <1>8, <1>10 DEF ShipmentListed, shipped, card

LEMMA Announced ==
  ASSUME DeskPath, Undisturbed, order.dispute = "NONE", NEW p \in People
  PROVE  OwedIsAnnounced(p)
<1>1. ASSUME NEW act \in OrderActions(p, order), act \in {Act("pay"), StatusAct("COMPLETED")}
      PROVE  act \in PendingActions(order)
  <2>1. OffersOn("order", p, order) = OrderActions(p, order) \cup DisputeCard(p, order)
    BY DEF OffersOn
  <2>2. "order" \in PagesOf(p)
    BY DEF PagesOf
  <2>3. Offer("order", p, act, order)
    BY <2>1, <2>2, Parties, OfferTable
  <2>4. \/ act = Act("pay") /\ order.status = "AWAITING_PAYMENT"
        \/ act = StatusAct("COMPLETED") /\ order.status = "DELIVERED"
    BY <1>1, <2>3, ActParts DEF Offer, AssignRiderModal
  <2> QED
    BY <2>4 DEF PendingActions
<1> QED
  BY <1>1 DEF OwedIsAnnounced

(* ListsAgree: the dashboard, the orders, payments, shipments and rider pages and the admin's   *)
(* overview, which count by four different columns, put an order where it has been.            *)
THEOREM ListsAlwaysAgree == DeskSpec => []ListsAgree
<1>1. DeskPath => ListsAgree
  <2> SUFFICES ASSUME DeskPath, Undisturbed, order.dispute = "NONE", NEW p \in People, Sees(p, order)
               PROVE  /\ IF PaidOn(order) => checkout = "held" THEN MoneyCountedOnce(p)
                                                              ELSE UnfundedCounted(p)
                      /\ ShipmentListed(p) /\ OwedIsAnnounced(p)
    BY Found DEF ListsAgree
  <2>1. CASE PaidOn(order) => checkout = "held"
    BY <2>1, MoneyOnce, Shipments, Announced
  <2>2. CASE PaidOn(order) /\ checkout # "held"
    BY <2>2, MoneyMissing, Shipments, Announced
  <2> QED
    BY <2>1, <2>2
<1> QED
  BY <1>1, DeskPathAlways, PTL
-----------------------------------------------------------------------------------
(* The money of this order, and what module Custody promises about it: nothing is       *)
(* promised from the first overtaken write on.                                           *)
DeskColumn == IF overtaken = 0 THEN order.escrow ELSE "astray"
DeskFunds == IF overtaken # 0 THEN "astray"
             ELSE IF checkout # "held" THEN "unpaid"
             ELSE IF order.escrow = "RELEASED" THEN "seller" ELSE "held"

DeskMoney == INSTANCE Custody WITH funds <- DeskFunds, column <- DeskColumn

(* A step leaves status and money alone or takes the order one step along the path.      *)
RowStep == \/ /\ order'.status = order.status /\ order'.escrow = order.escrow
              /\ checkout' = "held" <=> checkout = "held"
           \/ PathStep(order, order', checkout, checkout')

LEMMA RowMoves ==
  ASSUME DeskPath, [DeskNext]_deskVars
  PROVE  /\ overtaken \in Nat /\ overtaken' \in Nat /\ overtaken' >= overtaken
         /\ overtaken' = 0 => RowStep
<1> DEFINE Goal == overtaken' \in Nat /\ overtaken' >= overtaken /\ (overtaken' = 0 => RowStep)
<1>0. DeskInv /\ order \in DeskRow /\ overtaken \in Nat
  BY DEF DeskPath, DeskInv, RowInv
<1>1. CASE UNCHANGED <<order, checkout, events, reached, overtaken>> \/ CustomerPays
  BY <1>0, <1>1 DEF CustomerPays, RowStep
<1>2. ASSUME NEW c \in Calls, Write(c) PROVE Goal
  <2> DEFINE row == Written(call[c].act, call[c].by, order)
  <2>1. CASE ~UNCHANGED rowVars
    <3>1. /\ order' = row /\ overtaken' = IF Harmless(c) THEN overtaken ELSE overtaken + 1
          /\ checkout' = IF call[c].act.do = "pay" /\ checkout = "none" THEN "open" ELSE checkout
      BY <1>2, <2>1 DEF Write, WriteRow
    <3>2. overtaken' \in Nat /\ overtaken' >= overtaken /\ (overtaken' = 0 => overtaken = 0 /\ Harmless(c))
      BY <1>0, <3>1
    <3>5. checkout' = "held" <=> checkout = "held"
      BY <3>1
    <3>3. CASE overtaken' = 0 /\ call[c].act.do = "scan"
      BY <3>1, <3>2, <3>3, <3>5 DEF Written, RowStep
    <3>4. CASE overtaken' = 0 /\ call[c].act.do # "scan"
      <4>1. /\ DeskInv /\ call[c].pc = "checked" /\ call[c].fresh
            /\ OnPath(order, reached, checkout)
        BY <1>2, <3>2, <3>4 DEF DeskPath, PathInv, Write, Harmless
      <4> HIDE DEF row
      <4>2. \/ PathStep(order, row, checkout, checkout) /\ call[c].act.do # "pay"
            \/ row = order
            \/ \E rider \in Riders : row = [order EXCEPT !.rider = rider]
        BY <4>1, <3>4, WriteOnPath DEF row, Written
      <4>3. ASSUME NEW rider \in Riders, row = [order EXCEPT !.rider = rider]
            PROVE  row.status = order.status /\ row.escrow = order.escrow
        BY <1>0, <4>3, AssignedRow
      <4>4. call[c].act.do # "pay" => checkout' = checkout
        BY <3>1
      <4> QED
        BY <3>1, <3>2, <3>5, <4>2, <4>3, <4>4 DEF RowStep
    <3> QED
      BY <3>2, <3>3, <3>4
  <2>2. CASE UNCHANGED rowVars
    BY <1>0, <2>2 DEF rowVars, RowStep
  <2> QED
    BY <2>1, <2>2
<1>3. CASE PaymentArrives \/ AutoRelease
  BY <1>0, <1>3, FundedOnPath, ReleasedOnPath DEF RowStep
<1>4. CASE VerifyWrite
  <2>1. overtaken' \in {overtaken, overtaken + 1}
    BY <1>4 DEF VerifyWrite
  <2>2. overtaken' \in Nat /\ overtaken' >= overtaken /\ (overtaken' = 0 => overtaken = 0)
    BY <1>0, <2>1
  <2>3. overtaken' = 0 => RowStep
    BY <1>0, <1>4, <2>2, VerifiedOnPath DEF DeskPath, PathInv, RowStep
  <2> QED
    BY <1>0, <2>2, <2>3
<1> QED
  BY <1>0, <1>1, <1>2, <1>3, <1>4, PathSteps

(* Every status change of an order on the desks is an edge of ORDER_STATE_MACHINE,       *)
(* although only updateStatus() consults the table, until a write is overtaken or a       *)
(* verification sets an order to PAID that waits for no payment.                          *)
THEOREM DeskTableFollowed ==
  DeskSpec => [][overtaken' = 0 => \/ order'.status = order.status
                                   \/ OnTable(order.status, order'.status)]_deskVars
<1>1. ASSUME NEW o, NEW row, NEW ck, NEW after, PathStep(o, row, ck, after)
      PROVE  row.status = o.status \/ OnTable(o.status, row.status)
  BY <1>1 DEF PathStep, OnTable, ORDER_STATE_MACHINE, Edge
<1>2. DeskPath /\ [DeskNext]_deskVars
        => [overtaken' = 0 => \/ order'.status = order.status
                              \/ OnTable(order.status, order'.status)]_deskVars
  BY <1>1, RowMoves DEF RowStep
<1> QED
  BY <1>2, DeskPathAlways, PTL DEF DeskSpec

(* The order on the desks keeps Custody, as the order of the services does (CustodyKept): *)
(* what the pages are checked against and what the ledger is proved about is the same     *)
(* escrow column, released once, out of held funds nobody disputes.                       *)
THEOREM DeskCustodyKept == DeskSpec => DeskMoney!CustodySpec
<1>1. DeskInit => DeskMoney!CustodyInit
  BY DEF DeskInit, DeskMoney!CustodyInit, DeskFunds, DeskColumn
<1>2. ASSUME DeskPath, [DeskNext]_deskVars
      PROVE  [DeskMoney!CustodyNext]_(DeskMoney!custodyVars)
  <2>1. CASE overtaken # 0
    <3>0. overtaken \in Nat /\ overtaken' \in Nat /\ overtaken' >= overtaken
      BY <1>2, RowMoves
    <3>1. overtaken' # 0
      BY <2>1, <3>0
    <3> QED
      BY <2>1, <3>1 DEF DeskFunds, DeskColumn, DeskMoney!custodyVars
  <2>2. CASE overtaken = 0 /\ overtaken' # 0
    BY <2>2 DEF DeskFunds, DeskColumn, DeskMoney!CustodyNext, DeskMoney!GoAstray
  <2>3. CASE overtaken = 0 /\ overtaken' = 0
    <3>1. CASE order'.escrow = order.escrow /\ (checkout' = "held" <=> checkout = "held")
      BY <2>3, <3>1 DEF DeskFunds, DeskColumn, DeskMoney!custodyVars
    <3>2. CASE PathStep(order, order', checkout, checkout')
      <4>1. OnPath(order, reached, checkout)
        BY <1>2, <2>3 DEF DeskPath, PathInv
      <4>2. \/ /\ order.escrow = "PENDING" /\ order'.escrow = "HOLDING"
               /\ checkout # "held" /\ checkout' = "held"
            \/ /\ order.escrow = "HOLDING" /\ order'.escrow = "RELEASED"
               /\ checkout = "held" /\ checkout' = "held"
            \/ /\ order.escrow \in {"PENDING", "HOLDING"} /\ order'.escrow = "DISPUTED"
               /\ checkout' = checkout
            \/ order'.escrow = order.escrow /\ (checkout' = "held" <=> checkout = "held")
        BY <3>2, <4>1 DEF OnPath, Story, PathStep, Kept
      <4>3. CASE /\ order.escrow = "PENDING" /\ order'.escrow = "HOLDING"
                 /\ checkout # "held" /\ checkout' = "held"
        BY <2>3, <4>3 DEF DeskFunds, DeskColumn, DeskMoney!CustodyNext, DeskMoney!TakeIn
      <4>4. CASE /\ order.escrow = "HOLDING" /\ order'.escrow = "RELEASED"
                 /\ checkout = "held" /\ checkout' = "held"
        BY <2>3, <4>4 DEF DeskFunds, DeskColumn, DeskMoney!CustodyNext, DeskMoney!PayOut
      <4>5. CASE /\ order.escrow \in {"PENDING", "HOLDING"} /\ order'.escrow = "DISPUTED"
                 /\ checkout' = checkout
        BY <2>3, <4>5 DEF DeskFunds, DeskColumn, DeskMoney!CustodyNext, DeskMoney!Freeze
      <4> QED
        BY <3>1, <4>2, <4>3, <4>4, <4>5
    <3> QED
      BY <1>2, <2>3, <3>1, <3>2, RowMoves DEF RowStep
  <2> QED
    BY <2>1, <2>2, <2>3
<1> QED
  BY <1>1, <1>2, DeskPathAlways, PTL DEF DeskSpec, DeskMoney!CustodySpec
-----------------------------------------------------------------------------------
(* The buyer who comes back from Paystack: the order is his by then, however many       *)
(* outdated calls went through on the way.                                              *)
BuyerInv ==
  /\ "AWAITING_PAYMENT" \in reached => order.buyer = order.addressee
  /\ checkout # "none" => "AWAITING_PAYMENT" \in reached
  /\ \A c \in Calls : call[c].pc = "checked" =>
       /\ call[c].act.do = "confirm" => call[c].by = order.addressee
       /\ call[c].act.do = "pay" => "AWAITING_PAYMENT" \in reached
  /\ tab.callback => tab.page = "order" /\ viewer = order.addressee /\ checkout # "none"

(* what a step makes of one call that is checked afterwards                             *)
Same(k, l) == l.pc = "checked" => k.pc = "checked" /\ l.by = k.by /\ l.act = k.act

LEMMA AnsweredSame ==
  ASSUME DeskInv, NEW c \in Calls, NEW pc \in {"done", "refused"}, call[c].pc # "idle",
         NEW d \in Calls
  PROVE  Same(call[d], Answered(c, pc)[d])
<1>1. call \in [Calls -> Call \cup {NoCall}] /\ call[c] \in Call
  BY BusyCall DEF DeskInv, CallsInv
<1>2. CASE d = c
  <2> DEFINE s == [call[c] EXCEPT !.pc = pc]
  <2>1. s.pc = pc
    BY <1>1 DEF Call
  <2>2. Answered(c, pc)[c] = IF call[c].own THEN s ELSE NoCall
    BY <1>1 DEF Answered
  <2> HIDE DEF s
  <2> QED
    BY <1>2, <2>1, <2>2, CallShapes DEF Same
<1>3. CASE d # c
  BY <1>1, <1>3 DEF Answered, Same
<1> QED
  BY <1>2, <1>3

LEMMA WrittenSame ==
  ASSUME NEW row, NEW calls, WriteRow(row, calls), NEW d \in Calls,
         calls[d] \in Call \cup {NoCall}
  PROVE  Same(calls[d], call'[d])
<1> DEFINE s == [calls[d] EXCEPT !.fresh = FALSE]
<1>1. call'[d] \in {calls[d], s} /\ (call'[d] = s => calls[d].pc = "checked" \/ call'[d] = calls[d])
  BY DEF WriteRow
<1>2. calls[d].pc = "checked" => s.pc = calls[d].pc /\ s.by = calls[d].by /\ s.act = calls[d].act
  BY CallShapes DEF Call
<1> HIDE DEF s
<1> QED
  BY <1>1, <1>2 DEF Same

(* A call is checked because it was before, or because the server has just accepted it.  *)
LEMMA CheckedBefore ==
  ASSUME DeskInv, [DeskNext]_deskVars, NEW d \in Calls
  PROVE  \/ Same(call[d], call'[d])
         \/ /\ UNCHANGED rowVars
            /\ call'[d].by = call[d].by /\ call'[d].act = call[d].act
            /\ Met(call[d].by, call[d].act, order, Settled)
<1> DEFINE Goal == \/ Same(call[d], call'[d])
                   \/ /\ UNCHANGED rowVars
                      /\ call'[d].by = call[d].by /\ call'[d].act = call[d].act
                      /\ Met(call[d].by, call[d].act, order, Settled)
<1>0. call \in [Calls -> Call \cup {NoCall}] /\ call[d] \in Call \cup {NoCall}
  BY DEF DeskInv, CallsInv
<1>1. ASSUME UNCHANGED call PROVE Goal
  BY <1>1 DEF Same
<1>2. ASSUME NEW c \in Calls, Check(c) PROVE Goal
  <2> DEFINE k == call[c]
  <2>1. /\ k \in Call /\ k.pc = "sent" /\ CallTrue(k, order, Settled, reached)
        /\ UNCHANGED rowVars
    BY <1>2, BusyCall DEF Check
  <2>2. CASE call' = Answered(c, "refused")
    BY <2>1, <2>2, AnsweredSame
  <2>3. CASE /\ Accepts(k.by, k.act, order)
             /\ call' = [call EXCEPT ![c].pc = "checked", ![c].read = order.status, ![c].fresh = TRUE]
    <3> DEFINE s == [k EXCEPT !.pc = "checked", !.read = order.status, !.fresh = TRUE]
    <3>1. s.by = k.by /\ s.act = k.act
      BY <2>1 DEF Call
    <3>2. call' = [call EXCEPT ![c] = s]
      BY <1>0, <2>3
    <3>3. Met(k.by, k.act, order, Settled)
      BY <2>1, <2>3, AcceptedMet DEF CallTrue
    <3> HIDE DEF s
    <3>4. d = c => call'[d] = s /\ call[d] = k
      BY <1>0, <3>2
    <3>5. d # c => call'[d] = call[d]
      BY <1>0, <3>2
    <3> HIDE DEF k
    <3> QED
      BY <2>1, <3>1, <3>3, <3>4, <3>5 DEF Same
  <2> QED
    BY <1>2, <2>2, <2>3 DEF Check
<1>3. ASSUME NEW c \in Calls, Write(c) PROVE Goal
  <2>0. call[c].pc = "checked"
    BY <1>3 DEF Write
  <2>1. \A pc \in {"done", "refused"} : Same(call[d], Answered(c, pc)[d])
    BY <2>0, AnsweredSame
  <2>2. CASE call' = Answered(c, "refused")
    BY <2>1, <2>2
  <2>3. ASSUME NEW row, WriteRow(row, Answered(c, "done")) PROVE Goal
    <3>1. Answered(c, "done") \in [Calls -> Call \cup {NoCall}]
      <4>1. [call[c] EXCEPT !.pc = "done"] \in Call
        BY <2>0, BusyCall DEF Call
      <4> QED
        BY <1>0, <4>1 DEF Answered
    <3>2. Same(Answered(c, "done")[d], call'[d])
      BY <2>3, <3>1, WrittenSame
    <3> QED
      BY <2>1, <3>2 DEF Same
  <2> QED
    BY <1>3, <2>2, <2>3 DEF Write
<1>4. ASSUME PaymentArrives \/ VerifyWrite \/ AutoRelease PROVE Goal
  BY <1>0, <1>4, WrittenSame DEF PaymentArrives, VerifyWrite, AutoRelease
<1>5. ASSUME NEW c \in Calls, NEW p, NEW act, NEW own, NEW clicked, Send(c, p, act, own, clicked)
      PROVE  Goal
  BY <1>0, <1>5 DEF Send, Same
<1>6. ASSUME NEW c \in Calls, EndCall(c) PROVE Goal
  BY <1>0, <1>6, CallShapes DEF EndCall, Same
<1>7. ASSUME NEW pg, Open(pg) PROVE Goal
  <2> DEFINE s == [call[d] EXCEPT !.own = FALSE]
  <2>1. call'[d] = IF d \in Own THEN s ELSE call[d]
    BY <1>7 DEF Open
  <2>2. d \in Own => s.pc = call[d].pc /\ s.by = call[d].by /\ s.act = call[d].act
    BY <1>0, CallShapes DEF Own, Call
  <2> HIDE DEF s
  <2> QED
    BY <2>1, <2>2 DEF Same
<1>8. ASSUME NEW c \in Calls, \/ Click(c) \/ ConfirmReceiptModal(c) \/ RaiseDisputeModal(c)
                              \/ \E p \in People : OtherClicks(c, p)
      PROVE  Goal
  <2>1. \E p, act, own, clicked : Send(c, p, act, own, clicked)
    BY <1>8 DEF Click, ConfirmReceiptModal, RaiseDisputeModal, OtherClicks
  <2> HIDE DEF Goal
  <2> QED
    BY <1>5, <2>1
<1>9. ASSUME CustomerPays \/ Verify \/ WindowCloses \/ ReturnFromPaystack \/ Fetched
             \/ FetchFails \/ Poll \/ CloseModal \/ Acknowledge \/ Describe \/ \E m : OpenModal(m)
      PROVE  UNCHANGED call
  BY <1>9 DEF CustomerPays, Verify, WindowCloses, ReturnFromPaystack, Fetched, FetchFails, Poll, CloseModal, Acknowledge,
     Describe, OpenModal
<1>10. UNCHANGED deskVars => UNCHANGED call
  BY DEF deskVars
<1> HIDE DEF Goal
<1>11. ASSUME NEW c \in Calls, \/ Check(c) \/ Write(c) \/ Click(c) \/ EndCall(c)
                               \/ ConfirmReceiptModal(c) \/ RaiseDisputeModal(c)
                               \/ \E p \in People : OtherClicks(c, p)
       PROVE  Goal
  BY <1>2, <1>3, <1>6, <1>8, <1>11
<1>12. ASSUME \/ CustomerPays \/ Verify \/ WindowCloses \/ ReturnFromPaystack \/ Fetched
              \/ FetchFails \/ Poll \/ CloseModal \/ Acknowledge \/ Describe \/ \E m : OpenModal(m)
              \/ UNCHANGED deskVars
       PROVE  Goal
  BY <1>1, <1>9, <1>10, <1>12
<1>13. Goal
  BY <1>4, <1>7, <1>11, <1>12 DEF DeskNext
<1> QED
  BY <1>13 DEF Goal

(* only confirm writes the buyer, and only its target status is AWAITING_PAYMENT         *)
LEMMA BuyerWritten ==
  ASSUME RowInv, NEW act \in Acts, NEW p \in People,
         act.do = "status" => act.to \in {"SHIPPED", "IN_TRANSIT", "DELIVERED", "COMPLETED", "REFUNDED"}
  PROVE  LET row == Written(act, p, order) IN
         /\ row.addressee = order.addressee
         /\ IF act.do = "confirm" THEN row.buyer = p ELSE row.buyer = order.buyer
         /\ row.status = "AWAITING_PAYMENT" /\ act.do # "confirm" => order.status = "AWAITING_PAYMENT"
<1> DEFINE row == Written(act, p, order)
           Goal == /\ row.addressee = order.addressee
                   /\ IF act.do = "confirm" THEN row.buyer = p ELSE row.buyer = order.buyer
                   /\ row.status = "AWAITING_PAYMENT" /\ act.do # "confirm"
                        => order.status = "AWAITING_PAYMENT"
<1>0. order \in DeskRow
  BY DEF RowInv
<1>1. \/ act.do = "status" /\ act.to \in OrderStatus
      \/ act.do \in {"confirm", "pay", "raise", "scan"}
      \/ act.do = "assign" /\ act.to \in Riders
  BY ActParts DEF Acts
<1> SUFFICES Goal
  OBVIOUS
<1> HIDE DEF row
<1>2. CASE act.do = "status" /\ act.to = "COMPLETED" /\ order.escrow = "HOLDING"
  <2>1. row = Released(order)
    BY <1>2 DEF Written, row
  <2> QED
    BY <1>0, <1>2, <2>1, ReleasedRow DEF Moved
<1>3. CASE act.do = "status" /\ ~(act.to = "COMPLETED" /\ order.escrow = "HOLDING")
  <2>1. row = Stamped(order, act.to)
    BY <1>3 DEF Written, row
  <2> QED
    BY <1>0, <1>1, <1>3, <2>1, StampedRow
<1>4. CASE act.do = "confirm"
  <2>1. row = [Stamped(order, "AWAITING_PAYMENT") EXCEPT !.buyer = p]
    BY <1>4 DEF Written, row
  <2> QED
    BY <1>0, <1>4, <2>1, ConfirmedRow DEF Moved
<1>5. CASE act.do = "raise"
  <2>1. row = [Stamped(order, "DISPUTED") EXCEPT !.escrow = "DISPUTED", !.dispute = "OPEN"]
    BY <1>5 DEF Written, row
  <2> QED
    BY <1>0, <1>5, <2>1, DisputedRow DEF Moved
<1>6. CASE act.do = "assign"
  <2>1. row = [order EXCEPT !.rider = act.to] /\ act.to \in Riders
    BY <1>1, <1>6 DEF Written, row
  <2> QED
    BY <1>0, <1>6, <2>1, AssignedRow
<1>7. CASE act.do \in {"pay", "scan"}
  BY <1>7 DEF Written, row
<1> QED
  BY <1>1, <1>2, <1>3, <1>4, <1>5, <1>6, <1>7

(* what the row's part of BuyerInv becomes                                               *)
LEMMA BuyerKept ==
  ASSUME DeskInv, BuyerInv, [DeskNext]_deskVars
  PROVE  /\ order'.addressee = order.addressee /\ reached \subseteq reached'
         /\ "AWAITING_PAYMENT" \in reached' => order'.buyer = order'.addressee
         /\ checkout' # "none" => "AWAITING_PAYMENT" \in reached'
         /\ checkout # "none" => checkout' # "none"
<1> DEFINE Goal == /\ order'.addressee = order.addressee /\ reached \subseteq reached'
                   /\ "AWAITING_PAYMENT" \in reached' => order'.buyer = order'.addressee
                   /\ checkout' # "none" => "AWAITING_PAYMENT" \in reached'
                   /\ checkout # "none" => checkout' # "none"
<1>0. RowInv /\ order \in DeskRow /\ order.status \in reached
  BY DEF DeskInv, RowInv
<1>1. ASSUME UNCHANGED <<order, checkout, events, reached, overtaken>> \/ CustomerPays PROVE Goal
  BY <1>1 DEF CustomerPays, BuyerInv
<1>2. ASSUME NEW c \in Calls, Write(c) PROVE Goal
  <2> DEFINE act == call[c].act
             p == call[c].by
             row == Written(act, p, order)
  <2>1. /\ call[c].pc = "checked" /\ act \in Acts /\ p \in People /\ Fits(p, act, order)
    BY <1>2, BusyCall, CallShapes DEF Write, CallTrue
  <2>2. /\ act.do = "confirm" => p = order.addressee
        /\ act.do = "pay" => "AWAITING_PAYMENT" \in reached
    BY <2>1 DEF BuyerInv
  <2>3. /\ row.addressee = order.addressee
        /\ IF act.do = "confirm" THEN row.buyer = p ELSE row.buyer = order.buyer
        /\ row.status = "AWAITING_PAYMENT" /\ act.do # "confirm" => order.status = "AWAITING_PAYMENT"
    BY <1>0, <2>1, BuyerWritten DEF Fits
  <2>4. \/ UNCHANGED rowVars
        \/ /\ order' = row /\ reached' = reached \cup {row.status}
           /\ checkout' = IF act.do = "pay" /\ checkout = "none" THEN "open" ELSE checkout
    BY <1>2 DEF Write, WriteRow
  <2> HIDE DEF act, p, row
  <2>5. ASSUME /\ order' = row /\ reached' = reached \cup {row.status}
               /\ checkout' = IF act.do = "pay" /\ checkout = "none" THEN "open" ELSE checkout
        PROVE  Goal
    BY <1>0, <2>2, <2>3, <2>5 DEF BuyerInv
  <2> HIDE DEF Goal
  <2> QED
    BY <1>1, <2>4, <2>5 DEF rowVars
<1>3. ASSUME PaymentArrives PROVE Goal
  <2> DEFINE row == [Stamped(order, "PAID") EXCEPT !.escrow = "HOLDING"]
  <2>1. Moved(order, row, "PAID") /\ row.buyer = order.buyer
    BY <1>0, PaidRow
  <2>2. /\ order' = row /\ reached' = reached \cup {row.status} /\ checkout' = "held"
        /\ checkout # "none"
    BY <1>3 DEF PaymentArrives, WriteRow
  <2> HIDE DEF row
  <2> QED
    BY <1>0, <2>1, <2>2 DEF Moved, BuyerInv
<1>4. ASSUME AutoRelease PROVE Goal
  <2> DEFINE row == Released(order)
  <2>1. Moved(order, row, "COMPLETED") /\ row.buyer = order.buyer
    BY <1>0, ReleasedRow
  <2>2. order' = row /\ reached' = reached \cup {row.status} /\ checkout' = checkout
    BY <1>4 DEF AutoRelease, WriteRow
  <2> HIDE DEF row
  <2> QED
    BY <1>0, <2>1, <2>2 DEF Moved, BuyerInv
<1>6. ASSUME VerifyWrite PROVE Goal
  <2> DEFINE row == Stamped(order, "PAID")
  <2>1. Moved(order, row, "PAID") /\ row.buyer = order.buyer
    BY <1>0, StampedRow DEF Moved, OrderStatus
  <2>2. /\ order' = row /\ reached' = reached \cup {row.status} /\ asked
        /\ checkout' = IF checkout = "charged" THEN "verified" ELSE checkout
    BY <1>6 DEF VerifyWrite, WriteRow
  <2> HIDE DEF row
  <2> QED
    BY <1>0, <2>1, <2>2 DEF Moved, BuyerInv
<1> HIDE DEF Goal
<1>5. Goal
  BY <1>1, <1>2, <1>3, <1>4, <1>6, PathSteps
<1> QED
  BY <1>5 DEF Goal

(* the page that Paystack calls back: another page, or a reload, forgets it               *)
LEMMA CallbackKept ==
  ASSUME DeskInv, [DeskNext]_deskVars
  PROVE  /\ viewer' = viewer
         /\ tab'.callback => \/ tab.callback /\ tab'.page = tab.page
                             \/ tab'.page = "order" /\ checkout # "none" /\ viewer = order.addressee
<1> DEFINE Goal == /\ viewer' = viewer
                   /\ tab'.callback => \/ tab.callback /\ tab'.page = tab.page
                                       \/ /\ tab'.page = "order" /\ checkout # "none"
                                          /\ viewer = order.addressee
<1>0. tab \in Tab
  BY DEF DeskInv, TabInv
<1>1. ASSUME UNCHANGED <<viewer, tab>> PROVE Goal
  BY <1>1
<1>2. ASSUME NEW pg, viewer' = viewer, tab' = NewTab(pg, FALSE) PROVE Goal
  BY <1>2 DEF NewTab
<1>3. ASSUME ReturnFromPaystack PROVE Goal
  BY <1>3 DEF ReturnFromPaystack, MatchesEmail, NewTab
<1>4. ASSUME viewer' = viewer, tab'.page = tab.page, tab'.callback = tab.callback PROVE Goal
  BY <1>4
<1>5. ASSUME Fetched \/ FetchFails \/ Poll PROVE Goal
  <2>1. viewer' = viewer /\ tab'.page = tab.page /\ tab'.callback = tab.callback
    BY <1>0, <1>5 DEF Fetched, FetchFails, Poll, Refetch, Tab
  <2> QED
    BY <1>4, <2>1
<1>6. ASSUME CloseModal \/ Acknowledge \/ Describe \/ \E m \in {"receipt", "dispute"} : OpenModal(m)
      PROVE  Goal
  <2>1. viewer' = viewer /\ tab'.page = tab.page /\ tab'.callback = tab.callback
    BY <1>0, <1>6 DEF CloseModal, Acknowledge, Describe, OpenModal, Tab
  <2> QED
    BY <1>4, <2>1
<1>7. ASSUME NEW c \in Calls, EndCall(c) PROVE Goal
  <2>1. viewer' = viewer
    BY <1>7 DEF EndCall
  <2>2. \/ tab' = tab
        \/ tab' = NewTab("none", FALSE)
        \/ tab' = Refetch([tab EXCEPT !.modal = "none"])
        \/ tab' = Refetch([tab EXCEPT !.modal = "none", !.mine = @ \cup Set(call[c].act)])
    BY <1>7 DEF EndCall
  <2>3. ASSUME \/ tab' = Refetch([tab EXCEPT !.modal = "none"])
               \/ tab' = Refetch([tab EXCEPT !.modal = "none", !.mine = @ \cup Set(call[c].act)])
        PROVE  tab'.page = tab.page /\ tab'.callback = tab.callback
    BY <1>0, <2>3 DEF Refetch, Tab
  <2> HIDE DEF Goal
  <2> QED
    BY <1>1, <1>2, <1>4, <2>1, <2>2, <2>3
<1>8. ASSUME NEW c \in Calls, \/ Check(c) \/ Write(c) \/ Click(c) \/ ConfirmReceiptModal(c)
                              \/ RaiseDisputeModal(c) \/ \E p \in People : OtherClicks(c, p)
      PROVE  UNCHANGED <<viewer, tab>>
  BY <1>8 DEF Check, Write, Click, ConfirmReceiptModal, RaiseDisputeModal, OtherClicks
<1>9. ASSUME \/ CustomerPays \/ PaymentArrives \/ Verify \/ AutoRelease \/ WindowCloses
             \/ (VerifyWrite /\ tab' = tab) \/ UNCHANGED deskVars
      PROVE  UNCHANGED <<viewer, tab>>
  BY <1>9 DEF CustomerPays, PaymentArrives, Verify, AutoRelease, WindowCloses, VerifyWrite, deskVars
<1>10. (\E pg \in Page \cup {"none"} : Open(pg)) \/ (VerifyWrite /\ tab' # tab)
         => viewer' = viewer /\ \E pg : tab' = NewTab(pg, FALSE)
  BY DEF Open, VerifyWrite
<1> HIDE DEF Goal
<1>11. ASSUME NEW c \in Calls, \/ Check(c) \/ Write(c) \/ Click(c) \/ EndCall(c)
                               \/ ConfirmReceiptModal(c) \/ RaiseDisputeModal(c)
                               \/ \E p \in People : OtherClicks(c, p)
       PROVE  Goal
  BY <1>1, <1>7, <1>8, <1>11
<1>12. ASSUME (\E pg \in Page \cup {"none"} : Open(pg)) \/ (VerifyWrite /\ tab' # tab) PROVE Goal
  BY <1>2, <1>10, <1>12
<1>13. Goal
  BY <1>1, <1>3, <1>5, <1>6, <1>9, <1>11, <1>12 DEF DeskNext
<1> QED
  BY <1>13 DEF Goal

LEMMA BuyerInvStep ==
  ASSUME DeskInv, BuyerInv, [DeskNext]_deskVars
  PROVE  BuyerInv'
<1>1. ASSUME NEW d \in Calls, call'[d].pc = "checked"
      PROVE  /\ call'[d].act.do = "confirm" => call'[d].by = order'.addressee
             /\ call'[d].act.do = "pay" => "AWAITING_PAYMENT" \in reached'
  <2>1. CASE Same(call[d], call'[d])
    <3>1. call[d].pc = "checked" /\ call'[d].by = call[d].by /\ call'[d].act = call[d].act
      BY <1>1, <2>1 DEF Same
    <3>2. /\ call[d].act.do = "confirm" => call[d].by = order.addressee
          /\ call[d].act.do = "pay" => "AWAITING_PAYMENT" \in reached
      BY <3>1 DEF BuyerInv
    <3> QED
      BY <3>1, <3>2, BuyerKept
  <2>2. CASE /\ UNCHANGED rowVars
             /\ call'[d].by = call[d].by /\ call'[d].act = call[d].act
             /\ Met(call[d].by, call[d].act, order, Settled)
    BY <2>2 DEF Met, rowVars, DeskInv, RowInv
  <2> QED
    BY <2>1, <2>2, CheckedBefore
<1>2. tab'.callback => tab'.page = "order" /\ viewer' = order'.addressee /\ checkout' # "none"
  BY BuyerKept, CallbackKept DEF BuyerInv
<1> QED
  BY <1>1, <1>2, BuyerKept DEF BuyerInv

(* The safety half of PaymentIsShown: whoever Paystack has sent back to the order may see it,   *)
(* in whatever status it is and whatever calls were overtaken on the way, so that the poll and  *)
(* the fetch it starts are never refused for good.                                             *)
THEOREM CallbackSees == DeskSpec => [](tab.callback => tab.page = "order" /\ Sees(viewer, order))
<1>1. DeskInit => BuyerInv
  BY CallShapes DEF DeskInit, BuyerInv, NewTab
<1>2. DeskInv /\ BuyerInv /\ [DeskNext]_deskVars => BuyerInv'
  BY BuyerInvStep
<1>3. DeskPath => DeskInv
  BY DEF DeskPath
<1>4. BuyerInv => (tab.callback => tab.page = "order" /\ Sees(viewer, order))
  BY DEF BuyerInv, Sees
<1> QED
  BY <1>1, <1>2, <1>3, <1>4, DeskPathAlways, PTL DEF DeskSpec
===================================================================================
