--------------------------------- MODULE OrderPages --------------------------------
(* What the pages of the web client show of an order, and what they offer to whom. *)
(* A page decides from the order it has fetched and from the account it is shown   *)
(* to; whether the server then agrees is OrderDesk's question.                     *)
EXTENDS OrderStateMachine, Naturals, Sequences

CONSTANTS People,   \* accounts of the web client
          Admins,   \* those with the role ADMIN
          Riders,   \* those with the role RIDER
          NoOne     \* null in buyerId and riderId

ASSUME RolesOfPeople == Admins \cup Riders \subseteq People /\ Admins \cap Riders = {}
ASSUME NoOneIsNobody == NoOne \notin People

(* The row with what its parties hang on it: whether there is a Dispute that is     *)
(* OPEN, and the statuses that have a timestamp.                                    *)
DeskRow == [status : OrderStatus, escrow : {"PENDING", "HOLDING", "RELEASED", "DISPUTED", "REFUNDED"},
            seller : People, addressee : People,
            buyer : People \cup {NoOne}, rider : People \cup {NoOne},
            dispute : {"NONE", "OPEN", "DECIDED"}, stamps : SUBSET OrderStatus]

StatusAct(to) == [do |-> "status", to |-> to]
Act(do) == [do |-> do, to |-> "none"]
AssignAct(rider) == [do |-> "assign", to |-> rider]
Acts == {StatusAct(to) : to \in OrderStatus}
          \cup {Act(do) : do \in {"confirm", "pay", "raise", "scan"}}
          \cup {AssignAct(rider) : rider \in Riders}

When(condition, acts) == IF condition THEN acts ELSE {}

-----------------------------------------------------------------------------------
(* The order page, app/dashboard/orders/[id].                                        *)

(* derived from the ids and, for the buyer, from the address the order was sent to   *)
MatchesEmail(p, o) == o.addressee = p
IsBuyer(p, o) == o.buyer = p \/ MatchesEmail(p, o)

(* mutation: everybody gets the seller's button *)
OrderActionsForAll(p, o) ==
  CASE o.status = "PENDING_BUYER" /\ MatchesEmail(p, o) -> {Act("confirm")}
    [] o.status = "AWAITING_PAYMENT" /\ IsBuyer(p, o) -> {Act("pay")}
    [] OTHER -> When(o.status = "PAID", {StatusAct("SHIPPED")})

(* the row of buttons, for each part somebody has in the order                        *)
SellerActions(p, o) == When(o.seller = p /\ o.status = "PAID", {StatusAct("SHIPPED")})
RiderActions(p, o) == When(o.rider = p /\ o.status = "SHIPPED", {StatusAct("IN_TRANSIT")})
                      \cup When(o.rider = p /\ o.status = "IN_TRANSIT", {StatusAct("DELIVERED")})
BuyerActions(p, o) == When(IsBuyer(p, o) /\ o.status = "DELIVERED",
                           {StatusAct("COMPLETED"), Act("raise")})

(* the cards by status: the end states and DISPUTED have no button, then come the      *)
(* buyer's two cards, then the row                                                    *)
OrderActions(p, o) ==
  CASE o.status = "PENDING_BUYER" /\ MatchesEmail(p, o) -> {Act("confirm")}
    [] o.status = "AWAITING_PAYMENT" /\ IsBuyer(p, o) -> {Act("pay")}
    [] OTHER -> SellerActions(p, o) \cup RiderActions(p, o) \cup BuyerActions(p, o)

(* "Have an issue with this delivery?": the card offers the dispute until there is one *)
DisputeCard(p, o) ==
  When(IsBuyer(p, o) /\ o.status = "DELIVERED" /\ o.dispute = "NONE", {Act("raise")})

(* what the card of an order that has ended says of the money                          *)
EndNotice(o) == CASE o.status = "COMPLETED" -> "released"
                  [] o.status = "REFUNDED" -> "refunded"
                  [] o.status = "CANCELLED" -> "cancelled"
                  [] OTHER -> "none"

(* TIMELINE_ORDER; PENDING_BUYER is "Created"                                          *)
TimelineOrder == <<"PENDING_BUYER", "AWAITING_PAYMENT", "PAID", "SHIPPED", "IN_TRANSIT",
                   "DELIVERED", "COMPLETED">>
IndexIn(seq, status) == CHOOSE i \in DOMAIN seq : seq[i] = status
Upto(seq, i) == {seq[j] : j \in 1..i}
Occurs(seq, status) == \E i \in DOMAIN seq : seq[i] = status

(* mutation: off the path, only the first timestamp is asked *)
StepsKnownEarly(o) ==
  IF Occurs(TimelineOrder, o.status) THEN {o.status}
  ELSE {"PENDING_BUYER"} \cup (o.stamps \cap {"AWAITING_PAYMENT"})

(* buildTimeline goes by the status or, off the path, by the last of the timestamps it asks;  *)
(* pickedUpAt is not among them.                                                        *)
StepsKnown(o) ==
  IF Occurs(TimelineOrder, o.status) THEN {o.status}
  ELSE {"PENDING_BUYER"}
         \cup (o.stamps \cap {"AWAITING_PAYMENT", "PAID", "SHIPPED", "DELIVERED", "COMPLETED"})

(* OrderTimeline: the steps it ticks, up to the last of these *)
Timeline(o) == UNION {Upto(TimelineOrder, IndexIn(TimelineOrder, s)) : s \in StepsKnown(o)}

-----------------------------------------------------------------------------------
(* The other pages that show an order.                                                *)

(* the rider's deliveries: every order the list endpoint returns in one of these        *)
(* statuses; riderId is not looked at                                                   *)
RiderListed(o) == o.status \in {"SHIPPED", "IN_TRANSIT", "DELIVERED"}
GetRiderAction(o) == When(o.status = "SHIPPED", {StatusAct("IN_TRANSIT")})
                     \cup When(o.status = "IN_TRANSIT", {StatusAct("DELIVERED")})
(* on a phone a card, on a desktop a row of the table, each with the button and a link to *)
(* the page that scans                                                                  *)
RiderOrderCard(o) == When(RiderListed(o) /\ o.status # "DELIVERED", GetRiderAction(o))
RiderOrderRow(o) == When(RiderListed(o), GetRiderAction(o))
RiderOrders(o) == RiderOrderCard(o) \cup RiderOrderRow(o)

(* the rider's order page: SCAN_LABELS has these statuses                               *)
RiderOrder(o) == When(RiderListed(o), {Act("scan")})

(* mutation: the button is there to replace a rider *)
AdminOrdersReassign(o) ==
  When(o.status = "SHIPPED" /\ o.rider # NoOne,
       {AssignAct(rider) : rider \in Riders})

(* the modal behind the button: the active riders                                        *)
AssignRiderModal == {AssignAct(rider) : rider \in Riders}
(* the admin's order table                                                               *)
AdminOrders(o) == When(o.status = "SHIPPED" /\ o.rider = NoOne, AssignRiderModal)

(* the admin's dispute page: "Release to Seller" and "Refund Buyer" set the status of     *)
(* the order, and leave POST /disputes/:id/resolve alone                                 *)
AdminDisputes(o) ==
  When(o.dispute = "OPEN", {StatusAct("COMPLETED"), StatusAct("REFUNDED")})

(* the payments page: pendingPaymentOrders, of the orders one is seller or buyer of      *)
Payments(p, o) ==
  When(p \in {o.seller, o.buyer} /\ o.status = "AWAITING_PAYMENT" /\ IsBuyer(p, o), {Act("pay")})

Page == {"order", "riderOrders", "riderOrder", "adminOrders", "adminDisputes", "payments"}
(* the layouts of /admin and /rider send everybody else away                               *)
AdminLayout(p) == When(p \in Admins, {"adminOrders", "adminDisputes"})
RiderLayout(p) == When(p \in Riders, {"riderOrders", "riderOrder"})
PagesOf(p) == {"order", "payments"} \cup AdminLayout(p) \cup RiderLayout(p)
OffersOn(pg, p, o) ==
  CASE pg = "order" -> OrderActions(p, o) \cup DisputeCard(p, o)
    [] pg = "riderOrders" -> RiderOrders(o)
    [] pg = "riderOrder" -> RiderOrder(o)
    [] pg = "adminOrders" -> AdminOrders(o)
    [] pg = "adminDisputes" -> AdminDisputes(o)
    [] pg = "payments" -> Payments(p, o)

(* the public timeline: the scans so far, or the status while there is none                *)
Track(o, events) == IF events = <<>> THEN {o.status} ELSE {events[i] : i \in DOMAIN events}

(* StatusStepper of the public tracking page: the steps shown as completed, none for an   *)
(* order that is disputed, cancelled or refunded, which gets a banner instead            *)
HappyPath == Tail(TimelineOrder)
StatusStepper(o) == IF Occurs(HappyPath, o.status)
                    THEN Upto(HappyPath, IndexIn(HappyPath, o.status))
                    ELSE {}

(* the page of a waybill number: the stepper above the history                            *)
TrackResults(o, events) == StatusStepper(o) \cup Track(o, events)
===================================================================================
