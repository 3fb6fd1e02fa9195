---------------------------------- MODULE OrderLists ---------------------------------
(* Where the pages that list and add up orders put one.  What such a page shows of all  *)
(* the orders it has fetched is the union, and its totals the sums, of what it shows of *)
(* each; so an operator gives, for one order, the figures that count it, the tabs that  *)
(* list it or the words a card has for it.                                              *)
EXTENDS OrderPages

(* a party by id: what the payments and the shipments page keep of the orders they fetch *)
Mine(p, o) == p \in {o.seller, o.buyer}

(* every figure that stands for money                                                    *)
MoneyFigures == {"inEscrow", "released"}

-----------------------------------------------------------------------------------
(* The dashboard, which takes every order it is given.                                   *)

(* mutation: money counts as in escrow while the order is on its way *)
StatsGridByStatus(o) ==
  {"total"} \cup When(o.status \in {"PAID", "SHIPPED", "IN_TRANSIT"}, {"inEscrow"})
            \cup When(o.status = "IN_TRANSIT", {"inTransit"})
            \cup When(o.status = "COMPLETED", {"completed", "released"})

(* "In Escrow" goes by the escrow status, "released" by the status of the order           *)
StatsGrid(o) ==
  {"total"} \cup When(o.escrow = "HOLDING", {"inEscrow"})
            \cup When(o.status = "IN_TRANSIT", {"inTransit"})
            \cup When(o.status = "COMPLETED", {"completed", "released"})

StatusBars(o) == {o.status} \cap {"AWAITING_PAYMENT", "IN_TRANSIT", "COMPLETED", "DISPUTED"}

MobileStats(o) ==
  When(o.status \in {"PAID", "SHIPPED", "IN_TRANSIT", "DELIVERED"}, {"active"})
    \cup When(o.status = "COMPLETED", {"completed"})
    \cup When(o.status = "DELIVERED", {"pendingDelivery"})

(* "Pay Now", "Resolve" and "Confirm", whoever the order waits for: links to its page     *)
PendingActions(o) ==
  CASE o.status = "AWAITING_PAYMENT" -> {Act("pay")}
    [] o.status = "DISPUTED" -> {Act("resolve")}
    [] o.status = "DELIVERED" -> {StatusAct("COMPLETED")}
    [] OTHER -> {}

(* the pills: so many orders as seller, so many as buyer                                  *)
ContextPills(p, o) == When(o.seller = p, {"asSeller"}) \cup When(o.buyer = p, {"asBuyer"})

Dashboard(p, o) == StatsGrid(o) \cup MobileStats(o) \cup ContextPills(p, o)

-----------------------------------------------------------------------------------
(* The orders page: a tab asks the server for one status; PENDING_BUYER, IN_TRANSIT and    *)
(* the ways off the path have no tab.  A row links to the page of the order.               *)
FilterTabs == {"AWAITING_PAYMENT", "PAID", "SHIPPED", "DELIVERED", "COMPLETED"}
OrdersTabs(o) == {"All"} \cup ({o.status} \cap FilterTabs)
OrdersRows(tab, o) == When(tab \in OrdersTabs(o), {"order"})

-----------------------------------------------------------------------------------
(* The payments page goes by the escrow status alone; on a phone it leaves the money that   *)
(* was released out.                                                                      *)
PaymentCards(p, o) ==
  When(Mine(p, o) /\ o.escrow = "HOLDING", {"inEscrow"})
    \cup When(Mine(p, o) /\ o.escrow = "RELEASED", {"released"})
MobilePaymentCards(p, o) == PaymentCards(p, o) \ {"released"}

-----------------------------------------------------------------------------------
(* The shipments page.                                                                     *)
ShipmentStatus(o) == CASE o.status = "SHIPPED" -> "Processing"
                       [] o.status = "IN_TRANSIT" -> "InTransit"
                       [] o.status \in {"DELIVERED", "COMPLETED"} -> "Delivered"
                       [] OTHER -> "Pending"

GetProgress(o) == CASE o.status = "PAID" -> 5
                    [] o.status = "SHIPPED" -> 20
                    [] o.status = "IN_TRANSIT" -> 60
                    [] o.status = "DELIVERED" -> 90
                    [] o.status = "COMPLETED" -> 100
                    [] OTHER -> 0

FilterMap == [All |-> {"SHIPPED", "IN_TRANSIT", "DELIVERED", "COMPLETED"},
              Processing |-> {"SHIPPED"}, InTransit |-> {"IN_TRANSIT"},
              Delivered |-> {"DELIVERED", "COMPLETED"}]

(* the rows of a tab; the cards on top count the orders of "All" by status                  *)
ShipmentTabs(p, o) ==
  {tab \in DOMAIN FilterMap : Mine(p, o) /\ o.status \in FilterMap.All \cap FilterMap[tab]}
ShipmentStats(p, o) ==
  When(Mine(p, o) /\ o.status \in FilterMap.All, {"total"})
    \cup When(Mine(p, o) /\ o.status = "SHIPPED", {"processing"})
    \cup When(Mine(p, o) /\ o.status = "IN_TRANSIT", {"inTransit"})
    \cup When(Mine(p, o) /\ o.status \in {"DELIVERED", "COMPLETED"}, {"delivered"})

-----------------------------------------------------------------------------------
(* one row as a card: badge, progress, and the link to the page of the order                 *)
ShipmentCard(p, o) == [badge |-> ShipmentStatus(o), progress |-> GetProgress(o),
                       links |-> When(ShipmentTabs(p, o) # {}, {"order"})]

-----------------------------------------------------------------------------------
(* The rider's figures: what is SHIPPED is out for delivery.  They count what was fetched,   *)
(* whichever tab is chosen.                                                                 *)
RiderStats(o) ==
  When(RiderListed(o), {"total"})
    \cup When(o.status = "IN_TRANSIT", {"inTransit"})
    \cup When(o.status = "SHIPPED", {"outForDelivery"})
    \cup When(o.status = "DELIVERED", {"delivered"})

RiderTabs(o) == When(RiderListed(o), {"All", o.status})

(* The admin's overview.  It adds up the rows of the ledger, so that what was ever held      *)
(* counts as "In Escrow, currently held"; REFUNDED orders have no row of their own.          *)
AdminStats(o) ==
  When(o.escrow # "PENDING", {"inEscrow"})
    \cup When(o.escrow = "RELEASED", {"released"})
    \cup When(o.dispute = "OPEN", {"openDispute"})
    \cup When(o.dispute = "DECIDED", {"resolvedDispute"})
OrderStatusRows(o) ==
  {o.status} \cap {"PENDING_BUYER", "AWAITING_PAYMENT", "PAID", "SHIPPED", "IN_TRANSIT",
                   "DELIVERED", "COMPLETED", "DISPUTED", "CANCELLED"}

AdminDashboard(o) == AdminStats(o) \cup OrderStatusRows(o)

-----------------------------------------------------------------------------------
(* The way to the pages of an order: the sidebar, and from there the rows that list it.       *)
SidebarNavItems == {"dashboard", "orders", "shipments", "payments"}
AdminNavItems == {"adminPanel"}
RiderNavItems == {"riderOrders"}
Sidebar(p) == SidebarNavItems \cup When(p \in Admins, AdminNavItems)
                              \cup When(p \in Riders, RiderNavItems)

(* the dashboard's table of recent orders                                                     *)
OrdersTable(o) == {"order"}

(* What a page links to; the admin panel has a navigation of its own.  The payments page      *)
(* links what waits for a payment; its history, left out, links what had one.                 *)
Links(page, p, o) ==
  CASE page = "dashboard" -> OrdersTable(o)
    [] page = "orders" -> UNION {OrdersRows(tab, o) : tab \in {"All"} \cup FilterTabs}
    [] page = "shipments" -> ShipmentCard(p, o).links
    [] page = "payments" -> When(Payments(p, o) # {}, {"order"})
    [] page = "riderOrders" -> When(RiderListed(o), {"order", "riderOrder"})
    [] page = "adminPanel" -> {"adminOrders", "adminDisputes"}

Linked(p, o) == Page \cap (Sidebar(p) \cup UNION {Links(page, p, o) : page \in Sidebar(p)})

-----------------------------------------------------------------------------------
(* What the order page says of the money, next to its buttons.  The card has no words for     *)
(* an escrow that is DISPUTED and falls back to those for PENDING.                            *)
EscrowCard(o) == CASE o.escrow = "HOLDING" -> "held"
                   [] o.escrow = "RELEASED" -> "released"
                   [] o.escrow = "REFUNDED" -> "refunded"
                   [] OTHER -> "awaiting payment"
PaidOn(o) == "PAID" \in o.stamps
ReleasedOn(o) == "COMPLETED" \in o.stamps

(* who is named as the buyer, and whether as one who has not confirmed yet                    *)
OrderSummary(o) == IF o.buyer # NoOne THEN [buyer |-> o.buyer, confirmed |-> TRUE]
                                      ELSE [buyer |-> o.addressee, confirmed |-> FALSE]

(* the admin's remark on the dispute                                                         *)
DisputeDetails(o) == CASE o.dispute = "OPEN" -> "locked"
                       [] o.dispute = "DECIDED" -> "decided"
                       [] OTHER -> "none"
===================================================================================
