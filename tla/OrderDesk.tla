---------------------------------- MODULE OrderDesk ---------------------------------
(* One order on the desks of its parties.  One of them, the viewer, has a page of    *)
(* the web client open, which shows what it fetched last; the others act through     *)
(* their pages too, and nothing tells the viewer.  The server checks a call against   *)
(* the row it reads and then writes without looking again.                            *)
EXTENDS OrderLists, Endpoints, FiniteSets

CONSTANTS Sellers, Addressees,   \* who may send the order, and to whose address
          Viewers,               \* whose page may be open
          Calls,                 \* calls in flight at the same time
          MaxOddities            \* bound: scans of the waybill, verifications before their
                                 \* webhook, and writes that "overtaken" counts, together

ASSUME DeskParties == Sellers \cup Addressees \cup Viewers \subseteq People
ASSUME OddityBound == MaxOddities \in Nat

VARIABLES
  order,      \* the row, with its dispute and timestamps
  checkout,   \* its payment: "none", "open" once initiated, "charged" once the customer has
              \* paid, "verified" once the record is SUCCESS, "held" once the escrow has it
  asked,      \* the server has found the record unsettled and asks Paystack
  late,       \* the order is DELIVERED, and has been for more than 72 hours
  events,     \* the WaybillEvent rows: the status each scan recorded
  call,       \* the calls in flight
  viewer,     \* whose page is open: one of Viewers
  tab,        \* the page: its state, the fetch it waits for, its modal
  reached,    \* ghost: the statuses the order has been in
  overtaken   \* ghost: how often a call wrote although its reading was outdated, or a
              \* verification set an order to PAID that waited for no payment

rowVars == <<order, checkout, asked, late, events, reached, overtaken>>
deskVars == <<order, checkout, asked, late, events, reached, overtaken, call, viewer, tab>>

Checkout == {"none", "open", "charged", "verified", "held"}
NoView == [status |-> "none"]
NoCall == [pc |-> "idle"]
Call == [pc : {"sent", "checked", "done", "refused"}, by : People, act : Acts,
         own : BOOLEAN,                                     \* the open page waits for it
         read : OrderStatus \cup {"none"}, fresh : BOOLEAN, \* what the server read, and whether it still holds
         clicked : OrderStatus \cup {"none"}]             \* ghost: the status shown when clicked

Own == {c \in Calls : call[c].pc # "idle" /\ call[c].own}

(* the modals of the order page, and each as soon as its button is enabled: the box ticked, *)
(* the reason and the description filled in                                            *)
Modal == {"none", "receipt", "acknowledged", "dispute", "described"}

(* page: which one is open; view: the order in its state; loading: it waits for a      *)
(* fetch; callback: the URL says the buyer is back from Paystack; mine, a ghost: the    *)
(* statuses calls of this page have set                                                *)
Tab == [page : Page \cup {"none"}, view : DeskRow \cup {NoView}, loading : BOOLEAN, error : BOOLEAN,
        modal : Modal, callback : BOOLEAN, mine : SUBSET OrderStatus]
NewTab(pg, callback) == [page |-> pg, view |-> NoView, loading |-> pg # "none", error |-> FALSE,
                         modal |-> "none", callback |-> callback, mine |-> {}]
Shown == tab.view # NoView /\ ~tab.loading /\ ~tab.error

-----------------------------------------------------------------------------------
(* The server.                                                                        *)

(* partyWhere: everything for admins; an order of one's own, and one that waits for    *)
(* the buyer with this address                                                        *)
Sees(p, o) == \/ p \in Admins
              \/ p \in {o.seller, o.buyer, o.rider}
              \/ o.addressee = p /\ o.status = "PENDING_BUYER"

(* getContextualRole: the first part somebody has in the order counts                  *)
RoleOn(p, o) == CASE p \in Admins -> "ADMIN"
                  [] p \notin Admins /\ o.seller = p -> "SELLER"
                  [] p \notin Admins \cup {o.seller} /\ o.buyer = p -> "BUYER"
                  [] p \notin Admins \cup {o.seller, o.buyer} /\ o.rider = p -> "RIDER"
                  [] OTHER -> "NONE"

RoleOf(p) == CASE p \in Admins -> "ADMIN" [] p \in Riders -> "RIDER" [] OTHER -> "USER"

(* scan(): admins, and the rider of the order, from the dispatch on                    *)
MayScan(p, o) == /\ p \in Admins \cup Riders
                 /\ p \in Admins \/ o.rider = p
                 /\ o.status \in {"SHIPPED", "IN_TRANSIT", "DELIVERED"}

(* mutation: the role is asked for and the status is not *)
AcceptsRole(p, act, o) ==
  CASE act.do = "confirm" -> o.addressee = p
    [] act.do = "raise" -> o.buyer = p /\ o.dispute = "NONE"
    [] act.do = "pay" -> IsBuyer(p, o)
    [] act.do = "assign" -> p \in Admins
    [] act.do = "scan" -> p \in Admins \/ o.rider = p
    [] act.do = "status" -> RoleOn(p, o) # "NONE"

(* initiatePayment, verifyByReference: there is a payment with the status SUCCESS      *)
Settled == checkout \in {"verified", "held"}

(* what each handler asks of the row before it writes: updateStatus, confirmByBuyer,    *)
(* initiatePayment (by id, or by address while there is none), raise (up to 72 hours     *)
(* after the delivery), assignRider, scan                                              *)
Agrees(p, act, o) ==
  CASE act.do = "status" -> ValidTransition(o.status, act.to, RoleOn(p, o))
    [] act.do = "confirm" -> o.addressee = p /\ o.status = "PENDING_BUYER"
    [] act.do = "pay" -> /\ o.status = "AWAITING_PAYMENT" /\ ~Settled
                         /\ IF o.buyer = NoOne THEN o.addressee = p ELSE o.buyer = p
    [] act.do = "raise" -> o.buyer = p /\ o.status = "DELIVERED" /\ o.dispute = "NONE" /\ ~late
    [] act.do = "assign" -> o.status = "SHIPPED"
    [] act.do = "scan" -> MayScan(p, o)

(* the guards first, then the handler                                                   *)
Accepts(p, act, o) == LetIn(RoleOf(p), act) /\ Agrees(p, act, o)

Stamped(o, status) == [o EXCEPT !.status = status, !.stamps = @ \cup {status}]
Released(o) == [Stamped(o, "COMPLETED") EXCEPT !.escrow = "RELEASED"]

(* the row after the write; completing an order whose escrow is HOLDING releases it, any  *)
(* other status is a plain update, and payments and scans leave the row alone            *)
Written(act, p, o) ==
  CASE act.do = "status" /\ act.to = "COMPLETED" /\ o.escrow = "HOLDING" -> Released(o)
    [] act.do = "status" /\ ~(act.to = "COMPLETED" /\ o.escrow = "HOLDING") -> Stamped(o, act.to)
    [] act.do = "confirm" -> [Stamped(o, "AWAITING_PAYMENT") EXCEPT !.buyer = p]
    [] act.do = "raise" -> [Stamped(o, "DISPUTED") EXCEPT !.escrow = "DISPUTED", !.dispute = "OPEN"]
    [] act.do = "assign" -> [o EXCEPT !.rider = act.to]
    [] OTHER -> o

(* order.update: what the other calls have read is outdated                              *)
WriteRow(row, calls) ==
  /\ order' = row
  /\ reached' = reached \cup {row.status}
  /\ call' = IF row = order THEN calls
             ELSE [d \in Calls |-> IF calls[d].pc = "checked" /\ calls[d].act.do # "scan"
                                   THEN [calls[d] EXCEPT !.fresh = FALSE]
                                   ELSE calls[d]]

(* the answer; nobody waits for it once the page is gone                                  *)
Answered(c, pc) == [call EXCEPT ![c] = IF @.own THEN [@ EXCEPT !.pc = pc] ELSE NoCall]

Check(c) ==
  /\ call[c].pc = "sent"
  /\ call' = IF Accepts(call[c].by, call[c].act, order)
             THEN [call EXCEPT ![c].pc = "checked", ![c].read = order.status, ![c].fresh = TRUE]
             ELSE Answered(c, "refused")
  /\ UNCHANGED <<rowVars, viewer, tab>>

(* a scan only adds a row of its own, which records what it read                            *)
Harmless(c) == call[c].fresh \/ call[c].act.do = "scan"

(* Bound: scans and verifications under way take their room already, and so does a payment   *)
(* that was verified as long as the webhook has not followed                               *)
Scans == {c \in Calls : call[c].pc # "idle" /\ call[c].act.do = "scan"}
Asking == IF asked \/ checkout = "verified" THEN 1 ELSE 0
RoomForOddity == Len(events) + Cardinality(Scans) + Asking + overtaken < MaxOddities

(* updateStatus chooses by the row it read, and a release that is overtaken is left to   *)
(* EaseWaybill; raise looks for a dispute again inside its transaction                   *)
Write(c) ==
  /\ call[c].pc = "checked"
  /\ Harmless(c) \/ RoomForOddity
  /\ IF call[c].act.do = "raise" /\ order.dispute # "NONE"
     THEN call' = Answered(c, "refused") /\ UNCHANGED rowVars
     ELSE /\ WriteRow(Written(call[c].act, call[c].by, order), Answered(c, "done"))
          /\ checkout' = IF call[c].act.do = "pay" /\ checkout = "none" THEN "open" ELSE checkout
          /\ late' = (late /\ order'.status = order.status /\ call[c].act # StatusAct("DELIVERED"))
          /\ events' = IF call[c].act.do = "scan" THEN Append(events, call[c].read) ELSE events
          /\ overtaken' = IF Harmless(c) THEN overtaken ELSE overtaken + 1
          /\ UNCHANGED asked
  /\ UNCHANGED <<viewer, tab>>

(* Paystack: the customer pays what was initiated first; the references initiated after   *)
(* that are left to EaseWaybill                                                           *)
CustomerPays ==
  /\ checkout = "open"
  /\ checkout' = "charged"
  /\ UNCHANGED <<order, asked, late, events, reached, overtaken, call, viewer, tab>>

(* the webhook, before or after a verification: one transaction sets PAID and HOLDING      *)
PaymentArrives ==
  /\ checkout \in {"charged", "verified"}
  /\ order.status \in {"AWAITING_PAYMENT", "PAID"} /\ order.escrow = "PENDING"
  /\ checkout' = "held"
  /\ WriteRow([Stamped(order, "PAID") EXCEPT !.escrow = "HOLDING"], call)
  /\ UNCHANGED <<asked, late, events, overtaken, viewer, tab>>

(* GET /payments/verify, which a payments page sends when Paystack has sent the buyer back   *)
(* to it: a record that is not SUCCESS yet, or an order that has missed its payment.         *)
Verify ==
  /\ ~asked /\ RoomForOddity
  /\ checkout = "charged" \/ (Settled /\ order.status = "AWAITING_PAYMENT")
  /\ asked' = TRUE
  /\ UNCHANGED <<order, checkout, late, events, reached, overtaken, call, viewer, tab>>

(* Paystack has answered: the order becomes PAID, whatever it is by then, and the escrow      *)
(* stays as it is, for holdFunds turns an order away that is PAID.  The page that has asked,  *)
(* maybe the viewer's, fetches the orders again.  Until then it goes on showing those it had: *)
(* a click on one is the same as a click before.                                             *)
VerifyWrite ==
  LET waits == order.status \in {"AWAITING_PAYMENT", "PAID"} IN
  /\ asked
  /\ WriteRow(Stamped(order, "PAID"), call)
  /\ checkout' = IF checkout = "charged" THEN "verified" ELSE checkout
  /\ asked' = FALSE /\ late' = FALSE
  /\ overtaken' = IF waits THEN overtaken ELSE overtaken + 1
  /\ \/ UNCHANGED tab
     \/ tab.page = "payments" /\ tab' = NewTab("payments", FALSE)
  /\ UNCHANGED <<events, viewer>>

(* 72 hours after the delivery                                                             *)
WindowCloses ==
  /\ order.status = "DELIVERED" /\ ~late
  /\ late' = TRUE
  /\ UNCHANGED <<order, checkout, asked, events, reached, overtaken, call, viewer, tab>>

(* the job of a delivered order whose escrow is still held                                *)
AutoRelease ==
  /\ order.status = "DELIVERED"
  /\ order.escrow = "HOLDING"
  /\ WriteRow(Released(order), call)
  /\ late' = FALSE
  /\ UNCHANGED <<checkout, asked, events, overtaken, viewer, tab>>

-----------------------------------------------------------------------------------
(* The people.                                                                            *)
Send(c, p, act, own, clicked) ==
  /\ call[c] = NoCall
  /\ act.do = "scan" => RoomForOddity
  /\ call' = [call EXCEPT ![c] = [pc |-> "sent", by |-> p, act |-> act, own |-> own,
                                  read |-> "none", fresh |-> FALSE,
                                  clicked |-> IF p \in Admins \/ act.do = "scan" THEN "none" ELSE clicked]]

(* somebody else clicks, on an up-to-date page of theirs                                   *)
OtherClicks(c, p) ==
  /\ p # viewer
  /\ Sees(p, order)
  /\ \E pg \in PagesOf(p) : \E act \in OffersOn(pg, p, order) : Send(c, p, act, FALSE, order.status)
  /\ UNCHANGED <<rowVars, viewer, tab>>

-----------------------------------------------------------------------------------
(* The viewer's page.                                                                      *)
Refetch(t) == [t EXCEPT !.loading = TRUE]

(* a link, a reload, a closed tab: the calls under way go on without the page              *)
Open(pg) ==
  /\ pg \in PagesOf(viewer) \cup {"none"}
  /\ tab' = NewTab(pg, FALSE)
  /\ call' = [c \in Calls |-> IF c \in Own THEN [call[c] EXCEPT !.own = FALSE] ELSE call[c]]
  /\ UNCHANGED <<rowVars, viewer>>

(* Paystack sends the buyer back to the order, paid or not                                 *)
ReturnFromPaystack ==
  /\ checkout # "none" /\ MatchesEmail(viewer, order)
  /\ tab.page = "none"
  /\ tab' = NewTab("order", TRUE)
  /\ UNCHANGED <<rowVars, viewer, call>>

(* findOne or findAll answers, with what the viewer may see.  That an answer is on its way for *)
(* a while is the same as that the row moves on after it is shown: a page that is loading has  *)
(* nothing to click, and a refetch drops the answer it overtakes (the cancelled flag).         *)
Fetched ==
  /\ tab.loading
  /\ Sees(viewer, order)
  /\ tab' = [tab EXCEPT !.loading = FALSE, !.error = FALSE, !.view = order]
  /\ UNCHANGED <<rowVars, viewer, call>>
(* a 404 or any other error: the page says so instead, and keeps its state                     *)
FetchFails ==
  /\ tab.loading
  /\ tab' = [tab EXCEPT !.loading = FALSE, !.error = TRUE]
  /\ UNCHANGED <<rowVars, viewer, call>>

(* mutation: it gives up when a fetch fails *)
PollUntilError ==
  /\ tab.page = "order" /\ tab.callback
  /\ tab.view.status = "AWAITING_PAYMENT"
  /\ ~tab.error
  /\ tab' = Refetch(tab)
  /\ UNCHANGED <<rowVars, viewer, call>>

(* every 2 seconds while the order it has is AWAITING_PAYMENT, loading or not: the count of  *)
(* 12 attempts starts anew with every render                                                *)
Poll ==
  /\ tab.page = "order" /\ tab.callback
  /\ tab.view.status = "AWAITING_PAYMENT"
  /\ tab' = Refetch(tab)
  /\ UNCHANGED <<rowVars, viewer, call>>

(* On the order page COMPLETED and the dispute go through a modal, which stays open when the  *)
(* page behind it is fetched again                                                           *)
ModalOf(act) == CASE act = StatusAct("COMPLETED") -> "receipt"
                  [] act = Act("raise") -> "dispute"
                  [] OTHER -> "none"
Offered == OffersOn(tab.page, viewer, tab.view)
OpenModal(m) ==
  /\ Shown /\ tab.page = "order" /\ Own = {}
  /\ \/ tab.modal = "none" /\ \E act \in Offered : ModalOf(act) = m
     \/ tab.modal \in {"receipt", "acknowledged"} /\ m = "dispute"      \* its "Raise Dispute"
  /\ tab' = [tab EXCEPT !.modal = m]
  /\ UNCHANGED <<rowVars, viewer, call>>

(* the buttons are disabled while a call of the page is under way                            *)
Click(c) ==
  /\ Shown /\ Own = {} /\ tab.modal = "none"
  /\ \E act \in Offered : /\ tab.page = "order" => ModalOf(act) = "none"
                          /\ Send(c, viewer, act, TRUE, tab.view.status)
  /\ UNCHANGED <<rowVars, viewer, tab>>
(* the checkbox, and the fields of the form; both can be taken back                           *)
Acknowledge ==
  /\ Shown /\ Own = {}
  /\ \/ tab.modal = "receipt" /\ tab' = [tab EXCEPT !.modal = "acknowledged"]
     \/ tab.modal = "acknowledged" /\ tab' = [tab EXCEPT !.modal = "receipt"]
  /\ UNCHANGED <<rowVars, viewer, call>>
Describe ==
  /\ Shown /\ Own = {}
  /\ \/ tab.modal = "dispute" /\ tab' = [tab EXCEPT !.modal = "described"]
     \/ tab.modal = "described" /\ tab' = [tab EXCEPT !.modal = "dispute"]
  /\ UNCHANGED <<rowVars, viewer, call>>
ConfirmReceiptModal(c) ==
  /\ Shown /\ Own = {} /\ tab.modal = "acknowledged"
  /\ Send(c, viewer, StatusAct("COMPLETED"), TRUE, tab.view.status)
  /\ UNCHANGED <<rowVars, viewer, tab>>
RaiseDisputeModal(c) ==
  /\ Shown /\ Own = {} /\ tab.modal = "described"
  /\ Send(c, viewer, Act("raise"), TRUE, tab.view.status)
  /\ UNCHANGED <<rowVars, viewer, tab>>
CloseModal ==
  /\ Shown /\ Own = {} /\ tab.modal # "none"
  /\ tab' = [tab EXCEPT !.modal = "none"]
  /\ UNCHANGED <<rowVars, viewer, call>>

Hidden(c) == tab.page = "order" /\ call[c].act.do = "status"
Set(act) == CASE act.do = "status" -> {act.to}
              [] act.do = "confirm" -> {"AWAITING_PAYMENT"}
              [] act.do = "raise" -> {"DISPUTED"}
              [] OTHER -> {}
(* mutation: the page trusts what it shows *)
EndCallNoRefetch(c) ==
  /\ c \in Own
  /\ call[c].pc \in {"done", "refused"}
  /\ call' = [call EXCEPT ![c] = NoCall]
  /\ tab' = [tab EXCEPT !.modal = "none",
                        !.mine = IF call[c].pc = "done" THEN @ \cup Set(call[c].act) ELSE @]
  /\ UNCHANGED <<rowVars, viewer>>

(* The answer to a call of the page.  On the order page a failed updateStatus is hidden: the   *)
(* modal closes and the page refetches as if it had worked.  The other handlers refetch when   *)
(* it has.  A payment takes the buyer to Paystack.                                             *)
EndCall(c) ==
  /\ c \in Own
  /\ call[c].pc \in {"done", "refused"}
  /\ call' = [call EXCEPT ![c] = NoCall]
  /\ tab' = CASE call[c].act.do = "scan" -> tab
              [] call[c].act.do = "pay" -> IF call[c].pc = "done" THEN NewTab("none", FALSE) ELSE tab
              [] OTHER -> IF call[c].pc = "done"
                          THEN Refetch([tab EXCEPT !.modal = "none", !.mine = @ \cup Set(call[c].act)])
                          ELSE IF Hidden(c) THEN Refetch([tab EXCEPT !.modal = "none"]) ELSE tab
  /\ UNCHANGED <<rowVars, viewer>>
-----------------------------------------------------------------------------------
(* create() has sent the order to the buyer's address                                         *)
DeskInit ==
  /\ \E s \in Sellers, b \in Addressees :
       order = [status |-> "PENDING_BUYER", escrow |-> "PENDING", seller |-> s, addressee |-> b,
                buyer |-> NoOne, rider |-> NoOne, dispute |-> "NONE", stamps |-> {"PENDING_BUYER"}]
  /\ checkout = "none" /\ asked = FALSE /\ late = FALSE /\ events = <<>>
  /\ call = [c \in Calls |-> NoCall]
  /\ viewer \in Viewers
  /\ tab = NewTab("none", FALSE)
  /\ reached = {"PENDING_BUYER"} /\ overtaken = 0

DeskNext ==
  \/ \E c \in Calls : Check(c) \/ Write(c) \/ Click(c) \/ EndCall(c)
                     \/ ConfirmReceiptModal(c) \/ RaiseDisputeModal(c)
  \/ \E c \in Calls, p \in People : OtherClicks(c, p)
  \/ CustomerPays \/ PaymentArrives \/ Verify \/ VerifyWrite \/ AutoRelease \/ WindowCloses
  \/ \E pg \in Page \cup {"none"} : Open(pg)
  \/ ReturnFromPaystack \/ Fetched \/ FetchFails \/ Poll \/ CloseModal \/ Acknowledge \/ Describe
  \/ \E m \in {"receipt", "dispute"} : OpenModal(m)

(* A page polls, and ends its loading.  Not every fetch fails, and not every answer takes longer  *)
(* than the two seconds after which a poll cancels it.                                          *)
DeskFairness ==
  /\ WF_deskVars(Poll) /\ WF_deskVars(Fetched \/ FetchFails)
  /\ SF_deskVars(Fetched)

DeskSpec == DeskInit /\ [][DeskNext]_deskVars /\ DeskFairness

-----------------------------------------------------------------------------------
DeskTypeOK ==
  /\ order \in DeskRow /\ checkout \in Checkout
  /\ asked \in BOOLEAN /\ late \in BOOLEAN
  /\ events \in Seq(OrderStatus)
  /\ call \in [Calls -> Call \cup {NoCall}]
  /\ viewer \in People /\ tab \in Tab
  /\ reached \subseteq OrderStatus /\ overtaken \in Nat

(* Nobody has two parts in the order, as a seller who is also the buyer, or a rider account that *)
(* buys or sells: the server lets only the first part act, the pages offer what all of them may.  *)
(* An admin who buys counts too: the page offers the dispute, which only accounts of USERs raise. *)
OneHatEach == /\ order.seller # order.addressee /\ order.addressee \notin Admins
              /\ {order.seller, order.addressee} \cap Riders = {}
Undisturbed == OneHatEach /\ overtaken = 0

(* Whoever looks at the order as it is finds no button the server would refuse, except on the     *)
(* dispute page once the order has ended, and for the dispute, which the order page goes on        *)
(* offering when its 72 hours are over: the pages decide by ids and addresses, the handlers by one  *)
(* contextual role, and the two were written apart.                                                *)
OfferedIsAccepted ==
  Undisturbed =>
    \A p \in People : \A pg \in PagesOf(p) \ {"adminDisputes"} :
      /\ \A required \in Fetches(pg) : RoleOf(p) \in required
      /\ Sees(p, order) =>
           \A act \in OffersOn(pg, p, order) : Accepts(p, act, order) \/ (act = Act("raise") /\ late)

(* An order that has not ended is never stuck: on a page that somebody gets to from the sidebar, by  *)
(* a row that lists the order, there is a step other than a scan which the server accepts.           *)
NobodyStuck ==
  Undisturbed /\ EndNotice(order) = "none" =>
    \E p \in People : \E pg \in Linked(p, order) \cap PagesOf(p) :
      Sees(p, order) /\ \E act \in OffersOn(pg, p, order) \ {Act("scan")} : Accepts(p, act, order)

(* A click on an outdated page is refused: what the server accepts from somebody who is no admin     *)
(* still meets the status the page showed when it was clicked (a scan records whatever it finds).    *)
StaleClickRefused ==
  \A c \in Calls :
    call[c].pc \in {"checked", "done"} /\ call[c].clicked # "none"
      => call[c].read = call[c].clicked

(* A page that is not waiting for anything shows at least what its own calls have changed, polls,    *)
(* failed fetches and other people's writes notwithstanding.                                         *)
OwnChangeShown == Shown /\ Own = {} => tab.mine \subseteq tab.view.stamps

(* The timeline of the order page shows exactly the steps the order has been through, an order that  *)
(* is disputed or refunded included; the tracking page never claims more.                             *)
PagesTellOneStory ==
  overtaken = 0 =>
    /\ Timeline(order) = reached \ {"DISPUTED", "CANCELLED", "REFUNDED"}
    /\ TrackResults(order, events) \subseteq reached

(* "In escrow" and "released" are counted by different columns on different pages.  Without a         *)
(* dispute they agree: money that was paid counts as one of the two, never both, on the dashboard as   *)
(* on the payments page, and the words of the order page are the same.                                 *)
MoneyCountedOnce(p) ==
  LET counted == Dashboard(p, order) \cap MoneyFigures IN
  /\ Mine(p, order) => /\ counted = PaymentCards(p, order)
                       /\ MobilePaymentCards(p, order) = counted \ {"released"}
  /\ counted = CASE ~PaidOn(order) -> {}
                  [] PaidOn(order) /\ ~ReleasedOn(order) -> {"inEscrow"}
                  [] ReleasedOn(order) -> {"released"}
  /\ "inEscrow" \in counted <=> EscrowCard(order) = "held"
  /\ "released" \in counted <=> EscrowCard(order) = "released" /\ EndNotice(order) = "released"
  /\ "released" \in counted <=> "released" \in AdminDashboard(order)

(* A shipment is under way, for its parties, from the dispatch on: in one tab next to "All", in one     *)
(* card next to the total, for the rider too, with a progress that only the later steps exceed.         *)
ShipmentListed(p) ==
  LET shipped == "SHIPPED" \in reached /\ order.status # "DISPUTED" IN
  /\ Mine(p, order) /\ shipped <=> Cardinality(ShipmentTabs(p, order)) = 2
  /\ Cardinality(ShipmentTabs(p, order)) = Cardinality(ShipmentStats(p, order))
  /\ RiderListed(order) => Cardinality(RiderStats(order)) = 2 /\ Cardinality(RiderTabs(order)) = 2
  /\ LET card == ShipmentCard(p, order) IN
     /\ card.badge # "Pending" <=> shipped
     /\ card.progress >= 20 <=> shipped
     /\ card.progress >= 90 <=> card.badge = "Delivered"
     /\ card.progress = 100 <=> "COMPLETED" \in reached

(* What the buyer owes is announced on the dashboard, once the order is his.                            *)
OwedIsAnnounced(p) ==
  order.buyer = p =>
    OrderActions(p, order) \cap {Act("pay"), StatusAct("COMPLETED")} \subseteq PendingActions(order)

(* Once its buyer has confirmed it, an order that has not been called off has a bar or a tab of its own;  *)
(* the admin's rows miss the refunded ones. The summary names the addressee, as the buyer from then on.   *)
FoundByStatus ==
  LET confirmed == "AWAITING_PAYMENT" \in reached IN
  /\ StatusBars(order) \cup OrdersTabs(order) # {"All"}
       <=> confirmed /\ EndNotice(order) \notin {"refunded", "cancelled"}
  /\ AdminDashboard(order) \cap OrderStatus = {} <=> EndNotice(order) = "refunded"
  /\ OrderSummary(order) = [buyer |-> order.addressee, confirmed |-> confirmed]
  /\ order.status = "DISPUTED" => DisputeDetails(order) = "locked"

(* An order set to PAID by a verification the webhook has not followed: no page counts its money, except  *)
(* that the dashboard takes it for released once the order is completed.                                  *)
UnfundedCounted(p) ==
  LET counted == Dashboard(p, order) \cap MoneyFigures IN
  /\ counted = IF ReleasedOn(order) THEN {"released"} ELSE {}
  /\ PaymentCards(p, order) = {} /\ "released" \notin AdminDashboard(order)
  /\ EscrowCard(order) = "awaiting payment"

(* The pages that list and add up orders agree with each other and with where the order has been, as     *)
(* long as no write was overtaken and nobody has disputed, and, for the money, if what the order was paid  *)
(* with has come in: a completed order whose escrow stayed HOLDING, or a release that left the status      *)
(* behind, would show as money counted twice or never.                                                    *)
ListsAgree ==
  Undisturbed =>
    /\ FoundByStatus
    /\ order.dispute = "NONE" =>
         \A p \in People : Sees(p, order) =>
           /\ IF PaidOn(order) => checkout = "held" THEN MoneyCountedOnce(p) ELSE UnfundedCounted(p)
           /\ ShipmentListed(p) /\ OwedIsAnnounced(p)

(* A buyer whom Paystack sent back to the order and who still sees AWAITING_PAYMENT after the     *)
(* payment has arrived sees it without a reload: the poll outlives failed fetches and cancelled   *)
(* answers.                                                                                     *)
PaymentIsShown ==
  tab.callback /\ tab.view.status = "AWAITING_PAYMENT" /\ order.status # "AWAITING_PAYMENT"
    ~> tab.view.status # "AWAITING_PAYMENT" \/ order.status = "AWAITING_PAYMENT"

===================================================================================
