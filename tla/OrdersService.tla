------------------------------ MODULE OrdersService ------------------------------
(* The handlers of orders.service.ts that change an existing order.             *)
EXTENDS OrderRecords

(* getContextualRole: who can act on this order.  The seller and the admins      *)
(* always can; a buyer or a rider only once the row names them.                  *)
RolesOnOrder ==
  {"ADMIN", "SELLER"} \cup (IF order.buyer THEN {"BUYER"} ELSE {})
                      \cup (IF order.rider THEN {"RIDER"} ELSE {})

(* mutation: no hand-off to releaseFunds *)
UpdateStatusNoRelease(r, to, role) ==
  /\ req[r].pc = "idle"
  /\ role \in RolesOnOrder
  /\ ValidTransition(order.status, to, role)
  /\ Checked(r, "statusWrite", to)
  /\ UNCHANGED <<order, ledger, dispute, payment, charge, job, anomaly>>

(* updateStatus, first half: the transition is validated against the row read.   *)
(* Completing an order whose escrow is HOLDING is handed to releaseFunds, with   *)
(* the trigger 'buyer' whoever asked; every other case is a plain update.        *)
UpdateStatus(r, to, role) ==
  /\ req[r].pc = "idle"
  /\ role \in RolesOnOrder
  /\ ValidTransition(order.status, to, role)
  /\ IF to = "COMPLETED" /\ order.escrow = "HOLDING"
     THEN Goto(r, "releaseRead", "buyer")
     ELSE Checked(r, "statusWrite", to)
  /\ UNCHANGED <<order, ledger, dispute, payment, charge, job, anomaly>>

(* updateStatus, second half: order.update({ where: { id }, data: { status } })  *)
StatusWrite(r) ==
  /\ req[r].pc = "statusWrite"
  /\ WriteOrder(r, [order EXCEPT !.status = req[r].arg], Idle, req[r].fresh)
  /\ UNCHANGED <<ledger, dispute, payment, charge, job>>

(* mutation: the status is not checked *)
ConfirmAnyOrder(r) ==
  /\ req[r].pc = "idle"
  /\ Checked(r, "confirmWrite", "none")
  /\ UNCHANGED <<order, ledger, dispute, payment, charge, job, anomaly>>

(* confirmByBuyer: the row is PENDING_BUYER when read ...                        *)
ConfirmByBuyer(r) ==
  /\ req[r].pc = "idle"
  /\ order.status = "PENDING_BUYER"
  /\ Checked(r, "confirmWrite", "none")
  /\ UNCHANGED <<order, ledger, dispute, payment, charge, job, anomaly>>

(* ... and becomes AWAITING_PAYMENT, whatever it is by then                      *)
ConfirmWrite(r) ==
  /\ req[r].pc = "confirmWrite"
  /\ WriteOrder(r, [order EXCEPT !.status = "AWAITING_PAYMENT", !.buyer = TRUE], Idle, req[r].fresh)
  /\ UNCHANGED <<ledger, dispute, payment, charge, job>>

(* assignRider: only checked against a SHIPPED row; a later call overwrites      *)
AssignRider(r) ==
  /\ req[r].pc = "idle"
  /\ order.status = "SHIPPED"
  /\ Checked(r, "assignWrite", "none")
  /\ UNCHANGED <<order, ledger, dispute, payment, charge, job, anomaly>>

AssignWrite(r) ==
  /\ req[r].pc = "assignWrite"
  /\ WriteOrder(r, [order EXCEPT !.rider = TRUE], Idle, req[r].fresh)
  /\ UNCHANGED <<ledger, dispute, payment, charge, job>>
==================================================================================
