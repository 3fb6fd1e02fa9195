----------------------------- MODULE PaymentsService -----------------------------
(* payments.service.ts (initiate, verify) and the charge events of              *)
(* webhook.service.ts, with Paystack as they see it.                            *)
EXTENDS OrderRecords

(* Paystack: the customer pays the reference once, in full or, as the webhook    *)
(* allows for, with another amount.                                              *)
CustomerPays(ref) ==
  /\ charge[ref] = "OPEN"
  /\ \E outcome \in {"PAID", "WRONG_AMOUNT"} : charge' = [charge EXCEPT ![ref] = outcome]
  /\ UNCHANGED <<order, ledger, dispute, payment, job, req, anomaly>>

Succeeded(ref) == charge[ref] \in {"PAID", "WRONG_AMOUNT"}

(* initiatePayment: only the PENDING record depends on what was read, and it     *)
(* overwrites nothing, so that reading and creating are one step.                *)
InitiatePayment(ref) ==
  /\ order.status = "AWAITING_PAYMENT"
  /\ \A p \in PaymentRefs : payment[p] # "SUCCESS"
  /\ payment[ref] = "NONE"
  /\ payment' = [payment EXCEPT ![ref] = "PENDING"]
  /\ charge' = [charge EXCEPT ![ref] = "OPEN"]
  /\ UNCHANGED <<order, ledger, dispute, job, req, anomaly>>

(* -- GET /payments/verify/:reference ------------------------------------------ *)

(* A record that is SUCCESS already only repairs an order still waiting for its  *)
(* payment; any other record is settled once Paystack confirms the charge.       *)
VerifyByReference(r, ref) ==
  /\ req[r].pc = "idle"
  /\ \/ /\ payment[ref] = "SUCCESS"
        /\ order.status = "AWAITING_PAYMENT"
        /\ Checked(r, "verifyFix", "none")
     \/ /\ payment[ref] \in {"PENDING", "FAILED"}
        /\ Succeeded(ref)
        /\ Goto(r, "verifyWrite", ref)
  /\ UNCHANGED <<order, ledger, dispute, payment, charge, job, anomaly>>

(* mutation: the repair takes the escrow for funded *)
VerifyFixHolds(r) ==
  /\ req[r].pc = "verifyFix"
  /\ WriteOrder(r, [order EXCEPT !.status = "PAID", !.escrow = "HOLDING"], Idle, req[r].fresh)
  /\ UNCHANGED <<ledger, dispute, payment, charge, job>>

VerifyFix(r) ==
  /\ req[r].pc = "verifyFix"
  /\ WriteOrder(r, [order EXCEPT !.status = "PAID"], Idle, req[r].fresh)
  /\ UNCHANGED <<ledger, dispute, payment, charge, job>>

(* The transaction sets the order to PAID without looking at it: "blindPaid"     *)
(* records that it was not waiting for a payment.  Then holdFunds is called.     *)
VerifyWrite(r) ==
  /\ req[r].pc = "verifyWrite"
  /\ payment' = [payment EXCEPT ![req[r].arg] = "SUCCESS"]
  /\ order' = [order EXCEPT !.status = "PAID"]
  /\ req' = [q \in Reqs |-> IF q = r THEN Request("holdRead", req[r].arg, FALSE)
                                     ELSE [req[q] EXCEPT !.fresh = FALSE]]
  /\ anomaly' = IF order.status = "AWAITING_PAYMENT" THEN anomaly ELSE anomaly \cup {"blindPaid"}
  /\ UNCHANGED <<ledger, dispute, charge, job>>

(* -- webhook: charge.success --------------------------------------------------- *)

(* mutation: a charge over another amount funds the escrow *)
PaidAnyAmount(ref) == charge[ref] \in {"PAID", "WRONG_AMOUNT"}

PaidInFull(ref) == charge[ref] = "PAID"
TERMINAL_ESCROW_STATUSES == {"RELEASED", "REFUNDED", "DISPUTED"}
(* mutation: an order that holds money already is not turned away *)
FundableAgain == /\ order.escrow \notin TERMINAL_ESCROW_STATUSES
                 /\ order.status \in {"AWAITING_PAYMENT", "PAID"}

(* what the transaction of the webhook asks of the order it reads *)
Fundable == /\ RowsOf("ESCROW_HOLD") = {}
            /\ order.escrow \notin TERMINAL_ESCROW_STATUSES
            /\ order.status \in {"AWAITING_PAYMENT", "PAID"}

(* Everything the handler decides on it reads inside one Serializable            *)
(* transaction, so that reads and writes are one step.  Paystack may deliver the *)
(* event any number of times, at any time after the charge.                      *)
ChargeSuccess(r, ref) ==
  /\ req[r].pc = "idle"
  /\ Succeeded(ref)
  /\ payment' = [payment EXCEPT ![ref] = "SUCCESS"]
  /\ IF PaidInFull(ref) /\ Fundable
     THEN /\ ledger' = ledger \cup {Row("ESCROW_HOLD", ref)}
          /\ WriteOrder(r, [order EXCEPT !.status = "PAID", !.escrow = "HOLDING"],
                        Request("scheduleJob", "none", FALSE), TRUE)
     ELSE UNCHANGED <<order, ledger, req, anomaly>>
  /\ UNCHANGED <<dispute, charge, job>>

(* -- webhook: charge.failed ----------------------------------------------------- *)

(* An attempt on the reference was declined at some point, before or after the   *)
(* customer tried again and paid.  The record is read ...                        *)
ChargeFailed(r, ref) ==
  /\ req[r].pc = "idle"
  /\ charge[ref] # "NONE"
  /\ payment[ref] \in {"PENDING", "FAILED"}
  /\ Goto(r, "failWrite", ref)
  /\ UNCHANGED <<order, ledger, dispute, payment, charge, job, anomaly>>

(* ... and set to FAILED, whatever it is by then *)
FailWrite(r) ==
  /\ req[r].pc = "failWrite"
  /\ payment' = [payment EXCEPT ![req[r].arg] = "FAILED"]
  /\ Finish(r)
  /\ UNCHANGED <<order, ledger, dispute, charge, job, anomaly>>
==================================================================================
