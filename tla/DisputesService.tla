----------------------------- MODULE DisputesService -----------------------------
(* The handlers of disputes.service.ts that change state.                        *)
EXTENDS OrderRecords

(* raise: the buyer of a DELIVERED order, within 72 hours of the delivery.  The  *)
(* window closes at some time or other, so a dispute may always come too late.   *)
RaiseDispute(r) ==
  /\ req[r].pc = "idle"
  /\ order.buyer
  /\ order.status = "DELIVERED"
  /\ Checked(r, "raiseCommit", "none")
  /\ UNCHANGED <<order, ledger, dispute, payment, charge, job, anomaly>>

(* the transaction only checks that there is no Dispute row yet *)
RaiseCommit(r) ==
  /\ req[r].pc = "raiseCommit"
  /\ \/ /\ dispute = "NONE"
        /\ dispute' = "OPEN"
        /\ WriteOrder(r, [order EXCEPT !.status = "DISPUTED", !.escrow = "DISPUTED"],
                      Idle, req[r].fresh)
     \/ /\ dispute # "NONE"
        /\ Finish(r)
        /\ UNCHANGED <<order, dispute, anomaly>>
  /\ UNCHANGED <<ledger, payment, charge, job>>

(* resolve: an admin, on a DISPUTED order whose dispute is not resolved *)
ResolveDispute(r, resolution) ==
  /\ req[r].pc = "idle"
  /\ order.status = "DISPUTED"
  /\ dispute = "OPEN"
  /\ Checked(r, "resolveCommit", resolution)
  /\ UNCHANGED <<order, ledger, dispute, payment, charge, job, anomaly>>

(* mutation: the outcomes are swapped *)
SettledBackwards(resolution) ==
  IF resolution = "RESOLVED_FOR_SELLER" THEN [order EXCEPT !.status = "REFUNDED", !.escrow = "REFUNDED"]
                                        ELSE [order EXCEPT !.status = "COMPLETED", !.escrow = "RELEASED"]

(* the order row a resolution leaves *)
Settled(resolution) ==
  IF resolution = "RESOLVED_FOR_BUYER" THEN [order EXCEPT !.status = "REFUNDED", !.escrow = "REFUNDED"]
                                       ELSE [order EXCEPT !.status = "COMPLETED", !.escrow = "RELEASED"]

(* mutation: the dispute is updated whatever its status *)
ResolveCommitTwice(r) ==
  /\ req[r].pc = "resolveCommit"
  /\ dispute' = req[r].arg
  /\ WriteOrder(r, Settled(req[r].arg), Idle, req[r].fresh)
  /\ UNCHANGED <<ledger, payment, charge, job>>

(* updateMany where status OPEN: the second of two admins changes no row and is  *)
(* refused.  The order row, however, is written without a condition, and neither *)
(* a ledger row nor an ESCROW_RELEASED event comes with it.                      *)
ResolveCommit(r) ==
  /\ req[r].pc = "resolveCommit"
  /\ \/ /\ dispute = "OPEN"
        /\ dispute' = req[r].arg
        /\ WriteOrder(r, Settled(req[r].arg), Idle, req[r].fresh)
     \/ /\ dispute # "OPEN"
        /\ Finish(r)
        /\ UNCHANGED <<order, dispute, anomaly>>
  /\ UNCHANGED <<ledger, payment, charge, job>>
==================================================================================
