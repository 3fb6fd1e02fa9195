------------------------------ MODULE EscrowService ------------------------------
(* The handlers of escrow.service.ts and the worker of escrow.processor.ts.     *)
(* Each of releaseFunds, refundFunds and holdFunds checks the order row, then   *)
(* looks up the hold, then commits its rows in one transaction that does not    *)
(* check anything again.  Hold rows are never deleted, so looking the hold up   *)
(* right before the commit loses no behaviour.                                  *)
EXTENDS OrderRecords

HoldExists == RowsOf("ESCROW_HOLD") # {}

(* -- releaseFunds ------------------------------------------------------------- *)

(* mutations: a second release is let through; a disputed order is               *)
ReleasableTwice == order.status \in {"DELIVERED", "COMPLETED"} /\ order.escrow \notin {"REFUNDED", "DISPUTED"}
ReleasableDisputed == /\ order.status \in {"DELIVERED", "COMPLETED", "DISPUTED"}
                      /\ order.escrow \notin {"RELEASED", "REFUNDED"}

(* the refusals of releaseFunds, by status and by escrow column *)
Releasable == /\ order.status \in {"DELIVERED", "COMPLETED"}
              /\ order.escrow \notin {"RELEASED", "REFUNDED", "DISPUTED"}

(* The worker ends its job when releaseFunds refuses: each of the refusals has   *)
(* a message that isSafeSkip accepts ("Release only allowed on DELIVERED or      *)
(* COMPLETED orders" among them), so that none is retried.                       *)
Refused(r) ==
  /\ Finish(r)
  /\ job' = IF req[r].arg = "auto" THEN Job("completed", 0) ELSE job
  /\ UNCHANGED <<order, ledger, dispute, payment, charge, anomaly>>

ReleaseRead(r) ==
  /\ req[r].pc = "releaseRead"
  /\ \/ /\ Releasable
        /\ Checked(r, "releaseCommit", req[r].arg)
        /\ UNCHANGED <<order, ledger, dispute, payment, charge, job, anomaly>>
     \/ ~Releasable /\ Refused(r)

(* the fee and the release carry one Date.now() in their unique references *)
ReleaseCommit(r) ==
  /\ req[r].pc = "releaseCommit"
  /\ \/ /\ HoldExists
        /\ \E n \in Stamps :
             /\ {Row("PLATFORM_FEE", n), Row("FULL_RELEASE", n)} \cap ledger = {}
             /\ ledger' = ledger \cup {Row("PLATFORM_FEE", n), Row("FULL_RELEASE", n)}
        /\ WriteOrder(r, [order EXCEPT !.status = "COMPLETED", !.escrow = "RELEASED"],
                      Request("releaseDone", req[r].arg, FALSE), req[r].fresh)
        /\ UNCHANGED <<dispute, payment, charge, job>>
     \/ ~HoldExists /\ Refused(r)

(* after the commit: buyer and admin pull the job, the worker completes its own *)
ReleaseDone(r) ==
  /\ req[r].pc = "releaseDone"
  /\ IF req[r].arg = "auto" THEN job' = Job("completed", 0) ELSE CancelAutoRelease
  /\ Finish(r)
  /\ UNCHANGED <<order, ledger, dispute, payment, charge, anomaly>>

(* adminRelease: its own checks, then releaseFunds with the trigger 'admin'.     *)
AdminRelease(r) ==
  /\ req[r].pc = "idle"
  /\ order.escrow = "HOLDING"
  /\ order.status = "DELIVERED"
  /\ dispute # "OPEN"
  /\ Goto(r, "releaseRead", "admin")
  /\ UNCHANGED <<order, ledger, dispute, payment, charge, job, anomaly>>

(* -- refundFunds -------------------------------------------------------------- *)

RefundFunds(r) ==
  /\ req[r].pc = "idle"
  /\ order.status = "DISPUTED"
  /\ order.escrow \notin {"REFUNDED", "RELEASED"}
  /\ Checked(r, "refundCommit", "none")
  /\ UNCHANGED <<order, ledger, dispute, payment, charge, job, anomaly>>

(* mutation: the hold is not looked up *)
RefundCommitUnbacked(r) ==
  /\ req[r].pc = "refundCommit"
  /\ \E n \in Stamps :
       Row("REFUND", n) \notin ledger /\ ledger' = ledger \cup {Row("REFUND", n)}
  /\ WriteOrder(r, [order EXCEPT !.status = "REFUNDED", !.escrow = "REFUNDED"],
                Request("refundDone", "none", FALSE), req[r].fresh)
  /\ UNCHANGED <<dispute, payment, charge, job>>

RefundCommit(r) ==
  /\ req[r].pc = "refundCommit"
  /\ \/ /\ HoldExists
        /\ \E n \in Stamps :
             Row("REFUND", n) \notin ledger /\ ledger' = ledger \cup {Row("REFUND", n)}
        /\ WriteOrder(r, [order EXCEPT !.status = "REFUNDED", !.escrow = "REFUNDED"],
                      Request("refundDone", "none", FALSE), req[r].fresh)
        /\ UNCHANGED <<dispute, payment, charge, job>>
     \/ ~HoldExists /\ Refused(r)

RefundDone(r) ==
  /\ req[r].pc = "refundDone"
  /\ CancelAutoRelease
  /\ Finish(r)
  /\ UNCHANGED <<order, ledger, dispute, payment, charge, anomaly>>

(* -- holdFunds ---------------------------------------------------------------- *)

(* the amount of a charge must match the order total; an admin's own reference   *)
(* comes with an amount that was checked the same way                            *)
AmountMatches(ref) == ref \in PaymentRefs => charge[ref] = "PAID"
Holdable(ref) == order.status = "AWAITING_PAYMENT" /\ ~HoldExists /\ AmountMatches(ref)

(* POST /escrow/hold by an admin *)
AdminHold(r, ref) ==
  /\ req[r].pc = "idle"
  /\ Holdable(ref)
  /\ Checked(r, "holdCommit", ref)
  /\ UNCHANGED <<order, ledger, dispute, payment, charge, job, anomaly>>

(* the call at the end of verifyByReference, which swallows every refusal *)
HoldRead(r) ==
  /\ req[r].pc = "holdRead"
  /\ IF Holdable(req[r].arg) THEN Checked(r, "holdCommit", req[r].arg) ELSE Finish(r)
  /\ UNCHANGED <<order, ledger, dispute, payment, charge, job, anomaly>>

(* the row is refused, and the request with it, when its reference is taken *)
HoldCommit(r) ==
  LET row == Row("ESCROW_HOLD", req[r].arg) IN
  /\ req[r].pc = "holdCommit"
  /\ \/ /\ row \notin ledger
        /\ ledger' = ledger \cup {row}
        /\ WriteOrder(r, [order EXCEPT !.status = "PAID", !.escrow = "HOLDING"],
                      Request("scheduleJob", "none", FALSE), req[r].fresh)
        /\ UNCHANGED <<dispute, payment, charge, job>>
     \/ row \in ledger /\ Refused(r)

ScheduleJob(r) ==
  /\ req[r].pc = "scheduleJob"
  /\ ScheduleAutoRelease
  /\ Finish(r)
  /\ UNCHANGED <<order, ledger, dispute, payment, charge, anomaly>>

(* -- the auto-release job ------------------------------------------------------ *)

(* mutations of the next definition: no limit on the attempts; no further attempt *)
RetryForever == Job("delayed", job.attempts + 1)
NoRetry == job

(* the job of a worker that died or threw: tried again until its attempts are up *)
JobAfterFailure == IF job.attempts + 1 < MaxAttempts THEN Job("delayed", job.attempts + 1)
                                                     ELSE Job("failed", MaxAttempts)

(* the 48 hours are over and the worker takes the job: releaseFunds('auto-release') *)
JobFires ==
  /\ req[Worker].pc = "idle"
  /\ job.state = "delayed"
  /\ job' = Job("active", job.attempts)
  /\ Goto(Worker, "releaseRead", "auto")
  /\ UNCHANGED <<order, ledger, dispute, payment, charge, anomaly>>

(* BullMQ keeps only the last 100 completed jobs *)
JobPruned ==
  /\ job.state = "completed"
  /\ job' = NoJob
  /\ UNCHANGED <<order, ledger, dispute, payment, charge, req, anomaly>>
==================================================================================
