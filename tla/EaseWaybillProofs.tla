---------------------------- MODULE EaseWaybillProofs ----------------------------
(* Machine-checked proofs about EaseWaybill for any number of requests,          *)
(* references, timestamps and attempts; in the second half, that it implements   *)
(* Custody.                                                                      *)
EXTENDS EaseWaybill, TLAPS

-----------------------------------------------------------------------------------
(* Helpers on the requests table.                                                *)

(* a request may move to any well-typed step                                     *)
LEMMA GotoType ==
  ASSUME TypeOK, NEW r \in Reqs, NEW q \in RequestType
  PROVE  [req EXCEPT ![r] = q] \in [Reqs -> RequestType]
  BY DEF TypeOK

(* forgetting freshness keeps a request well-typed                               *)
LEMMA StaleType ==
  ASSUME NEW q \in RequestType
  PROVE  [q EXCEPT !.fresh = FALSE] \in RequestType
  BY DEF RequestType

(* WriteOrder keeps the types when it is given a well-typed row and a well-typed *)
(* step to go on with                                                            *)
LEMMA WriteOrderType ==
  ASSUME TypeOK, NEW r \in Reqs, NEW row \in OrderRow, NEW next \in RequestType, NEW b \in BOOLEAN,
         WriteOrder(r, row, next, b)
  PROVE  /\ order' \in OrderRow
         /\ req' \in [Reqs -> RequestType]
         /\ anomaly' \subseteq {"lostUpdate", "blindPaid"}
<1>1. \A q \in Reqs : [req[q] EXCEPT !.fresh = FALSE] \in RequestType
  BY StaleType DEF TypeOK
<1> QED
  BY <1>1 DEF WriteOrder, TypeOK

LEMMA IdleType == Idle \in RequestType
  BY DEF Idle, Request, RequestType

(* the jobs the services write                                                   *)
LEMMA JobTypes ==
  ASSUME TypeOK
  PROVE  /\ NoJob \in [state : JobState, attempts : 0..MaxAttempts]
         /\ JobAfterFailure \in [state : JobState, attempts : 0..MaxAttempts]
         /\ Job("delayed", 0) \in [state : JobState, attempts : 0..MaxAttempts]
         /\ Job("completed", 0) \in [state : JobState, attempts : 0..MaxAttempts]
         /\ Job("active", job.attempts) \in [state : JobState, attempts : 0..MaxAttempts]
  BY SomeAttempt DEF TypeOK, NoJob, JobAfterFailure, Job, JobState

(* a step that only moves request r on, and perhaps the job, keeps the types     *)
LEMMA RequestMoves ==
  ASSUME TypeOK, NEW r \in Reqs, NEW q \in RequestType, req' = [req EXCEPT ![r] = q],
         job' \in [state : JobState, attempts : 0..MaxAttempts],
         UNCHANGED <<order, ledger, dispute, payment, charge, anomaly>>
  PROVE  TypeOK'
  BY GotoType DEF TypeOK

(* The state is well-typed in every reachable state; in particular every request *)
(* carries the kind of argument its next step takes.                             *)
THEOREM TypeCorrect == Spec => []TypeOK
<1>1. Init => TypeOK
  <2> SUFFICES ASSUME Init PROVE TypeOK
    OBVIOUS
  <2>1. order \in OrderRow
    BY DEF Init, NewOrder, OrderRow, OrderStatus, EscrowStatus
  <2>2. job \in [state : JobState, attempts : 0..MaxAttempts]
    BY SomeAttempt DEF Init, NoJob, Job, JobState
  <2> QED
    BY <2>1, <2>2, IdleType DEF Init, TypeOK, DisputeStatus, PaymentStatus, ChargeState
<1>2. TypeOK /\ [Next]_vars => TypeOK'
  <2> SUFFICES ASSUME TypeOK, [Next]_vars PROVE TypeOK'
    OBVIOUS
  <2>1. ASSUME NEW r \in Reqs, NEW to \in OrderStatus, NEW role \in ContextualRole, UpdateStatus(r, to, role)
        PROVE  TypeOK'
    <3>1. Request("releaseRead", "buyer", FALSE) \in RequestType /\ Request("statusWrite", to, TRUE) \in RequestType
      BY DEF Request, RequestType, Trigger
    <3> QED
      BY <2>1, <3>1, GotoType DEF UpdateStatus, Goto, Checked, TypeOK
  <2>2. ASSUME NEW r \in Reqs, StatusWrite(r) PROVE TypeOK'
    <3>1. req[r].arg \in OrderStatus /\ req[r].fresh \in BOOLEAN
      BY <2>2 DEF StatusWrite, TypeOK, RequestType
    <3>2. [order EXCEPT !.status = req[r].arg] \in OrderRow
      BY <3>1 DEF TypeOK, OrderRow
    <3> QED
      BY <2>2, <3>1, <3>2, IdleType, WriteOrderType DEF StatusWrite, TypeOK
  <2>3. ASSUME NEW r \in Reqs, ConfirmByBuyer(r) \/ AssignRider(r) \/ RaiseDispute(r) \/ RefundFunds(r)
        PROVE  TypeOK'
    <3>1. \A pc \in {"confirmWrite", "assignWrite", "raiseCommit", "refundCommit"} :
            Request(pc, "none", TRUE) \in RequestType
      BY DEF Request, RequestType
    <3>2. job' \in [state : JobState, attempts : 0..MaxAttempts]
      BY <2>3 DEF ConfirmByBuyer, AssignRider, RaiseDispute, RefundFunds, TypeOK
    <3> QED
      <4>1. CASE ConfirmByBuyer(r)
        BY <4>1, <3>1, <3>2, RequestMoves DEF ConfirmByBuyer, Checked
      <4>2. CASE AssignRider(r)
        BY <4>2, <3>1, <3>2, RequestMoves DEF AssignRider, Checked
      <4>3. CASE RaiseDispute(r)
        BY <4>3, <3>1, <3>2, RequestMoves DEF RaiseDispute, Checked
      <4>4. CASE RefundFunds(r)
        BY <4>4, <3>1, <3>2, RequestMoves DEF RefundFunds, Checked
      <4> QED
        BY <2>3, <4>1, <4>2, <4>3, <4>4
  <2>4. ASSUME NEW r \in Reqs, ConfirmWrite(r) PROVE TypeOK'
    <3>1. req[r].fresh \in BOOLEAN
      BY DEF TypeOK, RequestType
    <3>2. [order EXCEPT !.status = "AWAITING_PAYMENT", !.buyer = TRUE] \in OrderRow
      BY DEF TypeOK, OrderRow, OrderStatus
    <3> QED
      BY <2>4, <3>1, <3>2, IdleType, WriteOrderType DEF ConfirmWrite, TypeOK
  <2>5. ASSUME NEW r \in Reqs, AssignWrite(r) PROVE TypeOK'
    <3>1. req[r].fresh \in BOOLEAN
      BY DEF TypeOK, RequestType
    <3>2. [order EXCEPT !.rider = TRUE] \in OrderRow
      BY DEF TypeOK, OrderRow
    <3> QED
      BY <2>5, <3>1, <3>2, IdleType, WriteOrderType DEF AssignWrite, TypeOK
  <2>6. ASSUME NEW r \in Reqs, ReleaseRead(r) PROVE TypeOK'
    <3>1. Request("releaseCommit", req[r].arg, TRUE) \in RequestType
      BY <2>6 DEF ReleaseRead, TypeOK, RequestType, Request
    <3>2. job' \in [state : JobState, attempts : 0..MaxAttempts]
      BY <2>6, JobTypes DEF ReleaseRead, Refused, TypeOK
    <3> QED
      BY <2>6, <3>1, <3>2, RequestMoves, IdleType DEF ReleaseRead, Refused, Checked, Finish
  <2>7. ASSUME NEW r \in Reqs, ReleaseCommit(r) PROVE TypeOK'
    <3>1. CASE HoldExists
      <4>1. req[r].fresh \in BOOLEAN
        BY DEF TypeOK, RequestType
      <4>2. [order EXCEPT !.status = "COMPLETED", !.escrow = "RELEASED"] \in OrderRow
        BY DEF TypeOK, OrderRow, OrderStatus, EscrowStatus
      <4>3. Request("releaseDone", req[r].arg, FALSE) \in RequestType
        BY <2>7 DEF ReleaseCommit, TypeOK, RequestType, Request
      <4>4. \A n \in Stamps : Row("PLATFORM_FEE", n) \in LedgerRow /\ Row("FULL_RELEASE", n) \in LedgerRow
        BY DEF Row, LedgerRow, PayoutType
      <4>5. ledger' \subseteq LedgerRow
        BY <2>7, <3>1, <4>4 DEF ReleaseCommit, TypeOK
      <4> QED
        <5>1. /\ WriteOrder(r, [order EXCEPT !.status = "COMPLETED", !.escrow = "RELEASED"],
                            Request("releaseDone", req[r].arg, FALSE), req[r].fresh)
              /\ UNCHANGED <<dispute, payment, charge, job>>
          BY <2>7, <3>1 DEF ReleaseCommit
        <5>2. /\ order' \in OrderRow
              /\ req' \in [Reqs -> RequestType]
              /\ anomaly' \subseteq {"lostUpdate", "blindPaid"}
          BY <5>1, <4>1, <4>2, <4>3, WriteOrderType
        <5> QED
          BY <5>1, <5>2, <4>5 DEF TypeOK
    <3>2. CASE ~HoldExists
      <4>1. job' \in [state : JobState, attempts : 0..MaxAttempts]
        BY <2>7, <3>2, JobTypes DEF ReleaseCommit, Refused, TypeOK
      <4> QED
        BY <2>7, <3>2, <4>1, RequestMoves, IdleType DEF ReleaseCommit, Refused, Finish
    <3> QED
      BY <3>1, <3>2
  <2>8. ASSUME NEW r \in Reqs, ReleaseDone(r) \/ RefundDone(r) \/ ScheduleJob(r) PROVE TypeOK'
    <3>1. job' \in [state : JobState, attempts : 0..MaxAttempts]
      BY <2>8, JobTypes DEF ReleaseDone, RefundDone, ScheduleJob, CancelAutoRelease, ScheduleAutoRelease, TypeOK
    <3> QED
      BY <2>8, <3>1, RequestMoves, IdleType DEF ReleaseDone, RefundDone, ScheduleJob, Finish
  <2>9. ASSUME NEW r \in Reqs, AdminRelease(r) PROVE TypeOK'
    <3>1. Request("releaseRead", "admin", FALSE) \in RequestType
      BY DEF Request, RequestType, Trigger
    <3> QED
      BY <2>9, <3>1, GotoType DEF AdminRelease, Goto, TypeOK
  <2>10. ASSUME NEW r \in Reqs, RefundCommit(r) PROVE TypeOK'
    <3>1. CASE HoldExists
      <4>1. req[r].fresh \in BOOLEAN
        BY DEF TypeOK, RequestType
      <4>2. [order EXCEPT !.status = "REFUNDED", !.escrow = "REFUNDED"] \in OrderRow
        BY DEF TypeOK, OrderRow, OrderStatus, EscrowStatus
      <4>3. Request("refundDone", "none", FALSE) \in RequestType
        BY DEF RequestType, Request
      <4>4. ledger' \subseteq LedgerRow
        <5>1. \A n \in Stamps : Row("REFUND", n) \in LedgerRow
          BY DEF Row, LedgerRow, PayoutType
        <5> QED
          BY <2>10, <3>1, <5>1 DEF RefundCommit, TypeOK
      <4> QED
        <5>1. /\ WriteOrder(r, [order EXCEPT !.status = "REFUNDED", !.escrow = "REFUNDED"],
                            Request("refundDone", "none", FALSE), req[r].fresh)
              /\ UNCHANGED <<dispute, payment, charge, job>>
          BY <2>10, <3>1 DEF RefundCommit
        <5>2. /\ order' \in OrderRow
              /\ req' \in [Reqs -> RequestType]
              /\ anomaly' \subseteq {"lostUpdate", "blindPaid"}
          BY <5>1, <4>1, <4>2, <4>3, WriteOrderType
        <5> QED
          BY <5>1, <5>2, <4>4 DEF TypeOK
    <3>2. CASE ~HoldExists
      <4>1. job' \in [state : JobState, attempts : 0..MaxAttempts]
        BY <2>10, <3>2, JobTypes DEF RefundCommit, Refused, TypeOK
      <4> QED
        BY <2>10, <3>2, <4>1, RequestMoves, IdleType DEF RefundCommit, Refused, Finish
    <3> QED
      BY <3>1, <3>2
  <2>11. ASSUME NEW r \in Reqs, NEW ref \in ManualRefs, AdminHold(r, ref) PROVE TypeOK'
    <3>1. Request("holdCommit", ref, TRUE) \in RequestType
      BY DEF Request, RequestType, HoldRefs
    <3> QED
      BY <2>11, <3>1, GotoType DEF AdminHold, Checked, TypeOK
  <2>12. ASSUME NEW r \in Reqs, HoldRead(r) PROVE TypeOK'
    <3>1. Request("holdCommit", req[r].arg, TRUE) \in RequestType
      BY <2>12 DEF HoldRead, TypeOK, RequestType, Request, HoldRefs
    <3> QED
      BY <2>12, <3>1, GotoType, IdleType DEF HoldRead, Checked, Finish, TypeOK
  <2>13. ASSUME NEW r \in Reqs, HoldCommit(r) PROVE TypeOK'
    <3> DEFINE row == Row("ESCROW_HOLD", req[r].arg)
    <3>1. CASE row \notin ledger
      <4>1. req[r].fresh \in BOOLEAN /\ req[r].arg \in HoldRefs
        BY <2>13 DEF HoldCommit, TypeOK, RequestType
      <4>2. [order EXCEPT !.status = "PAID", !.escrow = "HOLDING"] \in OrderRow
        BY DEF TypeOK, OrderRow, OrderStatus, EscrowStatus
      <4>3. Request("scheduleJob", "none", FALSE) \in RequestType
        BY DEF RequestType, Request
      <4>4. ledger' \subseteq LedgerRow
        <5>1. row \in LedgerRow
          BY <4>1 DEF Row, LedgerRow
        <5>2. ledger' = ledger \cup {row}
          BY <2>13, <3>1 DEF HoldCommit
        <5> HIDE DEF row
        <5> QED
          BY <5>1, <5>2 DEF TypeOK
      <4> QED
        <5>1. /\ WriteOrder(r, [order EXCEPT !.status = "PAID", !.escrow = "HOLDING"],
                            Request("scheduleJob", "none", FALSE), req[r].fresh)
              /\ UNCHANGED <<dispute, payment, charge, job>>
          BY <2>13, <3>1 DEF HoldCommit
        <5>2. /\ order' \in OrderRow
              /\ req' \in [Reqs -> RequestType]
              /\ anomaly' \subseteq {"lostUpdate", "blindPaid"}
          BY <5>1, <4>1, <4>2, <4>3, WriteOrderType
        <5> QED
          BY <5>1, <5>2, <4>4 DEF TypeOK
    <3>2. CASE row \in ledger
      <4>1. job' \in [state : JobState, attempts : 0..MaxAttempts]
        BY <2>13, <3>2, JobTypes DEF HoldCommit, Refused, TypeOK
      <4> QED
        BY <2>13, <3>2, <4>1, RequestMoves, IdleType DEF HoldCommit, Refused, Finish
    <3> QED
      BY <3>1, <3>2
  <2>14. CASE JobFires
    <3>1. Request("releaseRead", "auto", FALSE) \in RequestType /\ Worker \in Reqs
      BY DEF Request, RequestType, Trigger, Reqs
    <3>2. job' \in [state : JobState, attempts : 0..MaxAttempts]
      BY <2>14, JobTypes DEF JobFires, TypeOK
    <3> QED
      BY <2>14, <3>1, <3>2, GotoType DEF JobFires, Goto, TypeOK
  <2>15. CASE JobPruned
    BY <2>15, JobTypes DEF JobPruned, TypeOK
  <2>16. ASSUME NEW ref \in PaymentRefs, InitiatePayment(ref) \/ CustomerPays(ref) PROVE TypeOK'
    BY <2>16 DEF InitiatePayment, CustomerPays, TypeOK, PaymentStatus, ChargeState
  <2>17. ASSUME NEW r \in Reqs, NEW ref \in PaymentRefs, VerifyByReference(r, ref) \/ ChargeFailed(r, ref)
         PROVE  TypeOK'
    <3>1. /\ Request("verifyFix", "none", TRUE) \in RequestType
          /\ Request("verifyWrite", ref, FALSE) \in RequestType
          /\ Request("failWrite", ref, FALSE) \in RequestType
      BY DEF Request, RequestType
    <3>2. job' \in [state : JobState, attempts : 0..MaxAttempts]
      BY <2>17 DEF VerifyByReference, ChargeFailed, TypeOK
    <3> QED
      BY <2>17, <3>1, <3>2, RequestMoves DEF VerifyByReference, ChargeFailed, Goto, Checked
  <2>18. ASSUME NEW r \in Reqs, VerifyFix(r) PROVE TypeOK'
    <3>1. req[r].fresh \in BOOLEAN
      BY DEF TypeOK, RequestType
    <3>2. [order EXCEPT !.status = "PAID"] \in OrderRow
      BY DEF TypeOK, OrderRow, OrderStatus
    <3> QED
      BY <2>18, <3>1, <3>2, IdleType, WriteOrderType DEF VerifyFix, TypeOK
  <2>19. ASSUME NEW r \in Reqs, VerifyWrite(r) PROVE TypeOK'
    <3>1. req[r].arg \in PaymentRefs
      BY <2>19 DEF VerifyWrite, TypeOK, RequestType
    <3>2. [order EXCEPT !.status = "PAID"] \in OrderRow
      BY DEF TypeOK, OrderRow, OrderStatus
    <3>3. Request("holdRead", req[r].arg, FALSE) \in RequestType
      BY <3>1 DEF Request, RequestType
    <3>4. \A q \in Reqs : [req[q] EXCEPT !.fresh = FALSE] \in RequestType
      BY StaleType DEF TypeOK
    <3>5. payment' \in [PaymentRefs -> PaymentStatus]
      BY <2>19, <3>1 DEF VerifyWrite, TypeOK, PaymentStatus
    <3>6. req' \in [Reqs -> RequestType]
      BY <2>19, <3>3, <3>4 DEF VerifyWrite
    <3> QED
      BY <2>19, <3>2, <3>5, <3>6 DEF VerifyWrite, TypeOK
  <2>20. ASSUME NEW r \in Reqs, NEW ref \in PaymentRefs, ChargeSuccess(r, ref) PROVE TypeOK'
    <3>1. payment' \in [PaymentRefs -> PaymentStatus]
      BY <2>20 DEF ChargeSuccess, TypeOK, PaymentStatus
    <3>2. [order EXCEPT !.status = "PAID", !.escrow = "HOLDING"] \in OrderRow
      BY DEF TypeOK, OrderRow, OrderStatus, EscrowStatus
    <3>3. Request("scheduleJob", "none", FALSE) \in RequestType
      BY DEF RequestType, Request
    <3>4. Row("ESCROW_HOLD", ref) \in LedgerRow
      BY DEF Row, LedgerRow, HoldRefs
    <3>5. CASE PaidInFull(ref) /\ Fundable
      BY <2>20, <3>1, <3>2, <3>3, <3>4, <3>5, WriteOrderType DEF ChargeSuccess, TypeOK
    <3>6. CASE ~(PaidInFull(ref) /\ Fundable)
      BY <2>20, <3>1, <3>6 DEF ChargeSuccess, TypeOK
    <3> QED
      BY <3>5, <3>6
  <2>21. ASSUME NEW r \in Reqs, FailWrite(r) PROVE TypeOK'
    <3>1. req[r].arg \in PaymentRefs
      BY <2>21 DEF FailWrite, TypeOK, RequestType
    <3> QED
      BY <2>21, <3>1, GotoType, IdleType DEF FailWrite, Finish, TypeOK, PaymentStatus
  <2>22. ASSUME NEW r \in Reqs, RaiseCommit(r) PROVE TypeOK'
    <3>1. req[r].fresh \in BOOLEAN
      BY DEF TypeOK, RequestType
    <3>2. [order EXCEPT !.status = "DISPUTED", !.escrow = "DISPUTED"] \in OrderRow
      BY DEF TypeOK, OrderRow, OrderStatus, EscrowStatus
    <3>3. CASE dispute = "NONE"
      BY <2>22, <3>1, <3>2, <3>3, IdleType, WriteOrderType DEF RaiseCommit, TypeOK, DisputeStatus
    <3>4. CASE dispute # "NONE"
      BY <2>22, <3>4, IdleType, GotoType DEF RaiseCommit, Finish, TypeOK
    <3> QED
      BY <3>3, <3>4
  <2>23. ASSUME NEW r \in Reqs, NEW resolution \in Resolution, ResolveDispute(r, resolution) PROVE TypeOK'
    <3>1. Request("resolveCommit", resolution, TRUE) \in RequestType
      BY DEF Request, RequestType
    <3> QED
      BY <2>23, <3>1, GotoType DEF ResolveDispute, Checked, TypeOK
  <2>24. ASSUME NEW r \in Reqs, ResolveCommit(r) PROVE TypeOK'
    <3>1. req[r].fresh \in BOOLEAN /\ req[r].arg \in Resolution
      BY <2>24 DEF ResolveCommit, TypeOK, RequestType
    <3>2. Settled(req[r].arg) \in OrderRow
      BY DEF Settled, TypeOK, OrderRow, OrderStatus, EscrowStatus
    <3>3. CASE dispute = "OPEN"
      BY <2>24, <3>1, <3>2, <3>3, IdleType, WriteOrderType DEF ResolveCommit, TypeOK, DisputeStatus
    <3>4. CASE dispute # "OPEN"
      BY <2>24, <3>4, IdleType, GotoType DEF ResolveCommit, Finish, TypeOK
    <3> QED
      BY <3>3, <3>4
  <2>25. ASSUME NEW r \in Reqs, Abort(r) PROVE TypeOK'
    <3>1. job' \in [state : JobState, attempts : 0..MaxAttempts]
      BY <2>25, JobTypes DEF Abort, TypeOK
    <3> QED
      BY <2>25, <3>1, IdleType, GotoType DEF Abort, Finish, TypeOK
  <2>26. CASE UNCHANGED vars
    BY <2>26 DEF vars, TypeOK
  <2>27. Clients \subseteq Reqs
    BY DEF Reqs
  <2> QED
    BY <2>1, <2>2, <2>3, <2>4, <2>5, <2>6, <2>7, <2>8, <2>9, <2>10, <2>11, <2>12, <2>13, <2>14,
       <2>15, <2>16, <2>17, <2>18, <2>19, <2>20, <2>21, <2>22, <2>23, <2>24, <2>25, <2>26, <2>27
    DEF Next, Steps, Arise, Start, Continue, Proceed
<1> QED
  BY <1>1, <1>2, PTL DEF Spec

-----------------------------------------------------------------------------------
(* Which steps can disturb the order, its ledger or its dispute: the others only *)
(* read, move a request on, or touch the job, the charges or the records.        *)

Writer(r) ==
  \/ StatusWrite(r) \/ ConfirmWrite(r) \/ AssignWrite(r)
  \/ ReleaseCommit(r) \/ RefundCommit(r) \/ HoldCommit(r)
  \/ VerifyFix(r) \/ VerifyWrite(r) \/ (\E ref \in PaymentRefs : ChargeSuccess(r, ref))
  \/ RaiseCommit(r) \/ ResolveCommit(r)

LEMMA OnlyWritersWrite ==
  ASSUME [Next]_vars
  PROVE  UNCHANGED <<order, ledger, dispute>> \/ \E r \in Reqs : Writer(r)
<1>1. ASSUME NEW r \in Reqs, Start(r)
      PROVE  UNCHANGED <<order, ledger, dispute>> \/ Writer(r)
  BY <1>1 DEF Start, Writer, UpdateStatus, ConfirmByBuyer, AssignRider, AdminRelease, RefundFunds,
              AdminHold, VerifyByReference, ChargeFailed, RaiseDispute, ResolveDispute
<1>2. ASSUME NEW r \in Reqs, Continue(r)
      PROVE  UNCHANGED <<order, ledger, dispute>> \/ Writer(r)
  BY <1>2 DEF Continue, Proceed, Writer, ReleaseRead, Refused, ReleaseDone, RefundDone, HoldRead, ScheduleJob, FailWrite
<1>3. ASSUME NEW r \in Reqs, Abort(r)
      PROVE  UNCHANGED <<order, ledger, dispute>>
  BY <1>3 DEF Abort
<1>4. ASSUME NEW ref \in PaymentRefs, InitiatePayment(ref) \/ CustomerPays(ref)
      PROVE  UNCHANGED <<order, ledger, dispute>>
  BY <1>4 DEF InitiatePayment, CustomerPays
<1>5. JobFires \/ JobPruned \/ UNCHANGED vars => UNCHANGED <<order, ledger, dispute>>
  BY DEF JobFires, JobPruned, vars
<1> QED
  BY <1>1, <1>2, <1>3, <1>4, <1>5 DEF Next, Steps, Arise, Reqs

(* The escrow column, the ledger and the dispute account for each other.  Each   *)
(* conjunct is inductive on its own, given that a resolution is one of the two.  *)
Accounted == HoldingIsBacked /\ PayoutsAreBacked /\ SettlementHasACause

(* a row in the new ledger shows up under its type; a grown ledger loses none    *)
LEMMA Booked ==
  ASSUME NEW type, NEW key, Row(type, key) \in ledger'
  PROVE  RowsOf(type)' # {}
  BY DEF RowsOf, Row

LEMMA RowsStay ==
  ASSUME NEW type, ledger \subseteq ledger', RowsOf(type) # {}
  PROVE  RowsOf(type)' # {}
  BY DEF RowsOf

LEMMA AccountedStep ==
  ASSUME TypeOK, Accounted, [Next]_vars
  PROVE  Accounted'
<1> USE DEF Accounted, HoldingIsBacked, PayoutsAreBacked, SettlementHasACause, HoldExists
<1>1. CASE UNCHANGED <<order, ledger, dispute>>
  BY <1>1 DEF RowsOf
<1>2. ASSUME NEW r \in Reqs, Writer(r) PROVE Accounted'
  <2>1. CASE StatusWrite(r) \/ ConfirmWrite(r) \/ AssignWrite(r) \/ VerifyFix(r) \/ VerifyWrite(r)
    <3>1. order'.escrow = order.escrow /\ UNCHANGED <<ledger, dispute>>
      BY <2>1 DEF StatusWrite, ConfirmWrite, AssignWrite, VerifyFix, VerifyWrite, WriteOrder, TypeOK, OrderRow
    <3> QED
      BY <3>1 DEF RowsOf
  <2>2. CASE ReleaseCommit(r)
    <3>1. CASE UNCHANGED <<order, ledger, dispute>>
      BY <3>1 DEF RowsOf
    <3>2. CASE /\ HoldExists /\ order'.escrow = "RELEASED" /\ dispute' = dispute
               /\ \E n \in Stamps : ledger' = ledger \cup {Row("PLATFORM_FEE", n), Row("FULL_RELEASE", n)}
      BY <3>2, RowsStay, Booked
    <3> QED
      BY <2>2, <3>1, <3>2 DEF ReleaseCommit, Refused, WriteOrder, TypeOK, OrderRow
  <2>3. CASE RefundCommit(r)
    <3>1. CASE UNCHANGED <<order, ledger, dispute>>
      BY <3>1 DEF RowsOf
    <3>2. CASE /\ HoldExists /\ order'.escrow = "REFUNDED" /\ dispute' = dispute
               /\ \E n \in Stamps : ledger' = ledger \cup {Row("REFUND", n)}
      BY <3>2, RowsStay, Booked
    <3> QED
      BY <2>3, <3>1, <3>2 DEF RefundCommit, Refused, WriteOrder, TypeOK, OrderRow
  <2>4. CASE HoldCommit(r) \/ \E ref \in PaymentRefs : ChargeSuccess(r, ref)
    <3>1. CASE UNCHANGED <<order, ledger, dispute>>
      BY <3>1 DEF RowsOf
    <3>2. CASE /\ order'.escrow = "HOLDING" /\ dispute' = dispute
               /\ \E ref : ledger' = ledger \cup {Row("ESCROW_HOLD", ref)}
      BY <3>2, RowsStay, Booked
    <3> QED
      BY <2>4, <3>1, <3>2 DEF HoldCommit, ChargeSuccess, Refused, WriteOrder, TypeOK, OrderRow
  <2>5. CASE RaiseCommit(r)
    <3>1. \/ UNCHANGED <<order, ledger, dispute>>
          \/ order'.escrow = "DISPUTED" /\ ledger' = ledger
      BY <2>5 DEF RaiseCommit, WriteOrder, TypeOK, OrderRow
    <3> QED
      BY <3>1 DEF RowsOf
  <2>6. CASE ResolveCommit(r)
    <3>1. req[r].arg \in Resolution
      BY <2>6 DEF ResolveCommit, TypeOK, RequestType
    <3>2. \/ UNCHANGED <<order, ledger, dispute>>
          \/ /\ ledger' = ledger
             /\ \/ order'.escrow = "REFUNDED" /\ dispute' = "RESOLVED_FOR_BUYER"
                \/ order'.escrow = "RELEASED" /\ dispute' = "RESOLVED_FOR_SELLER"
      BY <2>6, <3>1 DEF ResolveCommit, Settled, Resolution, WriteOrder, TypeOK, OrderRow
    <3> QED
      BY <3>2 DEF RowsOf
  <2> QED
    BY <1>2, <2>1, <2>2, <2>3, <2>4, <2>5, <2>6 DEF Writer
<1> QED
  BY <1>1, <1>2, OnlyWritersWrite

LEMMA AccountedAlways == Spec => []Accounted
<1>1. Init => Accounted
  BY DEF Init, NewOrder, Accounted, HoldingIsBacked, PayoutsAreBacked, SettlementHasACause, HoldExists, RowsOf
<1>2. TypeOK /\ Accounted /\ [Next]_vars => Accounted'
  BY AccountedStep
<1> QED
  BY <1>1, <1>2, TypeCorrect, PTL DEF Spec

(* HOLDING means there is a hold row and PENDING that there is none, although    *)
(* polling and the plain updates write the status column alone.                  *)
THEOREM HoldingBacked == Spec => []HoldingIsBacked
  BY AccountedAlways, PTL DEF Accounted

(* no fee, release or refund row without a hold                                  *)
THEOREM PayoutsBacked == Spec => []PayoutsAreBacked
  BY AccountedAlways, PTL DEF Accounted

(* RELEASED and REFUNDED come from a payout row or from a resolved dispute       *)
THEOREM SettlementCaused == Spec => []SettlementHasACause
  BY AccountedAlways, PTL DEF Accounted

-----------------------------------------------------------------------------------
(* Holds are fully paid.                                                         *)

(* a record is there before its charge, and a hold is only committed for a       *)
(* charge that was paid in full                                                  *)
HoldsComeFromCharges ==
  /\ \A ref \in PaymentRefs : payment[ref] = "NONE" => charge[ref] = "NONE"
  /\ \A r \in Reqs : (req[r].pc = "holdCommit" /\ req[r].arg \in PaymentRefs) => charge[req[r].arg] = "PAID"

LEMMA HoldsComeFromChargesStep ==
  ASSUME TypeOK, HoldsComeFromCharges, [Next]_vars
  PROVE  HoldsComeFromCharges'
<1> USE DEF HoldsComeFromCharges
<1>1. CASE UNCHANGED <<payment, charge, req>>
  BY <1>1
<1>2. ASSUME NEW ref \in PaymentRefs, InitiatePayment(ref) \/ CustomerPays(ref)
      PROVE  HoldsComeFromCharges'
  BY <1>2 DEF InitiatePayment, CustomerPays, TypeOK, PaymentStatus
<1>3. ASSUME UNCHANGED charge, \A ref \in PaymentRefs : payment'[ref] = "NONE" => payment[ref] = "NONE",
             \A q \in Reqs : req'[q].pc = "holdCommit" => \/ req[q].pc = "holdCommit" /\ req'[q].arg = req[q].arg
                                                         \/ AmountMatches(req'[q].arg)
      PROVE  HoldsComeFromCharges'
  BY <1>3 DEF AmountMatches
<1>4. ASSUME NEW r \in Reqs, Start(r)
      PROVE  HoldsComeFromCharges'
  <2>1. CASE \E ref \in ManualRefs : AdminHold(r, ref)
    BY <1>3, <2>1 DEF AdminHold, Holdable, Checked, Request, TypeOK
  <2>2. CASE \E ref \in PaymentRefs : ChargeSuccess(r, ref)
    BY <1>3, <2>2 DEF ChargeSuccess, WriteOrder, Request, TypeOK, RequestType
  <2>3. CASE \/ \E to \in OrderStatus, role \in ContextualRole : UpdateStatus(r, to, role)
             \/ ConfirmByBuyer(r) \/ AssignRider(r) \/ AdminRelease(r) \/ RefundFunds(r)
             \/ \E ref \in PaymentRefs : VerifyByReference(r, ref) \/ ChargeFailed(r, ref)
             \/ RaiseDispute(r) \/ \E resolution \in Resolution : ResolveDispute(r, resolution)
    BY <1>3, <2>3 DEF UpdateStatus, ConfirmByBuyer, AssignRider, AdminRelease, RefundFunds, VerifyByReference,
                      ChargeFailed, RaiseDispute, ResolveDispute, Goto, Checked, Request, TypeOK
  <2> QED
    BY <1>4, <2>1, <2>2, <2>3 DEF Start
<1>5. ASSUME NEW r \in Reqs, Continue(r)
      PROVE  HoldsComeFromCharges'
  <2>1. CASE HoldRead(r)
    BY <1>3, <2>1 DEF HoldRead, Holdable, Checked, Finish, Idle, Request, TypeOK
  <2>2. CASE StatusWrite(r) \/ ConfirmWrite(r) \/ AssignWrite(r) \/ VerifyFix(r)
    BY <1>3, <2>2 DEF StatusWrite, ConfirmWrite, AssignWrite, VerifyFix, WriteOrder, Idle, Request, TypeOK, RequestType
  <2>3. CASE ReleaseRead(r) \/ ReleaseDone(r) \/ RefundDone(r) \/ ScheduleJob(r)
    BY <1>3, <2>3 DEF ReleaseRead, ReleaseDone, RefundDone, ScheduleJob, Refused, Checked, Finish, Idle, Request, TypeOK
  <2>4. CASE ReleaseCommit(r) \/ RefundCommit(r) \/ HoldCommit(r)
    BY <1>3, <2>4 DEF ReleaseCommit, RefundCommit, HoldCommit, Refused, Finish, WriteOrder, Idle, Request, TypeOK, RequestType
  <2>5. CASE RaiseCommit(r) \/ ResolveCommit(r)
    BY <1>3, <2>5 DEF RaiseCommit, ResolveCommit, Finish, WriteOrder, Idle, Request, TypeOK, RequestType
  <2>6. CASE VerifyWrite(r) \/ FailWrite(r)
    BY <1>3, <2>6 DEF VerifyWrite, FailWrite, Finish, Idle, Request, TypeOK, RequestType
  <2> QED
    BY <1>5, <2>1, <2>2, <2>3, <2>4, <2>5, <2>6 DEF Continue, Proceed
<1>6. ASSUME NEW r \in Reqs, Abort(r)
      PROVE  HoldsComeFromCharges'
  BY <1>3, <1>6 DEF Abort, Finish, Idle, Request, TypeOK
<1>7. JobFires => HoldsComeFromCharges'
  BY <1>3 DEF JobFires, Goto, Request, TypeOK, Reqs
<1>8. JobPruned \/ UNCHANGED vars => UNCHANGED <<payment, charge, req>>
  BY DEF JobPruned, vars
<1> QED
  BY <1>1, <1>2, <1>4, <1>5, <1>6, <1>7, <1>8 DEF Next, Steps, Arise, Reqs

LEMMA HoldsAreFullyPaidStep ==
  ASSUME TypeOK, HoldsComeFromCharges, HoldsAreFullyPaid, [Next]_vars
  PROVE  HoldsAreFullyPaid'
<1> USE DEF HoldsAreFullyPaid, RowsOf
<1>1. CASE UNCHANGED <<ledger, charge>>
  BY <1>1
<1>2. ASSUME NEW ref \in PaymentRefs, InitiatePayment(ref) \/ CustomerPays(ref)
      PROVE  HoldsAreFullyPaid'
  BY <1>2 DEF InitiatePayment, CustomerPays, HoldsComeFromCharges, TypeOK
<1>3. ASSUME UNCHANGED charge, NEW key, ledger' = ledger \cup {Row("ESCROW_HOLD", key)},
             key \in PaymentRefs => charge[key] = "PAID"
      PROVE  HoldsAreFullyPaid'
  BY <1>3 DEF Row
<1>4. ASSUME UNCHANGED charge, NEW rows, ledger' = ledger \cup rows, \A row \in rows : row.type # "ESCROW_HOLD"
      PROVE  HoldsAreFullyPaid'
  BY <1>4
<1>5. ASSUME NEW r \in Reqs, Writer(r)
      PROVE  HoldsAreFullyPaid'
  <2>1. CASE StatusWrite(r) \/ ConfirmWrite(r) \/ AssignWrite(r) \/ VerifyFix(r) \/ VerifyWrite(r)
             \/ RaiseCommit(r) \/ ResolveCommit(r)
    BY <1>1, <2>1 DEF StatusWrite, ConfirmWrite, AssignWrite, VerifyFix, VerifyWrite, RaiseCommit, ResolveCommit
  <2>2. CASE ReleaseCommit(r)
    <3>1. CASE ~HoldExists
      BY <1>1, <2>2, <3>1 DEF ReleaseCommit, Refused
    <3>2. CASE HoldExists
      <4>1. PICK n \in Stamps : ledger' = ledger \cup {Row("PLATFORM_FEE", n), Row("FULL_RELEASE", n)}
        BY <2>2, <3>2 DEF ReleaseCommit
      <4> QED
        BY <1>4, <2>2, <3>2, <4>1 DEF ReleaseCommit, Row
    <3> QED
      BY <3>1, <3>2
  <2>3. CASE RefundCommit(r)
    <3>1. CASE ~HoldExists
      BY <1>1, <2>3, <3>1 DEF RefundCommit, Refused
    <3>2. CASE HoldExists
      <4>1. PICK n \in Stamps : ledger' = ledger \cup {Row("REFUND", n)}
        BY <2>3, <3>2 DEF RefundCommit
      <4> QED
        BY <1>4, <2>3, <3>2, <4>1 DEF RefundCommit, Row
    <3> QED
      BY <3>1, <3>2
  <2>4. CASE HoldCommit(r)
    BY <1>1, <1>3, <2>4 DEF HoldCommit, HoldsComeFromCharges, Refused
  <2>5. ASSUME NEW ref \in PaymentRefs, ChargeSuccess(r, ref) PROVE HoldsAreFullyPaid'
    BY <1>1, <1>3, <2>5 DEF ChargeSuccess, PaidInFull
  <2> QED
    BY <1>5, <2>1, <2>2, <2>3, <2>4, <2>5 DEF Writer
<1>6. \/ UNCHANGED <<ledger, charge>>
      \/ \E ref \in PaymentRefs : InitiatePayment(ref) \/ CustomerPays(ref)
      \/ \E r \in Reqs : Writer(r)
  <2>1. ASSUME NEW r \in Reqs, Start(r) \/ Continue(r) \/ Abort(r)
        PROVE  UNCHANGED charge
    BY <2>1 DEF Start, Continue, Proceed, Abort, UpdateStatus, ConfirmByBuyer, AssignRider, AdminRelease, RefundFunds,
                AdminHold, VerifyByReference, ChargeSuccess, ChargeFailed, RaiseDispute, ResolveDispute, StatusWrite,
                ConfirmWrite, AssignWrite, ReleaseRead, ReleaseCommit, ReleaseDone, RefundCommit, RefundDone,
                HoldRead, HoldCommit, ScheduleJob, VerifyFix, VerifyWrite, FailWrite, RaiseCommit,
                ResolveCommit, Refused
  <2>2. JobFires \/ JobPruned \/ UNCHANGED vars => UNCHANGED charge
    BY DEF JobFires, JobPruned, vars
  <2> QED
    BY <2>1, <2>2, OnlyWritersWrite DEF Next, Steps, Arise, Reqs
<1> QED
  BY <1>1, <1>2, <1>5, <1>6

(* A hold row stands for a charge over the full amount, whatever webhook and     *)
(* polling do in whatever order.                                                 *)
THEOREM HoldsFullyPaid == Spec => []HoldsAreFullyPaid
<1>1. Init => HoldsComeFromCharges /\ HoldsAreFullyPaid
  BY DEF Init, HoldsComeFromCharges, HoldsAreFullyPaid, RowsOf, Idle, Request
<1>2. TypeOK /\ HoldsComeFromCharges /\ HoldsAreFullyPaid /\ [Next]_vars
        => HoldsComeFromCharges' /\ HoldsAreFullyPaid'
  BY HoldsComeFromChargesStep, HoldsAreFullyPaidStep
<1> QED
  BY <1>1, <1>2, TypeCorrect, PTL DEF Spec

-----------------------------------------------------------------------------------
(* A dispute is decided once.                                                    *)

(* Only raise() and resolve() write the dispute, and both look at it in the      *)
(* statement that writes it.                                                     *)
THEOREM DisputeOnce == Spec => DisputeDecidedOnce
<1>1. [Next]_vars => (dispute \in Resolution => dispute' = dispute)
  <2> SUFFICES ASSUME [Next]_vars, dispute \in Resolution PROVE dispute' = dispute
    OBVIOUS
  <2>1. ASSUME NEW r \in Reqs, Writer(r) PROVE dispute' = dispute
    BY <2>1 DEF Resolution, Writer, StatusWrite, ConfirmWrite, AssignWrite, ReleaseCommit, RefundCommit, HoldCommit,
                VerifyFix, VerifyWrite, ChargeSuccess, RaiseCommit, ResolveCommit, Refused
  <2> QED
    BY <2>1, OnlyWritersWrite
<1> QED
  BY <1>1, PTL DEF Spec, DisputeDecidedOnce, vars

-----------------------------------------------------------------------------------
(* One hold, one release.  The theorem speaks of the runs in which no write has  *)
(* acted on an outdated reading; what makes it inductive is that then the checks *)
(* made at the reading still hold at the commit.                                 *)

(* What a handler has established about the order when it read it.               *)
ReadingHolds(q) ==
  /\ q.pc = "statusWrite" => /\ OnTable(order.status, q.arg)
                             /\ q.arg = "COMPLETED" => order.escrow # "HOLDING"
  /\ q.pc = "confirmWrite" => order.status = "PENDING_BUYER"
  /\ q.pc = "verifyFix" => order.status = "AWAITING_PAYMENT"
  /\ q.pc = "releaseCommit" => Releasable
  /\ q.pc = "refundCommit" => order.status = "DISPUTED" /\ order.escrow \notin {"REFUNDED", "RELEASED"}
  /\ q.pc = "holdCommit" => order.status = "AWAITING_PAYMENT" /\ ~HoldExists
  /\ q.pc = "raiseCommit" => order.status = "DELIVERED"
  /\ q.pc = "resolveCommit" => order.status = "DISPUTED"

(* It still holds at the commit, as long as nobody has written the order since.  *)
FreshChecksHold == \A r \in Reqs : req[r].fresh => ReadingHolds(req[r])

(* released funds never make the escrow releasable again *)
ReleasedStaysTerminal ==
  NoLostUpdate /\ RowsOf("FULL_RELEASE") # {} => order.escrow \in TERMINAL_ESCROW_STATUSES

OnceInv == FreshChecksHold /\ ReleasedStaysTerminal /\ HeldAndReleasedOnce

(* how a step can keep FreshChecksHold: no request is fresh after it, or order    *)
(* and ledger stay and a fresh commit step was there or has just been checked     *)
KeepsChecks ==
  \/ \A q \in Reqs : ~req'[q].fresh
  \/ /\ UNCHANGED <<order, ledger>>
     /\ \A q \in Reqs : req'[q].fresh => req'[q] = req[q] \/ ReadingHolds(req'[q])

LEMMA StartKeepsChecks ==
  ASSUME TypeOK, NEW r \in Reqs, Start(r)
  PROVE  KeepsChecks
<1> USE DEF KeepsChecks
<1>1. CASE \E ref \in ManualRefs : AdminHold(r, ref)
  BY <1>1 DEF AdminHold, Holdable, Checked, Request, ReadingHolds, TypeOK
<1>2. ASSUME NEW ref \in PaymentRefs, ChargeSuccess(r, ref)
      PROVE  KeepsChecks
  <2>1. CASE PaidInFull(ref) /\ Fundable
    BY <1>2, <2>1 DEF ChargeSuccess, WriteOrder, Request, TypeOK, RequestType
  <2>2. CASE ~(PaidInFull(ref) /\ Fundable)
    BY <1>2, <2>2 DEF ChargeSuccess
  <2> QED
    BY <2>1, <2>2
<1>3. ASSUME NEW to \in OrderStatus, NEW role \in ContextualRole, UpdateStatus(r, to, role)
      PROVE  KeepsChecks
  <2>1. OnTable(order.status, to)
    BY <1>3 DEF UpdateStatus, ValidTransition, OnTable
  <2> QED
    BY <1>3, <2>1 DEF UpdateStatus, Goto, Checked, Request, ReadingHolds, TypeOK
<1>4. CASE \/ ConfirmByBuyer(r) \/ AssignRider(r) \/ AdminRelease(r) \/ RefundFunds(r)
           \/ RaiseDispute(r) \/ \E resolution \in Resolution : ResolveDispute(r, resolution)
  BY <1>4 DEF ConfirmByBuyer, AssignRider, AdminRelease, RefundFunds, RaiseDispute, ResolveDispute,
              Goto, Checked, Request, ReadingHolds, TypeOK
<1>5. CASE \E ref \in PaymentRefs : VerifyByReference(r, ref) \/ ChargeFailed(r, ref)
  BY <1>5 DEF VerifyByReference, ChargeFailed, Goto, Checked, Request, ReadingHolds, TypeOK
<1> QED
  BY <1>1, <1>2, <1>3, <1>4, <1>5 DEF Start

LEMMA ContinueKeepsChecks ==
  ASSUME TypeOK, NEW r \in Reqs, Continue(r)
  PROVE  KeepsChecks
<1> USE DEF KeepsChecks
<1>1. CASE StatusWrite(r) \/ ConfirmWrite(r) \/ AssignWrite(r) \/ VerifyFix(r) \/ VerifyWrite(r)
  BY <1>1 DEF StatusWrite, ConfirmWrite, AssignWrite, VerifyFix, VerifyWrite, WriteOrder, Idle, Request,
              TypeOK, RequestType
<1>2. CASE ReleaseRead(r) \/ HoldRead(r)
  BY <1>2 DEF ReleaseRead, HoldRead, Holdable, Refused, Checked, Finish, Idle, Request, ReadingHolds, TypeOK
<1>3. CASE ReleaseDone(r) \/ RefundDone(r) \/ ScheduleJob(r) \/ FailWrite(r)
  BY <1>3 DEF ReleaseDone, RefundDone, ScheduleJob, FailWrite, Finish, Idle, Request, TypeOK
<1>4. CASE ReleaseCommit(r) \/ RefundCommit(r) \/ HoldCommit(r)
  BY <1>4 DEF ReleaseCommit, RefundCommit, HoldCommit, WriteOrder, Refused, Finish, Idle, Request,
              TypeOK, RequestType
<1>5. CASE RaiseCommit(r) \/ ResolveCommit(r)
  BY <1>5 DEF RaiseCommit, ResolveCommit, WriteOrder, Finish, Idle, Request, TypeOK, RequestType
<1> QED
  BY <1>1, <1>2, <1>3, <1>4, <1>5 DEF Continue, Proceed

LEMMA FreshChecksStep ==
  ASSUME TypeOK, FreshChecksHold, [Next]_vars
  PROVE  FreshChecksHold'
<1>1. KeepsChecks
  <2>1. ASSUME NEW r \in Reqs, Abort(r) PROVE KeepsChecks
    BY <2>1 DEF KeepsChecks, Abort, Finish, Idle, Request, TypeOK
  <2>2. JobFires => KeepsChecks
    BY DEF KeepsChecks, JobFires, Goto, Request, TypeOK
  <2>3. JobPruned \/ UNCHANGED vars => KeepsChecks
    BY DEF KeepsChecks, JobPruned, vars
  <2>4. ASSUME NEW ref \in PaymentRefs, InitiatePayment(ref) \/ CustomerPays(ref) PROVE KeepsChecks
    BY <2>4 DEF KeepsChecks, InitiatePayment, CustomerPays
  <2> QED
    BY <2>1, <2>2, <2>3, <2>4, StartKeepsChecks, ContinueKeepsChecks DEF Next, Steps, Arise, Reqs
<1> QED
  BY <1>1 DEF KeepsChecks, FreshChecksHold, ReadingHolds, Releasable, HoldExists, RowsOf

(* the rows of a type after one row has been added                               *)
LEMMA RowAdded ==
  ASSUME NEW type, NEW key, ledger' = ledger \cup {Row(type, key)}
  PROVE  /\ RowsOf(type)' = RowsOf(type) \cup {Row(type, key)}
         /\ \A other : (other # type) => (RowsOf(other)' = RowsOf(other))
  BY DEF RowsOf, Row

LEMMA ReleaseAdded ==
  ASSUME NEW n, ledger' = ledger \cup {Row("PLATFORM_FEE", n), Row("FULL_RELEASE", n)}
  PROVE  /\ RowsOf("FULL_RELEASE")' = RowsOf("FULL_RELEASE") \cup {Row("FULL_RELEASE", n)}
         /\ RowsOf("ESCROW_HOLD")' = RowsOf("ESCROW_HOLD")
         /\ RowsOf("REFUND")' = RowsOf("REFUND")
  BY DEF RowsOf, Row

(* nor does any other step leave an anomaly behind *)
LEMMA OnlyWritersLeaveAnomalies ==
  ASSUME [Next]_vars
  PROVE  (\E r \in Reqs : Writer(r)) \/ UNCHANGED <<order, ledger, dispute, anomaly>>
<1>1. ASSUME NEW r \in Reqs, Start(r) \/ Continue(r) \/ Abort(r)
      PROVE  Writer(r) \/ UNCHANGED anomaly
  BY <1>1 DEF Writer, Start, Continue, Proceed, Abort, UpdateStatus, ConfirmByBuyer, AssignRider, AdminRelease, RefundFunds,
              AdminHold, VerifyByReference, ChargeFailed, RaiseDispute, ResolveDispute,
              ReleaseRead, ReleaseDone, RefundDone, HoldRead, ScheduleJob, FailWrite, Refused
<1>2. ASSUME NEW ref \in PaymentRefs, InitiatePayment(ref) \/ CustomerPays(ref)
      PROVE  UNCHANGED anomaly
  BY <1>2 DEF InitiatePayment, CustomerPays
<1>3. JobFires \/ JobPruned \/ UNCHANGED vars => UNCHANGED anomaly
  BY DEF JobFires, JobPruned, vars
<1> QED
  BY <1>1, <1>2, <1>3, OnlyWritersWrite DEF Next, Steps, Arise, Reqs

(* A write that was up to date, or any step without a write, keeps the two       *)
(* promises; a write that was not leaves a "lostUpdate" and ends them.           *)
LEMMA OnceStep ==
  ASSUME TypeOK, PayoutsAreBacked, OnceInv, [Next]_vars
  PROVE  ReleasedStaysTerminal' /\ HeldAndReleasedOnce'
<1> DEFINE Released == RowsOf("FULL_RELEASE")
           Held == RowsOf("ESCROW_HOLD")
<1> USE DEF OnceInv, ReleasedStaysTerminal, HeldAndReleasedOnce, AtMostOne, NoLostUpdate
<1>1. ASSUME UNCHANGED <<Released, Held>>, NoLostUpdate' => NoLostUpdate,
             order'.escrow = order.escrow \/ order'.escrow \in TERMINAL_ESCROW_STATUSES
      PROVE  ReleasedStaysTerminal' /\ HeldAndReleasedOnce'
  BY <1>1
<1>2. ASSUME NEW r \in Reqs, Writer(r)
      PROVE  ReleasedStaysTerminal' /\ HeldAndReleasedOnce'
  <2>1. CASE StatusWrite(r) \/ ConfirmWrite(r) \/ AssignWrite(r) \/ VerifyFix(r) \/ VerifyWrite(r)
    <3>1. order'.escrow = order.escrow /\ ledger' = ledger /\ (NoLostUpdate' => NoLostUpdate)
      BY <2>1 DEF StatusWrite, ConfirmWrite, AssignWrite, VerifyFix, VerifyWrite, WriteOrder, TypeOK, OrderRow
    <3> QED
      BY <1>1, <3>1 DEF RowsOf
  <2>2. CASE RaiseCommit(r) \/ ResolveCommit(r)
    <3>1. /\ order'.escrow = order.escrow \/ order'.escrow \in TERMINAL_ESCROW_STATUSES
          /\ ledger' = ledger /\ (NoLostUpdate' => NoLostUpdate)
      BY <2>2 DEF RaiseCommit, ResolveCommit, Settled, WriteOrder, TypeOK, OrderRow, TERMINAL_ESCROW_STATUSES
    <3> QED
      BY <1>1, <3>1 DEF RowsOf
  <2>3. CASE (ReleaseCommit(r) \/ RefundCommit(r) \/ HoldCommit(r)) /\ UNCHANGED <<order, ledger, anomaly>>
    BY <1>1, <2>3 DEF RowsOf
  <2>4. CASE ReleaseCommit(r) /\ HoldExists
    <3>1. PICK n \in Stamps : ledger' = ledger \cup {Row("PLATFORM_FEE", n), Row("FULL_RELEASE", n)}
      BY <2>4 DEF ReleaseCommit
    <3>2. Released' = Released \cup {Row("FULL_RELEASE", n)} /\ Held' = Held
      BY <3>1, ReleaseAdded
    <3>3. order'.escrow = "RELEASED" /\ (NoLostUpdate' => NoLostUpdate /\ req[r].fresh)
      BY <2>4 DEF ReleaseCommit, WriteOrder, TypeOK, OrderRow
    <3>4. NoLostUpdate' => Released = {}
      BY <2>4, <3>3 DEF ReleaseCommit, FreshChecksHold, ReadingHolds, Releasable, TERMINAL_ESCROW_STATUSES
    <3> QED
      BY <3>2, <3>3, <3>4 DEF TERMINAL_ESCROW_STATUSES
  <2>5. CASE RefundCommit(r) /\ HoldExists
    <3>1. PICK n \in Stamps : ledger' = ledger \cup {Row("REFUND", n)}
      BY <2>5 DEF RefundCommit
    <3>2. Released' = Released /\ Held' = Held
      BY <3>1, RowAdded
    <3>3. order'.escrow = "REFUNDED" /\ (NoLostUpdate' => NoLostUpdate)
      BY <2>5 DEF RefundCommit, WriteOrder, TypeOK, OrderRow
    <3> QED
      BY <1>1, <3>2, <3>3 DEF TERMINAL_ESCROW_STATUSES
  <2>6. ASSUME NEW key, ledger' = ledger \cup {Row("ESCROW_HOLD", key)},
               NoLostUpdate' => NoLostUpdate /\ ~HoldExists
        PROVE  ReleasedStaysTerminal' /\ HeldAndReleasedOnce'
    <3>1. Released' = Released /\ Held' = Held \cup {Row("ESCROW_HOLD", key)}
      BY <2>6, RowAdded
    <3>2. ~HoldExists => Released = {} /\ Held = {}
      BY DEF PayoutsAreBacked, PayoutType, HoldExists, RowsOf
    <3> QED
      BY <2>6, <3>1, <3>2
  <2>7. CASE HoldCommit(r) /\ ~UNCHANGED <<order, ledger, anomaly>>
    <3>1. ledger' = ledger \cup {Row("ESCROW_HOLD", req[r].arg)}
      BY <2>7 DEF HoldCommit, Refused
    <3>2. NoLostUpdate' => NoLostUpdate /\ req[r].fresh
      BY <2>7 DEF HoldCommit, Refused, WriteOrder
    <3>3. req[r].fresh => ~HoldExists
      BY <2>7 DEF HoldCommit, FreshChecksHold, ReadingHolds
    <3> QED
      BY <2>6, <3>1, <3>2, <3>3
  <2>8. ASSUME NEW ref \in PaymentRefs, ChargeSuccess(r, ref)
        PROVE  ReleasedStaysTerminal' /\ HeldAndReleasedOnce'
    <3>1. CASE PaidInFull(ref) /\ Fundable
      BY <2>6, <2>8, <3>1 DEF ChargeSuccess, Fundable, WriteOrder, HoldExists
    <3>2. CASE ~(PaidInFull(ref) /\ Fundable)
      BY <1>1, <2>8, <3>2 DEF ChargeSuccess, RowsOf
    <3> QED
      BY <3>1, <3>2
  <2> QED
    BY <1>2, <2>1, <2>2, <2>3, <2>4, <2>5, <2>7, <2>8 DEF Writer, ReleaseCommit, RefundCommit, Refused
<1>3. CASE UNCHANGED <<order, ledger>> /\ (NoLostUpdate' => NoLostUpdate)
  BY <1>1, <1>3 DEF RowsOf
<1> QED
  BY <1>2, <1>3, OnlyWritersLeaveAnomalies

(* At most one hold and at most one release, over any number of charges,         *)
(* requests, retries of the job and re-deliveries of the webhook, as long as no  *)
(* write acted on an outdated reading.                                           *)
THEOREM HeldReleasedOnce == Spec => []HeldAndReleasedOnce
<1>1. Init => OnceInv
  BY DEF Init, OnceInv, FreshChecksHold, ReleasedStaysTerminal, HeldAndReleasedOnce, AtMostOne, RowsOf, Idle, Request
<1>2. TypeOK /\ PayoutsAreBacked /\ OnceInv /\ [Next]_vars => OnceInv'
  BY OnceStep, FreshChecksStep DEF OnceInv
<1>3. OnceInv => HeldAndReleasedOnce
  BY DEF OnceInv
<1> QED
  BY <1>1, <1>2, <1>3, TypeCorrect, PayoutsBacked, PTL DEF Spec

-----------------------------------------------------------------------------------
(* EaseWaybill implements Custody: as long as no write acts on an outdated       *)
(* reading, the order column, the escrow column, the ledger and the dispute move *)
(* in step, for any number of requests, charges, retries and timestamps.         *)

(* the statuses of an order whose money is held *)
HoldingStatus == {"PAID", "SHIPPED", "IN_TRANSIT", "DELIVERED", "DISPUTED", "REFUNDED"}

InStep ==
  /\ order.escrow = "HOLDING"  => order.status \in HoldingStatus
  /\ order.escrow = "RELEASED" => order.status = "COMPLETED"
  /\ order.escrow = "REFUNDED" => order.status = "REFUNDED"
  /\ order.escrow = "DISPUTED" => order.status \in {"DISPUTED", "COMPLETED", "REFUNDED"}
  /\ order.escrow = "DISPUTED" => dispute = "OPEN"
  /\ dispute = "OPEN" => order.escrow \in {"DISPUTED", "REFUNDED"}
  /\ dispute = "RESOLVED_FOR_SELLER" => order.escrow = "RELEASED"
  /\ dispute = "RESOLVED_FOR_BUYER" => order.escrow = "REFUNDED"

(* what has been booked shows in the column, and is booked once *)
BookedOnce ==
  /\ RowsOf("FULL_RELEASE") # {} => order.escrow = "RELEASED"
  /\ RowsOf("REFUND") # {} => order.escrow = "REFUNDED"
  /\ AtMostOne("REFUND")

(* the inductive invariant: FreshChecksHold says what a handler still knows when *)
(* it writes, Accounted relates columns and ledger whatever happens              *)
CustodyInv == Undisturbed => InStep /\ BookedOnce

(* One step of the order and its money: the abstract step, or none.              *)
CustodyStep == [Money!CustodyNext]_(Money!custodyVars)

-----------------------------------------------------------------------------------
(* what the table allows for settled, held and disputed orders *)
LEMMA TableFacts ==
  ASSUME NEW a \in OrderStatus, NEW b \in OrderStatus, OnTable(a, b)
  PROVE  /\ a \notin {"COMPLETED", "REFUNDED", "CANCELLED"}
         /\ a \in HoldingStatus => b \in HoldingStatus \cup {"COMPLETED"}
         /\ a = "DISPUTED" => b \in {"COMPLETED", "REFUNDED"}
  BY DEF OnTable, ORDER_STATE_MACHINE, Edge, HoldingStatus

(* a step that leaves nothing behind was undisturbed before, and its write up to *)
(* date                                                                          *)
LEMMA UpToDate ==
  ASSUME NEW r \in Reqs, Undisturbed'
  PROVE  /\ \A row, next : WriteOrder(r, row, next, req[r].fresh) => Undisturbed /\ req[r].fresh
         /\ VerifyWrite(r) => Undisturbed /\ order.status = "AWAITING_PAYMENT"
  BY DEF WriteOrder, VerifyWrite, Undisturbed

LEMMA FreshWrites ==
  ASSUME NEW r \in Reqs, Undisturbed'
  PROVE  /\ StatusWrite(r) \/ ConfirmWrite(r) \/ AssignWrite(r) \/ VerifyFix(r) => req[r].fresh
         /\ (ReleaseCommit(r) \/ RefundCommit(r)) /\ HoldExists => req[r].fresh
         /\ HoldCommit(r) \/ RaiseCommit(r) \/ ResolveCommit(r) => UNCHANGED order \/ req[r].fresh
  BY UpToDate DEF StatusWrite, ConfirmWrite, AssignWrite, VerifyFix, ReleaseCommit, RefundCommit, HoldCommit,
                  RaiseCommit, ResolveCommit, Refused

(* what has been left behind stays *)
LEMMA AnomalyStays ==
  ASSUME [Next]_vars
  PROVE  anomaly \subseteq anomaly'
<1>1. ASSUME NEW r \in Reqs, Writer(r)
      PROVE  anomaly \subseteq anomaly'
  BY <1>1 DEF Writer, StatusWrite, ConfirmWrite, AssignWrite, ReleaseCommit, RefundCommit, HoldCommit,
              VerifyFix, VerifyWrite, ChargeSuccess, RaiseCommit, ResolveCommit, WriteOrder, Refused
<1> QED
  BY <1>1, OnlyWritersLeaveAnomalies

(* Steps that write the status column alone: updateStatus, confirmByBuyer,       *)
(* assignRider and the two writes of polling.                                    *)
LEMMA StatusSteps ==
  ASSUME TypeOK, FreshChecksHold, CustodyInv, Undisturbed', NEW r \in Reqs,
         StatusWrite(r) \/ ConfirmWrite(r) \/ AssignWrite(r) \/ VerifyFix(r) \/ VerifyWrite(r)
  PROVE  /\ Undisturbed /\ InStep'
         /\ order'.escrow = order.escrow /\ UNCHANGED <<ledger, dispute>>
<1> USE DEF TypeOK, OrderRow
<1>1. order'.escrow = order.escrow /\ UNCHANGED <<ledger, dispute>>
  BY DEF StatusWrite, ConfirmWrite, AssignWrite, VerifyFix, VerifyWrite, WriteOrder
<1>2. Undisturbed /\ (req[r].fresh \/ VerifyWrite(r))
  BY UpToDate DEF StatusWrite, ConfirmWrite, AssignWrite, VerifyFix
<1>3. InStep
  BY <1>2 DEF CustodyInv
<1>4. CASE StatusWrite(r)
  <2>1. /\ order'.status = req[r].arg /\ req[r].arg \in OrderStatus
        /\ OnTable(order.status, req[r].arg) /\ (req[r].arg = "COMPLETED" => order.escrow # "HOLDING")
    BY <1>4, <1>2 DEF StatusWrite, WriteOrder, FreshChecksHold, ReadingHolds, RequestType, VerifyWrite
  <2> QED
    BY <1>1, <1>2, <1>3, <2>1, TableFacts DEF InStep, HoldingStatus
<1>5. CASE ConfirmWrite(r)
  <2>1. order.status = "PENDING_BUYER"
    BY <1>5, <1>2 DEF ConfirmWrite, FreshChecksHold, ReadingHolds, VerifyWrite
  <2> QED
    BY <1>1, <1>2, <1>3, <2>1 DEF InStep, HoldingStatus
<1>6. CASE AssignWrite(r)
  <2>1. order'.status = order.status
    BY <1>6 DEF AssignWrite, WriteOrder
  <2> QED
    BY <1>1, <1>2, <1>3, <2>1 DEF InStep
<1>7. CASE VerifyFix(r) \/ VerifyWrite(r)
  <2>1. order.status = "AWAITING_PAYMENT"
    BY <1>7, <1>2, UpToDate DEF VerifyFix, FreshChecksHold, ReadingHolds
  <2> QED
    BY <1>1, <1>2, <1>3, <2>1 DEF InStep, HoldingStatus
<1> QED
  BY <1>4, <1>5, <1>6, <1>7

(* releaseFunds commits: the funds were held, and are booked to the seller       *)
LEMMA ReleaseStep ==
  ASSUME TypeOK, FreshChecksHold, Accounted, CustodyInv, Undisturbed', NEW r \in Reqs,
         ReleaseCommit(r), HoldExists
  PROVE  InStep' /\ BookedOnce' /\ Money!PayOut
<1> USE DEF TypeOK, OrderRow
<1>1. Undisturbed /\ req[r].fresh
  BY UpToDate DEF ReleaseCommit
<1>2. InStep /\ BookedOnce
  BY <1>1 DEF CustodyInv
<1>3. Releasable
  BY <1>1 DEF ReleaseCommit, FreshChecksHold, ReadingHolds
<1>4. order.escrow = "HOLDING"
  BY <1>3 DEF Releasable, Accounted, HoldingIsBacked, EscrowStatus
<1>5. order'.status = "COMPLETED" /\ order'.escrow = "RELEASED" /\ dispute' = dispute
  BY DEF ReleaseCommit, WriteOrder
<1>6. PICK n \in Stamps : ledger' = ledger \cup {Row("PLATFORM_FEE", n), Row("FULL_RELEASE", n)}
  BY DEF ReleaseCommit
<1>7. RowsOf("FULL_RELEASE")' # {} /\ RowsOf("REFUND")' = RowsOf("REFUND")
  BY <1>6, ReleaseAdded
<1>8. RowsOf("FULL_RELEASE") = {} /\ RowsOf("REFUND") = {}
  BY <1>2, <1>4 DEF BookedOnce
<1>9. InStep' /\ BookedOnce'
  BY <1>2, <1>4, <1>5, <1>7, <1>8 DEF InStep, BookedOnce, AtMostOne
<1>10. Money!PayOut
  BY <1>1, <1>4, <1>5, <1>7, <1>8 DEF Money!PayOut, Funds, Column
<1> QED
  BY <1>9, <1>10

(* refundFunds commits: the funds go back, once *)
LEMMA RefundStep ==
  ASSUME TypeOK, FreshChecksHold, Accounted, CustodyInv, Undisturbed', NEW r \in Reqs,
         RefundCommit(r), HoldExists
  PROVE  InStep' /\ BookedOnce' /\ Money!PayBack
<1> USE DEF TypeOK, OrderRow
<1>1. Undisturbed /\ req[r].fresh
  BY UpToDate DEF RefundCommit
<1>2. InStep /\ BookedOnce
  BY <1>1 DEF CustodyInv
<1>3. order.status = "DISPUTED" /\ order.escrow \notin {"REFUNDED", "RELEASED"}
  BY <1>1 DEF RefundCommit, FreshChecksHold, ReadingHolds
<1>4. order.escrow \in {"HOLDING", "DISPUTED"}
  BY <1>3 DEF Accounted, HoldingIsBacked, EscrowStatus
<1>5. order'.status = "REFUNDED" /\ order'.escrow = "REFUNDED" /\ dispute' = dispute
  BY DEF RefundCommit, WriteOrder
<1>6. PICK n \in Stamps : ledger' = ledger \cup {Row("REFUND", n)}
  BY DEF RefundCommit
<1>7. /\ RowsOf("REFUND")' = RowsOf("REFUND") \cup {Row("REFUND", n)}
      /\ RowsOf("FULL_RELEASE")' = RowsOf("FULL_RELEASE")
  BY <1>6, RowAdded
<1>8. RowsOf("FULL_RELEASE") = {} /\ RowsOf("REFUND") = {}
  BY <1>2, <1>4 DEF BookedOnce
<1>9. InStep' /\ BookedOnce'
  BY <1>2, <1>4, <1>5, <1>7, <1>8 DEF InStep, BookedOnce, AtMostOne
<1>10. Money!PayBack
  BY <1>1, <1>4, <1>5, <1>7, <1>8 DEF Money!PayBack, Funds, Column
<1> QED
  BY <1>9, <1>10

(* the hold of holdFunds and of the webhook: an order without money takes it in  *)
LEMMA HoldStep ==
  ASSUME TypeOK, Accounted, CustodyInv, Undisturbed, Undisturbed', NEW key,
         ledger' = ledger \cup {Row("ESCROW_HOLD", key)}, ~HoldExists,
         order.status \in {"AWAITING_PAYMENT", "PAID"}, order.escrow \notin {"RELEASED", "REFUNDED", "DISPUTED"},
         order'.status = "PAID", order'.escrow = "HOLDING", dispute' = dispute
  PROVE  InStep' /\ BookedOnce' /\ Money!TakeIn
<1> USE DEF TypeOK, OrderRow
<1>1. InStep /\ BookedOnce
  BY DEF CustodyInv
<1>2. order.escrow = "PENDING"
  BY DEF Accounted, HoldingIsBacked, EscrowStatus
<1>3. /\ RowsOf("ESCROW_HOLD")' = RowsOf("ESCROW_HOLD") \cup {Row("ESCROW_HOLD", key)}
      /\ RowsOf("REFUND")' = RowsOf("REFUND")
      /\ RowsOf("FULL_RELEASE")' = RowsOf("FULL_RELEASE")
  BY RowAdded
<1>4. RowsOf("FULL_RELEASE") = {} /\ RowsOf("REFUND") = {}
  BY <1>1, <1>2 DEF BookedOnce
<1>5. InStep' /\ BookedOnce'
  BY <1>1, <1>2, <1>3, <1>4 DEF InStep, BookedOnce, AtMostOne, HoldingStatus
<1>6. HoldExists'
  BY <1>3 DEF HoldExists
<1>7. Money!TakeIn
  BY <1>2, <1>3, <1>4, <1>6 DEF Money!TakeIn, Funds, Column
<1> QED
  BY <1>5, <1>7

(* raise() and resolve(): the column moves, the funds stay *)
LEMMA DisputeStep ==
  ASSUME TypeOK, FreshChecksHold, Accounted, CustodyInv, Undisturbed', NEW r \in Reqs,
         RaiseCommit(r) \/ ResolveCommit(r), ~UNCHANGED <<order, dispute>>
  PROVE  InStep' /\ BookedOnce' /\ (Money!Freeze \/ Money!Verdict)
<1> USE DEF TypeOK, OrderRow
<1>1. Undisturbed /\ req[r].fresh /\ ledger' = ledger
  BY UpToDate DEF RaiseCommit, ResolveCommit
<1>2. InStep /\ BookedOnce
  BY <1>1 DEF CustodyInv
<1>3. /\ RowsOf("FULL_RELEASE")' = RowsOf("FULL_RELEASE") /\ RowsOf("REFUND")' = RowsOf("REFUND")
      /\ RowsOf("ESCROW_HOLD")' = RowsOf("ESCROW_HOLD")
  BY <1>1 DEF RowsOf
<1>4. Funds' = Funds /\ Column = order.escrow /\ Column' = order'.escrow
  BY <1>1, <1>3 DEF Funds, Column, HoldExists
<1>5. CASE RaiseCommit(r)
  <2>1. order.status = "DELIVERED" /\ order'.status = "DISPUTED" /\ order'.escrow = "DISPUTED"
    BY <1>1, <1>5 DEF RaiseCommit, WriteOrder, FreshChecksHold, ReadingHolds
  <2>2. order.escrow \in {"PENDING", "HOLDING"}
    BY <1>2, <2>1 DEF InStep, EscrowStatus
  <2>3. dispute' = "OPEN"
    BY <1>5 DEF RaiseCommit
  <2>4. InStep'
    BY <2>1, <2>3 DEF InStep
  <2>5. BookedOnce'
    BY <1>2, <1>3, <2>2 DEF BookedOnce, AtMostOne
  <2> QED
    BY <1>4, <2>1, <2>2, <2>4, <2>5 DEF Money!Freeze
<1>6. CASE ResolveCommit(r)
  <2>1. /\ order.status = "DISPUTED" /\ dispute = "OPEN" /\ dispute' = req[r].arg
        /\ order' = Settled(req[r].arg)
    BY <1>1, <1>6 DEF ResolveCommit, WriteOrder, FreshChecksHold, ReadingHolds
  <2>2. order.escrow = "DISPUTED"
    BY <1>2, <2>1 DEF InStep
  <2>3. req[r].arg \in Resolution
    BY <1>6 DEF ResolveCommit, RequestType
  <2>4. \/ /\ dispute' = "RESOLVED_FOR_BUYER"
           /\ order'.status = "REFUNDED" /\ order'.escrow = "REFUNDED"
        \/ /\ dispute' = "RESOLVED_FOR_SELLER"
           /\ order'.status = "COMPLETED" /\ order'.escrow = "RELEASED"
    <3>1. CASE req[r].arg = "RESOLVED_FOR_BUYER"
      <4>1. order' = [order EXCEPT !.status = "REFUNDED", !.escrow = "REFUNDED"]
        BY <2>1, <3>1 DEF Settled
      <4> QED
        BY <2>1, <3>1, <4>1
    <3>2. CASE req[r].arg = "RESOLVED_FOR_SELLER"
      <4>1. order' = [order EXCEPT !.status = "COMPLETED", !.escrow = "RELEASED"]
        BY <2>1, <3>2 DEF Settled
      <4> QED
        BY <2>1, <3>2, <4>1
    <3> QED
      BY <2>3, <3>1, <3>2 DEF Resolution
  <2>5. InStep'
    BY <2>4 DEF InStep
  <2>6. BookedOnce'
    BY <1>2, <1>3, <2>2 DEF BookedOnce, AtMostOne
  <2> QED
    BY <1>4, <2>2, <2>4, <2>5, <2>6 DEF Money!Verdict
<1> QED
  BY <1>5, <1>6

(* A step that leaves nothing behind keeps the invariant and is one of Custody's. *)
LEMMA UndisturbedStep ==
  ASSUME TypeOK, FreshChecksHold, Accounted, CustodyInv, Undisturbed', [Next]_vars
  PROVE  CustodyInv' /\ CustodyStep
<1> USE DEF CustodyStep, Money!CustodyNext
<1>1. Undisturbed
  BY AnomalyStays DEF Undisturbed
<1>2. InStep /\ BookedOnce
  BY <1>1 DEF CustodyInv
<1>3. ASSUME order'.escrow = order.escrow, UNCHANGED ledger
      PROVE  BookedOnce' /\ UNCHANGED Money!custodyVars
  BY <1>1, <1>2, <1>3 DEF BookedOnce, AtMostOne, RowsOf, Funds, Column, HoldExists, Money!custodyVars
<1>4. CASE UNCHANGED <<order, ledger, dispute>>
  BY <1>2, <1>3, <1>4 DEF CustodyInv, InStep
<1>5. ASSUME NEW r \in Reqs, Writer(r)
      PROVE  CustodyInv' /\ CustodyStep
  <2>1. CASE StatusWrite(r) \/ ConfirmWrite(r) \/ AssignWrite(r) \/ VerifyFix(r) \/ VerifyWrite(r)
    BY <1>3, <2>1, StatusSteps DEF CustodyInv
  <2>2. CASE (ReleaseCommit(r) \/ RefundCommit(r)) /\ HoldExists
    BY <2>2, ReleaseStep, RefundStep DEF CustodyInv
  <2>3. CASE (ReleaseCommit(r) \/ RefundCommit(r)) /\ ~HoldExists
    BY <1>4, <2>3 DEF ReleaseCommit, RefundCommit, Refused
  <2>4. CASE HoldCommit(r)
    <3>1. CASE Refused(r)
      BY <1>4, <3>1 DEF Refused
    <3>2. CASE ~Refused(r)
      <4>1. /\ ledger' = ledger \cup {Row("ESCROW_HOLD", req[r].arg)} /\ dispute' = dispute
            /\ WriteOrder(r, [order EXCEPT !.status = "PAID", !.escrow = "HOLDING"],
                          Request("scheduleJob", "none", FALSE), req[r].fresh)
        BY <2>4, <3>2 DEF HoldCommit
      <4>2. req[r].fresh
        BY <4>1, UpToDate
      <4>3. order.status = "AWAITING_PAYMENT" /\ ~HoldExists
        BY <2>4, <4>2 DEF HoldCommit, FreshChecksHold, ReadingHolds
      <4>4. order.escrow \notin {"RELEASED", "REFUNDED", "DISPUTED"}
        BY <1>2, <4>3 DEF InStep
      <4>5. order'.status = "PAID" /\ order'.escrow = "HOLDING"
        BY <4>1 DEF WriteOrder, TypeOK, OrderRow
      <4> QED
        BY <1>1, <4>1, <4>3, <4>4, <4>5, HoldStep DEF CustodyInv
    <3> QED
      BY <3>1, <3>2
  <2>5. ASSUME NEW ref \in PaymentRefs, ChargeSuccess(r, ref)
        PROVE  CustodyInv' /\ CustodyStep
    <3>1. CASE PaidInFull(ref) /\ Fundable
      <4>1. /\ ledger' = ledger \cup {Row("ESCROW_HOLD", ref)} /\ dispute' = dispute
            /\ order'.status = "PAID" /\ order'.escrow = "HOLDING"
        BY <2>5, <3>1 DEF ChargeSuccess, WriteOrder, TypeOK, OrderRow
      <4> QED
        BY <1>1, <3>1, <4>1, HoldStep DEF CustodyInv, Fundable, HoldExists, TERMINAL_ESCROW_STATUSES
    <3>2. CASE ~(PaidInFull(ref) /\ Fundable)
      BY <1>4, <2>5, <3>2 DEF ChargeSuccess
    <3> QED
      BY <3>1, <3>2
  <2>6. CASE RaiseCommit(r) \/ ResolveCommit(r)
    BY <1>4, <2>6, DisputeStep DEF CustodyInv, RaiseCommit, ResolveCommit
  <2> QED
    BY <1>5, <2>1, <2>2, <2>3, <2>4, <2>5, <2>6 DEF Writer
<1> QED
  BY <1>4, <1>5, OnlyWritersWrite

(* Every step is a step of Custody or none.  Once an outdated write has come in, *)
(* Custody has gone astray with it.                                              *)
LEMMA CustodyStepLemma ==
  ASSUME TypeOK, FreshChecksHold, Accounted, CustodyInv, [Next]_vars
  PROVE  CustodyInv' /\ CustodyStep
<1>1. CASE Undisturbed'
  BY <1>1, UndisturbedStep
<1>2. CASE ~Undisturbed'
  <2>1. Funds' = "astray" /\ Column' = "astray"
    BY <1>2 DEF Funds, Column
  <2> QED
    BY <1>2, <2>1 DEF CustodyInv, CustodyStep, Money!CustodyNext, Money!GoAstray
<1> QED
  BY <1>1, <1>2

LEMMA CustodyAlways == Spec => [](FreshChecksHold /\ CustodyInv)
<1>1. Init => FreshChecksHold /\ CustodyInv
  BY DEF Init, NewOrder, FreshChecksHold, Idle, Request, CustodyInv, InStep, BookedOnce, AtMostOne, RowsOf
<1>2. TypeOK /\ Accounted /\ FreshChecksHold /\ CustodyInv /\ [Next]_vars
        => FreshChecksHold' /\ CustodyInv'
  BY FreshChecksStep, CustodyStepLemma
<1> QED
  BY <1>1, <1>2, TypeCorrect, AccountedAlways, PTL DEF Spec

(* EaseWaybill implements Custody: whatever the services and the worker do to    *)
(* each other, ledger and escrow column move along the abstract steps.           *)
THEOREM CustodyKept == Spec => KeepsCustody
<1>1. Init => Money!CustodyInit
  BY DEF Init, NewOrder, Money!CustodyInit, Funds, Column, Undisturbed, HoldExists, RowsOf
<1>2. TypeOK /\ Accounted /\ FreshChecksHold /\ CustodyInv /\ [Next]_vars
        => [Money!CustodyNext]_(Money!custodyVars)
  BY CustodyStepLemma DEF CustodyStep
<1> QED
  BY <1>1, <1>2, TypeCorrect, AccountedAlways, CustodyAlways, PTL DEF Spec, KeepsCustody, Money!CustodySpec

(* The held funds leave once, to the seller or back to the buyer, never both.    *)
THEOREM MovedOnce == Spec => []FundsMoveOnce
<1>1. CustodyInv /\ HeldAndReleasedOnce => FundsMoveOnce
  BY DEF CustodyInv, HeldAndReleasedOnce, BookedOnce, FundsMoveOnce, AtMostOne, NoLostUpdate, Undisturbed
<1> QED
  BY <1>1, CustodyAlways, HeldReleasedOnce, PTL

(* The escrow column is the one that the ledger and the dispute call for, and    *)
(* the status the one that goes with it, but for the orders a status written on  *)
(* its own leaves behind.                                                        *)
THEOREM ColumnsTellOneStory == Spec => []ColumnsAgree
<1>1. ASSUME TypeOK, Accounted, CustodyInv
      PROVE  ColumnsAgree
  <2> SUFFICES ASSUME Undisturbed
               PROVE  /\ order.escrow = EscrowDue
                      /\ order.escrow = EscrowOf(order.status) \/ Unfunded \/ Unraised \/ Unbooked
    BY DEF ColumnsAgree
  <2>1. InStep /\ BookedOnce /\ HoldingIsBacked /\ SettlementHasACause
    BY <1>1 DEF CustodyInv, Accounted
  <2>2. /\ order.status \in OrderStatus /\ order.escrow \in EscrowStatus
        /\ dispute \in {"NONE", "OPEN", "RESOLVED_FOR_BUYER", "RESOLVED_FOR_SELLER"}
    BY <1>1 DEF TypeOK, OrderRow, DisputeStatus, Resolution
  <2>3. order.escrow = EscrowDue
    BY <2>1, <2>2 DEF EscrowDue, EscrowStatus, InStep, BookedOnce, HoldingIsBacked, SettlementHasACause
  <2>4. CASE order.status \in {"PENDING_BUYER", "AWAITING_PAYMENT", "CANCELLED"}
    <3>1. EscrowOf(order.status) = "PENDING"
      BY <2>4 DEF EscrowOf
    <3> QED
      BY <2>1, <2>2, <2>3, <2>4, <3>1 DEF InStep, HoldingStatus, EscrowStatus
  <2>5. CASE order.status \in {"PAID", "SHIPPED", "IN_TRANSIT", "DELIVERED"}
    <3>1. EscrowOf(order.status) = "HOLDING"
      BY <2>5 DEF EscrowOf
    <3> QED
      BY <2>1, <2>2, <2>3, <2>5, <3>1 DEF InStep, EscrowStatus, Unfunded, HoldingIsBacked
  <2>6. CASE order.status = "COMPLETED"
    <3>1. EscrowOf(order.status) = "RELEASED"
      BY <2>6 DEF EscrowOf
    <3> QED
      BY <2>1, <2>2, <2>3, <2>6, <3>1 DEF InStep, HoldingStatus, EscrowStatus, Unbooked
  <2>7. CASE order.status = "DISPUTED"
    <3>1. EscrowOf(order.status) = "DISPUTED"
      BY <2>7 DEF EscrowOf
    <3> QED
      BY <2>1, <2>2, <2>3, <2>7, <3>1 DEF InStep, EscrowStatus, Unraised
  <2>8. CASE order.status = "REFUNDED"
    <3>1. EscrowOf(order.status) = "REFUNDED"
      BY <2>8 DEF EscrowOf
    <3> QED
      BY <2>1, <2>2, <2>3, <2>8, <3>1 DEF InStep, EscrowStatus, Unbooked
  <2> QED
    BY <2>2, <2>3, <2>4, <2>5, <2>6, <2>7, <2>8 DEF OrderStatus
<1> QED
  BY <1>1, TypeCorrect, AccountedAlways, CustodyAlways, PTL

(* An open dispute keeps the funds where they are.                               *)
THEOREM FrozenUnderDispute == Spec => NoReleaseUnderDispute
<1>1. ASSUME TypeOK, FreshChecksHold, Accounted, CustodyInv, [Next]_vars, dispute = "OPEN", Undisturbed'
      PROVE  RowsOf("FULL_RELEASE")' = RowsOf("FULL_RELEASE")
  <2>1. Undisturbed
    BY <1>1, AnomalyStays DEF Undisturbed
  <2>2. order.escrow # "HOLDING"
    BY <1>1, <2>1 DEF CustodyInv, InStep
  <2>3. CASE UNCHANGED ledger
    BY <2>3 DEF RowsOf
  <2>4. ASSUME NEW r \in Reqs, Writer(r)
        PROVE  RowsOf("FULL_RELEASE")' = RowsOf("FULL_RELEASE")
    <3>1. CASE ReleaseCommit(r) /\ HoldExists
      <4>1. Money!PayOut
        BY <1>1, <3>1, ReleaseStep
      <4> QED
        BY <2>1, <2>2, <4>1 DEF Money!PayOut, Column
    <3>2. CASE RefundCommit(r) /\ HoldExists
      <4>1. PICK n \in Stamps : ledger' = ledger \cup {Row("REFUND", n)}
        BY <3>2 DEF RefundCommit
      <4> QED
        BY <4>1, RowAdded
    <3>3. CASE HoldCommit(r) \/ \E ref \in PaymentRefs : ChargeSuccess(r, ref)
      <4>1. UNCHANGED ledger \/ \E key : ledger' = ledger \cup {Row("ESCROW_HOLD", key)}
        BY <3>3 DEF HoldCommit, ChargeSuccess, Refused
      <4> QED
        BY <2>3, <4>1, RowAdded
    <3>4. UNCHANGED ledger \/ ReleaseCommit(r) \/ RefundCommit(r) \/ HoldCommit(r)
          \/ \E ref \in PaymentRefs : ChargeSuccess(r, ref)
      BY <2>4 DEF Writer, StatusWrite, ConfirmWrite, AssignWrite, VerifyFix, VerifyWrite, RaiseCommit, ResolveCommit
    <3>5. (ReleaseCommit(r) \/ RefundCommit(r)) /\ ~HoldExists => UNCHANGED ledger
      BY DEF ReleaseCommit, RefundCommit, Refused
    <3> QED
      BY <2>3, <3>1, <3>2, <3>3, <3>4, <3>5
  <2> QED
    BY <1>1, <2>3, <2>4, OnlyWritersWrite
<1>2. TypeOK /\ Accounted /\ FreshChecksHold /\ CustodyInv /\ [Next]_vars
        => [dispute = "OPEN" /\ Undisturbed' => RowsOf("FULL_RELEASE")' = RowsOf("FULL_RELEASE")]_vars
  BY <1>1
<1> QED
  BY <1>2, TypeCorrect, AccountedAlways, CustodyAlways, PTL DEF Spec, NoReleaseUnderDispute

(* the edges the services take without consulting the table *)
LEMMA TableEdges ==
  /\ OnTable("PENDING_BUYER", "AWAITING_PAYMENT") /\ OnTable("AWAITING_PAYMENT", "PAID")
  /\ OnTable("DELIVERED", "COMPLETED") /\ OnTable("DELIVERED", "DISPUTED")
  /\ OnTable("DISPUTED", "COMPLETED") /\ OnTable("DISPUTED", "REFUNDED")
  BY DEF OnTable, ORDER_STATE_MACHINE, Edge

(* Every status change of every service is an edge of ORDER_STATE_MACHINE.       *)
THEOREM TableFollowed == Spec => StatusFollowsTable
<1> DEFINE Follows == order'.status = order.status \/ OnTable(order.status, order'.status)
<1>1. ASSUME TypeOK, FreshChecksHold, Accounted, CustodyInv, [Next]_vars, Undisturbed'
      PROVE  Follows
  <2> USE <1>1, TableEdges DEF TypeOK, OrderRow
  <2>1. CASE UNCHANGED order
    BY <2>1
  <2>2. ASSUME NEW r \in Reqs, Writer(r)
        PROVE  Follows
    <3>1. CASE StatusWrite(r)
      <4>1. order'.status = req[r].arg
        BY <3>1 DEF StatusWrite, WriteOrder, RequestType
      <4>2. OnTable(order.status, req[r].arg)
        BY <3>1, FreshWrites DEF StatusWrite, FreshChecksHold, ReadingHolds
      <4> QED
        BY <4>1, <4>2
    <3>2. CASE ConfirmWrite(r) \/ VerifyFix(r)
      <4>1. \/ order.status = "PENDING_BUYER" /\ ConfirmWrite(r)
            \/ order.status = "AWAITING_PAYMENT" /\ VerifyFix(r)
        BY <3>2, FreshWrites DEF ConfirmWrite, VerifyFix, FreshChecksHold, ReadingHolds
      <4> QED
        BY <4>1 DEF ConfirmWrite, VerifyFix, WriteOrder
    <3>3. CASE VerifyWrite(r)
      <4>1. order.status = "AWAITING_PAYMENT"
        BY <3>3, UpToDate
      <4> QED
        BY <3>3, <4>1 DEF VerifyWrite
    <3>4. CASE AssignWrite(r)
      BY <3>4 DEF AssignWrite, WriteOrder
    <3>5. CASE ReleaseCommit(r) /\ HoldExists
      <4>1. order.status \in {"DELIVERED", "COMPLETED"}
        BY <3>5, FreshWrites DEF ReleaseCommit, FreshChecksHold, ReadingHolds, Releasable
      <4> QED
        BY <3>5, <4>1 DEF ReleaseCommit, WriteOrder
    <3>6. CASE RefundCommit(r) /\ HoldExists
      <4>1. order.status = "DISPUTED"
        BY <3>6, FreshWrites DEF RefundCommit, FreshChecksHold, ReadingHolds
      <4> QED
        BY <3>6, <4>1 DEF RefundCommit, WriteOrder
    <3>7. CASE (ReleaseCommit(r) \/ RefundCommit(r)) /\ ~HoldExists
      BY <3>7 DEF ReleaseCommit, RefundCommit, Refused
    <3>8. CASE HoldCommit(r) /\ ~UNCHANGED order
      <4>1. order.status = "AWAITING_PAYMENT"
        BY <3>8, FreshWrites DEF HoldCommit, FreshChecksHold, ReadingHolds
      <4> QED
        BY <3>8, <4>1 DEF HoldCommit, Refused, WriteOrder
    <3>9. CASE \E ref \in PaymentRefs : ChargeSuccess(r, ref)
      BY <3>9 DEF ChargeSuccess, Fundable, WriteOrder
    <3>10. CASE RaiseCommit(r) /\ ~UNCHANGED order
      <4>1. order.status = "DELIVERED"
        BY <3>10, FreshWrites DEF RaiseCommit, FreshChecksHold, ReadingHolds
      <4> QED
        BY <3>10, <4>1 DEF RaiseCommit, WriteOrder
    <3>11. CASE ResolveCommit(r) /\ ~UNCHANGED order
      <4>1. order.status = "DISPUTED"
        BY <3>11, FreshWrites DEF ResolveCommit, FreshChecksHold, ReadingHolds
      <4>2. order'.status \in {"COMPLETED", "REFUNDED"}
        BY <3>11 DEF ResolveCommit, WriteOrder, Settled
      <4> QED
        BY <4>1, <4>2
    <3> QED
      BY <2>1, <2>2, <3>1, <3>2, <3>3, <3>4, <3>5, <3>6, <3>7, <3>8, <3>9, <3>10, <3>11 DEF Writer
  <2> QED
    BY <2>1, <2>2, OnlyWritersWrite
<1>2. TypeOK /\ Accounted /\ FreshChecksHold /\ CustodyInv /\ [Next]_vars
        => [Undisturbed' => \/ order'.status = order.status
                            \/ OnTable(order.status, order'.status)]_vars
  BY <1>1
<1> QED
  BY <1>2, TypeCorrect, AccountedAlways, CustodyAlways, PTL DEF Spec, StatusFollowsTable
-----------------------------------------------------------------------------------
(* The auto-release job.                                                         *)

(* BullMQ keeps the job locked exactly while the worker carries a request of its *)
(* own, and no client carries one.                                               *)
AtWork == req[Worker].pc # "idle"
JobHasWorker ==
  /\ job.state = "active" <=> AtWork
  /\ AtWork => req[Worker].arg = "auto"
  /\ \A r \in Clients : req[r].arg # "auto"

(* what follows a commit finds the order as the commit left it                   *)
DoneIsSettled ==
  Undisturbed => \A r \in Reqs : /\ req[r].pc = "releaseDone" => order.escrow = "RELEASED"
                                 /\ req[r].pc = "refundDone" => order.escrow = "REFUNDED"

(* where a request is and what it carries, its freshness aside                   *)
Stays(q) == req'[q].pc = req[q].pc /\ req'[q].arg = req[q].arg

(* A step of one request moves no other, and none brings an "auto" along that it  *)
(* did not have.                                                                 *)
LEMMA WriteMoves ==
  ASSUME TypeOK, NEW r \in Reqs, NEW row, NEW next, NEW b, WriteOrder(r, row, next, b)
  PROVE  req'[r] = next /\ \A q \in Reqs \ {r} : Stays(q)
<1>1. \A q \in Reqs : /\ [req[q] EXCEPT !.fresh = FALSE].pc = req[q].pc
                      /\ [req[q] EXCEPT !.fresh = FALSE].arg = req[q].arg
  BY DEF TypeOK, RequestType
<1> QED
  BY <1>1 DEF WriteOrder, Stays

LEMMA StepMoves ==
  ASSUME TypeOK, NEW r \in Reqs, Start(r) \/ Continue(r) \/ Abort(r)
  PROVE  /\ \A q \in Reqs \ {r} : Stays(q)
         /\ req'[r].arg = "auto" => req[r].arg = "auto"
<1> DEFINE Goal == /\ \A q \in Reqs \ {r} : Stays(q)
                   /\ req'[r].arg = "auto" => req[r].arg = "auto"
<1>0. /\ \A ref \in HoldRefs : ref # "auto"
      /\ req[r] \in RequestType
  BY RefsAreNoTriggers DEF Trigger, TypeOK
<1>1. ASSUME NEW q, req' = [req EXCEPT ![r] = q], q.arg = "auto" => req[r].arg = "auto"
      PROVE  Goal
  BY <1>1 DEF TypeOK, Stays
<1>2. ASSUME NEW pc, NEW arg, NEW b, arg = "auto" => req[r].arg = "auto"
      PROVE  /\ req' = [req EXCEPT ![r] = Request(pc, arg, b)] => Goal
             /\ \A row, up : WriteOrder(r, row, Request(pc, arg, b), up) => Goal
  BY <1>1, <1>2, WriteMoves DEF Request
<1>a. UNCHANGED req => Goal
  BY DEF Stays
<1> SUFFICES Goal
  OBVIOUS
<1> HIDE DEF Goal
<1>b. ASSUME NEW pc, NEW arg, arg = "auto" => req[r].arg = "auto"
      PROVE  Goto(r, pc, arg) \/ Checked(r, pc, arg) => Goal
  BY <1>2, <1>b DEF Goto, Checked
<1>3. CASE Abort(r)
  BY <1>2, <1>3 DEF Abort, Finish, Idle
<1>4. ASSUME NEW to \in OrderStatus, NEW role \in ContextualRole, UpdateStatus(r, to, role)
      PROVE  Goal
  <2>1. to # "auto"
    BY DEF OrderStatus
  <2> QED
    BY <1>2, <1>4, <2>1 DEF UpdateStatus, Goto, Checked
<1>5. CASE ConfirmByBuyer(r) \/ AssignRider(r) \/ AdminRelease(r) \/ RefundFunds(r) \/ RaiseDispute(r)
  BY <1>b, <1>5 DEF ConfirmByBuyer, AssignRider, AdminRelease, RefundFunds, RaiseDispute
<1>6. ASSUME NEW resolution \in Resolution, ResolveDispute(r, resolution)
      PROVE  Goal
  BY <1>2, <1>6 DEF ResolveDispute, Checked, Resolution
<1>7. ASSUME NEW ref \in ManualRefs, AdminHold(r, ref)
      PROVE  Goal
  BY <1>0, <1>2, <1>7 DEF AdminHold, Checked, HoldRefs
<1>8. ASSUME NEW ref \in PaymentRefs, VerifyByReference(r, ref) \/ ChargeFailed(r, ref)
      PROVE  Goal
  <2>1. ref # "auto"
    BY <1>0 DEF HoldRefs
  <2> QED
    BY <1>b, <1>8, <2>1 DEF VerifyByReference, ChargeFailed
<1>9. ASSUME NEW ref \in PaymentRefs, ChargeSuccess(r, ref)
      PROVE  Goal
  BY <1>2, <1>a, <1>9 DEF ChargeSuccess
<1>10. CASE StatusWrite(r) \/ ConfirmWrite(r) \/ AssignWrite(r) \/ VerifyFix(r)
  BY <1>2, <1>10 DEF StatusWrite, ConfirmWrite, AssignWrite, VerifyFix, Idle
<1>11. CASE ReleaseRead(r) \/ HoldRead(r)
  BY <1>2, <1>11 DEF ReleaseRead, HoldRead, Refused, Checked, Finish, Idle
<1>12. CASE ReleaseCommit(r) \/ RefundCommit(r) \/ HoldCommit(r)
  BY <1>2, <1>12 DEF ReleaseCommit, RefundCommit, HoldCommit, Refused, Finish, Idle
<1>13. CASE ReleaseDone(r) \/ RefundDone(r) \/ ScheduleJob(r) \/ FailWrite(r)
  BY <1>2, <1>13 DEF ReleaseDone, RefundDone, ScheduleJob, FailWrite, Finish, Idle
<1>14. CASE VerifyWrite(r)
  <2>1. \A q \in Reqs : /\ [req[q] EXCEPT !.fresh = FALSE].pc = req[q].pc
                        /\ [req[q] EXCEPT !.fresh = FALSE].arg = req[q].arg
    BY DEF TypeOK, RequestType
  <2> QED
    BY <1>14, <2>1 DEF VerifyWrite, Stays, Request, Goal
<1>15. CASE RaiseCommit(r) \/ ResolveCommit(r)
  BY <1>2, <1>15 DEF RaiseCommit, ResolveCommit, Finish, Idle
<1> QED
  BY <1>3, <1>4, <1>5, <1>6, <1>7, <1>8, <1>9, <1>10, <1>11, <1>12, <1>13, <1>14, <1>15
  DEF Start, Continue, Proceed
(* what an "auto" request is about to do, and that an idle one carries none       *)
LEMMA AutoSteps ==
  ASSUME TypeOK, NEW r \in Reqs
  PROVE  req[r].arg = "auto" => req[r].pc \in {"releaseRead", "releaseCommit", "releaseDone"}
<1>1. req[r] \in RequestType /\ \A ref \in HoldRefs : ref # "auto"
  BY RefsAreNoTriggers DEF TypeOK, Trigger
<1> QED
  BY <1>1 DEF RequestType, HoldRefs, OrderStatus, Resolution

(* A step of a client leaves the job locked or free as it is.                    *)
LEMMA ClientsLeaveLock ==
  ASSUME TypeOK, NEW r \in Reqs, req[r].arg # "auto", Start(r) \/ Continue(r) \/ Abort(r)
  PROVE  job'.state = "active" <=> job.state = "active"
<1> USE DEF Job, NoJob
<1>1. CASE Start(r)
  BY <1>1 DEF Start, UpdateStatus, ConfirmByBuyer, AssignRider, AdminRelease, RefundFunds, AdminHold,
              VerifyByReference, ChargeSuccess, ChargeFailed, RaiseDispute, ResolveDispute
<1>2. CASE Abort(r)
  BY <1>2 DEF Abort
<1>3. CASE ReleaseDone(r) \/ RefundDone(r) \/ ScheduleJob(r)
  BY <1>3 DEF ReleaseDone, RefundDone, ScheduleJob, CancelAutoRelease, ScheduleAutoRelease
<1>4. CASE Continue(r) /\ ~(ReleaseDone(r) \/ RefundDone(r) \/ ScheduleJob(r))
  <2>1. job' = job
    BY <1>4 DEF Continue, Proceed, StatusWrite, ConfirmWrite, AssignWrite, ReleaseRead, ReleaseCommit,
                RefundCommit, HoldRead, HoldCommit, VerifyFix, VerifyWrite, FailWrite, RaiseCommit,
                ResolveCommit, Refused
  <2> QED
    BY <2>1
<1> QED
  BY <1>1, <1>2, <1>3, <1>4

(* The worker goes on with its request and the job stays locked, or both end.    *)
LEMMA WorkerSteps ==
  ASSUME TypeOK, req[Worker].arg = "auto", Continue(Worker) \/ Abort(Worker)
  PROVE  \/ job' = job /\ req'[Worker].pc # "idle" /\ req'[Worker].arg = "auto"
         \/ job'.state # "active" /\ req'[Worker] = Idle
<1>0. Worker \in Reqs /\ DOMAIN req = Reqs
  BY DEF Reqs, TypeOK
<1>1. CASE Abort(Worker)
  BY <1>0, <1>1 DEF Abort, JobAfterFailure, Job, Finish
<1>2. CASE Refused(Worker)
  BY <1>0, <1>2 DEF Refused, Job, Finish
<1>3. CASE ReleaseRead(Worker)
  BY <1>0, <1>2, <1>3 DEF ReleaseRead, Checked, Request
<1>4. CASE ReleaseCommit(Worker)
  <2>1. ASSUME HoldExists
        PROVE  job' = job /\ req'[Worker] = Request("releaseDone", "auto", FALSE)
    BY <1>0, <1>4, <2>1, WriteMoves DEF ReleaseCommit
  <2>2. ~HoldExists => Refused(Worker)
    BY <1>4 DEF ReleaseCommit
  <2> QED
    BY <1>2, <2>1, <2>2 DEF Request
<1>5. CASE ReleaseDone(Worker)
  BY <1>0, <1>5 DEF ReleaseDone, Job, Finish
<1>6. Continue(Worker) => ReleaseRead(Worker) \/ ReleaseCommit(Worker) \/ ReleaseDone(Worker)
  BY <1>0, AutoSteps DEF Continue, Proceed, StatusWrite, ConfirmWrite, AssignWrite, RefundCommit, RefundDone,
        HoldRead, HoldCommit, ScheduleJob, VerifyFix, VerifyWrite, FailWrite, RaiseCommit, ResolveCommit
<1> QED
  BY <1>1, <1>3, <1>4, <1>5, <1>6

LEMMA JobHasWorkerStep ==
  ASSUME TypeOK, JobHasWorker, [Next]_vars
  PROVE  JobHasWorker'
<1> USE WorkerIsNoClient DEF JobHasWorker, AtWork
<1>0. Worker \in Reqs /\ Clients \subseteq Reqs /\ DOMAIN req = Reqs
  BY DEF Reqs, TypeOK
<1>1. ASSUME NEW r \in Clients, Start(r) \/ Continue(r) \/ Abort(r)
      PROVE  JobHasWorker'
  BY <1>0, <1>1, StepMoves, ClientsLeaveLock DEF Stays
<1>2. CASE Continue(Worker) \/ Abort(Worker)
  <2>1. req[Worker].pc # "idle"
    BY <1>2, <1>0 DEF Abort, Continue, Proceed, StatusWrite, ConfirmWrite, AssignWrite, ReleaseRead, ReleaseCommit,
          RefundCommit, RefundDone, HoldRead, HoldCommit, ScheduleJob, VerifyFix, VerifyWrite, FailWrite,
          RaiseCommit, ResolveCommit, ReleaseDone
  <2>2. \A r \in Clients : req'[r].arg # "auto"
    BY <1>0, <1>2, StepMoves DEF Stays
  <2> QED
    BY <1>2, <2>1, <2>2, WorkerSteps DEF Idle, Request
<1>3. CASE JobFires
  BY <1>0, <1>3 DEF JobFires, Goto, Request, Job
<1>4. CASE UNCHANGED req /\ (job' = job \/ JobPruned)
  BY <1>4 DEF JobPruned, NoJob, Job
<1>5. \/ \E r \in Clients : Start(r) \/ Continue(r) \/ Abort(r)
      \/ Continue(Worker) \/ Abort(Worker) \/ JobFires
      \/ UNCHANGED req /\ (job' = job \/ JobPruned)
  BY DEF Next, Steps, Arise, InitiatePayment, CustomerPays, JobPruned, vars, Reqs
<1> QED
  BY <1>1, <1>2, <1>3, <1>4, <1>5

(* Undisturbed, an escrow that is settled stays as it is.                        *)
LEMMA SettledIsFinal ==
  ASSUME Undisturbed', [Next]_vars, CustodyStep, order.escrow \in {"RELEASED", "REFUNDED"}
  PROVE  Undisturbed /\ order'.escrow = order.escrow
<1>1. Undisturbed
  BY AnomalyStays DEF Undisturbed
<1>2. Column = order.escrow /\ Column' = order'.escrow
  BY <1>1 DEF Column
<1> QED
  BY <1>1, <1>2 DEF CustodyStep, Money!CustodyNext, Money!TakeIn, Money!Freeze, Money!PayOut, Money!PayBack,
                    Money!Verdict, Money!GoAstray, Money!custodyVars, Column, Funds

LEMMA DoneIsSettledStep ==
  ASSUME TypeOK, TypeOK', DoneIsSettled, CustodyStep, [Next]_vars
  PROVE  DoneIsSettled'
<1> SUFFICES ASSUME Undisturbed', NEW q \in Reqs
             PROVE  /\ req'[q].pc = "releaseDone" => order'.escrow = "RELEASED"
                    /\ req'[q].pc = "refundDone" => order'.escrow = "REFUNDED"
  BY DEF DoneIsSettled
<1>1. Undisturbed
  BY AnomalyStays DEF Undisturbed
<1>2. CASE req'[q].pc = req[q].pc
  BY <1>1, <1>2, SettledIsFinal DEF DoneIsSettled
<1>3. ASSUME Start(q) \/ Continue(q) \/ Abort(q), req'[q].pc \in {"releaseDone", "refundDone"}
      PROVE  \/ req'[q].pc = req[q].pc
             \/ req'[q].pc = "releaseDone" /\ order'.escrow = "RELEASED"
             \/ req'[q].pc = "refundDone" /\ order'.escrow = "REFUNDED"
  <2> DEFINE before == {"releaseDone", "refundDone"}
  <2>0. DOMAIN req = Reqs
    BY DEF TypeOK
  <2>1. CASE ReleaseCommit(q) \/ RefundCommit(q)
    <3>1. CASE Refused(q)
      BY <1>3, <2>0, <3>1 DEF Refused, Finish, Idle, Request
    <3>2. CASE ReleaseCommit(q) /\ ~Refused(q)
      <4>1. WriteOrder(q, [order EXCEPT !.status = "COMPLETED", !.escrow = "RELEASED"],
                       Request("releaseDone", req[q].arg, FALSE), req[q].fresh)
        BY <3>2 DEF ReleaseCommit
      <4>2. order'.escrow = "RELEASED"
        BY <4>1 DEF WriteOrder, TypeOK, OrderRow
      <4> QED
        BY <4>1, <4>2, WriteMoves DEF Request
    <3>3. CASE RefundCommit(q) /\ ~Refused(q)
      <4>1. WriteOrder(q, [order EXCEPT !.status = "REFUNDED", !.escrow = "REFUNDED"],
                       Request("refundDone", "none", FALSE), req[q].fresh)
        BY <3>3 DEF RefundCommit
      <4>2. order'.escrow = "REFUNDED"
        BY <4>1 DEF WriteOrder, TypeOK, OrderRow
      <4> QED
        BY <4>1, <4>2, WriteMoves DEF Request
    <3> QED
      BY <2>1, <3>1, <3>2, <3>3
  <2>2. CASE Start(q)
    <3>1. ASSUME NEW ref \in PaymentRefs, ChargeSuccess(q, ref)
          PROVE  req'[q].pc \notin before \/ req' = req
      <4>1. \/ req' = req
            \/ WriteOrder(q, [order EXCEPT !.status = "PAID", !.escrow = "HOLDING"],
                          Request("scheduleJob", "none", FALSE), TRUE)
        BY <3>1 DEF ChargeSuccess
      <4>2. ASSUME NEW row, WriteOrder(q, row, Request("scheduleJob", "none", FALSE), TRUE)
            PROVE  req'[q].pc = "scheduleJob"
        <5>1. req'[q] = Request("scheduleJob", "none", FALSE)
          BY <4>2, WriteMoves
        <5> QED
          BY <5>1 DEF Request
      <4> QED
        BY <4>1, <4>2
    <3>2. ASSUME NEW pc \in {"statusWrite", "releaseRead", "confirmWrite", "assignWrite", "refundCommit",
                             "holdCommit", "verifyFix", "verifyWrite", "failWrite", "raiseCommit", "resolveCommit"},
                 NEW arg
          PROVE  Goto(q, pc, arg) \/ Checked(q, pc, arg) => req'[q].pc \notin before
      BY <2>0, <3>2 DEF Goto, Checked, Request
    <3> HIDE DEF before
    <3>3. ASSUME NEW ref \in PaymentRefs, VerifyByReference(q, ref) \/ ChargeFailed(q, ref)
          PROVE  req'[q].pc \notin before
      BY <3>2, <3>3 DEF VerifyByReference, ChargeFailed
    <3>4. CASE req'[q].pc \notin before \/ req' = req
      BY <1>3, <3>4 DEF before
    <3> QED
      BY <2>2, <3>1, <3>2, <3>3, <3>4 DEF Start, UpdateStatus, ConfirmByBuyer, AssignRider, AdminRelease,
            RefundFunds, AdminHold, RaiseDispute, ResolveDispute
  <2>3. CASE Abort(q)
    BY <1>3, <2>0, <2>3 DEF Abort, Finish, Idle, Request
  <2>4. CASE Continue(q) /\ ~ReleaseCommit(q) /\ ~RefundCommit(q)
    BY <1>3, <2>0, <2>4, WriteMoves
    DEF Continue, Proceed, StatusWrite, ConfirmWrite, AssignWrite, ReleaseRead, RefundDone, HoldRead, HoldCommit,
        ScheduleJob, VerifyFix, VerifyWrite, FailWrite, RaiseCommit, ResolveCommit, ReleaseDone, Refused,
        Checked, Finish, Idle, Request
  <2> QED
    BY <1>3, <2>1, <2>2, <2>3, <2>4
<1>4. ASSUME ~(Start(q) \/ Continue(q) \/ Abort(q))
      PROVE  req'[q].pc = req[q].pc \/ req'[q].pc = "releaseRead"
  <2>0. Worker \in Reqs /\ Clients \subseteq Reqs /\ DOMAIN req = Reqs
    BY DEF TypeOK, Reqs
  <2>1. ASSUME NEW r \in Reqs, Start(r) \/ Continue(r) \/ Abort(r)
        PROVE  req'[q].pc = req[q].pc
    BY <1>4, <2>1, StepMoves DEF Stays
  <2>2. CASE JobFires
    BY <2>0, <2>2 DEF JobFires, Goto, Request
  <2>3. \/ \E r \in Reqs : Start(r) \/ Continue(r) \/ Abort(r)
        \/ JobFires \/ UNCHANGED req
    BY <2>0 DEF Next, Steps, Arise, InitiatePayment, CustomerPays, JobPruned, vars
  <2> QED
    BY <2>1, <2>2, <2>3
<1> QED
  BY <1>2, <1>3, <1>4

(* No step of an undisturbed order takes a job off the queue, or ends it, while   *)
(* the order still waits for its release.                                        *)
LEMMA JobStaysStep ==
  ASSUME TypeOK, Accounted, JobHasWorker, DoneIsSettled, [Next]_vars,
         Undisturbed, AwaitsRelease, job.state \in {"delayed", "active"}
  PROVE  job'.state \in {"delayed", "active", "failed"}
<1>1. HoldExists /\ Releasable
  BY DEF Accounted, HoldingIsBacked, AwaitsRelease, Releasable
<1>2. ASSUME NEW r \in Reqs, Start(r)
      PROVE  job' = job
  BY <1>2 DEF Start, UpdateStatus, ConfirmByBuyer, AssignRider, AdminRelease, RefundFunds, AdminHold,
              VerifyByReference, ChargeSuccess, ChargeFailed, RaiseDispute, ResolveDispute
<1>3. ASSUME NEW r \in Reqs, Abort(r)
      PROVE  job' = job \/ job'.state \in {"delayed", "failed"}
  BY <1>3 DEF Abort, JobAfterFailure, Job
<1>4. ASSUME NEW r \in Reqs, ReleaseDone(r) \/ RefundDone(r)
      PROVE  FALSE
  BY <1>4 DEF DoneIsSettled, AwaitsRelease, ReleaseDone, RefundDone
<1>5. ASSUME NEW r \in Reqs, Continue(r)
      PROVE  job' = job
  <2>1. CASE ScheduleJob(r)
    BY <2>1 DEF ScheduleJob, ScheduleAutoRelease
  <2>2. CASE HoldCommit(r)
    <3>1. req[r].arg # "auto"
      BY <2>2, AutoSteps DEF HoldCommit
    <3> QED
      BY <2>2, <3>1 DEF HoldCommit, Refused
  <2> QED
    BY <1>1, <1>4, <1>5, <2>1, <2>2
    DEF Continue, Proceed, StatusWrite, ConfirmWrite, AssignWrite, ReleaseRead, ReleaseCommit, RefundCommit,
        HoldRead, VerifyFix, VerifyWrite, FailWrite, RaiseCommit, ResolveCommit
<1>6. JobFires \/ JobPruned \/ job' = job
      \/ \E r \in Reqs : Start(r) \/ Continue(r) \/ Abort(r)
  BY DEF Next, Steps, Arise, InitiatePayment, CustomerPays, vars, Reqs
<1> QED
  BY <1>2, <1>3, <1>5, <1>6 DEF JobFires, JobPruned, Job

LEMMA JobAlways == Spec => [](JobHasWorker /\ DoneIsSettled)
<1>1. Init => JobHasWorker /\ DoneIsSettled
  BY DEF Init, JobHasWorker, AtWork, DoneIsSettled, Reqs, Idle, Request, NoJob, Job
<1>2. /\ TypeOK /\ TypeOK' /\ Accounted /\ FreshChecksHold /\ CustodyInv
      /\ JobHasWorker /\ DoneIsSettled /\ [Next]_vars
      => JobHasWorker' /\ DoneIsSettled'
  <2> SUFFICES ASSUME TypeOK, TypeOK', Accounted, FreshChecksHold, CustodyInv,
                      JobHasWorker, DoneIsSettled, [Next]_vars
               PROVE  JobHasWorker' /\ DoneIsSettled'
    OBVIOUS
  <2>1. CustodyStep
    BY CustodyStepLemma
  <2> QED
    BY <2>1, JobHasWorkerStep, DoneIsSettledStep
<1> QED
  BY <1>1, <1>2, TypeCorrect, AccountedAlways, CustodyAlways, PTL DEF Spec

(* The lock BullMQ keeps on the job: it is active exactly while the worker is at  *)
(* it, whatever the other requests do, so that a job that can be taken has a      *)
(* worker to take it and none stays locked for ever.                             *)
THEOREM LockFollowsWorker ==
  Spec => [](job.state = "active" <=> req[Worker].pc # "idle")
<1>1. JobHasWorker => (job.state = "active" <=> req[Worker].pc # "idle")
  BY DEF JobHasWorker, AtWork
<1> QED
  BY <1>1, JobAlways, PTL

(* The safety half of AutoReleaseSettles: undisturbed, a delivered order whose    *)
(* funds are held does not lose its job, whoever aborts, retries or cancels; it   *)
(* is queued, at work, or has used up its attempts.                              *)
THEOREM JobNotLost ==
  Spec => [][Undisturbed /\ AwaitsRelease /\ job.state \in {"delayed", "active"}
               => job'.state \in {"delayed", "active", "failed"}]_vars
<1>1. TypeOK /\ Accounted /\ JobHasWorker /\ DoneIsSettled /\ [Next]_vars
        => [Undisturbed /\ AwaitsRelease /\ job.state \in {"delayed", "active"}
              => job'.state \in {"delayed", "active", "failed"}]_vars
  BY JobStaysStep
<1> QED
  BY <1>1, TypeCorrect, AccountedAlways, JobAlways, PTL DEF Spec

-----------------------------------------------------------------------------------
(* How far along the table a status is.                                          *)
Rank == [PENDING_BUYER |-> 0, AWAITING_PAYMENT |-> 1, PAID |-> 2, SHIPPED |-> 3, IN_TRANSIT |-> 4,
         DELIVERED |-> 5, DISPUTED |-> 6, COMPLETED |-> 7, REFUNDED |-> 7, CANCELLED |-> 7]

(* Undisturbed, an order never comes back to a status it has left, and an end is   *)
(* an end: no service can lead it in a circle, since the table has none and each    *)
(* of them keeps to it.                                                          *)
THEOREM NeverBack ==
  Spec => [][Undisturbed' => \/ order'.status = order.status
                             \/ Rank[order.status] < Rank[order'.status]]_vars
<1>1. \A from, to : OnTable(from, to) => Rank[from] < Rank[to]
  BY DEF OnTable, ORDER_STATE_MACHINE, Edge, Rank
<1>2. [Undisturbed' => order'.status = order.status \/ OnTable(order.status, order'.status)]_vars
        => [Undisturbed' => \/ order'.status = order.status
                            \/ Rank[order.status] < Rank[order'.status]]_vars
  BY <1>1
<1> QED
  BY <1>2, TableFollowed, PTL DEF StatusFollowsTable
==================================================================================
