------------------------------- MODULE EaseWaybill -------------------------------
(* One order of EaseWaybill from its creation to its settlement: the orders,    *)
(* escrow, payments and disputes services and the auto-release worker, acting   *)
(* on the same rows with any number of requests in flight.                      *)
EXTENDS OrdersService, EscrowService, PaymentsService, DisputesService

(* A request ends early at any step: an exception, a lost connection, a crash    *)
(* of its process.  What it has committed stays, what it had left is lost.  The  *)
(* job of the worker is run again until its attempts are used up.                *)
Abort(r) ==
  /\ req[r].pc # "idle"
  /\ job' = IF req[r].arg = "auto" THEN JobAfterFailure ELSE job
  /\ Finish(r)
  /\ UNCHANGED <<order, ledger, dispute, payment, charge, anomaly>>

Init ==
  /\ order = NewOrder
  /\ ledger = {}
  /\ dispute = "NONE"
  /\ payment = [ref \in PaymentRefs |-> "NONE"]
  /\ charge = [ref \in PaymentRefs |-> "NONE"]
  /\ job = NoJob
  /\ req = [r \in Reqs |-> Idle]
  /\ anomaly = {}

(* The steps of a request that is under way.  Each one is the next statement of  *)
(* a running handler, so that it comes unless its process dies.  ReleaseDone     *)
(* stands apart, for what listens to ESCROW_RELEASED.                            *)
Proceed(r) ==
  \/ StatusWrite(r) \/ ConfirmWrite(r) \/ AssignWrite(r)
  \/ ReleaseRead(r) \/ ReleaseCommit(r)
  \/ RefundCommit(r) \/ RefundDone(r)
  \/ HoldRead(r) \/ HoldCommit(r) \/ ScheduleJob(r)
  \/ VerifyFix(r) \/ VerifyWrite(r) \/ FailWrite(r)
  \/ RaiseCommit(r) \/ ResolveCommit(r)

Continue(r) == Proceed(r) \/ ReleaseDone(r)

(* the requests a user, an admin or Paystack may send *)
Start(r) ==
  \/ \E to \in OrderStatus, role \in ContextualRole : UpdateStatus(r, to, role)
  \/ ConfirmByBuyer(r) \/ AssignRider(r)
  \/ AdminRelease(r) \/ RefundFunds(r) \/ \E ref \in ManualRefs : AdminHold(r, ref)
  \/ \E ref \in PaymentRefs : VerifyByReference(r, ref) \/ ChargeSuccess(r, ref) \/ ChargeFailed(r, ref)
  \/ RaiseDispute(r) \/ \E resolution \in Resolution : ResolveDispute(r, resolution)

(* what begins without a request on the order being under way *)
Arise ==
  \/ \E r \in Clients : Start(r)
  \/ \E ref \in PaymentRefs : InitiatePayment(ref) \/ CustomerPays(ref)
  \/ JobFires
  \/ JobPruned

Steps == Arise \/ \E r \in Reqs : Continue(r)

Next == Steps \/ \E r \in Reqs : Abort(r)

Spec == Init /\ [][Next]_vars

(* A running handler goes on to its end or is aborted, and a due job is taken by *)
(* the worker: Node runs every resolved promise and BullMQ every delayed job.    *)
(* No request ever has to come, and no payment event has to be delivered.        *)
Fairness == WF_vars(JobFires) /\ \A r \in Reqs : WF_vars(Continue(r))

FairSpec == Spec /\ Fairness

(* the same system while nothing fails *)
SteadySpec == Init /\ [][Steps]_vars /\ Fairness

-----------------------------------------------------------------------------------
TypeOK ==
  /\ order \in OrderRow
  /\ ledger \subseteq LedgerRow
  /\ dispute \in DisputeStatus
  /\ payment \in [PaymentRefs -> PaymentStatus]
  /\ charge \in [PaymentRefs -> ChargeState]
  /\ job \in [state : JobState, attempts : 0..MaxAttempts]
  /\ req \in [Reqs -> RequestType]
  /\ anomaly \subseteq {"lostUpdate", "blindPaid"}

-----------------------------------------------------------------------------------
(* What holds whatever the requests do to each other.                            *)

(* The escrow column and the ledger agree on whether money was taken in: HOLDING *)
(* has a hold row, PENDING has none.  Webhook and holdFunds write both in one    *)
(* transaction, while polling, updateStatus() and confirmByBuyer() write the     *)
(* status column on its own.                                                     *)
HoldingIsBacked ==
  /\ order.escrow = "HOLDING" => HoldExists
  /\ order.escrow = "PENDING" => ~HoldExists

(* No money leaves the escrow that was never paid in: releaseFunds and           *)
(* refundFunds write their rows only after they have found a hold.               *)
PayoutsAreBacked == (\E row \in ledger : row.type \in PayoutType) => HoldExists

(* A hold stands for a charge Paystack confirmed over the full amount, by        *)
(* whichever of webhook and polling it came; an admin's own hold aside.          *)
HoldsAreFullyPaid ==
  \A row \in RowsOf("ESCROW_HOLD") : row.key \in PaymentRefs => charge[row.key] = "PAID"

(* The escrow column reaches RELEASED or REFUNDED only by a payout row or by a   *)
(* resolved dispute, whatever requests race for it.                              *)
SettlementHasACause ==
  /\ order.escrow = "RELEASED" => RowsOf("FULL_RELEASE") # {} \/ dispute = "RESOLVED_FOR_SELLER"
  /\ order.escrow = "REFUNDED" => RowsOf("REFUND") # {} \/ dispute = "RESOLVED_FOR_BUYER"

(* A dispute is decided once: of two admins who resolve it at the same time, the *)
(* updateMany of resolve() lets one through.                                     *)
DisputeDecidedOnce == [][(dispute \in Resolution) => (dispute' = dispute)]_vars

-----------------------------------------------------------------------------------
(* What holds as long as no write acts on an outdated reading.  These are the    *)
(* promises the checks of the handlers make if every order.update had its check  *)
(* as a condition, the way resolve() conditions the dispute row.                 *)

NoLostUpdate == "lostUpdate" \notin anomaly
Undisturbed == anomaly = {}

AtMostOne(type) == \A a, b \in RowsOf(type) : a = b

(* One hold, one release, over any number of charges, retries and re-deliveries: *)
(* even when polling sets a settled order back to PAID.                          *)
HeldAndReleasedOnce ==
  NoLostUpdate => AtMostOne("ESCROW_HOLD") /\ AtMostOne("FULL_RELEASE")

(* The held funds leave once, to the seller or back to the buyer, never both.    *)
FundsMoveOnce ==
  Undisturbed => \A a, b \in RowsOf("FULL_RELEASE") \cup RowsOf("REFUND") : a = b

(* The escrow column that the ledger and the dispute row call for *)
EscrowDue ==
  IF RowsOf("REFUND") # {} \/ dispute = "RESOLVED_FOR_BUYER" THEN "REFUNDED"
  ELSE IF RowsOf("FULL_RELEASE") # {} \/ dispute = "RESOLVED_FOR_SELLER" THEN "RELEASED"
  ELSE IF dispute = "OPEN" THEN "DISPUTED"
  ELSE IF HoldExists THEN "HOLDING" ELSE "PENDING"

(* The escrow column an order of a status has when the status was reached by the *)
(* service that moves the money.                                                 *)
EscrowOf(status) ==
  CASE status \in {"PENDING_BUYER", "AWAITING_PAYMENT", "CANCELLED"} -> "PENDING"
    [] status \in {"PAID", "SHIPPED", "IN_TRANSIT", "DELIVERED"} -> "HOLDING"
    [] status = "COMPLETED" -> "RELEASED"
    [] status = "DISPUTED" -> "DISPUTED"
    [] status = "REFUNDED" -> "REFUNDED"

(* The orders a status written on its own leaves behind: PAID by polling or by   *)
(* an admin before anything is held; DISPUTED by updateStatus(), which creates   *)
(* no dispute; REFUNDED or COMPLETED by updateStatus(), which books nothing, and *)
(* completes this way only what holds no undisputed money.                       *)
Unfunded  == order.status \in {"PAID", "SHIPPED", "IN_TRANSIT", "DELIVERED"} /\ ~HoldExists
Unraised  == order.status = "DISPUTED" /\ dispute = "NONE"
Unbooked  == \/ order.status = "REFUNDED"  /\ order.escrow \in {"PENDING", "HOLDING", "DISPUTED"}
             \/ order.status = "COMPLETED" /\ order.escrow \in {"PENDING", "DISPUTED"}

(* The escrow column is the one the rows call for, and the status column the one *)
(* that goes with it, exactly, but for the three kinds of orders just named:     *)
(* whatever the services do to each other, no order has its funds released and   *)
(* its status elsewhere, waits or is cancelled with money held, or is completed  *)
(* by updateStatus() around a hold nobody disputes.                              *)
ColumnsAgree ==
  Undisturbed =>
    /\ order.escrow = EscrowDue
    /\ order.escrow = EscrowOf(order.status) \/ Unfunded \/ Unraised \/ Unbooked

(* The order is a custodian of its money (module Custody): the ledger and the    *)
(* escrow column move along the abstract steps and no others, whatever services  *)
(* and worker do to each other.                                                  *)
Funds ==
  IF ~Undisturbed THEN "astray"
  ELSE IF RowsOf("FULL_RELEASE") # {} THEN "seller"
  ELSE IF RowsOf("REFUND") # {} THEN "buyer"
  ELSE IF HoldExists THEN "held" ELSE "unpaid"
Column == IF Undisturbed THEN order.escrow ELSE "astray"

Money == INSTANCE Custody WITH funds <- Funds, column <- Column
KeepsCustody == Money!CustodySpec

(* An open dispute keeps the funds where they are: no release row is written     *)
(* while the dispute is open.                                                    *)
NoReleaseUnderDispute ==
  [][dispute = "OPEN" /\ Undisturbed' => RowsOf("FULL_RELEASE")' = RowsOf("FULL_RELEASE")]_vars

(* Every status change of every service is an edge of ORDER_STATE_MACHINE,       *)
(* although only updateStatus() consults the table.                              *)
StatusFollowsTable ==
  [][Undisturbed' => \/ order'.status = order.status
                     \/ OnTable(order.status, order'.status)]_vars

-----------------------------------------------------------------------------------
(* What must happen.                                                             *)

AwaitsRelease == order.status = "DELIVERED" /\ order.escrow = "HOLDING"

(* A job still in the queue when the goods are delivered moves the funds of the  *)
(* seller, or somebody else does, unless each of its attempts dies on the way.   *)
(* A lost update may cost the job: releaseFunds and refundFunds pull it after    *)
(* their commit, and a second hold may have come in between.                     *)
AutoReleaseSettles ==
  (job.state = "delayed" /\ AwaitsRelease)
    ~> (~AwaitsRelease \/ job.state = "failed" \/ ~Undisturbed)

-----------------------------------------------------------------------------------
(* What the repository says of itself and the code does not keep: each is        *)
(* refuted by a run of its own, and none is assumed anywhere.                    *)

(* escrow.service.spec.ts:208 'throws ConflictException on double release': the  *)
(* seller is paid out at most once.                                              *)
ReleasedOnce == AtMostOne("FULL_RELEASE")

===================================================================================
