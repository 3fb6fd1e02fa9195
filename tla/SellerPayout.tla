------------------------------ MODULE SellerPayout ------------------------------
(* The order of EaseWaybill together with the transfers that pay its seller.     *)
EXTENDS EaseWaybill, TransferService

(* a payout call that is under way goes on *)
CallProceeds(c) ==
  \/ OrderRead(c) \/ RecordRead(c) \/ RecipientRead(c) \/ RecipientCreate(c)
  \/ Send(c) \/ RecordCreate(c) \/ SuccessWrite(c)

(* what the admin, the seller and Paystack may do about payouts *)
PayoutArises ==
  \/ \E c \in Calls : PostTransfer(c) \/ \E ref \in TransferRefs : TransferSuccess(c, ref)
  \/ \E ref \in TransferRefs : PaystackSettles(ref) \/ TransferFailed(ref)
  \/ \E account \in Accounts : UpdateProfile(account)

PayoutSteps == PayoutArises \/ \E c \in Calls : CallProceeds(c)

(* releaseFunds goes on after its commit: it emits ESCROW_RELEASED, the listener  *)
(* starts within the same process, and the job is pulled or completed.            *)
ReleaseDoneAndHeard(r) == ReleaseDone(r) /\ \E c \in Calls : OnEscrowReleased(c)

SellerInit == Init /\ TransferInit

SellerSteps ==
  \/ (Arise \/ \E r \in Reqs : Proceed(r)) /\ UNCHANGED payoutVars
  \/ \E r \in Reqs : ReleaseDoneAndHeard(r)
  \/ PayoutSteps /\ UNCHANGED vars

SellerNext ==
  \/ SellerSteps
  \/ (\E r \in Reqs : Abort(r)) /\ UNCHANGED payoutVars
  \/ (\E c \in Calls : CallAborts(c)) /\ UNCHANGED vars

allVars == <<vars, payoutVars>>

SellerSpec == SellerInit /\ [][SellerNext]_allVars

(* the fairness of EaseWaybill, and of a payout call its own *)
SellerFairness ==
  /\ WF_allVars(JobFires /\ UNCHANGED payoutVars)
  /\ \A r \in Reqs : /\ WF_allVars(Proceed(r) /\ UNCHANGED payoutVars)
                     /\ WF_allVars(ReleaseDoneAndHeard(r))
  /\ \A c \in Calls : WF_allVars(CallProceeds(c) /\ UNCHANGED vars)

SteadySellerSpec == SellerInit /\ [][SellerSteps]_allVars /\ SellerFairness

-----------------------------------------------------------------------------------
(* The payouts of an order that was released and stays so, by themselves.        *)

ReleasedOrder ==
  /\ order = [status |-> "COMPLETED", escrow |-> "RELEASED", buyer |-> TRUE, rider |-> TRUE]
  /\ \E ref \in PaymentRefs, n \in Stamps :
       /\ ledger = {Row("ESCROW_HOLD", ref), Row("PLATFORM_FEE", n), Row("FULL_RELEASE", n)}
       /\ payment = [p \in PaymentRefs |-> IF p = ref THEN "SUCCESS" ELSE "NONE"]
       /\ charge = [p \in PaymentRefs |-> IF p = ref THEN "PAID" ELSE "NONE"]
  /\ dispute = "NONE"
  /\ job = NoJob
  /\ req = [r \in Reqs |-> Idle]
  /\ anomaly = {}

PayoutsInit == ReleasedOrder /\ TransferInit

PayoutsAlone ==
  /\ PayoutsInit
  /\ [][(PayoutSteps \/ \E c \in Calls : CallAborts(c)) /\ UNCHANGED vars]_allVars

-----------------------------------------------------------------------------------
PayoutTypeOK ==
  /\ record \in [TransferRefs -> RecordStatus]
  /\ transfer \in [TransferRefs -> [state : TransferState, account : AnyAccount]]
  /\ bank \in AnyAccount
  /\ recipient \in AnyAccount
  /\ call \in [Calls -> CallType]
  /\ gap \subseteq {"overtaken", "unrecorded"}

Sent(ref) == transfer[ref].state # "NONE"
Live(ref) == transfer[ref].state \in {"QUEUED", "PAID"}

(* A record never claims more, or less, than Paystack did, in whatever order and *)
(* however often its events arrive: SUCCESS was paid out at some time, FAILED is *)
(* money that is back, so that sending it again is no second payment.            *)
RecordsTellTheTruth ==
  \A ref \in TransferRefs :
    /\ record[ref] = "SUCCESS" => transfer[ref].state \in {"PAID", "REVERSED"}
    /\ record[ref] = "FAILED" => transfer[ref].state \in {"FAILED", "REVERSED"}

(* The seller is paid once, over any number of events, retries and reversals, as *)
(* long as no call dies between the transfer and its record and none sends after *)
(* its look at the records has become outdated.                                  *)
PaidOutOnce ==
  gap = {} => \A a, b \in TransferRefs : Live(a) /\ Live(b) => a = b

(* No transfer without a settlement in the seller's favour: a release row or a   *)
(* dispute resolved for the seller, whatever the order becomes afterwards.       *)
TransferHasACause ==
  (\E ref \in TransferRefs : Sent(ref)) =>
    RowsOf("FULL_RELEASE") # {} \/ dispute = "RESOLVED_FOR_SELLER"

(* The seller is not paid for an order that is refunded: escrow.service.ts and   *)
(* disputes.service.ts between them keep the two ways out of the escrow apart,   *)
(* unless one of them acts on an outdated order.                                 *)
NotPaidAndRefunded ==
  (Undisturbed /\ \E ref \in TransferRefs : Sent(ref)) =>
    RowsOf("REFUND") = {} /\ dispute # "RESOLVED_FOR_BUYER"

(* The release of an undisturbed order reaches the seller without anybody asking *)
(* for it, if the profile has bank details and no process dies: the listener     *)
(* sends the money, or finds that it has been sent, or another call is paid.     *)
ReleaseReachesSeller ==
  ((\E r \in Reqs : req[r].pc = "releaseDone") /\ bank # NoAccount)
    ~> ((\E ref \in TransferRefs : Sent(ref)) \/ ~Undisturbed)

==================================================================================
