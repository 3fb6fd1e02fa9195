------------------------------- MODULE OrderRecords -------------------------------
(* The rows of one order in the database, its auto-release job in the queue,    *)
(* and the requests in flight on it.  Every service module extends this one and *)
(* adds the actions of its handlers; EaseWaybill composes them.                 *)
(*                                                                              *)
(* A handler of this code base reads the order row, checks it, awaits, and then *)
(* writes the row with an unconditional update: the check and the write are two *)
(* steps, and any other request may act between them.  Each element of Reqs is  *)
(* idle or carries one request; its pc names the step it will take next.        *)
EXTENDS OrderStateMachine, Naturals

CONSTANTS Clients,      \* HTTP requests that may be in flight at the same time
          Worker,       \* the worker process of the auto-release queue
          PaymentRefs,  \* references of Paystack charges (initiatePayment)
          ManualRefs,   \* references an admin passes to POST /escrow/hold
          Stamps,       \* values of Date.now() in the references of payout rows
          MaxAttempts   \* attempts in the options of the auto-release job: 3 in the code

ASSUME RefsDisjoint == PaymentRefs \cap ManualRefs = {}
ASSUME SomeAttempt == MaxAttempts \in Nat \ {0}
ASSUME WorkerIsNoClient == Worker \notin Clients

Reqs == Clients \cup {Worker}

VARIABLES
  order,     \* the Order row
  ledger,    \* the EscrowTransaction rows of the order
  dispute,   \* status of the Dispute row, "NONE" while there is no row
  payment,   \* status of each PaymentRecord, "NONE" while there is no row
  charge,    \* what Paystack knows of each reference
  job,       \* the BullMQ job auto-release-<orderId>
  req,       \* the requests in flight
  anomaly    \* ghost: the writes so far that acted on outdated information

vars == <<order, ledger, dispute, payment, charge, job, req, anomaly>>

-----------------------------------------------------------------------------------
(* Values.  PARTIALLY_RELEASED and UNDER_REVIEW exist in schema.prisma, but no  *)
(* handler ever writes them.                                                    *)

EscrowStatus == {"PENDING", "HOLDING", "RELEASED", "REFUNDED", "DISPUTED"}
Resolution == {"RESOLVED_FOR_BUYER", "RESOLVED_FOR_SELLER"}
DisputeStatus == {"NONE", "OPEN"} \cup Resolution
PaymentStatus == {"NONE", "PENDING", "SUCCESS", "FAILED"}
ChargeState == {"NONE", "OPEN", "PAID", "WRONG_AMOUNT"}

HoldRefs == PaymentRefs \cup ManualRefs
Row(type, key) == [type |-> type, key |-> key]
PayoutType == {"PLATFORM_FEE", "FULL_RELEASE", "REFUND"}
LedgerRow == [type : {"ESCROW_HOLD"}, key : HoldRefs] \cup [type : PayoutType, key : Stamps]
RowsOf(type) == {row \in ledger : row.type = type}

(* The order as create() leaves it: sent to the buyer, nothing held, and neither *)
(* a buyer account nor a rider attached to it yet.                               *)
OrderRow == [status : OrderStatus, escrow : EscrowStatus, buyer : BOOLEAN, rider : BOOLEAN]
NewOrder == [status |-> "PENDING_BUYER", escrow |-> "PENDING", buyer |-> FALSE, rider |-> FALSE]

-----------------------------------------------------------------------------------
(* The auto-release job.                                                        *)

JobState == {"none", "delayed", "active", "completed", "failed"}
Job(state, n) == [state |-> state, attempts |-> n]
NoJob == Job("none", 0)

(* queue.add with a job id BullMQ already holds changes nothing *)
ScheduleAutoRelease ==
  job' = IF job.state = "none" THEN Job("delayed", 0) ELSE job

(* job.remove() throws on a job a worker has locked, and the error is swallowed *)
CancelAutoRelease ==
  job' = IF job.state = "active" THEN job ELSE NoJob

-----------------------------------------------------------------------------------
(* Requests in flight.                                                           *)

(* what the "release" steps know: on whose behalf releaseFunds was called; what   *)
(* the others carry can be told from it                                           *)
Trigger == {"buyer", "admin", "auto"}
ASSUME RefsAreNoTriggers == HoldRefs \cap Trigger = {}

(* One set for each kind of argument a step carries.  A "...Write" or "...Commit" *)
(* step has read rows and will act on what it saw, fresh while nobody has        *)
(* written the order since; a "...Read" step is a call about to read; the others *)
(* are what is left to do after a commit.                                        *)
RequestType ==
  [pc : {"statusWrite"}, arg : OrderStatus, fresh : BOOLEAN]
  \cup [pc : {"releaseRead", "releaseCommit", "releaseDone"}, arg : Trigger, fresh : BOOLEAN]
  \cup [pc : {"holdCommit"}, arg : HoldRefs, fresh : BOOLEAN]
  \cup [pc : {"verifyWrite", "holdRead", "failWrite"}, arg : PaymentRefs, fresh : BOOLEAN]
  \cup [pc : {"resolveCommit"}, arg : Resolution, fresh : BOOLEAN]
  \cup [pc : {"idle", "confirmWrite", "assignWrite", "refundCommit", "refundDone",
              "scheduleJob", "verifyFix", "raiseCommit"}, arg : {"none"}, fresh : BOOLEAN]

Request(pc, arg, fresh) == [pc |-> pc, arg |-> arg, fresh |-> fresh]
Idle == Request("idle", "none", FALSE)

Goto(r, pc, arg) == req' = [req EXCEPT ![r] = Request(pc, arg, FALSE)]

(* the handler has read the order row and goes on to its write *)
Checked(r, pc, arg) == req' = [req EXCEPT ![r] = Request(pc, arg, TRUE)]

Finish(r) == req' = [req EXCEPT ![r] = Idle]

(* order.update: r writes row and goes on as next; what every other request has  *)
(* read is outdated from here on.  A request that writes after its own reading   *)
(* has become outdated leaves a "lostUpdate" behind.                             *)
WriteOrder(r, row, next, upToDate) ==
  /\ order' = row
  /\ req' = [q \in Reqs |-> IF q = r THEN next ELSE [req[q] EXCEPT !.fresh = FALSE]]
  /\ anomaly' = IF upToDate THEN anomaly ELSE anomaly \cup {"lostUpdate"}
===================================================================================
