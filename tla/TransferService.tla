----------------------------- MODULE TransferService -----------------------------
(* transfer.service.ts, its listener for ESCROW_RELEASED and its webhook events: *)
(* the way of a seller's money from a released escrow to a bank account.         *)
EXTENDS OrderRecords

CONSTANTS Calls,         \* payout calls and transfer events that may be in progress
          TransferRefs,  \* references of transfers, random and never used twice
          Accounts       \* bank accounts the seller may enter in the profile

VARIABLES
  record,     \* status of each TransferRecord, "NONE" while there is no row
  transfer,   \* what became of each transfer at Paystack, and where it went
  bank,       \* the account in the seller's profile
  recipient,  \* the account behind the seller's TransferRecipient row
  call,       \* the calls in progress
  gap         \* ghost: what has come between a transfer and its record so far

payoutVars == <<record, transfer, bank, recipient, call, gap>>

(* REVERSED and ABANDONED exist in schema.prisma, but no handler writes them *)
RecordStatus == {"NONE", "PENDING", "SUCCESS", "FAILED"}
TransferState == {"NONE", "QUEUED", "PAID", "FAILED", "REVERSED"}
Transfer(state, account) == [state |-> state, account |-> account]

(* no account: the profile has no bank details, the recipient row does not exist *)
NoAccount == "noAccount"
AnyAccount == Accounts \cup {NoAccount}

(* One set for each kind of argument.  From the look at the records on, a call    *)
(* is fresh while nobody has sent a transfer that it does not know of.           *)
CallType ==
  [pc : {"idle", "orderRead", "recordRead", "recipientRead"}, arg : {"none"}, fresh : BOOLEAN]
  \cup [pc : {"recipientCreate", "send"}, arg : Accounts, fresh : BOOLEAN]
  \cup [pc : {"recordCreate", "successWrite"}, arg : TransferRefs, fresh : BOOLEAN]

CallAt(pc, arg, fresh) == [pc |-> pc, arg |-> arg, fresh |-> fresh]
NoCall == CallAt("idle", "none", FALSE)
Step(c, pc, arg) == call' = [call EXCEPT ![c] = CallAt(pc, arg, call[c].fresh)]
EndCall(c) == call' = [call EXCEPT ![c] = NoCall]

(* the seller may have been paid for other orders before: a recipient made from  *)
(* the profile may exist already *)
TransferInit ==
  /\ record = [ref \in TransferRefs |-> "NONE"]
  /\ transfer = [ref \in TransferRefs |-> Transfer("NONE", NoAccount)]
  /\ bank \in AnyAccount
  /\ recipient \in {NoAccount, bank}
  /\ call = [c \in Calls |-> NoCall]
  /\ gap = {}

(* -- initiateTransfer ----------------------------------------------------------- *)

(* mutation: nobody listens to the name the event is emitted under *)
OnEscrowReleasedUnheard(c) ==
  /\ call[c].pc = "idle"
  /\ UNCHANGED payoutVars

(* The listener for ESCROW_RELEASED, emitted after the release has committed.    *)
OnEscrowReleased(c) ==
  /\ call[c].pc = "idle"
  /\ Step(c, "orderRead", "none")
  /\ UNCHANGED <<record, transfer, bank, recipient, gap>>

(* POST /payments/transfer by an admin, at any time *)
PostTransfer(c) == OnEscrowReleased(c)

(* mutations: the escrow is not looked at; every settled order is paid *)
PayableWhenCompleted == order.status = "COMPLETED"
PayableWhenSettled == order.status \in {"COMPLETED", "REFUNDED"} /\ order.escrow # "HOLDING"

(* only for a COMPLETED order with RELEASED escrow *)
Payable == order.status = "COMPLETED" /\ order.escrow = "RELEASED"

OrderRead(c) ==
  /\ call[c].pc = "orderRead"
  /\ IF Payable THEN Step(c, "recordRead", "none") ELSE EndCall(c)
  /\ UNCHANGED <<record, transfer, bank, recipient, gap>>

(* mutation: only a transfer that has come through counts *)
PaidAlready == \E ref \in TransferRefs : record[ref] = "SUCCESS"

(* a transfer under way or completed: refused with a ConflictException *)
ExistingTransfer == \E ref \in TransferRefs : record[ref] \in {"PENDING", "SUCCESS"}

RecordRead(c) ==
  /\ call[c].pc = "recordRead"
  /\ IF ExistingTransfer
     THEN EndCall(c)
     ELSE call' = [call EXCEPT ![c] =
                     CallAt("recipientRead", "none", \A d \in Calls : call[d].pc # "recordCreate")]
  /\ UNCHANGED <<record, transfer, bank, recipient, gap>>

(* mutation: the bank details are not required *)
RecipientReadUnchecked(c) ==
  /\ call[c].pc = "recipientRead"
  /\ IF recipient # NoAccount THEN Step(c, "send", recipient) ELSE Step(c, "recipientCreate", bank)
  /\ UNCHANGED <<record, transfer, bank, recipient, gap>>

(* getOrCreateRecipient: the cached row as it is, or the bank details            *)
RecipientRead(c) ==
  /\ call[c].pc = "recipientRead"
  /\ \/ recipient # NoAccount /\ Step(c, "send", recipient)
     \/ recipient = NoAccount /\ bank # NoAccount /\ Step(c, "recipientCreate", bank)
     \/ recipient = NoAccount /\ bank = NoAccount /\ EndCall(c)
  /\ UNCHANGED <<record, transfer, bank, recipient, gap>>

(* userId is unique: of two calls that found no row the second fails             *)
RecipientCreate(c) ==
  /\ call[c].pc = "recipientCreate"
  /\ \/ /\ recipient = NoAccount
        /\ recipient' = call[c].arg
        /\ Step(c, "send", call[c].arg)
     \/ /\ recipient # NoAccount
        /\ EndCall(c)
        /\ UNCHANGED recipient
  /\ UNCHANGED <<record, transfer, bank, gap>>

(* Paystack accepts the transfer; no row says so yet.  Every other call that has *)
(* looked at the records is outdated from here on.                               *)
Send(c) ==
  /\ call[c].pc = "send"
  /\ \E ref \in TransferRefs :
       /\ transfer[ref].state = "NONE"
       /\ transfer' = [transfer EXCEPT ![ref] = Transfer("QUEUED", call[c].arg)]
       /\ call' = [d \in Calls |-> IF d = c THEN CallAt("recordCreate", ref, FALSE)
                                           ELSE [call[d] EXCEPT !.fresh = FALSE]]
  /\ gap' = IF call[c].fresh THEN gap ELSE gap \cup {"overtaken"}
  /\ UNCHANGED <<record, bank, recipient>>

(* mutation: Paystack's acceptance is taken for the payment *)
RecordPaid(c) ==
  /\ call[c].pc = "recordCreate"
  /\ record' = [record EXCEPT ![call[c].arg] = "SUCCESS"]
  /\ EndCall(c)
  /\ UNCHANGED <<transfer, bank, recipient, gap>>

(* always PENDING, whatever Paystack answered *)
RecordCreate(c) ==
  /\ call[c].pc = "recordCreate"
  /\ record' = [record EXCEPT ![call[c].arg] = "PENDING"]
  /\ EndCall(c)
  /\ UNCHANGED <<transfer, bank, recipient, gap>>

(* A call dies at any step: Paystack refuses or does not answer, the process      *)
(* ends.  A transfer Paystack has accepted is then without a record for ever.     *)
CallAborts(c) ==
  /\ call[c].pc # "idle"
  /\ EndCall(c)
  /\ gap' = IF call[c].pc = "recordCreate" THEN gap \cup {"unrecorded"} ELSE gap
  /\ UNCHANGED <<record, transfer, bank, recipient>>

(* -- Paystack and the profile ----------------------------------------------------- *)

(* Paystack pays a transfer out or fails, and may take a paid one back.           *)
PaystackSettles(ref) ==
  /\ \/ /\ transfer[ref].state = "QUEUED"
        /\ \E outcome \in {"PAID", "FAILED"} : transfer' = [transfer EXCEPT ![ref].state = outcome]
     \/ /\ transfer[ref].state = "PAID"
        /\ transfer' = [transfer EXCEPT ![ref].state = "REVERSED"]
  /\ UNCHANGED <<record, bank, recipient, call, gap>>

(* PATCH /users/me: the profile changes, the recipient row does not *)
UpdateProfile(account) ==
  /\ bank # account
  /\ bank' = account
  /\ UNCHANGED <<record, transfer, recipient, call, gap>>

(* -- webhook: transfer.success, transfer.failed, transfer.reversed ---------------- *)

(* Events come any number of times, late and out of order, once Paystack had a    *)
(* reason to send them.  One that comes before the record does is dropped.        *)
TransferSuccess(c, ref) ==
  /\ call[c].pc = "idle"
  /\ transfer[ref].state \in {"PAID", "REVERSED"}
  /\ record[ref] \in {"PENDING", "FAILED"}
  /\ Step(c, "successWrite", ref)
  /\ UNCHANGED <<record, transfer, bank, recipient, gap>>

SuccessWrite(c) ==
  /\ call[c].pc = "successWrite"
  /\ record' = [record EXCEPT ![call[c].arg] = "SUCCESS"]
  /\ EndCall(c)
  /\ UNCHANGED <<transfer, bank, recipient, gap>>

(* records are never deleted, so that finding the row and updating it are one step *)
TransferFailed(ref) ==
  /\ transfer[ref].state \in {"FAILED", "REVERSED"}
  /\ record[ref] # "NONE"
  /\ record' = [record EXCEPT ![ref] = "FAILED"]
  /\ UNCHANGED <<transfer, bank, recipient, call, gap>>
==================================================================================
