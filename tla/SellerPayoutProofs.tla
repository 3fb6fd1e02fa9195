--------------------------- MODULE SellerPayoutProofs ---------------------------
(* Machine-checked proofs about the payouts, for any number of requests, calls,  *)
(* references and accounts.                                                      *)
EXTENDS SellerPayout, EaseWaybillProofs

(* What every step of the composed system is, seen from its two halves.          *)
LEMMA StepOfEither ==
  ASSUME [SellerNext]_allVars
  PROVE  \/ [Next]_vars /\ UNCHANGED payoutVars
         \/ [Next]_vars /\ \E c \in Calls : OnEscrowReleased(c)
         \/ UNCHANGED vars /\ (PayoutSteps \/ \E c \in Calls : CallAborts(c))
  BY DEF SellerNext, SellerSteps, ReleaseDoneAndHeard, Next, Steps, Continue, allVars

(* The payouts leave the order to its own rules: whatever is proved of           *)
(* EaseWaybill holds with the transfers around it.                               *)
THEOREM PayoutsLeaveOrder == SellerSpec => Spec
<1>1. SellerInit => Init
  BY DEF SellerInit
<1>2. [SellerNext]_allVars => [Next]_vars
  BY StepOfEither
<1> QED
  BY <1>1, <1>2, PTL DEF SellerSpec, Spec

-----------------------------------------------------------------------------------
(* Types.                                                                        *)

(* an idle call, and one at each of the steps a call may take                    *)
LEMMA CallTypes ==
  /\ NoCall \in CallType
  /\ \A b \in BOOLEAN : /\ CallAt("orderRead", "none", b) \in CallType
                        /\ CallAt("recordRead", "none", b) \in CallType
                        /\ CallAt("recipientRead", "none", b) \in CallType
                        /\ \A a \in Accounts : /\ CallAt("recipientCreate", a, b) \in CallType
                                               /\ CallAt("send", a, b) \in CallType
                        /\ \A ref \in TransferRefs : /\ CallAt("recordCreate", ref, b) \in CallType
                                                     /\ CallAt("successWrite", ref, b) \in CallType
  BY DEF NoCall, CallAt, CallType

(* what a call carries is of the kind its step takes                             *)
LEMMA CallArgs ==
  ASSUME PayoutTypeOK, NEW c \in Calls
  PROVE  /\ call[c].fresh \in BOOLEAN
         /\ call[c].pc \in {"recipientCreate", "send"} => call[c].arg \in Accounts
         /\ call[c].pc \in {"recordCreate", "successWrite"} => call[c].arg \in TransferRefs
  BY DEF PayoutTypeOK, CallType

(* forgetting freshness keeps a call well-typed                                  *)
LEMMA StaleCallType ==
  ASSUME NEW k \in CallType
  PROVE  [k EXCEPT !.fresh = FALSE] \in CallType
  BY DEF CallType

LEMMA PayoutTypeStep ==
  ASSUME PayoutTypeOK,
         \/ UNCHANGED payoutVars
         \/ \E c \in Calls : OnEscrowReleased(c)
         \/ PayoutSteps
         \/ \E c \in Calls : CallAborts(c)
  PROVE  PayoutTypeOK'
<1> USE DEF PayoutTypeOK
<1>1. CASE UNCHANGED payoutVars
  BY <1>1 DEF payoutVars
<1>2. ASSUME NEW c \in Calls, OnEscrowReleased(c) PROVE PayoutTypeOK'
  BY <1>2, CallTypes, CallArgs DEF OnEscrowReleased, Step
<1>3. ASSUME NEW c \in Calls, OrderRead(c) PROVE PayoutTypeOK'
  BY <1>3, CallTypes, CallArgs DEF OrderRead, Step, EndCall
<1>4. ASSUME NEW c \in Calls, RecordRead(c) PROVE PayoutTypeOK'
  BY <1>4, CallTypes, CallArgs DEF RecordRead, EndCall
<1>5. ASSUME NEW c \in Calls, RecipientRead(c) PROVE PayoutTypeOK'
  BY <1>5, CallTypes, CallArgs DEF RecipientRead, Step, EndCall, AnyAccount
<1>6. ASSUME NEW c \in Calls, RecipientCreate(c) PROVE PayoutTypeOK'
  BY <1>6, CallTypes, CallArgs DEF RecipientCreate, Step, EndCall, AnyAccount
<1>7. ASSUME NEW c \in Calls, Send(c) PROVE PayoutTypeOK'
  <2>1. PICK ref \in TransferRefs :
          /\ transfer' = [transfer EXCEPT ![ref] = Transfer("QUEUED", call[c].arg)]
          /\ call' = [d \in Calls |-> IF d = c THEN CallAt("recordCreate", ref, FALSE)
                                              ELSE [call[d] EXCEPT !.fresh = FALSE]]
    BY <1>7 DEF Send
  <2>2. Transfer("QUEUED", call[c].arg) \in [state : TransferState, account : AnyAccount]
    BY <1>7, CallArgs DEF Send, Transfer, TransferState, AnyAccount
  <2>3. call' \in [Calls -> CallType]
    BY <2>1, CallTypes, StaleCallType
  <2> QED
    BY <1>7, <2>1, <2>2, <2>3 DEF Send
<1>8. ASSUME NEW c \in Calls, RecordCreate(c) PROVE PayoutTypeOK'
  BY <1>8, CallTypes DEF RecordCreate, EndCall, RecordStatus
<1>9. ASSUME NEW c \in Calls, SuccessWrite(c) PROVE PayoutTypeOK'
  BY <1>9, CallTypes DEF SuccessWrite, EndCall, RecordStatus
<1>10. ASSUME NEW c \in Calls, CallAborts(c) PROVE PayoutTypeOK'
  BY <1>10, CallTypes DEF CallAborts, EndCall
<1>11. ASSUME NEW c \in Calls, NEW ref \in TransferRefs, TransferSuccess(c, ref) PROVE PayoutTypeOK'
  BY <1>11, CallTypes, CallArgs DEF TransferSuccess, Step
<1>12. ASSUME NEW ref \in TransferRefs, PaystackSettles(ref) PROVE PayoutTypeOK'
  BY <1>12 DEF PaystackSettles, TransferState
<1>13. ASSUME NEW ref \in TransferRefs, TransferFailed(ref) PROVE PayoutTypeOK'
  BY <1>13 DEF TransferFailed, RecordStatus
<1>14. ASSUME NEW account \in Accounts, UpdateProfile(account) PROVE PayoutTypeOK'
  BY <1>14 DEF UpdateProfile, AnyAccount
<1> QED
  BY <1>1, <1>2, <1>3, <1>4, <1>5, <1>6, <1>7, <1>8, <1>9, <1>10, <1>11, <1>12, <1>13, <1>14
  DEF PayoutSteps, PayoutArises, CallProceeds, PostTransfer

(* Every payout call carries what its next step needs: an account to send to, a  *)
(* reference to record.                                                          *)
THEOREM PayoutTypeCorrect == SellerSpec => []PayoutTypeOK
<1>1. SellerInit => PayoutTypeOK
  BY CallTypes DEF SellerInit, TransferInit, PayoutTypeOK, RecordStatus, TransferState, Transfer, AnyAccount
<1>2. PayoutTypeOK /\ [SellerNext]_allVars => PayoutTypeOK'
  BY StepOfEither, PayoutTypeStep
<1> QED
  BY <1>1, <1>2, PTL DEF SellerSpec

-----------------------------------------------------------------------------------
(* What the records say of the transfers.                                        *)

(* A success event on its way was sent for a transfer that was paid out.         *)
EventsTellTheTruth ==
  \A c \in Calls : call[c].pc = "successWrite" =>
    transfer[call[c].arg].state \in {"PAID", "REVERSED"}

(* Paystack's answer, once it is one, never goes back to none or to failed or    *)
(* from failed to another; that is all the records depend on.                    *)
LEMMA TruthStep ==
  ASSUME PayoutTypeOK, RecordsTellTheTruth, EventsTellTheTruth,
         \/ UNCHANGED payoutVars
         \/ \E c \in Calls : OnEscrowReleased(c)
         \/ PayoutSteps
         \/ \E c \in Calls : CallAborts(c)
  PROVE  RecordsTellTheTruth' /\ EventsTellTheTruth'
<1> USE DEF RecordsTellTheTruth, EventsTellTheTruth
<1>1. CASE UNCHANGED payoutVars
  BY <1>1 DEF payoutVars
<1>2. ASSUME NEW c \in Calls,
             \/ OnEscrowReleased(c) \/ OrderRead(c) \/ RecordRead(c) \/ RecipientRead(c)
             \/ RecipientCreate(c) \/ CallAborts(c)
      PROVE  RecordsTellTheTruth' /\ EventsTellTheTruth'
  <2>1. UNCHANGED <<record, transfer>>
    BY <1>2 DEF OnEscrowReleased, OrderRead, RecordRead, RecipientRead, RecipientCreate, CallAborts
  <2>2. call'[c].pc # "successWrite" /\ \A d \in Calls \ {c} : call'[d] = call[d]
    BY <1>2 DEF OnEscrowReleased, OrderRead, RecordRead, RecipientRead, RecipientCreate, CallAborts,
                Step, EndCall, CallAt, NoCall, PayoutTypeOK
  <2> QED
    BY <2>1, <2>2
<1>3. ASSUME NEW c \in Calls, Send(c) PROVE RecordsTellTheTruth' /\ EventsTellTheTruth'
  <2>1. PICK ref \in TransferRefs :
          /\ transfer[ref].state = "NONE"
          /\ transfer' = [transfer EXCEPT ![ref] = Transfer("QUEUED", call[c].arg)]
          /\ call' = [d \in Calls |-> IF d = c THEN CallAt("recordCreate", ref, FALSE)
                                              ELSE [call[d] EXCEPT !.fresh = FALSE]]
    BY <1>3 DEF Send
  <2>2. \A p \in TransferRefs \ {ref} : transfer'[p] = transfer[p]
    BY <2>1 DEF PayoutTypeOK
  <2>3. RecordsTellTheTruth'
    BY <1>3, <2>1, <2>2 DEF Send
  <2>4. ASSUME NEW d \in Calls, call'[d].pc = "successWrite"
        PROVE  d # c /\ call'[d].arg = call[d].arg /\ call[d].pc = "successWrite"
    <3>1. d # c
      BY <2>1, <2>4 DEF CallAt
    <3>2. call[d] \in CallType
      BY DEF PayoutTypeOK
    <3> QED
      BY <2>1, <2>4, <3>1, <3>2 DEF CallType
  <2>5. ASSUME NEW d \in Calls, call'[d].pc = "successWrite"
        PROVE  transfer'[call'[d].arg].state \in {"PAID", "REVERSED"}
    <3>1. /\ call'[d].arg = call[d].arg
          /\ call[d].pc = "successWrite"
      BY <2>4, <2>5
    <3>2. call[d].arg \in TransferRefs /\ transfer[call[d].arg].state \in {"PAID", "REVERSED"}
      BY <3>1, CallArgs
    <3>3. transfer'[call[d].arg] = transfer[call[d].arg]
      BY <2>1, <2>2, <3>2
    <3> QED
      BY <3>1, <3>2, <3>3
  <2> QED
    BY <2>3, <2>5
<1>4. ASSUME NEW c \in Calls, RecordCreate(c) \/ SuccessWrite(c)
      PROVE  RecordsTellTheTruth' /\ EventsTellTheTruth'
  BY <1>4, CallArgs DEF RecordCreate, SuccessWrite, EndCall, NoCall, CallAt, PayoutTypeOK
<1>5. ASSUME NEW c \in Calls, NEW ref \in TransferRefs, TransferSuccess(c, ref)
      PROVE  RecordsTellTheTruth' /\ EventsTellTheTruth'
  BY <1>5 DEF TransferSuccess, Step, CallAt, PayoutTypeOK
<1>6. ASSUME NEW ref \in TransferRefs, PaystackSettles(ref)
      PROVE  RecordsTellTheTruth' /\ EventsTellTheTruth'
  <2>1. /\ \A p \in TransferRefs \ {ref} : transfer'[p] = transfer[p]
        /\ transfer[ref].state \in {"QUEUED", "PAID"}
        /\ transfer[ref].state = "PAID" => transfer'[ref].state = "REVERSED"
    BY <1>6 DEF PaystackSettles, PayoutTypeOK
  <2> QED
    BY <1>6, <2>1, CallArgs DEF PaystackSettles
<1>7. ASSUME NEW ref \in TransferRefs, TransferFailed(ref)
      PROVE  RecordsTellTheTruth' /\ EventsTellTheTruth'
  BY <1>7 DEF TransferFailed, PayoutTypeOK
<1>8. ASSUME NEW account \in Accounts, UpdateProfile(account)
      PROVE  RecordsTellTheTruth' /\ EventsTellTheTruth'
  BY <1>8 DEF UpdateProfile
<1> QED
  BY <1>1, <1>2, <1>3, <1>4, <1>5, <1>6, <1>7, <1>8 DEF PayoutSteps, PayoutArises, CallProceeds, PostTransfer

(* Whatever order Paystack's events come in, and however often, SUCCESS is a     *)
(* transfer that was paid out and FAILED one whose money is back.                *)
THEOREM RecordsTruthful == SellerSpec => []RecordsTellTheTruth
<1>1. SellerInit => RecordsTellTheTruth /\ EventsTellTheTruth
  BY DEF SellerInit, TransferInit, RecordsTellTheTruth, EventsTellTheTruth, NoCall, CallAt
<1>2. PayoutTypeOK /\ RecordsTellTheTruth /\ EventsTellTheTruth /\ [SellerNext]_allVars
        => RecordsTellTheTruth' /\ EventsTellTheTruth'
  BY StepOfEither, TruthStep
<1> QED
  BY <1>1, <1>2, PayoutTypeCorrect, PTL DEF SellerSpec

-----------------------------------------------------------------------------------
(* The seller is paid once, up to the first gap between a transfer and its       *)
(* record.                                                                       *)

(* A transfer whose money is out is known: by an open or successful record, or   *)
(* by the call that is about to create it.                                       *)
LiveIsKnown ==
  \A ref \in TransferRefs : Live(ref) =>
    \/ record[ref] \in {"PENDING", "SUCCESS"}
    \/ \E c \in Calls : call[c].pc = "recordCreate" /\ call[c].arg = ref

(* A call that has looked at the records, found nothing and is not outdated, is  *)
(* right: no money is out.                                                       *)
Looked(c) == call[c].pc \in {"recipientRead", "recipientCreate", "send"} /\ call[c].fresh
FreshCallsAreRight == \A c \in Calls : Looked(c) => \A ref \in TransferRefs : ~Live(ref)

PaidInv == gap = {} => LiveIsKnown /\ FreshCallsAreRight /\ PaidOutOnce

(* a step that sends nothing, records nothing and looks at no record              *)
LEMMA BystanderStep ==
  ASSUME PayoutTypeOK, PaidInv, NEW c \in Calls,
         UNCHANGED <<record, gap>>,
         \A ref \in TransferRefs : Live(ref)' => Live(ref),
         call' \in [Calls -> CallType],
         \A d \in Calls \ {c} : call'[d] = call[d],
         call[c].pc # "recordCreate",
         Looked(c)' => Looked(c)
  PROVE  PaidInv'
<1> SUFFICES ASSUME gap = {} PROVE LiveIsKnown' /\ FreshCallsAreRight' /\ PaidOutOnce'
  BY DEF PaidInv
<1>1. LiveIsKnown /\ FreshCallsAreRight /\ PaidOutOnce
  BY DEF PaidInv
<1>2. LiveIsKnown'
  BY <1>1 DEF LiveIsKnown
<1>3. FreshCallsAreRight'
  BY <1>1 DEF FreshCallsAreRight, Looked
<1>4. PaidOutOnce'
  BY <1>1 DEF PaidOutOnce
<1> QED
  BY <1>2, <1>3, <1>4

LEMMA PaidStep ==
  ASSUME PayoutTypeOK, PayoutTypeOK', RecordsTellTheTruth, PaidInv,
         \/ UNCHANGED payoutVars
         \/ \E c \in Calls : OnEscrowReleased(c)
         \/ PayoutSteps
         \/ \E c \in Calls : CallAborts(c)
  PROVE  PaidInv'
<1>1. CASE UNCHANGED payoutVars
  BY <1>1 DEF payoutVars, PaidInv, LiveIsKnown, FreshCallsAreRight, PaidOutOnce, Looked, Live
<1>2. ASSUME NEW c \in Calls,
             \/ OnEscrowReleased(c) \/ OrderRead(c) \/ RecipientRead(c) \/ RecipientCreate(c)
             \/ \E ref \in TransferRefs : TransferSuccess(c, ref)
      PROVE  PaidInv'
  <2>1. /\ UNCHANGED <<record, transfer, gap>>
        /\ call[c].pc # "recordCreate"
        /\ \A d \in Calls \ {c} : call'[d] = call[d]
        /\ Looked(c)' => Looked(c)
    BY <1>2 DEF OnEscrowReleased, OrderRead, RecipientRead, RecipientCreate, TransferSuccess,
                Step, EndCall, CallAt, NoCall, PayoutTypeOK, Looked
  <2> QED
    BY <2>1, BystanderStep DEF PayoutTypeOK, Live
<1>3. ASSUME NEW c \in Calls, RecordRead(c) PROVE PaidInv'
  <2>1. CASE ExistingTransfer
    <3>1. /\ UNCHANGED <<record, transfer, gap>>
          /\ call[c].pc # "recordCreate"
          /\ \A d \in Calls \ {c} : call'[d] = call[d]
          /\ Looked(c)' => Looked(c)
      BY <1>3, <2>1 DEF RecordRead, EndCall, CallAt, NoCall, PayoutTypeOK, Looked
    <3> QED
      BY <3>1, BystanderStep DEF PayoutTypeOK, Live
  <2>2. CASE ~ExistingTransfer
    <3> SUFFICES ASSUME gap = {} PROVE LiveIsKnown' /\ FreshCallsAreRight' /\ PaidOutOnce'
      BY <1>3 DEF PaidInv, RecordRead
    <3>1. LiveIsKnown /\ FreshCallsAreRight /\ PaidOutOnce
      BY DEF PaidInv
    <3> DEFINE nobody == \A d \in Calls : call[d].pc # "recordCreate"
    <3>a. /\ UNCHANGED <<record, transfer, gap>>
          /\ call[c].pc = "recordRead"
          /\ call' = [call EXCEPT ![c] = CallAt("recipientRead", "none", nobody)]
      BY <1>3, <2>2 DEF RecordRead
    <3>b. nobody \in BOOLEAN
      OBVIOUS
    <3> HIDE DEF nobody
    <3>c. call'[c].fresh => nobody
      BY <3>a, <3>b DEF CallAt, PayoutTypeOK
    <3>2. /\ UNCHANGED <<record, transfer, gap>>
          /\ call[c].pc = "recordRead"
          /\ call'[c].fresh => \A d \in Calls : call[d].pc # "recordCreate"
          /\ \A d \in Calls \ {c} : call'[d] = call[d]
      BY <3>a, <3>c DEF PayoutTypeOK, nobody
    <3>3. LiveIsKnown'
      BY <3>1, <3>2 DEF LiveIsKnown, Live
    <3>4. ASSUME \A d \in Calls : call[d].pc # "recordCreate", NEW ref \in TransferRefs
          PROVE  ~Live(ref)
      BY <2>2, <3>1, <3>4 DEF LiveIsKnown, ExistingTransfer
    <3>5. FreshCallsAreRight'
      BY <3>1, <3>2, <3>4 DEF FreshCallsAreRight, Looked, Live
    <3>6. PaidOutOnce'
      BY <3>1, <3>2 DEF PaidOutOnce, Live
    <3> QED
      BY <3>3, <3>5, <3>6
  <2> QED
    BY <2>1, <2>2
<1>4. ASSUME NEW c \in Calls, Send(c) PROVE PaidInv'
  <2>1. PICK ref \in TransferRefs :
          /\ transfer' = [transfer EXCEPT ![ref] = Transfer("QUEUED", call[c].arg)]
          /\ call' = [d \in Calls |-> IF d = c THEN CallAt("recordCreate", ref, FALSE)
                                              ELSE [call[d] EXCEPT !.fresh = FALSE]]
    BY <1>4 DEF Send
  <2> SUFFICES ASSUME gap' = {} PROVE LiveIsKnown' /\ FreshCallsAreRight' /\ PaidOutOnce'
    BY DEF PaidInv
  <2>2. gap = {} /\ call[c].fresh /\ call[c].pc = "send" /\ record' = record
    BY <1>4 DEF Send
  <2>3. \A p \in TransferRefs : ~Live(p)
    BY <2>2 DEF PaidInv, FreshCallsAreRight, Looked
  <2>4. \A p \in TransferRefs : Live(p)' => p = ref
    BY <2>1, <2>3 DEF PayoutTypeOK, Live
  <2>5. call'[c].pc = "recordCreate" /\ call'[c].arg = ref
    BY <2>1 DEF CallAt
  <2>6. \A d \in Calls : ~call'[d].fresh
    <3> SUFFICES ASSUME NEW d \in Calls PROVE ~call'[d].fresh
      OBVIOUS
    <3>1. call[d] \in CallType
      BY DEF PayoutTypeOK
    <3>2. [call[d] EXCEPT !.fresh = FALSE].fresh = FALSE
      BY <3>1 DEF CallType
    <3> QED
      BY <2>1, <3>2 DEF CallAt
  <2> QED
    BY <2>4, <2>5, <2>6 DEF LiveIsKnown, FreshCallsAreRight, Looked, PaidOutOnce
<1>5. ASSUME NEW c \in Calls, RecordCreate(c) PROVE PaidInv'
  <2> SUFFICES ASSUME gap = {} PROVE LiveIsKnown' /\ FreshCallsAreRight' /\ PaidOutOnce'
    BY <1>5 DEF PaidInv, RecordCreate
  <2>1. LiveIsKnown /\ FreshCallsAreRight /\ PaidOutOnce
    BY DEF PaidInv
  <2>2. /\ UNCHANGED transfer
        /\ call[c].pc = "recordCreate"
        /\ record' = [record EXCEPT ![call[c].arg] = "PENDING"]
        /\ ~Looked(c)'
        /\ \A d \in Calls \ {c} : call'[d] = call[d]
    BY <1>5 DEF RecordCreate, EndCall, NoCall, CallAt, Looked, PayoutTypeOK
  <2>3. ASSUME NEW p \in TransferRefs, Live(p)'
        PROVE  \/ record'[p] \in {"PENDING", "SUCCESS"}
               \/ \E d \in Calls : call'[d].pc = "recordCreate" /\ call'[d].arg = p
    <3>1. CASE p = call[c].arg
      BY <2>2, <3>1 DEF PayoutTypeOK
    <3>2. CASE p # call[c].arg
      <4>1. record'[p] = record[p]
        BY <2>2, <3>2 DEF PayoutTypeOK
      <4> QED
        BY <2>1, <2>2, <2>3, <3>2, <4>1 DEF LiveIsKnown, Live
    <3> QED
      BY <3>1, <3>2
  <2>4. FreshCallsAreRight'
    BY <2>1, <2>2 DEF FreshCallsAreRight, Looked, Live
  <2>5. PaidOutOnce'
    BY <2>1, <2>2 DEF PaidOutOnce, Live
  <2> QED
    BY <2>3, <2>4, <2>5 DEF LiveIsKnown
<1>6. ASSUME NEW c \in Calls, SuccessWrite(c) PROVE PaidInv'
  <2> SUFFICES ASSUME gap = {} PROVE LiveIsKnown' /\ FreshCallsAreRight' /\ PaidOutOnce'
    BY <1>6 DEF PaidInv, SuccessWrite
  <2>1. LiveIsKnown /\ FreshCallsAreRight /\ PaidOutOnce
    BY DEF PaidInv
  <2>2. /\ UNCHANGED transfer
        /\ call[c].pc = "successWrite"
        /\ record' = [record EXCEPT ![call[c].arg] = "SUCCESS"]
        /\ ~Looked(c)'
        /\ \A d \in Calls \ {c} : call'[d] = call[d]
    BY <1>6 DEF SuccessWrite, EndCall, NoCall, CallAt, Looked, PayoutTypeOK
  <2>3. \A p \in TransferRefs : record'[p] = record[p] \/ record'[p] = "SUCCESS"
    BY <2>2 DEF PayoutTypeOK
  <2>4. LiveIsKnown'
    BY <2>1, <2>2, <2>3 DEF LiveIsKnown, Live
  <2>5. FreshCallsAreRight'
    BY <2>1, <2>2 DEF FreshCallsAreRight, Looked, Live
  <2>6. PaidOutOnce'
    BY <2>1, <2>2 DEF PaidOutOnce, Live
  <2> QED
    BY <2>4, <2>5, <2>6
<1>7. ASSUME NEW c \in Calls, CallAborts(c) PROVE PaidInv'
  <2>1. CASE call[c].pc = "recordCreate"
    BY <1>7, <2>1 DEF CallAborts, PaidInv
  <2>2. CASE call[c].pc # "recordCreate"
    <3>1. /\ UNCHANGED <<record, transfer, gap>>
          /\ \A d \in Calls \ {c} : call'[d] = call[d]
          /\ ~Looked(c)'
      BY <1>7, <2>2 DEF CallAborts, EndCall, CallAt, NoCall, PayoutTypeOK, Looked
    <3> QED
      BY <2>2, <3>1, BystanderStep DEF PayoutTypeOK, Live
  <2> QED
    BY <2>1, <2>2
<1>8. ASSUME NEW ref \in TransferRefs, PaystackSettles(ref) \/ TransferFailed(ref)
      PROVE  PaidInv'
  <2>1. UNCHANGED <<call, gap>>
    BY <1>8 DEF PaystackSettles, TransferFailed
  <2>2. \A p \in TransferRefs : Live(p)' => Live(p) /\ record'[p] = record[p]
    BY <1>8 DEF PaystackSettles, TransferFailed, PayoutTypeOK, Live
  <2> QED
    BY <2>1, <2>2 DEF PaidInv, LiveIsKnown, FreshCallsAreRight, PaidOutOnce, Looked
<1>9. ASSUME NEW account \in Accounts, UpdateProfile(account) PROVE PaidInv'
  BY <1>9 DEF UpdateProfile, PaidInv, LiveIsKnown, FreshCallsAreRight, PaidOutOnce, Looked, Live
<1> QED
  BY <1>1, <1>2, <1>3, <1>4, <1>5, <1>6, <1>7, <1>8, <1>9 DEF PayoutSteps, PayoutArises, CallProceeds, PostTransfer

(* Any number of events, admins and retries pay the seller at most once, until a *)
(* call dies before it has recorded its transfer or sends on an outdated look.   *)
THEOREM PaidOnce == SellerSpec => []PaidOutOnce
<1>1. SellerInit => PaidInv
  BY DEF SellerInit, TransferInit, PaidInv, LiveIsKnown, FreshCallsAreRight, PaidOutOnce,
         Looked, Live, NoCall, CallAt, Transfer
<1>2. PayoutTypeOK /\ PayoutTypeOK' /\ RecordsTellTheTruth /\ PaidInv /\ [SellerNext]_allVars => PaidInv'
  BY StepOfEither, PaidStep
<1>3. PaidInv => PaidOutOnce
  BY DEF PaidInv, PaidOutOnce
<1> QED
  BY <1>1, <1>2, <1>3, PayoutTypeCorrect, RecordsTruthful, PTL DEF SellerSpec

-----------------------------------------------------------------------------------
(* No transfer without a settlement in the seller's favour.                      *)

SettledForSeller == RowsOf("FULL_RELEASE") # {} \/ dispute = "RESOLVED_FOR_SELLER"

(* a call that has found the order payable has found it settled *)
CallsHaveACause ==
  (\E c \in Calls : call[c].pc \in {"recordRead", "recipientRead", "recipientCreate", "send"})
    => SettledForSeller

(* Ledger rows are never deleted and a resolution never changes.                 *)
LEMMA SettledStays ==
  ASSUME [Next]_vars, SettledForSeller
  PROVE  SettledForSeller'
<1>1. ASSUME NEW r \in Reqs, Writer(r)
      PROVE  ledger \subseteq ledger' /\ (dispute = "RESOLVED_FOR_SELLER" => dispute' = dispute)
  BY <1>1 DEF Writer, StatusWrite, ConfirmWrite, AssignWrite, ReleaseCommit, RefundCommit, HoldCommit,
              VerifyFix, VerifyWrite, ChargeSuccess, RaiseCommit, ResolveCommit, Refused
<1> QED
  BY <1>1, OnlyWritersWrite, RowsStay DEF SettledForSeller, RowsOf

LEMMA CauseStep ==
  ASSUME PayoutTypeOK, SettlementHasACause, TransferHasACause, CallsHaveACause, [SellerNext]_allVars
  PROVE  TransferHasACause' /\ CallsHaveACause'
<1>1. CASE SettledForSeller
  BY <1>1, StepOfEither, SettledStays DEF TransferHasACause, CallsHaveACause, SettledForSeller, vars
<1>2. CASE ~SettledForSeller
  <2>1. /\ \A ref \in TransferRefs : ~Sent(ref)
        /\ \A c \in Calls : call[c].pc \notin {"recordRead", "recipientRead", "recipientCreate", "send"}
        /\ ~Payable
    BY <1>2 DEF TransferHasACause, CallsHaveACause, SettlementHasACause, SettledForSeller, Payable
  <2>2. CASE UNCHANGED payoutVars
    BY <2>1, <2>2 DEF payoutVars, TransferHasACause, CallsHaveACause, Sent
  <2>3. ASSUME NEW c \in Calls,
               \/ OnEscrowReleased(c) \/ CallProceeds(c) \/ CallAborts(c)
               \/ \E ref \in TransferRefs : TransferSuccess(c, ref)
        PROVE  TransferHasACause' /\ CallsHaveACause'
    <3>1. UNCHANGED transfer
      BY <2>1, <2>3 DEF OnEscrowReleased, CallProceeds, CallAborts, TransferSuccess, OrderRead, RecordRead,
                        RecipientRead, RecipientCreate, Send, RecordCreate, SuccessWrite
    <3>2. /\ call'[c].pc \notin {"recordRead", "recipientRead", "recipientCreate", "send"}
          /\ \A d \in Calls \ {c} : call'[d] = call[d]
      BY <2>1, <2>3 DEF OnEscrowReleased, CallProceeds, CallAborts, TransferSuccess, OrderRead, RecordRead,
                        RecipientRead, RecipientCreate, Send, RecordCreate, SuccessWrite,
                        Step, EndCall, CallAt, NoCall, PayoutTypeOK
    <3> QED
      BY <2>1, <3>1, <3>2 DEF TransferHasACause, CallsHaveACause, Sent
  <2>4. ASSUME NEW ref \in TransferRefs, PaystackSettles(ref) \/ TransferFailed(ref)
        PROVE  TransferHasACause' /\ CallsHaveACause'
    BY <2>1, <2>4 DEF PaystackSettles, TransferFailed, TransferHasACause, CallsHaveACause, Sent
  <2>5. ASSUME NEW account \in Accounts, UpdateProfile(account)
        PROVE  TransferHasACause' /\ CallsHaveACause'
    BY <2>1, <2>5 DEF UpdateProfile, TransferHasACause, CallsHaveACause, Sent
  <2> QED
    BY <2>2, <2>3, <2>4, <2>5, StepOfEither DEF PayoutSteps, PayoutArises, PostTransfer
<1> QED
  BY <1>1, <1>2

(* Every transfer goes back to a release row or a dispute resolved for the       *)
(* seller, across the two halves of the system.                                  *)
THEOREM TransferCaused == SellerSpec => []TransferHasACause
<1>1. SellerInit => TransferHasACause /\ CallsHaveACause
  BY DEF SellerInit, TransferInit, TransferHasACause, CallsHaveACause, Sent, NoCall, CallAt, Transfer
<1>2. PayoutTypeOK /\ SettlementHasACause /\ TransferHasACause /\ CallsHaveACause /\ [SellerNext]_allVars
        => TransferHasACause' /\ CallsHaveACause'
  BY CauseStep
<1>3. SellerSpec => []SettlementHasACause
  BY PayoutsLeaveOrder, SettlementCaused, PTL
<1> QED
  BY <1>1, <1>2, <1>3, PayoutTypeCorrect, PTL DEF SellerSpec

(* The seller is not paid for an order that is refunded: the cause of a transfer *)
(* shows in the escrow column, which says RELEASED for good.                     *)
THEOREM PaidOrRefunded == SellerSpec => []NotPaidAndRefunded
<1>1. CustodyInv /\ TransferHasACause => NotPaidAndRefunded
  BY DEF CustodyInv, InStep, BookedOnce, TransferHasACause, NotPaidAndRefunded
<1>2. SellerSpec => []CustodyInv
  BY PayoutsLeaveOrder, CustodyAlways, PTL
<1> QED
  BY <1>1, <1>2, TransferCaused, PTL

-----------------------------------------------------------------------------------
(* The payout of a release, while nothing fails.                                 *)

(* A release that its listener has still to hear of, or a call on the way to send *)
OnItsWay ==
  \/ \E r \in Reqs : req[r].pc = "releaseDone"
  \/ \E c \in Calls : call[c].pc \in {"orderRead", "recordRead", "recipientRead", "recipientCreate", "send"}
MoneySent == \E ref \in TransferRefs : Sent(ref)

(* a record, and what is on its way to one, belongs to a transfer                *)
RecordsAreSent ==
  /\ \A ref \in TransferRefs : record[ref] # "NONE" => Sent(ref)
  /\ \A c \in Calls : call[c].pc \in {"recordCreate", "successWrite"} => Sent(call[c].arg)

(* a call that comes late to create the recipient has lost to one that sends     *)
LateCallsLost ==
  (\E c \in Calls : call[c].pc = "recipientCreate") /\ recipient # NoAccount
    => (\E d \in Calls : call[d].pc = "send") \/ MoneySent

(* what the steps of the payouts do to the other calls and to the transfers      *)
LEMMA OthersStay ==
  ASSUME PayoutTypeOK, NEW c \in Calls,
         OnEscrowReleased(c) \/ CallProceeds(c) \/ \E ref \in TransferRefs : TransferSuccess(c, ref)
  PROVE  /\ \A d \in Calls \ {c} : call'[d].pc = call[d].pc /\ call'[d].arg = call[d].arg
         /\ \A ref \in TransferRefs : Sent(ref) => Sent(ref)'
<1>1. CASE Send(c)
  <2>1. \A d \in Calls : /\ [call[d] EXCEPT !.fresh = FALSE].pc = call[d].pc
                         /\ [call[d] EXCEPT !.fresh = FALSE].arg = call[d].arg
    BY DEF PayoutTypeOK, CallType
  <2> QED
    BY <1>1, <2>1 DEF Send, Sent, PayoutTypeOK, Transfer
<1>2. CASE ~Send(c)
  BY <1>2 DEF OnEscrowReleased, CallProceeds, TransferSuccess, OrderRead, RecordRead, RecipientRead,
              RecipientCreate, RecordCreate, SuccessWrite, Step, EndCall, PayoutTypeOK, Sent
<1> QED
  BY <1>1, <1>2

(* what Paystack and the seller do leaves the calls alone                        *)
LEMMA EventsLeaveCalls ==
  ASSUME PayoutTypeOK,
         \/ \E ref \in TransferRefs : PaystackSettles(ref) \/ TransferFailed(ref)
         \/ \E account \in Accounts : UpdateProfile(account)
         \/ UNCHANGED payoutVars
  PROVE  /\ UNCHANGED <<call, recipient>>
         /\ \A ref \in TransferRefs : Sent(ref) => Sent(ref)'
         /\ \A ref \in TransferRefs : record'[ref] = record[ref] \/ Sent(ref)
  BY DEF PaystackSettles, TransferFailed, UpdateProfile, payoutVars, PayoutTypeOK, Sent

(* the steps of the composed system, failures aside                              *)
LEMMA SteadySteps ==
  ASSUME [SellerSteps]_allVars
  PROVE  \/ \E c \in Calls : \/ OnEscrowReleased(c) \/ CallProceeds(c)
                             \/ \E ref \in TransferRefs : TransferSuccess(c, ref)
         \/ \E ref \in TransferRefs : PaystackSettles(ref) \/ TransferFailed(ref)
         \/ \E account \in Accounts : UpdateProfile(account)
         \/ UNCHANGED payoutVars
  BY DEF SellerSteps, ReleaseDoneAndHeard, PayoutSteps, PayoutArises, PostTransfer, allVars

LEMMA RecordsStep ==
  ASSUME PayoutTypeOK, PayoutTypeOK', RecordsAreSent, [SellerSteps]_allVars
  PROVE  RecordsAreSent'
<1>1. ASSUME NEW c \in Calls,
             OnEscrowReleased(c) \/ CallProceeds(c) \/ \E ref \in TransferRefs : TransferSuccess(c, ref)
      PROVE  RecordsAreSent'
  <2>0. /\ \A d \in Calls \ {c} : call'[d].pc = call[d].pc /\ call'[d].arg = call[d].arg
        /\ \A ref \in TransferRefs : Sent(ref) => Sent(ref)'
    BY <1>1, OthersStay
  <2>1. ASSUME NEW ref \in TransferRefs, record'[ref] # "NONE"
        PROVE  Sent(ref)
    BY <1>1, <2>1, CallArgs DEF RecordsAreSent, OnEscrowReleased, CallProceeds, TransferSuccess, OrderRead,
          RecordRead, RecipientRead, RecipientCreate, Send, RecordCreate, SuccessWrite, PayoutTypeOK
  <2>2. ASSUME call'[c].pc \in {"recordCreate", "successWrite"}
        PROVE  Sent(call[c].arg)'
    <3>1. CASE Send(c)
      BY <3>1 DEF Send, CallAt, Sent, Transfer, PayoutTypeOK
    <3>2. ASSUME NEW ref \in TransferRefs, TransferSuccess(c, ref)
          PROVE  Sent(call[c].arg)'
      BY <3>2 DEF TransferSuccess, Step, CallAt, Sent, PayoutTypeOK
    <3>3. CASE \/ OnEscrowReleased(c) \/ OrderRead(c) \/ RecordRead(c) \/ RecipientRead(c)
               \/ RecipientCreate(c) \/ RecordCreate(c) \/ SuccessWrite(c)
      BY <2>2, <3>3 DEF OnEscrowReleased, OrderRead, RecordRead, RecipientRead, RecipientCreate, RecordCreate,
                        SuccessWrite, Step, EndCall, NoCall, CallAt, PayoutTypeOK
    <3> QED
      BY <1>1, <3>1, <3>2, <3>3 DEF CallProceeds
  <2>3. ASSUME NEW d \in Calls, call'[d].pc \in {"recordCreate", "successWrite"}, d # c
        PROVE  Sent(call[d].arg)'
    <3>1. call[d].arg \in TransferRefs /\ Sent(call[d].arg) /\ call'[d].arg = call[d].arg
      BY <2>0, <2>3, CallArgs DEF RecordsAreSent
    <3> QED
      BY <2>0, <3>1 DEF Sent
  <2> QED
    BY <2>0, <2>1, <2>2, <2>3 DEF RecordsAreSent
<1>2. CASE \/ \E ref \in TransferRefs : PaystackSettles(ref) \/ TransferFailed(ref)
           \/ \E account \in Accounts : UpdateProfile(account)
           \/ UNCHANGED payoutVars
  <2>1. /\ UNCHANGED call
        /\ \A ref \in TransferRefs : Sent(ref) => Sent(ref)'
        /\ \A ref \in TransferRefs : record'[ref] = record[ref] \/ Sent(ref)
    BY <1>2, EventsLeaveCalls
  <2>2. ASSUME NEW d \in Calls, call'[d].pc \in {"recordCreate", "successWrite"}
        PROVE  Sent(call[d].arg)'
    <3>1. call[d].arg \in TransferRefs /\ Sent(call[d].arg)
      BY <2>1, <2>2, CallArgs DEF RecordsAreSent
    <3> QED
      BY <2>1, <3>1 DEF Sent
  <2> QED
    BY <2>1, <2>2 DEF RecordsAreSent
<1> QED
  BY <1>1, <1>2, SteadySteps

LEMMA LateCallsStep ==
  ASSUME PayoutTypeOK, LateCallsLost, [SellerSteps]_allVars
  PROVE  LateCallsLost'
<1>1. ASSUME NEW c \in Calls,
             OnEscrowReleased(c) \/ CallProceeds(c) \/ \E ref \in TransferRefs : TransferSuccess(c, ref)
      PROVE  LateCallsLost'
  <2>0. /\ \A d \in Calls \ {c} : call'[d].pc = call[d].pc
        /\ MoneySent => MoneySent'
    BY <1>1, OthersStay DEF MoneySent
  <2>1. CASE Send(c)
    <3>1. MoneySent'
      BY <2>1 DEF Send, Sent, Transfer, PayoutTypeOK, MoneySent
    <3> QED
      BY <3>1 DEF LateCallsLost
  <2>2. CASE RecipientRead(c)
    BY <2>0, <2>2 DEF RecipientRead, Step, EndCall, NoCall, CallAt, PayoutTypeOK, LateCallsLost
  <2>3. CASE RecipientCreate(c)
    BY <2>0, <2>3 DEF RecipientCreate, Step, EndCall, NoCall, CallAt, PayoutTypeOK, LateCallsLost
  <2>4. CASE \/ OnEscrowReleased(c) \/ OrderRead(c) \/ RecordRead(c) \/ RecordCreate(c) \/ SuccessWrite(c)
             \/ \E ref \in TransferRefs : TransferSuccess(c, ref)
    <3>1. /\ call[c].pc # "send" /\ call'[c].pc # "recipientCreate" /\ UNCHANGED recipient
      BY <2>4 DEF OnEscrowReleased, OrderRead, RecordRead, RecordCreate, SuccessWrite, TransferSuccess,
                  Step, EndCall, NoCall, CallAt, PayoutTypeOK
    <3> QED
      BY <2>0, <3>1 DEF LateCallsLost
  <2> QED
    BY <1>1, <2>1, <2>2, <2>3, <2>4 DEF CallProceeds
<1>2. CASE \/ \E ref \in TransferRefs : PaystackSettles(ref) \/ TransferFailed(ref)
           \/ \E account \in Accounts : UpdateProfile(account)
           \/ UNCHANGED payoutVars
  BY <1>2, EventsLeaveCalls DEF LateCallsLost, MoneySent
<1> QED
  BY <1>1, <1>2, SteadySteps

(* a release that nobody has heard of yet waits for its listener                 *)
LEMMA ReleaseWaits ==
  ASSUME TypeOK, Arise \/ (\E r \in Reqs : Proceed(r)) \/ UNCHANGED vars,
         NEW q \in Reqs, req[q].pc = "releaseDone"
  PROVE  req'[q].pc = "releaseDone"
<1>0. Clients \subseteq Reqs /\ Worker \in Reqs
  BY DEF Reqs
<1>1. ASSUME NEW r \in Clients, Start(r)
      PROVE  req[r].pc = "idle"
  BY <1>1 DEF Start, UpdateStatus, ConfirmByBuyer, AssignRider, AdminRelease, RefundFunds, AdminHold,
              VerifyByReference, ChargeSuccess, ChargeFailed, RaiseDispute, ResolveDispute
<1>2. ASSUME NEW r \in Reqs, Proceed(r)
      PROVE  req[r].pc # "releaseDone"
  BY <1>2 DEF Proceed, StatusWrite, ConfirmWrite, AssignWrite, ReleaseRead, ReleaseCommit, RefundCommit,
              RefundDone, HoldRead, HoldCommit, ScheduleJob, VerifyFix, VerifyWrite, FailWrite, RaiseCommit,
              ResolveCommit
<1>3. ASSUME NEW r \in Reqs, Start(r) \/ Proceed(r), r # q
      PROVE  req'[q].pc = req[q].pc
  BY <1>3, StepMoves DEF Continue, Stays
<1>4. CASE JobFires
  BY <1>4 DEF JobFires, Goto, TypeOK
<1>5. CASE UNCHANGED req
  BY <1>5
<1> QED
  BY <1>0, <1>1, <1>2, <1>3, <1>4, <1>5 DEF Arise, InitiatePayment, CustomerPays, JobPruned, vars

(* While nothing fails, a payout on its way stays on its way until the money is   *)
(* sent: no call of a released order ends but one that another has overtaken.    *)
LEMMA NotDroppedStep ==
  ASSUME TypeOK, PayoutTypeOK, RecordsAreSent, LateCallsLost, Payable, bank # NoAccount, OnItsWay,
         [SellerSteps]_allVars
  PROVE  OnItsWay' \/ MoneySent'
<1>1. ASSUME NEW c \in Calls,
             OnEscrowReleased(c) \/ CallProceeds(c) \/ \E ref \in TransferRefs : TransferSuccess(c, ref)
      PROVE  (\E d \in Calls : call[d].pc \in {"orderRead", "recordRead", "recipientRead", "recipientCreate", "send"})
               => OnItsWay' \/ MoneySent'
  <2>0. /\ \A d \in Calls \ {c} : call'[d].pc = call[d].pc
        /\ MoneySent => MoneySent'
    BY <1>1, OthersStay DEF MoneySent
  <2>1. CASE Send(c)
    BY <2>1 DEF Send, Sent, Transfer, PayoutTypeOK, MoneySent
  <2>2. CASE OnEscrowReleased(c) \/ OrderRead(c) \/ RecipientRead(c)
    BY <2>2 DEF OnEscrowReleased, OrderRead, RecipientRead, Step, CallAt, PayoutTypeOK, OnItsWay
  <2>3. CASE RecordRead(c)
    <3>1. CASE ExistingTransfer
      BY <2>0, <3>1 DEF ExistingTransfer, RecordsAreSent, MoneySent
    <3>2. CASE ~ExistingTransfer
      BY <2>3, <3>2 DEF RecordRead, CallAt, PayoutTypeOK, OnItsWay
    <3> QED
      BY <3>1, <3>2
  <2>4. CASE RecipientCreate(c)
    <3>1. CASE recipient = NoAccount
      BY <2>4, <3>1 DEF RecipientCreate, Step, CallAt, PayoutTypeOK, OnItsWay
    <3>2. CASE recipient # NoAccount
      BY <2>0, <2>4, <3>2 DEF RecipientCreate, LateCallsLost, OnItsWay
    <3> QED
      BY <3>1, <3>2
  <2>5. CASE RecordCreate(c) \/ SuccessWrite(c) \/ \E ref \in TransferRefs : TransferSuccess(c, ref)
    BY <2>0, <2>5 DEF RecordCreate, SuccessWrite, TransferSuccess, OnItsWay
  <2> QED
    BY <1>1, <2>1, <2>2, <2>3, <2>4, <2>5 DEF CallProceeds
<1>2. CASE \E r \in Reqs : ReleaseDoneAndHeard(r)
  BY <1>2 DEF ReleaseDoneAndHeard, OnEscrowReleased, Step, CallAt, PayoutTypeOK, OnItsWay
<1>3. CASE UNCHANGED payoutVars /\ (Arise \/ (\E r \in Reqs : Proceed(r)) \/ UNCHANGED vars)
  BY <1>3, ReleaseWaits DEF payoutVars, OnItsWay
<1>4. CASE PayoutSteps /\ UNCHANGED vars
  <2>1. CASE \E r \in Reqs : req[r].pc = "releaseDone"
    BY <1>4, <2>1 DEF vars, OnItsWay
  <2>2. CASE UNCHANGED call
    BY <1>4, <2>2 DEF vars, OnItsWay
  <2>3. \/ UNCHANGED call
        \/ \E c \in Calls : \/ OnEscrowReleased(c) \/ CallProceeds(c)
                             \/ \E ref \in TransferRefs : TransferSuccess(c, ref)
    BY <1>4 DEF PayoutSteps, PayoutArises, PostTransfer, PaystackSettles, TransferFailed, UpdateProfile
  <2> QED
    BY <1>1, <2>1, <2>2, <2>3 DEF OnItsWay
<1> QED
  BY <1>2, <1>3, <1>4 DEF SellerSteps, allVars, payoutVars

(* The safety half of ReleaseReachesSeller: while nothing fails, no step of an    *)
(* undisturbed release whose seller has bank details drops the payout.  Of two    *)
(* calls one may end because of the other, but then the other sends or has sent.  *)
THEOREM PayoutNotDropped ==
  SteadySellerSpec =>
    [][Undisturbed /\ RowsOf("FULL_RELEASE") # {} /\ bank # NoAccount /\ OnItsWay
         => OnItsWay' \/ MoneySent']_allVars
<1>1. SellerInit => RecordsAreSent /\ LateCallsLost
  BY DEF SellerInit, TransferInit, RecordsAreSent, LateCallsLost, NoCall, CallAt
<1>2. PayoutTypeOK /\ PayoutTypeOK' /\ RecordsAreSent /\ LateCallsLost /\ [SellerSteps]_allVars
        => RecordsAreSent' /\ LateCallsLost'
  BY RecordsStep, LateCallsStep
<1>3. Undisturbed /\ RowsOf("FULL_RELEASE") # {} /\ CustodyInv => Payable
  BY DEF CustodyInv, InStep, BookedOnce, Payable
<1>4. TypeOK /\ PayoutTypeOK /\ CustodyInv /\ RecordsAreSent /\ LateCallsLost /\ [SellerSteps]_allVars
        => [Undisturbed /\ RowsOf("FULL_RELEASE") # {} /\ bank # NoAccount /\ OnItsWay
              => OnItsWay' \/ MoneySent']_allVars
  BY <1>3, NotDroppedStep
<1>5. [SellerSteps]_allVars => [SellerNext]_allVars
  BY DEF SellerNext
<1>6. SteadySellerSpec => SellerSpec
  BY <1>5, PTL DEF SteadySellerSpec, SellerSpec
<1>7. SellerSpec => [](TypeOK /\ CustodyInv)
  BY PayoutsLeaveOrder, TypeCorrect, CustodyAlways, PTL
<1> QED
  BY <1>1, <1>2, <1>4, <1>6, <1>7, PayoutTypeCorrect, PTL DEF SteadySellerSpec
=================================================================================
