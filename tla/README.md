# EaseWaybill in TLA+

Specifications of EaseWaybill: a seller creates an order, the buyer pays through
Paystack into an escrow, the goods travel, and the escrow is released to the seller
or refunded to the buyer, by the buyer's confirmation, an admin, a dispute, or a job
that fires by itself. The back end (`src/easewaybill-api`) is one NestJS program over
PostgreSQL (Prisma) and a Redis queue (BullMQ); the web client (`src/easewaybill`) is a
Next.js application. Nothing in either locks an order or an account: any number of requests,
webhooks, workers and browser tabs act on the same rows at the same time, most handlers
read a row, check it, await, and then write it without a condition, and every page
decides by what it fetched some time ago. These specifications are about what that
leaves standing.

Paths below are relative to `src/easewaybill-api/src/modules` or `src/easewaybill`.
Several files begin with an older version of themselves, commented out as a
whole; the line numbers in `PROJECT.json` are those of the live code.

## 1. The system

| Component | State it keeps | Operations that change it | Talks to |
|---|---|---|---|
| Status table (`orders/order-state-machine.ts`) | none | `validateTransition` decides | called by `updateStatus` only |
| Orders (`orders/orders.service.ts`) | the Order row: status, buyer, rider | `create`, `updateStatus`, `confirmByBuyer`, `assignRider` | escrow (`releaseFunds`), events |
| Escrow (`escrow/escrow.service.ts`) | `escrowStatus`, EscrowTransaction rows, audit log | `holdFunds`, `releaseFunds`, `refundFunds`, `adminRelease`, `scheduleAutoRelease`, `cancelAutoRelease` | queue, event `ESCROW_RELEASED` |
| Auto-release worker (`escrow/escrow.processor.ts`) | the job `auto-release-<orderId>` | `process`: `releaseFunds(.., 'auto-release')` | escrow |
| Payments (`payments/payments.service.ts`) | PaymentRecord rows | `initiatePayment`, `verifyByReference` | Paystack, escrow (`holdFunds`) |
| Charge webhook (`payments/webhook.service.ts`) | the same rows | `handleChargeSuccess`, `handleChargeFailed` | escrow (`scheduleAutoRelease`), events |
| Disputes (`disputes/disputes.service.ts`) | Dispute row, timeline | `raise`, `resolve` | writes the order's two status columns itself |
| Transfers (`payments/transfer.service.ts`, `transfer.listener.ts`) | TransferRecord, recipient | listener on `ESCROW_RELEASED`, `initiateTransfer`, transfer webhooks | Paystack |
| Admin, users (`admin/admin.service.ts`, `users/users.service.ts`) | User rows | suspend, change role, create, deactivate, profile | guards read the rows |
| Auth (`auth/auth.service.ts`) | refresh and reset columns of the User row | register, login, refresh, logout, reset | e-mail queue |
| Notifications (`notifications/`) | Notification rows, mail jobs | listeners on events, mark read | Redis, SMTP |
| Waybills (`waybills/waybills.service.ts`) | WaybillEvent rows | `scan` | public tracking |
| Messages (`messages/messages.service.ts`) | OrderMessage rows | `send` | |
| Guards (`common/guards`) | none | | User row |
| Web client: session (`lib/api/client.ts`, `lib/hooks/useAuth.ts`) | tokens in localStorage and in memory | interceptors, forms | auth |
| Web client: pages about orders | the order last fetched, modals, a poll | clicks | orders, payments, disputes, admin |
| Web client: inbox (`useNotifications`, `useMessages`) | lists, an optimistic message | mark, send, poll | notifications, messages |
| Web client: forms (create order, settings) | inputs, timers | submit, save | orders, users |

What is hard in it (every item has its line under `hazards` in `PROJECT.json`):

* **Orders.** Check and write are two statements. A slow `updateStatus` writes its
  status over whatever happened since. Correct means: every status change follows the table,
  and status and `escrowStatus` tell one story.
* **Escrow.** The transaction that books a release does not look at the order again
  and its references contain `Date.now()`, so two of them do not collide. Correct
  means: money is held once, leaves once, and never without a hold.
* **Auto-release.** The job is scheduled after the commit of the hold (a crash in
  between loses it), counts from the payment, retries, cannot be removed while a
  worker runs it, and takes several refusals for success. Correct means: a
  delivered order whose job is queued does not wait for ever.
* **Payments.** Webhook, polling and `POST /escrow/hold` compete to fund one order;
  events are repeated, delayed and reordered; amounts may be wrong. Correct means:
  one hold, for a charge paid in full.
* **Disputes.** `raise` and `resolve` write the order row directly. Correct means:
  decided once, and funds frozen while open.
* **Transfers.** A call to Paystack between a check and a record; an in-process
  event that dies with its process. Correct means: the seller is paid once.
* **Admin and auth.** Last-admin checks, token rotation and reset links are read-then-write.
  Correct means: an admin remains, a logout is final, parallel refreshes throw nobody out, a suspension
  bites in the end.
* **Notifications.** Events and listeners meet by name; listeners are sequences of awaited
  calls nothing repeats; two transactions emit before they commit. Correct means: nobody reads of what did
  not happen, and a buyer is told of the delivery.
* **Pages.** What a page offers is decided by ids and addresses, what a handler
  accepts by one contextual role; a page is stale as soon as it is shown. Correct means: what is offered
  to somebody up to date is accepted, a stale click is not, nobody is stuck, and all pages tell one story.
* **Inbox and forms.** Answers overtake each other, timers hand over late, nothing is
  idempotent. Correct means: nothing read turns unread, nothing invented or lost, one form makes one order.

## 2. Modules

| Module | Models |
|---|---|
| `OrderStateMachine` | the transition table with its roles, `validateTransition` |
| `OrderRecords` | the rows, the job, Paystack's view of each charge, requests in flight; how a row is read and written |
| `OrdersService`, `EscrowService`, `PaymentsService`, `DisputesService` | one action per step of each handler of the file of that name; the webhook's charge events are in `PaymentsService`, the worker in `EscrowService` |
| `Custody` | the abstract specification: where the money of an order is, and what the order says of it |
| `EaseWaybill` | composes the services: crashes, Init, Next, fairness, the properties, the refinement of `Custody` |
| `TransferService` | one action per step of `initiateTransfer`, the listener, the transfer events; Paystack's transfers and the bank account in the profile |
| `SellerPayout` | composes `EaseWaybill` with the transfers; the payouts of a released order by themselves |
| `UserRecords`, `AdminService`, `AuthService` | the User rows and the handlers that write them, as read and write steps |
| `Accounts` | composes the three |
| `WebSession` | one account and the browser it is used from, on top of `AuthService`: tabs, the interceptors, localStorage |
| `OrderPages`, `OrderLists` | pure operators: what each page offers for one order, and where it counts, lists or links it |
| `Endpoints` | which roles the guards let through to which handler |
| `OrderDesk` | one order with its parties at work and one open page: composes the three above with the checks of the handlers |
| `Notices` | events, listeners, notification rows and the mail queue of one order |
| `Inbox` | one reader of notifications and of a message thread |
| `Forms` | the order form and the profile form |
| `MC*` | symmetry for TLC |
| `EaseWaybillProofs`, `SellerPayoutProofs`, `AccountsProofs`, `WebSessionProofs`, `OrderDeskProofs`, `FormsProofs`, `InboxProofs`, `NoticesProofs` | theorems and their proofs |

`SellerPayout` joins its two halves at one place: `ReleaseDone` (the statements of
`releaseFunds` after its commit) starts the listener in the same step. In the other
direction the transfers only read the order row. `WebSession` uses the actions of
`AuthService` as they are: the server's task `c` works on the browser's call `c`. `OrderDesk` and `Notices`
have an order row of their own, each reduced to what pages and listeners see of it. Both let a handler write
over an order newer than the one it has read: `OrderDesk` by a check and a write apart, `Notices` by an index into
`past`. Which rows such a write leaves behind in the ledger is left to `EaseWaybill`.

### How state corresponds to the code

| Variable | Code |
|---|---|
| `order` (`EaseWaybill`) | `status`, `escrowStatus` of the Order row, and whether `buyerId` and `riderId` are set |
| `ledger` | EscrowTransaction rows: type and `paystackRef`, which is unique. A hold's key is its charge reference, a payout row's key its `Date.now()` |
| `dispute` | status of the Dispute row (`orderId` is unique); `NONE` without a row |
| `payment` | status of each PaymentRecord |
| `charge` | what Paystack answers about each reference: not created, open, paid, paid with another amount |
| `job` | the BullMQ job: absent, delayed, active, completed, failed, and the attempts used |
| `req` | for each request in flight the step it takes next and what it carries |
| `anomaly` | ghost, see below |
| `record` | status of each TransferRecord |
| `transfer` | what Paystack did with each transfer, and the account it went to |
| `bank`, `recipient` | the account in the seller's profile; the one behind the TransferRecipient row (`userId` is unique) |
| `call` (`SellerPayout`) | payout calls and transfer events in progress, like `req` |
| `gap` (`SellerPayout`) | ghost, see below |
| `user` | role, status, whether `refreshToken` is set, and the link in `passwordResetToken` of each User row |
| `live` | accounts for which an unexpired access token exists |
| `uses`, `task`, `overtaken` (`Accounts`) | how often each link set a password; requests in flight; ghost |
| `stored`, `persisted`, `memory` | the keys `accessToken`/`refreshToken`, the key `easewaybill-auth`, the store of each tab |
| `order`, `checkout`, `events` (`OrderDesk`) | the row with its parties, dispute and timestamps; its payment, from the record to the hold; its WaybillEvent rows |
| `asked`, `late` (`OrderDesk`) | `verifyByReference` waits for Paystack; 72 hours have passed since the delivery |
| `tab`, `viewer` | the open page: the order in its state, `isLoading`, `error`, the modal, `?callback=true`; whose it is |
| `order`, `past`, `dispute` (`Notices`) | the row; what it was before each write, which handlers at work may have read; the Dispute row |
| `running`, `rows`, `mails`, `tx` (`Notices`) | what each listener still has to do; Notification rows; mail jobs; a transaction that has emitted and not committed |
| `list`, `asked`, `patch` / `chat`, `fetch`, `polls`, `post` (`Inbox`) | the state of `useNotifications` and of `useMessages` with their calls |
| `view`, `field`, `rest`, `posts` / `stored`, `user`, `form`, `saves` (`Forms`) | the copy of the fields the width of the window shows; the inputs, both copies of each address, and the calls of the order form; the bank columns and their two copies in the client |

The models are about one order, one reader, one browser: handlers for different
orders touch disjoint rows, except that a reference of another order is refused before anything
is written. Pages that add up many orders show the sum of what `OrderLists` says of each.

### How actions correspond to the code

A handler is split where another request can come between: after the read of the
row that its checks use, and after a commit when more statements follow.
`updateStatus` is `UpdateStatus` (read, role, table) then `StatusWrite`;
`releaseFunds` is `ReleaseRead` (refusals), `ReleaseCommit` (hold looked up, fee and
release rows and order row in one transaction), `ReleaseDone` (the job is pulled
or completed); `resetPassword` is `ResetRead` then `ResetWrite`, with the hash between them. What is guarded
inside the same database transaction at the
Serializable level, as in `handleChargeSuccess`, is one step. `initiatePayment` is one
step because it only creates a row of its own.

Where a check reads the ledger and the commit follows, the check is made at the
commit. Hold rows are never deleted, so that a request which found a hold still
finds it: no outcome is lost for release and refund. `holdFunds` is checked at its
reading, because there the question is whether a hold has come since.

`Abort` ends a request at any step: an exception, a lost process. What is committed
stays. An aborted worker costs the job an attempt; after `MaxAttempts` (3 in the
code) it is failed. Messages from Paystack are not queued: `ChargeSuccess` and
`ChargeFailed` may happen at any time after the charge, any number of times or
never, which covers loss, delay, repetition and any order. Time is abstracted:
the 48 hours of the job, the 72 hours of the dispute window, the 15 minutes of an access token, the
300 ms of a debounce end at any time.

In the client a call is sent, served and answered in separate steps, and may be lost in each;
a component that is unmounted hears no answer, which is the `cancelled` flag of its effect. Rendering is a
function of the state, so that buttons are the operators of `OrderPages`. A fetch
is one step at its answer: the page has nothing to click until then, and a refetch drops the answer it overtakes,
so that an answer that travels is the same as a row that moves on after it is shown.

### Ghosts

They are written and never read by an action, and say exactly what the checks of
the code are worth.

* `anomaly`: `WriteOrder` adds `"lostUpdate"` when a request writes the order row after
  somebody else wrote it since its reading; `VerifyWrite` adds `"blindPaid"` when polling sets
  an order to PAID that was not waiting for a payment. `NoLostUpdate =>` and `Undisturbed =>` make the
  conditional properties: all of these promises hold if `order.update` is conditioned on the row read,
  the way `resolve()` conditions the dispute row, and each is broken by a write that is not.
* `gap` (payouts): `"unrecorded"` when a call dies after Paystack has accepted its transfer
  and before the record, `"overtaken"` when a call sends although another one has sent since it looked at
  the records (or was about to record then). In `Notices`: a listener or mail failed, or money was spoken
  of by hand (`"untold"`, `"money"`); a handler wrote an order it had read before somebody else wrote it, or polling
  wrote one it had not read (`"overtaken"`), and such a write linked the buyer (`"linkedLate"`).
* `overtaken`: in `Accounts` a write of a caller who is no admin any more, or of a link no longer in the row; in
  `OrderDesk` the number of writes on an outdated reading, and of verifications that set an order to PAID which waited
  for no payment; in `Forms` a suggestion picked while a timer of its field was running.
* `happened` in `Notices`: the statuses and movements of money that were committed.
* `out`, `raced`, `settled`, `late` in `WebSession`; `clicked`, `mine`, `reached` in `OrderDesk`; `raced` in `Inbox`;
  `touched`, `heard`, `story` in `Forms`: what the person has done or was shown.

## 3. Runs

| Run | Question | Instance |
|---|---|---|
| `race` | Two requests and the worker on one order with one charge: `HoldingIsBacked`, `SettlementHasACause`, `DisputeDecidedOnce` always; `HeldAndReleasedOnce` without lost update; `FundsMoveOnce`, `ColumnsAgree`, `NoReleaseUnderDispute` undisturbed; `KeepsCustody`: all of it implements `Custody` | 2 clients, 1 charge, 1 manual reference, 2 stamps, 1 attempt; 2.1 million states |
| `charges` | Two charges and an admin's hold compete: `TypeOK`, `PayoutsAreBacked`, `HoldsAreFullyPaid` always; `StatusFollowsTable` undisturbed; `AutoReleaseSettles`: a delivered order whose job is queued leaves the escrow unless every attempt dies or a write disturbs it | 1 client, 2 charges, 1 manual reference, 3 attempts; 0.8 million states |
| `transfers` | `RecordsTellTheTruth` always, `PaidOutOnce` without a gap: listeners, admins and Paystack's events on one released order (`PayoutsAlone`), with crashes | 3 calls, 3 transfers, 2 accounts; 0.2 million states |
| `payout` | `PayoutTypeOK`, `TransferHasACause` always, `NotPaidAndRefunded` undisturbed: the whole life of an order with its payout and crashes everywhere | 1 client, 1 charge, 1 call, 1 transfer; 0.1 million states |
| `reach` | `ReleaseReachesSeller`: a release leads to a transfer by itself if the profile has bank details and nothing crashes | 1 client, 2 calls, 1 transfer, no symmetry; 0.5 million states |
| `accounts` | `AdminRemains`, `LinkUsedOnce`, `SuspensionBites` | 2 accounts, 2 requests, 1 reset link; 0.8 million states |
| `sessions` | `LogoutHolds`, `KeptSignedIn`, `NoRefreshStorm` | 2 tabs, 2 calls; 2.7 million states |
| `desk` | `OfferedIsAccepted`, `NobodyStuck`, `StaleClickRefused`, `OwnChangeShown`, `PagesTellOneStory`, `ListsAgree`, and `PaymentIsShown` under fairness | seller, buyer, rider, admin; the buyer's page; 2 calls, 1 scan, verification before its webhook, or overtaken write; 0.9 million states |
| `notices` | `ToldWhatHappened`, and `DeliveryIsTold` under fairness | 2 tries, 1 event at work, 2 mails, 1 overtaken write, 1 failure; 1.3 million states |
| `inbox` | `NothingInvented`, `ReadStaysRead`, and `HeardWhileListening` under fairness | 2 notifications, 2 messages, 2 calls of a kind |
| `forms` | `OrderAsShown`, `NoSecondOrder`, `AccountAsShown` | 1 address field in two copies, 2 addresses, 2 accounts, 2 calls; 1.2 million states |
| `double_release` | expects a violation of `ReleasedOnce`: `escrow.service.spec.ts:208` says a second release throws; the buyer's confirmation and the job that both read HOLDING both book one. No crash is to blame (`SteadySpec`) | 1 client, 1 charge, 2 stamps |

**Bounds.** Every race here is between two writers that read the same row, and in `race` the worker
is always there as one more, so two clients give races of three. A second payout needs a second stamp; two
stamps let any double payout appear. One more transfer than that is there in `transfers`,
so that a reversal, a retry and a double payment fit into one run. A release that finds
no idle element of `Calls` for its listener waits: a bound of the instance, which hides nothing in
`reach`, where the calls that are in the way pay. The `race` run has one attempt because retries multiply
its states; retries are in the others. It is where holds and releases race: a charge, an admin's hold, two requests and the worker,
with a second stamp for a second release row. `RaceSpec` (in `MCEaseWaybill`) cuts off behaviours with an admin's own hold
once an update is lost. `HeldAndReleasedOnce` promises nothing from there on; `PayoutsAreBacked` and
`HoldsAreFullyPaid` meet the admin's hold after a lost update in `charges`, and `HoldingIsBacked`, `SettlementHasACause` and
`DisputeDecidedOnce` are proved without bounds.

* `MaxLinks` is the number of reset links mailed. One link and two requests are what reuse takes.
* `accounts` has two accounts, the smallest number for which "another admin" can fail; `sessions` has one account,
  since nothing in a browser is about another, and two tabs with two calls.
* `Viewers`, `Calls` and `MaxOddities` bound `OrderDesk`: the others act through
  up-to-date pages of theirs, with two calls in flight, and there is one scan, one verification that comes before its webhook, or one overtaken write. A scan leaves the
  row alone, so that the two meet only in the public history, which `PagesTellOneStory` leaves out once a write was
  overtaken. The run has the buyer's page because only the buyer confirms, pays, polls, disputes and completes; with
  each of the three others as the viewer the same properties hold too.
* `MaxListeners` and `MaxMails`: the listeners of one write are done before the next one emits, while its mails may still wait
  next to the new ones; `UpdateStatusCompletes` starts two listeners at once, and any listener may have a write without an event
  come between its steps. One handler of a behaviour of `Notices` is overtaken, by any distance, and one listener or process fails.
  The proofs have none of the numbers.
* `PageLimit`, `ThreadLimit` (50 in the code) are as large as what comes in: `MaxRows`, `MaxMessages`. That the thread
  lists the oldest messages only shows beyond the limit and is an observation below. `MaxCalls` lets one answer overtake
  another. The messages shown are a set: no property is about one that is shown twice.
* `MaxPosts`, `MaxSaves` are two: a call and the one that repeats it. A third would repeat the second.

**Fairness.** `WF(Continue(r))`: a started handler takes its next statement unless it is
aborted, since Node runs every resolved promise. `WF(JobFires)`: BullMQ hands every due
job to a worker. A payout call goes on in the same way (`CallProceeds`), and so do the tasks of `Accounts`
and the listeners of `Notices`; access tokens expire, and the mail worker takes every job (a condition
for each kind of mail, so that transactions which fail and are tried again cannot starve one behind others). In the client timers fire
(`Poll`) and a fetch ends. Two strong fairness conditions are about the network: not every fetch of the order page fails
or is cancelled by the next poll, and not every poll of the thread fails. There is no fairness on users, admins, Paystack's
deliveries or aborts. Deadlock is not checked: an order that is settled and whose requests are
done has, rightly, nothing left to do.

## 4. Proofs

`EaseWaybillProofs` proves for every set of clients, references and stamps and
every number of attempts, from the assumptions of `OrderRecords` (`RefsDisjoint`, `SomeAttempt`,
`WorkerIsNoClient`, `RefsAreNoTriggers`: a reference is no word of the code's own):

| Theorem | Establishes |
|---|---|
| `TypeCorrect` | `TypeOK`; every request carries the argument its step needs |
| `HoldingBacked` | HOLDING has a hold row, PENDING has none |
| `PayoutsBacked` | no fee, release or refund row without a hold row |
| `SettlementCaused` | RELEASED and REFUNDED come from a payout row or a resolved dispute |
| `HoldsFullyPaid` | a hold row of a charge stands for a charge paid in full |
| `DisputeOnce` | no step changes a resolved dispute |
| `HeldReleasedOnce` | at most one hold and one release row until an update is lost |
| `CustodyKept` | `Spec => KeepsCustody`: the composed services implement `Custody` |
| `MovedOnce` | undisturbed, at most one row takes the funds out |
| `ColumnsTellOneStory` | undisturbed, the escrow column is the one ledger and dispute call for, and the status the one that goes with it, but for the three kinds of orders that `Unfunded`, `Unraised` and `Unbooked` describe |
| `FrozenUnderDispute` | undisturbed, no release row is written while a dispute is open |
| `TableFollowed` | undisturbed, every status change is an edge of the table |
| `NeverBack` | undisturbed, an order never comes back to a status it has left |
| `LockFollowsWorker` | the job is active exactly while the worker is at it |
| `JobNotLost` | undisturbed, a delivered order whose funds are held does not lose its job |

`SellerPayoutProofs` proves, for any number of calls, references and accounts on top:

| Theorem | Establishes |
|---|---|
| `PayoutsLeaveOrder` | `SellerSpec => Spec`: the composition refines the order alone, and every theorem above holds in it |
| `PayoutTypeCorrect` | `PayoutTypeOK` |
| `RecordsTruthful` | SUCCESS was paid out and FAILED is money that is back |
| `PaidOnce` | the seller is paid at most once until there is a gap |
| `TransferCaused` | every transfer goes back to a release row or a dispute resolved for the seller |
| `PaidOrRefunded` | undisturbed, nobody is paid out for an order that was refunded |
| `PayoutNotDropped` | under `SteadySellerSpec`, no step drops the payout of an undisturbed release |

The first five theorems about the order are parts of one argument. `HoldingIsBacked` is not inductive by itself:
`ReleaseCommit` and the resolution leave the columns, so the invariant also says
where each column value comes from (`Accounted`), and that a request about to write a
hold has a charge paid in full behind it (`HoldsComeFromCharges`).
`HeldReleasedOnce` needs to know what a request in flight still knows. `FreshChecksHold` says
that a request whose reading is still fresh finds the row as its check left it;
`ReleasedStaysTerminal` that once a release is booked the escrow column does not
go back to a value a release accepts. With both, a second row needs a request that
writes after its reading has become outdated, which is a lost update.

The second half of the module extends the same idea to every handler (`CustodyInv`): while undisturbed, a request that has read the
row and is about to write finds the status and the escrow column it checked, so that each
commit is one of the abstract steps; the abstract state is computed from ledger, column and `anomaly`,
and a disturbed write is `GoAstray`, after which nothing is promised. The theorems about columns,
disputes and the table are read off the same invariant.

`PaidOnce` rests on `LiveIsKnown` (money that is out has an open or successful record, or a call about
to create it) and `FreshCallsAreRight` (a call past its look at the records that nobody has
overtaken is right that no money is out). `TransferCaused` uses `SettlementCaused` of the order
through `PayoutsLeaveOrder`, and that ledger rows and resolutions never go away; `PaidOrRefunded` adds
the invariant behind `CustodyKept`.
All parts of these invariants are checked by TLC on the instances above as well.

The other proof modules are about one component each, for every size of its instance:

| Theorem | Establishes | From |
|---|---|---|
| `AccountsTypeCorrect` | `AccountsTypeOK` | `LinkBound` |
| `AdminStays` | an administrator is left until one is demoted under a request | `LinkBound` |
| `LinkOnce` | a reset link sets one password, but for a row written after the look-up | `LinkBound` |
| `NoNewSignIn` | no sign-in begins on a suspended account, and only one past its check gives it a token | `LinkBound` |
| `NoStorm` | no call costs more than three requests | `OnlyMe`, `LinkBound` |
| `LogoutFinal` | the slot stays empty after a logout, but for a refresh that had read the row | `OnlyMe`, `LinkBound` |
| `SignedInKept` | undisturbed, only a call older than the sign-in signs a tab out | `OnlyMe`, `LinkBound` |
| `SentAsShown`, `OneOrder` | the order form sends what it shows, if each address was touched last in the copy on screen and its timers have fired, and once, if no answer was lost | `FormsAssumption` |
| `AccountShown` | who heard last of the save served last, and edited nothing since, sees the account that is stored | none |
| `ReadForGood` | a notification read stays read on the page | none |
| `OnlyWhatIsWritten` | the thread shows what is in the database, and one's own message while it is being sent | `ListLimits` |
| `NoneSkipped` | but for the two races of `useMessages`, the thread shows every message up to the one it remembers | `ListLimits` |
| `NothingUntrueTold` | notifications tell what is committed | none |
| `ToldOneWay` | nobody is told of a release and somebody of a refund, unless a movement that was told did not take place, or a handler wrote over an order newer than it had read | none |
| `NoticesTableFollowed` | the order the parties are told of follows the table until a write is overtaken or polling sets an order to PAID that waits for no payment | none |
| `DeliveryNotLost` | unless a listener threw, the process died, or an overtaken confirmation linked the buyer, a delivery is told or about to be | none |

`AdminRemains` is inductive once it is known that nobody writes their own role (`OthersRolesOnly`):
an administrator who demotes is one who is left. `LinkUsedOnce` needs that a link is in one row at most
(`LinksApart`) and that one in a row is unspent (`LinksUnspent`). In `WebSessionProofs` the cost of a
call is told by where it is (`CountedByStep`), a logout leaves the slot empty because every rotation
compares with it or has read before (`SlotEmpty`), and as long as nothing disputed
happened a stored pair is the pair of the row (`PairsCome`, `SettledStands`). In `FormsProofs` what a
field holds is told by the copy touched last and its timer (`HeldOrTimed`), and an order placed by the form on screen still
has its call (`PlacedByMine`). In `InboxProofs` at most one answer may still change the list (`OneFresh`), and
what it has read is not behind what is shown (`AheadOf`); no answer of the thread on its way has more than was
written, and the optimistic message is there only while its call is. In `NoticesProofs` all that a listener still has to say
is known (`StepsKnown`): committed, of an open transaction, or money whose reason is in `gap`. `ToldOneWay` adds where the order is once
its money has moved and while such a transaction is open (`WayOut`): as long as no write was overtaken, because then a handler
writes the order it has read (`WriteOnTime`).

`OrderDeskProofs` is about the pages and the handlers of one order, for any number of people of each role, of
calls on their way and of writes that overtake each other (`RolesOfPeople`, `NoOneIsNobody`, `DeskParties`):

| Theorem | Establishes |
|---|---|
| `DeskTyped` | `DeskTypeOK` |
| `OldButtonsAreDead` | a click that a status change has outdated does not get past the handler's check |
| `PagesKeepUp` | a page that waits for nothing shows what its own calls have changed |
| `OneStoryAlways` | timeline and tracking page tell where the order has been, until a write was overtaken |
| `ButtonsWork` | what an up-to-date page offers somebody with one part in the order, the server accepts, except a dispute after its 72 hours |
| `AlwaysAWayOn` | with an admin and a rider about (assumed by this theorem alone) some page leads on until the order has ended |
| `ListsAlwaysAgree` | undisturbed and undisputed, the lists and figures agree with each other and with where the order has been, and say which of them count an order that polling set to PAID and nothing has funded |
| `DeskTableFollowed` | every status change is an edge of the table, until a write was overtaken or a verification set an order to PAID that waited for no payment |
| `DeskCustodyKept` | the order on the desks implements `Custody`, read off its escrow column |
| `CallbackSees` | a buyer sent back by Paystack may see the order in every status |

They share one invariant. `RowInv` relates the columns of the row and dates each status by its stamp. `CallsInv` says what
a call knows: what it was clicked on is what some page offers for that status, and once past its check it still has what
the check met; `StaleClickRefused` follows because the table of offers has, for each act, no second status the handler
takes. `TabInv` says that the view of the page is an earlier state of the row, and `OwnInv` that it is no earlier than
the answered calls of its own, because an answer starts a fetch and a cancelled fetch changes nothing. `PathInv` is
what holds while nothing was overtaken: the columns and the public history are those of one place on the way from
PENDING to an end (`Story`). `OneStoryAlways` and the three after it are `PathInv` read through the tables of `OrderPages` and
`OrderLists`. `RowMoves` says that a step is one along that way (`PathStep`); the table and `Custody` follow from it, the latter
with funds computed from the column, since the desk has no ledger. `CallbackSees` holds however many writes were overtaken:
`BuyerInv` says that a confirmation past its check is the addressee's, so that from the first confirmation on buyer and addressee
are one person, and that a payment is not opened before.
The attempt to prove `OfferedIsAccepted` for every set of people found what the instance has nobody to
show: an admin who buys is offered a dispute that `raise` refuses. `OneHatEach` excludes it now, and section 6 reports it.

**Liveness.** The prover has no support for ENABLED and so none for fairness: the six liveness properties are only model-checked.
What they need of every step is proved, for every instance:

| Property | Safety half | What fairness adds, checked by TLC |
|---|---|---|
| `AutoReleaseSettles` | `JobNotLost`, `LockFollowsWorker` | the job fires and its worker goes on |
| `ReleaseReachesSeller` | `PayoutNotDropped` | the listener starts and its call goes on |
| `DeliveryIsTold` | `DeliveryNotLost` | the listener takes its next step |
| `SuspensionBites` | `NoNewSignIn` | the sign-ins past their check end and the tokens expire |
| `HeardWhileListening` | `NoneSkipped` | a poll is answered |
| `PaymentIsShown` | `CallbackSees` | the poll fires and a fetch is answered |

`JobNotLost` rests on `JobHasWorker` (the lock of the job is the worker's request, which nobody else takes or ends) and
`DoneIsSettled` (a request that is about to pull the job comes from a release or a refund that has committed). The
second of them failed at first: with two clients, a client whose reading of the order is outdated may hold the money a second
time after a release, and the release then pulls the job that the second hold needs. TLC found the same on an instance with two clients, which the run
`charges` has no room for, so `AutoReleaseSettles` asks for an order no lost update has disturbed. `PayoutNotDropped` rests on
`RecordsAreSent` and `LateCallsLost`: a call ends without sending only because another has sent or is about to.
`NoneSkipped` rests on `KeptUp`, which adds the answers on their way to what is shown; `DeliveryNotLost` on what the
listener of the event still has to do.

The refuted property has a counterexample and no proof. Nothing here needs induction over data: no module defines a
recursive operator or function.

## 5. Not modelled

* Amounts. A charge is paid in full or not; the fee is one row.
* Audit log, dispute timeline, tracking entries: appended in the same
  transactions, read by no check modelled here. Texts of mails and notifications.
* The Paystack client and its test mode, which pretends a transfer outside production.
* `verifyEmail`, and the expiry of refresh tokens after seven days. Registered addresses are assumed to be
  lower case; the code lower-cases them in some places only.
* Paging: no page asks for a second page of anything it shows.
* Landing, legal and documentation pages, layout, the settings sections other than the profile (their
  controls call nobody), `NotificationDropdown` (imported nowhere).
* The HTTP layer and the validation of payloads; a refused payload is one outcome of a call.
* Isolation anomalies below the transaction: the transactions of `releaseFunds`,
  `refundFunds`, `holdFunds`, `verifyByReference` and `raise` run at PostgreSQL's
  default level. Each of them writes rows it does not read again, so that one step
  at its commit is what it does.

## 6. Observations

Disagreements met while modelling. The actions named here do what the code does,
and no run is spent on them.

Escrow and payments:

* A dispute raised while the auto-release job has already read the order does not stop it, and `raise()` never
  calls `cancelAutoRelease` (`escrow/escrow.service.ts:739` says it must).
* Polling sets PAID and then calls `holdFunds`, which refuses an order that is not AWAITING_PAYMENT
  (`payments/payments.service.ts:326`): without a later `charge.success` nothing is held.
* A job that fires before the delivery counts as done, and nothing schedules another (`escrow/escrow.processor.ts:49`).
* A release pulls the job after its commit, whatever the job is for by then: a second hold that was checked before the
  release and written after it has none (`AutoReleaseSettles` asks for undisturbed orders).
* Listener and `POST /payments/transfer` that both find no record both transfer (`payments/transfer.service.ts:373`).
* A dispute resolved for the seller emits no event, and nobody transfers (`disputes/disputes.service.ts:225`); one
  resolved for the buyer writes no REFUND row.
* `ChargeFailed` and `FailWrite`: `charge.failed` reads PENDING, a success commits, FAILED is
  written over it (`payments/webhook.service.ts:535`).
* The table lets an admin take PAID to REFUNDED, which "triggers refund" (`orders/order-state-machine.ts:80`); it is a plain
  update, the escrow stays HOLDING, nothing books a refund and nothing can later. In the same way `updateStatus` disputes an order
  without a dispute, and completes one whose escrow is PENDING or DISPUTED: `Unbooked` and `Unraised` of `ColumnsAgree`.
* A release and a refund that both read the order before either wrote both commit (`escrow/escrow.service.ts:874-989`), and
  the parties are told of both.
* Polling a late charge takes a CANCELLED, REFUNDED or COMPLETED order back to PAID
  (`payments/payments.service.ts:309`); this is `"blindPaid"`.
* The cached recipient outlives the bank details it was made from (`payments/transfer.service.ts:450`).

Accounts and sessions:

* The count of admins in `changeUserRole` never refuses anything: the caller is an admin and may not act on the
  own account. `updateRole` and `deactivate` count nothing; `suspendUser` counts inactive admins too.
* bcrypt reads 72 bytes, which a refresh token of an account shares with all others of it: any
  unexpired one matches the stored hash, and the branch for a reused token (`auth/auth.service.ts:210`) is not reached.
* `suspendUser` revokes no token, and `!user.accountStatus` in the JWT strategy is never true: the access token lives on.

Pages:

* The order page offers the dispute on every DELIVERED order (`app/dashboard/orders/[id]/page.tsx:1419`, `1529`); `raise` refuses
  it after 72 hours (`disputes/disputes.service.ts:395`).
* An order that "Pay Now" has verified and no webhook has funded is PAID with the escrow PENDING
  (`payments/payments.service.ts:310`, called by `PaymentsContent.tsx:202`): no page counts its money, until it is
  completed and the dashboard counts it as released (`UnfundedCounted`).
* Somebody with two parts in an order is offered buttons the server refuses (`OneHatEach` excludes it).
* The admin's dispute page sets the order's status and never calls the resolve endpoint: the dispute stays OPEN and the
  escrow DISPUTED, while the order page says the funds have been released.
* "Currently held" on the admin's overview adds up all holds ever made (`app/admin/page.tsx:148`).
* The rider's list shows every order in transit, whoever its rider is (`lib/hooks/useRiderOrders.ts:45`).
* A suspended rider cannot be replaced from any page. An order an admin moves on before its buyer has
  confirmed is invisible to the buyer.
* The toast after a status update says it worked even when it was refused (`app/dashboard/orders/[id]/page.tsx:278`); the
  payments page says "Payment confirmed" whatever status the verification returns (`PaymentsContent.tsx:202`).
* `raise` is for `USER`s only: a rider or admin who buys cannot dispute.

Inbox and forms:

* A thread longer than 50 messages shows the oldest 50. A poll answered during the first load, or just
  after one's own message, loses a message until the page is opened again (`raced`).
* A message whose answer was lost is offered to be sent again, and an order too: neither endpoint knows a repeated call.
* A suggestion picked within 300 ms of typing is overwritten in the form, not on screen.
* The order form mounts each address twice (`app/dashboard/orders/create/page.tsx:763`, `807`), and neither copy hears of the other
  (`AddressAutocomplete.tsx:250`): turning a phone shows an empty field, or an older address, and sends what the other copy holds.
* Saving may mix two accounts (`app/dashboard/settings/page.tsx:316`): bank inputs start blank after a sign-in, and a blank one is
  not sent; an answer that is late resets the form between the two inputs of a new account.

## 7. What is left

That the rows of `OrderRecords` implement the reduced order of `Notices` and `OrderDesk`. So far the table and `Custody`
connect them: all three follow the one as long as nothing disturbs them (`TableFollowed`, `NoticesTableFollowed`,
`DeskTableFollowed`), and the first and the last implement the other (`CustodyKept`, `DeskCustodyKept`).
