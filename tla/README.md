# Handigo in TLA+

Handigo is a platform on which a customer orders a service at home (cleaning,
repairs) and a provider carries it out.  This directory holds TLA+ models of its
backend (`src/handigo-backend`, TypeScript, Express, MongoDB), the TLC runs that
check them and the theorems that TLAPS proves about them.

## The system

One Node.js process serves HTTP requests, fires the timers of the offers it has
sent, and runs monitors on fixed intervals.  Everything that survives a restart
is in MongoDB; a handler is a sequence of database operations with an `await`
between them, so any other handler may run between two operations.  A block in
`withTransaction` is atomic.

### Components

| Component | State | Operations | Talks to |
|---|---|---|---|
| Order (`order.service.ts`, `order.model.ts`) | one document: status, holder, chosen provider, booking status, matching fields, reassignment | create, select a provider, start, complete | all below |
| Matching (`dispatch.service.ts`) | `matchingStartedAt`, `matchingSearch` of the order; timers and the map of cancellations in memory | start the matching, ask the chosen provider, send a batch, time out an offer, scan | offers, provider search, cancellation |
| Offers (`assignment.service.ts`) | one `OrderAssignment` per order and provider: status, type, deadline | accept, reject, close the competing offers | order, matching, replacement |
| Replacement (`orderReassignment.service.ts`) | `reassignment` of the order: question, answer, who has left | provider leaves, provider declines, customer answers, monitor of unanswered questions | matching, cancellation |
| Payments (`payment.service.ts`) | `Payment` documents, links of the PayOS gateway | pay by wallet, reserve a QR payment, webhook, reconciliation | order, matching, wallets |
| Cancellation and refunds (`orderCancellation.service.ts`, `refundPolicy`, `refundProcessing`) | `Refund` documents with lease and retries, wallet ledger | cancel with settlement, refund to the wallet, retry monitor | order, offers, payments |
| Wallets and withdrawals (`wallet.service.ts`, `withdrawal.service.ts`, `bankAccount.service.ts`) | balance and pending balance, deposits, withdrawal requests, bank accounts | deposit through PayOS, cancel, synchronize, webhook; request, approve, reject; add, change, delete, restore an account | PayOS, administrator |
| Calendar and rescheduling (`providerSchedule.service.ts`, `orderReschedule.service.ts`) | intervals of accepted orders, reschedule requests | check and lock the calendar; propose, approve, refuse, withdraw, expire | offers, orders |
| Arrival and no-show (`customerNoShow*.ts`) | arrival and report on the order | mark, report, verify, settle, reject | orders, cancellation, calendar |
| Completion and quotations (`order.service.ts`, `assignment.service.ts`, `quotationWalletPayment.service.ts`) | quotation and its revisions, payments of the whole and of the rest, settlement | quote, pay by wallet, QR, cash or directly, complete, confirm | payments, wallets, rewards |
| Vouchers and rewards (`voucher.service.ts`, `reward.service.ts`) | counters of a code, one usage per code and order, points | reserve, use, give back; pause, delete, redeem | orders, payments |
| Reports, support, violations (`report`, `supportTicket`, `violation`, `penaltyPolicy`) | status of a case, violations, lock of the account | review, answer, withdraw, penalize, lift | accounts |
| Accounts and sessions (`auth.service.ts`, `initSocket.ts`) | password, codes, version of the tokens, sessions, sockets | register, confirm, sign in, refresh, reset, change, lock | all requests |
| AI assistant (`ai/graphs`, `ai/runtime`, `ai/agent`) | session with a pending action, ledger of actions, lease | prepare, confirm, reserve, call, reconcile, project | orders, payments |
| Presence, location, profile, onboarding | provider documents | | matching, as input |
| Chat, notifications | messages | | screens only |
| Feedback, catalogue, administration, clients | records and screens | | callers of the services |

`PROJECT.json` lists each of them with what is modelled and why the rest is not.

### What is hard

- A request, a timer of the process, the dispatch scan and the reassignment
  monitor all write the same order, each from something it read before an
  `await`.
- Two documents (order and offer) must agree on who holds the order, and only
  some of the handlers write both in one transaction.
- The process may die between two writes; timers and the map of running
  cancellations die with it.
- The payment gateway repeats its webhooks, delivers them late or never; a
  synchronization asks for the same money meanwhile, of an order and of a wallet.
- Whoever is asked (provider, customer) may never answer, or answer at the moment
  his time ends.
- Checks made before a transaction: the account of a withdrawal, the two sides of
  a reschedule request, the uses of a code that is paused or deleted.
- Several orders compete for one calendar and for the last use of one code.
- Some writes of an account are conditional on what was read and others save the
  whole document; a ticket is saved in the version that was read.
- A lease may be lost under a slow request, which then runs beside the one that
  took it over (refunds, the session of the assistant).

`hazards` of `PROJECT.json` gives each one at its line, with the properties that
would notice it.

### What makes each component correct

- Order and offers: one holder at most, the holder's offer is the accepted one,
  no acceptance before payment, nothing cancelled once the work has started.
- Matching: every search ends; a provider asked does not block the order for
  ever; nobody searches while the customer is being asked.
- Replacement: a question is answered or expires; the provider chosen is the one
  who gets the order.
- Payments and refunds: a payment is refunded at most once, and once an order is
  cancelled in the end; the ledger agrees with the payments.
- Calendar: two accepted orders of a provider do not overlap; an appointment moves
  only as both sides agreed.
- Wallets: the balance is what deposits, withdrawals and corrections add up to;
  what PayOS has received counts at last; a withdrawal keeps its account.
- Completion: the work and its rest are paid once, earned once and rewarded once.
- Vouchers: the counters are the uses that orders hold; no limit is passed.
- Moderation: the end of a temporary suspension undoes no other decision; a
  decision on a case is not lost to somebody who read it earlier.
- Accounts: nobody stays in with an old password; a code works once.
- Assistant: what was confirmed once is called once, and the session says what
  came of it.

## The modules

| Module | What it is |
|---|---|
| `OrderLifecycle` | what the platform promises of one order: paid before it is taken, one holder, no cancellation after the start, no way back from the end |
| `Matching` | the matching of one order: the order, its offers, the request handlers, the timers, the scan and the reassignment monitor |
| `CustomerMoney` | what the platform promises a customer about the money of one order: one payment kept, returned once, and only after a cancellation |
| `Settlement` | paying, cancelling and refunding one order: the payments, their links at PayOS, the cancelling transaction, the Refund records with their leases and scans |
| `Calendar` | the times that the orders of the providers reserve, and everything that moves them |
| `Purse` | what the platform promises a user about the money in his wallet: a deposit counts once, after PayOS has received it, and for good; a withdrawal leaves the balance once and is sent or given back |
| `Wallets` | one wallet: deposits, withdrawals, the bank accounts they go to |
| `Completion` | one order from its acceptance to its full payment: quotation, completion, every way to pay |
| `LimitedUses` | what the platform promises of codes: one per order, no use beyond the limit of the code or the customer's own, reserved before it is spent |
| `Vouchers` | codes and the orders that reserve, use and give back their uses |
| `Moderation` | cases about a user, the violations made of them, the lock of his account |
| `Accounts` | one account, its codes, sessions and sockets |
| `AssistedOrder` | what the platform promises a customer of what his assistant does about one order: each action once, one of the repeated attempts to make it, paid only once it is made, decisions that are so and stay |
| `Assistant` | one session of the assistant, its lease, its ledger, the services it calls |
| `MCMatching`, `MCSettlement`, `MCCalendar`, `MCVouchers`, `MCAccounts`, `MCAssistant` | symmetry of the model values, and where it pays a view or a mixed start |
| `MatchingProofs`, `SettlementProofs`, `CalendarProofs`, `WalletsProofs`, `CompletionProofs`, `VouchersProofs`, `UserProofs`, `AssistantProofs` | the theorems; `UserProofs` holds those of `Accounts` and of `Moderation` |

The modules meet in the status of the order and in the money.  `SyncPayment` and
`CancelOrder` of `Matching` are the effects of what `Settlement` models in detail;
`Accept` of `Calendar` is the second disjunct of `AcceptOffer`; `Completion` begins
where `Matching` ends; `LockAccount` of `Accounts` is `UpdateUserStatus` of
`Moderation`; the services that `Assistant` calls are those of the other modules,
which write once or fail.  Each leaves the others a free choice: `Settlement` lets an
order be cancelled at any time and under any policy, `Matching` lets it be paid or
cancelled whenever its own documents allow.

### Matching

State.  `order` is the part of the Order document that the matching reads or
writes.  `offer[p]` is the OrderAssignment of provider `p`.  `run[w]` is a
worker: `pc` names its next database operation, the other fields are the local
variables it carries across the `await`s (the provider it answers for, the type
of the offer, the tried providers, the candidates left).  `recovering` says that
the scan in progress is `scan(true)`, the one of the start-up.

Workers.  A handler serves a request or fires a timer; `Scanner` runs `scanOnce`,
one at a time as the flag `scanning` has it; `Monitor` runs
`expirePendingReassignments`.

Actions.  One action per database operation, named for what it does, with the
function of the code in its comment; a transaction is one action.

| Code | Actions |
|---|---|
| `dispatchReadyOrder` | `ReadReady`, `ClaimMatching`, `FindPreferred`, `AwaitPreferred`, `SendDirect`, `PreferredUnavailable`, `ReadTried` |
| `dispatchOrder`, `sendAssignmentBatch` | `LoadOrder`, `CheckPending`, `PickCandidates`, `SendOffer` |
| `cancelUnmatchedOrder` | `CancelUnmatched`, `CommitUnmatched` |
| `_onAssignmentTimeout` | `TimerFires`, `TimeoutOffer`, `AfterTimeout`, `DirectTimedOut`, `AskCustomer`, `AnyPending` |
| `rejectAssignment`, `acceptAssignment` | `RejectOffer`, `AfterReject`, `CheckAccept`, `AcceptOffer`, `CloseCompeting` |
| `requestProviderReassignment` | `LeaveOrder` |
| `respondToProviderReassignment` | `AgreeToSearch`, `DeclineSearch`, `CancelAfterReply` |
| `expirePendingReassignments` | `FindReplies`, `ExpireReply`, `CancelAfterReply` |
| `selectAppointmentProvider` | `SelectProvider`, `CreateDirect`, `UndoSelection` |
| `scanOnce`, `scan` | `ScanTimeouts`, `ScanReady`, `ScanActive`, `ScanStalled`, `RestartMatching`, `EndScan`, `Abort` |
| payment, arrival, start, completion, cancellation, redispatch | `SyncPayment`, `MarkArrival`, `StartOrder`, `CompleteOrder`, `CancelOrder`, `Redispatch` |
| deadlines, process | `OfferExpires`, `SearchExpires`, `ReplyExpires`, `Crash` |

Abstractions.

- One order.  Orders meet only in the calendar of a provider, which is a free
  choice here (the second disjunct of `AcceptOffer`).
- The order has a fixed price: no quotation and no no-show report, the two things
  that forbid a replacement.  It is `normal` or `scheduled`, paid by wallet or QR.
- Whether a provider is online, near and solvent is a free choice at each read.
- The times are not counted.  A deadline passes by an action of its own; the one
  fact kept is that no offer of a search outlives it (`dispatch.service.ts:557`).
  `sinceStart` and `sinceReply` keep what `assignedAt` is compared with.
- For how long a customer may cancel after the acceptance is a policy of its own;
  `CancelOrder` is possible as long as `CANCELLABLE_STATUSES` allows it.
- A read that only decides whether to issue a conditional update that repeats the
  test is merged with the update.
- The retry of `cancelUnmatchedOrder` after a write conflict is the next scan.
  A worker that finds a cancellation of the process in flight is done.
- A notification that fails matters only in `selectAppointmentProvider`, which
  undoes the selection.
- `bookingStatus` "awaiting_payment" is not a state: no code sets it.

### Properties of Matching

| Property | Kind | Says |
|---|---|---|
| `TypeOK` | theorem | types, and that whoever answers knows for whom |
| `HolderMatchesOffer` | invariant | order and offers agree on the holder, in every status |
| `OnlyResyncSkipsConsent` | action property | nothing but a repeated sync of a QR payment lets a search start while the customer is asked |
| `ConsentBeforeSearch` | violated | no search while the customer is asked |
| `AppointmentConfirmed` | invariant | a taken appointment is confirmed, so it can be started |
| `KeepsLifecycle` | refinement | the matching implements `OrderLifecycle` |
| `SearchEnds`, `ReplyEnds`, `OfferEnds` | liveness | searches, questions and offers end |

### Settlement

State.

| Variable | Code |
|---|---|
| `order` | `status` of the Order (`discarded`: `isDeleted`), and `cancellation.refundPolicy.policyVersion` as one of three policies |
| `payment[p]` | `method` and `status` of a Payment; all are of one `paymentType`, so the partial unique index allows one that is pending or paid |
| `credits[p]`, `awards[p]` | how many `refund` and `provider_earning` WalletTransactions name the payment |
| `refund[p]` | the Refund: `status`, `attemptCount`, whether `nextRetryAt` lies ahead, whether the lease is free, held or over |
| `link[p]` | the payment link at PayOS (external) |
| `run[w]` | the next database operation or gateway call of a worker, its payment, and what it read earlier and still goes by |

Workers.  A handler serves a request or a webhook.  A scanner is one refund scan:
the interval of 30 s starts one whether or not the last has ended, so there may be
several.

| Code | Actions |
|---|---|
| `createOrderPayment`, `createWalletPayment`, `reserveExternalPayment` | `StartPayment`, `Charge`, `Reserve`, `CreateLink` |
| `handlePayosWebhook`, `refundUnappliedPayosPayment` | `WebhookPaid`, `WebhookFailed`, `AfterMoney` |
| `reconcilePayosPayment` | `StartReconcile`, `Reconcile`, `AfterMoney` |
| `cancelPendingPayosPayment`, `reconcileExistingPendingPayosPayment` | `StartWithdraw`, `Withdraw`, `Verify`, `Release` |
| `discardUnpaidOrder` | `Discard` |
| `cancelOrdersWithSettlement`, `refundWalletPayments`, `compensateProviderPayments` | `Cancel`, `CancelAgain` |
| `settleCancelledOrderPayments`, `settlePendingPayosPayment` | `ListPayments`, `SettleGetLink`, `SettleMarkPaid`, `SettleCloseLink`, `SettleFail` |
| `ensurePayosRefundRecord`, `claimRefund`, `refundPayosPaymentToWallet`, `recordRefundFailure` | `EnsureRefund`, `ClaimRefund`, `RefundToWallet`, `FinishRefund`, `RefundThrows`, `RecordFailure`, `DecideRetry` |
| `startRefundReconciliationMonitor`, `processRefundJob`, `backfillLegacyPayosRefunds`, `retryPayosRefundByPaymentId` | `Scan`, `ProcessRefundJob`, `Backfill`, `AdminRetry` |
| time, PayOS, process | `LeaseExpires`, `RetryFallsDue`, `GatewayPaid`, `GatewayExpires`, `Crash` |

Abstractions.

- One order and payments of one type.  An amount is the whole sum of its payment;
  the fixed support that a provider who had arrived gets is left out, and his
  policy counts as `qrToWallet`.
- Three policies stand for the four versions the code stores: what is returned inside the
  cancelling transaction (`qrToWallet`), after it (`standard`), or given to the
  provider (`deposit`).  Which of them applies is a free choice of `Cancel`.
- A link in work counts as open; a link that is partly paid is not modelled.
- Orders in progress and completed ones are never cancelled, so their money never
  moves; they are the orders of the model that stay open.
- `leaseOwner` names the process, not the worker: a worker that lost its lease to
  another worker of the same process still gives it back (`RecordFailure`).
- A scan handles up to 100 refunds one after the other; here it picks one, and the
  fairness says that each is picked.
- The reference that the webhook of a failed attempt leaves on a payment, for which a later
  success is refused (`payment.service.ts:1421`, `:1220`), is kept in `Completion` and left
  out here.  A refusal is a webhook that never comes or a reconciliation nobody asks for,
  both of which the model allows; `RefundReturned` speaks of money that was recorded.
- Left out: cash, the payment of the rest of a quotation, payouts to bank accounts
  of old refunds, `paymentStatus` of the order, metadata and notifications.

### Properties of Settlement

| Property | Kind | Says |
|---|---|---|
| `TypeOK` | theorem | types; a cancelled order states its policy |
| `LedgerMatches` | invariant | the wallet ledger and the payments agree: one refund transaction per refunded payment, none otherwise |
| `ChargedOnce` | theorem | one payment pending or paid, whatever arrives late |
| `RefundRecordsTrue` | invariant | a Refund says succeeded only of money returned, and asks only for money taken on a cancelled order |
| `AwardedOnce` | invariant | a deposit goes to the provider once |
| `KeepsCustomerMoney` | refinement | everything together implements `CustomerMoney` |
| `RefundEnds` | liveness | an open refund succeeds or reaches an administrator |
| `RefundReturned` | liveness | money found on a cancelled order is returned or reaches an administrator, unless a crash comes between |

### Calendar

State.  `order` is what the calendar needs of an Order: kind, holder, `scheduledAt`
(`slot`), the field `schedule` (`start`, `end`, `duration`), arrival, quotation and
no-show report.  `request` is the OrderRescheduleRequest, `run[h]` a request about
one that has been checked and not yet written, `now` the present slot.

| Code | Actions |
|---|---|
| `acceptAssignment`, `requestProviderReassignment`, `cancelOrdersWithSettlement` | `Accept`, `Leave`, `Cancel` |
| `markOrderArrival`, `saveRepairQuotation`, `startOrder`, `updateExpectedEnd`, `completeOrder` | `MarkArrival`, `SaveQuotation`, `Start`, `UpdateEnd`, `Complete` |
| `reportCustomerNoShow`, `settleCustomerNoShow`, `reviewCustomerNoShowReport` | `ReportNoShow`, `ApproveReport`, `RejectReport` |
| `createOrderRescheduleRequest` | `MoveFreeOrder`, `Propose`, `SaveRequest` |
| `respondOrderRescheduleRequest` | `Respond`, `Approve`, `SaveAnswer`, `MarkConflicted` |
| `cancelOrderRescheduleRequest`, `expirePendingRequests` | `Withdraw`, `Expire` |

Every transaction that reserves time writes the provider's document first
(`lockProviderSchedule`), so that two of them conflict: each is one action.  Time is
counted in slots; durations, buffer, way and notice are constants.  Working hours
only refuse more and are left out.

| Property | Kind | Says |
|---|---|---|
| `AppointmentsApart` | invariant | two accepted orders of a provider do not overlap, buffer and way included |
| `OneTurnEach` | invariant | each side moves an order at most once |
| `ReportHoldsOrder` | invariant | an order under a report keeps its holder and is neither started nor finished |
| `MovedAsAsked` | action property | an appointment moves only by a request applied in the same step, between the times it names |

### Wallets

State.  `wallet` (balance, pending balance), `adjusted` (the sum of corrections),
`deposit[d]` (the WalletTransaction and its link at PayOS), `request[q]` (the
WithdrawRequest, with what its account said when it was made), `account[a]` (the
BankAccount), `run[h]` (a request of the user about a deposit and what PayOS told it).

| Code | Actions |
|---|---|
| `createWalletDeposit` | `RecordDeposit`, `CreateLink`, `SaveLink` |
| `cancelWalletDeposit`, `reconcileWalletDeposit` | `AskLink`, `CancelLink`, `CheckLink`, `Reconcile` |
| `markWalletDepositSuccess`, `handleWalletDepositPayosWebhook` | `WebhookPaid`, `WebhookFailed` |
| `createWithdrawal`, `approveWithdrawal`, `rejectWithdrawal` | `ChooseAccount`, `CreateWithdrawal`, `ApproveWithdrawal`, `RejectWithdrawal` |
| `bankAccount.service.ts` | `CreateAccount`, `UpdateAccount`, `SetDefault`, `DeleteAccount`, `RestoreAccount` |
| `adjustWallet` | `AdjustWallet` |
| PayOS, process | `PayLink`, `ExpireLink`, `Abort` |

A deposit and a withdrawal are of one unit each; corrections are of one unit and
bounded.  `Abort` ends a request by an error or a crash between two of its steps.

| Property | Kind | Says |
|---|---|---|
| `BooksBalance` | invariant | balance and pending balance are what the successful entries add up to |
| `DepositsMatchPayos` | invariant | only a paid link counts, and a paid one is never recorded as cancelled |
| `RequestsKeepAccount` | invariant | a pending withdrawal keeps an active account, every one the identity it was made to |
| `PaidIsCredited` | liveness | money PayOS has received counts at last |
| `KeepsPurse` | refinement | deposits, their links, withdrawals and handlers together implement `Purse` |
| `OneDefault` | theorem | one default account at most |

`Purse` is about the balance, what became of each deposit (`absent`, `received` by PayOS,
`credited`) and of each withdrawal (`held`, then `sent` or `given back`).  Its states are
read off two documents each: a deposit is `credited` by its status, but `received` by its
link, so that the failures and cancellations that come late, and are undone by a later
synchronization, are steps it does not see.

### Completion

State.  `order` (kind, status, payment status and method, revision of the quotation,
the provider's confirmation of a direct payment), `payment[p]` in the order they were
made, `link[p]` at PayOS, and the entries the work leaves: `settled` and `earned` of
the provider, `credits` of the customer, `rewards`.

| Code | Actions |
|---|---|
| `startOrder`, `saveRepairQuotation`, `completeOrder` | `StartOrder`, `SaveQuotation`, `CompleteOrder` |
| `createWalletPayment`, `reserveExternalPayment`, `confirmCashPayment` | `PayByWallet`, `ReserveQr`, `ReserveCash`, `ConfirmCashPayment` |
| `payQuotationByWallet`, `reserveExternalPayment` of the rest, `confirmQuotationPayment` | `PayRestByWallet`, `ReserveRestQr`, `ConfirmQuotationPayment` |
| `createPayment`, `cancelPendingPayosPayment`, `reconcileExistingPendingPayosPayment` | `CreateLink`, `LinkFails`, `CloseLink`, `FailClosed` |
| `handlePayosWebhook`, `reconcilePendingPayosPayment`, `settleQuotationPayosPayment`, `refundUnappliedPayosPayment` | `WebhookPaid`, `WebhookFailed`, `Reconcile` |

Every handler that writes does so in one transaction that writes the order.  What it
reads at PayOS, paid or closed, is final.  Cancellation and refunds of orders that
have not begun are those of `Settlement`.

`payment[p].reference` is `gatewayTransactionId`.  The webhook of an attempt that failed may
leave the reference of that attempt (`payment.service.ts:1446`); the money of a later one comes
with another, for which its webhook (`:1421`) and the reconciliation (`:1220`) are refused
every time.  `Reaches` says that a reconciliation gets as far as a payment.

| Property | Kind | Says |
|---|---|---|
| `PaidOnce` | invariant | one payment of the whole, or of the rest, pending or paid; none beside a direct payment |
| `PaidIsBacked` | invariant | the order is paid exactly when a payment or the provider says so |
| `SettledOnce` | invariant | earnings and points are given once, whichever of completing and paying is last |
| `PaidIsApplied` | liveness | while an order awaits its QR payment, money PayOS has received is applied or returned without any webhook, unless `Reaches` fails |
| `QrMoneyMatches`, `RestOfFinalQuotation` | theorem | never both applied and returned; the rest is that of the last revision |

### Vouchers

State.  `voucher[v]` (status, owner, the order it is reserved for, limits, counters),
`usage[v][o]` (VoucherUsage), `order[o]` (status, code, `voucherUsedAt`, payment),
`admin` (a pause or deletion that has looked at the orders and not yet saved).

| Code | Actions |
|---|---|
| `createOrder`, `applyVoucher`, `removeVoucher`, `discardUnpaidOrder` | `CreateOrder`, `CreateOrderWith`, `ApplyVoucher`, `RemoveVoucher`, `DiscardOrder` |
| payments | `ReserveQr`, `ReserveCash`, `FailQr`, `PayOrder`, `ConfirmCash` |
| `completeOrder`, `cancelOrdersWithSettlement` | `CompleteOrder`, `CancelOrder`, `CancelUnreplaced` |
| `redeemReward`, administrator, time | `RedeemReward`, `CreateVoucher`, `UpdateVoucher`, `EnableVoucher`, `CheckVoucher`, `SaveVoucher`, `ExpireVoucher` |

Amounts are left out: a code that does not fit an order is a request that changes
nothing.  Orders made before reservations existed are left out too.

| Property | Kind | Says |
|---|---|---|
| `CountersMatchUsages` | invariant | the counters of a code are the uses that orders hold |
| `DiscountBacked` | invariant | an order that is not cancelled holds a use of the code it carries; nobody else does |
| `LimitKept` | action property | no step takes a code beyond its limit or a customer beyond his |
| `KeepsLimits` | refinement | counters, holders and records of uses together implement `LimitedUses` |

`LimitedUses` counts the orders that have a use and knows no counter, no holder and no
status of a code.  What it adds to `LimitKept`: the customer's own limit is kept for
personal codes too, who gets a use has no other, and a use is spent only by the order that
reserved it.

### Moderation

State.  `user` (status, deletion, `temporaryLockId`), `case[c]` (a Report or a
SupportTicket), `violation[c]` (the one made of it), `review[h]` (the ticket as a request
read it), `admin` (`updateUserStatus` between its look and its transaction).

| Code | Actions |
|---|---|
| `report.service.ts` | `CreateReport`, `ReviewReport`, `CancelReport`, `RequestReportEvidence`, `AddReportEvidence` |
| `supportTicket.service.ts` | `CreateSupportTicket`, `ReadTicket`, `UpdateTicketStatus`, `AddTicketResponse`, `AssignTicket`, `CancelSupportTicket`, `DropTicket` |
| `createViolation`, `refreshTemporaryLock`, `getPenaltyEndAt` | `CreateViolation`, `RefreshTemporaryLock`, `EndPasses` |
| `updateUserStatus`, `deleteUserService` | `FindUser`, `UpdateUserStatus`, `DeleteUser` |

A report is handled in transactions that write it first; a ticket is read, decided
and saved only in the version that was read (`fresh`).  One account, of a confirmed
address.  Texts, files and whom a ticket is assigned to are left out.

| Property | Kind | Says |
|---|---|---|
| `LockKeepsDecisions` | invariant | an account is locked exactly as long as something keeps it locked |
| `DecisionsStay` | action property | a case with a violation, withdrawn or closed is not changed by somebody who read it before |
| `TempLockEnds` | liveness | a temporary lock ends or is replaced by a later decision |

### Accounts

State.  `account` (status, password, the two codes, version of the tokens, lock),
`mail` (the codes sent, with the password each was asked for), `session[s]`,
`socket[k]`, `run[h]` (a request, what it read and what it is about to write).

| Code | Actions |
|---|---|
| `register`, `resendRegisterOtp`, `createAndSendRegisterOtp`, `verifyRegisterOtp` | `StartRegister`, `CreateAccount`, `StartResend`, `SendRegisterOtp`, `StartVerify`, `Verify` |
| `login`, `googleLogin`, `linkOAuthAccount`, `issueSessionTokens` | `StartLogin`, `StartOAuth`, `CreateByOAuth`, `Link`, `IssueTokens` |
| `refreshToken`, `logout` | `StartRefresh`, `RefuseLocked`, `Refresh`, `Logout` |
| `forgotPassword`, `resetPassword`, `changePassword` | `StartForgot`, `Forgot`, `StartReset`, `Reset`, `StartChange`, `Change`, `RevokeSessions` |
| `updateUserStatus`, `applyPenalty`, `refreshTemporaryLock` | `LockAccount`, `Suspend`, `Unlock` |
| `initSocket`, `disconnectUserSockets`, process | `Handshake`, `Join`, `Recheck`, `Close`, `DisconnectSockets`, `Crash` |

A code is known by the mail it was sent in, a password stands for its hash.  How long
codes and tokens live is left out: a request that is refused changes nothing.

| Property | Kind | Says |
|---|---|---|
| `OnlyCurrentStay` | invariant | a session that can be refreshed and a socket that was checked belong to the account as it is now |
| `CodesUsedOnce` | action property | a code resets the password once, and not after a newer one was mailed |
| `ConfirmsOwnRegistration` | action property | who confirms a registration confirms the password it was mailed for |

### Assistant

State.  `thread` (who holds the lease), `checkpoint` (the session as saved: the pending
action, what became of the others, the request in progress), `ledger[a]` (the
ActionRecord), `service[a]` (what came of the call), `run[h]` (a request with its own
copy of the session).

| Code | Actions |
|---|---|
| `send` of the runtime and of the service | `Receive`, `Resume`, `Message`, `AskStatus`, `Finish` |
| `confirm`, `prepareDomainAction`, `continueBooking` | `Confirm`, `Refuse`, `Prepare`, `ContinueBooking` |
| `confirmed-action.graph.ts` | `Validate`, `Reserve`, `GiveUp`, `Call`, `Return`, `Lookup`, `Project` |
| `mongo-graph-access.ts` | `LeaseEnds`, `Drop`, the condition `Holds` of every save |
| the services called | `Lands`, `PaymentFails` |

One order, and `Bookings` are the attempts to make it; that the customer may ask for another
order in the same session (`startNew`, `booking-draft.ts:179`) is left out.  An answer
confirms or rejects; `refused` stands for `REJECTED` and `EXPIRED`.  The lease is looked at
and the service called in one step: it was renewed for 240 s just before.  To take the
lease and to load the session is one step too.  Receipts, the model and the draft it fills
are left out.

| Property | Kind | Says |
|---|---|---|
| `CalledOnce` | invariant | what was confirmed is called once; an order is paid for once at most without asking |
| `SessionTrue` | invariant | the session agrees with what the services wrote |
| `DecisionsStay` | action property | a decision that was saved stays |
| `KeepsPromise` | refinement | requests, leases and services together implement `AssistedOrder` |

`AssistedOrder` is about what the services did of each action (`effect`) and what the
saved session says of it (`decision`).  No attempt at the order is begun while another
stands or is under way, nothing is begun that was begun or decided before, a payment needs an order
that was made, and the session may say only what is so, once.  Leases, requests, ledger and
retries are gone from it.

## The runs

| Run | Instance | Holds |
|---|---|---|
| `matching_safety` | 2 providers, or 2 handlers (see the bounds); appointments without a chosen provider paid by QR, all other orders by wallet; 1 attempt, batches of 2 | `HolderMatchesOffer`, `AppointmentConfirmed`, `KeepsLifecycle`, `OnlyResyncSkipsConsent` |
| `matching_consent` | 1 provider, 1 handler, both kinds, QR | violates `ConsentBeforeSearch` |
| `matching_recovery` | 1 provider, 1 handler, both kinds, 1 crash, fairness | `SearchEnds`, `ReplyEnds`, `OfferEnds` |
| `settlement_safety` | 2 payments, 2 handlers, 1 scan, 2 attempts | `LedgerMatches`, `RefundRecordsTrue`, `AwardedOnce`, `KeepsCustomerMoney` |
| `settlement_recovery` | 1 payment, 1 handler, 2 scans, 3 attempts, 1 crash, 1 retry, fairness | `RefundEnds`, `RefundReturned` |
| `calendar` | 2 orders of both kinds, 1 provider, 2 requests, 1 handler, slots up to 2 | `AppointmentsApart`, `OneTurnEach`, `ReportHoldsOrder`, `MovedAsAsked` |
| `wallets` | 1 deposit, 2 withdrawals, 2 accounts, 2 numbers, 1 holder, 1 handler, corrections of 1, fairness | `BooksBalance`, `DepositsMatchPayos`, `RequestsKeepAccount`, `PaidIsCredited`, `KeepsPurse` |
| `completion` | 4 payments, 2 revisions, fairness | `PaidOnce`, `PaidIsBacked`, `SettledOnce`, `PaidIsApplied` |
| `vouchers` | 3 orders, 1 code, 2 customers, limits up to 2 | `CountersMatchUsages`, `DiscountBacked`, `LimitKept`, `KeepsLimits` |
| `moderation` | 2 reports, 1 ticket, 2 reviewers, fairness | `LockKeepsDecisions`, `DecisionsStay`, `TempLockEnds` |
| `accounts` | 2 passwords, 2 codes, 1 session, 1 socket, 2 handlers, 2 versions | `OnlyCurrentStay`, `CodesUsedOnce`, `ConfirmsOwnRegistration` |
| `assistant` | 2 orders, 2 payments, 2 handlers | `CalledOnce`, `SessionTrue`, `DecisionsStay`, `KeepsPromise` |

Each ends within four minutes on two cores; the largest are `matching_safety` (8.0 million
states), `assistant` (7.7 million), `accounts` (4.1 million) and `settlement_safety` (3.0
million).  The runs do not repeat the type invariants and `ChargedOnce`, `OneDefault` and
`QrMoneyMatches`, which are theorems.  Deadlock is checked for `Matching`; the other modules
end where an order is over or discarded, a bound is reached or nobody asks for anything.

Bounds of the matching.  Two providers are what every race over one order needs: one who holds or
is asked and one who competes or replaces him.  Limits of one attempt (two for direct
requests in `matching_recovery`) let a search be exhausted, resumed and given up.  Two
handlers, the scanner and the monitor put up to four workers between the steps of each
other.  The constraint `FewAtATime` of `matching_safety` cuts their product: two requests are
under way at once only for an appointment that was paid by wallet, which has the longest
handlers (choosing, undoing, confirming), and only while one provider at most is concerned.
How an order is paid matters to the matching only when its payment can be synced again,
which QR does and a wallet does not: the run takes QR for appointments that search, the
wallet for the rest, and one request at a time beside a repeated sync.  What it leaves out,
two requests beside a sync among them, the theorems cover.  One crash at any
step covers the loss of every local variable and of every timer; a second crash
meets a state that the first could have left.  `MaxCrashes` is the only bound that
is not a constant of the program.

Bounds of the settlement.  Two payments are one that was given up and the one that
replaced it; the unique index allows no two live ones.  Two handlers and a scan put
three refunds of one payment side by side, one more than a lease has holders.  Two
attempts reach both outcomes of a failure.  The second scan, the crash and the
administrator are in `settlement_recovery`, which has no second payment; the
safety properties were also checked once with one crash (9.3 million states), with
one retry (8.7 million) and with two scans, a crash and a retry beside one handler
(10.3 million), and hold there; the proofs hold for all of them.  `MaxCrashes` and
`MaxRetries` are the only bounds that are not constants of the program.

Bounds of the others.  `calendar`: an overlap is between two orders; the provider
leaves and comes back, so that a second one adds no conflict; two requests are one of
each side, or two of one side; `MaxTime` bounds the slots.  The view drops of an order
that is over and of a request that is answered what no step and no property reads.
`wallets`: two withdrawals can ask for more than one deposit brought; two accounts are
the one named by a withdrawal and the one that becomes the default or takes over its
number; `MaxAdjusted` bounds the corrections.  `completion`: four payments are cash, a
QR given up, one paid late and the one that replaced it; two revisions make a stale
quotation; both are bounds.  `vouchers`: three orders are more than the limit of two;
the run was also done once with two orders and two codes of limit one (2.2 million
states), so that an order can change its code; `MaxLimit` bounds the limits.
`moderation`: two reports give two violations at once, the ticket with two requests
its races; there is nothing to bound.  `accounts`: two passwords are the old and the
new one, two versions let a session be two changes old; `MaxMails` and `MaxVersion`
are bounds.  `assistant`: two payments are the automatic one and the one that is asked
for after it failed; two orders are the one that was refused or failed, or is not known
to be made, and the next that the customer asks for.

Symmetry permutes model values that the specification never tells apart; it is used
for safety only.

Fairness of `Matching` (`FairSpec`).  A step that was awaited is resumed (`WF` of `Work(w)`),
the monitors run on their intervals (`WF` of `Scan` and `ExpireReplies`) and time
passes (`WF` of the three deadlines).  Nothing is assumed of requests, of timers,
of providers or of customers: a timer may be late for ever, the scan then closes
the offer.

Fairness of `Settlement` (`FairSpec`).  A handler that has started goes on (`WF` of
`Continue(w)`), leases run out and retries fall due (`WF`: they are dates), and a
refund that is due again and again is picked by a scan again and again (`SF`: every
scan lists all of them, oldest first, and a lease may make one not due for a
while).  Customers, administrators and PayOS owe nothing: a link may stay open for
ever, a gateway call may always fail.

Fairness of the others.  `Wallets`: a request ends, by itself or by an error (`WF`), and
the user whose payment is not counted comes back to the page that keeps the code of his
deposit until PayOS has answered (`useWalletDepositReturn.ts:36`; `SF`, since a request
under way keeps the handler busy, and `SF` of a synchronization that has seen the
payment, since it may be cut off, though not every time).  PayOS owes no webhook.
`Completion`: as long as the order awaits its payment by QR, the customer's pages ask for a
reconciliation, each time they load it and every ten seconds in the assistant
(`useBookingDetailData.ts:39`, `BookingResultPage.tsx:55`, `AgentPayosCheckout.tsx:56`; `WF` of
`Awaiting /\ Reconcile(p)`).  A customer who never looks at his order again is not covered,
and a webhook is never relied on.
`Moderation`: the term of a suspension ends and the monitor looks every minute
(`penaltyPolicy.service.ts:106`; `WF` of both).

### What the code does otherwise

Modelling met places where the code does not do what its comments, prompts or tests
say.  TLC found each of the first six as a counterexample.  The first is kept as the run
`matching_consent` and is a finding of `PROJECT.json`; no run keeps the others.

1. A QR payment synced again while the customer is asked starts a search he has
   not agreed to (`payment.service.ts:1116`, against `dispatch.service.ts:371`,
   `BookingPolicyContent.tsx:24` and `ai/tools/implementations/order-provider.tools.ts:25`).
   The chosen provider declines, the customer is asked, and the payment he made before is
   synced again: PayOS repeats its webhook, or his page asks for a reconciliation, as it does
   while only a deposit is paid (`useBookingDetailData.ts:39`).  The order is ready for
   matching, and the next scan takes it up.
   `OnlyResyncSkipsConsent` says that there is no other way to it.
2. An offer of a provider chosen earlier stays open and can be accepted after the
   customer has chosen somebody else (`assignment.service.ts:338`, against
   `ai/agent/agent-prompt.ts:34`).
3. The monitor that expires an unanswered question cancels an order that was
   taken between its two writes (`orderReassignment.service.ts:355`, against
   `orderCancellation.service.ts:1483` and `tests/provider-replacement.test.cjs:292`).
4. A crash between the two writes of a selection or a timeout leaves an
   appointment without any offer that no scan looks at (`dispatch.service.ts:800`,
   against `:681`).
5. A wallet payment whose transaction runs after the cancellation of its order is kept
   by it, and nothing returns it: the settlement looks at QR payments only
   (`payment.service.ts:780`, against `ai/knowledge/customer-knowledge.ts:43`).
6. A deposit that was refunded to the customer on arrival, because another payment
   had replaced it, is given to the provider as well (`orderCancellation.service.ts:496`).

Others have no document against them.

- When the process dies between the cancelling transaction and the making of the
  Refund record, the payment stays paid and the money waits for somebody to cancel
  again: `RefundReturned` excepts a crash because it must.
- A reconciliation asks PayOS about every failed payment before the pending one and
  throws when PayOS does not know one of them (`payment.service.ts:1328`): a payment made
  after it is recorded by its webhook or not at all.
- The reference that a failed attempt leaves on a payment (`payment.service.ts:1446`) makes
  the webhook and the reconciliation of its later success fail with 409 (`:1421`, `:1220`),
  every time, and the reconciliation of later payments with it: the money is neither
  applied nor returned.  `PaidIsApplied` excepts both cases, as `Reaches`.
- A QR paid late is returned on arrival.  Once the order is paid in another way no page
  reconciles it, so that the return rests on the webhook.
- The reference that a failed attempt leaves on a deposit makes a later webhook of its
  payment fail (`wallet.service.ts:629`); `PaidIsCredited` rests on synchronization.
- An order with a no-show report does not block the calendar
  (`providerSchedule.service.ts:27`); when the report is rejected its time may be
  taken.  `AppointmentsApart` is about orders without one.
- A QR payment that failed leaves the code of its order free to be changed
  (`voucher.service.ts:409`).
- A second registration of an address that is not confirmed makes a locked account
  active again (`auth.service.ts:261`); a refresh under way when its session is revoked
  makes it live again (`:737`), though with an old version after a new password;
  `changePassword` saves over a reset done meanwhile (`:806`); the deletion of a user
  leaves his sockets to their next check (`user.service.ts:143`).
- An unlock resolves every suspension of the user, also one created after the
  administrator looked (`admin.service.ts:112`); a suspension with an ended term under
  a firm lock is looked at again every minute.
- A lease lost between the reservation and the call makes an action that was never
  called `UNKNOWN`; rejected by the next holder, its open record keeps the session from
  reserving another.  A crash there leaves `UNKNOWN` by design
  (`note/agent-booking.md:52`).  The status of a payment resolves an unknown one by any
  payment of the order that matches.

## The proofs

`MatchingProofs` proves for all values of the constants:

- `TypeCorrect`: `Spec => []TypeOK`;
- `HolderCorrect`: `Spec => []HolderMatchesOffer`;
- `LifecycleCorrect`: `Spec => KeepsLifecycle`, the refinement of `OrderLifecycle`;
- `HeldOnceTakenCorrect` and `OrderAdvancesCorrect`: what `OrderLifecycle` gives in turn, that
  an order has exactly one holder from its acceptance on, changes hands only while nobody
  works on it, is paid before it is taken, and ends for good;
- `AppointmentConfirmedCorrect`: `Spec => []AppointmentConfirmed`;
- `ConsentCorrect`: `Spec => OnlyResyncSkipsConsent`, for both ways to pay;
- `WalletConsentCorrect`: `Spec => [](order.method = "wallet" => ConsentBeforeSearch)`.

Assumptions: `ConstantsAssumption` of `Matching` (the null provider is not a
provider, the three kinds of worker differ, the limits are positive).

Argument.  `IInv` is `TypeOK /\ HolderMatchesOffer /\ TakenIsPaid`.
`HolderMatchesOffer` alone is not inductive: who accepts must find the offers of
an order without holder all unaccepted, which is its own third conjunct, and the
steps that close, reopen or create an offer need `TypeOK` to know that a worker
that answers for a provider answers for a provider.  `TakenIsPaid` (an order that
somebody holds has been paid) is what the refinement needs: `Stage` shows a
created order as unpaid or waiting, and a provider who leaves must bring it back
to waiting.  There is one lemma per action, `<Action>Step`, which shows at once
that the action preserves `IInv` and that it is a step of `OrderLifecycle` or
leaves its variables alone; `NextInv` collects them.  What follows from `OrderLifecycle` is
proved of it (`LifecycleHolds`) and carried over by the refinement, without another look at
the handlers.  The last three theorems use `IInv`
and add to it what each needs.  `AppointmentConfirmed` stands on `AppointmentOffers`: every
open offer of a scheduled order is for the appointment, and so is the answer of a worker
about to accept one, which is what confirms the order; an undone selection touches only an
order that waits for a provider, and a payment confirms an order that has one.
Consent stands on `UnpaidRests`, that nothing begins before the payment (no offer, no
question, no worker beyond an administrator's dispatch that finds nothing to do): the
customer is asked on a paid order only, so that the sync of a payment which makes the order
ready while he is asked is one of a QR payment that was paid before (`SyncStep`).  Of every
other step of a paid order `PaidStep` shows that a question comes with the order not ready
and that the order gets ready with an answer.

`SettlementProofs` proves for all values of the constants, from
`SettlementAssumption` (the null payment is not a payment, handlers and scanners
differ, the limits are natural numbers):

- `TypeCorrect`, `LedgerCorrect`, `ChargedOnceCorrect`, `RefundRecordsCorrect` and
  `AwardedOnceCorrect`: `Spec => []` of the five invariants of `Settlement`;
- `CustomerMoneyCorrect`: `Spec => KeepsCustomerMoney`, the refinement of
  `CustomerMoney`;
- `OneKeptCorrect` and `MoneyStaysCorrect`: what that gives in turn, that one payment at
  most is kept, and what was kept goes back for a cancelled order only and stays there.

Argument.  The five invariants together are `Safe`, which is not inductive: a step
acts on what its worker read long before.  `RunsTrue` says what of that still
holds when the worker acts: who refunds a payment stands before a cancelled order
and a payment that was taken, who writes success stands before one that is
returned, who goes by a paid link has a link that is paid (a discarded order is not
cancelled, so nobody settles it).  It survives the steps
of the others because none of these facts is ever undone (`Onward`).  `LinkedOnce`
and `LinkAfterPayment` keep the creation of a link to the one worker that reserved
the payment, without which `CreateLink` could mark a paid payment as failed.
`MoneyOne` and `MoneySame` say once what a step does to the customer's money:
`MoneyOf` reads it off the ledger, `MoneyValue` shows that the Payment records say
the same.  Each action then has a lemma `<Action>Step`, most of them resting on one
of four general ones: `RunStep` (only a worker moves), `RefundStep` (a Refund record
too), `WorkerStep` (a payment too) and `RestStep` (no worker moves).

`CalendarProofs` proves, from `CalendarAssumption` (the null values are no members;
durations are positive, the rest of the times natural numbers), `CalendarTypeCorrect`,
`AppointmentsApartCorrect`, `OneTurnCorrect`, `ReportHoldsCorrect` and
`MovedAsAskedCorrect`, for any number of orders, providers and requests and any buffer
and travel time.  Argument.  What a transaction checks (`IsAvailable`, the interval of
a move, `HasUsedTurn`) it checks for the state it changes, so `AppointmentsApart` and
`OneTurnEach` are preserved once it is known what an order under way looks like
(`OrdersTimed`: it has a holder, its interval is not empty, an appointment's promise is
its schedule until work begins), that a request names an appointment and a
time (`RequestsAsk`), and that a handler that answers answers one that was made (`RunsAsk`).  The
heart is about intervals: conflict is symmetric for work that takes time, and the
interval that a transaction compares covers the one the property is about.

`WalletsProofs` proves, from `WalletsAssumption` (finite sets of requests and deposits,
accounts numbered), `WalletsTypeCorrect`, `BooksBalanceCorrect`, `DepositsMatchCorrect`,
`RequestsKeepCorrect`, `OneDefaultCorrect`, `KeepsPurseCorrect` (`Spec => KeepsPurse`, the
refinement of `Purse`) and `SettledForGoodCorrect` (so what is credited, sent or given back
stays so, and no balance is overdrawn).  `IInv` adds `DepositsSound` (what status,
maker, link and reference of a deposit say of each other), `RunsSeen` (what a handler
saw of a link that is paid or closed is still so) and `RequestsHeld` (a request that
was made names an account that exists) to the properties.  `BooksBalance` counts sets:
lemmas on the cardinality of a finite set with one element more or less carry it over
each action.  The refinement needs no more than `IInv`: that a success has a paid link, that
a link is paid only once it was shown, so that `CreateLink` and `SaveLink`, which fail the
deposit whatever it is, meet none that counts, and that a handler which goes by a paid link
still finds it paid.  Then a step of the wallet is one of `Purse`, or moves nothing it knows
(`Quiet`).

`CompletionProofs` proves, from `CompletionAssumption` (both bounds positive),
`CompletionTypeCorrect`, `PaidOnceCorrect`, `PaidIsBackedCorrect`, `SettledOnceCorrect`,
`QrMoneyMatchesCorrect` and `RestOfFinalQuotationCorrect`.  `IInv` adds `OrderShape`,
`PaymentShape` (an inspection has payments of the rest, after its completion, any other
order payments of the whole) and `WorkBacked` (a completed order that is not an
inspection is paid or owed in cash, so that no late QR becomes its payment).

`VouchersProofs` proves, from `VouchersAssumption` (`None` is neither order, code nor
customer; finitely many orders), `VouchersTypeCorrect`, `CountersMatchUsagesCorrect`,
`DiscountBackedCorrect`, `LimitKeptCorrect`, `KeepsLimitsCorrect` (`Spec => KeepsLimits`,
the refinement of `LimitedUses`) and `OneCodeCorrect` (so no order has uses of two codes).
`IInv` adds `OrdersSound` (what status,
code and payment of an order say of each other) and `UncreatedUnused` (nobody holds a
code that does not exist).  Every step that moves uses changes one order: `OrderChange`
says once what happens to the counters when an order becomes another record and its
usages follow, and the actions are instances of it.  That only `Reserve` adds a holder
(`OnlyReserveAdds`) and that a holder is counted as taken (`HeldIsTaken`) give `LimitKept`.
For the refinement, an order has a use of the code it carries only (`HeldIsCarried`, of
`DiscountBacked`): one that reserves has none, and one that gives back gives back one, by
whichever of the four ways (`UseGivenBack`).

`UserProofs` proves, from `ModerationAssumption` (reports and tickets are apart, and
`NoCase` is neither), `ModerationTypeCorrect`, `LockKeepsDecisionsCorrect` and
`ModerationDecisionsCorrect`, for any number of cases and requests.  `CaseInv` adds
`TempLockIsLock` (a temporary lock is never the administrator's: otherwise its end would
open what he has closed), `ChargedDecided` (a case that led to a violation has the status
the violation gave it) and `ReadIsSo` (what a request read of a ticket is still so while
nobody saved the ticket, which is what its version says).

`UserProofs` also proves, from `AccountsAssumption` (`None` and `"random"` are no
passwords, the bounds are natural numbers), `AccountsTypeCorrect`,
`OnlyCurrentStayCorrect`, `CodesUsedOnceCorrect` and `ConfirmsOwnCorrect`, for any number
of passwords, requests, sessions and connections.  None of the properties is inductive,
because a request writes what it decided from an account it read long ago.  `IInv` says of
each request what is still so when it writes (`RunSound`): who issues or refreshes tokens
has a version that is not above the account's, and if it is the account's, the password
compared is the account's too (`Current`); who resets holds a code that was read with its
account; who mails a code for a registration has the password it read.  The same is kept
of every session (`SessionSound`) whether or not it is still valid, since one that is out
of date could otherwise become current again: the version only grows, and the password of
a verified account changes only with it (`AccountKeeps`).  `ResetCodeSound` and
`RegisterCodeSound` tie the codes of the account to the mails, and `SocketsSound` says
that a checked connection of an older version has a request that is about to cut it; a
crash that takes this request away takes the connections too.  Actions that write the account rest
on `WriteStep` (the account changes, and how), the others on `RequestStep` (one request
moves), `BeginStep` (one begins) and `SessionKept`, `SocketsKept` and `RunKept`, which
carry the rest over.

`AssistantProofs` proves, from `AssistantAssumption` (orders, payments and `None` are
apart), `AssistantTypeCorrect`, `CalledOnceCorrect`, `SessionTrueCorrect`,
`AssistantDecisionsCorrect`, `PromiseCorrect` (`Spec => KeepsPromise`, the refinement of
`AssistedOrder`) and `OneOrderCorrect` (so one attempt at an order at most stands or is under
way, and nothing is paid before), for any number of requests, attempts and payments.  Argument.
`IInv` says what a session may claim (`Truthful`), and says it twice: of the saved
session, and of the copy held by the request that has the lease, which besides knows
every saved decision (`HolderSound`).  Of a copy whose request has lost the lease only
its shape is known (`RunSound`); such a request may still settle the ledger, which is
harmless because `settle` closes open records with results that are so (`LedgerTrue`).
The lease alone does not give one call: a request that lost it before its call leaves an
`EXECUTING` record to the next.  What does is that a record is reserved once and only
the one who reserved it stands before the call (`OneExecutes`, and in `StepSound` that
the action was not called yet).  `OneAutomatic` needs that a payment after a booking is
asked for when no payment was ever called (the last conjunct of `HolderSound`).  Most
actions follow from `RequestStep` (one request moves), by way of `KeepStep` (nothing
else changes), `SaveStep` (it saves) or `SettleStep` (it settles).  The refinement needs two
facts more (`PInv`): an order is pending only while none is known to be made, and a payment
only when one is (`Sequences`, of every session, however old), and no order is undone
(`BookingsStand`).  Then `StepCalls` shows that a call begins the only order, since every
other that was called is decided and refused, hence without effect; `StepSays` that a save
says what is so, which is `Truthful` after the step, and nothing twice, which is
`DecisionsKept`.

Only model-checked: liveness under fairness (`SearchEnds`, `ReplyEnds`, `OfferEnds`,
`RefundEnds`, `RefundReturned`, `PaidIsCredited`, `PaidIsApplied`, `TempLockEnds`), which
the prover cannot do.  Every other property of the passing runs is also a theorem.

## Not modelled

- Amounts.  Prices, fees, discounts and points are arithmetic of single functions; here
  a payment is the whole sum it asks for.
- Presence, location and profile of providers: an input of the matching, free at each
  read.  The search for providers only reads.
- Onboarding of providers: one document with a linear status, an external OCR service
  and a review by hand.
- Messages and notifications, feedback, catalogue, statistics: nothing in the workflow
  of an order reads them back.  Where a failed notification undoes a write, it is in the
  model.
- The counters of automatic promotions and the balance of points: one conditional
  update each, inside the transactions of the orders.
- Orders that are overdue: a query and a conditional update that flags them.
- The language model of the assistant and the tools that only read.
- The clients (`handigo-web`, `handigo-app`), which are most of the repository's
  lines: their calls are the requests of the models.
- The older forms kept for old data: the consent to quotations, payouts of refunds to
  bank accounts, orders with a code and no usage.

## Plan

1. `Onboarding`: draft, review and renewal of a provider, and what a lapsed document
   does to offers under way.
