------------------------------ MODULE Settlement ------------------------------
(***************************************************************************)
(* The money of one order: charging it (payment.service.ts), cancelling    *)
(* it, and giving back what was paid (orderCancellation.service.ts,        *)
(* refundProcessing.ts).                                                   *)
(*                                                                         *)
(* A payment by wallet is one MongoDB transaction.  A payment by QR is a   *)
(* record of this system and a link of the PayOS gateway, which change in  *)
(* separate steps: the handlers below read the link, act on it and write   *)
(* the record later.  Cancelling an order refunds in its own transaction   *)
(* what it can; the rest is done after the commit, through a Refund record *)
(* that a lease hands to one worker and a scan every 30 s picks up again.  *)
(*                                                                         *)
(* Several handlers run at once in one server process, and a scan starts   *)
(* whether or not the previous one has ended: each is a worker, whose      *)
(* progress is run[w].  One step of a worker is one database operation,    *)
(* one database transaction or one call of the gateway.  A crash loses the *)
(* progress of every worker and nothing else.                              *)
(*                                                                         *)
(* Amounts are abstracted: a payment is the whole sum it asks for.         *)
(***************************************************************************)
EXTENDS Naturals

CONSTANTS
    Payments,     \* the Payment records the order can get, all of one paymentType
    NoPayment,    \* the payment of a worker that handles none
    Handlers,     \* requests and webhooks being handled
    Scanners,     \* refund scans, which may overlap
    MaxAttempts,  \* maxAttempts of a Refund (5 in the code)
    MaxCrashes,   \* bound: crashes of the server process
    MaxRetries    \* bound: refunds an administrator retries by hand

ASSUME SettlementAssumption ==
    /\ NoPayment \notin Payments
    /\ Handlers \cap Scanners = {}
    /\ MaxAttempts \in Nat \ {0}
    /\ MaxCrashes \in Nat
    /\ MaxRetries \in Nat

Workers == Handlers \cup Scanners

VARIABLES
    order,     \* Order: status, and cancellation.refundPolicy.policyVersion
    payment,   \* Payment: method and status ("none": not created yet)
    credits,   \* number of "refund" WalletTransactions of a payment
    awards,    \* number of "provider_earning" WalletTransactions of a payment
    refund,    \* Refund of a payment: status, attemptCount, nextRetryAt, lease
    link,      \* the payment link at PayOS
    run,       \* what each worker is doing
    crashes,   \* crashes so far
    retries    \* administrator's retries so far

vars == <<order, payment, credits, awards, refund, link, run, crashes, retries>>
ledger == <<payment, credits, awards>>
counters == <<crashes, retries>>

-----------------------------------------------------------------------------
(* Records.                                                                *)

(* The three live refund policies.  "standard" returns everything, a QR    *)
(* payment after the commit; "qrToWallet" (shouldRefundQrToWallet) returns *)
(* it inside the transaction; "deposit" keeps the deposit of a quoted      *)
(* order for the provider.                                                 *)
Policies == {"standard", "qrToWallet", "deposit"}

(* An unpaid order that its customer discards is marked isDeleted.         *)
Orders == [status : {"open", "discarded"}, policy : {"none"}]
            \cup [status : {"cancelled"}, policy : Policies]

PaymentRecords == [method : {"none", "wallet", "payos"},
                   status : {"none", "pending", "paid", "failed", "refunded"}]

LinkStatuses == {"none", "open", "paid", "cancelled"}

OpenRefunds == {"requested", "requesting", "failed"}

(* waiting: nextRetryAt lies ahead.  lease: "held" until leaseExpiresAt,   *)
(* then "over" while leaseOwner still names this process.                  *)
RefundRecords == [status : OpenRefunds \cup {"none", "succeeded", "manual_review"},
                  attempts : Nat, waiting : BOOLEAN, lease : {"none", "held", "over"}]

Labels == {"idle", "charge", "reserve", "link", "reconcile", "after", "withdraw",
           "verify", "release", "list", "getLink", "markPaid", "closeLink", "fail",
           "ensure", "claim", "refund", "finish", "fail1", "fail2", "job"}

(* saw: what the worker read earlier and still goes by.                    *)
Runs == [at : Labels, p : Payments \cup {NoPayment},
         saw : LinkStatuses \cup {"confirmed", "invalid", "failed", "manual_review"}]

Idle == [at |-> "idle", p |-> NoPayment, saw |-> "none"]

IsLive(p) == payment[p].status \in {"pending", "paid"}

IsCancelled == order.status = "cancelled"

(* Wrong: a lease is never taken over.                                     *)
IsDueUnleased(p) == /\ refund[p].status \in OpenRefunds
                    /\ ~refund[p].waiting
                    /\ refund[p].lease = "none"

IsDue(p) == /\ refund[p].status \in OpenRefunds
            /\ ~refund[p].waiting
            /\ refund[p].lease # "held"

(* Moving a worker on.                                                     *)
Goto(w, label) == run' = [run EXCEPT ![w].at = label]
Take(w, label, p, saw) == run' = [run EXCEPT ![w] = [at |-> label, p |-> p, saw |-> saw]]
End(w) == run' = [run EXCEPT ![w] = Idle]

SetStatus(p, status) == payment' = [payment EXCEPT ![p].status = status]

Init ==
    /\ order = [status |-> "open", policy |-> "none"]
    /\ payment = [p \in Payments |-> [method |-> "none", status |-> "none"]]
    /\ credits = [p \in Payments |-> 0]
    /\ awards = [p \in Payments |-> 0]
    /\ refund = [p \in Payments |->
                   [status |-> "none", attempts |-> 0, waiting |-> FALSE, lease |-> "none"]]
    /\ link = [p \in Payments |-> "none"]
    /\ run = [w \in Workers |-> Idle]
    /\ crashes = 0
    /\ retries = 0

-----------------------------------------------------------------------------
(* Paying.                                                                 *)

(* createOrderPayment: the order is read and must be open; the transaction *)
(* that charges comes later.  A request that carries the expected amount   *)
(* is checked again inside it.                                             *)
StartPayment(w) ==
    /\ run[w].at = "idle"
    /\ order.status = "open"
    /\ \E label \in {"charge", "reserve"}, saw \in {"confirmed", "none"} :
           Take(w, label, NoPayment, saw)
    /\ UNCHANGED <<order, ledger, refund, link, counters>>

(* What both transactions test before they create a payment.               *)
MayCreate(w) ==
    /\ order.status # "discarded"
    /\ run[w].saw = "confirmed" => ~IsCancelled
    /\ \A p \in Payments : ~IsLive(p)

(* createWalletPayment: or the transaction aborts (a live payment, too     *)
(* small a balance).                                                       *)
Charge(w) ==
    /\ run[w].at = "charge"
    /\ \/ /\ MayCreate(w)
          /\ \E p \in Payments :
                /\ payment[p].status = "none"
                /\ payment' = [payment EXCEPT ![p] = [method |-> "wallet", status |-> "paid"]]
       \/ UNCHANGED payment
    /\ End(w)
    /\ UNCHANGED <<order, credits, awards, refund, link, counters>>

(* reserveExternalPayment with method payos, or its abort.                 *)
Reserve(w) ==
    /\ run[w].at = "reserve"
    /\ \/ /\ MayCreate(w)
          /\ \E p \in Payments :
                /\ payment[p].status = "none"
                /\ payment' = [payment EXCEPT ![p] = [method |-> "payos", status |-> "pending"]]
                /\ Take(w, "link", p, "none")
       \/ End(w) /\ UNCHANGED payment
    /\ UNCHANGED <<order, credits, awards, refund, link, counters>>

(* The link is created at PayOS after the commit; when that fails the      *)
(* record is saved as failed, whatever its status.                         *)
CreateLink(w) ==
    /\ run[w].at = "link"
    /\ \/ /\ link' = [link EXCEPT ![run[w].p] = "open"]
          /\ UNCHANGED payment
       \/ SetStatus(run[w].p, "failed") /\ UNCHANGED link
    /\ End(w)
    /\ UNCHANGED <<order, credits, awards, refund, counters>>

(* PayOS, external: the customer pays an open link, or it closes.          *)
GatewayPaid(p) ==
    /\ link[p] = "open"
    /\ link' = [link EXCEPT ![p] = "paid"]
    /\ UNCHANGED <<order, ledger, refund, run, counters>>

GatewayExpires(p) ==
    /\ link[p] = "open"
    /\ link' = [link EXCEPT ![p] = "cancelled"]
    /\ UNCHANGED <<order, ledger, refund, run, counters>>

-----------------------------------------------------------------------------
(* Learning that a link was paid.                                          *)

(* The payment becomes paid, or, when the order was discarded or another   *)
(* live payment has replaced it, refunded to the wallet on arrival         *)
(* (refundUnappliedPayosPayment).                                          *)
RecordMoney(p) ==
    IF order.status = "discarded" \/ \E q \in Payments \ {p} : IsLive(q)
    THEN /\ SetStatus(p, "refunded")
         /\ credits' = [credits EXCEPT ![p] = @ + 1]
         /\ refund' = [refund EXCEPT ![p].status = IF @ = "none" THEN "succeeded" ELSE @]
    ELSE /\ SetStatus(p, "paid")
         /\ UNCHANGED <<credits, refund>>

(* handlePayosWebhook, the transaction of a success.  PayOS may deliver it *)
(* late and more than once.                                                *)
WebhookPaid(w, p) ==
    /\ run[w].at = "idle"
    /\ link[p] = "paid"
    /\ \/ /\ payment[p].status \in {"pending", "failed"}
          /\ RecordMoney(p)
       \/ /\ payment[p].status \in {"paid", "refunded"}
          /\ UNCHANGED <<payment, credits, refund>>
    /\ IF payment'[p].status = "paid" THEN Take(w, "after", p, "none") ELSE UNCHANGED run
    /\ UNCHANGED <<order, awards, link, counters>>

(* handlePayosWebhook, the transaction of a failed attempt to pay.         *)
WebhookFailed(p) ==
    /\ link[p] # "none"
    /\ payment[p].status = "pending"
    /\ SetStatus(p, "failed")
    /\ UNCHANGED <<order, credits, awards, refund, link, run, counters>>

(* Wrong: nobody looks at the order again.                                 *)
AfterMoneyForgets(w) ==
    /\ run[w].at = "after"
    /\ End(w)
    /\ UNCHANGED <<order, ledger, refund, link, counters>>

(* Both handlers, after the commit: the order is read, and when it was     *)
(* cancelled its settlement is triggered.                                  *)
AfterMoney(w) ==
    /\ run[w].at = "after"
    /\ IF IsCancelled THEN Goto(w, "list") ELSE End(w)
    /\ UNCHANGED <<order, ledger, refund, link, counters>>

(* reconcilePayosPayment: the link is read outside the transaction.  It    *)
(* serves failed and pending payments; a paid one is only read again.  A   *)
(* discarded order is not found.                                           *)
StartReconcile(w, p) ==
    /\ run[w].at = "idle"
    /\ order.status # "discarded"
    /\ payment[p].method = "payos"
    /\ payment[p].status \in {"pending", "failed"}
    /\ link[p] # "none"
    /\ Take(w, "reconcile", p, link[p])
    /\ UNCHANGED <<order, ledger, refund, link, counters>>

(* Its transaction, which goes by the link it read.                        *)
Reconcile(w) ==
    LET p == run[w].p
        status == payment[p].status
    IN  /\ run[w].at = "reconcile"
        /\ CASE status \in {"pending", "failed"} /\ run[w].saw = "paid" -> RecordMoney(p)
             [] status = "pending" /\ run[w].saw = "cancelled" ->
                    SetStatus(p, "failed") /\ UNCHANGED <<credits, refund>>
             [] OTHER -> UNCHANGED <<payment, credits, refund>>
        /\ IF payment'[p].status = "paid" THEN Goto(w, "after") ELSE End(w)
        /\ UNCHANGED <<order, awards, link, counters>>

-----------------------------------------------------------------------------
(* Withdrawing a pending QR payment, to pay in another way.                *)

(* What the link just read asks for: reconcile it, close it or release the *)
(* record (cancelPendingPayosPayment, reconcileExistingPendingPayosPayment). *)
StartWithdraw(w, p) ==
    /\ run[w].at = "idle"
    /\ payment[p].status = "pending"
    /\ \/ link[p] = "paid" /\ Take(w, "reconcile", p, "paid")
       \/ link[p] = "open" /\ Take(w, "withdraw", p, "open")
       \/ link[p] = "cancelled" /\ Take(w, "release", p, "cancelled")
    /\ UNCHANGED <<order, ledger, refund, link, counters>>

(* The link is closed at PayOS; an error is ignored, the next read tells.  *)
Withdraw(w) ==
    /\ run[w].at = "withdraw"
    /\ \/ /\ link[run[w].p] = "open"
          /\ link' = [link EXCEPT ![run[w].p] = "cancelled"]
       \/ UNCHANGED link
    /\ Goto(w, "verify")
    /\ UNCHANGED <<order, ledger, refund, counters>>

Verify(w) ==
    LET p == run[w].p
    IN  /\ run[w].at = "verify"
        /\ \/ link[p] = "paid" /\ Take(w, "reconcile", p, "paid")
           \/ link[p] = "cancelled" /\ Take(w, "release", p, "cancelled")
           \/ link[p] = "open" /\ End(w)
        /\ UNCHANGED <<order, ledger, refund, link, counters>>

(* Releasing the record, only while it is pending.  The settlement of a    *)
(* cancelled order ends a pending payment in the same way.                 *)
FailIfPending(w) ==
    /\ IF payment[run[w].p].status = "pending"
       THEN SetStatus(run[w].p, "failed")
       ELSE UNCHANGED payment
    /\ End(w)
    /\ UNCHANGED <<order, credits, awards, refund, link, counters>>

Release(w) == run[w].at = "release" /\ FailIfPending(w)

-----------------------------------------------------------------------------
(* Cancelling.                                                             *)

(* Wrong: a pending payment is returned too.                               *)
ReturnedUnpaid(policy) ==
    IF policy = "deposit" THEN {} ELSE {p \in Payments : IsLive(p)}

(* refundWalletPayments: the payments the cancelling transaction returns.  *)
ReturnedAtOnce(policy) ==
    IF policy = "deposit" THEN {}
    ELSE {p \in Payments : /\ payment[p].status = "paid"
                           /\ \/ payment[p].method = "wallet"
                              \/ payment[p].method = "payos" /\ policy = "qrToWallet"}

(* Wrong: compensatedToProviderId is not asked for.                        *)
AwardedAgain(policy, status) ==
    IF policy # "deposit" THEN {} ELSE {p \in Payments : status[p] \in {"paid", "refunded"}}

(* compensateProviderPayments: the deposits the provider is given.  The    *)
(* query takes refunded payments too.                                      *)
Awarded(policy, status) ==
    IF policy # "deposit" THEN {}
    ELSE {p \in Payments : status[p] \in {"paid", "refunded"} /\ awards[p] = 0}

AddAwards(policy, status) ==
    awards' = [p \in Payments |->
                 IF p \in Awarded(policy, status) THEN awards[p] + 1 ELSE awards[p]]

(* discardUnpaidOrder: only an order without a payment that is pending,    *)
(* was paid or was returned (a pending one is withdrawn before).  A QR     *)
(* given up before may still be paid.                                      *)
Discard(w) ==
    /\ run[w].at = "idle"
    /\ order.status = "open"
    /\ \A p \in Payments : payment[p].status \in {"none", "failed"}
    /\ order' = [order EXCEPT !.status = "discarded"]
    /\ UNCHANGED <<ledger, refund, link, run, counters>>

Cancelled(policy) == [status |-> "cancelled", policy |-> policy]

(* cancelOrdersWithSettlement, the transaction; the settlement follows the *)
(* commit.  A payment already returned in the ledger is only marked.       *)
Cancel(w) ==
    /\ run[w].at = "idle"
    /\ order.status = "open"
    /\ \E policy \in Policies :
          /\ order' = Cancelled(policy)
          /\ payment' = [p \in Payments |-> IF p \in ReturnedAtOnce(policy)
                                            THEN [payment[p] EXCEPT !.status = "refunded"]
                                            ELSE payment[p]]
          /\ credits' = [p \in Payments |-> IF p \in ReturnedAtOnce(policy) /\ credits[p] = 0
                                            THEN 1 ELSE credits[p]]
          /\ AddAwards(policy, [p \in Payments |-> payment[p].status])
    /\ Take(w, "list", NoPayment, "none")
    /\ UNCHANGED <<refund, link, counters>>

(* Cancelling again only settles again.                                    *)
CancelAgain(w) ==
    /\ run[w].at = "idle"
    /\ IsCancelled
    /\ Take(w, "list", NoPayment, "none")
    /\ UNCHANGED <<order, ledger, refund, link, counters>>

-----------------------------------------------------------------------------
(* Settling a cancelled order.                                             *)

(* settleCancelledOrderPayments: the live QR payments are listed (of one   *)
(* type there is at most one) and the provider is compensated.  Under the  *)
(* deposit policy the amount to refund is zero and requestPayosRefund      *)
(* returns at once.                                                        *)
ListPayments(w) ==
    /\ run[w].at = "list"
    /\ AddAwards(order.policy, [p \in Payments |-> payment[p].status])
    /\ \/ \E p \in Payments :
            /\ payment[p].method = "payos"
            /\ \/ payment[p].status = "pending" /\ Take(w, "getLink", p, "none")
               \/ /\ payment[p].status = "paid"
                  /\ order.policy # "deposit"
                  /\ Take(w, "ensure", p, "none")
       \/ /\ \A p \in Payments :
                payment[p].method = "payos" =>
                    /\ payment[p].status # "pending"
                    /\ payment[p].status = "paid" => order.policy = "deposit"
          /\ End(w)
    /\ UNCHANGED <<order, payment, credits, refund, link, counters>>

(* settlePendingPayosPayment: reading the link fails when there is none,   *)
(* and may always fail; the error is logged.                               *)
SettleGetLink(w) ==
    LET p == run[w].p
    IN  /\ run[w].at = "getLink"
        /\ \/ link[p] = "paid" /\ Goto(w, "markPaid")
           \/ link[p] = "open" /\ Goto(w, "closeLink")
           \/ link[p] = "cancelled" /\ Goto(w, "fail")
           \/ End(w)
        /\ UNCHANGED <<order, ledger, refund, link, counters>>

(* Money found on the link of a cancelled order is recorded, the provider  *)
(* compensated, and the refund requested, unless someone else has written  *)
(* the payment.                                                            *)
SettleMarkPaid(w) ==
    LET p == run[w].p
    IN  /\ run[w].at = "markPaid"
        /\ IF payment[p].status = "pending"
           THEN /\ SetStatus(p, "paid")
                /\ AddAwards(order.policy, [q \in Payments |-> payment'[q].status])
                /\ IF order.policy = "deposit" THEN End(w) ELSE Goto(w, "ensure")
           ELSE End(w) /\ UNCHANGED <<payment, awards>>
        /\ UNCHANGED <<order, credits, refund, link, counters>>

(* Closing the link fails when it was paid meanwhile, and may always fail. *)
SettleCloseLink(w) ==
    /\ run[w].at = "closeLink"
    /\ \/ /\ link[run[w].p] = "open"
          /\ link' = [link EXCEPT ![run[w].p] = "cancelled"]
          /\ Goto(w, "fail")
       \/ End(w) /\ UNCHANGED link
    /\ UNCHANGED <<order, ledger, refund, counters>>

SettleFail(w) == run[w].at = "fail" /\ FailIfPending(w)

-----------------------------------------------------------------------------
(* Refunding a QR payment to the wallet.                                   *)

(* ensurePayosRefundRecord: an upsert.                                     *)
EnsureRefund(w) ==
    /\ run[w].at = "ensure"
    /\ refund' = [refund EXCEPT ![run[w].p].status = IF @ = "none" THEN "requested" ELSE @]
    /\ Goto(w, "claim")
    /\ UNCHANGED <<order, ledger, link, counters>>

(* claimRefund: taking the lease, in one write.                            *)
ClaimRefund(w) ==
    LET p == run[w].p
    IN  /\ run[w].at = "claim"
        /\ IF IsDue(p)
           THEN /\ refund' = [refund EXCEPT ![p].status = "requesting", ![p].lease = "held"]
                /\ Goto(w, IF run[w].saw = "invalid" THEN "fail1" ELSE "refund")
           ELSE End(w) /\ UNCHANGED refund
        /\ UNCHANGED <<order, ledger, link, counters>>

(* Wrong: the lease alone is trusted to keep others away.                  *)
RefundTrustingLease(w) ==
    LET p == run[w].p
    IN  /\ run[w].at = "refund"
        /\ SetStatus(p, "refunded")
        /\ credits' = [credits EXCEPT ![p] = @ + 1]
        /\ Goto(w, "finish")
        /\ UNCHANGED <<order, awards, refund, link, counters>>

(* refundPayosPaymentToWallet, the transaction: nothing is credited when   *)
(* the ledger has a refund already or the payment is not paid.             *)
RefundToWallet(w) ==
    LET p == run[w].p
    IN  /\ run[w].at = "refund"
        /\ IF payment[p].status = "paid"
           THEN /\ SetStatus(p, "refunded")
                /\ credits' = [credits EXCEPT ![p] = IF @ = 0 THEN 1 ELSE @]
           ELSE UNCHANGED <<payment, credits>>
        /\ Goto(w, "finish")
        /\ UNCHANGED <<order, awards, refund, link, counters>>

Succeed(p) ==
    refund' = [refund EXCEPT ![p].status = "succeeded", ![p].waiting = FALSE,
                             ![p].lease = "none"]

(* ... and the Refund record after the commit.                             *)
FinishRefund(w) ==
    /\ run[w].at = "finish"
    /\ Succeed(run[w].p)
    /\ End(w)
    /\ UNCHANGED <<order, ledger, link, counters>>

(* Wrong: the error is logged and the refund taken for done.               *)
RefundErrorSwallowed(w) ==
    /\ run[w].at \in {"refund", "finish"}
    /\ Goto(w, "finish")
    /\ UNCHANGED <<order, ledger, refund, link, counters>>

(* Either write may throw, the first with nothing written.                 *)
RefundThrows(w) ==
    /\ run[w].at \in {"refund", "finish"}
    /\ Goto(w, "fail1")
    /\ UNCHANGED <<order, ledger, refund, link, counters>>

(* recordRefundFailure, the first write: it gives the lease back, whichever *)
(* worker of this process took it last, and counts the attempt.            *)
RecordFailure(w) ==
    LET p == run[w].p
        count == refund[p].attempts + 1
    IN  /\ run[w].at = "fail1"
        /\ IF refund[p].lease = "none"
           THEN End(w) /\ UNCHANGED refund
           ELSE /\ refund' = [refund EXCEPT ![p].attempts = count, ![p].lease = "none"]
                /\ Take(w, "fail2", p, IF count >= MaxAttempts THEN "manual_review"
                                                               ELSE "failed")
        /\ UNCHANGED <<order, ledger, link, counters>>

(* The second write follows the decision of getRefundRetryDecision, whatever *)
(* has become of the refund since.                                         *)
DecideRetry(w) ==
    /\ run[w].at = "fail2"
    /\ refund' = [refund EXCEPT ![run[w].p].status = run[w].saw,
                                ![run[w].p].waiting = (run[w].saw = "failed")]
    /\ End(w)
    /\ UNCHANGED <<order, ledger, link, counters>>

-----------------------------------------------------------------------------
(* Picking refunds up again.                                               *)

(* startRefundReconciliationMonitor: a scan lists the refunds that are due *)
(* and handles each.                                                       *)
Scan(s, p) ==
    /\ run[s].at = "idle"
    /\ IsDue(p)
    /\ Take(s, "job", p, "none")
    /\ UNCHANGED <<order, ledger, refund, link, counters>>

(* retryPayosRefundByPaymentId: the administrator starts over.             *)
AdminRetry(w, p) ==
    /\ run[w].at = "idle"
    /\ retries < MaxRetries
    /\ refund[p].status \in {"failed", "manual_review"}
    /\ refund' = [refund EXCEPT ![p] = [status |-> "requested", attempts |-> 0,
                                        waiting |-> FALSE, lease |-> "none"]]
    /\ Take(w, "job", p, "none")
    /\ retries' = retries + 1
    /\ UNCHANGED <<order, ledger, link, crashes>>

(* processRefundJob.                                                       *)
ProcessRefundJob(w) ==
    LET p == run[w].p
        valid == IsCancelled /\ payment[p].status = "paid"
    IN  /\ run[w].at = "job"
        /\ IF payment[p].status = "refunded"
           THEN Succeed(p) /\ End(w)
           ELSE /\ IF valid THEN Goto(w, "ensure") ELSE Take(w, "claim", p, "invalid")
                /\ UNCHANGED refund
        /\ UNCHANGED <<order, ledger, link, counters>>

(* backfillLegacyPayosRefunds: every QR payment refunded in another way    *)
(* gets its record.                                                        *)
Backfill(p) ==
    /\ payment[p] = [method |-> "payos", status |-> "refunded"]
    /\ refund[p].status = "none"
    /\ refund' = [refund EXCEPT ![p].status = "succeeded"]
    /\ UNCHANGED <<order, ledger, link, run, counters>>

-----------------------------------------------------------------------------
(* Time and failure.                                                       *)

LeaseExpires(p) ==
    /\ refund[p].lease = "held"
    /\ refund' = [refund EXCEPT ![p].lease = "over"]
    /\ UNCHANGED <<order, ledger, link, run, counters>>

RetryFallsDue(p) ==
    /\ refund[p].waiting
    /\ refund' = [refund EXCEPT ![p].waiting = FALSE]
    /\ UNCHANGED <<order, ledger, link, run, counters>>

Crash ==
    /\ crashes < MaxCrashes
    /\ crashes' = crashes + 1
    /\ run' = [w \in Workers |-> Idle]
    /\ UNCHANGED <<order, ledger, refund, link, retries>>

-----------------------------------------------------------------------------
(* A worker that has started goes on until it is done.                     *)
Continue(w) ==
    \/ Charge(w) \/ Reserve(w) \/ CreateLink(w)
    \/ AfterMoney(w) \/ Reconcile(w)
    \/ Withdraw(w) \/ Verify(w) \/ Release(w)
    \/ ListPayments(w) \/ SettleGetLink(w) \/ SettleMarkPaid(w)
    \/ SettleCloseLink(w) \/ SettleFail(w)
    \/ EnsureRefund(w) \/ ClaimRefund(w) \/ RefundToWallet(w)
    \/ FinishRefund(w) \/ RefundThrows(w) \/ RecordFailure(w) \/ DecideRetry(w)
    \/ ProcessRefundJob(w)

Request(w) ==
    \/ StartPayment(w)
    \/ Discard(w) \/ Cancel(w) \/ CancelAgain(w)
    \/ \E p \in Payments : \/ WebhookPaid(w, p)
                           \/ StartReconcile(w, p)
                           \/ StartWithdraw(w, p)
                           \/ AdminRetry(w, p)

Environment ==
    \/ \E p \in Payments : \/ GatewayPaid(p) \/ GatewayExpires(p) \/ WebhookFailed(p)
                           \/ Backfill(p) \/ LeaseExpires(p) \/ RetryFallsDue(p)
    \/ Crash

Next ==
    \/ \E w \in Workers : Continue(w)
    \/ \E w \in Handlers : Request(w)
    \/ \E s \in Scanners, p \in Payments : Scan(s, p)
    \/ Environment

Spec == Init /\ [][Next]_vars

(* A started handler runs on, timers fire, and a scan reaches every refund *)
(* that is due again and again: each scan handles all that it lists.       *)
(* Customers, providers, administrators and PayOS owe nothing.             *)
Fairness ==
    /\ \A w \in Workers : WF_vars(Continue(w))
    /\ \A p \in Payments : /\ SF_vars(\E s \in Scanners : Scan(s, p))
                           /\ WF_vars(LeaseExpires(p))
                           /\ WF_vars(RetryFallsDue(p))

FairSpec == Spec /\ Fairness
-----------------------------------------------------------------------------
(* What the code must keep true.                                           *)

(* Every variable holds values of its type.                                *)
TypeOK ==
    /\ order \in Orders
    /\ payment \in [Payments -> PaymentRecords]
    /\ credits \in [Payments -> Nat]
    /\ awards \in [Payments -> Nat]
    /\ refund \in [Payments -> RefundRecords]
    /\ link \in [Payments -> LinkStatuses]
    /\ run \in [Workers -> Runs]
    /\ crashes \in Nat
    /\ retries \in Nat

(* The wallet ledger and the Payment records agree: a payment has one      *)
(* refund transaction when it is marked refunded and none otherwise, under *)
(* concurrent settlements, overlapping scans, leases that run out under    *)
(* their holder, and crashes.                                              *)
LedgerMatches ==
    \A p \in Payments : credits[p] = IF payment[p].status = "refunded" THEN 1 ELSE 0

(* The order is never charged twice: at most one payment is pending or     *)
(* paid, so a link paid after it was given up is not added to the payment  *)
(* that replaced it.                                                       *)
ChargedOnce ==
    \A p, q \in Payments : IsLive(p) /\ IsLive(q) => p = q

(* A Refund record tells the truth: it says succeeded only of a payment    *)
(* that was returned, and it asks for money back only of a payment that    *)
(* was taken, and while it is open, of a cancelled order.                  *)
RefundRecordsTrue ==
    \A p \in Payments :
        /\ refund[p].status = "succeeded" => payment[p].status = "refunded"
        /\ refund[p].status # "none" => payment[p].status \in {"paid", "refunded"}
        /\ refund[p].status \in OpenRefunds \cup {"manual_review"} => IsCancelled

(* The provider is given a deposit at most once, and only a deposit that   *)
(* was paid, however often the order is settled.                           *)
AwardedOnce ==
    \A p \in Payments :
        /\ awards[p] <= 1
        /\ awards[p] = 1 => payment[p].status \in {"paid", "refunded"}

(* What became of the money of a payment, by the ledger first.             *)
MoneyOf(p) ==
    IF credits[p] > 0 THEN "returned"
    ELSE IF payment[p].status = "paid" THEN "kept" ELSE "absent"

Money == INSTANCE CustomerMoney WITH
    live <- ~IsCancelled, money <- [p \in Payments |-> MoneyOf(p)]

(* Behind the payments, the refunds and the workers, the customer's money  *)
(* moves as CustomerMoney says.                                            *)
KeepsCustomerMoney == Money!Spec

(* A Refund record never stays open: whatever throws, expires or crashes,  *)
(* the scans bring it to success or before an administrator.               *)
RefundEnds ==
    \A p \in Payments :
        refund[p].status \in OpenRefunds ~> refund[p].status \in {"succeeded", "manual_review"}

(* A QR payment found paid on a cancelled order is returned or put before  *)
(* an administrator, unless a crash comes between or the policy gives it   *)
(* to the provider.                                                        *)
RefundReturned ==
    \A p \in Payments :
        /\ IsCancelled /\ order.policy # "deposit"
        /\ payment[p] = [method |-> "payos", status |-> "paid"]
        /\ crashes = 0
        ~>
        \/ payment[p].status = "refunded"
        \/ refund[p].status = "manual_review"
        \/ crashes > 0

=============================================================================
