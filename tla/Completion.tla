------------------------------ MODULE Completion ------------------------------
(***************************************************************************)
(* The work of one order and its payment: from the provider's acceptance   *)
(* to the completed and fully paid order (order.service.ts,                *)
(* assignment.service.ts, quotationWalletPayment.service.ts,               *)
(* payment.service.ts, reward.service.ts, wallet.service.ts).              *)
(*                                                                         *)
(* A fixed-price order is paid in full, by wallet, by QR or in cash; the   *)
(* customer may leave cash for another method until the work is done.  An  *)
(* order that needs an inspection has paid its deposit; the provider       *)
(* quotes, and once the work is completed the rest of the final quotation  *)
(* is paid by wallet, by QR or directly to the provider.                   *)
(*                                                                         *)
(* Every handler that writes does so in one MongoDB transaction that       *)
(* writes the order, so that two of them conflict: each is one action.     *)
(* The link of a QR payment changes at PayOS on its own.  What a handler   *)
(* reads there, paid or closed, is final, so nothing it remembers of a     *)
(* link can grow stale before it writes.                                   *)
(*                                                                         *)
(* Amounts are abstracted: a payment is the whole sum it asks for, and a   *)
(* wallet that holds too little is a request that changes nothing.         *)
(***************************************************************************)
EXTENDS Integers

CONSTANTS
    MaxPayments,   \* bound: Payment records the order can get
    MaxRevision    \* bound: revisions of the quotation

ASSUME CompletionAssumption ==
    /\ MaxPayments \in Nat \ {0}
    /\ MaxRevision \in Nat \ {0}

Payments == 1 .. MaxPayments    \* in the order of createdAt

VARIABLES
    order,     \* Order, and the revision of its current RepairQuotation
    payment,   \* Payment of type full or remaining
    link,      \* the payment link at PayOS
    settled,   \* provider_earning entries without a payment: of completing
    earned,    \* provider_earning entries of a payment
    credits,   \* refund entries of a payment
    rewards    \* RewardTransactions earn:<order>

vars == <<order, payment, link, settled, earned, credits, rewards>>
income == <<settled, earned>>

-----------------------------------------------------------------------------
(* Records.                                                                *)

(* direct: directPaymentConfirmedAt is set.                                *)
Orders == [inspection : BOOLEAN, scheduled : BOOLEAN,
           status : {"accepted", "in_progress", "completed"},
           paymentStatus : {"unpaid", "partially_paid", "paid"},
           paymentMethod : {"cash", "wallet", "bank"},
           revision : Nat, direct : BOOLEAN]

(* revision: quotationRevision, of a payment of type remaining; reference: *)
(* gatewayTransactionId, of an attempt to pay that failed or of the money. *)
PaymentRecords == [type : {"full", "remaining"}, method : {"cash", "wallet", "payos"},
                   status : {"none", "pending", "paid", "failed", "refunded"},
                   revision : Nat, reference : {"none", "attempt", "payment"}]

Absent == [type |-> "full", method |-> "cash", status |-> "none", revision |-> 0,
           reference |-> "none"]

Fresh(p) == /\ payment[p].status = "none"
            /\ \A q \in Payments : q < p => payment[q].status # "none"

IsLive(p) == payment[p].status \in {"pending", "paid"}

NoneLive(type) == \A p \in Payments : payment[p].type = type => ~IsLive(p)

Full(method, status) ==
    [type |-> "full", method |-> method, status |-> status, revision |-> 0,
     reference |-> IF method = "payos" /\ status = "paid" THEN "payment" ELSE "none"]

Rest(method, status) == [type |-> "remaining", method |-> method, status |-> status,
                         revision |-> order.revision, reference |-> "none"]

(* A fixed-price order is paid, or to be paid in cash; an inspection's     *)
(* deposit is paid.                                                        *)
Init ==
    /\ \E scheduled \in BOOLEAN, inspection \in BOOLEAN,
          method \in {"cash", "wallet", "bank"} :
          LET onlineFull == Full(IF method = "bank" THEN "payos" ELSE "wallet", "paid")
              first == IF inspection THEN Absent
                       ELSE IF method = "cash" THEN Full("cash", "pending") ELSE onlineFull
          IN  /\ inspection => method # "cash"
              /\ order = [inspection |-> inspection, scheduled |-> scheduled,
                          status |-> "accepted",
                          paymentStatus |-> IF inspection THEN "partially_paid"
                                            ELSE IF method = "cash" THEN "unpaid" ELSE "paid",
                          paymentMethod |-> method, revision |-> 0, direct |-> FALSE]
              /\ payment = [p \in Payments |-> IF p = 1 THEN first ELSE Absent]
              /\ link = [p \in Payments |->
                           IF p = 1 /\ first.method = "payos" THEN "paid" ELSE "none"]
    /\ settled = 0
    /\ earned = [p \in Payments |-> 0]
    /\ credits = [p \in Payments |-> 0]
    /\ rewards = 0

(* earnOrderRewards, of the order o and its payments as the transaction    *)
(* has them.                                                               *)
Rewards(o, paid) ==
    LET restPaid == /\ o.paymentMethod \in {"wallet", "bank"}
                    /\ \E p \in Payments : /\ paid[p].type = "remaining"
                                           /\ paid[p].method \in {"wallet", "payos"}
                                           /\ paid[p].status = "paid"
                                           /\ paid[p].revision = o.revision
    IN  IF /\ o.status = "completed" /\ o.paymentStatus = "paid"
           /\ o.inspection => o.revision > 0 /\ (o.direct \/ restPaid)
           /\ rewards = 0
        THEN rewards + 1 ELSE rewards

-----------------------------------------------------------------------------
(* The provider works.                                                     *)

(* startOrder.                                                             *)
StartOrder ==
    /\ order.status = "accepted"
    /\ IF order.inspection THEN order.revision > 0
       ELSE order.paymentMethod = "cash" \/ order.paymentStatus = "paid"
    /\ order' = [order EXCEPT !.status = "in_progress"]
    /\ UNCHANGED <<payment, link, income, credits, rewards>>

Quote ==
    /\ order.inspection
    /\ order.revision < MaxRevision
    /\ order' = [order EXCEPT
                   !.revision = order.revision + 1, !.direct = FALSE,
                   !.paymentStatus = IF order.direct /\ order.paymentStatus = "paid"
                                     THEN "partially_paid" ELSE order.paymentStatus]
    /\ UNCHANGED <<payment, link, income, credits, rewards>>

(* saveRepairQuotation: the first quotation or the next revision.          *)
SaveQuotation == order.status # "completed" /\ Quote

(* recordCompletedOrderSettlement refuses an order with an earning.        *)
Unsettled == settled = 0 /\ \A p \in Payments : earned[p] = 0

CashPayments(statuses) ==
    {p \in Payments : payment[p].method = "cash" /\ payment[p].status \in statuses}

(* Wrong: completing settles whatever the customer has paid.               *)
CompleteOrderUnpaid ==
    LET completed == [order EXCEPT !.status = "completed"]
    IN  /\ order.status = "in_progress"
        /\ order' = completed
        /\ settled' = settled + 1
        /\ rewards' = Rewards(completed, payment)
        /\ UNCHANGED <<payment, link, earned, credits>>

(* completeOrder: a deposit or a payment online is settled with the        *)
(* provider at once, cash when he confirms it.                             *)
CompleteOrder ==
    LET inCash == order.paymentMethod = "cash"
        received == inCash /\ CashPayments({"paid"}) # {}
        completed == [order EXCEPT !.status = "completed",
                        !.paymentStatus = IF received THEN "paid" ELSE order.paymentStatus]
    IN  /\ order.status = "in_progress"
        /\ order.inspection => order.revision > 0
        /\ ~order.inspection /\ ~inCash => order.paymentStatus = "paid"
        /\ inCash => CashPayments({"pending", "paid"}) # {}
        /\ IF inCash /\ completed.paymentStatus # "paid" THEN UNCHANGED settled
           ELSE Unsettled /\ settled' = settled + 1
        /\ order' = completed
        /\ rewards' = Rewards(completed, payment)
        /\ UNCHANGED <<payment, link, earned, credits>>

(* confirmCashPayment: the provider has received the cash.                 *)
ConfirmCashPayment(p) ==
    LET paidOrder == [order EXCEPT !.paymentStatus = "paid"]
        paid == [payment EXCEPT ![p].status = "paid"]
    IN  /\ ~order.inspection /\ order.status = "completed"
        /\ order.paymentMethod = "cash" /\ order.paymentStatus = "unpaid"
        /\ p \in CashPayments({"pending"})
        /\ Unsettled
        /\ payment' = paid
        /\ order' = paidOrder
        /\ settled' = settled + 1
        /\ rewards' = Rewards(paidOrder, paid)
        /\ UNCHANGED <<link, earned, credits>>

-----------------------------------------------------------------------------
(* The customer pays a fixed-price order.                                  *)

IsFixedPriceWorkPayment ==
    ~order.inspection /\ order.status = "in_progress" /\ order.paymentStatus = "unpaid"

(* assertAppointmentPaymentReady, of an appointment already confirmed.     *)
PaymentReady == IsFixedPriceWorkPayment \/ ~order.scheduled

(* assertConfirmedPayment, of a request that names what it expects.        *)
ConfirmedPayment ==
    (order.status = "accepted" \/ IsFixedPriceWorkPayment) /\ order.paymentStatus = "unpaid"

(* The record a payment uses: a new one when no other is live, or the one  *)
(* that is to be paid in cash.                                             *)
MayPayFull(p) ==
    /\ ~order.inspection
    /\ PaymentReady
    /\ \/ Fresh(p) /\ NoneLive("full")
       \/ p \in CashPayments({"pending"}) /\ ConfirmedPayment

(* createWalletPayment.                                                    *)
PayByWallet(p) ==
    /\ MayPayFull(p)
    /\ payment' = [payment EXCEPT ![p] = Full("wallet", "paid")]
    /\ order' = [order EXCEPT !.paymentStatus = "paid", !.paymentMethod = "wallet"]
    /\ UNCHANGED <<link, income, credits, rewards>>

(* reserveExternalPayment by QR; the link is created later.                *)
ReserveQr(p) ==
    /\ MayPayFull(p)
    /\ payment' = [payment EXCEPT ![p] = Full("payos", "pending")]
    /\ order' = [order EXCEPT !.paymentMethod = "bank"]
    /\ UNCHANGED <<link, income, credits, rewards>>

(* reserveExternalPayment in cash.                                         *)
ReserveCash(p) ==
    /\ ~order.inspection
    /\ PaymentReady
    /\ Fresh(p) /\ NoneLive("full")
    /\ payment' = [payment EXCEPT ![p] = Full("cash", "pending")]
    /\ order' = [order EXCEPT !.paymentMethod = "cash"]
    /\ UNCHANGED <<link, income, credits, rewards>>

-----------------------------------------------------------------------------
(* The customer pays the rest of the quotation.                            *)

(* validateQuotationPayment; the request names the current revision.       *)
QuotationPayable ==
    /\ order.inspection /\ order.status = "completed"
    /\ order.revision > 0 /\ ~order.direct
    /\ order.paymentStatus \in {"partially_paid", "paid"}

MayPayRest(p) == /\ QuotationPayable
                 /\ order.paymentStatus = "partially_paid"
                 /\ Fresh(p) /\ NoneLive("remaining")

(* payQuotationByWallet.                                                   *)
PayRestByWallet(p) ==
    LET paidOrder == [order EXCEPT !.paymentStatus = "paid", !.paymentMethod = "wallet"]
        paid == [payment EXCEPT ![p] = Rest("wallet", "paid")]
    IN  /\ MayPayRest(p)
        /\ payment' = paid
        /\ order' = paidOrder
        /\ earned' = [earned EXCEPT ![p] = earned[p] + 1]
        /\ rewards' = Rewards(paidOrder, paid)
        /\ UNCHANGED <<link, settled, credits>>

(* reserveExternalPayment of the rest, by QR.                              *)
ReserveRestQr(p) ==
    /\ MayPayRest(p)
    /\ payment' = [payment EXCEPT ![p] = Rest("payos", "pending")]
    /\ order' = [order EXCEPT !.paymentMethod = "bank"]
    /\ UNCHANGED <<link, income, credits, rewards>>

ConfirmDirect ==
    LET paidOrder == [order EXCEPT !.paymentStatus = "paid", !.direct = TRUE]
    IN  /\ order.inspection /\ order.status = "completed" /\ order.revision > 0
        /\ order' = paidOrder
        /\ rewards' = IF order.direct THEN rewards ELSE Rewards(paidOrder, payment)
        /\ UNCHANGED <<payment, link, income, credits>>

(* Wrong: a payment of the rest under way is not looked for.               *)
ConfirmQuotationPaymentBlindly ==
    ConfirmDirect /\ (order.paymentStatus = "paid" => order.direct)

(* confirmQuotationPayment: the provider has received the rest directly.   *)
ConfirmQuotationPayment ==
    /\ order.paymentStatus = "paid" => order.direct
    /\ \A p \in Payments : ~(/\ payment[p].type = "remaining"
                             /\ payment[p].method = "payos"
                             /\ payment[p].status = "pending")
    /\ ConfirmDirect

-----------------------------------------------------------------------------
(* The link of a QR payment.                                               *)

(* createPayment: the link is created and saved.  After a crash neither    *)
(* this nor the next step happens.                                         *)
CreateLink(p) ==
    /\ payment[p].method = "payos" /\ payment[p].status = "pending"
    /\ link[p] = "none"
    /\ link' = [link EXCEPT ![p] = "open"]
    /\ UNCHANGED <<order, payment, income, credits, rewards>>

(* createPayment: PayOS does not create it, and never knows the record.    *)
LinkFails(p) ==
    /\ payment[p].method = "payos" /\ payment[p].status = "pending"
    /\ link[p] = "none"
    /\ payment' = [payment EXCEPT ![p].status = "failed"]
    /\ UNCHANGED <<order, link, income, credits, rewards>>

(* The customer pays at PayOS, whatever became of the record.              *)
PayLink(p) ==
    /\ link[p] = "open"
    /\ link' = [link EXCEPT ![p] = "paid"]
    /\ UNCHANGED <<order, payment, income, credits, rewards>>

(* The link expires, or cancelPendingPayosPayment cancels it.              *)
CloseLink(p) ==
    /\ link[p] = "open"
    /\ link' = [link EXCEPT ![p] = "closed"]
    /\ UNCHANGED <<order, payment, income, credits, rewards>>

(* cancelPendingPayosPayment, reconcileExistingPendingPayosPayment or      *)
(* reconcilePayosPayment finds it closed, with nothing paid.               *)
FailClosed(p) ==
    /\ payment[p].status = "pending"
    /\ link[p] = "closed"
    /\ payment' = [payment EXCEPT ![p].status = "failed"]
    /\ UNCHANGED <<order, link, income, credits, rewards>>

(* Wrong: a failure delivered late undoes the payment.                     *)
WebhookFailedLate(p) ==
    /\ payment[p].method = "payos" /\ link[p] # "none"
    /\ payment[p].status \in {"pending", "paid"}
    /\ payment' = [payment EXCEPT ![p].status = "failed"]
    /\ UNCHANGED <<order, link, income, credits, rewards>>

(* handlePayosWebhook of an attempt to pay that failed; it may come with   *)
(* the reference of the attempt, which stays on the payment.               *)
WebhookFailed(p) ==
    /\ payment[p].status = "pending"
    /\ link[p] # "none"
    /\ \E r \in {"none", "attempt"} :
         payment' = [payment EXCEPT ![p].status = "failed", ![p].reference = r]
    /\ UNCHANGED <<order, link, income, credits, rewards>>

Replaced(p) == \E q \in Payments \ {p} : payment[q].type = payment[p].type /\ IsLive(q)

StaleQuotation(p) ==
    /\ payment[p].type = "remaining"
    /\ \/ order.status # "completed"
       \/ order.revision = 0 \/ order.direct
       \/ payment[p].revision # order.revision

(* syncPaidPayosPaymentToOrder and settleQuotationPayosPayment, of a       *)
(* payment that the transaction has as paid; called again, they change     *)
(* nothing more.                                                           *)
Sync(p, paid) ==
    LET full == [order EXCEPT !.paymentStatus = "paid"]
        rest == [order EXCEPT !.paymentStatus = "paid", !.paymentMethod = "bank"]
    IN  IF payment[p].type = "full"
        THEN order' = full /\ UNCHANGED <<earned, rewards>>
        ELSE /\ QuotationPayable /\ payment[p].revision = order.revision
             /\ order' = rest
             /\ earned' = [earned EXCEPT ![p] = IF earned[p] = 0 THEN 1 ELSE earned[p]]
             /\ rewards' = Rewards(rest, paid)

(* refundUnappliedPayosPayment: the money goes to the customer's wallet.   *)
Refund(p) ==
    /\ payment' = [payment EXCEPT ![p].status = "refunded", ![p].reference = "payment"]
    /\ credits' = [credits EXCEPT ![p] = credits[p] + 1]
    /\ UNCHANGED <<order, earned, rewards>>

Apply(p) ==
    LET paid == [payment EXCEPT ![p].status = "paid", ![p].reference = "payment"]
    IN  payment' = paid /\ Sync(p, paid) /\ UNCHANGED credits

(* Both handlers of money received.                                        *)
Receive(p) ==
    /\ payment[p].status \in {"pending", "failed"}
    /\ IF Replaced(p) \/ StaleQuotation(p) THEN Refund(p) ELSE Apply(p)

ReceivedAlready(p) ==
    /\ payment[p].status = "paid"
    /\ Sync(p, payment)
    /\ UNCHANGED <<payment, credits>>

(* handlePayosWebhook of a payment, delivered once or more.  A reference   *)
(* of an attempt that failed refuses it for ever.                          *)
WebhookPaid(p) ==
    /\ payment[p].method = "payos" /\ link[p] = "paid"
    /\ payment[p].reference # "attempt"
    /\ Receive(p) \/ ReceivedAlready(p)
    /\ UNCHANGED <<link, settled>>

(* A question to PayOS that fails every time: PayOS never knew the record, *)
(* or it names the money by another reference than the record does.        *)
Unknown(q) == payment[q].method = "payos" /\ payment[q].status = "failed" /\ link[q] = "none"
Refused(q) == payment[q].reference = "attempt" /\ link[q] = "paid"

(* reconcilePendingPayosPayment: the failed payments in the order of their *)
(* creation, then the pending one; the first question that fails ends it.  *)
Reaches(p) ==
    \A q \in Payments : Unknown(q) \/ Refused(q) => payment[p].status = "failed" /\ p < q

(* Wrong: a payment that was given up is never asked for.                  *)
ReconcilePending(p) ==
    /\ payment[p].method = "payos" /\ link[p] = "paid"
    /\ payment[p].status = "pending" /\ Reaches(p)
    /\ Receive(p)
    /\ UNCHANGED <<link, settled>>

Reconcile(p) ==
    /\ payment[p].method = "payos" /\ link[p] = "paid"
    /\ Reaches(p)
    /\ Receive(p)
    /\ UNCHANGED <<link, settled>>

-----------------------------------------------------------------------------
Next ==
    \/ StartOrder \/ SaveQuotation \/ CompleteOrder \/ ConfirmQuotationPayment
    \/ \E p \in Payments :
          \/ ConfirmCashPayment(p)
          \/ PayByWallet(p) \/ ReserveQr(p) \/ ReserveCash(p)
          \/ PayRestByWallet(p) \/ ReserveRestQr(p)
          \/ CreateLink(p) \/ LinkFails(p) \/ PayLink(p) \/ CloseLink(p)
          \/ FailClosed(p) \/ WebhookFailed(p)
          \/ WebhookPaid(p) \/ Reconcile(p)

Spec == Init /\ [][Next]_vars

(* The pages of an order that is to be paid by QR.                         *)
Awaiting == order.paymentMethod = "bank" /\ order.paymentStatus \in {"unpaid", "partially_paid"}

(* As long as the order awaits its payment, the customer's pages ask for a *)
(* reconciliation again and again.  Nothing is assumed of the webhooks.    *)
FairSpec == Spec /\ \A p \in Payments : WF_vars(Awaiting /\ Reconcile(p))

-----------------------------------------------------------------------------
(* Properties.                                                             *)

(* Every variable has its type, and records are used in order.             *)
TypeOK ==
    /\ order \in Orders
    /\ payment \in [Payments -> PaymentRecords]
    /\ link \in [Payments -> {"none", "open", "paid", "closed"}]
    /\ settled \in 0 .. 1
    /\ earned \in [Payments -> 0 .. 1]
    /\ credits \in [Payments -> 0 .. 1]
    /\ rewards \in 0 .. 1

(* The customer never pays, nor still owes in cash, the same thing twice,  *)
(* whichever of the wallet, the QR, cash and the provider's word comes     *)
(* first.                                                                  *)
PaidOnce ==
    /\ \A p, q \in Payments :
          IsLive(p) /\ IsLive(q) /\ payment[p].type = payment[q].type => p = q
    /\ order.direct => NoneLive("remaining")

(* The order says it is paid exactly when a payment or the provider's      *)
(* confirmation of the rest stands behind it.                              *)
PaidIsBacked ==
    order.paymentStatus = "paid" <=>
        \/ order.direct
        \/ \E p \in Payments : /\ payment[p].status = "paid"
                               /\ payment[p].type = IF order.inspection THEN "remaining"
                                                    ELSE "full"

(* The provider earns the work once, when it is completed and paid (of an  *)
(* inspection: the deposit), and the rest once when it is paid through     *)
(* the system.                                                             *)
EarnedMatchesPaid ==
    /\ settled = IF /\ order.status = "completed"
                    /\ order.inspection \/ order.paymentStatus = "paid"
                 THEN 1 ELSE 0
    /\ \A p \in Payments :
          earned[p] = IF payment[p].type = "remaining" /\ payment[p].status = "paid"
                      THEN 1 ELSE 0

(* The customer gets the points of the order exactly once, whichever of    *)
(* completing it and paying it comes last.                                 *)
RewardedOnce ==
    rewards = IF order.status = "completed" /\ order.paymentStatus = "paid" THEN 1 ELSE 0

(* Work and points are settled once, in whatever order completing, paying  *)
(* and confirming cash come (order.service.ts:1014, :1198,                 *)
(* quotationWalletPayment.service.ts:55).                                  *)
SettledOnce == EarnedMatchesPaid /\ RewardedOnce

(* The rest that is paid, or waits at PayOS, is that of the revision the   *)
(* work ended with.                                                        *)
RestOfFinalQuotation ==
    \A p \in Payments :
        payment[p].type = "remaining" /\ IsLive(p) => payment[p].revision = order.revision

(* Money PayOS received is kept for the order or returned, never both nor  *)
(* twice, and no QR payment counts as paid without it.                     *)
QrMoneyMatches ==
    \A p \in Payments :
        /\ credits[p] = IF payment[p].status = "refunded" THEN 1 ELSE 0
        /\ payment[p].method = "payos" /\ payment[p].status \in {"paid", "refunded"}
              => link[p] = "paid"

(* While an order awaits its payment by QR, the money PayOS received for   *)
(* it is applied or returned without any webhook, also if its record was   *)
(* given up before (reconcilePendingPayosPayment) -- unless a question to  *)
(* PayOS that always fails comes first, about the money's own record or    *)
(* one that the reconciliation asks for before it.                         *)
PaidIsApplied ==
    \A p \in Payments :
        link[p] = "paid" ~>
            payment[p].status \in {"paid", "refunded"} \/ ~Awaiting \/ ~Reaches(p)
================================================================================
