-------------------------------- MODULE Wallets --------------------------------
(***************************************************************************)
(* The wallet of one user: deposits through PayOS (wallet.service.ts),     *)
(* withdrawals to a bank account reviewed by an administrator              *)
(* (withdrawal.service.ts), corrections by an administrator, and the bank  *)
(* accounts themselves (bankAccount.service.ts).                           *)
(*                                                                         *)
(* What a handler does in a MongoDB transaction is one action.  A deposit  *)
(* is recorded, created at PayOS and saved in three steps; its             *)
(* cancellation and its synchronization ask PayOS first and write later:   *)
(* handler h keeps in run[h] what PayOS answered.  A withdrawal chooses    *)
(* its account before the transaction that locks it.  Any step may be the  *)
(* last one of its handler.                                                *)
(*                                                                         *)
(* Every amount is one unit, so that counting deposits and requests adds   *)
(* up their amounts.  What orders pay into the wallet and from it is part  *)
(* of Settlement; here corrections stand for all other entries.            *)
(***************************************************************************)
EXTENDS Integers, FiniteSets

CONSTANTS
    Deposits, NoDeposit,
    Requests,             \* withdrawal requests that can be made
    Accounts,             \* bank accounts, numbered in the order they are added
    Handlers,             \* requests of the user about his deposits
    Numbers, Holders,     \* what can be written on an account
    MaxAdjusted           \* bound: corrections either way

ASSUME WalletsAssumption ==
    /\ NoDeposit \notin Deposits
    /\ IsFiniteSet(Requests) /\ IsFiniteSet(Deposits)
    /\ Accounts \subseteq Nat /\ Accounts # {}
    /\ Numbers # {} /\ Holders # {}
    /\ MaxAdjusted \in Nat

VARIABLES
    wallet,    \* Wallet: balance and pendingBalance
    adjusted,  \* sum of the WalletTransaction of type adjustment
    deposit,   \* WalletTransaction of type deposit, and its link at PayOS
    request,   \* WithdrawRequest
    account,   \* BankAccount
    run        \* what each handler is doing

vars == <<wallet, adjusted, deposit, request, account, run>>

-----------------------------------------------------------------------------
(* Records.                                                                *)

Identities == [number : Numbers, holder : Holders]

(* maker is the handler that creates the deposit; link is what PayOS says  *)
(* of it; reference is gatewayTransactionId: of an attempt that failed or  *)
(* of the payment.                                                         *)
DepositRecords ==
    [status : {"none", "pending", "success", "failed", "cancelled"},
     maker : {"none", "linking", "saving", "shown", "over"},
     link : {"none", "open", "paid", "cancelled", "expired"},
     reference : {"none", "attempt", "payment"}]

(* made is a history variable: what the account said when the request was  *)
(* made.  A request of status choosing has chosen its account only.        *)
RequestRecords ==
    [status : {"none", "choosing", "pending", "approved", "rejected"},
     account : Accounts, made : Identities]

AccountRecords ==
    [status : {"none", "active", "inactive", "deleted"},
     isDefault : BOOLEAN, identity : Identities]

Runs == [at : {"idle", "cancel", "check", "reconcile"},
         deposit : Deposits \cup {NoDeposit},
         seen : {"none", "open", "paid", "cancelled", "expired"}]

Idle == [at |-> "idle", deposit |-> NoDeposit, seen |-> "none"]

SomeIdentity == CHOOSE i \in Identities : TRUE

Init ==
    /\ wallet = [balance |-> 0, pendingBalance |-> 0]
    /\ adjusted = 0
    /\ deposit = [d \in Deposits |-> [status |-> "none", maker |-> "none", link |-> "none",
                                      reference |-> "none"]]
    /\ request = [q \in Requests |-> [status |-> "none", account |-> CHOOSE a \in Accounts : TRUE,
                                      made |-> SomeIdentity]]
    /\ account = [a \in Accounts |-> [status |-> "none", isDefault |-> FALSE,
                                      identity |-> SomeIdentity]]
    /\ run = [h \in Handlers |-> Idle]

-----------------------------------------------------------------------------
(* Bank accounts.  Each operation is a transaction that writes its account *)
(* first (lockOwnedBankAccount).                                           *)

Kept == {a \in Accounts : account[a].status \in {"active", "inactive"}}

RequestsOf(a) == {q \in Requests : request[q].account = a
                                   /\ request[q].status \notin {"none", "choosing"}}

PendingOf(a) == {q \in RequestsOf(a) : request[q].status = "pending"}

(* The unique index of the model: deleted accounts keep their number.      *)
IsFree(n, a) == \A b \in Accounts \ {a} :
                    account[b].status # "none" => account[b].identity.number # n

(* assertWithdrawalBankAccountChanges for a new identity, for a new status.*)
MayBecome(a, i) == i # account[a].identity => RequestsOf(a) = {}
MayRest(a) == PendingOf(a) = {}

(* unsetOtherDefaults and the write that follows it.                       *)
WithDefault(a, r) ==
    [b \in Accounts |->
        IF b = a THEN r
        ELSE IF r.isDefault /\ b \in Kept THEN [account[b] EXCEPT !.isDefault = FALSE]
        ELSE account[b]]

(* createMyBankAccount: the first account is the default one.              *)
CreateAccount(a, i, asked) ==
    /\ account[a].status = "none"
    /\ \A b \in Accounts : b < a => account[b].status # "none"
    /\ IsFree(i.number, a)
    /\ account' = WithDefault(a, [status |-> "active", isDefault |-> asked \/ Kept = {},
                                  identity |-> i])
    /\ UNCHANGED <<wallet, adjusted, deposit, request, run>>

(* createMyBankAccount with the number of an account that was deleted.     *)
RestoreAccount(a, i, asked) ==
    /\ account[a].status = "deleted"
    /\ i.number = account[a].identity.number
    /\ MayBecome(a, i)
    /\ account' = WithDefault(a, [status |-> "active", isDefault |-> asked \/ Kept = {},
                                  identity |-> i])
    /\ UNCHANGED <<wallet, adjusted, deposit, request, run>>

(* updateMyBankAccount with isDefault, and setDefaultMyBankAccount: the     *)
(* default account becomes active, whatever status was asked for.          *)
SetDefault(a, i) ==
    /\ a \in Kept
    /\ MayBecome(a, i)
    /\ IsFree(i.number, a)
    /\ account' = WithDefault(a, [status |-> "active", isDefault |-> TRUE, identity |-> i])
    /\ UNCHANGED <<wallet, adjusted, deposit, request, run>>

(* updateMyBankAccount otherwise: fields that are not named keep their     *)
(* value.  An account can be default and inactive.                         *)
UpdateAccount(a, i, isDefault, status) ==
    /\ a \in Kept
    /\ isDefault => account[a].isDefault
    /\ MayBecome(a, i)
    /\ IsFree(i.number, a)
    /\ status \in {"active", account[a].status} \/ MayRest(a)
    /\ account' = [account EXCEPT ![a] = [status |-> status, isDefault |-> isDefault,
                                          identity |-> i]]
    /\ UNCHANGED <<wallet, adjusted, deposit, request, run>>

(* deleteMyBankAccount: without a default account the latest active one    *)
(* becomes the default.                                                    *)
DeleteAccount(a) ==
    LET rest == Kept \ {a}
        active == {b \in rest : account[b].status = "active"}
        promoted == {b \in active : /\ \A c \in rest : ~account[c].isDefault
                                    /\ \A c \in active : c <= b}
    IN
    /\ a \in Kept
    /\ MayRest(a)
    /\ account' = [b \in Accounts |->
                     IF b = a THEN [account[a] EXCEPT !.status = "deleted", !.isDefault = FALSE]
                     ELSE IF b \in promoted THEN [account[b] EXCEPT !.isDefault = TRUE]
                     ELSE account[b]]
    /\ UNCHANGED <<wallet, adjusted, deposit, request, run>>

-----------------------------------------------------------------------------
(* Withdrawals.                                                            *)

(* getActiveBankAccount: the account asked for, if it is active, else the  *)
(* default one (any one, when none is).                                    *)
ChooseAccount(q, a) ==
    /\ request[q].status = "none"
    /\ account[a].status = "active"
    /\ request' = [request EXCEPT ![q].status = "choosing", ![q].account = a]
    /\ UNCHANGED <<wallet, adjusted, deposit, account, run>>

(* Slips: the account is not locked again; the balance is not.             *)
CreateWithdrawalUnlocked(q) ==
    /\ request[q].status = "choosing"
    /\ IF wallet.balance >= 1
       THEN /\ wallet' = [balance |-> wallet.balance - 1,
                          pendingBalance |-> wallet.pendingBalance + 1]
            /\ request' = [request EXCEPT ![q].status = "pending",
                                          ![q].made = account[request[q].account].identity]
       ELSE /\ request' = [request EXCEPT ![q].status = "none"]
            /\ UNCHANGED wallet
    /\ UNCHANGED <<adjusted, deposit, account, run>>

(* createWithdrawal: locks the account, reserves the amount and records    *)
(* the request, or records nothing.                                        *)
CreateWithdrawal(q) ==
    LET a == request[q].account IN
    /\ request[q].status = "choosing"
    /\ IF account[a].status = "active" /\ wallet.balance >= 1
       THEN /\ wallet' = [balance |-> wallet.balance - 1,
                          pendingBalance |-> wallet.pendingBalance + 1]
            /\ request' = [request EXCEPT ![q].status = "pending",
                                          ![q].made = account[a].identity]
       ELSE /\ request' = [request EXCEPT ![q].status = "none"]
            /\ UNCHANGED wallet
    /\ UNCHANGED <<adjusted, deposit, account, run>>

(* approveWithdrawal: to an account that is still active.                  *)
ApproveWithdrawal(q) ==
    /\ request[q].status = "pending"
    /\ account[request[q].account].status = "active"
    /\ wallet.pendingBalance >= 1
    /\ wallet' = [wallet EXCEPT !.pendingBalance = @ - 1]
    /\ request' = [request EXCEPT ![q].status = "approved"]
    /\ UNCHANGED <<adjusted, deposit, account, run>>

(* rejectWithdrawal.                                                       *)
RejectWithdrawal(q) ==
    /\ request[q].status = "pending"
    /\ wallet.pendingBalance >= 1
    /\ wallet' = [balance |-> wallet.balance + 1, pendingBalance |-> wallet.pendingBalance - 1]
    /\ request' = [request EXCEPT ![q].status = "rejected"]
    /\ UNCHANGED <<adjusted, deposit, account, run>>

(* adjustWallet: an administrator corrects the balance.                    *)
AdjustWallet(n) ==
    /\ wallet.balance + n >= 0
    /\ adjusted + n \in -MaxAdjusted .. MaxAdjusted
    /\ wallet' = [wallet EXCEPT !.balance = @ + n]
    /\ adjusted' = adjusted + n
    /\ UNCHANGED <<deposit, request, account, run>>

-----------------------------------------------------------------------------
(* Deposits.                                                               *)

Closed == {"cancelled", "expired"}

(* createWalletDeposit: the transaction is recorded first.                 *)
RecordDeposit(d) ==
    /\ deposit[d].status = "none"
    /\ deposit' = [deposit EXCEPT ![d].status = "pending", ![d].maker = "linking"]
    /\ UNCHANGED <<wallet, adjusted, request, account, run>>

(* The request of the link at PayOS: it may fail after it did its work.    *)
CreateLink(d) ==
    /\ deposit[d].maker = "linking"
    /\ \/ deposit' = [deposit EXCEPT ![d].link = "open", ![d].maker = "saving"]
       \/ \E l \in {"open", "none"} :
             deposit' = [deposit EXCEPT ![d].link = l, ![d].maker = "over",
                                        ![d].status = "failed"]
    /\ UNCHANGED <<wallet, adjusted, request, account, run>>

(* The link is saved and shown to the user; or the save fails, and so      *)
(* does the deposit, whatever has become of it.                            *)
SaveLink(d) ==
    /\ deposit[d].maker = "saving"
    /\ \/ deposit' = [deposit EXCEPT ![d].maker = "shown"]
       \/ deposit' = [deposit EXCEPT ![d].maker = "over", ![d].status = "failed"]
    /\ UNCHANGED <<wallet, adjusted, request, account, run>>

(* PayOS: the user pays a link he was shown; links expire.                 *)
PayLink(d) ==
    /\ deposit[d].maker = "shown"
    /\ deposit[d].link = "open"
    /\ deposit' = [deposit EXCEPT ![d].link = "paid"]
    /\ UNCHANGED <<wallet, adjusted, request, account, run>>

ExpireLink(d) ==
    /\ deposit[d].link = "open"
    /\ deposit' = [deposit EXCEPT ![d].link = "expired"]
    /\ UNCHANGED <<wallet, adjusted, request, account, run>>

(* Slips: the deposit is not read again in the transaction; or only a      *)
(* pending one counts.                                                     *)
MarkSuccessAgain(d) ==
    /\ wallet' = [wallet EXCEPT !.balance = @ + 1]
    /\ deposit' = [deposit EXCEPT ![d].status = "success", ![d].reference = "payment"]

MarkSuccessPending(d) ==
    IF deposit[d].status # "pending"
    THEN UNCHANGED <<wallet, deposit>>
    ELSE /\ wallet' = [wallet EXCEPT !.balance = @ + 1]
         /\ deposit' = [deposit EXCEPT ![d].status = "success", ![d].reference = "payment"]

(* markWalletDepositSuccess: a payment that PayOS confirms counts once,    *)
(* whatever the deposit was before.                                        *)
MarkSuccess(d) ==
    IF deposit[d].status = "success"
    THEN UNCHANGED <<wallet, deposit>>
    ELSE /\ wallet' = [wallet EXCEPT !.balance = @ + 1]
         /\ deposit' = [deposit EXCEPT ![d].status = "success", ![d].reference = "payment"]

(* handleWalletDepositPayosWebhook: PayOS tells of the payment, at any     *)
(* time and any number of times.  A reference of another attempt refuses   *)
(* it.                                                                     *)
WebhookPaid(d) ==
    /\ deposit[d].link = "paid"
    /\ deposit[d].reference # "attempt"
    /\ MarkSuccess(d)
    /\ UNCHANGED <<adjusted, request, account, run>>

(* Slip: a failure that is delivered late undoes the deposit.              *)
WebhookFailedLate(d) ==
    /\ deposit[d].link # "none"
    /\ deposit[d].status \in {"pending", "success"}
    /\ \E r \in {"none", "attempt"} :
         deposit' = [deposit EXCEPT ![d].status = "failed", ![d].reference = r]
    /\ UNCHANGED <<wallet, adjusted, request, account, run>>

(* handleWalletDepositPayosWebhook of an attempt that failed; it may come  *)
(* after the payment.                                                      *)
WebhookFailed(d) ==
    /\ deposit[d].link # "none"
    /\ deposit[d].status = "pending"
    /\ \E r \in {"none", "attempt"} :
         deposit' = [deposit EXCEPT ![d].status = "failed", ![d].reference = r]
    /\ UNCHANGED <<wallet, adjusted, request, account, run>>

-----------------------------------------------------------------------------
(* Cancellation and synchronization of a deposit.                          *)

At(h, step) == run[h].at = step

(* syncWalletDeposit and cancelWalletDeposit: ask PayOS for the link.      *)
AskLink(h, d, cancels) ==
    LET seen == deposit[d].link IN
    /\ At(h, "idle")
    /\ deposit[d].status \notin {"none", "success"}
    /\ seen # "none"
    /\ run' = [run EXCEPT ![h] = [deposit |-> d, seen |-> seen,
                 at |-> IF cancels /\ seen = "open" THEN "cancel" ELSE "reconcile"]]
    /\ UNCHANGED <<wallet, adjusted, deposit, request, account>>

(* Slip: the cancellation is taken for done without asking again.          *)
CancelLinkTrusting(h) ==
    LET d == run[h].deposit IN
    /\ At(h, "cancel")
    /\ \/ /\ deposit[d].link = "open"
          /\ deposit' = [deposit EXCEPT ![d].link = "cancelled"]
       \/ UNCHANGED deposit
    /\ run' = [run EXCEPT ![h].at = "reconcile", ![h].seen = "cancelled"]
    /\ UNCHANGED <<wallet, adjusted, request, account>>

(* cancelWalletDeposit: the call to PayOS fails when the link was paid or  *)
(* closed meanwhile, and may fail anyhow; its error is ignored.            *)
CancelLink(h) ==
    LET d == run[h].deposit IN
    /\ At(h, "cancel")
    /\ \/ /\ deposit[d].link = "open"
          /\ deposit' = [deposit EXCEPT ![d].link = "cancelled"]
       \/ UNCHANGED deposit
    /\ run' = [run EXCEPT ![h].at = "check"]
    /\ UNCHANGED <<wallet, adjusted, request, account>>

(* cancelWalletDeposit asks again; a link still open stops it.             *)
CheckLink(h) ==
    LET seen == deposit[run[h].deposit].link IN
    /\ At(h, "check")
    /\ run' = [run EXCEPT ![h] = IF seen = "open" THEN Idle
                                 ELSE [@ EXCEPT !.at = "reconcile", !.seen = seen]]
    /\ UNCHANGED <<wallet, adjusted, deposit, request, account>>

(* reconcileWalletDeposit, with what PayOS answered before.                *)
Reconcile(h) ==
    LET d == run[h].deposit
        seen == run[h].seen
        closes == seen \in Closed /\ deposit[d].status \in {"pending", "failed"}
    IN
    /\ At(h, "reconcile")
    /\ \/ seen = "paid" /\ MarkSuccess(d)
       \/ /\ closes
          /\ deposit' = [deposit EXCEPT ![d].status =
                            IF seen = "cancelled" THEN "cancelled" ELSE "failed"]
          /\ UNCHANGED wallet
       \/ seen # "paid" /\ ~closes /\ UNCHANGED <<wallet, deposit>>
    /\ run' = [run EXCEPT ![h] = Idle]
    /\ UNCHANGED <<adjusted, request, account>>

(* A handler that an error or a crash stops.                               *)
Abort(h) ==
    /\ ~At(h, "idle")
    /\ run' = [run EXCEPT ![h] = Idle]
    /\ UNCHANGED <<wallet, adjusted, deposit, request, account>>

-----------------------------------------------------------------------------
AccountStep ==
    \E a \in Accounts :
        \/ \E i \in Identities, asked \in BOOLEAN :
               CreateAccount(a, i, asked) \/ RestoreAccount(a, i, asked)
        \/ \E i \in Identities : SetDefault(a, i)
        \/ \E i \in Identities, isDefault \in BOOLEAN, s \in {"active", "inactive"} :
               UpdateAccount(a, i, isDefault, s)
        \/ DeleteAccount(a)

RequestStep ==
    \E q \in Requests :
        \/ \E a \in Accounts : ChooseAccount(q, a)
        \/ CreateWithdrawal(q)
        \/ ApproveWithdrawal(q)
        \/ RejectWithdrawal(q)

DepositStep ==
    \E d \in Deposits :
        \/ RecordDeposit(d) \/ CreateLink(d) \/ SaveLink(d)
        \/ PayLink(d) \/ ExpireLink(d)
        \/ WebhookPaid(d) \/ WebhookFailed(d)
        \/ \E h \in Handlers, cancels \in BOOLEAN : AskLink(h, d, cancels)

RunStep == \E h \in Handlers : CancelLink(h) \/ CheckLink(h) \/ Reconcile(h) \/ Abort(h)

Adjustment == \E n \in {-1, 1} : AdjustWallet(n)

Next == AccountStep \/ RequestStep \/ DepositStep \/ RunStep \/ Adjustment

Spec == Init /\ [][Next]_vars
-----------------------------------------------------------------------------
(* Properties.                                                             *)

TypeOK ==
    /\ wallet \in [balance : Nat, pendingBalance : Nat]
    /\ adjusted \in -MaxAdjusted .. MaxAdjusted
    /\ deposit \in [Deposits -> DepositRecords]
    /\ request \in [Requests -> RequestRecords]
    /\ account \in [Accounts -> AccountRecords]
    /\ run \in [Handlers -> Runs]

Paid == {d \in Deposits : deposit[d].status = "success"}
Waiting == {q \in Requests : request[q].status = "pending"}
Gone == {q \in Requests : request[q].status = "approved"}

(* The balance and what waits for a review add up to the successful        *)
(* entries of the wallet, and what waits is the sum of the pending         *)
(* requests: no deposit counts twice or not at all, no withdrawal leaves   *)
(* twice, whichever webhook, synchronization, cancellation and review come *)
(* together (wallet.service.ts:467, withdrawal.service.ts:127).            *)
BooksBalance ==
    /\ wallet.balance + wallet.pendingBalance = adjusted + Cardinality(Paid) - Cardinality(Gone)
    /\ wallet.pendingBalance = Cardinality(Waiting)

(* A deposit that counts was paid at PayOS, and one that was paid is never *)
(* recorded as cancelled, although its cancellation races the payment      *)
(* (wallet.service.ts:436).                                                *)
DepositsMatchPayos ==
    \A d \in Deposits :
        /\ deposit[d].status = "success" => deposit[d].link = "paid"
        /\ deposit[d].link = "paid" => deposit[d].status # "cancelled"

(* The account of a pending withdrawal stays active, so that it can be     *)
(* approved; and every withdrawal, reviewed or not, keeps naming the       *)
(* identity it was made to, although accounts are changed, deleted and     *)
(* restored (bankAccount.service.ts:71, withdrawal.service.ts:59).         *)
RequestsKeepAccount ==
    \A q \in Requests :
        LET a == account[request[q].account] IN
        /\ request[q].status = "pending" => a.status = "active"
        /\ request[q].status \notin {"none", "choosing"} => a.identity = request[q].made

(* At most one account is the default one, and it is not deleted, although *)
(* accounts are added, restored, chosen and deleted in any order, and a    *)
(* deletion promotes another one (bankAccount.service.ts:44,209).          *)
OneDefault ==
    /\ \A a, b \in Accounts : account[a].isDefault /\ account[b].isDefault => a = b
    /\ \A a \in Accounts : account[a].isDefault => a \in Kept

MoneyOf(d) ==
    IF deposit[d].status = "success" THEN "credited"
    ELSE IF deposit[d].link = "paid" THEN "received" ELSE "absent"

WishOf(q) ==
    CASE request[q].status = "pending" -> "held"
      [] request[q].status = "approved" -> "sent"
      [] request[q].status = "rejected" -> "given back"
      [] OTHER -> "none"

Promised == INSTANCE Purse WITH
    balance <- wallet.balance,
    money <- [d \in Deposits |-> MoneyOf(d)],
    wish <- [q \in Requests |-> WishOf(q)]

(* All of it together keeps what Purse promises the user: a deposit counts *)
(* once and for good, although failures, cancellations and expiries of its *)
(* link come late or out of order, and a withdrawal is settled once        *)
(* (wallet.service.ts:436, :467, withdrawal.service.ts:127).               *)
KeepsPurse == Promised!Spec

(* Every request of the user ends.  As long as a payment is not counted he *)
(* comes back (the page keeps the code of the deposit until PayOS has      *)
(* answered, useWalletDepositReturn.ts:36), and not every request of his   *)
(* is cut off.                                                             *)
Fairness ==
    /\ \A h \in Handlers : WF_vars(CancelLink(h) \/ CheckLink(h) \/ Reconcile(h) \/ Abort(h))
    /\ \A d \in Deposits :
         /\ SF_vars(\E h \in Handlers : AskLink(h, d, FALSE))
         /\ SF_vars(\E h \in Handlers : /\ run[h].deposit = d /\ run[h].seen = "paid"
                                         /\ Reconcile(h))

FairSpec == Spec /\ Fairness

(* Verified money counts at last, even when the deposit was marked failed  *)
(* before (wallet.service.ts:480), and even when PayOS never tells of it.  *)
PaidIsCredited ==
    \A d \in Deposits : deposit[d].link = "paid" ~> deposit[d].status = "success"

=============================================================================
