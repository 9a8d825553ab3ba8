-------------------------- MODULE SettlementProofs --------------------------
(***************************************************************************)
(* Theorems about Settlement, for any number of payments, request handlers *)
(* and overlapping refund scans, any limit of attempts and any number of   *)
(* crashes.  IInv adds to the safety invariants what each worker may still *)
(* count on of what it read before (RunTrue), that a payment whose link is *)
(* being created belongs to one worker, and that no link comes before its  *)
(* payment.                                                                *)
(***************************************************************************)
EXTENDS Settlement, TLAPS

Refunding == {"ensure", "claim", "refund", "finish", "fail1", "fail2", "job"}

Settling == Refunding \cup {"list", "getLink", "markPaid", "closeLink", "fail"}

Unbound == {"idle", "charge", "reserve", "list"}

Taken(p) == payment[p].status \in {"paid", "refunded"}

Unlinked(p) == link[p] = "none" /\ payment[p].status \in {"pending", "failed"}

(* What a worker relies on: a payment it read as taken stays taken, a link *)
(* it read as paid stays paid, a cancelled order stays cancelled.          *)
RunTrue(w) ==
    LET at == run[w].at
        p == run[w].p
    IN  /\ at \notin Unbound => p \in Payments
        /\ at \in Settling => IsCancelled
        /\ at \in Refunding => Taken(p)
        /\ at = "finish" => payment[p].status = "refunded"
        /\ at = "link" => Unlinked(p)
        /\ at = "reconcile" /\ run[w].saw = "paid" => link[p] = "paid"
        /\ at = "markPaid" => link[p] = "paid"
        /\ at = "fail2" => run[w].saw \in {"failed", "manual_review"}

RunsTrue == \A w \in Workers : RunTrue(w)

(* Nobody else creates the link of the same payment.                       *)
LinkedOnce ==
    \A v, w \in Workers :
        run[v].at = "link" /\ run[w].at = "link" /\ run[v].p = run[w].p => v = w

(* A link belongs to a record of a payment.                                *)
LinkAfterPayment ==
    \A p \in Payments : payment[p].status = "none" => link[p] = "none"

Safe == TypeOK /\ LedgerMatches /\ ChargedOnce /\ RefundRecordsTrue /\ AwardedOnce

IInv == Safe /\ RunsTrue /\ LinkedOnce /\ LinkAfterPayment

MoneyStep == [Money!Next]_<<~IsCancelled, [p \in Payments |-> MoneyOf(p)]>>

-----------------------------------------------------------------------------
(* The customer's money, read off the Payment records.                     *)

LEMMA MoneyValue ==
  ASSUME TypeOK, LedgerMatches, NEW p \in Payments
  PROVE  /\ MoneyOf(p) = "returned" <=> payment[p].status = "refunded"
         /\ MoneyOf(p) = "kept" <=> payment[p].status = "paid"
         /\ MoneyOf(p) \in {"returned", "kept", "absent"}
BY DEF TypeOK, LedgerMatches, MoneyOf

(* The same after a step.                                                  *)
LEMMA MoneyValueNext ==
  ASSUME TypeOK', LedgerMatches', NEW p \in Payments
  PROVE  /\ MoneyOf(p)' = "returned" <=> payment'[p].status = "refunded"
         /\ MoneyOf(p)' = "kept" <=> payment'[p].status = "paid"
         /\ MoneyOf(p)' \in {"returned", "kept", "absent"}
BY DEF TypeOK, LedgerMatches, MoneyOf

(* A step that takes and returns nothing.                                  *)
LEMMA MoneySame ==
  ASSUME IInv, Safe', order' = order,
         \A p \in Payments : /\ payment'[p].status = "paid" <=> payment[p].status = "paid"
                             /\ payment'[p].status = "refunded" <=> payment[p].status = "refunded"
  PROVE  MoneyStep
<1>1. ASSUME NEW p \in Payments PROVE MoneyOf(p)' = MoneyOf(p)
  BY MoneyValue, MoneyValueNext, <1>1 DEF IInv, Safe
<1> QED BY <1>1 DEF MoneyStep, IsCancelled

(* A step that changes what becomes of one payment.                        *)
LEMMA MoneyOne ==
  ASSUME IInv, Safe', order' = order, NEW p \in Payments,
         \A q \in Payments \ {p} : payment'[q].status = payment[q].status
  PROVE  /\ payment[p].status \notin {"paid", "refunded"} /\ payment'[p].status = "paid"
              => MoneyStep
         /\ payment[p].status \notin {"paid", "refunded"} /\ payment'[p].status = "refunded"
              => MoneyStep
         /\ payment[p].status = "paid" /\ payment'[p].status = "refunded" /\ IsCancelled
              => MoneyStep
<1> DEFINE m == [q \in Payments |-> MoneyOf(q)]
<1>1. ASSUME NEW q \in Payments, q # p PROVE MoneyOf(q)' = MoneyOf(q)
  BY MoneyValue, MoneyValueNext, <1>1 DEF IInv, Safe
<1>2. (~IsCancelled)' = ~IsCancelled BY DEF IsCancelled
<1>3. ASSUME NEW v, MoneyOf(p)' = v PROVE m' = [m EXCEPT ![p] = v]
  BY <1>1, <1>3
<1>4. CASE payment[p].status \notin {"paid", "refunded"} /\ payment'[p].status = "paid"
  <2>1. m[p] = "absent" /\ MoneyOf(p)' = "kept"
    BY <1>4, MoneyValue, MoneyValueNext DEF IInv, Safe
  <2>2. ASSUME NEW q \in Payments PROVE m[q] # "kept"
    <3>1. CASE q = p BY <3>1, <2>1
    <3>2. CASE q # p
      <4>1. payment'[q].status # "paid"
        BY <1>4, <3>2 DEF Safe, ChargedOnce, IsLive
      <4> QED BY <3>2, <4>1, MoneyValue DEF IInv, Safe
    <3> QED BY <3>1, <3>2
  <2>3. Money!Kept = {} BY <2>2 DEF Money!Kept
  <2> QED BY <1>2, <1>3, <2>1, <2>3, <1>4 DEF MoneyStep, Money!Next, Money!Keep
<1>5. CASE payment[p].status \notin {"paid", "refunded"} /\ payment'[p].status = "refunded"
  <2>1. m[p] = "absent" /\ MoneyOf(p)' = "returned"
    BY <1>5, MoneyValue, MoneyValueNext DEF IInv, Safe
  <2> QED BY <1>2, <1>3, <2>1, <1>5 DEF MoneyStep, Money!Next, Money!Reject
<1>6. CASE payment[p].status = "paid" /\ payment'[p].status = "refunded" /\ IsCancelled
  <2>1. m[p] = "kept" /\ MoneyOf(p)' = "returned"
    BY <1>6, MoneyValue, MoneyValueNext DEF IInv, Safe
  <2> QED BY <1>2, <1>3, <2>1, <1>6 DEF MoneyStep, Money!Next, Money!Return
<1> QED BY <1>4, <1>5, <1>6

-----------------------------------------------------------------------------
(* What the workers rely on, across a step.                                *)

(* Nothing that a worker relies on is taken back.                          *)
Onward(p) ==
    /\ Taken(p) => Taken(p)'
    /\ payment[p].status = "refunded" => payment'[p].status = "refunded"
    /\ link[p] = "paid" => link'[p] = "paid"
    /\ payment'[p].status = "none" => payment[p].status = "none" /\ link'[p] = link[p]

(* What a worker that does not move relies on survives such a step.        *)
LEMMA OthersTrue ==
  ASSUME RunsTrue, NEW v \in Workers, run'[v] = run[v],
         IsCancelled => IsCancelled', \A p \in Payments : Onward(p),
         run[v].at = "link" => Unlinked(run[v].p)'
  PROVE  RunTrue(v)'
BY DEF RunsTrue, RunTrue, Onward, Unbound, Settling, Refunding

(* A worker that does not create a link leaves the others alone.           *)
LEMMA LinkedKept ==
  ASSUME LinkedOnce, run \in [Workers -> Runs],
         NEW w \in Workers, \A v \in Workers \ {w} : run'[v] = run[v],
         run'[w].at # "link"
  PROVE  LinkedOnce'
BY DEF LinkedOnce

(* A step of one worker that leaves the records of the money alone.        *)
LEMMA QuietStep ==
  ASSUME IInv, NEW w \in Workers, TypeOK', RefundRecordsTrue',
         UNCHANGED <<order, ledger>>,
         \A v \in Workers \ {w} : run'[v] = run[v],
         run'[w].at # "link", RunTrue(w)',
         \A p \in Payments : link[p] \in {"none", "paid"} => link'[p] = link[p]
  PROVE  IInv' /\ MoneyStep
<1>1. LedgerMatches' /\ ChargedOnce' /\ AwardedOnce'
  BY DEF IInv, Safe, LedgerMatches, ChargedOnce, AwardedOnce, IsLive, ledger
<1>2. Safe' BY <1>1 DEF Safe
<1>3. MoneyStep BY <1>2, MoneySame DEF ledger
<1>4. \A p \in Payments : Onward(p)
  BY DEF IInv, LinkAfterPayment, Onward, Taken, ledger
<1>5. ASSUME NEW v \in Workers, v # w PROVE RunTrue(v)'
  <2>1. run[v].at = "link" => Unlinked(run[v].p)'
    BY <1>5 DEF IInv, RunsTrue, RunTrue, Unlinked, Unbound, ledger
  <2> QED BY <1>5, <2>1, <1>4, OthersTrue DEF IInv, IsCancelled
<1>6. RunsTrue' BY <1>5 DEF RunsTrue
<1>7. LinkedOnce' BY LinkedKept DEF IInv, Safe, TypeOK
<1>8. LinkAfterPayment' BY <1>4 DEF IInv, LinkAfterPayment, Onward
<1> QED BY <1>2, <1>3, <1>6, <1>7, <1>8 DEF IInv

(* How a worker moves on.                                                  *)
OnlyRun(w) ==
    /\ run' \in [Workers -> Runs]
    /\ \A v \in Workers \ {w} : run'[v] = run[v]

(* A worker that ends is idle.                                             *)
LEMMA EndMove ==
  ASSUME run \in [Workers -> Runs], NEW w \in Workers, End(w)
  PROVE  OnlyRun(w) /\ run'[w].at = "idle"
BY DEF End, Idle, OnlyRun, Runs, Labels, LinkStatuses

(* A worker that goes on keeps its payment and what it read.               *)
LEMMA GotoMove ==
  ASSUME run \in [Workers -> Runs], NEW w \in Workers, NEW label \in Labels, Goto(w, label)
  PROVE  /\ OnlyRun(w)
         /\ run'[w].at = label /\ run'[w].p = run[w].p /\ run'[w].saw = run[w].saw
BY DEF Goto, OnlyRun, Runs

(* A worker that takes a payment up has it in hand.                        *)
LEMMA TakeMove ==
  ASSUME run \in [Workers -> Runs], NEW w \in Workers, NEW label \in Labels,
         NEW p \in Payments \cup {NoPayment},
         NEW saw \in LinkStatuses \cup {"confirmed", "invalid", "failed", "manual_review"},
         Take(w, label, p, saw)
  PROVE  /\ OnlyRun(w)
         /\ run'[w].at = label /\ run'[w].p = p /\ run'[w].saw = saw
BY DEF Take, OnlyRun, Runs

(* A worker that waits, or has only begun, relies on nothing.              *)
LEMMA FreeTrue ==
  ASSUME NEW w \in Workers, run'[w].at \in {"idle", "charge", "reserve"}
  PROVE  RunTrue(w)' /\ run'[w].at # "link"
BY DEF RunTrue, Unbound, Settling, Refunding

(* A step that changes nothing but what one worker does.                   *)
LEMMA RunStep ==
  ASSUME IInv, NEW w \in Workers, UNCHANGED <<order, ledger, refund, link, counters>>,
         OnlyRun(w), run'[w].at # "link", RunTrue(w)'
  PROVE  IInv' /\ MoneyStep
<1>1. TypeOK' BY DEF IInv, Safe, TypeOK, OnlyRun, ledger, counters
<1>2. RefundRecordsTrue' BY DEF IInv, Safe, RefundRecordsTrue, IsCancelled, ledger
<1> QED BY <1>1, <1>2, QuietStep DEF OnlyRun

(* A step that also writes the Refund of one payment.                      *)
LEMMA RefundStep ==
  ASSUME IInv, NEW w \in Workers, UNCHANGED <<order, ledger, link, crashes>>, retries' \in Nat,
         OnlyRun(w), run'[w].at # "link", RunTrue(w)',
         NEW p \in Payments, NEW r \in RefundRecords, refund' = [refund EXCEPT ![p] = r],
         r.status = "succeeded" => payment[p].status = "refunded",
         r.status # "none" => Taken(p),
         r.status \in OpenRefunds \cup {"manual_review"} => IsCancelled
  PROVE  IInv' /\ MoneyStep
<1>1. TypeOK' BY DEF IInv, Safe, TypeOK, OnlyRun, ledger
<1>2. RefundRecordsTrue'
  BY DEF IInv, Safe, TypeOK, RefundRecordsTrue, IsCancelled, Taken, ledger
<1> QED BY <1>1, <1>2, QuietStep DEF OnlyRun

-----------------------------------------------------------------------------
(* Steps that change only what a worker does.                              *)

LEMMA StartPaymentStep ==
  ASSUME IInv, NEW w \in Workers, StartPayment(w)
  PROVE  IInv' /\ MoneyStep
<1>1. run \in [Workers -> Runs] BY DEF IInv, Safe, TypeOK
<1>2. PICK label \in {"charge", "reserve"}, saw \in {"confirmed", "none"} :
         Take(w, label, NoPayment, saw)
  BY DEF StartPayment
<1>3. OnlyRun(w) /\ run'[w].at = label
  BY <1>1, <1>2, TakeMove DEF Labels, LinkStatuses
<1> QED BY <1>3, FreeTrue, RunStep DEF StartPayment

(* Looking at the order after the money: only a cancelled one is settled.  *)
LEMMA AfterMoneyStep ==
  ASSUME IInv, NEW w \in Workers, AfterMoney(w)
  PROVE  IInv' /\ MoneyStep
<1>1. run \in [Workers -> Runs] BY DEF IInv, Safe, TypeOK
<1>2. UNCHANGED <<order, ledger, refund, link, counters>> BY DEF AfterMoney
<1>3. CASE IsCancelled
  <2>1. OnlyRun(w) /\ run'[w].at = "list" BY <1>1, <1>3, GotoMove DEF AfterMoney, Labels
  <2>2. RunTrue(w)'
    BY <1>2, <1>3, <2>1 DEF RunTrue, Unbound, Settling, Refunding, IsCancelled
  <2> QED BY <1>2, <2>1, <2>2, RunStep
<1>4. CASE ~IsCancelled
  <2>1. OnlyRun(w) /\ run'[w].at = "idle" BY <1>1, <1>4, EndMove DEF AfterMoney
  <2> QED BY <1>2, <2>1, FreeTrue, RunStep
<1> QED BY <1>3, <1>4

(* Reconciling starts from the link as it is read.                         *)
LEMMA StartReconcileStep ==
  ASSUME IInv, NEW w \in Workers, NEW p \in Payments, StartReconcile(w, p)
  PROVE  IInv' /\ MoneyStep
<1>1. run \in [Workers -> Runs] /\ link[p] \in LinkStatuses BY DEF IInv, Safe, TypeOK
<1>2. OnlyRun(w) /\ run'[w].at = "reconcile" /\ run'[w].p = p /\ run'[w].saw = link[p]
  BY <1>1, TakeMove DEF StartReconcile, Labels
<1>3. RunTrue(w)'
  BY <1>2 DEF RunTrue, Unbound, Settling, Refunding, StartReconcile
<1> QED BY <1>2, <1>3, RunStep DEF StartReconcile

(* What a look at the link of a pending payment leads to.                  *)
LEMMA LookStep ==
  ASSUME IInv, NEW w \in Workers, NEW p \in Payments,
         UNCHANGED <<order, ledger, refund, link, counters>>,
         \/ link[p] = "paid" /\ Take(w, "reconcile", p, "paid")
         \/ link[p] = "open" /\ Take(w, "withdraw", p, "open")
         \/ link[p] = "cancelled" /\ Take(w, "release", p, "cancelled")
         \/ link[p] = "open" /\ End(w)
  PROVE  IInv' /\ MoneyStep
<1>1. run \in [Workers -> Runs] BY DEF IInv, Safe, TypeOK
<1>2. CASE link[p] = "paid" /\ Take(w, "reconcile", p, "paid")
  <2>1. OnlyRun(w) /\ run'[w].at = "reconcile" /\ run'[w].p = p
    BY <1>1, <1>2, TakeMove DEF Labels, LinkStatuses
  <2>2. RunTrue(w)' BY <1>2, <2>1 DEF RunTrue, Unbound, Settling, Refunding
  <2> QED BY <2>1, <2>2, RunStep
<1>3. CASE Take(w, "withdraw", p, "open")
  <2>1. OnlyRun(w) /\ run'[w].at = "withdraw" /\ run'[w].p = p
    BY <1>1, <1>3, TakeMove DEF Labels, LinkStatuses
  <2>2. RunTrue(w)' BY <2>1 DEF RunTrue, Unbound, Settling, Refunding
  <2> QED BY <2>1, <2>2, RunStep
<1>4. CASE Take(w, "release", p, "cancelled")
  <2>1. OnlyRun(w) /\ run'[w].at = "release" /\ run'[w].p = p
    BY <1>1, <1>4, TakeMove DEF Labels, LinkStatuses
  <2>2. RunTrue(w)' BY <2>1 DEF RunTrue, Unbound, Settling, Refunding
  <2> QED BY <2>1, <2>2, RunStep
<1>5. CASE End(w)
  <2>1. OnlyRun(w) /\ run'[w].at = "idle" BY <1>1, <1>5, EndMove
  <2> QED BY <2>1, FreeTrue, RunStep
<1> QED BY <1>2, <1>3, <1>4, <1>5

(* Withdrawing starts from the link as it is read.                         *)
LEMMA StartWithdrawStep ==
  ASSUME IInv, NEW w \in Workers, NEW p \in Payments, StartWithdraw(w, p)
  PROVE  IInv' /\ MoneyStep
BY LookStep DEF StartWithdraw

(* The second look at the link, after it was closed.                       *)
LEMMA VerifyStep ==
  ASSUME IInv, NEW w \in Workers, Verify(w)
  PROVE  IInv' /\ MoneyStep
<1>1. run[w].p \in Payments BY DEF Verify, IInv, RunsTrue, RunTrue, Unbound
<1> QED BY <1>1, LookStep DEF Verify

(* Settling once more an order that is cancelled already.                  *)
LEMMA CancelAgainStep ==
  ASSUME IInv, NEW w \in Workers, CancelAgain(w)
  PROVE  IInv' /\ MoneyStep
<1>1. run \in [Workers -> Runs] BY DEF IInv, Safe, TypeOK
<1>2. OnlyRun(w) /\ run'[w].at = "list"
  BY <1>1, TakeMove DEF CancelAgain, Labels, LinkStatuses
<1>3. RunTrue(w)'
  BY <1>2 DEF CancelAgain, RunTrue, Unbound, Settling, Refunding, IsCancelled
<1> QED BY <1>2, <1>3, RunStep DEF CancelAgain

(* The look at the link of a cancelled order.                              *)
LEMMA SettleGetLinkStep ==
  ASSUME IInv, NEW w \in Workers, SettleGetLink(w)
  PROVE  IInv' /\ MoneyStep
<1>1. run \in [Workers -> Runs] /\ run[w].p \in Payments /\ IsCancelled
  BY DEF IInv, Safe, TypeOK, SettleGetLink, RunsTrue, RunTrue, Unbound, Settling
<1>2. UNCHANGED <<order, ledger, refund, link, counters>> BY DEF SettleGetLink
<1>3. CASE End(w)
  <2>1. OnlyRun(w) /\ run'[w].at = "idle" BY <1>1, <1>3, EndMove
  <2> QED BY <1>2, <2>1, FreeTrue, RunStep
<1>4. ASSUME NEW label \in {"markPaid", "closeLink", "fail"}, Goto(w, label),
             label = "markPaid" => link[run[w].p] = "paid"
      PROVE  IInv' /\ MoneyStep
  <2>1. OnlyRun(w) /\ run'[w].at = label /\ run'[w].p = run[w].p
    BY <1>1, <1>4, GotoMove DEF Labels
  <2>2. RunTrue(w)'
    BY <1>1, <1>2, <1>4, <2>1 DEF RunTrue, Unbound, Settling, Refunding, IsCancelled
  <2> QED BY <1>2, <1>4, <2>1, <2>2, RunStep
<1> QED BY <1>3, <1>4 DEF SettleGetLink

(* A refund that throws leaves the records alone.                          *)
LEMMA RefundThrowsStep ==
  ASSUME IInv, NEW w \in Workers, RefundThrows(w)
  PROVE  IInv' /\ MoneyStep
<1>1. run \in [Workers -> Runs] /\ RunTrue(w) BY DEF IInv, Safe, TypeOK, RunsTrue
<1>2. OnlyRun(w) /\ run'[w].at = "fail1" /\ run'[w].p = run[w].p
  BY <1>1, GotoMove DEF RefundThrows, Labels
<1>3. RunTrue(w)'
  BY <1>1, <1>2 DEF RefundThrows, RunTrue, Unbound, Settling, Refunding, IsCancelled, Taken, ledger
<1> QED BY <1>2, <1>3, RunStep DEF RefundThrows

(* A scan takes up only refunds that are due, hence of cancelled orders.   *)
LEMMA ScanStep ==
  ASSUME IInv, NEW w \in Workers, NEW p \in Payments, Scan(w, p)
  PROVE  IInv' /\ MoneyStep
<1>1. run \in [Workers -> Runs] BY DEF IInv, Safe, TypeOK
<1>2. OnlyRun(w) /\ run'[w].at = "job" /\ run'[w].p = p
  BY <1>1, TakeMove DEF Scan, Labels, LinkStatuses
<1>3. IsCancelled /\ Taken(p)
  BY DEF Scan, IsDue, IInv, Safe, RefundRecordsTrue, OpenRefunds, Taken
<1>4. RunTrue(w)'
  BY <1>2, <1>3 DEF Scan, RunTrue, Unbound, Settling, Refunding, IsCancelled, Taken, ledger
<1> QED BY <1>2, <1>4, RunStep DEF Scan

-----------------------------------------------------------------------------
(* Steps that close a link.                                                *)

LEMMA CloseStep ==
  ASSUME IInv, NEW w \in Workers, NEW label \in {"verify", "fail"}, Goto(w, label),
         run[w].at \notin Unbound, label = "fail" => IsCancelled,
         UNCHANGED <<order, ledger, refund, counters>>,
         \/ link[run[w].p] = "open" /\ link' = [link EXCEPT ![run[w].p] = "cancelled"]
         \/ UNCHANGED link
  PROVE  IInv' /\ MoneyStep
<1>1. run \in [Workers -> Runs] /\ run[w].p \in Payments
  BY DEF IInv, Safe, TypeOK, RunsTrue, RunTrue
<1>2. OnlyRun(w) /\ run'[w].at = label /\ run'[w].p = run[w].p
  BY <1>1, GotoMove DEF Labels
<1>3. TypeOK' BY <1>1, <1>2 DEF IInv, Safe, TypeOK, OnlyRun, LinkStatuses, ledger, counters
<1>4. RefundRecordsTrue' BY DEF IInv, Safe, RefundRecordsTrue, IsCancelled, ledger
<1>5. RunTrue(w)'
  BY <1>1, <1>2 DEF RunTrue, Unbound, Settling, Refunding, IsCancelled
<1>6. \A p \in Payments : link[p] \in {"none", "paid"} => link'[p] = link[p]
  BY <1>1 DEF IInv, Safe, TypeOK
<1> QED BY <1>2, <1>3, <1>4, <1>5, <1>6, QuietStep DEF OnlyRun

(* Closing a link to pay in another way.                                   *)
LEMMA WithdrawStep ==
  ASSUME IInv, NEW w \in Workers, Withdraw(w)
  PROVE  IInv' /\ MoneyStep
BY CloseStep DEF Withdraw, Unbound

(* Closing the link of a cancelled order.                                  *)
LEMMA SettleCloseLinkStep ==
  ASSUME IInv, NEW w \in Workers, SettleCloseLink(w)
  PROVE  IInv' /\ MoneyStep
<1>1. run \in [Workers -> Runs] /\ IsCancelled /\ run[w].at \notin Unbound
  BY DEF IInv, Safe, TypeOK, SettleCloseLink, RunsTrue, RunTrue, Unbound, Settling
<1>2. CASE End(w) /\ UNCHANGED link
  <2>1. OnlyRun(w) /\ run'[w].at = "idle" BY <1>1, <1>2, EndMove
  <2> QED BY <1>2, <2>1, FreeTrue, RunStep DEF SettleCloseLink
<1>3. CASE link[run[w].p] = "open" /\ link' = [link EXCEPT ![run[w].p] = "cancelled"]
             /\ Goto(w, "fail")
  BY <1>1, <1>3, CloseStep DEF SettleCloseLink
<1> QED BY <1>2, <1>3 DEF SettleCloseLink

-----------------------------------------------------------------------------
(* Steps that write a Refund record.                                       *)

(* Where a worker stands that handles a refund.                            *)
LEMMA RefundingFacts ==
  ASSUME IInv, NEW w \in Workers, run[w].at \in Refunding
  PROVE  /\ run \in [Workers -> Runs] /\ run[w].p \in Payments
         /\ IsCancelled /\ Taken(run[w].p)
         /\ refund[run[w].p] \in RefundRecords
BY DEF IInv, Safe, TypeOK, RunsTrue, RunTrue, Refunding, Settling, Unbound

(* It may go on with the refund or stop.                                   *)
LEMMA RefundingTrue ==
  ASSUME IInv, NEW w \in Workers, NEW p \in Payments, IsCancelled, Taken(p),
         UNCHANGED <<order, ledger>>,
         run'[w].at \in Refunding \ {"finish"}, run'[w].p = p,
         run'[w].at = "fail2" => run'[w].saw \in {"failed", "manual_review"}
  PROVE  RunTrue(w)' /\ run'[w].at # "link"
BY DEF RunTrue, Refunding, Settling, Unbound, IsCancelled, Taken, ledger

(* A Refund record is made only of money that was taken.                   *)
LEMMA EnsureRefundStep ==
  ASSUME IInv, NEW w \in Workers, EnsureRefund(w)
  PROVE  IInv' /\ MoneyStep
<1> DEFINE p == run[w].p
           r == [refund[p] EXCEPT !.status = IF @ = "none" THEN "requested" ELSE @]
<1>1. /\ run \in [Workers -> Runs] /\ p \in Payments /\ IsCancelled /\ Taken(p)
      /\ refund[p] \in RefundRecords
  BY RefundingFacts DEF EnsureRefund, Refunding
<1>2. refund' = [refund EXCEPT ![p] = r] BY DEF EnsureRefund
<1>3. r \in RefundRecords BY <1>1 DEF RefundRecords, OpenRefunds
<1>4. r.status = "succeeded" => payment[p].status = "refunded"
  BY <1>1 DEF IInv, Safe, RefundRecordsTrue, RefundRecords
<1>5. OnlyRun(w) /\ run'[w].at = "claim" /\ run'[w].p = p
  BY <1>1, GotoMove DEF EnsureRefund, Labels
<1>6. RunTrue(w)' /\ run'[w].at # "link"
  BY <1>1, <1>5, RefundingTrue DEF EnsureRefund, Refunding, ledger
<1>7. retries' \in Nat BY DEF EnsureRefund, counters, IInv, Safe, TypeOK
<1> HIDE DEF r, p
<1> QED BY <1>1, <1>2, <1>3, <1>4, <1>5, <1>6, <1>7, RefundStep DEF EnsureRefund, counters

(* The lease is taken over, never the truth of the record.                 *)
LEMMA ClaimRefundStep ==
  ASSUME IInv, NEW w \in Workers, ClaimRefund(w)
  PROVE  IInv' /\ MoneyStep
<1> DEFINE p == run[w].p
           r == [refund[p] EXCEPT !.status = "requesting", !.lease = "held"]
<1>1. /\ run \in [Workers -> Runs] /\ p \in Payments /\ IsCancelled /\ Taken(p)
      /\ refund[p] \in RefundRecords
  BY RefundingFacts DEF ClaimRefund, Refunding
<1>2. CASE ~IsDue(p)
  <2>1. End(w) /\ UNCHANGED <<order, ledger, refund, link, counters>>
    BY <1>2 DEF ClaimRefund
  <2>2. OnlyRun(w) /\ run'[w].at = "idle" BY <1>1, <2>1, EndMove
  <2> QED BY <2>1, <2>2, FreeTrue, RunStep
<1>3. CASE IsDue(p)
  <2>1. PICK label \in {"fail1", "refund"} : Goto(w, label)
    BY <1>3 DEF ClaimRefund
  <2>2. refund' = [refund EXCEPT ![p] = r] BY <1>1, <1>3 DEF ClaimRefund, IInv, Safe, TypeOK
  <2>3. r \in RefundRecords /\ r.status = "requesting"
    BY <1>1 DEF RefundRecords, OpenRefunds
  <2>4. OnlyRun(w) /\ run'[w].at = label /\ run'[w].p = p
    BY <1>1, <2>1, GotoMove DEF Labels
  <2>5. RunTrue(w)' /\ run'[w].at # "link"
    BY <1>1, <2>4, RefundingTrue DEF ClaimRefund, Refunding, ledger
  <2>6. retries' \in Nat BY DEF ClaimRefund, counters, IInv, Safe, TypeOK
  <2> HIDE DEF r, p
  <2> QED BY <1>1, <2>2, <2>3, <2>4, <2>5, <2>6, RefundStep DEF ClaimRefund, counters
<1> QED BY <1>2, <1>3

(* Writing that the refund of a returned payment has succeeded.            *)
LEMMA SucceedStep ==
  ASSUME IInv, NEW w \in Workers, NEW p \in Payments, Succeed(p), End(w),
         payment[p].status = "refunded", UNCHANGED <<order, ledger, link, counters>>
  PROVE  IInv' /\ MoneyStep
<1> DEFINE r == [refund[p] EXCEPT !.status = "succeeded", !.waiting = FALSE, !.lease = "none"]
<1>1. run \in [Workers -> Runs] /\ refund[p] \in RefundRecords BY DEF IInv, Safe, TypeOK
<1>2. refund' = [refund EXCEPT ![p] = r] BY <1>1 DEF Succeed, IInv, Safe, TypeOK
<1>3. r \in RefundRecords /\ r.status = "succeeded" BY <1>1 DEF RefundRecords
<1>4. OnlyRun(w) /\ run'[w].at = "idle" BY <1>1, EndMove
<1>5. retries' \in Nat BY DEF counters, IInv, Safe, TypeOK
<1>6. Taken(p) /\ r.status \notin OpenRefunds \cup {"manual_review"}
  BY <1>3 DEF Taken, OpenRefunds
<1> HIDE DEF r
<1> QED BY <1>2, <1>3, <1>4, <1>5, <1>6, FreeTrue, RefundStep DEF counters

(* Success is written only after the money is back.                        *)
LEMMA FinishRefundStep ==
  ASSUME IInv, NEW w \in Workers, FinishRefund(w)
  PROVE  IInv' /\ MoneyStep
<1>1. run[w].p \in Payments /\ payment[run[w].p].status = "refunded"
  BY DEF FinishRefund, IInv, RunsTrue, RunTrue, Unbound
<1> QED BY <1>1, SucceedStep DEF FinishRefund

(* A counted attempt leaves the status.                                    *)
LEMMA AttemptCounted ==
  ASSUME NEW old \in RefundRecords
  PROVE  LET r == [old EXCEPT !.attempts = old.attempts + 1, !.lease = "none"]
         IN  r \in RefundRecords /\ r.status = old.status
<1>1. old.attempts + 1 \in Nat BY DEF RefundRecords
<1>2. ASSUME NEW n \in Nat
      PROVE  LET r == [old EXCEPT !.attempts = n, !.lease = "none"]
             IN  r \in RefundRecords /\ r.status = old.status
  BY DEF RefundRecords
<1> QED BY <1>1, <1>2

(* Counting a failed attempt.                                              *)
LEMMA RecordFailureStep ==
  ASSUME IInv, NEW w \in Workers, RecordFailure(w)
  PROVE  IInv' /\ MoneyStep
<1> DEFINE p == run[w].p
           r == [refund[p] EXCEPT !.attempts = refund[p].attempts + 1, !.lease = "none"]
<1>1. /\ run \in [Workers -> Runs] /\ p \in Payments /\ IsCancelled /\ Taken(p)
      /\ refund[p] \in RefundRecords
  BY RefundingFacts DEF RecordFailure, Refunding
<1>2. CASE refund[p].lease = "none"
  <2>1. End(w) /\ UNCHANGED <<order, ledger, refund, link, counters>>
    BY <1>2 DEF RecordFailure
  <2>2. OnlyRun(w) /\ run'[w].at = "idle" BY <1>1, <2>1, EndMove
  <2> QED BY <2>1, <2>2, FreeTrue, RunStep
<1>3. CASE refund[p].lease # "none"
  <2>1. PICK saw \in {"manual_review", "failed"} : Take(w, "fail2", p, saw)
    BY <1>3 DEF RecordFailure
  <2>2. refund' = [refund EXCEPT ![p] = r]
    BY <1>1, <1>3 DEF RecordFailure, IInv, Safe, TypeOK
  <2>3. r \in RefundRecords /\ r.status = refund[p].status BY <1>1, AttemptCounted
  <2>4. r.status = "succeeded" => payment[p].status = "refunded"
    BY <1>1, <2>3 DEF IInv, Safe, RefundRecordsTrue
  <2>5. OnlyRun(w) /\ run'[w].at = "fail2" /\ run'[w].p = p /\ run'[w].saw = saw
    BY <1>1, <2>1, TakeMove DEF Labels
  <2>6. RunTrue(w)' /\ run'[w].at # "link"
    BY <1>1, <2>5, RefundingTrue DEF RecordFailure, Refunding, ledger
  <2>7. retries' \in Nat BY DEF RecordFailure, counters, IInv, Safe, TypeOK
  <2> HIDE DEF r, p
  <2> QED BY <1>1, <2>2, <2>3, <2>4, <2>5, <2>6, <2>7, RefundStep DEF RecordFailure, counters
<1> QED BY <1>2, <1>3

(* The decision on a failed attempt never says succeeded.                  *)
LEMMA DecideRetryStep ==
  ASSUME IInv, NEW w \in Workers, DecideRetry(w)
  PROVE  IInv' /\ MoneyStep
<1> DEFINE p == run[w].p
           r == [refund[p] EXCEPT !.status = run[w].saw, !.waiting = (run[w].saw = "failed")]
<1>1. /\ run \in [Workers -> Runs] /\ p \in Payments /\ IsCancelled /\ Taken(p)
      /\ refund[p] \in RefundRecords
  BY RefundingFacts DEF DecideRetry, Refunding
<1>2. run[w].saw \in {"failed", "manual_review"} BY DEF DecideRetry, IInv, RunsTrue, RunTrue
<1>3. refund' = [refund EXCEPT ![p] = r] BY <1>1 DEF DecideRetry, IInv, Safe, TypeOK
<1>4. r \in RefundRecords /\ r.status # "succeeded"
  BY <1>1, <1>2 DEF RefundRecords, OpenRefunds
<1>5. OnlyRun(w) /\ run'[w].at = "idle" BY <1>1, EndMove DEF DecideRetry
<1>6. retries' \in Nat BY DEF DecideRetry, counters, IInv, Safe, TypeOK
<1> HIDE DEF r, p
<1> QED BY <1>1, <1>3, <1>4, <1>5, <1>6, FreeTrue, RefundStep DEF DecideRetry, counters

(* An administrator starts a refund over.                                  *)
LEMMA AdminRetryStep ==
  ASSUME IInv, NEW w \in Workers, NEW p \in Payments, AdminRetry(w, p)
  PROVE  IInv' /\ MoneyStep
<1> DEFINE r == [status |-> "requested", attempts |-> 0, waiting |-> FALSE, lease |-> "none"]
<1>1. run \in [Workers -> Runs] /\ retries \in Nat BY DEF IInv, Safe, TypeOK
<1>2. IsCancelled /\ Taken(p)
  BY DEF AdminRetry, IInv, Safe, RefundRecordsTrue, OpenRefunds, Taken
<1>3. r \in RefundRecords BY DEF RefundRecords, OpenRefunds
<1>4. OnlyRun(w) /\ run'[w].at = "job" /\ run'[w].p = p
  BY <1>1, TakeMove DEF AdminRetry, Labels, LinkStatuses
<1>5. RunTrue(w)' /\ run'[w].at # "link"
  BY <1>2, <1>4, RefundingTrue DEF AdminRetry, Refunding, ledger
<1>6. retries' \in Nat BY <1>1 DEF AdminRetry
<1> QED BY <1>2, <1>3, <1>4, <1>5, <1>6, RefundStep DEF AdminRetry

(* A job of the scan finds the payment returned, or goes on with it.       *)
LEMMA ProcessRefundJobStep ==
  ASSUME IInv, NEW w \in Workers, ProcessRefundJob(w)
  PROVE  IInv' /\ MoneyStep
<1> DEFINE p == run[w].p
<1>1. run \in [Workers -> Runs] /\ p \in Payments /\ IsCancelled /\ Taken(p)
  BY RefundingFacts DEF ProcessRefundJob, Refunding
<1>2. CASE payment[p].status = "refunded"
  BY <1>1, <1>2, SucceedStep DEF ProcessRefundJob
<1>3. CASE payment[p].status # "refunded"
  <2>1. Goto(w, "ensure") /\ UNCHANGED refund
    BY <1>1, <1>3 DEF ProcessRefundJob, Taken
  <2>2. OnlyRun(w) /\ run'[w].at = "ensure" /\ run'[w].p = p
    BY <1>1, <2>1, GotoMove DEF Labels
  <2>3. RunTrue(w)' /\ run'[w].at # "link"
    BY <1>1, <2>2, RefundingTrue DEF ProcessRefundJob, Refunding, ledger
  <2> QED BY <2>1, <2>2, <2>3, RunStep DEF ProcessRefundJob
<1> QED BY <1>2, <1>3

-----------------------------------------------------------------------------
(* Steps in which no worker moves.                                         *)

LEMMA RestStep ==
  ASSUME IInv, Safe', MoneyStep, UNCHANGED <<order, run>>,
         \A p \in Payments : Onward(p) /\ (Unlinked(p) => Unlinked(p)')
  PROVE  IInv' /\ MoneyStep
<1>1. ASSUME NEW v \in Workers PROVE RunTrue(v)'
  <2>1. run[v].at = "link" => Unlinked(run[v].p)'
    BY DEF IInv, RunsTrue, RunTrue, Unbound
  <2> QED BY <2>1, OthersTrue DEF IInv, IsCancelled
<1>2. RunsTrue' /\ LinkedOnce' BY <1>1 DEF RunsTrue, LinkedOnce, IInv
<1>3. LinkAfterPayment' BY DEF IInv, LinkAfterPayment, Onward
<1> QED BY <1>2, <1>3 DEF IInv

(* Discarding an order that nothing was paid for: it is not cancelled, so  *)
(* no worker starts to settle it.                                          *)
LEMMA DiscardStep ==
  ASSUME IInv, NEW w \in Workers, Discard(w)
  PROVE  IInv' /\ MoneyStep
<1>1. /\ order' \in Orders /\ ~IsCancelled /\ ~IsCancelled'
      /\ UNCHANGED <<ledger, refund, link, run, counters>>
  BY DEF Discard, IInv, Safe, TypeOK, Orders, IsCancelled
<1>2. Safe'
  BY <1>1 DEF IInv, Safe, TypeOK, LedgerMatches, ChargedOnce, RefundRecordsTrue,
              AwardedOnce, IsLive, ledger, counters
<1>3. MoneyStep BY <1>1 DEF MoneyStep, MoneyOf, ledger
<1>4. \A p \in Payments : Onward(p) /\ (Unlinked(p) => Unlinked(p)')
  BY <1>1 DEF Onward, Unlinked, Taken, ledger
<1>5. ASSUME NEW v \in Workers PROVE RunTrue(v)'
  <2>1. run[v].at = "link" => Unlinked(run[v].p)'
    BY <1>1, <1>4 DEF IInv, RunsTrue, RunTrue, Unbound
  <2>2. run'[v] = run[v] BY <1>1
  <2>3. IsCancelled => IsCancelled' BY <1>1
  <2> QED BY <2>1, <2>2, <2>3, <1>4, OthersTrue DEF IInv
<1>6. RunsTrue' BY <1>5 DEF RunsTrue
<1>7. LinkedOnce' BY <1>1 DEF LinkedOnce, IInv
<1>8. LinkAfterPayment' BY <1>4 DEF IInv, LinkAfterPayment, Onward
<1> QED BY <1>2, <1>3, <1>6, <1>7, <1>8 DEF IInv

(* A link, once open, is paid or closed.                                   *)
LEMMA GatewayStep ==
  ASSUME IInv, NEW p \in Payments, GatewayPaid(p) \/ GatewayExpires(p)
  PROVE  IInv' /\ MoneyStep
<1>1. PICK s \in {"paid", "cancelled"} : link' = [link EXCEPT ![p] = s]
  BY DEF GatewayPaid, GatewayExpires
<1>2. link[p] = "open" /\ UNCHANGED <<order, ledger, refund, run, counters>>
  BY DEF GatewayPaid, GatewayExpires
<1>3. Safe'
  BY <1>1, <1>2 DEF IInv, Safe, TypeOK, LedgerMatches, ChargedOnce, RefundRecordsTrue,
                    AwardedOnce, IsLive, IsCancelled, LinkStatuses, ledger, counters
<1>4. MoneyStep BY <1>2, <1>3, MoneySame DEF ledger
<1>5. \A q \in Payments : Onward(q) /\ (Unlinked(q) => Unlinked(q)')
  BY <1>1, <1>2 DEF IInv, Safe, TypeOK, LinkAfterPayment, Onward, Unlinked, Taken, ledger
<1> QED BY <1>2, <1>3, <1>4, <1>5, RestStep

(* The Refund of one payment is written by nobody in particular.           *)
LEMMA RefundRestStep ==
  ASSUME IInv, UNCHANGED <<order, ledger, link, run, counters>>,
         NEW p \in Payments, NEW r \in RefundRecords, refund' = [refund EXCEPT ![p] = r],
         r.status = "succeeded" => payment[p].status = "refunded",
         r.status # "none" => Taken(p),
         r.status \in OpenRefunds \cup {"manual_review"} => IsCancelled
  PROVE  IInv' /\ MoneyStep
<1>1. TypeOK' BY DEF IInv, Safe, TypeOK, ledger, counters
<1>2. RefundRecordsTrue'
  BY DEF IInv, Safe, TypeOK, RefundRecordsTrue, IsCancelled, Taken, ledger
<1>3. Safe'
  BY <1>1, <1>2 DEF IInv, Safe, LedgerMatches, ChargedOnce, AwardedOnce, IsLive, ledger
<1>4. MoneyStep BY <1>3, MoneySame DEF ledger
<1>5. \A q \in Payments : Onward(q) /\ (Unlinked(q) => Unlinked(q)')
  BY DEF Onward, Unlinked, Taken, ledger
<1> QED BY <1>3, <1>4, <1>5, RestStep

(* The backfill records what was returned already.                         *)
LEMMA BackfillStep ==
  ASSUME IInv, NEW p \in Payments, Backfill(p)
  PROVE  IInv' /\ MoneyStep
<1> DEFINE r == [refund[p] EXCEPT !.status = "succeeded"]
<1>1. refund[p] \in RefundRecords /\ refund' = [refund EXCEPT ![p] = r]
  BY DEF IInv, Safe, TypeOK, Backfill
<1>2. r \in RefundRecords /\ r.status = "succeeded" BY <1>1 DEF RefundRecords
<1>3. payment[p].status = "refunded" BY DEF Backfill
<1> HIDE DEF r
<1> QED BY <1>1, <1>2, <1>3, RefundRestStep DEF Backfill, Taken, OpenRefunds

(* Leases run out and retries fall due.                                    *)
LEMMA TimePassesStep ==
  ASSUME IInv, NEW p \in Payments, LeaseExpires(p) \/ RetryFallsDue(p)
  PROVE  IInv' /\ MoneyStep
<1>1. refund[p] \in RefundRecords BY DEF IInv, Safe, TypeOK
<1>2. PICK r \in {[refund[p] EXCEPT !.lease = "over"], [refund[p] EXCEPT !.waiting = FALSE]} :
         refund' = [refund EXCEPT ![p] = r]
  BY <1>1 DEF LeaseExpires, RetryFallsDue, IInv, Safe, TypeOK
<1>3. r \in RefundRecords /\ r.status = refund[p].status BY <1>1, <1>2 DEF RefundRecords
<1>4. /\ r.status = "succeeded" => payment[p].status = "refunded"
      /\ r.status # "none" => Taken(p)
      /\ r.status \in OpenRefunds \cup {"manual_review"} => IsCancelled
  BY <1>3 DEF IInv, Safe, RefundRecordsTrue, Taken
<1> QED BY <1>2, <1>3, <1>4, RefundRestStep DEF LeaseExpires, RetryFallsDue

(* A crash forgets what the workers relied on, and nothing else.           *)
LEMMA CrashStep ==
  ASSUME IInv, Crash
  PROVE  IInv' /\ MoneyStep
<1>1. run' \in [Workers -> Runs] /\ \A w \in Workers : run'[w].at = "idle"
  BY DEF Crash, Idle, Runs, Labels, LinkStatuses
<1>2. crashes' \in Nat BY DEF Crash, IInv, Safe, TypeOK
<1>3. Safe'
  BY <1>1, <1>2 DEF Crash, IInv, Safe, TypeOK, LedgerMatches, ChargedOnce,
                    RefundRecordsTrue, AwardedOnce, IsLive, IsCancelled, ledger
<1>4. MoneyStep BY <1>3, MoneySame DEF Crash, ledger
<1>5. RunsTrue' /\ LinkedOnce' /\ LinkAfterPayment'
  BY <1>1, FreeTrue DEF Crash, IInv, RunsTrue, LinkedOnce, LinkAfterPayment, ledger
<1> QED BY <1>3, <1>4, <1>5 DEF IInv

-----------------------------------------------------------------------------
(* Steps that write a payment.                                             *)

LEMMA WorkerStep ==
  ASSUME IInv, Safe', MoneyStep, IsCancelled => IsCancelled',
         NEW w \in Workers, OnlyRun(w), run'[w].at # "link", RunTrue(w)',
         \A p \in Payments : Onward(p) /\ (Unlinked(p) => Unlinked(p)')
  PROVE  IInv' /\ MoneyStep
<1>1. ASSUME NEW v \in Workers, v # w PROVE RunTrue(v)'
  <2>1. run[v].at = "link" => Unlinked(run[v].p)'
    BY <1>1 DEF OnlyRun, IInv, RunsTrue, RunTrue, Unbound
  <2> QED BY <1>1, <2>1, OthersTrue DEF IInv, OnlyRun
<1>2. RunsTrue' BY <1>1 DEF RunsTrue
<1>3. LinkedOnce' BY LinkedKept DEF IInv, Safe, TypeOK, OnlyRun
<1>4. LinkAfterPayment' BY DEF IInv, LinkAfterPayment, Onward
<1> QED BY <1>2, <1>3, <1>4 DEF IInv

(* A payment that is not taken is saved as failed.                         *)
LEMMA FailedFacts ==
  ASSUME IInv, NEW p \in Payments, payment[p].status \in {"pending", "failed"},
         SetStatus(p, "failed"), run' \in [Workers -> Runs],
         UNCHANGED <<order, credits, awards, refund, link, counters>>
  PROVE  /\ Safe' /\ MoneyStep
         /\ \A q \in Payments : Onward(q) /\ (Unlinked(q) => Unlinked(q)')
<1>1. /\ payment \in [Payments -> PaymentRecords]
      /\ payment' = [payment EXCEPT ![p].status = "failed"]
  BY DEF IInv, Safe, TypeOK, SetStatus
<1>2. /\ payment'[p].status = "failed"
      /\ \A q \in Payments \ {p} : payment'[q] = payment[q]
      /\ payment' \in [Payments -> PaymentRecords]
  BY <1>1 DEF PaymentRecords
<1>3. TypeOK' BY <1>2 DEF IInv, Safe, TypeOK, counters
<1>4. LedgerMatches' /\ ChargedOnce'
  BY <1>2 DEF IInv, Safe, LedgerMatches, ChargedOnce, IsLive
<1>5. RefundRecordsTrue' /\ AwardedOnce'
  BY <1>2 DEF IInv, Safe, RefundRecordsTrue, AwardedOnce, IsCancelled
<1>6. Safe' BY <1>3, <1>4, <1>5 DEF Safe
<1>7. MoneyStep BY <1>2, <1>6, MoneySame
<1> QED BY <1>2, <1>6, <1>7 DEF Onward, Unlinked, Taken

(* A failed attempt to pay reaches the record of a pending payment.        *)
LEMMA WebhookFailedStep ==
  ASSUME IInv, NEW p \in Payments, WebhookFailed(p)
  PROVE  IInv' /\ MoneyStep
<1>1. run' \in [Workers -> Runs] BY DEF IInv, Safe, TypeOK, WebhookFailed
<1> QED BY <1>1, FailedFacts, RestStep DEF WebhookFailed

(* Giving a payment up, unless somebody else has written it.               *)
LEMMA FailIfPendingStep ==
  ASSUME IInv, NEW w \in Workers, run[w].p \in Payments, FailIfPending(w)
  PROVE  IInv' /\ MoneyStep
<1>1. OnlyRun(w) /\ run'[w].at = "idle"
  BY EndMove DEF IInv, Safe, TypeOK, FailIfPending
<1>2. CASE payment[run[w].p].status = "pending"
  BY <1>1, <1>2, FreeTrue, FailedFacts, WorkerStep DEF FailIfPending, OnlyRun, IsCancelled
<1>3. CASE payment[run[w].p].status # "pending"
  BY <1>1, <1>3, FreeTrue, RunStep DEF FailIfPending, ledger
<1> QED BY <1>2, <1>3

(* Both places where a payment is given up.                                *)
LEMMA ReleaseStep ==
  ASSUME IInv, NEW w \in Workers, Release(w) \/ SettleFail(w)
  PROVE  IInv' /\ MoneyStep
<1>1. run[w].p \in Payments
  BY DEF IInv, RunsTrue, RunTrue, Unbound, Release, SettleFail
<1> QED BY <1>1, FailIfPendingStep DEF Release, SettleFail

(* A record of a payment is created where none was.                        *)
LEMMA CreatedFacts ==
  ASSUME IInv, NEW p \in Payments, payment[p].status = "none",
         \A q \in Payments : ~IsLive(q),
         NEW r \in PaymentRecords, r.status \in {"pending", "paid"},
         payment' = [payment EXCEPT ![p] = r], run' \in [Workers -> Runs],
         UNCHANGED <<order, credits, awards, refund, link, counters>>
  PROVE  /\ Safe' /\ MoneyStep
         /\ \A q \in Payments : Onward(q) /\ (Unlinked(q) => Unlinked(q)')
<1>1. payment \in [Payments -> PaymentRecords] BY DEF IInv, Safe, TypeOK
<1>2. /\ payment'[p] = r
      /\ \A q \in Payments \ {p} : payment'[q] = payment[q]
      /\ payment' \in [Payments -> PaymentRecords]
  BY <1>1
<1>3. TypeOK' BY <1>2 DEF IInv, Safe, TypeOK, counters
<1>4. LedgerMatches' /\ ChargedOnce'
  BY <1>2 DEF IInv, Safe, LedgerMatches, ChargedOnce, IsLive
<1>5. RefundRecordsTrue' /\ AwardedOnce'
  BY <1>2 DEF IInv, Safe, RefundRecordsTrue, AwardedOnce, IsCancelled
<1>6. Safe' BY <1>3, <1>4, <1>5 DEF Safe
<1>7. MoneyStep
  <2>1. CASE r.status = "paid" BY <1>2, <1>6, <2>1, MoneyOne
  <2>2. CASE r.status = "pending" BY <1>2, <1>6, <2>2, MoneySame
  <2> QED BY <2>1, <2>2
<1> QED BY <1>2, <1>6, <1>7 DEF Onward, Unlinked, Taken

(* Paying by wallet, or the abort.                                         *)
LEMMA ChargeStep ==
  ASSUME IInv, NEW w \in Workers, Charge(w)
  PROVE  IInv' /\ MoneyStep
<1>1. OnlyRun(w) /\ run'[w].at = "idle"
  BY EndMove DEF IInv, Safe, TypeOK, Charge
<1>2. CASE UNCHANGED payment
  BY <1>1, <1>2, FreeTrue, RunStep DEF Charge, ledger
<1>3. CASE /\ MayCreate(w)
           /\ \E p \in Payments :
                /\ payment[p].status = "none"
                /\ payment' = [payment EXCEPT ![p] = [method |-> "wallet", status |-> "paid"]]
  <2>1. [method |-> "wallet", status |-> "paid"] \in PaymentRecords BY DEF PaymentRecords
  <2> QED BY <1>1, <1>3, <2>1, FreeTrue, CreatedFacts, WorkerStep
          DEF Charge, MayCreate, OnlyRun, IsCancelled
<1> QED BY <1>2, <1>3 DEF Charge

(* Reserving a QR payment, whose link is then the worker's own to create.  *)
LEMMA ReserveStep ==
  ASSUME IInv, NEW w \in Workers, Reserve(w)
  PROVE  IInv' /\ MoneyStep
<1>1. run \in [Workers -> Runs] BY DEF IInv, Safe, TypeOK
<1>2. CASE End(w) /\ UNCHANGED payment
  <2>1. OnlyRun(w) /\ run'[w].at = "idle" BY <1>1, <1>2, EndMove
  <2> QED BY <1>2, <2>1, FreeTrue, RunStep DEF Reserve, ledger
<1>3. ASSUME MayCreate(w), NEW p \in Payments, payment[p].status = "none",
             payment' = [payment EXCEPT ![p] = [method |-> "payos", status |-> "pending"]],
             Take(w, "link", p, "none")
      PROVE  IInv' /\ MoneyStep
  <2>1. OnlyRun(w) /\ run'[w].at = "link" /\ run'[w].p = p
    BY <1>1, <1>3, TakeMove DEF Labels, LinkStatuses
  <2>2. [method |-> "payos", status |-> "pending"] \in PaymentRecords BY DEF PaymentRecords
  <2>3. /\ Safe' /\ MoneyStep
        /\ \A q \in Payments : Onward(q) /\ (Unlinked(q) => Unlinked(q)')
    BY <1>3, <2>1, <2>2, CreatedFacts DEF Reserve, MayCreate, OnlyRun
  <2>4. Unlinked(p)' BY <1>3 DEF Unlinked, Reserve, IInv, Safe, TypeOK, LinkAfterPayment
  <2>5. ASSUME NEW v \in Workers, v # w PROVE RunTrue(v)'
    <3>1. run[v].at = "link" => Unlinked(run[v].p)'
      BY <2>1, <2>3, <2>5 DEF OnlyRun, IInv, RunsTrue, RunTrue, Unbound
    <3> QED BY <2>1, <2>3, <2>5, <3>1, OthersTrue DEF IInv, OnlyRun, Reserve, IsCancelled
  <2>6. RunTrue(w)' BY <2>1, <2>4 DEF RunTrue, Unbound, Settling, Refunding
  <2>7. ASSUME NEW v \in Workers, v # w, run[v].at = "link" PROVE run[v].p # p
    BY <1>3, <2>7 DEF IInv, RunsTrue, RunTrue, Unlinked
  <2>8. LinkedOnce' BY <2>1, <2>7 DEF LinkedOnce, OnlyRun, IInv
  <2>9. LinkAfterPayment' BY <2>3 DEF IInv, LinkAfterPayment, Onward
  <2> QED BY <2>3, <2>5, <2>6, <2>8, <2>9 DEF IInv, RunsTrue
<1> QED BY <1>2, <1>3 DEF Reserve

(* Creating the link, or saving the payment as failed.                     *)
LEMMA CreateLinkStep ==
  ASSUME IInv, NEW w \in Workers, CreateLink(w)
  PROVE  IInv' /\ MoneyStep
<1> DEFINE p == run[w].p
<1>1. run \in [Workers -> Runs] /\ p \in Payments /\ Unlinked(p)
  BY DEF IInv, Safe, TypeOK, RunsTrue, RunTrue, Unbound, CreateLink
<1>2. OnlyRun(w) /\ run'[w].at = "idle" BY <1>1, EndMove DEF CreateLink
<1>3. RunTrue(w)' BY <1>2, FreeTrue
<1>4. CASE UNCHANGED link
  <2>1. SetStatus(p, "failed") BY <1>1, <1>4 DEF CreateLink, Unlinked, IInv, Safe, TypeOK
  <2> QED BY <1>1, <1>2, <1>3, <1>4, <2>1, FailedFacts, WorkerStep
          DEF CreateLink, Unlinked, OnlyRun, IsCancelled
<1>5. CASE UNCHANGED payment /\ link' = [link EXCEPT ![p] = "open"]
  <2>1. Safe'
    BY <1>1, <1>2, <1>5 DEF CreateLink, IInv, Safe, TypeOK, LedgerMatches, ChargedOnce,
         RefundRecordsTrue, AwardedOnce, IsLive, IsCancelled, LinkStatuses, OnlyRun, counters
  <2>2. MoneyStep BY <1>5, <2>1, MoneySame DEF CreateLink
  <2>3. \A q \in Payments : Onward(q) /\ (q # p => (Unlinked(q) => Unlinked(q)'))
    BY <1>1, <1>5 DEF IInv, Safe, TypeOK, Onward, Unlinked, Taken
  <2>4. ASSUME NEW v \in Workers, v # w PROVE RunTrue(v)'
    <3>1. run'[v] = run[v] BY <1>2, <2>4 DEF OnlyRun
    <3>2. run[v].at = "link" => Unlinked(run[v].p)'
      BY <2>3, <2>4, <3>1 DEF CreateLink, IInv, RunsTrue, RunTrue, Unbound, LinkedOnce
    <3> QED BY <2>3, <3>1, <3>2, OthersTrue DEF CreateLink, IInv, IsCancelled
  <2>5. LinkedOnce' BY <1>1, <1>2, LinkedKept DEF IInv, OnlyRun
  <2>6. LinkAfterPayment' BY <2>3 DEF IInv, LinkAfterPayment, Onward
  <2> QED BY <1>3, <2>1, <2>2, <2>4, <2>5, <2>6 DEF IInv, RunsTrue
<1> QED BY <1>4, <1>5 DEF CreateLink

-----------------------------------------------------------------------------
(* Steps that record money.                                                *)

LEMMA RecordMoneyFacts ==
  ASSUME IInv, NEW p \in Payments, payment[p].status \in {"pending", "failed"},
         link[p] = "paid", RecordMoney(p), run' \in [Workers -> Runs],
         UNCHANGED <<order, awards, link, counters>>
  PROVE  /\ Safe' /\ MoneyStep /\ Taken(p)'
         /\ \A q \in Payments : Onward(q) /\ (Unlinked(q) => Unlinked(q)')
<1>1. /\ payment \in [Payments -> PaymentRecords]
      /\ credits \in [Payments -> Nat] /\ credits[p] = 0
      /\ refund \in [Payments -> RefundRecords] /\ refund[p].status = "none"
  BY DEF IInv, Safe, TypeOK, LedgerMatches, RefundRecordsTrue, RefundRecords, OpenRefunds
<1>2. CASE order.status = "discarded" \/ \E q \in Payments \ {p} : IsLive(q)
  <2> DEFINE r == [refund[p] EXCEPT !.status = "succeeded"]
  <2>1. /\ payment' = [payment EXCEPT ![p].status = "refunded"]
        /\ credits' = [credits EXCEPT ![p] = 1]
        /\ refund' = [refund EXCEPT ![p] = r]
    BY <1>1, <1>2 DEF RecordMoney, SetStatus
  <2>2. r \in RefundRecords /\ r.status = "succeeded" BY <1>1 DEF RefundRecords
  <2> HIDE DEF r
  <2>3. /\ payment'[p].status = "refunded"
        /\ \A q \in Payments \ {p} : payment'[q] = payment[q]
        /\ payment' \in [Payments -> PaymentRecords]
    BY <1>1, <2>1 DEF PaymentRecords
  <2>4. /\ credits' \in [Payments -> Nat] /\ credits'[p] = 1
        /\ \A q \in Payments \ {p} : credits'[q] = credits[q]
        /\ refund' \in [Payments -> RefundRecords] /\ refund'[p].status = "succeeded"
        /\ \A q \in Payments \ {p} : refund'[q] = refund[q]
    BY <1>1, <2>1, <2>2
  <2>5. TypeOK' BY <2>3, <2>4 DEF IInv, Safe, TypeOK, counters
  <2>6. LedgerMatches' /\ ChargedOnce'
    BY <2>3, <2>4 DEF IInv, Safe, LedgerMatches, ChargedOnce, IsLive
  <2>7. RefundRecordsTrue' /\ AwardedOnce'
    BY <2>3, <2>4 DEF IInv, Safe, RefundRecordsTrue, AwardedOnce, IsCancelled, OpenRefunds
  <2>8. Safe' BY <2>5, <2>6, <2>7 DEF Safe
  <2>9. MoneyStep BY <2>3, <2>8, MoneyOne
  <2> QED BY <2>3, <2>8, <2>9 DEF Onward, Unlinked, Taken
<1>3. CASE order.status # "discarded" /\ \A q \in Payments \ {p} : ~IsLive(q)
  <2>1. payment' = [payment EXCEPT ![p].status = "paid"] /\ UNCHANGED <<credits, refund>>
    BY <1>3 DEF RecordMoney, SetStatus
  <2>2. /\ payment'[p].status = "paid"
        /\ \A q \in Payments \ {p} : payment'[q] = payment[q]
        /\ payment' \in [Payments -> PaymentRecords]
    BY <1>1, <2>1 DEF PaymentRecords
  <2>3. TypeOK' BY <2>1, <2>2 DEF IInv, Safe, TypeOK, counters
  <2>4. LedgerMatches' /\ ChargedOnce'
    BY <1>3, <2>1, <2>2 DEF IInv, Safe, LedgerMatches, ChargedOnce, IsLive
  <2>5. RefundRecordsTrue' /\ AwardedOnce'
    BY <2>1, <2>2 DEF IInv, Safe, RefundRecordsTrue, AwardedOnce, IsCancelled
  <2>6. Safe' BY <2>3, <2>4, <2>5 DEF Safe
  <2>7. MoneyStep BY <2>2, <2>6, MoneyOne
  <2> QED BY <2>2, <2>6, <2>7 DEF Onward, Unlinked, Taken
<1> QED BY <1>2, <1>3

(* A webhook of success, however late and however often.                   *)
LEMMA WebhookPaidStep ==
  ASSUME IInv, NEW w \in Workers, NEW p \in Payments, WebhookPaid(w, p)
  PROVE  IInv' /\ MoneyStep
<1>1. run \in [Workers -> Runs] BY DEF IInv, Safe, TypeOK
<1>2. /\ OnlyRun(w) /\ run'[w].at # "link" /\ RunTrue(w)'
      /\ run' = run \/ run'[w].at = "after"
  <2>1. CASE Take(w, "after", p, "none")
    <3>1. OnlyRun(w) /\ run'[w].at = "after" /\ run'[w].p = p
      BY <1>1, <2>1, TakeMove DEF Labels, LinkStatuses
    <3> QED BY <3>1 DEF RunTrue, Unbound, Settling, Refunding
  <2>2. CASE UNCHANGED run
    <3>1. OnlyRun(w) /\ run'[w].at = "idle" BY <1>1, <2>2 DEF OnlyRun, WebhookPaid
    <3> QED BY <2>2, <3>1, FreeTrue
  <2> QED BY <2>1, <2>2 DEF WebhookPaid
<1>3. CASE payment[p].status \in {"pending", "failed"}
  BY <1>2, <1>3, RecordMoneyFacts, WorkerStep DEF WebhookPaid, OnlyRun, IsCancelled
<1>4. CASE payment[p].status \notin {"pending", "failed"}
  BY <1>2, <1>4, RunStep DEF WebhookPaid, ledger
<1> QED BY <1>3, <1>4

(* A reconciliation acts on the link it read, which is still true of a paid one. *)
LEMMA ReconcileStep ==
  ASSUME IInv, NEW w \in Workers, Reconcile(w)
  PROVE  IInv' /\ MoneyStep
<1> DEFINE p == run[w].p
<1>1. /\ run \in [Workers -> Runs] /\ p \in Payments
      /\ run[w].saw = "paid" => link[p] = "paid"
  BY DEF IInv, Safe, TypeOK, RunsTrue, RunTrue, Unbound, Reconcile
<1>2. OnlyRun(w) /\ run'[w].at # "link" /\ RunTrue(w)'
  <2>1. CASE Goto(w, "after")
    <3>1. OnlyRun(w) /\ run'[w].at = "after" /\ run'[w].p = p
      BY <1>1, <2>1, GotoMove DEF Labels
    <3> QED BY <1>1, <3>1 DEF RunTrue, Unbound, Settling, Refunding
  <2>2. CASE End(w) BY <1>1, <2>2, EndMove, FreeTrue
  <2> QED BY <2>1, <2>2 DEF Reconcile
<1>3. CASE payment[p].status \in {"pending", "failed"} /\ run[w].saw = "paid"
  <2>1. RecordMoney(p) BY <1>3 DEF Reconcile
  <2> QED BY <1>1, <1>2, <1>3, <2>1, RecordMoneyFacts, WorkerStep
          DEF Reconcile, OnlyRun, IsCancelled
<1>4. CASE payment[p].status = "pending" /\ run[w].saw = "cancelled"
  <2>1. SetStatus(p, "failed") /\ UNCHANGED <<credits, refund>> BY <1>4 DEF Reconcile
  <2> QED BY <1>1, <1>2, <1>4, <2>1, FailedFacts, WorkerStep
          DEF Reconcile, OnlyRun, IsCancelled
<1>5. CASE /\ ~(payment[p].status \in {"pending", "failed"} /\ run[w].saw = "paid")
           /\ ~(payment[p].status = "pending" /\ run[w].saw = "cancelled")
  <2>1. UNCHANGED <<payment, credits, refund>> BY <1>5 DEF Reconcile
  <2> QED BY <1>2, <2>1, RunStep DEF Reconcile, ledger
<1> QED BY <1>3, <1>4, <1>5

-----------------------------------------------------------------------------
(* Steps that cancel and settle.                                           *)

(* The provider is given what was taken and not given before.              *)
LEMMA AwardFacts ==
  ASSUME awards \in [Payments -> Nat], NEW policy, NEW status, AddAwards(policy, status)
  PROVE  /\ awards' \in [Payments -> Nat]
         /\ \A p \in Payments :
              \/ awards'[p] = awards[p]
              \/ awards[p] = 0 /\ awards'[p] = 1 /\ status[p] \in {"paid", "refunded"}
BY DEF AddAwards, Awarded

(* Settling lists what is left and compensates the provider.               *)
LEMMA ListPaymentsStep ==
  ASSUME IInv, NEW w \in Workers, ListPayments(w)
  PROVE  IInv' /\ MoneyStep
<1>1. run \in [Workers -> Runs] /\ IsCancelled /\ awards \in [Payments -> Nat]
  BY DEF IInv, Safe, TypeOK, RunsTrue, RunTrue, Settling, ListPayments
<1>2. UNCHANGED <<order, payment, credits, refund, link, counters>> BY DEF ListPayments
<1>3. OnlyRun(w) /\ run'[w].at # "link" /\ RunTrue(w)'
  <2>1. CASE End(w) BY <1>1, <2>1, EndMove, FreeTrue
  <2>2. ASSUME NEW p \in Payments, Take(w, "getLink", p, "none")
        PROVE  OnlyRun(w) /\ run'[w].at # "link" /\ RunTrue(w)'
    <3>1. OnlyRun(w) /\ run'[w].at = "getLink" /\ run'[w].p = p
      BY <1>1, <2>2, TakeMove DEF Labels, LinkStatuses
    <3> QED BY <1>1, <1>2, <3>1 DEF RunTrue, Unbound, Settling, Refunding, IsCancelled
  <2>3. ASSUME NEW p \in Payments, payment[p].status = "paid", Take(w, "ensure", p, "none")
        PROVE  OnlyRun(w) /\ run'[w].at # "link" /\ RunTrue(w)'
    <3>1. OnlyRun(w) /\ run'[w].at = "ensure" /\ run'[w].p = p
      BY <1>1, <2>3, TakeMove DEF Labels, LinkStatuses
    <3> QED BY <1>1, <1>2, <2>3, <3>1
            DEF RunTrue, Unbound, Settling, Refunding, IsCancelled, Taken
  <2> QED BY <2>1, <2>2, <2>3 DEF ListPayments
<1>4. /\ awards' \in [Payments -> Nat]
      /\ \A p \in Payments :
           \/ awards'[p] = awards[p]
           \/ awards[p] = 0 /\ awards'[p] = 1 /\ payment[p].status \in {"paid", "refunded"}
  BY <1>1, AwardFacts DEF ListPayments
<1>5. TypeOK' BY <1>2, <1>3, <1>4 DEF IInv, Safe, TypeOK, OnlyRun, counters
<1>6. AwardedOnce' BY <1>2, <1>4 DEF IInv, Safe, AwardedOnce
<1>7. Safe'
  BY <1>2, <1>5, <1>6 DEF IInv, Safe, LedgerMatches, ChargedOnce, RefundRecordsTrue,
                          IsLive, IsCancelled
<1>8. MoneyStep BY <1>2, <1>7, MoneySame
<1>9. \A p \in Payments : Onward(p) /\ (Unlinked(p) => Unlinked(p)')
  BY <1>2 DEF Onward, Unlinked, Taken
<1> QED BY <1>2, <1>3, <1>7, <1>8, <1>9, WorkerStep DEF IsCancelled

(* Money found on the link of a cancelled order.                           *)
LEMMA SettleMarkPaidStep ==
  ASSUME IInv, NEW w \in Workers, SettleMarkPaid(w)
  PROVE  IInv' /\ MoneyStep
<1> DEFINE p == run[w].p
<1>1. /\ run \in [Workers -> Runs] /\ p \in Payments /\ IsCancelled
      /\ link[p] = "paid" /\ awards \in [Payments -> Nat]
  BY DEF IInv, Safe, TypeOK, RunsTrue, RunTrue, Settling, Unbound, SettleMarkPaid
<1>2. CASE payment[p].status # "pending"
  <2>1. End(w) /\ UNCHANGED <<order, ledger, refund, link, counters>>
    BY <1>2 DEF SettleMarkPaid, ledger
  <2> QED BY <1>1, <2>1, EndMove, FreeTrue, RunStep
<1>3. CASE payment[p].status = "pending"
  <2>1. /\ UNCHANGED <<order, credits, refund, link, counters>>
        /\ payment' = [payment EXCEPT ![p].status = "paid"]
        /\ AddAwards(order.policy, [q \in Payments |-> payment'[q].status])
        /\ End(w) \/ Goto(w, "ensure")
    BY <1>3 DEF SettleMarkPaid, SetStatus
  <2>2. /\ payment'[p].status = "paid"
        /\ \A q \in Payments \ {p} : payment'[q] = payment[q]
        /\ payment' \in [Payments -> PaymentRecords]
    BY <1>1, <2>1 DEF PaymentRecords, IInv, Safe, TypeOK
  <2>3. /\ awards' \in [Payments -> Nat]
        /\ \A q \in Payments :
             \/ awards'[q] = awards[q]
             \/ awards[q] = 0 /\ awards'[q] = 1 /\ payment'[q].status \in {"paid", "refunded"}
    BY <1>1, <2>1, AwardFacts
  <2>4. OnlyRun(w) /\ run'[w].at # "link" /\ RunTrue(w)'
    <3>1. CASE End(w) BY <1>1, <3>1, EndMove, FreeTrue
    <3>2. CASE Goto(w, "ensure")
      <4>1. OnlyRun(w) /\ run'[w].at = "ensure" /\ run'[w].p = p
        BY <1>1, <3>2, GotoMove DEF Labels
      <4> QED BY <1>1, <2>1, <2>2, <4>1
              DEF RunTrue, Unbound, Settling, Refunding, IsCancelled, Taken
    <3> QED BY <2>1, <3>1, <3>2
  <2>5. TypeOK' BY <2>1, <2>2, <2>3, <2>4 DEF IInv, Safe, TypeOK, OnlyRun, counters
  <2>6. LedgerMatches' /\ ChargedOnce'
    BY <1>3, <2>1, <2>2 DEF IInv, Safe, LedgerMatches, ChargedOnce, IsLive
  <2>7. RefundRecordsTrue'
    BY <1>3, <2>1, <2>2 DEF IInv, Safe, RefundRecordsTrue, IsCancelled
  <2>8. AwardedOnce' BY <1>3, <2>2, <2>3 DEF IInv, Safe, AwardedOnce
  <2>9. Safe' BY <2>5, <2>6, <2>7, <2>8 DEF Safe
  <2>10. MoneyStep BY <1>1, <1>3, <2>1, <2>2, <2>9, MoneyOne
  <2>11. \A q \in Payments : Onward(q) /\ (Unlinked(q) => Unlinked(q)')
    BY <1>1, <1>3, <2>1, <2>2 DEF Onward, Unlinked, Taken
  <2> QED BY <2>1, <2>4, <2>9, <2>10, <2>11, WorkerStep DEF IsCancelled
<1> QED BY <1>2, <1>3

(* The refund credits a payment that is paid, and never one that is refunded. *)
LEMMA RefundToWalletStep ==
  ASSUME IInv, NEW w \in Workers, RefundToWallet(w)
  PROVE  IInv' /\ MoneyStep
<1> DEFINE p == run[w].p
<1>1. run \in [Workers -> Runs] /\ p \in Payments /\ IsCancelled /\ Taken(p)
  BY RefundingFacts DEF RefundToWallet, Refunding
<1>2. OnlyRun(w) /\ run'[w].at = "finish" /\ run'[w].p = p
  BY <1>1, GotoMove DEF RefundToWallet, Labels
<1>3. RunTrue(w)' <=> payment'[p].status = "refunded"
  BY <1>1, <1>2 DEF RefundToWallet, RunTrue, Unbound, Settling, Refunding, IsCancelled, Taken
<1>4. CASE payment[p].status # "paid"
  <2>1. UNCHANGED <<order, ledger, refund, link, counters>>
    BY <1>4 DEF RefundToWallet, ledger
  <2>2. payment'[p].status = "refunded" BY <1>1, <1>4, <2>1 DEF Taken, ledger
  <2> QED BY <1>2, <1>3, <2>1, <2>2, RunStep
<1>5. CASE payment[p].status = "paid"
  <2>1. credits[p] = 0 /\ credits \in [Payments -> Nat] BY <1>1, <1>5 DEF IInv, Safe, LedgerMatches, TypeOK
  <2>2. /\ UNCHANGED <<order, awards, refund, link, counters>>
        /\ payment' = [payment EXCEPT ![p].status = "refunded"]
        /\ credits' = [credits EXCEPT ![p] = 1]
    BY <1>5, <2>1 DEF RefundToWallet, SetStatus
  <2>3. /\ payment'[p].status = "refunded" /\ credits'[p] = 1
        /\ \A q \in Payments \ {p} : payment'[q] = payment[q] /\ credits'[q] = credits[q]
        /\ payment' \in [Payments -> PaymentRecords] /\ credits' \in [Payments -> Nat]
    BY <1>1, <2>1, <2>2 DEF PaymentRecords, IInv, Safe, TypeOK
  <2>4. TypeOK' BY <1>2, <2>2, <2>3 DEF IInv, Safe, TypeOK, OnlyRun, counters
  <2>5. LedgerMatches' /\ ChargedOnce'
    BY <2>2, <2>3 DEF IInv, Safe, LedgerMatches, ChargedOnce, IsLive
  <2>6. RefundRecordsTrue' /\ AwardedOnce'
    BY <2>2, <2>3 DEF IInv, Safe, RefundRecordsTrue, AwardedOnce, IsCancelled
  <2>7. Safe' BY <2>4, <2>5, <2>6 DEF Safe
  <2>8. MoneyStep BY <1>1, <1>5, <2>2, <2>3, <2>7, MoneyOne
  <2>9. \A q \in Payments : Onward(q) /\ (Unlinked(q) => Unlinked(q)')
    BY <1>5, <2>2, <2>3 DEF Onward, Unlinked, Taken
  <2> QED BY <1>2, <1>3, <2>2, <2>3, <2>7, <2>8, <2>9, WorkerStep DEF IsCancelled
<1> QED BY <1>4, <1>5

(* Cancelling returns the kept payment or leaves it for later.             *)
LEMMA CancelStep ==
  ASSUME IInv, NEW w \in Workers, Cancel(w)
  PROVE  IInv' /\ MoneyStep
<1>1. /\ run \in [Workers -> Runs] /\ payment \in [Payments -> PaymentRecords]
      /\ credits \in [Payments -> Nat] /\ awards \in [Payments -> Nat] /\ ~IsCancelled
  BY DEF IInv, Safe, TypeOK, Cancel, IsCancelled
<1>2. PICK policy \in Policies :
        /\ order' = Cancelled(policy)
        /\ payment' = [p \in Payments |-> IF p \in ReturnedAtOnce(policy)
                                          THEN [payment[p] EXCEPT !.status = "refunded"]
                                          ELSE payment[p]]
        /\ credits' = [p \in Payments |-> IF p \in ReturnedAtOnce(policy) /\ credits[p] = 0
                                          THEN 1 ELSE credits[p]]
        /\ AddAwards(policy, [p \in Payments |-> payment[p].status])
  BY DEF Cancel
<1> DEFINE R == ReturnedAtOnce(policy)
<1>3. R \subseteq Payments /\ \A p \in R : payment[p].status = "paid" /\ credits[p] = 0
  BY <1>1 DEF ReturnedAtOnce, IInv, Safe, LedgerMatches
<1>4. /\ IsCancelled' /\ order' \in Orders /\ UNCHANGED <<refund, link, counters>>
  BY <1>2 DEF Cancel, Cancelled, IsCancelled, Orders
<1> HIDE DEF R
<1>5. /\ payment' \in [Payments -> PaymentRecords] /\ credits' \in [Payments -> Nat]
      /\ \A p \in R : payment'[p].status = "refunded" /\ credits'[p] = 1
      /\ \A p \in Payments \ R : payment'[p] = payment[p] /\ credits'[p] = credits[p]
  BY <1>1, <1>2, <1>3 DEF PaymentRecords, R
<1>6. /\ awards' \in [Payments -> Nat]
      /\ \A p \in Payments :
           \/ awards'[p] = awards[p]
           \/ awards[p] = 0 /\ awards'[p] = 1 /\ payment[p].status \in {"paid", "refunded"}
  BY <1>1, <1>2, AwardFacts
<1>7. OnlyRun(w) /\ run'[w].at = "list"
  BY <1>1, TakeMove DEF Cancel, Labels, LinkStatuses
<1>8. TypeOK' BY <1>4, <1>5, <1>6, <1>7 DEF IInv, Safe, TypeOK, OnlyRun, counters
<1>9. LedgerMatches' /\ ChargedOnce'
  BY <1>3, <1>5 DEF IInv, Safe, LedgerMatches, ChargedOnce, IsLive
<1>10. RefundRecordsTrue' BY <1>3, <1>4, <1>5 DEF IInv, Safe, RefundRecordsTrue
<1>11. AwardedOnce' BY <1>3, <1>5, <1>6 DEF IInv, Safe, AwardedOnce
<1>12. Safe' BY <1>8, <1>9, <1>10, <1>11 DEF Safe
<1>13. MoneyStep
  <2> DEFINE m == [p \in Payments |-> MoneyOf(p)]
  <2>1. \A p \in Payments \ R : MoneyOf(p)' = MoneyOf(p)
    BY <1>5, <1>12, MoneyValue, MoneyValueNext DEF IInv, Safe
  <2>2. \A p \in R : MoneyOf(p) = "kept" /\ MoneyOf(p)' = "returned"
    BY <1>3, <1>5, <1>12, MoneyValue, MoneyValueNext DEF IInv, Safe
  <2>3. CASE R = {} BY <1>1, <1>4, <2>1, <2>3 DEF MoneyStep, Money!Next, Money!Cancel
  <2>4. CASE R # {}
    <3>1. PICK q \in R : TRUE BY <2>4
    <3>2. \A p \in Payments : m[p] = "kept" <=> p \in R
      <4>1. ASSUME NEW p \in Payments, MoneyOf(p) = "kept" PROVE p = q
        BY <1>3, <3>1, <4>1, MoneyValue DEF IInv, Safe, ChargedOnce, IsLive
      <4> QED BY <1>3, <2>2, <3>1, <4>1
    <3>3. m' = [p \in Payments |-> IF p \in Money!Kept THEN "returned" ELSE m[p]]
      BY <1>3, <2>1, <2>2, <3>2 DEF Money!Kept
    <3> QED BY <1>1, <1>4, <3>3 DEF MoneyStep, Money!Next, Money!Cancel
  <2> QED BY <2>3, <2>4
<1>14. \A p \in Payments : Onward(p) /\ (Unlinked(p) => Unlinked(p)')
  BY <1>3, <1>4, <1>5 DEF Onward, Unlinked, Taken
<1>15. RunTrue(w)' BY <1>4, <1>7 DEF RunTrue, Unbound, Settling, Refunding
<1> QED BY <1>4, <1>7, <1>12, <1>13, <1>14, <1>15, WorkerStep

-----------------------------------------------------------------------------
(* The theorems.                                                           *)

(* Nothing is paid, owed or under way at first.                            *)
LEMMA InitInv ==
  ASSUME Init
  PROVE  IInv /\ Money!Init
<1>1. TypeOK
  BY SettlementAssumption
     DEF Init, TypeOK, Orders, PaymentRecords, RefundRecords, LinkStatuses, Runs, Labels, Idle
<1>2. Safe
  BY <1>1 DEF Init, Safe, LedgerMatches, ChargedOnce, RefundRecordsTrue, AwardedOnce,
              IsLive, OpenRefunds
<1>3. RunsTrue /\ LinkedOnce /\ LinkAfterPayment
  BY DEF Init, Idle, RunsTrue, RunTrue, LinkedOnce, LinkAfterPayment, Unbound, Settling, Refunding
<1>4. Money!Init
  BY DEF Init, Money!Init, MoneyOf, IsCancelled
<1> QED BY <1>2, <1>3, <1>4 DEF IInv

(* Whoever moves, the invariant stays and the customer's money moves as    *)
(* promised.                                                               *)
LEMMA NextInv ==
  ASSUME IInv, [Next]_vars
  PROVE  IInv' /\ MoneyStep
<1>1. ASSUME NEW w \in Workers, Continue(w) PROVE IInv' /\ MoneyStep
  BY <1>1, ChargeStep, ReserveStep, CreateLinkStep, AfterMoneyStep, ReconcileStep,
     WithdrawStep, VerifyStep, ReleaseStep, ListPaymentsStep, SettleGetLinkStep,
     SettleMarkPaidStep, SettleCloseLinkStep, EnsureRefundStep, ClaimRefundStep,
     RefundToWalletStep, FinishRefundStep, RefundThrowsStep, RecordFailureStep,
     DecideRetryStep, ProcessRefundJobStep
     DEF Continue
<1>2. ASSUME NEW w \in Workers, Request(w) PROVE IInv' /\ MoneyStep
  BY <1>2, StartPaymentStep, DiscardStep, CancelStep, CancelAgainStep, WebhookPaidStep,
     StartReconcileStep, StartWithdrawStep, AdminRetryStep
     DEF Request
<1>3. ASSUME Environment PROVE IInv' /\ MoneyStep
  BY <1>3, GatewayStep, WebhookFailedStep, BackfillStep, TimePassesStep, CrashStep
     DEF Environment
<1>4. CASE UNCHANGED vars
  <2>1. UNCHANGED <<order, ledger, refund, link, run, counters>>
    BY <1>4 DEF vars, ledger, counters
  <2>2. Safe'
    BY <2>1 DEF IInv, Safe, TypeOK, LedgerMatches, ChargedOnce, RefundRecordsTrue,
                AwardedOnce, IsLive, IsCancelled, ledger, counters
  <2>3. MoneyStep BY <2>1, <2>2, MoneySame DEF ledger
  <2>4. \A p \in Payments : Onward(p) /\ (Unlinked(p) => Unlinked(p)')
    BY <2>1 DEF Onward, Unlinked, Taken, ledger
  <2> QED BY <2>1, <2>2, <2>3, <2>4, RestStep
<1>5. Handlers \subseteq Workers /\ Scanners \subseteq Workers BY DEF Workers
<1> QED BY <1>1, <1>2, <1>3, <1>4, <1>5, ScanStep DEF Next

(* The invariant holds in every reachable state.                           *)
LEMMA Invariance == Spec => []IInv
<1>1. Init => IInv BY InitInv
<1>2. IInv /\ [Next]_vars => IInv' BY NextInv
<1> QED BY <1>1, <1>2, PTL DEF Spec

(* Every record and every worker keeps the shape the code relies on.       *)
THEOREM TypeCorrect == Spec => []TypeOK
<1>1. IInv => TypeOK BY DEF IInv, Safe
<1> QED BY <1>1, Invariance, PTL

(* A payment has its one refund transaction exactly when it is marked      *)
(* refunded, however many workers settle and refund it at once.            *)
THEOREM LedgerCorrect == Spec => []LedgerMatches
<1>1. IInv => LedgerMatches BY DEF IInv, Safe
<1> QED BY <1>1, Invariance, PTL

(* At most one payment of the order is pending or paid, whatever PayOS     *)
(* delivers late.                                                          *)
THEOREM ChargedOnceCorrect == Spec => []ChargedOnce
<1>1. IInv => ChargedOnce BY DEF IInv, Safe
<1> QED BY <1>1, Invariance, PTL

(* A Refund record never claims what did not happen, whoever holds, loses  *)
(* or takes over its lease.                                                *)
THEOREM RefundRecordsCorrect == Spec => []RefundRecordsTrue
<1>1. IInv => RefundRecordsTrue BY DEF IInv, Safe
<1> QED BY <1>1, Invariance, PTL

(* The provider is never given the same deposit twice.                     *)
THEOREM AwardedOnceCorrect == Spec => []AwardedOnce
<1>1. IInv => AwardedOnce BY DEF IInv, Safe
<1> QED BY <1>1, Invariance, PTL

(* Payments, settlement and refunds together implement what Handigo        *)
(* promises a customer: see CustomerMoney.                                 *)
THEOREM CustomerMoneyCorrect == Spec => KeepsCustomerMoney
<1>1. Init => Money!Init BY InitInv
<1>2. IInv /\ [Next]_vars
        => [Money!Next]_<<~IsCancelled, [p \in Payments |-> MoneyOf(p)]>>
  BY NextInv DEF MoneyStep
<1> QED BY <1>1, <1>2, Invariance, PTL DEF Spec, KeepsCustomerMoney, Money!Spec, Money!wealth

-----------------------------------------------------------------------------
(* What CustomerMoney says of the payments of Settlement.                  *)

(* At most one payment of an order is kept, however many are made, paid    *)
(* late or refunded at the same time.                                      *)
THEOREM OneKeptCorrect == Spec => []Money!OneKept
<1>1. Money!Init => Money!OneKept BY DEF Money!Init, Money!OneKept, Money!Kept
<1>2. ASSUME Money!OneKept, [Money!Next]_<<~IsCancelled, [p \in Payments |-> MoneyOf(p)]>>
      PROVE  Money!OneKept'
  <2>1. ASSUME NEW p \in Payments, Money!Keep(p) PROVE Money!OneKept'
    BY <2>1 DEF Money!Keep, Money!OneKept, Money!Kept
  <2>2. ASSUME NEW p \in Payments, Money!Reject(p) \/ Money!Return(p) PROVE Money!OneKept'
    BY <1>2, <2>2 DEF Money!Reject, Money!Return, Money!OneKept, Money!Kept
  <2>3. CASE Money!Cancel BY <1>2, <2>3 DEF Money!Cancel, Money!OneKept, Money!Kept
  <2>4. CASE UNCHANGED <<~IsCancelled, [p \in Payments |-> MoneyOf(p)]>>
    BY <1>2, <2>4 DEF Money!OneKept, Money!Kept
  <2> QED BY <1>2, <2>1, <2>2, <2>3, <2>4 DEF Money!Next
<1> QED
  BY <1>1, <1>2, CustomerMoneyCorrect, PTL DEF KeepsCustomerMoney, Money!Spec, Money!wealth

(* Money that was returned never counts as kept again, and money that was  *)
(* kept goes back only when the order is cancelled.                        *)
THEOREM MoneyStaysCorrect == Spec => Money!MoneyStays
<1> DEFINE money == [p \in Payments |-> MoneyOf(p)]
           Stays == \A p \in Payments :
                       /\ money[p] = "returned" => money'[p] = "returned"
                       /\ money[p] = "kept" =>
                             money'[p] = "kept" \/ (money'[p] = "returned" /\ ~(~IsCancelled)')
<1>1. ASSUME Money!Next PROVE Stays
  <2>1. ASSUME NEW p \in Payments, Money!Keep(p) \/ Money!Reject(p) PROVE Stays
    <3>1. money[p] = "absent" /\ \A q \in Payments : q # p => money'[q] = money[q]
      BY <2>1 DEF Money!Keep, Money!Reject
    <3> HIDE DEF money
    <3> QED BY <3>1
  <2>2. ASSUME NEW p \in Payments, Money!Return(p) PROVE Stays BY <2>2 DEF Money!Return
  <2>3. CASE Money!Cancel BY <2>3 DEF Money!Cancel, Money!Kept
  <2> QED BY <1>1, <2>1, <2>2, <2>3 DEF Money!Next
<1> QED
  BY <1>1, CustomerMoneyCorrect, PTL
  DEF KeepsCustomerMoney, Money!Spec, Money!wealth, Money!MoneyStays

=============================================================================
