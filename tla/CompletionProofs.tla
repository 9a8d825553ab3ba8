--------------------------- MODULE CompletionProofs ---------------------------
(***************************************************************************)
(* What is proved of Completion for every number of payments and           *)
(* revisions: the inductive invariant behind its safety properties.        *)
(***************************************************************************)
EXTENDS Completion, TLAPS

-----------------------------------------------------------------------------
(* The inductive invariant.                                                *)

(* An inspection starts with its deposit paid, and nothing but the deposit *)
(* is paid before the work is completed.                                   *)
OrderShape ==
    /\ order.inspection => order.paymentStatus # "unpaid" /\ order.paymentMethod # "cash"
    /\ ~order.inspection => order.paymentStatus # "partially_paid" /\ ~order.direct
    /\ order.inspection /\ order.status # "completed" =>
           order.paymentStatus = "partially_paid" /\ ~order.direct

(* What kind of record each payment is.                                    *)
PaymentShape ==
    \A p \in Payments :
        /\ payment[p].status = "none" => payment[p].type = "full" /\ payment[p].method = "cash"
        /\ payment[p].status # "none" =>
               payment[p].type = IF order.inspection THEN "remaining" ELSE "full"
        /\ payment[p].type = "remaining" =>
               order.status = "completed" /\ payment[p].method # "cash"
        /\ payment[p].status = "pending" => payment[p].method # "wallet"
        /\ link[p] # "none" => payment[p].method = "payos" /\ payment[p].status # "none"

(* A completed fixed-price order is paid, or somebody owes it in cash: no  *)
(* late QR can then become its payment.                                    *)
WorkBacked ==
    ~order.inspection /\ order.status = "completed" =>
        \E p \in Payments : /\ IsLive(p)
                            /\ payment[p].status = "paid" \/ payment[p].method = "cash"

Money == /\ PaidOnce /\ PaidIsBacked /\ EarnedMatchesPaid /\ RewardedOnce
         /\ RestOfFinalQuotation /\ QrMoneyMatches

IInv == TypeOK /\ OrderShape /\ PaymentShape /\ WorkBacked /\ Money

LEMMA InitIInv == ASSUME Init PROVE IInv
<1>1. 1 \in Payments BY CompletionAssumption DEF Payments
<1>2. PICK scheduled \in BOOLEAN, inspection \in BOOLEAN,
           method \in {"cash", "wallet", "bank"} :
        /\ inspection => method # "cash"
        /\ order = [inspection |-> inspection, scheduled |-> scheduled,
                     status |-> "accepted",
                     paymentStatus |-> IF inspection THEN "partially_paid"
                                       ELSE IF method = "cash" THEN "unpaid" ELSE "paid",
                     paymentMethod |-> method, revision |-> 0, direct |-> FALSE]
        /\ \A p \in Payments \ {1} : payment[p] = Absent /\ link[p] = "none"
        /\ payment[1] = IF inspection THEN Absent
                        ELSE IF method = "cash" THEN Full("cash", "pending")
                        ELSE Full(IF method = "bank" THEN "payos" ELSE "wallet", "paid")
        /\ link[1] = IF ~inspection /\ method = "bank" THEN "paid" ELSE "none"
  <2>1. /\ Absent.method = "cash" /\ Full("cash", "pending").method = "cash"
        /\ Full("payos", "paid").method = "payos" /\ Full("wallet", "paid").method = "wallet"
    BY DEF Full, Absent
  <2> QED BY <1>1, <2>1 DEF Init
<1>3. /\ payment = [p \in Payments |-> payment[p]]
      /\ link = [p \in Payments |-> link[p]]
      /\ settled = 0 /\ rewards = 0
      /\ earned = [p \in Payments |-> 0] /\ credits = [p \in Payments |-> 0]
  BY DEF Init
<1>4. \A p \in Payments : /\ payment[p] \in PaymentRecords
                          /\ link[p] \in {"none", "open", "paid", "closed"}
  BY <1>1, <1>2 DEF PaymentRecords, Absent, Full
<1>5. TypeOK BY <1>2, <1>3, <1>4 DEF TypeOK, Orders
<1>6. OrderShape BY <1>2 DEF OrderShape
<1>7. PaymentShape BY <1>1, <1>2 DEF PaymentShape, Absent, Full
<1>8. WorkBacked BY <1>2 DEF WorkBacked
<1>9. PaidOnce BY <1>2 DEF PaidOnce, IsLive, NoneLive, Absent
<1>10. PaidIsBacked BY <1>1, <1>2 DEF PaidIsBacked, Absent, Full
<1>11. EarnedMatchesPaid BY <1>1, <1>2, <1>3 DEF EarnedMatchesPaid, Absent, Full
<1>12. RewardedOnce BY <1>2, <1>3 DEF RewardedOnce
<1>13. RestOfFinalQuotation BY <1>1, <1>2 DEF RestOfFinalQuotation, Absent, Full
<1>14. QrMoneyMatches BY <1>1, <1>2, <1>3 DEF QrMoneyMatches, Absent, Full
<1> QED BY <1>5, <1>6, <1>7, <1>8, <1>9, <1>10, <1>11, <1>12, <1>13, <1>14 DEF IInv, Money

-----------------------------------------------------------------------------
(* Every step, one lemma per action.                                       *)

(* A payment that gets a status and a reference keeps its type.            *)
LEMMA MarkedType ==
  ASSUME TypeOK, NEW p \in Payments,
         NEW s \in {"none", "pending", "paid", "failed", "refunded"},
         NEW r \in {"none", "attempt", "payment"}
  PROVE  [payment EXCEPT ![p].status = s, ![p].reference = r] \in [Payments -> PaymentRecords]
<1>1. payment[p] \in PaymentRecords BY DEF TypeOK
<1>2. [payment[p] EXCEPT !.status = s, !.reference = r] \in PaymentRecords
  BY <1>1 DEF PaymentRecords
<1>3. [payment EXCEPT ![p].status = s, ![p].reference = r] =
        [payment EXCEPT ![p] = [payment[p] EXCEPT !.status = s, !.reference = r]]
  BY DEF TypeOK
<1> QED BY <1>2, <1>3 DEF TypeOK

LEMMA StartOrderStep ==
  ASSUME IInv, StartOrder
  PROVE  IInv'
<1>1. OrderShape'
  BY DEF IInv, TypeOK, Orders, OrderShape, StartOrder, income
<1>2. PaymentShape'
  BY DEF IInv, TypeOK, Orders, PaymentRecords, PaymentShape, StartOrder, income
<1>3. WorkBacked'
  BY DEF IInv, TypeOK, Orders, PaymentRecords, IsLive, WorkBacked,
         StartOrder, income
<1>4. PaidOnce'
  BY DEF IInv, Money, TypeOK, Orders, PaymentRecords, IsLive, NoneLive,
         PaidOnce, StartOrder, income
<1>5. PaidIsBacked'
  BY DEF IInv, Money, TypeOK, Orders, PaymentRecords, PaidIsBacked,
         StartOrder, income
<1>6. EarnedMatchesPaid'
  BY DEF IInv, Money, TypeOK, Orders, PaymentRecords,
         EarnedMatchesPaid, StartOrder, income
<1>7. RewardedOnce'
  BY DEF IInv, Money, TypeOK, Orders, RewardedOnce, StartOrder, income
<1>8. RestOfFinalQuotation'
  BY DEF IInv, Money, TypeOK, Orders, PaymentRecords, IsLive,
         RestOfFinalQuotation, StartOrder, income
<1>9. QrMoneyMatches'
  BY DEF IInv, Money, TypeOK, PaymentRecords, QrMoneyMatches, StartOrder
<1>10. TypeOK'
  <2>1. order' \in Orders
    BY DEF IInv, TypeOK, Orders, StartOrder
  <2>2. payment' \in [Payments -> PaymentRecords]
    BY DEF IInv, TypeOK, PaymentRecords, Orders, StartOrder
  <2>3. link' \in [Payments -> {"none", "open", "paid", "closed"}]
    BY DEF IInv, TypeOK, StartOrder
  <2>4. earned' \in [Payments -> 0 .. 1]
    BY DEF IInv, TypeOK, StartOrder, income
  <2>5. credits' \in [Payments -> 0 .. 1]
    BY DEF IInv, TypeOK, StartOrder
  <2>6. settled' \in 0 .. 1 /\ rewards' \in 0 .. 1
    BY <1>6, <1>7 DEF EarnedMatchesPaid, RewardedOnce
  <2> QED BY <2>1, <2>2, <2>3, <2>4, <2>5, <2>6 DEF TypeOK
<1> QED BY <1>1, <1>2, <1>3, <1>4, <1>5, <1>6, <1>7, <1>8, <1>9, <1>10 DEF IInv, Money

LEMMA SaveQuotationStep ==
  ASSUME IInv, SaveQuotation
  PROVE  IInv'
<1>1. OrderShape'
  BY DEF IInv, TypeOK, Orders, OrderShape, SaveQuotation, income, Quote
<1>2. PaymentShape'
  BY DEF IInv, TypeOK, Orders, PaymentRecords, PaymentShape,
         SaveQuotation, income, Quote
<1>3. WorkBacked'
  BY DEF IInv, TypeOK, Orders, PaymentRecords, IsLive, WorkBacked,
         SaveQuotation, income, Quote
<1>4. PaidOnce'
  BY DEF IInv, Money, TypeOK, Orders, PaymentRecords, IsLive, NoneLive,
         PaidOnce, SaveQuotation, income, Quote
<1>5. PaidIsBacked'
  BY DEF IInv, Money, TypeOK, Orders, PaymentRecords, PaidIsBacked,
         OrderShape, PaymentShape, SaveQuotation, income, Quote
<1>6. EarnedMatchesPaid'
  BY DEF IInv, Money, TypeOK, Orders, PaymentRecords,
         EarnedMatchesPaid, SaveQuotation, income, Quote
<1>7. RewardedOnce'
  BY DEF IInv, Money, TypeOK, Orders, RewardedOnce, SaveQuotation, income, Quote
<1>8. RestOfFinalQuotation'
  BY DEF IInv, Money, TypeOK, Orders, PaymentRecords, IsLive,
         RestOfFinalQuotation, OrderShape, PaymentShape, SaveQuotation,
         income, Quote
<1>9. QrMoneyMatches'
  BY DEF IInv, Money, TypeOK, PaymentRecords, QrMoneyMatches, SaveQuotation, Quote
<1>10. TypeOK'
  <2>0. order.revision + 1 \in Nat
    BY DEF IInv, TypeOK, Orders
  <2>1. order' \in Orders
    BY <2>0 DEF IInv, TypeOK, Orders, SaveQuotation, Quote
  <2>2. payment' \in [Payments -> PaymentRecords]
    BY DEF IInv, TypeOK, PaymentRecords, Orders, SaveQuotation, Quote
  <2>3. link' \in [Payments -> {"none", "open", "paid", "closed"}]
    BY DEF IInv, TypeOK, SaveQuotation, Quote
  <2>4. earned' \in [Payments -> 0 .. 1]
    BY DEF IInv, TypeOK, SaveQuotation, income, Quote
  <2>5. credits' \in [Payments -> 0 .. 1]
    BY DEF IInv, TypeOK, SaveQuotation, Quote
  <2>6. settled' \in 0 .. 1 /\ rewards' \in 0 .. 1
    BY <1>6, <1>7 DEF EarnedMatchesPaid, RewardedOnce
  <2> QED BY <2>1, <2>2, <2>3, <2>4, <2>5, <2>6 DEF TypeOK
<1> QED BY <1>1, <1>2, <1>3, <1>4, <1>5, <1>6, <1>7, <1>8, <1>9, <1>10 DEF IInv, Money

LEMMA CompleteOrderStep ==
  ASSUME IInv, CompleteOrder
  PROVE  IInv'
<1>1. OrderShape'
  BY DEF IInv, TypeOK, Orders, OrderShape, CompleteOrder, CashPayments
<1>2. PaymentShape'
  BY DEF IInv, TypeOK, Orders, PaymentRecords, PaymentShape,
         CompleteOrder, CashPayments
<1>3. WorkBacked'
  BY DEF IInv, TypeOK, Orders, PaymentRecords, IsLive, WorkBacked,
         OrderShape, PaymentShape, Money, PaidIsBacked, CompleteOrder,
         CashPayments, Unsettled, Rewards
<1>4. PaidOnce'
  BY DEF IInv, Money, TypeOK, Orders, PaymentRecords, IsLive, NoneLive,
         PaidOnce, CompleteOrder, CashPayments
<1>5. PaidIsBacked'
  BY DEF IInv, Money, TypeOK, Orders, PaymentRecords, PaidIsBacked,
         OrderShape, PaymentShape, CompleteOrder, CashPayments,
         Unsettled, Rewards
<1>6. EarnedMatchesPaid'
  BY DEF IInv, Money, TypeOK, Orders, PaymentRecords,
         EarnedMatchesPaid, OrderShape, PaymentShape, CompleteOrder,
         CashPayments, Unsettled, Rewards
<1>7. RewardedOnce'
  BY DEF IInv, Money, TypeOK, Orders, RewardedOnce, OrderShape,
         PaymentShape, PaymentRecords, PaidIsBacked, CompleteOrder,
         CashPayments, Unsettled, Rewards
<1>8. RestOfFinalQuotation'
  BY DEF IInv, Money, TypeOK, Orders, PaymentRecords, IsLive,
         RestOfFinalQuotation, CompleteOrder, CashPayments
<1>9. QrMoneyMatches'
  BY DEF IInv, Money, TypeOK, PaymentRecords, QrMoneyMatches,
         CompleteOrder, CashPayments
<1>10. TypeOK'
  <2>1. order' \in Orders
    BY DEF IInv, TypeOK, Orders, CompleteOrder
  <2>2. payment' \in [Payments -> PaymentRecords]
    BY DEF IInv, TypeOK, PaymentRecords, Orders, CompleteOrder, CashPayments
  <2>3. link' \in [Payments -> {"none", "open", "paid", "closed"}]
    BY DEF IInv, TypeOK, CompleteOrder
  <2>4. earned' \in [Payments -> 0 .. 1]
    BY DEF IInv, TypeOK, CompleteOrder, CashPayments
  <2>5. credits' \in [Payments -> 0 .. 1]
    BY DEF IInv, TypeOK, CompleteOrder, CashPayments
  <2>6. settled' \in 0 .. 1 /\ rewards' \in 0 .. 1
    BY <1>6, <1>7 DEF EarnedMatchesPaid, RewardedOnce
  <2> QED BY <2>1, <2>2, <2>3, <2>4, <2>5, <2>6 DEF TypeOK
<1> QED BY <1>1, <1>2, <1>3, <1>4, <1>5, <1>6, <1>7, <1>8, <1>9, <1>10 DEF IInv, Money

LEMMA ConfirmCashPaymentStep ==
  ASSUME IInv, NEW p \in Payments, ConfirmCashPayment(p)
  PROVE  IInv'
<1>1. OrderShape'
  BY DEF IInv, TypeOK, Orders, OrderShape, ConfirmCashPayment, CashPayments
<1>2. PaymentShape'
  BY DEF IInv, TypeOK, Orders, PaymentRecords, PaymentShape,
         ConfirmCashPayment, CashPayments
<1>3. WorkBacked'
  BY DEF IInv, TypeOK, Orders, PaymentRecords, IsLive, WorkBacked,
         ConfirmCashPayment, CashPayments
<1>4. PaidOnce'
  BY DEF IInv, Money, TypeOK, Orders, PaymentRecords, IsLive, NoneLive,
         PaidOnce, ConfirmCashPayment, CashPayments
<1>5. PaidIsBacked'
  BY DEF IInv, Money, TypeOK, Orders, PaymentRecords, PaidIsBacked,
         OrderShape, PaymentShape, ConfirmCashPayment, CashPayments,
         Unsettled, Rewards
<1>6. EarnedMatchesPaid'
  BY DEF IInv, Money, TypeOK, Orders, PaymentRecords,
         EarnedMatchesPaid, OrderShape, PaymentShape,
         ConfirmCashPayment, CashPayments, Unsettled, Rewards
<1>7. RewardedOnce'
  BY DEF IInv, Money, TypeOK, Orders, RewardedOnce, ConfirmCashPayment,
         CashPayments, Rewards
<1>8. RestOfFinalQuotation'
  BY DEF IInv, Money, TypeOK, Orders, PaymentRecords, IsLive,
         RestOfFinalQuotation, ConfirmCashPayment, CashPayments
<1>9. QrMoneyMatches'
  BY DEF IInv, Money, TypeOK, PaymentRecords, QrMoneyMatches,
         ConfirmCashPayment, CashPayments
<1>10. TypeOK'
  <2>1. order' \in Orders
    BY DEF IInv, TypeOK, Orders, ConfirmCashPayment
  <2>2. payment' \in [Payments -> PaymentRecords]
    BY DEF IInv, TypeOK, PaymentRecords, Orders, ConfirmCashPayment, CashPayments
  <2>3. link' \in [Payments -> {"none", "open", "paid", "closed"}]
    BY DEF IInv, TypeOK, ConfirmCashPayment
  <2>4. earned' \in [Payments -> 0 .. 1]
    BY DEF IInv, TypeOK, ConfirmCashPayment, CashPayments
  <2>5. credits' \in [Payments -> 0 .. 1]
    BY DEF IInv, TypeOK, ConfirmCashPayment, CashPayments
  <2>6. settled' \in 0 .. 1 /\ rewards' \in 0 .. 1
    BY <1>6, <1>7 DEF EarnedMatchesPaid, RewardedOnce
  <2> QED BY <2>1, <2>2, <2>3, <2>4, <2>5, <2>6 DEF TypeOK
<1> QED BY <1>1, <1>2, <1>3, <1>4, <1>5, <1>6, <1>7, <1>8, <1>9, <1>10 DEF IInv, Money

LEMMA PayByWalletStep ==
  ASSUME IInv, NEW p \in Payments, PayByWallet(p)
  PROVE  IInv'
<1>1. OrderShape'
  BY DEF IInv, TypeOK, Orders, OrderShape, PayByWallet, income,
         MayPayFull, Fresh, CashPayments, ConfirmedPayment, Full,
         IsFixedPriceWorkPayment
<1>2. PaymentShape'
  BY DEF IInv, TypeOK, Orders, PaymentRecords, PaymentShape,
         PayByWallet, income, MayPayFull, Fresh, CashPayments,
         ConfirmedPayment, Full, IsFixedPriceWorkPayment
<1>3. WorkBacked'
  BY DEF IInv, TypeOK, Orders, PaymentRecords, IsLive, WorkBacked,
         PayByWallet, income, MayPayFull, Fresh, CashPayments,
         ConfirmedPayment, Full, IsFixedPriceWorkPayment
<1>4. PaidOnce'
  BY DEF IInv, Money, TypeOK, Orders, PaymentRecords, IsLive, NoneLive,
         PaidOnce, OrderShape, PaymentShape, PaidIsBacked, PayByWallet,
         income, MayPayFull, Fresh, CashPayments, ConfirmedPayment,
         Full, IsFixedPriceWorkPayment
<1>5. PaidIsBacked'
  BY DEF IInv, Money, TypeOK, Orders, PaymentRecords, PaidIsBacked,
         PayByWallet, income, MayPayFull, Fresh, CashPayments,
         ConfirmedPayment, Full, IsFixedPriceWorkPayment
<1>6. EarnedMatchesPaid'
  BY DEF IInv, Money, TypeOK, OrderShape, PaymentShape, WorkBacked,
         PaidOnce, PaidIsBacked, EarnedMatchesPaid, RewardedOnce,
         RestOfFinalQuotation, QrMoneyMatches, Orders, PaymentRecords,
         IsLive, NoneLive, PayByWallet, income, MayPayFull, Fresh,
         CashPayments, ConfirmedPayment, Full, IsFixedPriceWorkPayment
<1>7. RewardedOnce'
  BY DEF IInv, Money, TypeOK, OrderShape, PaymentShape, WorkBacked,
         PaidOnce, PaidIsBacked, EarnedMatchesPaid, RewardedOnce,
         RestOfFinalQuotation, QrMoneyMatches, Orders, PaymentRecords,
         IsLive, NoneLive, PayByWallet, income, MayPayFull, Fresh,
         CashPayments, ConfirmedPayment, Full, IsFixedPriceWorkPayment
<1>8. RestOfFinalQuotation'
  BY DEF IInv, Money, TypeOK, Orders, PaymentRecords, IsLive,
         RestOfFinalQuotation, PayByWallet, income, MayPayFull, Fresh,
         CashPayments, ConfirmedPayment, Full, IsFixedPriceWorkPayment
<1>9. QrMoneyMatches'
  BY DEF IInv, Money, TypeOK, PaymentRecords, QrMoneyMatches,
         PayByWallet, MayPayFull, Fresh, CashPayments,
         ConfirmedPayment, Full, IsFixedPriceWorkPayment
<1>10. TypeOK'
  <2>1. order' \in Orders
    BY DEF IInv, TypeOK, Orders, PayByWallet, ConfirmedPayment, Full,
           IsFixedPriceWorkPayment
  <2>2. payment' \in [Payments -> PaymentRecords]
    BY DEF IInv, TypeOK, PaymentRecords, Orders, PayByWallet,
           MayPayFull, Fresh, CashPayments, ConfirmedPayment, Full,
           IsFixedPriceWorkPayment
  <2>3. link' \in [Payments -> {"none", "open", "paid", "closed"}]
    BY DEF IInv, TypeOK, PayByWallet, ConfirmedPayment, IsFixedPriceWorkPayment
  <2>4. earned' \in [Payments -> 0 .. 1]
    BY DEF IInv, TypeOK, PayByWallet, income, MayPayFull, Fresh,
           CashPayments, ConfirmedPayment, IsFixedPriceWorkPayment
  <2>5. credits' \in [Payments -> 0 .. 1]
    BY DEF IInv, TypeOK, PayByWallet, MayPayFull, Fresh,
           CashPayments, ConfirmedPayment, IsFixedPriceWorkPayment
  <2>6. settled' \in 0 .. 1 /\ rewards' \in 0 .. 1
    BY <1>6, <1>7 DEF EarnedMatchesPaid, RewardedOnce
  <2> QED BY <2>1, <2>2, <2>3, <2>4, <2>5, <2>6 DEF TypeOK
<1> QED BY <1>1, <1>2, <1>3, <1>4, <1>5, <1>6, <1>7, <1>8, <1>9, <1>10 DEF IInv, Money

LEMMA ReserveQrStep ==
  ASSUME IInv, NEW p \in Payments, ReserveQr(p)
  PROVE  IInv'
<1>1. OrderShape'
  BY DEF IInv, TypeOK, Orders, OrderShape, ReserveQr, income,
         MayPayFull, Fresh, CashPayments, ConfirmedPayment, Full,
         IsFixedPriceWorkPayment
<1>2. PaymentShape'
  BY DEF IInv, TypeOK, Orders, PaymentRecords, PaymentShape, ReserveQr,
         income, MayPayFull, Fresh, CashPayments, ConfirmedPayment,
         Full, IsFixedPriceWorkPayment
<1>3. WorkBacked'
  BY DEF IInv, TypeOK, Orders, PaymentRecords, IsLive, WorkBacked,
         ReserveQr, income, MayPayFull, Fresh, CashPayments,
         ConfirmedPayment, Full, IsFixedPriceWorkPayment
<1>4. PaidOnce'
  BY DEF IInv, Money, TypeOK, Orders, PaymentRecords, IsLive, NoneLive,
         PaidOnce, OrderShape, PaymentShape, PaidIsBacked, ReserveQr,
         income, MayPayFull, Fresh, CashPayments, ConfirmedPayment,
         Full, IsFixedPriceWorkPayment
<1>5. PaidIsBacked'
  BY DEF IInv, Money, TypeOK, Orders, PaymentRecords, PaidIsBacked,
         ReserveQr, income, MayPayFull, Fresh, CashPayments,
         ConfirmedPayment, Full, IsFixedPriceWorkPayment
<1>6. EarnedMatchesPaid'
  BY DEF IInv, Money, TypeOK, Orders, PaymentRecords,
         EarnedMatchesPaid, ReserveQr, income, MayPayFull, Fresh,
         CashPayments, ConfirmedPayment, Full, IsFixedPriceWorkPayment
<1>7. RewardedOnce'
  BY DEF IInv, Money, TypeOK, Orders, RewardedOnce, ReserveQr, income,
         MayPayFull, Fresh, CashPayments, ConfirmedPayment, Full,
         IsFixedPriceWorkPayment
<1>8. RestOfFinalQuotation'
  BY DEF IInv, Money, TypeOK, Orders, PaymentRecords, IsLive,
         RestOfFinalQuotation, ReserveQr, income, MayPayFull, Fresh,
         CashPayments, ConfirmedPayment, Full, IsFixedPriceWorkPayment
<1>9. QrMoneyMatches'
  BY DEF IInv, Money, TypeOK, PaymentRecords, QrMoneyMatches,
         ReserveQr, MayPayFull, Fresh, CashPayments, ConfirmedPayment,
         Full, IsFixedPriceWorkPayment
<1>10. TypeOK'
  <2>1. order' \in Orders
    BY DEF IInv, TypeOK, Orders, ReserveQr, ConfirmedPayment, Full,
           IsFixedPriceWorkPayment
  <2>2. payment' \in [Payments -> PaymentRecords]
    BY DEF IInv, TypeOK, PaymentRecords, Orders, ReserveQr,
           MayPayFull, Fresh, CashPayments, ConfirmedPayment, Full,
           IsFixedPriceWorkPayment
  <2>3. link' \in [Payments -> {"none", "open", "paid", "closed"}]
    BY DEF IInv, TypeOK, ReserveQr, ConfirmedPayment, IsFixedPriceWorkPayment
  <2>4. earned' \in [Payments -> 0 .. 1]
    BY DEF IInv, TypeOK, ReserveQr, income, MayPayFull, Fresh,
           CashPayments, ConfirmedPayment, IsFixedPriceWorkPayment
  <2>5. credits' \in [Payments -> 0 .. 1]
    BY DEF IInv, TypeOK, ReserveQr, MayPayFull, Fresh, CashPayments,
           ConfirmedPayment, IsFixedPriceWorkPayment
  <2>6. settled' \in 0 .. 1 /\ rewards' \in 0 .. 1
    BY <1>6, <1>7 DEF EarnedMatchesPaid, RewardedOnce
  <2> QED BY <2>1, <2>2, <2>3, <2>4, <2>5, <2>6 DEF TypeOK
<1> QED BY <1>1, <1>2, <1>3, <1>4, <1>5, <1>6, <1>7, <1>8, <1>9, <1>10 DEF IInv, Money

LEMMA ReserveCashStep ==
  ASSUME IInv, NEW p \in Payments, ReserveCash(p)
  PROVE  IInv'
<1>1. OrderShape'
  BY DEF IInv, TypeOK, Orders, OrderShape, ReserveCash, income, Fresh, Full
<1>2. PaymentShape'
  BY DEF IInv, TypeOK, Orders, PaymentRecords, PaymentShape,
         ReserveCash, income, Fresh, Full
<1>3. WorkBacked'
  BY DEF IInv, TypeOK, Orders, PaymentRecords, IsLive, WorkBacked,
         ReserveCash, income, Fresh, Full
<1>4. PaidOnce'
  BY DEF IInv, Money, TypeOK, Orders, PaymentRecords, IsLive, NoneLive,
         PaidOnce, ReserveCash, income, Fresh, Full
<1>5. PaidIsBacked'
  BY DEF IInv, Money, TypeOK, Orders, PaymentRecords, PaidIsBacked,
         ReserveCash, income, Fresh, Full
<1>6. EarnedMatchesPaid'
  BY DEF IInv, Money, TypeOK, Orders, PaymentRecords,
         EarnedMatchesPaid, ReserveCash, income, Fresh, Full
<1>7. RewardedOnce'
  BY DEF IInv, Money, TypeOK, Orders, RewardedOnce, ReserveCash,
         income, Fresh, Full
<1>8. RestOfFinalQuotation'
  BY DEF IInv, Money, TypeOK, Orders, PaymentRecords, IsLive,
         RestOfFinalQuotation, ReserveCash, income, Fresh, Full
<1>9. QrMoneyMatches'
  BY DEF IInv, Money, TypeOK, PaymentRecords, QrMoneyMatches,
         ReserveCash, Fresh, Full
<1>10. TypeOK'
  <2>1. order' \in Orders
    BY DEF IInv, TypeOK, Orders, ReserveCash, Full
  <2>2. payment' \in [Payments -> PaymentRecords]
    BY DEF IInv, TypeOK, PaymentRecords, Orders, ReserveCash, Fresh, Full
  <2>3. link' \in [Payments -> {"none", "open", "paid", "closed"}]
    BY DEF IInv, TypeOK, ReserveCash
  <2>4. earned' \in [Payments -> 0 .. 1]
    BY DEF IInv, TypeOK, ReserveCash, income, Fresh
  <2>5. credits' \in [Payments -> 0 .. 1]
    BY DEF IInv, TypeOK, ReserveCash, Fresh
  <2>6. settled' \in 0 .. 1 /\ rewards' \in 0 .. 1
    BY <1>6, <1>7 DEF EarnedMatchesPaid, RewardedOnce
  <2> QED BY <2>1, <2>2, <2>3, <2>4, <2>5, <2>6 DEF TypeOK
<1> QED BY <1>1, <1>2, <1>3, <1>4, <1>5, <1>6, <1>7, <1>8, <1>9, <1>10 DEF IInv, Money

LEMMA PayRestByWalletStep ==
  ASSUME IInv, NEW p \in Payments, PayRestByWallet(p)
  PROVE  IInv'
<1>1. OrderShape'
  BY DEF IInv, TypeOK, Orders, OrderShape, PayRestByWallet, MayPayRest,
         QuotationPayable, Fresh, Rest
<1>2. PaymentShape'
  BY DEF IInv, TypeOK, Orders, PaymentRecords, PaymentShape,
         PayRestByWallet, MayPayRest, QuotationPayable, Fresh, Rest
<1>3. WorkBacked'
  BY DEF IInv, TypeOK, Orders, PaymentRecords, IsLive, WorkBacked,
         PayRestByWallet, MayPayRest, QuotationPayable, Fresh, Rest
<1>4. PaidOnce'
  BY DEF IInv, Money, TypeOK, Orders, PaymentRecords, IsLive, NoneLive,
         PaidOnce, PayRestByWallet, MayPayRest, QuotationPayable,
         Fresh, Rest
<1>5. PaidIsBacked'
  BY DEF IInv, Money, TypeOK, Orders, PaymentRecords, PaidIsBacked,
         PayRestByWallet, MayPayRest, QuotationPayable, Fresh, Rest
<1>6. EarnedMatchesPaid'
  BY DEF IInv, Money, TypeOK, Orders, PaymentRecords,
         EarnedMatchesPaid, PayRestByWallet, MayPayRest,
         QuotationPayable, Fresh, Rest
<1>7. RewardedOnce'
  BY DEF IInv, Money, TypeOK, Orders, RewardedOnce, PayRestByWallet,
         MayPayRest, QuotationPayable, Fresh, Rest, Rewards
<1>8. RestOfFinalQuotation'
  BY DEF IInv, Money, TypeOK, Orders, PaymentRecords, IsLive,
         RestOfFinalQuotation, PayRestByWallet, MayPayRest,
         QuotationPayable, Fresh, Rest
<1>9. QrMoneyMatches'
  BY DEF IInv, Money, TypeOK, PaymentRecords, QrMoneyMatches,
         PayRestByWallet, MayPayRest, QuotationPayable, Fresh, Rest
<1>10. TypeOK'
  <2>1. order' \in Orders
    BY DEF IInv, TypeOK, Orders, PayRestByWallet, Rest
  <2>2. payment' \in [Payments -> PaymentRecords]
    BY DEF IInv, TypeOK, PaymentRecords, Orders, PayRestByWallet,
           MayPayRest, QuotationPayable, Fresh, Rest
  <2>3. link' \in [Payments -> {"none", "open", "paid", "closed"}]
    BY DEF IInv, TypeOK, PayRestByWallet
  <2>4. earned' \in [Payments -> 0 .. 1]
    BY DEF IInv, TypeOK, Money, EarnedMatchesPaid, PaymentShape,
           PayRestByWallet, MayPayRest, QuotationPayable, Fresh,
           Rest, Rewards
  <2>5. credits' \in [Payments -> 0 .. 1]
    BY DEF IInv, TypeOK, PayRestByWallet, MayPayRest, QuotationPayable, Fresh
  <2>6. settled' \in 0 .. 1 /\ rewards' \in 0 .. 1
    BY <1>6, <1>7 DEF EarnedMatchesPaid, RewardedOnce
  <2> QED BY <2>1, <2>2, <2>3, <2>4, <2>5, <2>6 DEF TypeOK
<1> QED BY <1>1, <1>2, <1>3, <1>4, <1>5, <1>6, <1>7, <1>8, <1>9, <1>10 DEF IInv, Money

LEMMA ReserveRestQrStep ==
  ASSUME IInv, NEW p \in Payments, ReserveRestQr(p)
  PROVE  IInv'
<1>1. OrderShape'
  BY DEF IInv, TypeOK, Orders, OrderShape, ReserveRestQr, income,
         MayPayRest, QuotationPayable, Fresh, Rest
<1>2. PaymentShape'
  BY DEF IInv, TypeOK, Orders, PaymentRecords, PaymentShape,
         ReserveRestQr, income, MayPayRest, QuotationPayable, Fresh,
         Rest
<1>3. WorkBacked'
  BY DEF IInv, TypeOK, Orders, PaymentRecords, IsLive, WorkBacked,
         ReserveRestQr, income, MayPayRest, QuotationPayable, Fresh,
         Rest
<1>4. PaidOnce'
  BY DEF IInv, Money, TypeOK, Orders, PaymentRecords, IsLive, NoneLive,
         PaidOnce, ReserveRestQr, income, MayPayRest, QuotationPayable,
         Fresh, Rest
<1>5. PaidIsBacked'
  BY DEF IInv, Money, TypeOK, Orders, PaymentRecords, PaidIsBacked,
         ReserveRestQr, income, MayPayRest, QuotationPayable, Fresh,
         Rest
<1>6. EarnedMatchesPaid'
  BY DEF IInv, Money, TypeOK, Orders, PaymentRecords,
         EarnedMatchesPaid, ReserveRestQr, income, MayPayRest,
         QuotationPayable, Fresh, Rest
<1>7. RewardedOnce'
  BY DEF IInv, Money, TypeOK, Orders, RewardedOnce, ReserveRestQr,
         income, MayPayRest, QuotationPayable, Fresh, Rest
<1>8. RestOfFinalQuotation'
  BY DEF IInv, Money, TypeOK, Orders, PaymentRecords, IsLive,
         RestOfFinalQuotation, ReserveRestQr, income, MayPayRest,
         QuotationPayable, Fresh, Rest
<1>9. QrMoneyMatches'
  BY DEF IInv, Money, TypeOK, PaymentRecords, QrMoneyMatches,
         ReserveRestQr, MayPayRest, QuotationPayable, Fresh, Rest
<1>10. TypeOK'
  <2>1. order' \in Orders
    BY DEF IInv, TypeOK, Orders, ReserveRestQr, Rest
  <2>2. payment' \in [Payments -> PaymentRecords]
    BY DEF IInv, TypeOK, PaymentRecords, Orders, ReserveRestQr,
           MayPayRest, QuotationPayable, Fresh, Rest
  <2>3. link' \in [Payments -> {"none", "open", "paid", "closed"}]
    BY DEF IInv, TypeOK, ReserveRestQr
  <2>4. earned' \in [Payments -> 0 .. 1]
    BY DEF IInv, TypeOK, ReserveRestQr, income, MayPayRest,
           QuotationPayable, Fresh, Rest
  <2>5. credits' \in [Payments -> 0 .. 1]
    BY DEF IInv, TypeOK, ReserveRestQr, MayPayRest, QuotationPayable, Fresh
  <2>6. settled' \in 0 .. 1 /\ rewards' \in 0 .. 1
    BY <1>6, <1>7 DEF EarnedMatchesPaid, RewardedOnce
  <2> QED BY <2>1, <2>2, <2>3, <2>4, <2>5, <2>6 DEF TypeOK
<1> QED BY <1>1, <1>2, <1>3, <1>4, <1>5, <1>6, <1>7, <1>8, <1>9, <1>10 DEF IInv, Money

LEMMA ConfirmQuotationPaymentStep ==
  ASSUME IInv, ConfirmQuotationPayment
  PROVE  IInv'
<1>1. OrderShape'
  BY DEF IInv, TypeOK, Orders, OrderShape, ConfirmQuotationPayment,
         income, ConfirmDirect
<1>2. PaymentShape'
  BY DEF IInv, TypeOK, Orders, PaymentRecords, PaymentShape,
         ConfirmQuotationPayment, income, ConfirmDirect
<1>3. WorkBacked'
  BY DEF IInv, TypeOK, Orders, PaymentRecords, IsLive, WorkBacked,
         ConfirmQuotationPayment, income, ConfirmDirect
<1>4. PaidOnce'
  BY DEF IInv, Money, TypeOK, Orders, PaymentRecords, IsLive, NoneLive,
         PaidOnce, OrderShape, PaymentShape, PaidIsBacked,
         ConfirmQuotationPayment, income, ConfirmDirect, Rewards
<1>5. PaidIsBacked'
  BY DEF IInv, Money, TypeOK, Orders, PaymentRecords, PaidIsBacked,
         ConfirmQuotationPayment, income, ConfirmDirect
<1>6. EarnedMatchesPaid'
  BY DEF IInv, Money, TypeOK, Orders, PaymentRecords,
         EarnedMatchesPaid, ConfirmQuotationPayment, income,
         ConfirmDirect
<1>7. RewardedOnce'
  BY DEF IInv, Money, TypeOK, Orders, RewardedOnce, OrderShape,
         PaymentShape, PaymentRecords, PaidIsBacked,
         ConfirmQuotationPayment, income, ConfirmDirect, Rewards
<1>8. RestOfFinalQuotation'
  BY DEF IInv, Money, TypeOK, Orders, PaymentRecords, IsLive,
         RestOfFinalQuotation, ConfirmQuotationPayment, income,
         ConfirmDirect
<1>9. QrMoneyMatches'
  BY DEF IInv, Money, TypeOK, PaymentRecords, QrMoneyMatches,
         ConfirmQuotationPayment, ConfirmDirect
<1>10. TypeOK'
  <2>1. order' \in Orders
    BY DEF IInv, TypeOK, Orders, ConfirmQuotationPayment, ConfirmDirect
  <2>2. payment' \in [Payments -> PaymentRecords]
    BY DEF IInv, TypeOK, PaymentRecords, Orders,
           ConfirmQuotationPayment, ConfirmDirect
  <2>3. link' \in [Payments -> {"none", "open", "paid", "closed"}]
    BY DEF IInv, TypeOK, ConfirmQuotationPayment, ConfirmDirect
  <2>4. earned' \in [Payments -> 0 .. 1]
    BY DEF IInv, TypeOK, ConfirmQuotationPayment, income, ConfirmDirect
  <2>5. credits' \in [Payments -> 0 .. 1]
    BY DEF IInv, TypeOK, ConfirmQuotationPayment, ConfirmDirect
  <2>6. settled' \in 0 .. 1 /\ rewards' \in 0 .. 1
    BY <1>6, <1>7 DEF EarnedMatchesPaid, RewardedOnce
  <2> QED BY <2>1, <2>2, <2>3, <2>4, <2>5, <2>6 DEF TypeOK
<1> QED BY <1>1, <1>2, <1>3, <1>4, <1>5, <1>6, <1>7, <1>8, <1>9, <1>10 DEF IInv, Money

LEMMA CreateLinkStep ==
  ASSUME IInv, NEW p \in Payments, CreateLink(p)
  PROVE  IInv'
<1>1. OrderShape'
  BY DEF IInv, TypeOK, Orders, OrderShape, CreateLink, income
<1>2. PaymentShape'
  BY DEF IInv, TypeOK, Orders, PaymentRecords, PaymentShape, CreateLink, income
<1>3. WorkBacked'
  BY DEF IInv, TypeOK, Orders, PaymentRecords, IsLive, WorkBacked,
         CreateLink, income
<1>4. PaidOnce'
  BY DEF IInv, Money, TypeOK, Orders, PaymentRecords, IsLive, NoneLive,
         PaidOnce, CreateLink, income
<1>5. PaidIsBacked'
  BY DEF IInv, Money, TypeOK, Orders, PaymentRecords, PaidIsBacked,
         CreateLink, income
<1>6. EarnedMatchesPaid'
  BY DEF IInv, Money, TypeOK, Orders, PaymentRecords,
         EarnedMatchesPaid, CreateLink, income
<1>7. RewardedOnce'
  BY DEF IInv, Money, TypeOK, Orders, RewardedOnce, CreateLink, income
<1>8. RestOfFinalQuotation'
  BY DEF IInv, Money, TypeOK, Orders, PaymentRecords, IsLive,
         RestOfFinalQuotation, CreateLink, income
<1>9. QrMoneyMatches'
  BY DEF IInv, Money, TypeOK, PaymentRecords, QrMoneyMatches, CreateLink
<1>10. TypeOK'
  <2>1. order' \in Orders
    BY DEF IInv, TypeOK, Orders, CreateLink
  <2>2. payment' \in [Payments -> PaymentRecords]
    BY DEF IInv, TypeOK, PaymentRecords, Orders, CreateLink
  <2>3. link' \in [Payments -> {"none", "open", "paid", "closed"}]
    BY DEF IInv, TypeOK, CreateLink
  <2>4. earned' \in [Payments -> 0 .. 1]
    BY DEF IInv, TypeOK, CreateLink, income
  <2>5. credits' \in [Payments -> 0 .. 1]
    BY DEF IInv, TypeOK, CreateLink
  <2>6. settled' \in 0 .. 1 /\ rewards' \in 0 .. 1
    BY <1>6, <1>7 DEF EarnedMatchesPaid, RewardedOnce
  <2> QED BY <2>1, <2>2, <2>3, <2>4, <2>5, <2>6 DEF TypeOK
<1> QED BY <1>1, <1>2, <1>3, <1>4, <1>5, <1>6, <1>7, <1>8, <1>9, <1>10 DEF IInv, Money

LEMMA LinkFailsStep ==
  ASSUME IInv, NEW p \in Payments, LinkFails(p)
  PROVE  IInv'
<1>1. OrderShape'
  BY DEF IInv, TypeOK, Orders, OrderShape, LinkFails, income
<1>2. PaymentShape'
  BY DEF IInv, TypeOK, Orders, PaymentRecords, PaymentShape, LinkFails, income
<1>3. WorkBacked'
  BY DEF IInv, TypeOK, Orders, PaymentRecords, IsLive, WorkBacked,
         LinkFails, income
<1>4. PaidOnce'
  BY DEF IInv, Money, TypeOK, Orders, PaymentRecords, IsLive, NoneLive,
         PaidOnce, LinkFails, income
<1>5. PaidIsBacked'
  BY DEF IInv, Money, TypeOK, Orders, PaymentRecords, PaidIsBacked,
         LinkFails, income
<1>6. EarnedMatchesPaid'
  BY DEF IInv, Money, TypeOK, Orders, PaymentRecords,
         EarnedMatchesPaid, LinkFails, income
<1>7. RewardedOnce'
  BY DEF IInv, Money, TypeOK, Orders, RewardedOnce, LinkFails, income
<1>8. RestOfFinalQuotation'
  BY DEF IInv, Money, TypeOK, Orders, PaymentRecords, IsLive,
         RestOfFinalQuotation, LinkFails, income
<1>9. QrMoneyMatches'
  BY DEF IInv, Money, TypeOK, PaymentRecords, QrMoneyMatches, LinkFails
<1>10. TypeOK'
  <2>1. order' \in Orders
    BY DEF IInv, TypeOK, Orders, LinkFails
  <2>2. payment' \in [Payments -> PaymentRecords]
    BY DEF IInv, TypeOK, PaymentRecords, Orders, LinkFails
  <2>3. link' \in [Payments -> {"none", "open", "paid", "closed"}]
    BY DEF IInv, TypeOK, LinkFails
  <2>4. earned' \in [Payments -> 0 .. 1]
    BY DEF IInv, TypeOK, LinkFails, income
  <2>5. credits' \in [Payments -> 0 .. 1]
    BY DEF IInv, TypeOK, LinkFails
  <2>6. settled' \in 0 .. 1 /\ rewards' \in 0 .. 1
    BY <1>6, <1>7 DEF EarnedMatchesPaid, RewardedOnce
  <2> QED BY <2>1, <2>2, <2>3, <2>4, <2>5, <2>6 DEF TypeOK
<1> QED BY <1>1, <1>2, <1>3, <1>4, <1>5, <1>6, <1>7, <1>8, <1>9, <1>10 DEF IInv, Money

LEMMA PayLinkStep ==
  ASSUME IInv, NEW p \in Payments, PayLink(p)
  PROVE  IInv'
<1>1. OrderShape'
  BY DEF IInv, TypeOK, Orders, OrderShape, PayLink, income
<1>2. PaymentShape'
  BY DEF IInv, TypeOK, Orders, PaymentRecords, PaymentShape, PayLink, income
<1>3. WorkBacked'
  BY DEF IInv, TypeOK, Orders, PaymentRecords, IsLive, WorkBacked, PayLink, income
<1>4. PaidOnce'
  BY DEF IInv, Money, TypeOK, Orders, PaymentRecords, IsLive, NoneLive,
         PaidOnce, PayLink, income
<1>5. PaidIsBacked'
  BY DEF IInv, Money, TypeOK, Orders, PaymentRecords, PaidIsBacked,
         PayLink, income
<1>6. EarnedMatchesPaid'
  BY DEF IInv, Money, TypeOK, Orders, PaymentRecords,
         EarnedMatchesPaid, PayLink, income
<1>7. RewardedOnce'
  BY DEF IInv, Money, TypeOK, Orders, RewardedOnce, PayLink, income
<1>8. RestOfFinalQuotation'
  BY DEF IInv, Money, TypeOK, Orders, PaymentRecords, IsLive,
         RestOfFinalQuotation, PayLink, income
<1>9. QrMoneyMatches'
  BY DEF IInv, Money, TypeOK, PaymentRecords, QrMoneyMatches, PayLink
<1>10. TypeOK'
  <2>1. order' \in Orders
    BY DEF IInv, TypeOK, Orders, PayLink
  <2>2. payment' \in [Payments -> PaymentRecords]
    BY DEF IInv, TypeOK, PaymentRecords, Orders, PayLink
  <2>3. link' \in [Payments -> {"none", "open", "paid", "closed"}]
    BY DEF IInv, TypeOK, PayLink
  <2>4. earned' \in [Payments -> 0 .. 1]
    BY DEF IInv, TypeOK, PayLink, income
  <2>5. credits' \in [Payments -> 0 .. 1]
    BY DEF IInv, TypeOK, PayLink
  <2>6. settled' \in 0 .. 1 /\ rewards' \in 0 .. 1
    BY <1>6, <1>7 DEF EarnedMatchesPaid, RewardedOnce
  <2> QED BY <2>1, <2>2, <2>3, <2>4, <2>5, <2>6 DEF TypeOK
<1> QED BY <1>1, <1>2, <1>3, <1>4, <1>5, <1>6, <1>7, <1>8, <1>9, <1>10 DEF IInv, Money

LEMMA CloseLinkStep ==
  ASSUME IInv, NEW p \in Payments, CloseLink(p)
  PROVE  IInv'
<1>1. OrderShape'
  BY DEF IInv, TypeOK, Orders, OrderShape, CloseLink, income
<1>2. PaymentShape'
  BY DEF IInv, TypeOK, Orders, PaymentRecords, PaymentShape, CloseLink, income
<1>3. WorkBacked'
  BY DEF IInv, TypeOK, Orders, PaymentRecords, IsLive, WorkBacked,
         CloseLink, income
<1>4. PaidOnce'
  BY DEF IInv, Money, TypeOK, Orders, PaymentRecords, IsLive, NoneLive,
         PaidOnce, CloseLink, income
<1>5. PaidIsBacked'
  BY DEF IInv, Money, TypeOK, Orders, PaymentRecords, PaidIsBacked,
         CloseLink, income
<1>6. EarnedMatchesPaid'
  BY DEF IInv, Money, TypeOK, Orders, PaymentRecords,
         EarnedMatchesPaid, CloseLink, income
<1>7. RewardedOnce'
  BY DEF IInv, Money, TypeOK, Orders, RewardedOnce, CloseLink, income
<1>8. RestOfFinalQuotation'
  BY DEF IInv, Money, TypeOK, Orders, PaymentRecords, IsLive,
         RestOfFinalQuotation, CloseLink, income
<1>9. QrMoneyMatches'
  BY DEF IInv, Money, TypeOK, PaymentRecords, QrMoneyMatches, CloseLink
<1>10. TypeOK'
  <2>1. order' \in Orders
    BY DEF IInv, TypeOK, Orders, CloseLink
  <2>2. payment' \in [Payments -> PaymentRecords]
    BY DEF IInv, TypeOK, PaymentRecords, Orders, CloseLink
  <2>3. link' \in [Payments -> {"none", "open", "paid", "closed"}]
    BY DEF IInv, TypeOK, CloseLink
  <2>4. earned' \in [Payments -> 0 .. 1]
    BY DEF IInv, TypeOK, CloseLink, income
  <2>5. credits' \in [Payments -> 0 .. 1]
    BY DEF IInv, TypeOK, CloseLink
  <2>6. settled' \in 0 .. 1 /\ rewards' \in 0 .. 1
    BY <1>6, <1>7 DEF EarnedMatchesPaid, RewardedOnce
  <2> QED BY <2>1, <2>2, <2>3, <2>4, <2>5, <2>6 DEF TypeOK
<1> QED BY <1>1, <1>2, <1>3, <1>4, <1>5, <1>6, <1>7, <1>8, <1>9, <1>10 DEF IInv, Money

LEMMA FailClosedStep ==
  ASSUME IInv, NEW p \in Payments, FailClosed(p)
  PROVE  IInv'
<1>1. OrderShape'
  BY DEF IInv, TypeOK, Orders, OrderShape, FailClosed, income
<1>2. PaymentShape'
  BY DEF IInv, TypeOK, Orders, PaymentRecords, PaymentShape, FailClosed, income
<1>3. WorkBacked'
  BY DEF IInv, TypeOK, Orders, PaymentRecords, IsLive, WorkBacked,
         OrderShape, PaymentShape, Money, PaidIsBacked, FailClosed,
         income
<1>4. PaidOnce'
  BY DEF IInv, Money, TypeOK, Orders, PaymentRecords, IsLive, NoneLive,
         PaidOnce, FailClosed, income
<1>5. PaidIsBacked'
  BY DEF IInv, Money, TypeOK, Orders, PaymentRecords, PaidIsBacked,
         FailClosed, income
<1>6. EarnedMatchesPaid'
  BY DEF IInv, Money, TypeOK, Orders, PaymentRecords,
         EarnedMatchesPaid, FailClosed, income
<1>7. RewardedOnce'
  BY DEF IInv, Money, TypeOK, Orders, RewardedOnce, FailClosed, income
<1>8. RestOfFinalQuotation'
  BY DEF IInv, Money, TypeOK, Orders, PaymentRecords, IsLive,
         RestOfFinalQuotation, FailClosed, income
<1>9. QrMoneyMatches'
  BY DEF IInv, Money, TypeOK, PaymentRecords, QrMoneyMatches, FailClosed
<1>10. TypeOK'
  <2>1. order' \in Orders
    BY DEF IInv, TypeOK, Orders, FailClosed
  <2>2. payment' \in [Payments -> PaymentRecords]
    BY DEF IInv, TypeOK, PaymentRecords, Orders, FailClosed
  <2>3. link' \in [Payments -> {"none", "open", "paid", "closed"}]
    BY DEF IInv, TypeOK, FailClosed
  <2>4. earned' \in [Payments -> 0 .. 1]
    BY DEF IInv, TypeOK, FailClosed, income
  <2>5. credits' \in [Payments -> 0 .. 1]
    BY DEF IInv, TypeOK, FailClosed
  <2>6. settled' \in 0 .. 1 /\ rewards' \in 0 .. 1
    BY <1>6, <1>7 DEF EarnedMatchesPaid, RewardedOnce
  <2> QED BY <2>1, <2>2, <2>3, <2>4, <2>5, <2>6 DEF TypeOK
<1> QED BY <1>1, <1>2, <1>3, <1>4, <1>5, <1>6, <1>7, <1>8, <1>9, <1>10 DEF IInv, Money

LEMMA WebhookFailedStep ==
  ASSUME IInv, NEW p \in Payments, WebhookFailed(p)
  PROVE  IInv'
<1>1. OrderShape'
  BY DEF IInv, TypeOK, Orders, OrderShape, WebhookFailed, income
<1>2. PaymentShape'
  BY DEF IInv, TypeOK, Orders, PaymentRecords, PaymentShape, WebhookFailed, income
<1>3. WorkBacked'
  BY DEF IInv, TypeOK, Orders, PaymentRecords, IsLive, WorkBacked,
         OrderShape, PaymentShape, Money, PaidIsBacked, WebhookFailed,
         income
<1>4. PaidOnce'
  BY DEF IInv, Money, TypeOK, Orders, PaymentRecords, IsLive, NoneLive,
         PaidOnce, WebhookFailed, income
<1>5. PaidIsBacked'
  BY DEF IInv, Money, TypeOK, Orders, PaymentRecords, PaidIsBacked,
         WebhookFailed, income
<1>6. EarnedMatchesPaid'
  BY DEF IInv, Money, TypeOK, Orders, PaymentRecords,
         EarnedMatchesPaid, WebhookFailed, income
<1>7. RewardedOnce'
  BY DEF IInv, Money, TypeOK, Orders, RewardedOnce, WebhookFailed, income
<1>8. RestOfFinalQuotation'
  BY DEF IInv, Money, TypeOK, Orders, PaymentRecords, IsLive,
         RestOfFinalQuotation, WebhookFailed, income
<1>9. QrMoneyMatches'
  BY DEF IInv, Money, TypeOK, PaymentRecords, QrMoneyMatches, WebhookFailed
<1>10. TypeOK'
  <2>1. order' \in Orders
    BY DEF IInv, TypeOK, Orders, WebhookFailed
  <2>2. payment' \in [Payments -> PaymentRecords]
    <3>1. PICK r \in {"none", "attempt"} :
            payment' = [payment EXCEPT ![p].status = "failed", ![p].reference = r]
      BY DEF WebhookFailed
    <3> QED BY <3>1, MarkedType DEF IInv
  <2>3. link' \in [Payments -> {"none", "open", "paid", "closed"}]
    BY DEF IInv, TypeOK, WebhookFailed
  <2>4. earned' \in [Payments -> 0 .. 1]
    BY DEF IInv, TypeOK, WebhookFailed, income
  <2>5. credits' \in [Payments -> 0 .. 1]
    BY DEF IInv, TypeOK, WebhookFailed
  <2>6. settled' \in 0 .. 1 /\ rewards' \in 0 .. 1
    BY <1>6, <1>7 DEF EarnedMatchesPaid, RewardedOnce
  <2> QED BY <2>1, <2>2, <2>3, <2>4, <2>5, <2>6 DEF TypeOK
<1> QED BY <1>1, <1>2, <1>3, <1>4, <1>5, <1>6, <1>7, <1>8, <1>9, <1>10 DEF IInv, Money

LEMMA RefundStep ==
  ASSUME IInv, NEW p \in Payments, payment[p].method = "payos", link[p] = "paid",
         UNCHANGED <<link, settled>>,
         payment[p].status \in {"pending", "failed"}, Replaced(p) \/ StaleQuotation(p),
         Refund(p)
  PROVE  IInv'
<1>1. OrderShape'
  BY DEF IInv, TypeOK, Orders, OrderShape, Refund, Replaced, StaleQuotation
<1>2. PaymentShape'
  BY DEF IInv, TypeOK, Orders, PaymentRecords, PaymentShape, Refund,
         Replaced, StaleQuotation
<1>3. WorkBacked'
  BY DEF IInv, TypeOK, Orders, PaymentRecords, IsLive, WorkBacked,
         Refund, Replaced, StaleQuotation
<1>4. PaidOnce'
  BY DEF IInv, Money, TypeOK, Orders, PaymentRecords, IsLive, NoneLive,
         PaidOnce, Refund, Replaced, StaleQuotation
<1>5. PaidIsBacked'
  BY DEF IInv, Money, TypeOK, Orders, PaymentRecords, PaidIsBacked,
         Refund, Replaced, StaleQuotation
<1>6. EarnedMatchesPaid'
  BY DEF IInv, Money, TypeOK, Orders, PaymentRecords,
         EarnedMatchesPaid, Refund, Replaced, StaleQuotation
<1>7. RewardedOnce'
  BY DEF IInv, Money, TypeOK, Orders, RewardedOnce, Refund, Replaced,
         StaleQuotation
<1>8. RestOfFinalQuotation'
  BY DEF IInv, Money, TypeOK, Orders, PaymentRecords, IsLive,
         RestOfFinalQuotation, Refund, Replaced, StaleQuotation
<1>9. QrMoneyMatches'
  BY DEF IInv, Money, TypeOK, PaymentRecords, QrMoneyMatches, Refund,
         Replaced, StaleQuotation
<1>10. TypeOK'
  <2>1. order' \in Orders
    BY DEF IInv, TypeOK, Orders, Refund, Replaced, StaleQuotation
  <2>2. payment' \in [Payments -> PaymentRecords]
    BY MarkedType DEF IInv, Refund
  <2>3. link' \in [Payments -> {"none", "open", "paid", "closed"}]
    BY DEF IInv, TypeOK, Refund, Replaced, StaleQuotation
  <2>4. earned' \in [Payments -> 0 .. 1]
    BY DEF IInv, TypeOK, Refund, Replaced, StaleQuotation
  <2>5. credits' \in [Payments -> 0 .. 1]
    BY DEF IInv, TypeOK, Money, QrMoneyMatches, PaymentShape, Refund,
           Replaced, StaleQuotation
  <2>6. settled' \in 0 .. 1 /\ rewards' \in 0 .. 1
    BY <1>6, <1>7 DEF EarnedMatchesPaid, RewardedOnce
  <2> QED BY <2>1, <2>2, <2>3, <2>4, <2>5, <2>6 DEF TypeOK
<1> QED BY <1>1, <1>2, <1>3, <1>4, <1>5, <1>6, <1>7, <1>8, <1>9, <1>10 DEF IInv, Money

LEMMA ApplyFullStep ==
  ASSUME IInv, NEW p \in Payments, payment[p].method = "payos", link[p] = "paid",
         UNCHANGED <<link, settled>>,
         payment[p].status \in {"pending", "failed"},
         ~Replaced(p), payment[p].type = "full", Apply(p)
  PROVE  IInv'
<1>1. OrderShape'
  BY DEF IInv, TypeOK, Orders, OrderShape, PaymentShape, Apply, Sync, Replaced
<1>2. PaymentShape'
  BY DEF IInv, TypeOK, Orders, PaymentRecords, PaymentShape, Apply, Sync, Replaced
<1>3. WorkBacked'
  BY DEF IInv, TypeOK, Orders, PaymentRecords, IsLive, WorkBacked,
         Apply, Sync, Replaced
<1>4. PaidOnce'
  BY DEF IInv, Money, TypeOK, Orders, PaymentRecords, IsLive, NoneLive,
         PaidOnce, Apply, Sync, Replaced
<1>5. PaidIsBacked'
  BY DEF IInv, Money, TypeOK, Orders, PaymentRecords, PaidIsBacked,
         OrderShape, PaymentShape, Apply, Sync, Replaced
<1>6. EarnedMatchesPaid'
  BY DEF IInv, Money, TypeOK, OrderShape, PaymentShape, WorkBacked,
         PaidOnce, PaidIsBacked, EarnedMatchesPaid, RewardedOnce,
         RestOfFinalQuotation, QrMoneyMatches, Orders, PaymentRecords,
         IsLive, NoneLive, Apply, Sync, Replaced
<1>7. RewardedOnce'
  BY DEF IInv, Money, TypeOK, OrderShape, PaymentShape, WorkBacked,
         PaidOnce, PaidIsBacked, EarnedMatchesPaid, RewardedOnce,
         RestOfFinalQuotation, QrMoneyMatches, Orders, PaymentRecords,
         IsLive, NoneLive, Apply, Sync, Replaced
<1>8. RestOfFinalQuotation'
  BY DEF IInv, Money, TypeOK, Orders, PaymentRecords, IsLive,
         RestOfFinalQuotation, Apply, Sync, Replaced
<1>9. QrMoneyMatches'
  BY DEF IInv, Money, TypeOK, PaymentRecords, QrMoneyMatches, Apply,
         Sync, Replaced
<1>10. TypeOK'
  <2>1. order' \in Orders
    BY DEF IInv, TypeOK, Orders, Apply, Sync, Replaced
  <2>2. payment' \in [Payments -> PaymentRecords]
    BY MarkedType DEF IInv, Apply
  <2>3. link' \in [Payments -> {"none", "open", "paid", "closed"}]
    BY DEF IInv, TypeOK, Apply, Sync, Replaced
  <2>4. earned' \in [Payments -> 0 .. 1]
    BY DEF IInv, TypeOK, Apply, Sync, Replaced
  <2>5. credits' \in [Payments -> 0 .. 1]
    BY DEF IInv, TypeOK, Apply, Sync, Replaced
  <2>6. settled' \in 0 .. 1 /\ rewards' \in 0 .. 1
    BY <1>6, <1>7 DEF EarnedMatchesPaid, RewardedOnce
  <2> QED BY <2>1, <2>2, <2>3, <2>4, <2>5, <2>6 DEF TypeOK
<1> QED BY <1>1, <1>2, <1>3, <1>4, <1>5, <1>6, <1>7, <1>8, <1>9, <1>10 DEF IInv, Money

LEMMA ApplyRestStep ==
  ASSUME IInv, NEW p \in Payments, payment[p].method = "payos", link[p] = "paid",
         UNCHANGED <<link, settled>>,
         payment[p].status \in {"pending", "failed"},
         ~Replaced(p), payment[p].type = "remaining", Apply(p)
  PROVE  IInv'
<1>0. /\ payment' = [payment EXCEPT ![p].status = "paid", ![p].reference = "payment"]
      /\ credits' = credits
      /\ QuotationPayable /\ payment[p].revision = order.revision
      /\ order' = [order EXCEPT !.paymentStatus = "paid", !.paymentMethod = "bank"]
      /\ earned' = [earned EXCEPT ![p] = IF earned[p] = 0 THEN 1 ELSE earned[p]]
      /\ rewards' = Rewards(order', payment')
  BY DEF Apply, Sync
<1>1. OrderShape'
  BY <1>0 DEF IInv, TypeOK, Orders, OrderShape, QuotationPayable, Replaced
<1>2. PaymentShape'
  BY <1>0 DEF IInv, TypeOK, Orders, PaymentRecords, PaymentShape,
              QuotationPayable, Replaced
<1>3. WorkBacked'
  BY <1>0 DEF IInv, TypeOK, Orders, PaymentRecords, IsLive,
              WorkBacked, QuotationPayable, Replaced
<1>4. PaidOnce'
  BY <1>0 DEF IInv, Money, TypeOK, Orders, PaymentRecords, IsLive,
              NoneLive, PaidOnce, QuotationPayable, Replaced
<1>5. PaidIsBacked'
  BY <1>0 DEF IInv, Money, TypeOK, Orders, PaymentRecords,
              PaidIsBacked, QuotationPayable, Replaced
<1>6. EarnedMatchesPaid'
  BY <1>0 DEF IInv, Money, TypeOK, Orders, PaymentRecords,
              EarnedMatchesPaid, QuotationPayable, Replaced
<1>7. RewardedOnce'
  BY <1>0 DEF IInv, Money, TypeOK, Orders, RewardedOnce, Rewards,
              QuotationPayable, Replaced
<1>8. RestOfFinalQuotation'
  BY <1>0 DEF IInv, Money, TypeOK, Orders, PaymentRecords, IsLive,
              RestOfFinalQuotation, QuotationPayable, Replaced
<1>9. QrMoneyMatches'
  BY <1>0 DEF IInv, Money, TypeOK, PaymentRecords, QrMoneyMatches,
              QuotationPayable, Replaced
<1>10. TypeOK'
  <2>1. order' \in Orders
    BY <1>0 DEF IInv, TypeOK, Orders, Replaced
  <2>2. payment' \in [Payments -> PaymentRecords]
    BY <1>0 DEF IInv, TypeOK, PaymentRecords, Orders, QuotationPayable, Replaced
  <2>3. link' \in [Payments -> {"none", "open", "paid", "closed"}]
    BY <1>0 DEF IInv, TypeOK, Replaced
  <2>4. earned' \in [Payments -> 0 .. 1]
    BY <1>0 DEF IInv, TypeOK, QuotationPayable, Replaced
  <2>5. credits' \in [Payments -> 0 .. 1]
    BY <1>0 DEF IInv, TypeOK, QuotationPayable, Replaced
  <2>6. settled' \in 0 .. 1 /\ rewards' \in 0 .. 1
    BY <1>6, <1>7 DEF EarnedMatchesPaid, RewardedOnce
  <2> QED BY <2>1, <2>2, <2>3, <2>4, <2>5, <2>6 DEF TypeOK
<1> QED BY <1>1, <1>2, <1>3, <1>4, <1>5, <1>6, <1>7, <1>8, <1>9, <1>10 DEF IInv, Money

LEMMA FullAlreadyStep ==
  ASSUME IInv, NEW p \in Payments, payment[p].method = "payos", link[p] = "paid",
         UNCHANGED <<link, settled>>,
         payment[p].type = "full", ReceivedAlready(p)
  PROVE  IInv'
<1>1. OrderShape'
  BY DEF IInv, TypeOK, Orders, OrderShape, PaymentShape, ReceivedAlready, Sync
<1>2. PaymentShape'
  BY DEF IInv, TypeOK, Orders, PaymentRecords, PaymentShape, ReceivedAlready, Sync
<1>3. WorkBacked'
  BY DEF IInv, TypeOK, Orders, PaymentRecords, IsLive, WorkBacked,
         ReceivedAlready, Sync
<1>4. PaidOnce'
  BY DEF IInv, Money, TypeOK, Orders, PaymentRecords, IsLive, NoneLive,
         PaidOnce, ReceivedAlready, Sync
<1>5. PaidIsBacked'
  BY DEF IInv, Money, TypeOK, Orders, PaymentRecords, PaidIsBacked,
         OrderShape, PaymentShape, ReceivedAlready, Sync
<1>6. EarnedMatchesPaid'
  BY DEF IInv, Money, TypeOK, OrderShape, PaymentShape, WorkBacked,
         PaidOnce, PaidIsBacked, EarnedMatchesPaid, RewardedOnce,
         RestOfFinalQuotation, QrMoneyMatches, Orders, PaymentRecords,
         IsLive, NoneLive, ReceivedAlready, Sync
<1>7. RewardedOnce'
  BY DEF IInv, Money, TypeOK, Orders, RewardedOnce, OrderShape,
         PaymentShape, PaymentRecords, PaidIsBacked, ReceivedAlready,
         Sync
<1>8. RestOfFinalQuotation'
  BY DEF IInv, Money, TypeOK, Orders, PaymentRecords, IsLive,
         RestOfFinalQuotation, ReceivedAlready, Sync
<1>9. QrMoneyMatches'
  BY DEF IInv, Money, TypeOK, PaymentRecords, QrMoneyMatches,
         ReceivedAlready, Sync
<1>10. TypeOK'
  <2>1. order' \in Orders
    BY DEF IInv, TypeOK, Orders, ReceivedAlready, Sync
  <2>2. payment' \in [Payments -> PaymentRecords]
    BY DEF IInv, TypeOK, PaymentRecords, Orders, ReceivedAlready, Sync
  <2>3. link' \in [Payments -> {"none", "open", "paid", "closed"}]
    BY DEF IInv, TypeOK, ReceivedAlready, Sync
  <2>4. earned' \in [Payments -> 0 .. 1]
    BY DEF IInv, TypeOK, ReceivedAlready, Sync
  <2>5. credits' \in [Payments -> 0 .. 1]
    BY DEF IInv, TypeOK, ReceivedAlready, Sync
  <2>6. settled' \in 0 .. 1 /\ rewards' \in 0 .. 1
    BY <1>6, <1>7 DEF EarnedMatchesPaid, RewardedOnce
  <2> QED BY <2>1, <2>2, <2>3, <2>4, <2>5, <2>6 DEF TypeOK
<1> QED BY <1>1, <1>2, <1>3, <1>4, <1>5, <1>6, <1>7, <1>8, <1>9, <1>10 DEF IInv, Money

LEMMA RestAlreadyStep ==
  ASSUME IInv, NEW p \in Payments, payment[p].method = "payos", link[p] = "paid",
         UNCHANGED <<link, settled>>,
         payment[p].type = "remaining", ReceivedAlready(p)
  PROVE  IInv'
<1>0. /\ payment' = payment /\ payment[p].status = "paid" /\ credits' = credits
      /\ QuotationPayable /\ payment[p].revision = order.revision
      /\ order' = [order EXCEPT !.paymentStatus = "paid", !.paymentMethod = "bank"]
      /\ earned' = [earned EXCEPT ![p] = IF earned[p] = 0 THEN 1 ELSE earned[p]]
      /\ rewards' = Rewards(order', payment')
  BY DEF ReceivedAlready, Sync
<1>1. OrderShape'
  BY <1>0 DEF IInv, TypeOK, Orders, OrderShape, QuotationPayable, Replaced
<1>2. PaymentShape'
  BY <1>0 DEF IInv, TypeOK, Orders, PaymentRecords, PaymentShape,
              QuotationPayable, Replaced
<1>3. WorkBacked'
  BY <1>0 DEF IInv, TypeOK, Orders, PaymentRecords, IsLive,
              WorkBacked, QuotationPayable, Replaced
<1>4. PaidOnce'
  BY <1>0 DEF IInv, Money, TypeOK, Orders, PaymentRecords, IsLive,
              NoneLive, PaidOnce, QuotationPayable, Replaced
<1>5. PaidIsBacked'
  BY <1>0 DEF IInv, Money, TypeOK, Orders, PaymentRecords,
              PaidIsBacked, QuotationPayable, Replaced
<1>6. EarnedMatchesPaid'
  BY <1>0 DEF IInv, Money, TypeOK, Orders, PaymentRecords,
              EarnedMatchesPaid, QuotationPayable, Replaced
<1>7. RewardedOnce'
  BY <1>0 DEF IInv, Money, TypeOK, Orders, RewardedOnce, Rewards,
              QuotationPayable, Replaced
<1>8. RestOfFinalQuotation'
  BY <1>0 DEF IInv, Money, TypeOK, Orders, PaymentRecords, IsLive,
              RestOfFinalQuotation, QuotationPayable, Replaced
<1>9. QrMoneyMatches'
  BY <1>0 DEF IInv, Money, TypeOK, PaymentRecords, QrMoneyMatches,
              QuotationPayable, Replaced
<1>10. TypeOK'
  <2>1. order' \in Orders
    BY <1>0 DEF IInv, TypeOK, Orders, Replaced
  <2>2. payment' \in [Payments -> PaymentRecords]
    BY <1>0 DEF IInv, TypeOK, PaymentRecords, Orders, QuotationPayable, Replaced
  <2>3. link' \in [Payments -> {"none", "open", "paid", "closed"}]
    BY <1>0 DEF IInv, TypeOK, Replaced
  <2>4. earned' \in [Payments -> 0 .. 1]
    BY <1>0 DEF IInv, TypeOK, QuotationPayable, Replaced
  <2>5. credits' \in [Payments -> 0 .. 1]
    BY <1>0 DEF IInv, TypeOK, QuotationPayable, Replaced
  <2>6. settled' \in 0 .. 1 /\ rewards' \in 0 .. 1
    BY <1>6, <1>7 DEF EarnedMatchesPaid, RewardedOnce
  <2> QED BY <2>1, <2>2, <2>3, <2>4, <2>5, <2>6 DEF TypeOK
<1> QED BY <1>1, <1>2, <1>3, <1>4, <1>5, <1>6, <1>7, <1>8, <1>9, <1>10 DEF IInv, Money

LEMMA ReceiveStep ==
  ASSUME IInv, NEW p \in Payments, payment[p].method = "payos", link[p] = "paid",
         UNCHANGED <<link, settled>>, Receive(p)
  PROVE  IInv'
<1>1. payment[p].status \in {"pending", "failed"} BY DEF Receive
<1>2. payment[p].type \in {"full", "remaining"} BY DEF IInv, TypeOK, PaymentRecords
<1>3. CASE Replaced(p) \/ StaleQuotation(p)
  <2>1. Refund(p) BY <1>3 DEF Receive
  <2> QED BY <1>1, <1>3, <2>1, RefundStep
<1>4. CASE ~(Replaced(p) \/ StaleQuotation(p))
  <2>1. Apply(p) BY <1>4 DEF Receive
  <2> QED BY <1>1, <1>2, <1>4, <2>1, ApplyFullStep, ApplyRestStep
<1> QED BY <1>3, <1>4

LEMMA WebhookPaidStep ==
  ASSUME IInv, NEW p \in Payments, WebhookPaid(p)
  PROVE  IInv'
<1>1. payment[p].type \in {"full", "remaining"} BY DEF IInv, TypeOK, PaymentRecords
<1>2. CASE Receive(p) BY <1>2, ReceiveStep DEF WebhookPaid
<1>3. CASE ReceivedAlready(p) BY <1>1, <1>3, FullAlreadyStep, RestAlreadyStep DEF WebhookPaid
<1> QED BY <1>2, <1>3 DEF WebhookPaid

LEMMA NextIInv == ASSUME IInv, [Next]_vars PROVE IInv'
<1>1. CASE StartOrder BY <1>1, StartOrderStep
<1>2. CASE SaveQuotation BY <1>2, SaveQuotationStep
<1>3. CASE CompleteOrder BY <1>3, CompleteOrderStep
<1>4. CASE ConfirmQuotationPayment BY <1>4, ConfirmQuotationPaymentStep
<1>5. ASSUME NEW p \in Payments,
             \/ ConfirmCashPayment(p)
             \/ PayByWallet(p) \/ ReserveQr(p) \/ ReserveCash(p)
             \/ PayRestByWallet(p) \/ ReserveRestQr(p)
      PROVE  IInv'
  BY <1>5, ConfirmCashPaymentStep, PayByWalletStep, ReserveQrStep, ReserveCashStep,
     PayRestByWalletStep, ReserveRestQrStep
<1>6. ASSUME NEW p \in Payments,
             \/ CreateLink(p) \/ LinkFails(p) \/ PayLink(p) \/ CloseLink(p)
             \/ FailClosed(p) \/ WebhookFailed(p)
      PROVE  IInv'
  BY <1>6, CreateLinkStep, LinkFailsStep, PayLinkStep, CloseLinkStep, FailClosedStep,
     WebhookFailedStep
<1>7. ASSUME NEW p \in Payments, WebhookPaid(p) PROVE IInv'
  BY <1>7, WebhookPaidStep
<1>8. ASSUME NEW p \in Payments, Reconcile(p) PROVE IInv'
  BY <1>8, ReceiveStep DEF Reconcile
<1>9. CASE UNCHANGED vars
  BY <1>9 DEF vars, income, IInv, Money, TypeOK, OrderShape, PaymentShape, WorkBacked,
     PaidOnce, PaidIsBacked, EarnedMatchesPaid, RewardedOnce, RestOfFinalQuotation,
     QrMoneyMatches, IsLive, NoneLive
<1> QED BY <1>1, <1>2, <1>3, <1>4, <1>5, <1>6, <1>7, <1>8, <1>9 DEF Next

(* The inductive invariant holds always.                                   *)
THEOREM CompletionInvariant == Spec => []IInv
<1>1. Init => IInv BY InitIInv
<1>2. IInv /\ [Next]_vars => IInv' BY NextIInv
<1> QED BY <1>1, <1>2, PTL DEF Spec

-----------------------------------------------------------------------------
(* The safety properties.                                                  *)

(* Every variable keeps its type: nothing is settled, earned, refunded or  *)
(* rewarded a second time.                                                 *)
THEOREM CompletionTypeCorrect == Spec => []TypeOK
<1>1. IInv => TypeOK BY DEF IInv, Money
<1> QED BY <1>1, CompletionInvariant, PTL

(* However wallet, QR, cash and direct payment interleave, the same thing  *)
(* is never paid, or owed in cash, twice.                                  *)
THEOREM PaidOnceCorrect == Spec => []PaidOnce
<1>1. IInv => PaidOnce BY DEF IInv, Money
<1> QED BY <1>1, CompletionInvariant, PTL

(* An order is marked paid exactly when a payment or the provider's        *)
(* confirmation backs it.                                                  *)
THEOREM PaidIsBackedCorrect == Spec => []PaidIsBacked
<1>1. IInv => PaidIsBacked BY DEF IInv, Money
<1> QED BY <1>1, CompletionInvariant, PTL

(* The provider earns what was paid and the customer gets his points once, *)
(* however completing, paying and confirming cash interleave.              *)
THEOREM SettledOnceCorrect == Spec => []SettledOnce
<1>1. IInv => SettledOnce BY DEF IInv, Money, SettledOnce
<1> QED BY <1>1, CompletionInvariant, PTL

(* The rest is never paid by another revision than the final one.          *)
THEOREM RestOfFinalQuotationCorrect == Spec => []RestOfFinalQuotation
<1>1. IInv => RestOfFinalQuotation BY DEF IInv, Money
<1> QED BY <1>1, CompletionInvariant, PTL

(* Money received at PayOS is kept or returned once, and no QR payment     *)
(* counts without it.                                                      *)
THEOREM QrMoneyMatchesCorrect == Spec => []QrMoneyMatches
<1>1. IInv => QrMoneyMatches BY DEF IInv, Money
<1> QED BY <1>1, CompletionInvariant, PTL
================================================================================
