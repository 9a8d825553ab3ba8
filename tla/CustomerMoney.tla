---------------------------- MODULE CustomerMoney ----------------------------
(***************************************************************************)
(* What Handigo promises a customer about the money of one order, whatever *)
(* the handlers, the webhooks and the refund scans do behind it: at most   *)
(* one payment is kept for the order, a payment that is returned is        *)
(* returned once and for good, money that is kept goes back only when the  *)
(* order is cancelled, and no money disappears.                            *)
(***************************************************************************)

CONSTANT Payments  \* the payments the order can get

VARIABLES live,    \* the order is not cancelled
          money    \* what became of each payment

wealth == <<live, money>>

Kept == {p \in Payments : money[p] = "kept"}

Init == live = TRUE /\ money = [p \in Payments |-> "absent"]

(* Money arrives and is kept for the order; late money of a cancelled      *)
(* order too, until it is returned.                                        *)
Keep(p) ==
    /\ money[p] = "absent" /\ Kept = {}
    /\ money' = [money EXCEPT ![p] = "kept"]
    /\ UNCHANGED live

(* Money arrives that the order has no use for.                            *)
Reject(p) ==
    /\ money[p] = "absent"
    /\ money' = [money EXCEPT ![p] = "returned"]
    /\ UNCHANGED live

(* Cancelling returns the kept payment, or leaves it for later.            *)
Cancel ==
    /\ live
    /\ live' = FALSE
    /\ \/ UNCHANGED money
       \/ money' = [p \in Payments |-> IF p \in Kept THEN "returned" ELSE money[p]]

Return(p) ==
    /\ ~live
    /\ money[p] = "kept"
    /\ money' = [money EXCEPT ![p] = "returned"]
    /\ UNCHANGED live

Next == Cancel \/ \E p \in Payments : Keep(p) \/ Reject(p) \/ Return(p)

Spec == Init /\ [][Next]_wealth

-----------------------------------------------------------------------------
(* What follows from it.                                                   *)

(* Never is more than one payment kept for an order.                       *)
OneKept == \A p, q \in Kept : p = q

(* What was returned stays returned, and what was kept is kept unless it   *)
(* is returned for a cancelled order.                                      *)
MoneyStays ==
    [][\A p \in Payments :
          /\ money[p] = "returned" => money'[p] = "returned"
          /\ money[p] = "kept" => money'[p] = "kept" \/ (money'[p] = "returned" /\ ~live')]_wealth

=============================================================================
