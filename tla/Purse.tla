--------------------------------- MODULE Purse ---------------------------------
(***************************************************************************)
(* What Handigo promises a user about the money in his wallet, whatever    *)
(* webhooks, synchronizations, cancellations and reviews do behind it: a   *)
(* deposit counts once, after PayOS has received it, and for good; a       *)
(* withdrawal is taken from the balance once, and is either sent or given  *)
(* back; and nothing is taken that is not there.                           *)
(***************************************************************************)
EXTENDS Integers

CONSTANTS Deposits, Requests

VARIABLES balance,   \* what the user may spend
          money,     \* what became of each deposit
          wish       \* what became of each withdrawal

purse == <<balance, money, wish>>

Init ==
    /\ balance = 0
    /\ money = [d \in Deposits |-> "absent"]
    /\ wish = [q \in Requests |-> "none"]

(* The user pays, and PayOS has the money.                                 *)
Pay(d) ==
    /\ money[d] = "absent"
    /\ money' = [money EXCEPT ![d] = "received"]
    /\ UNCHANGED <<balance, wish>>

Credit(d) ==
    /\ money[d] = "received"
    /\ money' = [money EXCEPT ![d] = "credited"]
    /\ balance' = balance + 1
    /\ UNCHANGED wish

Withdraw(q) ==
    /\ wish[q] = "none" /\ balance > 0
    /\ wish' = [wish EXCEPT ![q] = "held"]
    /\ balance' = balance - 1
    /\ UNCHANGED money

Send(q) ==
    /\ wish[q] = "held"
    /\ wish' = [wish EXCEPT ![q] = "sent"]
    /\ UNCHANGED <<balance, money>>

GiveBack(q) ==
    /\ wish[q] = "held"
    /\ wish' = [wish EXCEPT ![q] = "given back"]
    /\ balance' = balance + 1
    /\ UNCHANGED money

(* An administrator corrects the balance.                                  *)
Correct(n) ==
    /\ balance + n >= 0
    /\ balance' = balance + n
    /\ UNCHANGED <<money, wish>>

Next ==
    \/ \E d \in Deposits : Pay(d) \/ Credit(d)
    \/ \E q \in Requests : Withdraw(q) \/ Send(q) \/ GiveBack(q)
    \/ \E n \in {-1, 1} : Correct(n)

Spec == Init /\ [][Next]_purse

-----------------------------------------------------------------------------
(* What follows from it.                                                   *)

(* What is credited, sent or given back stays so, and the balance is never *)
(* overdrawn.                                                              *)
SettledForGood ==
    [][/\ \A d \in Deposits : money[d] = "credited" => money'[d] = "credited"
       /\ \A q \in Requests : wish[q] \in {"sent", "given back"} => wish'[q] = wish[q]
       /\ balance' >= 0]_purse

================================================================================
