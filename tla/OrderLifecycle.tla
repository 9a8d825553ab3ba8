--------------------------- MODULE OrderLifecycle ---------------------------
(***************************************************************************)
(* What Handigo promises of an order, whatever the matching, the timers    *)
(* and the monitors do behind it: an order is paid before anybody takes    *)
(* it, exactly one provider holds it from then on, the holder changes only *)
(* by leaving before the work starts, work that has started is finished by *)
(* the provider who started it, and what is cancelled or completed stays   *)
(* so.  The states are those of the status field of order.model.ts, seen   *)
(* by the customer.                                                        *)
(***************************************************************************)

CONSTANTS Providers,  \* who may hold the order
          Nobody      \* the order has no holder

VARIABLES stage,      \* how far the order has come
          holder      \* the provider who holds it

lifecycle == <<stage, holder>>

Init == stage = "unpaid" /\ holder = Nobody

Pay == stage = "unpaid" /\ stage' = "waiting" /\ UNCHANGED holder

Take(p) == stage = "waiting" /\ stage' = "accepted" /\ holder' = p

Leave == stage = "accepted" /\ stage' = "waiting" /\ holder' = Nobody

Start == stage = "accepted" /\ stage' = "in_progress" /\ UNCHANGED holder

Complete == stage = "in_progress" /\ stage' = "completed" /\ UNCHANGED holder

Cancel ==
    /\ stage \in {"unpaid", "waiting", "accepted"}
    /\ stage' = "cancelled" /\ UNCHANGED holder

Next == Pay \/ (\E p \in Providers : Take(p)) \/ Leave \/ Start \/ Complete \/ Cancel

Spec == Init /\ [][Next]_lifecycle

-----------------------------------------------------------------------------
(* What follows from it.                                                   *)

(* An order has no holder before it is taken and one provider afterwards.  *)
HeldOnceTaken ==
    /\ stage \in {"unpaid", "waiting"} => holder = Nobody
    /\ stage \in {"accepted", "in_progress", "completed"} => holder \in Providers

(* Nobody takes an order before it is paid, no holder is replaced by       *)
(* another in one step or after work has started, work that has started is *)
(* not cancelled, and what is over does not change.                        *)
OrderAdvances ==
    [][/\ stage = "unpaid" => stage' \in {"unpaid", "waiting", "cancelled"}
       /\ holder # Nobody /\ holder' # holder => stage = "accepted" /\ holder' = Nobody
       /\ stage = "in_progress" => stage' \in {"in_progress", "completed"}
       /\ stage \in {"completed", "cancelled"} => UNCHANGED lifecycle]_lifecycle

=============================================================================
