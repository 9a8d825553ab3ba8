---------------------------- MODULE AssistedOrder ----------------------------
(***************************************************************************)
(* What Handigo promises a customer of the order that he asks its          *)
(* assistant for, whatever requests are repeated, interrupted or taken     *)
(* over behind it: every action is called at most once, of the repeated    *)
(* attempts to make the order one at most succeeds or is under way, a      *)
(* payment is called only once the order is made, and what the session     *)
(* says came of an action is so, is said once, and ends the action.        *)
(***************************************************************************)

CONSTANTS Bookings, Payments  \* the actions: attempts to make the order, and to pay for it

VARIABLES effect,    \* what the services did of each action
          decision   \* what the session says came of it

Actions == Bookings \cup Payments

promised == <<effect, decision>>

Stands(b) == effect[b] \in {"running", "written"}

Init ==
    /\ effect = [a \in Actions |-> "none"]
    /\ decision = [a \in Actions |-> "none"]

Book(b) ==
    /\ effect[b] = "none" /\ decision[b] = "none"
    /\ \A other \in Bookings : ~Stands(other)
    /\ effect' = [effect EXCEPT ![b] = "running"]
    /\ UNCHANGED decision

Pay(p) ==
    /\ effect[p] = "none" /\ decision[p] = "none"
    /\ \E b \in Bookings : effect[b] = "written"
    /\ effect' = [effect EXCEPT ![p] = "running"]
    /\ UNCHANGED decision

Land(a) ==
    /\ effect[a] = "running"
    /\ \E at \in {"written", "failed"} : effect' = [effect EXCEPT ![a] = at]
    /\ UNCHANGED decision

(* A payment fails later or is refunded.                                   *)
Undo(p) ==
    /\ effect[p] = "written"
    /\ effect' = [effect EXCEPT ![p] = "undone"]
    /\ UNCHANGED decision

(* A success of any payment of the order counts for a payment.             *)
Succeeded(a) ==
    \E b \in (IF a \in Bookings THEN {a} ELSE Payments) : effect[b] \in {"written", "undone"}

(* The session says of some actions what came of them.                     *)
Say ==
    /\ decision' \in [Actions -> {"none", "succeeded", "refused"}]
    /\ \A a \in Actions : decision'[a] # decision[a] =>
          /\ decision[a] = "none"
          /\ \/ decision'[a] = "refused" /\ effect[a] \in {"none", "failed", "undone"}
             \/ decision'[a] = "succeeded" /\ Succeeded(a)
    /\ UNCHANGED effect

Next ==
    \/ \E b \in Bookings : Book(b)
    \/ \E p \in Payments : Pay(p) \/ Undo(p)
    \/ \E a \in Actions : Land(a)
    \/ Say

Spec == Init /\ [][Next]_promised

-----------------------------------------------------------------------------
(* What follows from it.                                                   *)

(* One attempt at the order at most stands or is under way, and nothing is *)
(* paid before one has made it.                                            *)
OneOrder ==
    /\ \A b, c \in Bookings : Stands(b) /\ Stands(c) => b = c
    /\ (\E p \in Payments : effect[p] # "none") => \E b \in Bookings : effect[b] = "written"

=============================================================================
