------------------------------ MODULE LimitedUses ------------------------------
(***************************************************************************)
(* What Handigo promises of voucher codes, whatever orders apply, remove,  *)
(* pay, cancel and discard at the same time: an order uses one code at a   *)
(* time, nobody gets a use beyond the limit of the code or beyond his own, *)
(* and a use is reserved first, spent once, and free again when it is      *)
(* given back.                                                             *)
(***************************************************************************)
EXTENDS Naturals, FiniteSets

CONSTANTS Orders, Vouchers, Customers

VARIABLES customer,  \* whose an order is
          limit,     \* the uses of a code: of all customers, and of each
          use        \* what an order has of a code

uses == <<customer, limit, use>>

Limits == [Vouchers -> [all : Nat, each : Nat]]

Holders(v) == {o \in Orders : use[v][o] # "none"}

HoldersOf(v, c) == {o \in Holders(v) : customer[o] = c}

Init ==
    /\ customer \in [Orders -> Customers]
    /\ limit \in Limits
    /\ use = [v \in Vouchers |-> [o \in Orders |-> "none"]]

Reserve(o, v) ==
    /\ \A w \in Vouchers : use[w][o] = "none"
    /\ Cardinality(Holders(v)) < limit[v].all
    /\ Cardinality(HoldersOf(v, customer[o])) < limit[v].each
    /\ use' = [use EXCEPT ![v][o] = "reserved"]
    /\ UNCHANGED <<customer, limit>>

Spend(o, v) ==
    /\ use[v][o] = "reserved"
    /\ use' = [use EXCEPT ![v][o] = "spent"]
    /\ UNCHANGED <<customer, limit>>

(* The customer may get a new code for an order that failed.               *)
GiveBack(o, v) ==
    /\ use[v][o] # "none"
    /\ use' = [use EXCEPT ![v][o] = "none"]
    /\ limit' \in Limits
    /\ UNCHANGED customer

(* Codes are created, and their limits changed, also below what is taken.  *)
SetLimits == limit' \in Limits /\ UNCHANGED <<customer, use>>

Next == SetLimits \/ \E o \in Orders, v \in Vouchers : Reserve(o, v) \/ Spend(o, v) \/ GiveBack(o, v)

Spec == Init /\ [][Next]_uses

-----------------------------------------------------------------------------
(* What follows from it.                                                   *)

(* No order has two codes.                                                 *)
OneCode ==
    \A o \in Orders, v, w \in Vouchers : o \in Holders(v) \cap Holders(w) => v = w

================================================================================
