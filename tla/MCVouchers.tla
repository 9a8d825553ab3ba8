------------------------------ MODULE MCVouchers ------------------------------
(* Vouchers with the values that TLC needs. *)
EXTENDS Vouchers, TLC

(* Orders, vouchers and customers are interchangeable. *)
Symmetry == Permutations(Orders) \cup Permutations(Vouchers) \cup Permutations(Customers)

===============================================================================
