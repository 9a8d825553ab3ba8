---------------------------- MODULE MCSettlement ----------------------------
(* Settlement with the values that TLC needs. *)
EXTENDS Settlement, TLC

(* The payments are interchangeable, and so are the request handlers. *)
Symmetry == Permutations(Payments) \cup Permutations(Handlers) \cup Permutations(Scanners)

=============================================================================
