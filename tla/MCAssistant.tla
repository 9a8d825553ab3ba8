------------------------------ MODULE MCAssistant ------------------------------
(* Assistant for TLC.                                                      *)
EXTENDS Assistant, TLC

(* Orders, payments and requests are only compared.                        *)
Symmetry == Permutations(Payments) \cup Permutations(Bookings) \cup Permutations(Handlers)

=================================================================================
