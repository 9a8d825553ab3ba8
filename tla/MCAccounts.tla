------------------------------- MODULE MCAccounts -------------------------------
(* Accounts for TLC.                                                       *)
EXTENDS Accounts, TLC

(* Passwords and requests are only compared.                               *)
Symmetry == Permutations(Passwords) \cup Permutations(Handlers)

=================================================================================
