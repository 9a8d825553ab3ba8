----------------------------- MODULE MCMatching -----------------------------
(* Matching with the values that TLC needs. *)
EXTENDS Matching, TLC

(* The providers are interchangeable, and so are the request handlers. *)
Symmetry == Permutations(Providers) \cup Permutations(Handlers)

(* An appointment without a chosen provider is paid by QR, whose payment   *)
(* can be synced again at any time, every other order by wallet: both ways *)
(* of paying and all kinds of order, without their product.                *)
MixedInit ==
    /\ Init
    /\ order.method = "payos" <=> /\ order.orderType = "scheduled"
                                 /\ order.preferredProviderId = Nobody

(* Bound of the model: two providers whom the order concerns, or two        *)
(* requests at a time, not both; and two requests at a time only for an     *)
(* appointment paid by wallet.                                              *)
Busy == {h \in Handlers : run[h].pc # "idle"}
Concerned ==
    {p \in Providers :
       \/ offer[p] # NoOffer \/ order.preferredProviderId = p
       \/ \E w \in Workers : run[w].prov = p \/ p \in run[w].cand}
FewAtATime ==
    Cardinality(Busy) = 2 =>
        Scheduled /\ order.method = "wallet" /\ Cardinality(Concerned) <= 1

MixedSpec == MixedInit /\ [][Next]_vars

=============================================================================
