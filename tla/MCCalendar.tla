----------------------------- MODULE MCCalendar -----------------------------
(* Calendar with the values that TLC needs. *)
EXTENDS Calendar, TLC

Symmetry == Permutations(Orders) \cup Permutations(Providers)
              \cup Permutations(Requests) \cup Permutations(Handlers)

(* What later steps and the properties can still see: of an order that is  *)
(* over only who had it and when, of an answered request not its times.    *)
OrderView(o) ==
    LET r == order[o] IN
    CASE r.status = "cancelled" -> <<"cancelled", r.holder, r.arrived, r.report>>
      [] r.status = "completed" -> <<"completed", r.holder, r.start, r.end, r.arrived, r.report>>
      [] OTHER -> r

RequestView(q) ==
    LET r == request[q] IN
    IF r.status = "pending" THEN r ELSE <<r.status, r.order, r.role>>

View == <<now, [o \in Orders |-> OrderView(o)], [q \in Requests |-> RequestView(q)], run>>

=============================================================================
