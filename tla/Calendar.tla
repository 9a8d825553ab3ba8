------------------------------- MODULE Calendar -------------------------------
(***************************************************************************)
(* The calendar of the providers: which times the orders they hold keep    *)
(* reserved (providerSchedule.service.ts), and everything that changes     *)
(* them: acceptance, rescheduling with the consent of both sides           *)
(* (orderReschedule.service.ts), start, quotation, delay and completion of *)
(* the work, reports that the customer did not show up                     *)
(* (customerNoShow*.ts), a provider who leaves, and cancellation.          *)
(*                                                                         *)
(* Every operation that may reserve time first writes the document of the  *)
(* provider (lockProviderSchedule), so that MongoDB lets one of them pass  *)
(* at a time: each is one atomic action.  A reschedule request is checked  *)
(* in one step and written in another, and its answer too: a handler h     *)
(* keeps in run[h] what it read.                                           *)
(*                                                                         *)
(* Time is counted in slots.  Matching says who is asked to accept an      *)
(* order; here any provider may accept whose calendar is free.             *)
(***************************************************************************)
EXTENDS Naturals

CONSTANTS
    Orders, NoOrder,
    Providers, Nobody,
    Requests, NoRequest,  \* reschedule requests that can be made
    Handlers,             \* requests of clients that take several steps
    Kinds,                \* kinds of order created: "normal", "scheduled"
    Inspections,          \* whether orders are created for an inspection
    Durations,            \* durations a quotation can estimate
    Duration,             \* duration of an order without quotation
    Buffer, Travel,       \* time kept free after an order, and for the way
    Advance,              \* minAdvanceMinutes: time left before a move
    MaxTime               \* bound: the last slot

ASSUME CalendarAssumption ==
    /\ NoOrder \notin Orders /\ Nobody \notin Providers /\ NoRequest \notin Requests
    /\ Kinds \subseteq {"normal", "scheduled"}
    /\ Inspections \subseteq BOOLEAN
    /\ Durations \subseteq Nat \ {0} /\ Duration \in Nat \ {0}
    /\ Buffer \in Nat /\ Travel \in Nat /\ Advance \in Nat
    /\ MaxTime \in Nat

VARIABLES
    now,      \* the present slot
    order,    \* Order: status, holder, scheduledAt, schedule, arrival, customerNoShow
    request,  \* OrderRescheduleRequest
    run       \* what each handler is doing

vars == <<now, order, request, run>>

-----------------------------------------------------------------------------
(* Records.                                                                *)

Slots == 1 .. MaxTime

Roles == {"customer", "provider"}

(* slot is scheduledAt; start, end and duration are the field schedule;    *)
(* replacing: reassignment.status is "matching"; quoted: there is a        *)
(* current quotation; report is customerNoShow.status.                     *)
OrderRecords ==
    [kind : {"normal", "scheduled"}, inspection : BOOLEAN,
     status : {"created", "accepted", "in_progress", "completed", "cancelled"},
     holder : Providers \cup {Nobody}, replacing : BOOLEAN,
     slot : Nat, start : Nat, end : Nat, duration : Nat,
     arrived : BOOLEAN, quoted : BOOLEAN,
     report : {"none", "pending", "rejected", "approved"}]

(* role is the side that asks; old and new are the two times.              *)
RequestRecords ==
    [status : {"unused", "pending", "applied", "rejected", "cancelled", "expired", "conflicted"},
     order : Orders \cup {NoOrder}, role : Roles, old : Nat, new : Nat]

Runs == [at : {"idle", "save", "approve", "reject", "conflict", "withdraw"},
         q : Requests \cup {NoRequest}, order : Orders \cup {NoOrder}, role : Roles,
         old : Nat, new : Nat]

Unused == [status |-> "unused", order |-> NoOrder, role |-> "customer", old |-> 0, new |-> 0]

Idle == [at |-> "idle", q |-> NoRequest, order |-> NoOrder, role |-> "customer",
         old |-> 0, new |-> 0]

-----------------------------------------------------------------------------
(* Intervals.                                                              *)

(* Later than any time the model reaches.                                  *)
Forever == MaxTime + Travel + 1

Interval(start, end) == [start |-> start, end |-> end, gap |-> Buffer + Travel]

(* intervalsConflict: the earlier one, its buffer and the way to the next  *)
(* order end after the later one has begun.                                *)
Conflict(a, b) == IF a.start <= b.start THEN a.end + a.gap > b.start
                                        ELSE b.end + b.gap > a.start

(* getOrderInterval: work that should be over but is not ends in no time   *)
(* that can be known; work that is over needs no buffer.                   *)
Actual(o) ==
    LET r == order[o] IN
    [start |-> r.start,
     end |-> IF r.status \in {"accepted", "in_progress"} /\ r.end <= now THEN Forever ELSE r.end,
     gap |-> IF r.status = "completed" THEN Travel ELSE Buffer + Travel]

(* The time of the appointment stays reserved until the work is done.      *)
Reserved(o) ==
    LET r == order[o] IN
    IF r.kind = "normal" \/ r.status = "completed" THEN Actual(o)
    ELSE Interval(r.slot, r.slot + r.duration)

(* The orders that getAvailableProviderIds looks at: not one under a       *)
(* report that waits for its review.                                       *)
Blocks(p, o) ==
    /\ order[o].holder = p
    /\ order[o].status \in {"accepted", "in_progress", "completed"}
    /\ ~(order[o].status = "accepted" /\ order[o].report = "pending")

IsAvailable(p, i, o) ==
    \A x \in Orders \ {o} :
        Blocks(p, x) => ~Conflict(Actual(x), i) /\ ~Conflict(Reserved(x), i)

Init ==
    /\ now = 0
    /\ order \in [Orders -> {[kind |-> k, inspection |-> i, status |-> "created",
                              holder |-> Nobody, replacing |-> FALSE, slot |-> s,
                              start |-> 0, end |-> 0, duration |-> Duration,
                              arrived |-> FALSE, quoted |-> FALSE, report |-> "none"] :
                             k \in Kinds, i \in Inspections, s \in Slots}]
    /\ \A o \in Orders : order[o].kind = "normal" => order[o].slot = 1
    /\ request = [q \in Requests |-> Unused]
    /\ run = [h \in Handlers |-> Idle]

-----------------------------------------------------------------------------
(* The work.                                                               *)

(* acceptAssignment: in the transaction that locks the calendar.           *)
Accept(p, o) ==
    LET start == IF order[o].kind = "scheduled" THEN order[o].slot ELSE now + Travel
        end == start + order[o].duration
    IN
    /\ order[o].status = "created"
    /\ order[o].holder = Nobody
    /\ IsAvailable(p, Interval(start, end), o)
    /\ order' = [order EXCEPT ![o].status = "accepted", ![o].holder = p,
                              ![o].replacing = FALSE, ![o].start = start, ![o].end = end,
                              ![o].arrived = FALSE, ![o].report = "none"]
    /\ UNCHANGED <<now, request, run>>

(* requestProviderReassignment: the provider gives the order back, which   *)
(* keeps its time.                                                         *)
Leave(o) ==
    /\ order[o].status = "accepted"
    /\ order[o].report # "pending"
    /\ ~order[o].arrived
    /\ ~order[o].quoted
    /\ order' = [order EXCEPT ![o].status = "created", ![o].holder = Nobody,
                              ![o].replacing = TRUE]
    /\ UNCHANGED <<now, request, run>>

(* markOrderArrival.                                                       *)
MarkArrival(o) ==
    /\ order[o].status = "accepted"
    /\ ~order[o].arrived
    /\ order' = [order EXCEPT ![o].arrived = TRUE]
    /\ UNCHANGED <<now, request, run>>

(* saveRepairQuotation: a new duration moves the end of work in progress,  *)
(* if the calendar allows it.                                              *)
SaveQuotation(o, d) ==
    LET end == order[o].start + d IN
    /\ order[o].status \in {"accepted", "in_progress"}
    /\ \/ /\ order[o].status = "accepted" \/ (order[o].quoted /\ d = order[o].duration)
          /\ order' = [order EXCEPT ![o].quoted = TRUE, ![o].inspection = TRUE]
       \/ /\ order[o].status = "in_progress"
          /\ order[o].quoted => d # order[o].duration
          /\ end > now
          /\ IsAvailable(order[o].holder, Interval(order[o].start, end), o)
          /\ order' = [order EXCEPT ![o].quoted = TRUE, ![o].inspection = TRUE,
                                    ![o].duration = d, ![o].end = end]
    /\ UNCHANGED <<now, request, run>>

(* startOrder: one order at a time.  Only a quoted order without           *)
(* appointment is compared with the calendar.                              *)
Start(o, d) ==
    /\ order[o].status = "accepted"
    /\ order[o].report # "pending"
    /\ IF order[o].inspection THEN order[o].quoted /\ d \in Durations ELSE d = order[o].duration
    /\ \A x \in Orders \ {o} : ~(order[x].holder = order[o].holder /\ order[x].status = "in_progress")
    /\ order[o].inspection /\ order[o].kind = "normal"
         => IsAvailable(order[o].holder, Interval(now, now + d), o)
    /\ order' = [order EXCEPT ![o].status = "in_progress", ![o].start = now,
                              ![o].end = now + d, ![o].duration = d]
    /\ UNCHANGED <<now, request, run>>

(* updateExpectedEnd: the provider announces a delay; the customers of     *)
(* the orders it touches are told.                                         *)
UpdateEnd(o, end) ==
    /\ order[o].status = "in_progress"
    /\ end > now
    /\ order' = [order EXCEPT ![o].end = end]
    /\ UNCHANGED <<now, request, run>>

(* completeOrder.                                                          *)
Complete(o) ==
    /\ order[o].status = "in_progress"
    /\ order[o].inspection => order[o].quoted
    /\ order' = [order EXCEPT ![o].status = "completed", ![o].end = now]
    /\ UNCHANGED <<now, request, run>>

(* cancelOrdersWithSettlement, by any side that its policy lets.           *)
Cancel(o) ==
    /\ order[o].status \in {"created", "accepted"}
    /\ order' = [order EXCEPT ![o].status = "cancelled"]
    /\ UNCHANGED <<now, request, run>>

-----------------------------------------------------------------------------
(* The customer who is not there.                                          *)

(* Mutant: work that has begun can be reported.                            *)
ReportBegunWork(o) ==
    /\ order[o].status \in {"accepted", "in_progress"}
    /\ ~order[o].quoted
    /\ order[o].report = "none"
    /\ order[o].arrived
    /\ order[o].kind = "scheduled" => now >= order[o].slot
    /\ order' = [order EXCEPT ![o].report = "pending"]
    /\ UNCHANGED <<now, request, run>>

(* reportCustomerNoShow, after the wait that begins at the appointment.    *)
ReportNoShow(o) ==
    /\ order[o].status = "accepted"
    /\ ~order[o].quoted
    /\ order[o].report = "none"
    /\ order[o].arrived
    /\ order[o].kind = "scheduled" => now >= order[o].slot
    /\ order' = [order EXCEPT ![o].report = "pending"]
    /\ UNCHANGED <<now, request, run>>

(* settleCustomerNoShow, in the transaction that cancels: by the           *)
(* verification of the evidence or by an administrator.                    *)
ApproveReport(o) ==
    /\ order[o].status = "accepted"
    /\ order[o].report = "pending"
    /\ order[o].kind = "scheduled" => now >= order[o].slot
    /\ ~order[o].quoted
    /\ order' = [order EXCEPT ![o].status = "cancelled", ![o].report = "approved"]
    /\ UNCHANGED <<now, request, run>>

(* reviewCustomerNoShowReport: the order goes on as it was.                *)
RejectReport(o) ==
    /\ order[o].report = "pending"
    /\ order' = [order EXCEPT ![o].report = "rejected"]
    /\ UNCHANGED <<now, request, run>>

-----------------------------------------------------------------------------
(* Rescheduling.                                                           *)

(* Mutant: counts the turns of the other side.                             *)
HasOtherUsedTurn(o, role) ==
    \E q \in Requests : /\ request[q].order = o /\ request[q].role # role
                        /\ request[q].status \in {"applied", "rejected"}

(* The side has used its turn: getAppliedCountForRole.                     *)
HasUsedTurn(o, role) ==
    \E q \in Requests : /\ request[q].order = o /\ request[q].role = role
                        /\ request[q].status \in {"applied", "rejected"}

HasPending(o) == \E q \in Requests : request[q].order = o /\ request[q].status = "pending"

(* assertOrderCanBeRescheduled.                                            *)
CanBeMoved(o, role, slot) ==
    /\ order[o].kind = "scheduled"
    /\ order[o].status \in (IF role = "provider" THEN {"accepted"} ELSE {"created", "accepted"})
    /\ ~order[o].arrived
    /\ order[o].report # "pending"
    /\ ~order[o].replacing
    /\ order[o].slot >= now + Advance
    /\ slot >= now + Advance
    /\ slot # order[o].slot

(* proposedOrder.                                                          *)
Moved(r, slot) == [r EXCEPT !.slot = slot, !.start = slot, !.end = slot + r.duration]

(* createOrderRescheduleRequest of an order that nobody holds: applied at  *)
(* once, unless the order has changed since it was read.                   *)
MoveFreeOrder(o, q, slot) ==
    /\ request[q].status = "unused"
    /\ order[o].status = "created"
    /\ order[o].holder = Nobody
    /\ CanBeMoved(o, "customer", slot)
    /\ ~HasUsedTurn(o, "customer")
    /\ ~HasPending(o)
    /\ order' = [order EXCEPT ![o] = Moved(order[o], slot)]
    /\ request' = [request EXCEPT ![q] = [status |-> "applied", order |-> o, role |-> "customer",
                                          old |-> order[o].slot, new |-> slot]]
    /\ UNCHANGED <<now, run>>

(* createOrderRescheduleRequest of an order somebody holds: the checks.    *)
Propose(h, o, role, slot) ==
    /\ run[h] = Idle
    /\ order[o].holder # Nobody
    /\ CanBeMoved(o, role, slot)
    /\ ~HasUsedTurn(o, role)
    /\ ~HasPending(o)
    /\ IsAvailable(order[o].holder, Interval(slot, slot + order[o].duration), o)
    /\ run' = [run EXCEPT ![h] =
                 [at |-> "save", q |-> NoRequest, order |-> o, role |-> role,
                  old |-> order[o].slot, new |-> slot]]
    /\ UNCHANGED <<now, order, request>>

(* Its insertion; the unique index allows one pending request of an order. *)
SaveRequest(h, q) ==
    LET r == run[h] IN
    /\ r.at = "save"
    /\ request[q].status = "unused"
    /\ request' = IF HasPending(r.order) THEN request
                  ELSE [request EXCEPT ![q] = [status |-> "pending", order |-> r.order, role |-> r.role,
                                               old |-> r.old, new |-> r.new]]
    /\ run' = [run EXCEPT ![h] = Idle]
    /\ UNCHANGED <<now, order>>

(* respondOrderRescheduleRequest: the other side has decided.              *)
Respond(h, q) ==
    LET o == request[q].order
        byProvider == request[q].role = "customer"
    IN
    /\ run[h] = Idle
    /\ request[q].status = "pending"
    /\ byProvider => order[o].holder # Nobody
    /\ \E decision \in {"approve", "reject"} :
         /\ decision = "approve" => CanBeMoved(o, request[q].role, request[q].new)
         /\ run' = [run EXCEPT ![h] = [Idle EXCEPT !.at = decision, !.q = q]]
    /\ UNCHANGED <<now, order, request>>

MovedInterval(q) ==
    Interval(request[q].new, request[q].new + order[request[q].order].duration)

(* Mutants: the calendar was looked at when the move was proposed; the     *)
(* request was looked at before the transaction.                           *)
StillFitsUnlocked(q) ==
    LET o == request[q].order IN
    /\ request[q].status = "pending"
    /\ order[o].status \in {"created", "accepted"}
    /\ order[o].slot = request[q].old
    /\ ~HasUsedTurn(o, request[q].role)
    /\ order[o].holder # Nobody

StillFitsClosed(q) ==
    LET o == request[q].order IN
    /\ order[o].status \in {"created", "accepted"}
    /\ order[o].slot = request[q].old
    /\ ~HasUsedTurn(o, request[q].role)
    /\ order[o].holder # Nobody
    /\ IsAvailable(order[o].holder, MovedInterval(q), o)

(* What the transaction of an approval checks again.                       *)
StillFits(q) ==
    LET o == request[q].order IN
    /\ request[q].status = "pending"
    /\ order[o].status \in {"created", "accepted"}
    /\ order[o].slot = request[q].old
    /\ ~HasUsedTurn(o, request[q].role)
    /\ order[o].holder # Nobody
    /\ IsAvailable(order[o].holder, MovedInterval(q), o)

(* The transaction that applies a request, or finds it overtaken.          *)
Approve(h) ==
    LET q == run[h].q
        o == request[q].order
    IN
    /\ run[h].at = "approve"
    /\ \/ /\ StillFits(q)
          /\ order' = [order EXCEPT ![o] = Moved(order[o], request[q].new)]
          /\ request' = [request EXCEPT ![q].status = "applied"]
          /\ run' = [run EXCEPT ![h] = Idle]
       \/ /\ ~StillFits(q)
          /\ run' = [run EXCEPT ![h].at = "conflict"]
          /\ UNCHANGED <<order, request>>
    /\ UNCHANGED now

(* The answer when the approval has failed.                                *)
MarkConflicted(h) ==
    LET q == run[h].q IN
    /\ run[h].at = "conflict"
    /\ request' = IF request[q].status = "pending"
                  THEN [request EXCEPT ![q].status = "conflicted"] ELSE request
    /\ run' = [run EXCEPT ![h] = Idle]
    /\ UNCHANGED <<now, order>>

(* The saves of a refusal and of cancelOrderRescheduleRequest name the     *)
(* document only: they do not look at the status again.                    *)
SaveAnswer(h) ==
    /\ run[h].at \in {"reject", "withdraw"}
    /\ request' = [request EXCEPT ![run[h].q].status =
                     IF run[h].at = "reject" THEN "rejected" ELSE "cancelled"]
    /\ run' = [run EXCEPT ![h] = Idle]
    /\ UNCHANGED <<now, order>>

(* cancelOrderRescheduleRequest: who made the request takes it back.       *)
Withdraw(h, q) ==
    /\ run[h] = Idle
    /\ request[q].status = "pending"
    /\ run' = [run EXCEPT ![h] = [Idle EXCEPT !.at = "withdraw", !.q = q]]
    /\ UNCHANGED <<now, order, request>>

(* expirePendingRequests, by the monitor or before another operation.      *)
Expire(q) ==
    /\ request[q].status = "pending"
    /\ request' = [request EXCEPT ![q].status = "expired"]
    /\ UNCHANGED <<now, order, run>>

-----------------------------------------------------------------------------
Tick ==
    /\ now < MaxTime
    /\ now' = now + 1
    /\ UNCHANGED <<order, request, run>>

Work ==
    \/ \E p \in Providers, o \in Orders : Accept(p, o)
    \/ \E o \in Orders : Leave(o) \/ MarkArrival(o) \/ Complete(o) \/ Cancel(o)
    \/ \E o \in Orders, d \in Durations : SaveQuotation(o, d)
    \/ \E o \in Orders, d \in Durations \cup {Duration} : Start(o, d)
    \/ \E o \in Orders, end \in Slots : UpdateEnd(o, end)
    \/ \E o \in Orders : ReportNoShow(o) \/ ApproveReport(o) \/ RejectReport(o)

Continue(h) ==
    \/ \E q \in Requests : SaveRequest(h, q)
    \/ Approve(h) \/ MarkConflicted(h) \/ SaveAnswer(h)

Reschedule ==
    \/ \E o \in Orders, q \in Requests, slot \in Slots : MoveFreeOrder(o, q, slot)
    \/ \E h \in Handlers, o \in Orders, role \in Roles, slot \in Slots : Propose(h, o, role, slot)
    \/ \E h \in Handlers, q \in Requests : Respond(h, q) \/ Withdraw(h, q)
    \/ \E h \in Handlers : Continue(h)
    \/ \E q \in Requests : Expire(q)

Next == Tick \/ Work \/ Reschedule

Spec == Init /\ [][Next]_vars

-----------------------------------------------------------------------------
(* Properties.                                                             *)

TypeOK ==
    /\ now \in 0 .. MaxTime
    /\ order \in [Orders -> OrderRecords]
    /\ request \in [Requests -> RequestRecords]
    /\ run \in [Handlers -> Runs]

(* The time an accepted order keeps for itself: what its customer was      *)
(* promised when he made an appointment.                                   *)
Promised(o) ==
    LET r == order[o] IN
    IF r.kind = "scheduled" THEN Interval(r.slot, r.slot + r.duration)
                            ELSE Interval(r.start, r.end)

(* Orders that wait for their provider with nothing said about the         *)
(* customer.  An order under a report gives its time to others, and keeps  *)
(* no right to it when the report is rejected.                             *)
Waits(o) == order[o].status = "accepted" /\ order[o].report = "none"

(* Two accepted orders of one provider never overlap, buffer and way       *)
(* included: neither acceptances, nor moves agreed on by both sides, nor a *)
(* provider who leaves and comes back, nor delays of other work and        *)
(* whatever the presence of the provider says, can book him twice          *)
(* (lockProviderSchedule and assertProviderSchedule in every transaction). *)
AppointmentsApart ==
    \A o, x \in Orders :
        /\ o # x /\ Waits(o) /\ Waits(x)
        /\ order[o].holder = order[x].holder
        => ~Conflict(Promised(o), Promised(x))

(* Each side moves an order at most once, with any number of answers,      *)
(* expiries and requests under way (the second count of                    *)
(* getAppliedCountForRole, inside the transactions).                       *)
OneTurnEach ==
    \A q, s \in Requests :
        /\ request[q].status = "applied" /\ request[s].status = "applied"
        /\ request[q].order = request[s].order /\ request[q].role = request[s].role
        => q = s

(* While a report that the customer is missing waits for its review, the   *)
(* order cannot lose its holder, be started or be finished: it is still    *)
(* there to be judged (the guards of start, leave and quotation against    *)
(* those of the report).                                                   *)
ReportHoldsOrder ==
    \A o \in Orders : order[o].report = "pending" =>
        /\ order[o].holder # Nobody
        /\ order[o].arrived
        /\ order[o].status \in {"accepted", "cancelled"}

(* An appointment moves only by a request that becomes applied in the same *)
(* step, from the time at which that request was made: never by one that   *)
(* was withdrawn, refused or expired while its approval was under way, and *)
(* never from a time the side that asked has not seen (what the            *)
(* transaction of respondOrderRescheduleRequest reads again).              *)
MovedAsAsked ==
    [][\A o \in Orders : order'[o].slot # order[o].slot =>
         \E q \in Requests :
            /\ request[q].status \in {"unused", "pending"}
            /\ request'[q].status = "applied"
            /\ request'[q].order = o
            /\ request'[q].old = order[o].slot
            /\ request'[q].new = order'[o].slot]_vars

=============================================================================
