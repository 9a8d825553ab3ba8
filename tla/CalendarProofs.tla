--------------------------- MODULE CalendarProofs ---------------------------
(***************************************************************************)
(* Theorems about Calendar, for any orders, providers, reschedule requests *)
(* and request handlers, any durations, buffers and ways.  IInv adds to    *)
(* the safety invariants that the two records of the time of an accepted   *)
(* order agree (scheduledAt and schedule), and that whoever holds a        *)
(* request to reschedule holds one of an appointment.                      *)
(***************************************************************************)
EXTENDS Calendar, TLAPS

(* The time of an order, and what a report on it says of it.               *)
WellTimed(r) ==
    /\ r.slot \in Slots
    /\ r.duration \in Nat \ {0}
    /\ r.status = "accepted" =>
         /\ r.holder # Nobody
         /\ r.start <= MaxTime + Travel
         /\ r.end = r.start + r.duration
         /\ r.kind = "scheduled" => r.start = r.slot
    /\ r.report = "pending" =>
         r.holder # Nobody /\ r.arrived /\ r.status \in {"accepted", "cancelled"}

OrdersTimed == \A o \in Orders : WellTimed(order[o])

(* The order and the time a request, or who makes it, names.               *)
Asks(r) == r.order \in Orders /\ order[r.order].kind = "scheduled" /\ r.new \in Slots

RequestsAsk == \A q \in Requests : request[q].status # "unused" => Asks(request[q])

Answering == {"approve", "reject", "conflict", "withdraw"}

RunsAsk ==
    \A h \in Handlers :
        /\ run[h].at = "save" => Asks(run[h])
        /\ run[h].at \in Answering =>
             run[h].q \in Requests /\ request[run[h].q].status # "unused"

IInv == /\ TypeOK /\ OrdersTimed /\ RequestsAsk /\ RunsAsk
        /\ OneTurnEach /\ AppointmentsApart

MoveStep ==
    [\A o \in Orders : order'[o].slot # order[o].slot =>
         \E q \in Requests :
            /\ request[q].status \in {"unused", "pending"}
            /\ request'[q].status = "applied"
            /\ request'[q].order = o
            /\ request'[q].old = order[o].slot
            /\ request'[q].new = order'[o].slot]_vars

-----------------------------------------------------------------------------
(* Intervals.                                                              *)

(* Work that takes time conflicts both ways or not at all.                 *)
LEMMA ConflictSymmetric ==
  ASSUME NEW s \in Nat, NEW e \in Nat, NEW t \in Nat, NEW f \in Nat, s < e, t < f
  PROVE  Conflict(Interval(s, e), Interval(t, f)) <=> Conflict(Interval(t, f), Interval(s, e))
BY CalendarAssumption DEF Conflict, Interval

(* An accepted order keeps a time of positive length.                      *)
LEMMA PromisedTime ==
  ASSUME TypeOK, OrdersTimed, NEW o \in Orders, order[o].status = "accepted"
  PROVE  /\ order[o].start \in Nat /\ order[o].end \in Nat
         /\ order[o].start < order[o].end
         /\ Promised(o) = Interval(order[o].start, order[o].end)
<1>1. order[o] \in OrderRecords BY DEF TypeOK
<1>2. WellTimed(order[o]) BY DEF OrdersTimed
<1> QED BY <1>1, <1>2, CalendarAssumption DEF OrderRecords, WellTimed, Promised

(* A time in which the provider is available leaves alone every order that *)
(* waits for him, one that is overdue included.                            *)
LEMMA FreeTime ==
  ASSUME TypeOK, OrdersTimed, NEW o \in Orders, NEW x \in Orders \ {o},
         NEW s \in Nat, NEW e \in Nat, s < e, s <= MaxTime + Travel,
         Waits(x), IsAvailable(order[x].holder, Interval(s, e), o)
  PROVE  /\ ~Conflict(Promised(x), Interval(s, e))
         /\ ~Conflict(Interval(s, e), Promised(x))
<1> DEFINE r == order[x]
<1>1. r.status = "accepted" /\ r.report = "none" BY DEF Waits
<1>2. /\ r.start \in Nat /\ r.end \in Nat /\ r.start < r.end
      /\ Promised(x) = Interval(r.start, r.end)
  BY <1>1, PromisedTime
<1>3. Blocks(r.holder, x) BY <1>1 DEF Blocks
<1>4. ~Conflict(Actual(x), Interval(s, e)) BY <1>3 DEF IsAvailable
<1>5. now \in Nat BY DEF TypeOK
<1>6. ~Conflict(Interval(r.start, r.end), Interval(s, e))
  <2>1. CASE r.end <= now
    <3>1. Actual(x) = [start |-> r.start, end |-> Forever, gap |-> Buffer + Travel]
      BY <1>1, <2>1 DEF Actual
    <3> QED BY <1>2, <1>4, <3>1, CalendarAssumption DEF Conflict, Interval, Forever
  <2>2. CASE ~(r.end <= now)
    BY <1>1, <1>4, <2>2 DEF Actual, Interval
  <2> QED BY <2>1, <2>2
<1> QED BY <1>2, <1>6, ConflictSymmetric

-----------------------------------------------------------------------------
(* What a step does to the orders that wait.                               *)

(* The order waits as it did, if it still waits at all.                    *)
Kept(o) ==
    Waits(o)' => /\ Waits(o) /\ order'[o].holder = order[o].holder
                 /\ Promised(o)' = Promised(o)

LEMMA KeptApart ==
  ASSUME AppointmentsApart, \A o \in Orders : Kept(o)
  PROVE  AppointmentsApart'
<1> SUFFICES ASSUME NEW o \in Orders, NEW x \in Orders, o # x, Waits(o)', Waits(x)',
                    order'[o].holder = order'[x].holder
             PROVE  ~Conflict(Promised(o)', Promised(x)')
  BY DEF AppointmentsApart, Conflict
<1>1. Kept(o) /\ Kept(x) OBVIOUS
<1> QED BY <1>1 DEF Kept, AppointmentsApart

(* An order may take a time that is free.                                  *)
LEMMA PlacedApart ==
  ASSUME AppointmentsApart, NEW o \in Orders, \A x \in Orders \ {o} : Kept(x),
         \A x \in Orders \ {o} : Waits(x) /\ order[x].holder = order'[o].holder =>
            /\ ~Conflict(Promised(x), Promised(o)')
            /\ ~Conflict(Promised(o)', Promised(x))
  PROVE  AppointmentsApart'
<1> SUFFICES ASSUME NEW y \in Orders, NEW x \in Orders, y # x, Waits(y)', Waits(x)',
                    order'[y].holder = order'[x].holder
             PROVE  ~Conflict(Promised(y)', Promised(x)')
  BY DEF AppointmentsApart, Conflict
<1>1. CASE y = o
  <2>1. x \in Orders \ {o} /\ Kept(x) BY <1>1
  <2>2. Waits(x) /\ order[x].holder = order'[o].holder /\ Promised(x)' = Promised(x)
    BY <1>1, <2>1 DEF Kept
  <2> QED BY <1>1, <2>1, <2>2
<1>2. CASE x = o
  <2>1. y \in Orders \ {o} /\ Kept(y) BY <1>2
  <2>2. Waits(y) /\ order[y].holder = order'[o].holder /\ Promised(y)' = Promised(y)
    BY <1>2, <2>1 DEF Kept
  <2> QED BY <1>2, <2>1, <2>2
<1>3. CASE y # o /\ x # o
  <2>1. Kept(y) /\ Kept(x) BY <1>3
  <2> QED BY <2>1 DEF Kept, AppointmentsApart
<1> QED BY <1>1, <1>2, <1>3

(* A step changes one order, and not its kind.                             *)
Changes(o, r) ==
    /\ order' = [order EXCEPT ![o] = r]
    /\ r \in OrderRecords /\ WellTimed(r)
    /\ r.kind = order[o].kind

(* An order that stays as it is keeps its time.                            *)
LEMMA SameKept ==
  ASSUME NEW o \in Orders, order'[o] = order[o]
  PROVE  Kept(o)
BY DEF Kept, Waits, Promised

(* What follows from a change of one order for everything but the          *)
(* appointments of its provider.                                           *)
LEMMA ChangeStep ==
  ASSUME IInv, NEW o \in Orders, NEW r, Changes(o, r)
  PROVE  /\ order' \in [Orders -> OrderRecords]
         /\ OrdersTimed'
         /\ order'[o] = r
         /\ \A x \in Orders : order'[x].kind = order[x].kind
         /\ \A x \in Orders \ {o} : Kept(x)
<1>1. order \in [Orders -> OrderRecords] /\ OrdersTimed BY DEF IInv, TypeOK
<1>2. \A x \in Orders : order'[x] = IF x = o THEN r ELSE order[x]
  BY <1>1 DEF Changes
<1>3. \A x \in Orders \ {o} : Kept(x) BY <1>2, SameKept
<1>4. \A x \in Orders : WellTimed(order'[x]) BY <1>1, <1>2 DEF Changes, OrdersTimed
<1> QED BY <1>1, <1>2, <1>3, <1>4 DEF Changes, OrdersTimed, WellTimed

(* The work: the requests to reschedule stay as they are.                  *)
LEMMA WorkChange ==
  ASSUME IInv, NEW o \in Orders, NEW r, Changes(o, r), UNCHANGED <<now, request, run>>,
         r.slot = order[o].slot, Kept(o) \/ AppointmentsApart'
  PROVE  IInv' /\ MoveStep
<1>1. /\ order' \in [Orders -> OrderRecords] /\ OrdersTimed' /\ order'[o] = r
      /\ \A x \in Orders : order'[x].kind = order[x].kind
      /\ \A x \in Orders \ {o} : Kept(x)
  BY ChangeStep
<1>2. TypeOK' BY <1>1 DEF IInv, TypeOK
<1>3. RequestsAsk' /\ RunsAsk' BY <1>1 DEF IInv, RequestsAsk, RunsAsk, Asks
<1>4. OneTurnEach' BY DEF IInv, OneTurnEach
<1>5. AppointmentsApart' BY <1>1, KeptApart DEF IInv
<1>6. MoveStep
  <2>1. \A x \in Orders : order'[x].slot = order[x].slot BY DEF Changes, IInv, TypeOK
  <2> QED BY <2>1 DEF MoveStep
<1> QED BY <1>1, <1>2, <1>3, <1>4, <1>5, <1>6 DEF IInv

-----------------------------------------------------------------------------
(* The work.                                                               *)

LEMMA AcceptStep ==
  ASSUME IInv, NEW p \in Providers, NEW o \in Orders, Accept(p, o)
  PROVE  IInv' /\ MoveStep
<1> DEFINE start == IF order[o].kind = "scheduled" THEN order[o].slot ELSE now + Travel
           end == start + order[o].duration
           r == [order[o] EXCEPT !.status = "accepted", !.holder = p, !.replacing = FALSE,
                                 !.start = start, !.end = end, !.arrived = FALSE,
                                 !.report = "none"]
<1>1. TypeOK /\ OrdersTimed /\ AppointmentsApart BY DEF IInv
<1>2. order[o] \in OrderRecords /\ WellTimed(order[o]) BY <1>1 DEF TypeOK, OrdersTimed
<1>3. now \in 0 .. MaxTime BY <1>1 DEF TypeOK
<1>4. /\ start \in Nat /\ end \in Nat /\ start < end /\ start <= MaxTime + Travel
  BY <1>2, <1>3, CalendarAssumption DEF WellTimed, OrderRecords, Slots
<1>5. IsAvailable(p, Interval(start, end), o) BY DEF Accept
<1>6. p # Nobody BY CalendarAssumption
<1>7. Changes(o, r)
  <2>1. order' = [order EXCEPT ![o] = r] BY DEF Accept
  <2>2. r \in OrderRecords BY <1>2, <1>4 DEF OrderRecords
  <2>3. WellTimed(r) BY <1>2, <1>4, <1>6 DEF WellTimed, OrderRecords
  <2> QED BY <1>2, <2>1, <2>2, <2>3 DEF Changes, OrderRecords
<1>8. AppointmentsApart'
  <2>1. order'[o] = r /\ \A x \in Orders \ {o} : Kept(x) BY <1>7, ChangeStep
  <2>2. Promised(o)' = Interval(start, end) BY <1>2, <2>1 DEF Promised, OrderRecords
  <2>3. order'[o].holder = p BY <1>2, <2>1 DEF OrderRecords
  <2>4. ASSUME NEW x \in Orders \ {o}, Waits(x), order[x].holder = order'[o].holder
        PROVE  /\ ~Conflict(Promised(x), Promised(o)')
               /\ ~Conflict(Promised(o)', Promised(x))
    BY <1>1, <1>4, <1>5, <2>2, <2>3, <2>4, FreeTime
  <2> QED BY <1>1, <2>1, <2>4, PlacedApart
<1>9. r.slot = order[o].slot BY <1>2 DEF OrderRecords
<1>10. UNCHANGED <<now, request, run>> BY DEF Accept
<1> QED BY <1>7, <1>8, <1>9, <1>10, WorkChange

(* A step that gives up an order, or leaves its time as it is.             *)
LEMMA LeaveStep ==
  ASSUME IInv, NEW o \in Orders, Leave(o)
  PROVE  IInv' /\ MoveStep
<1> DEFINE r == [order[o] EXCEPT !.status = "created", !.holder = Nobody, !.replacing = TRUE]
<1>1. order[o] \in OrderRecords /\ WellTimed(order[o]) BY DEF IInv, TypeOK, OrdersTimed
<1>2. Changes(o, r)
  <2>1. order' = [order EXCEPT ![o] = r] BY DEF Leave
  <2>2. r \in OrderRecords BY <1>1 DEF OrderRecords
  <2>3. WellTimed(r) BY <1>1 DEF WellTimed, OrderRecords, Leave
  <2> QED BY <1>1, <2>1, <2>2, <2>3 DEF Changes, OrderRecords
<1>3. order'[o] = r BY <1>2, ChangeStep
<1>4. Kept(o) BY <1>1, <1>3 DEF Kept, Waits, OrderRecords
<1>5. r.slot = order[o].slot BY <1>1 DEF OrderRecords
<1> QED BY <1>2, <1>4, <1>5, WorkChange DEF Leave

LEMMA MarkArrivalStep ==
  ASSUME IInv, NEW o \in Orders, MarkArrival(o)
  PROVE  IInv' /\ MoveStep
<1> DEFINE r == [order[o] EXCEPT !.arrived = TRUE]
<1>1. order[o] \in OrderRecords /\ WellTimed(order[o]) BY DEF IInv, TypeOK, OrdersTimed
<1>2. Changes(o, r)
  <2>1. order' = [order EXCEPT ![o] = r] BY DEF MarkArrival
  <2>2. r \in OrderRecords BY <1>1 DEF OrderRecords
  <2>3. WellTimed(r) BY <1>1 DEF WellTimed, OrderRecords
  <2> QED BY <1>1, <2>1, <2>2, <2>3 DEF Changes, OrderRecords
<1>3. order'[o] = r BY <1>2, ChangeStep
<1>4. Kept(o) BY <1>1, <1>3 DEF Kept, Waits, Promised, OrderRecords
<1>5. r.slot = order[o].slot BY <1>1 DEF OrderRecords
<1> QED BY <1>2, <1>4, <1>5, WorkChange DEF MarkArrival

LEMMA SaveQuotationStep ==
  ASSUME IInv, NEW o \in Orders, NEW d \in Durations, SaveQuotation(o, d)
  PROVE  IInv' /\ MoveStep
<1> DEFINE end == order[o].start + d
           r == [order[o] EXCEPT !.quoted = TRUE, !.inspection = TRUE]
           s == [order[o] EXCEPT !.quoted = TRUE, !.inspection = TRUE,
                                 !.duration = d, !.end = end]
<1>1. order[o] \in OrderRecords /\ WellTimed(order[o]) BY DEF IInv, TypeOK, OrdersTimed
<1>2. d \in Nat \ {0} BY CalendarAssumption
<1>3. UNCHANGED <<now, request, run>> BY DEF SaveQuotation
<1>4. CASE order' = [order EXCEPT ![o] = r]
  <2>1. r \in OrderRecords BY <1>1 DEF OrderRecords
  <2>2. WellTimed(r) BY <1>1 DEF WellTimed, OrderRecords
  <2>3. Changes(o, r) BY <1>1, <1>4, <2>1, <2>2 DEF Changes, OrderRecords
  <2>4. order'[o] = r BY <2>3, ChangeStep
  <2>5. Kept(o) BY <1>1, <2>4 DEF Kept, Waits, Promised, OrderRecords
  <2>6. r.slot = order[o].slot BY <1>1 DEF OrderRecords
  <2> QED BY <1>3, <2>3, <2>5, <2>6, WorkChange
<1>5. CASE order[o].status = "in_progress" /\ order' = [order EXCEPT ![o] = s]
  <2>1. s \in OrderRecords
    <3>1. order[o].start \in Nat BY <1>1 DEF OrderRecords
    <3>2. end \in Nat /\ d \in Nat BY <1>2, <3>1
    <3> HIDE DEF end
    <3> QED BY <1>1, <3>2 DEF OrderRecords
  <2>2. WellTimed(s) BY <1>1, <1>2, <1>5 DEF WellTimed, OrderRecords
  <2>3. Changes(o, s) BY <1>1, <1>5, <2>1, <2>2 DEF Changes, OrderRecords
  <2>4. order'[o] = s BY <2>3, ChangeStep
  <2>5. Kept(o) BY <1>1, <1>5, <2>4 DEF Kept, Waits, OrderRecords
  <2>6. s.slot = order[o].slot BY <1>1 DEF OrderRecords
  <2> QED BY <1>3, <2>3, <2>5, <2>6, WorkChange
<1> QED BY <1>4, <1>5 DEF SaveQuotation

LEMMA StartStep ==
  ASSUME IInv, NEW o \in Orders, NEW d \in Durations \cup {Duration}, Start(o, d)
  PROVE  IInv' /\ MoveStep
<1> DEFINE end == now + d
           r == [order[o] EXCEPT !.status = "in_progress", !.start = now, !.end = end,
                                 !.duration = d]
<1>1. order[o] \in OrderRecords /\ WellTimed(order[o]) BY DEF IInv, TypeOK, OrdersTimed
<1>2. d \in Nat \ {0} BY CalendarAssumption
<1>3. now \in Nat /\ end \in Nat BY <1>2 DEF IInv, TypeOK
<1>4. Changes(o, r)
  <2>1. order' = [order EXCEPT ![o] = r] BY DEF Start
  <2>2. r \in OrderRecords
    <3> HIDE DEF end
    <3> QED BY <1>1, <1>2, <1>3 DEF OrderRecords
  <2>3. WellTimed(r) BY <1>1, <1>2 DEF WellTimed, OrderRecords, Start
  <2> QED BY <1>1, <2>1, <2>2, <2>3 DEF Changes, OrderRecords
<1>5. order'[o] = r BY <1>4, ChangeStep
<1>6. Kept(o) BY <1>1, <1>5 DEF Kept, Waits, OrderRecords
<1>7. r.slot = order[o].slot BY <1>1 DEF OrderRecords
<1> QED BY <1>4, <1>6, <1>7, WorkChange DEF Start

LEMMA UpdateEndStep ==
  ASSUME IInv, NEW o \in Orders, NEW end \in Slots, UpdateEnd(o, end)
  PROVE  IInv' /\ MoveStep
<1> DEFINE r == [order[o] EXCEPT !.end = end]
<1>1. order[o] \in OrderRecords /\ WellTimed(order[o]) BY DEF IInv, TypeOK, OrdersTimed
<1>2. order[o].status = "in_progress" BY DEF UpdateEnd
<1>3. Changes(o, r)
  <2>1. order' = [order EXCEPT ![o] = r] BY DEF UpdateEnd
  <2>2. r \in OrderRecords BY <1>1 DEF OrderRecords, Slots
  <2>3. WellTimed(r) BY <1>1, <1>2 DEF WellTimed, OrderRecords
  <2> QED BY <1>1, <2>1, <2>2, <2>3 DEF Changes, OrderRecords
<1>4. order'[o] = r BY <1>3, ChangeStep
<1>5. Kept(o) BY <1>1, <1>2, <1>4 DEF Kept, Waits, OrderRecords
<1>6. r.slot = order[o].slot BY <1>1 DEF OrderRecords
<1> QED BY <1>3, <1>5, <1>6, WorkChange DEF UpdateEnd

LEMMA CompleteStep ==
  ASSUME IInv, NEW o \in Orders, Complete(o)
  PROVE  IInv' /\ MoveStep
<1> DEFINE r == [order[o] EXCEPT !.status = "completed", !.end = now]
<1>1. order[o] \in OrderRecords /\ WellTimed(order[o]) /\ now \in Nat
  BY DEF IInv, TypeOK, OrdersTimed
<1>2. order[o].status = "in_progress" BY DEF Complete
<1>3. Changes(o, r)
  <2>1. order' = [order EXCEPT ![o] = r] BY DEF Complete
  <2>2. r \in OrderRecords BY <1>1 DEF OrderRecords
  <2>3. WellTimed(r) BY <1>1, <1>2 DEF WellTimed, OrderRecords
  <2> QED BY <1>1, <2>1, <2>2, <2>3 DEF Changes, OrderRecords
<1>4. order'[o] = r BY <1>3, ChangeStep
<1>5. Kept(o) BY <1>1, <1>4 DEF Kept, Waits, OrderRecords
<1>6. r.slot = order[o].slot BY <1>1 DEF OrderRecords
<1> QED BY <1>3, <1>5, <1>6, WorkChange DEF Complete

LEMMA CancelStep ==
  ASSUME IInv, NEW o \in Orders, Cancel(o)
  PROVE  IInv' /\ MoveStep
<1> DEFINE r == [order[o] EXCEPT !.status = "cancelled"]
<1>1. order[o] \in OrderRecords /\ WellTimed(order[o]) BY DEF IInv, TypeOK, OrdersTimed
<1>2. Changes(o, r)
  <2>1. order' = [order EXCEPT ![o] = r] BY DEF Cancel
  <2>2. r \in OrderRecords BY <1>1 DEF OrderRecords
  <2>3. WellTimed(r) BY <1>1 DEF WellTimed, OrderRecords
  <2> QED BY <1>1, <2>1, <2>2, <2>3 DEF Changes, OrderRecords
<1>3. order'[o] = r BY <1>2, ChangeStep
<1>4. Kept(o) BY <1>1, <1>3 DEF Kept, Waits, OrderRecords
<1>5. r.slot = order[o].slot BY <1>1 DEF OrderRecords
<1> QED BY <1>2, <1>4, <1>5, WorkChange DEF Cancel

-----------------------------------------------------------------------------
(* The customer who is not there.                                          *)

LEMMA ReportNoShowStep ==
  ASSUME IInv, NEW o \in Orders, ReportNoShow(o)
  PROVE  IInv' /\ MoveStep
<1> DEFINE r == [order[o] EXCEPT !.report = "pending"]
<1>1. order[o] \in OrderRecords /\ WellTimed(order[o]) BY DEF IInv, TypeOK, OrdersTimed
<1>2. order[o].status = "accepted" /\ order[o].arrived BY DEF ReportNoShow
<1>3. Changes(o, r)
  <2>1. order' = [order EXCEPT ![o] = r] BY DEF ReportNoShow
  <2>2. r \in OrderRecords BY <1>1 DEF OrderRecords
  <2>3. WellTimed(r) BY <1>1, <1>2 DEF WellTimed, OrderRecords
  <2> QED BY <1>1, <2>1, <2>2, <2>3 DEF Changes, OrderRecords
<1>4. order'[o] = r BY <1>3, ChangeStep
<1>5. Kept(o) BY <1>1, <1>4 DEF Kept, Waits, OrderRecords
<1>6. r.slot = order[o].slot BY <1>1 DEF OrderRecords
<1> QED BY <1>3, <1>5, <1>6, WorkChange DEF ReportNoShow

LEMMA ApproveReportStep ==
  ASSUME IInv, NEW o \in Orders, ApproveReport(o)
  PROVE  IInv' /\ MoveStep
<1> DEFINE r == [order[o] EXCEPT !.status = "cancelled", !.report = "approved"]
<1>1. order[o] \in OrderRecords /\ WellTimed(order[o]) BY DEF IInv, TypeOK, OrdersTimed
<1>2. Changes(o, r)
  <2>1. order' = [order EXCEPT ![o] = r] BY DEF ApproveReport
  <2>2. r \in OrderRecords BY <1>1 DEF OrderRecords
  <2>3. WellTimed(r) BY <1>1 DEF WellTimed, OrderRecords
  <2> QED BY <1>1, <2>1, <2>2, <2>3 DEF Changes, OrderRecords
<1>3. order'[o] = r BY <1>2, ChangeStep
<1>4. Kept(o) BY <1>1, <1>3 DEF Kept, Waits, OrderRecords
<1>5. r.slot = order[o].slot BY <1>1 DEF OrderRecords
<1> QED BY <1>2, <1>4, <1>5, WorkChange DEF ApproveReport

LEMMA RejectReportStep ==
  ASSUME IInv, NEW o \in Orders, RejectReport(o)
  PROVE  IInv' /\ MoveStep
<1> DEFINE r == [order[o] EXCEPT !.report = "rejected"]
<1>1. order[o] \in OrderRecords /\ WellTimed(order[o]) BY DEF IInv, TypeOK, OrdersTimed
<1>2. Changes(o, r)
  <2>1. order' = [order EXCEPT ![o] = r] BY DEF RejectReport
  <2>2. r \in OrderRecords BY <1>1 DEF OrderRecords
  <2>3. WellTimed(r) BY <1>1 DEF WellTimed, OrderRecords
  <2> QED BY <1>1, <2>1, <2>2, <2>3 DEF Changes, OrderRecords
<1>3. order'[o] = r BY <1>2, ChangeStep
<1>4. Kept(o) BY <1>1, <1>3 DEF Kept, Waits, OrderRecords
<1>5. r.slot = order[o].slot BY <1>1 DEF OrderRecords
<1> QED BY <1>2, <1>4, <1>5, WorkChange DEF RejectReport

-----------------------------------------------------------------------------
(* Rescheduling.                                                           *)

(* A move is applied: order o goes to the time that request q names.       *)
LEMMA MoveApplies ==
  ASSUME IInv, NEW o \in Orders, NEW q \in Requests, NEW rq \in RequestRecords,
         order' = [order EXCEPT ![o] = Moved(order[o], rq.new)],
         request' = [request EXCEPT ![q] = rq],
         request[q].status \in {"unused", "pending"},
         rq.status = "applied", rq.order = o, rq.old = order[o].slot, rq.new \in Slots,
         order[o].kind = "scheduled", ~HasUsedTurn(o, rq.role),
         order[o].status = "accepted" =>
            IsAvailable(order[o].holder, Interval(rq.new, rq.new + order[o].duration), o)
  PROVE  /\ order' \in [Orders -> OrderRecords] /\ OrdersTimed'
         /\ request' \in [Requests -> RequestRecords] /\ RequestsAsk'
         /\ \A x \in Orders : order'[x].kind = order[x].kind
         /\ \A x \in Requests : request'[x].status = "unused" => request[x].status = "unused"
         /\ OneTurnEach' /\ AppointmentsApart' /\ MoveStep
<1> DEFINE slot == rq.new
           r == Moved(order[o], slot)
<1>1. TypeOK /\ OrdersTimed /\ AppointmentsApart BY DEF IInv
<1>2. order[o] \in OrderRecords /\ WellTimed(order[o]) BY <1>1 DEF TypeOK, OrdersTimed
<1>3. slot \in Nat /\ slot <= MaxTime BY CalendarAssumption DEF Slots
<1>4. slot + order[o].duration \in Nat /\ slot < slot + order[o].duration
      /\ slot <= MaxTime + Travel
  BY <1>2, <1>3, CalendarAssumption DEF WellTimed
<1>5. /\ r \in OrderRecords /\ r.status = order[o].status /\ r.kind = "scheduled"
      /\ r.holder = order[o].holder /\ r.report = order[o].report
      /\ r.slot = slot /\ r.duration = order[o].duration
  BY <1>2, <1>3, <1>4 DEF OrderRecords, Moved
<1>6. WellTimed(r)
  BY <1>2, <1>3, <1>4 DEF WellTimed, OrderRecords, Moved
<1>7. Changes(o, r) BY <1>5, <1>6 DEF Changes
<1>8. /\ order' \in [Orders -> OrderRecords] /\ OrdersTimed' /\ order'[o] = r
      /\ \A x \in Orders : order'[x].kind = order[x].kind
      /\ \A x \in Orders \ {o} : Kept(x)
  BY <1>7, ChangeStep
<1>9. /\ request' \in [Requests -> RequestRecords]
      /\ \A x \in Requests : request'[x] = IF x = q THEN rq ELSE request[x]
  BY <1>1 DEF TypeOK
<1>10. RequestsAsk' BY <1>5, <1>8, <1>9 DEF IInv, RequestsAsk, Asks
<1>11. OneTurnEach'
  <2> SUFFICES ASSUME NEW s \in Requests, NEW t \in Requests,
                      request'[s].status = "applied", request'[t].status = "applied",
                      request'[s].order = request'[t].order, request'[s].role = request'[t].role
               PROVE  s = t
    BY DEF OneTurnEach
  <2>1. \A x \in Requests \ {q} :
          ~(request'[x].status = "applied" /\ request'[x].order = o /\ request'[x].role = rq.role)
    BY <1>9 DEF HasUsedTurn
  <2>2. CASE s # q /\ t # q BY <1>9, <2>2 DEF IInv, OneTurnEach
  <2> QED BY <1>9, <2>1, <2>2
<1>12. AppointmentsApart'
  <2>1. CASE ~Waits(o)
    <3>1. ~Waits(o)' BY <1>5, <1>8, <2>1 DEF Waits
    <3>2. Kept(o) BY <3>1 DEF Kept
    <3> QED BY <1>1, <1>8, <3>2, KeptApart
  <2>2. CASE Waits(o)
    <3>1. Promised(o)' = Interval(slot, slot + order[o].duration)
      BY <1>5, <1>8 DEF Promised
    <3>2. IsAvailable(order[o].holder, Interval(slot, slot + order[o].duration), o)
      BY <2>2 DEF Waits
    <3>3. ASSUME NEW x \in Orders \ {o}, Waits(x), order[x].holder = order'[o].holder
          PROVE  /\ ~Conflict(Promised(x), Promised(o)')
                 /\ ~Conflict(Promised(o)', Promised(x))
      BY <1>1, <1>3, <1>4, <1>5, <1>8, <3>1, <3>2, <3>3, FreeTime
    <3> QED BY <1>1, <1>8, <3>3, PlacedApart
  <2> QED BY <2>1, <2>2
<1>13. MoveStep
  <2>1. \A x \in Orders \ {o} : order'[x] = order[x] BY <1>1 DEF TypeOK
  <2>2. /\ request'[q].status = "applied" /\ request'[q].order = o
        /\ request'[q].old = order[o].slot /\ request'[q].new = order'[o].slot
    BY <1>5, <1>8, <1>9
  <2> QED BY <2>1, <2>2 DEF MoveStep
<1> QED BY <1>8, <1>9, <1>10, <1>11, <1>12, <1>13

LEMMA MoveFreeOrderStep ==
  ASSUME IInv, NEW o \in Orders, NEW q \in Requests, NEW slot \in Slots,
         MoveFreeOrder(o, q, slot)
  PROVE  IInv' /\ MoveStep
<1> DEFINE rq == [status |-> "applied", order |-> o, role |-> "customer",
                  old |-> order[o].slot, new |-> slot]
<1>1. order[o] \in OrderRecords BY DEF IInv, TypeOK
<1>2. rq \in RequestRecords BY <1>1 DEF OrderRecords, RequestRecords, Roles, Slots
<1>3. /\ order' \in [Orders -> OrderRecords] /\ OrdersTimed'
      /\ request' \in [Requests -> RequestRecords] /\ RequestsAsk'
      /\ \A x \in Orders : order'[x].kind = order[x].kind
      /\ \A x \in Requests : request'[x].status = "unused" => request[x].status = "unused"
      /\ OneTurnEach' /\ AppointmentsApart' /\ MoveStep
  <2>1. /\ order' = [order EXCEPT ![o] = Moved(order[o], rq.new)]
        /\ request' = [request EXCEPT ![q] = rq]
        /\ request[q].status \in {"unused", "pending"}
        /\ order[o].kind = "scheduled" /\ ~HasUsedTurn(o, rq.role)
        /\ order[o].status # "accepted"
    BY DEF MoveFreeOrder, CanBeMoved
  <2>2. rq.status = "applied" /\ rq.order = o /\ rq.old = order[o].slot /\ rq.new \in Slots
    OBVIOUS
  <2> HIDE DEF rq
  <2> QED BY <1>2, <2>1, <2>2, MoveApplies
<1>4. UNCHANGED <<now, run>> BY DEF MoveFreeOrder
<1>5. TypeOK' BY <1>3, <1>4 DEF IInv, TypeOK
<1>6. RunsAsk' BY <1>3, <1>4 DEF IInv, RunsAsk, Asks
<1> QED BY <1>3, <1>5, <1>6 DEF IInv

(* Steps that leave the orders alone.                                      *)
LEMMA RequestChange ==
  ASSUME IInv, UNCHANGED <<now, order>>, request' \in [Requests -> RequestRecords],
         run' \in [Handlers -> Runs], RequestsAsk', RunsAsk',
         \A q \in Requests : request'[q].status = "applied" => request'[q] = request[q]
  PROVE  IInv' /\ MoveStep
<1>1. TypeOK' BY DEF IInv, TypeOK
<1>2. OrdersTimed' BY DEF IInv, OrdersTimed
<1>3. OneTurnEach' BY DEF IInv, OneTurnEach
<1>4. AppointmentsApart'
  <2>1. \A o \in Orders : Kept(o) BY SameKept
  <2> QED BY <2>1, KeptApart DEF IInv
<1>5. MoveStep BY DEF MoveStep
<1> QED BY <1>1, <1>2, <1>3, <1>4, <1>5 DEF IInv

(* A handler that has nothing more to do.                                  *)
LEMMA IdleRuns ==
  ASSUME IInv, NEW h \in Handlers, run' = [run EXCEPT ![h] = Idle], UNCHANGED order,
         \A q \in Requests : request'[q].status = "unused" => request[q].status = "unused"
  PROVE  run' \in [Handlers -> Runs] /\ RunsAsk'
<1>1. Idle \in Runs BY DEF Idle, Runs, Roles
<1>2. run' \in [Handlers -> Runs] BY <1>1 DEF IInv, TypeOK
<1>3. \A g \in Handlers : run'[g] = IF g = h THEN Idle ELSE run[g] BY DEF IInv, TypeOK
<1>4. Idle.at \notin Answering \cup {"save"} BY DEF Idle, Answering
<1>5. RunsAsk' BY <1>3, <1>4 DEF IInv, RunsAsk, Asks
<1> QED BY <1>2, <1>5

LEMMA ProposeStep ==
  ASSUME IInv, NEW h \in Handlers, NEW o \in Orders, NEW role \in Roles, NEW slot \in Slots,
         Propose(h, o, role, slot)
  PROVE  IInv' /\ MoveStep
<1> DEFINE r == [at |-> "save", q |-> NoRequest, order |-> o, role |-> role,
                 old |-> order[o].slot, new |-> slot]
<1>1. order[o] \in OrderRecords BY DEF IInv, TypeOK
<1>2. r \in Runs BY <1>1 DEF OrderRecords, Runs, Slots
<1>3. run' = [run EXCEPT ![h] = r] /\ UNCHANGED <<now, order, request>> BY DEF Propose
<1>4. run' \in [Handlers -> Runs] BY <1>2, <1>3 DEF IInv, TypeOK
<1>5. \A g \in Handlers : run'[g] = IF g = h THEN r ELSE run[g] BY <1>3 DEF IInv, TypeOK
<1>6. RunsAsk'
  <2>1. Asks(r) BY DEF Propose, CanBeMoved, Asks
  <2> QED BY <1>3, <1>5, <2>1 DEF IInv, RunsAsk, Asks, Answering
<1>7. RequestsAsk' /\ request' \in [Requests -> RequestRecords]
  BY <1>3 DEF IInv, RequestsAsk, Asks, TypeOK
<1> QED BY <1>3, <1>4, <1>6, <1>7, RequestChange

LEMMA SaveRequestStep ==
  ASSUME IInv, NEW h \in Handlers, NEW q \in Requests, SaveRequest(h, q)
  PROVE  IInv' /\ MoveStep
<1> DEFINE r == run[h]
           rq == [status |-> "pending", order |-> r.order, role |-> r.role,
                  old |-> r.old, new |-> r.new]
<1>1. r \in Runs /\ Asks(r) BY DEF IInv, TypeOK, RunsAsk, SaveRequest
<1>2. rq \in RequestRecords BY <1>1 DEF Runs, RequestRecords
<1>3. UNCHANGED <<now, order>> /\ run' = [run EXCEPT ![h] = Idle] BY DEF SaveRequest
<1>4. request' = request \/ request' = [request EXCEPT ![q] = rq] BY DEF SaveRequest
<1>5. /\ request' \in [Requests -> RequestRecords]
      /\ \A x \in Requests : request'[x] = request[x] \/ (x = q /\ request'[x] = rq)
  BY <1>2, <1>4 DEF IInv, TypeOK
<1>6. RequestsAsk' BY <1>1, <1>3, <1>5 DEF IInv, RequestsAsk, Asks
<1>7. \A x \in Requests : request'[x].status = "unused" => request[x].status = "unused"
  BY <1>5
<1>8. run' \in [Handlers -> Runs] /\ RunsAsk' BY <1>3, <1>7, IdleRuns
<1> QED BY <1>3, <1>5, <1>6, <1>8, RequestChange

(* Deciding on a request, or on taking it back.                            *)
LEMMA DecideStep ==
  ASSUME IInv, NEW h \in Handlers, NEW q \in Requests, NEW at \in Answering,
         request[q].status # "unused",
         run' = [run EXCEPT ![h] = [Idle EXCEPT !.at = at, !.q = q]],
         UNCHANGED <<now, order, request>>
  PROVE  IInv' /\ MoveStep
<1> DEFINE r == [Idle EXCEPT !.at = at, !.q = q]
<1>1. r \in Runs /\ r.at = at /\ r.q = q BY DEF Idle, Runs, Roles, Answering
<1>2. run' \in [Handlers -> Runs] BY <1>1 DEF IInv, TypeOK
<1>3. \A g \in Handlers : run'[g] = IF g = h THEN r ELSE run[g] BY DEF IInv, TypeOK
<1>4. RunsAsk' BY <1>1, <1>3 DEF IInv, RunsAsk, Asks, Answering
<1>5. RequestsAsk' /\ request' \in [Requests -> RequestRecords]
  BY DEF IInv, RequestsAsk, Asks, TypeOK
<1> QED BY <1>2, <1>4, <1>5, RequestChange

LEMMA RespondStep ==
  ASSUME IInv, NEW h \in Handlers, NEW q \in Requests, Respond(h, q)
  PROVE  IInv' /\ MoveStep
<1>1. PICK decision \in {"approve", "reject"} :
         run' = [run EXCEPT ![h] = [Idle EXCEPT !.at = decision, !.q = q]]
  BY DEF Respond
<1>2. decision \in Answering BY DEF Answering
<1>3. request[q].status # "unused" /\ UNCHANGED <<now, order, request>> BY DEF Respond
<1> QED BY <1>1, <1>2, <1>3, DecideStep

LEMMA WithdrawStep ==
  ASSUME IInv, NEW h \in Handlers, NEW q \in Requests, Withdraw(h, q)
  PROVE  IInv' /\ MoveStep
<1>1. "withdraw" \in Answering BY DEF Answering
<1> QED BY <1>1, DecideStep DEF Withdraw

(* A request is closed without being applied.                              *)
LEMMA CloseStep ==
  ASSUME IInv, NEW q \in Requests, request[q].status # "unused",
         NEW status \in {"rejected", "cancelled", "expired", "conflicted"},
         request' = [request EXCEPT ![q].status = status]
  PROVE  /\ request' \in [Requests -> RequestRecords]
         /\ UNCHANGED order => RequestsAsk'
         /\ \A x \in Requests : request'[x].status = "unused" => request[x].status = "unused"
         /\ \A x \in Requests : request'[x].status = "applied" => request'[x] = request[x]
<1> DEFINE r == [request[q] EXCEPT !.status = status]
<1>1. request[q] \in RequestRecords BY DEF IInv, TypeOK
<1>2. /\ r \in RequestRecords /\ r.status = status
      /\ r.order = request[q].order /\ r.new = request[q].new
  BY <1>1 DEF RequestRecords
<1>3. request' = [request EXCEPT ![q] = r] OBVIOUS
<1>4. /\ request' \in [Requests -> RequestRecords]
      /\ \A x \in Requests : request'[x] = IF x = q THEN r ELSE request[x]
  BY <1>2, <1>3 DEF IInv, TypeOK
<1>5. UNCHANGED order => RequestsAsk' BY <1>2, <1>4 DEF IInv, RequestsAsk, Asks
<1> QED BY <1>2, <1>4, <1>5

LEMMA ApproveStep ==
  ASSUME IInv, NEW h \in Handlers, Approve(h)
  PROVE  IInv' /\ MoveStep
<1> DEFINE q == run[h].q
           o == request[q].order
<1>1. UNCHANGED now BY DEF Approve
<1>2. q \in Requests /\ request[q].status # "unused" BY DEF IInv, RunsAsk, Answering, Approve
<1>3. Asks(request[q]) /\ request[q] \in RequestRecords BY <1>2 DEF IInv, RequestsAsk, TypeOK
<1>4. CASE /\ StillFits(q)
           /\ order' = [order EXCEPT ![o] = Moved(order[o], request[q].new)]
           /\ request' = [request EXCEPT ![q].status = "applied"]
           /\ run' = [run EXCEPT ![h] = Idle]
  <2> DEFINE rq == [request[q] EXCEPT !.status = "applied"]
  <2>1. /\ rq \in RequestRecords /\ rq.status = "applied" /\ rq.order = o
        /\ rq.new = request[q].new /\ rq.old = request[q].old /\ rq.role = request[q].role
    BY <1>3 DEF RequestRecords
  <2>2. request' = [request EXCEPT ![q] = rq] BY <1>4
  <2>3. /\ request[q].status = "pending" /\ order[o].slot = rq.old
        /\ ~HasUsedTurn(o, rq.role)
        /\ IsAvailable(order[o].holder, Interval(rq.new, rq.new + order[o].duration), o)
    BY <1>4, <2>1 DEF StillFits, MovedInterval
  <2>4. o \in Orders /\ order[o].kind = "scheduled" /\ rq.new \in Slots
    BY <1>3, <2>1 DEF Asks
  <2>5. order' = [order EXCEPT ![o] = Moved(order[o], rq.new)] BY <1>4, <2>1
  <2>6. /\ order' \in [Orders -> OrderRecords] /\ OrdersTimed'
        /\ request' \in [Requests -> RequestRecords] /\ RequestsAsk'
        /\ \A x \in Orders : order'[x].kind = order[x].kind
        /\ \A x \in Requests : request'[x].status = "unused" => request[x].status = "unused"
        /\ OneTurnEach' /\ AppointmentsApart' /\ MoveStep
    <3> HIDE DEF rq, o, q
    <3> QED BY <1>2, <2>1, <2>2, <2>3, <2>4, <2>5, MoveApplies
  <2>7. run' \in [Handlers -> Runs]
        /\ \A g \in Handlers : run'[g] = IF g = h THEN Idle ELSE run[g]
    BY <1>4 DEF IInv, TypeOK, Idle, Runs, Roles
  <2>8. RunsAsk' BY <2>6, <2>7 DEF IInv, RunsAsk, Asks, Idle, Answering
  <2>9. TypeOK' BY <1>1, <2>6, <2>7 DEF IInv, TypeOK
  <2> QED BY <2>6, <2>8, <2>9 DEF IInv
<1>5. CASE run' = [run EXCEPT ![h].at = "conflict"] /\ UNCHANGED <<order, request>>
  <2>1. /\ run' \in [Handlers -> Runs]
        /\ \A g \in Handlers : run'[g] = IF g = h THEN [run[h] EXCEPT !.at = "conflict"]
                                                  ELSE run[g]
    BY <1>5 DEF IInv, TypeOK, Runs
  <2>2. run[h] \in Runs BY DEF IInv, TypeOK
  <2>3. [run[h] EXCEPT !.at = "conflict"].at = "conflict"
        /\ [run[h] EXCEPT !.at = "conflict"].q = q
    BY <2>2 DEF Runs
  <2>4. RunsAsk' BY <1>2, <1>5, <2>1, <2>3 DEF IInv, RunsAsk, Asks, Answering
  <2>5. RequestsAsk' /\ request' \in [Requests -> RequestRecords]
    BY <1>5 DEF IInv, RequestsAsk, Asks, TypeOK
  <2> QED BY <1>1, <1>5, <2>1, <2>4, <2>5, RequestChange
<1> QED BY <1>4, <1>5 DEF Approve

LEMMA MarkConflictedStep ==
  ASSUME IInv, NEW h \in Handlers, MarkConflicted(h)
  PROVE  IInv' /\ MoveStep
<1> DEFINE q == run[h].q
<1>1. q \in Requests /\ request[q].status # "unused"
  BY DEF IInv, RunsAsk, Answering, MarkConflicted
<1>2. UNCHANGED <<now, order>> /\ run' = [run EXCEPT ![h] = Idle] BY DEF MarkConflicted
<1>3. request' = request \/ request' = [request EXCEPT ![q].status = "conflicted"]
  BY DEF MarkConflicted
<1>4. /\ request' \in [Requests -> RequestRecords] /\ RequestsAsk'
      /\ \A x \in Requests : request'[x].status = "unused" => request[x].status = "unused"
      /\ \A x \in Requests : request'[x].status = "applied" => request'[x] = request[x]
  <2>1. CASE request' = request BY <1>2, <2>1 DEF IInv, TypeOK, RequestsAsk, Asks
  <2>2. CASE request' = [request EXCEPT ![q].status = "conflicted"]
    BY <1>1, <1>2, <2>2, CloseStep
  <2> QED BY <1>3, <2>1, <2>2
<1>5. run' \in [Handlers -> Runs] /\ RunsAsk' BY <1>2, <1>4, IdleRuns
<1> QED BY <1>2, <1>4, <1>5, RequestChange

LEMMA SaveAnswerStep ==
  ASSUME IInv, NEW h \in Handlers, SaveAnswer(h)
  PROVE  IInv' /\ MoveStep
<1> DEFINE q == run[h].q
           status == IF run[h].at = "reject" THEN "rejected" ELSE "cancelled"
<1>1. q \in Requests /\ request[q].status # "unused"
  BY DEF IInv, RunsAsk, Answering, SaveAnswer
<1>2. UNCHANGED <<now, order>> /\ run' = [run EXCEPT ![h] = Idle] BY DEF SaveAnswer
<1>3. request' = [request EXCEPT ![q].status = status] BY DEF SaveAnswer
<1>4. /\ request' \in [Requests -> RequestRecords] /\ RequestsAsk'
      /\ \A x \in Requests : request'[x].status = "unused" => request[x].status = "unused"
      /\ \A x \in Requests : request'[x].status = "applied" => request'[x] = request[x]
  <2>1. status \in {"rejected", "cancelled", "expired", "conflicted"} OBVIOUS
  <2> HIDE DEF status, q
  <2> QED BY <1>1, <1>2, <1>3, <2>1, CloseStep
<1>5. run' \in [Handlers -> Runs] /\ RunsAsk' BY <1>2, <1>4, IdleRuns
<1> QED BY <1>2, <1>4, <1>5, RequestChange

LEMMA ExpireStep ==
  ASSUME IInv, NEW q \in Requests, Expire(q)
  PROVE  IInv' /\ MoveStep
<1>1. request[q].status # "unused" /\ UNCHANGED <<now, order, run>>
      /\ request' = [request EXCEPT ![q].status = "expired"]
  BY DEF Expire
<1>2. /\ request' \in [Requests -> RequestRecords] /\ RequestsAsk'
      /\ \A x \in Requests : request'[x].status = "unused" => request[x].status = "unused"
      /\ \A x \in Requests : request'[x].status = "applied" => request'[x] = request[x]
  BY <1>1, CloseStep
<1>3. run' \in [Handlers -> Runs] /\ RunsAsk' BY <1>1, <1>2 DEF IInv, TypeOK, RunsAsk, Asks
<1> QED BY <1>1, <1>2, <1>3, RequestChange

-----------------------------------------------------------------------------
(* The theorems.                                                           *)

LEMMA InitInv == Init => IInv
<1> SUFFICES ASSUME Init PROVE IInv
  OBVIOUS
<1>1. \A o \in Orders :
         /\ order[o] \in OrderRecords /\ order[o].status = "created"
         /\ order[o].report = "none" /\ order[o].duration = Duration /\ order[o].slot \in Slots
  <2> SUFFICES ASSUME NEW o \in Orders
               PROVE  /\ order[o] \in OrderRecords /\ order[o].status = "created"
                      /\ order[o].report = "none" /\ order[o].duration = Duration
                      /\ order[o].slot \in Slots
    OBVIOUS
  <2>1. PICK k \in Kinds, i \in Inspections, s \in Slots :
          order[o] = [kind |-> k, inspection |-> i, status |-> "created",
                      holder |-> Nobody, replacing |-> FALSE, slot |-> s,
                      start |-> 0, end |-> 0, duration |-> Duration,
                      arrived |-> FALSE, quoted |-> FALSE, report |-> "none"]
    BY DEF Init
  <2>2. k \in {"normal", "scheduled"} /\ i \in BOOLEAN /\ s \in Nat /\ Duration \in Nat
    BY CalendarAssumption DEF Slots
  <2> QED BY <2>1, <2>2 DEF OrderRecords
<1>2. order \in [Orders -> OrderRecords] BY <1>1 DEF Init
<1>3. Unused \in RequestRecords /\ Unused.status = "unused"
  BY DEF Unused, RequestRecords, Roles
<1>4. Idle \in Runs /\ Idle.at = "idle" BY DEF Idle, Runs, Roles
<1>5. TypeOK BY <1>2, <1>3, <1>4, CalendarAssumption DEF TypeOK, Init
<1>6. OrdersTimed BY <1>1, CalendarAssumption DEF OrdersTimed, WellTimed
<1>7. RequestsAsk BY <1>3 DEF RequestsAsk, Init
<1>8. RunsAsk BY <1>4 DEF RunsAsk, Init, Answering
<1>9. OneTurnEach BY <1>3 DEF OneTurnEach, Init
<1>10. AppointmentsApart BY <1>1 DEF AppointmentsApart, Waits
<1> QED BY <1>5, <1>6, <1>7, <1>8, <1>9, <1>10 DEF IInv

LEMMA TickStep ==
  ASSUME IInv, Tick
  PROVE  IInv' /\ MoveStep
<1>1. UNCHANGED <<order, request, run>> /\ now' = now + 1 /\ now < MaxTime BY DEF Tick
<1>2. TypeOK' BY <1>1, CalendarAssumption DEF IInv, TypeOK
<1>3. OrdersTimed' BY <1>1 DEF IInv, OrdersTimed
<1>4. RequestsAsk' /\ RunsAsk' BY <1>1 DEF IInv, RequestsAsk, RunsAsk, Asks
<1>5. OneTurnEach' BY <1>1 DEF IInv, OneTurnEach
<1>6. AppointmentsApart'
  <2>1. \A o \in Orders : Kept(o) BY <1>1, SameKept
  <2> QED BY <2>1, KeptApart DEF IInv
<1>7. MoveStep BY <1>1 DEF MoveStep
<1> QED BY <1>2, <1>3, <1>4, <1>5, <1>6, <1>7 DEF IInv

LEMMA NextInv == IInv /\ [Next]_vars => IInv' /\ MoveStep
<1> SUFFICES ASSUME IInv, [Next]_vars PROVE IInv' /\ MoveStep
  OBVIOUS
<1>1. ASSUME Work PROVE IInv' /\ MoveStep
  BY <1>1, AcceptStep, LeaveStep, MarkArrivalStep, SaveQuotationStep, StartStep, UpdateEndStep,
     CompleteStep, CancelStep, ReportNoShowStep, ApproveReportStep, RejectReportStep DEF Work
<1>2. ASSUME NEW h \in Handlers, Continue(h) PROVE IInv' /\ MoveStep
  BY <1>2, SaveRequestStep, ApproveStep, MarkConflictedStep, SaveAnswerStep DEF Continue
<1>3. ASSUME Reschedule PROVE IInv' /\ MoveStep
  BY <1>2, <1>3, MoveFreeOrderStep, ProposeStep, RespondStep, WithdrawStep, ExpireStep
     DEF Reschedule
<1>4. CASE UNCHANGED vars
  <2>1. UNCHANGED <<now, order>> /\ UNCHANGED <<request, run>> BY <1>4 DEF vars
  <2>2. /\ request' \in [Requests -> RequestRecords] /\ run' \in [Handlers -> Runs]
        /\ RequestsAsk' /\ RunsAsk'
    BY <2>1 DEF IInv, TypeOK, RequestsAsk, RunsAsk, Asks
  <2> QED BY <2>1, <2>2, RequestChange
<1> QED BY <1>1, <1>3, <1>4, TickStep DEF Next

(* The invariant holds in every reachable state.                           *)
LEMMA Invariance == Spec => []IInv
<1>1. Init => IInv BY InitInv
<1>2. IInv /\ [Next]_vars => IInv' BY NextInv
<1> QED BY <1>1, <1>2, PTL DEF Spec

(* The orders, the requests and the handlers keep their shape.             *)
THEOREM CalendarTypeCorrect == Spec => []TypeOK
<1>1. IInv => TypeOK BY DEF IInv
<1> QED BY <1>1, Invariance, PTL

(* No provider is ever booked twice for the same time, whatever the        *)
(* durations, buffers and ways, and however many orders, moves and answers *)
(* are under way.                                                          *)
THEOREM AppointmentsApartCorrect == Spec => []AppointmentsApart
<1>1. IInv => AppointmentsApart BY DEF IInv
<1> QED BY <1>1, Invariance, PTL

(* Each side moves an order once at most.                                  *)
THEOREM OneTurnCorrect == Spec => []OneTurnEach
<1>1. IInv => OneTurnEach BY DEF IInv
<1> QED BY <1>1, Invariance, PTL

(* An order under a report stays with its holder and is neither begun nor  *)
(* finished.                                                               *)
THEOREM ReportHoldsCorrect == Spec => []ReportHoldsOrder
<1>1. IInv => ReportHoldsOrder BY DEF IInv, OrdersTimed, WellTimed, ReportHoldsOrder
<1> QED BY <1>1, Invariance, PTL

(* An appointment moves only by a live request, from the time its maker    *)
(* has seen.                                                               *)
THEOREM MovedAsAskedCorrect == Spec => MovedAsAsked
<1>1. IInv /\ [Next]_vars => MoveStep BY NextInv
<1> QED BY <1>1, Invariance, PTL DEF Spec, MovedAsAsked, MoveStep

=============================================================================
