-------------------------------- MODULE Assistant --------------------------------
(***************************************************************************)
(* One session of the customer's assistant: what it writes on behalf of    *)
(* the customer is prepared, confirmed, reserved in a ledger, called once, *)
(* and its result projected into the session (ai/graphs, ai/runtime and    *)
(* ai/agent of the backend).                                               *)
(*                                                                         *)
(* A request holds a lease on the session; the session is saved in a       *)
(* transaction that fails without it.  The lease can run out under a slow  *)
(* request, which goes on until it notices.  Orders and payments are made  *)
(* by services that know nothing of the lease, and that may still be       *)
(* writing when their caller has given up or crashed.  What the next       *)
(* request finds is reconciled from the ledger and from the order.         *)
(*                                                                         *)
(* The session is about one order, and Bookings are the attempts to make   *)
(* it.  That a customer who asks for it may start another order in the     *)
(* same session (startNew, booking-draft.ts:179) is left out.  The other   *)
(* writes take the same way as a payment.  The model, the draft, messages, *)
(* receipts (a repeated request gets its answer again) and attachments are *)
(* left out.                                                               *)
(***************************************************************************)
EXTENDS FiniteSets, Naturals

CONSTANTS
    Bookings, Payments,   \* ids of actions that have been or will be prepared
    Handlers,             \* requests in progress at a time
    None

Actions == Bookings \cup Payments

ASSUME AssistantAssumption ==
    /\ Bookings \cap Payments = {}
    /\ None \notin Actions \cup Handlers

VARIABLES
    thread,       \* who holds the lease
    checkpoint,   \* the session as it was saved
    ledger,       \* status of the ActionRecord
    service,      \* what came of the call of the service
    run           \* requests in progress

vars == <<thread, checkpoint, ledger, service, run>>

-----------------------------------------------------------------------------
(* Records.                                                                *)

(* answer: the customer confirms an action or rejects it.  status: of the  *)
(* payment, asked for by a button.                                         *)
Requests ==
    [kind : {"answer"}, action : Actions] \cup [kind : {"message", "status"}, action : {None}]

(* open: requiresReconciliation, the pending action is EXECUTING or        *)
(* UNKNOWN; otherwise it is WAITING_CONFIRMATION.  done: session.actions,  *)
(* refused for REJECTED and EXPIRED.                                       *)
SessionRecords ==
    [pending : Actions \cup {None}, open : BOOLEAN,
     done : [Actions -> {"none", "succeeded", "refused"}],
     active : Requests \cup {None}]

LedgerOpen == {"EXECUTING", "UNKNOWN"}

LedgerStatuses == LedgerOpen \cup {"none", "SUCCEEDED", "EXPIRED"}

(* undone: the payment failed later or was refunded.  calls and automatic: *)
(* history, how often it was called, and that nobody confirmed it itself.  *)
ServiceRecords ==
    [at : {"none", "running", "written", "failed", "undone"}, calls : 0 .. 2, automatic : BOOLEAN]

Steps == {"idle", "send", "graph", "reserve", "execute", "called", "lookup", "project",
          "booked", "talk", "finish"}

(* from: who runs the graph.                                               *)
RunRecords ==
    [at : Steps, request : Requests \cup {None}, session : SessionRecords,
     action : Actions \cup {None}, record : LedgerStatuses,
     from : {"none", "load", "confirm", "reconcile", "booking"}]

NewSession ==
    [pending |-> None, open |-> FALSE, done |-> [a \in Actions |-> "none"], active |-> None]

Idle ==
    [at |-> "idle", request |-> None, session |-> NewSession, action |-> None, record |-> "none",
     from |-> "none"]

Init ==
    /\ thread = None
    /\ checkpoint = NewSession
    /\ ledger = [a \in Actions |-> "none"]
    /\ service = [a \in Actions |-> [at |-> "none", calls |-> 0, automatic |-> FALSE]]
    /\ run = [h \in Handlers |-> Idle]

Waiting(session) == session.pending # None /\ ~session.open

(* Ids are random.                                                         *)
Fresh(a) ==
    /\ ledger[a] = "none" /\ checkpoint.pending # a /\ checkpoint.done[a] = "none"
    /\ \A h \in Handlers : run[h].session.pending # a /\ run[h].session.done[a] = "none"

(* An order is asked for until there is one, a payment after that.         *)
CanPrepare(session, a) ==
    /\ Fresh(a)
    /\ (a \in Payments) <=> \E b \in Bookings : session.done[b] = "succeeded"

-----------------------------------------------------------------------------
(* The lease and the checkpoint.                                           *)

Holds(h) == thread = h

(* It runs out, or a request that failed gives it back.                    *)
LeaseEnds ==
    /\ thread # None
    /\ thread' = None
    /\ UNCHANGED <<checkpoint, ledger, service, run>>

(* exclusive takes the lease; the session is loaded.  An action that waits *)
(* for its confirmation although it has been reserved is reconciled first. *)
(* Requests that are refused for what they find are left out.              *)
Receive(h, request) ==
    /\ thread = None /\ run[h].at = "idle"
    /\ thread' = h
    /\ checkpoint.open \/ (request.kind # "status" /\ checkpoint.active \in {None, request})
    /\ request.kind = "answer" => request.action = checkpoint.pending \/ checkpoint.active = request
    /\ LET reserved == Waiting(checkpoint) /\ ledger[checkpoint.pending] # "none"
       IN  /\ run' = [run EXCEPT ![h] =
                 [Idle EXCEPT !.at = IF reserved THEN "graph" ELSE "send", !.request = request,
                              !.session = checkpoint,
                              !.action = IF reserved THEN checkpoint.pending ELSE None,
                              !.from = IF reserved THEN "load" ELSE "none"]]
    /\ UNCHANGED <<checkpoint, ledger, service>>

(* The request is refused, fails, or its process crashes.                  *)
Drop(h) ==
    /\ run[h].at # "idle"
    /\ run' = [run EXCEPT ![h] = Idle]
    /\ UNCHANGED <<thread, checkpoint, ledger, service>>

(* Wrong: the checkpoint is saved with or without the lease.               *)
SaveUnfenced(h, session) == checkpoint' = session

(* write of the checkpoint.                                                *)
Save(h, session) == Holds(h) /\ checkpoint' = session

(* The last checkpoint, without the request, and the release.              *)
Finish(h) ==
    /\ run[h].at \in {"talk", "finish"}
    /\ Save(h, [run[h].session EXCEPT !.active = None])
    /\ thread' = IF Holds(h) THEN None ELSE thread
    /\ run' = [run EXCEPT ![h] = Idle]
    /\ UNCHANGED <<ledger, service>>

-----------------------------------------------------------------------------
(* AgentService.send.                                                      *)

Go(h, at, session) == run' = [run EXCEPT ![h].at = at, ![h].session = session]

RunGraph(h, session, a, from) ==
    run' = [run EXCEPT ![h].at = "graph", ![h].session = session, ![h].action = a,
                       ![h].from = from]

Settled(a, status) ==
    IF ledger[a] \in LedgerOpen THEN [ledger EXCEPT ![a] = status] ELSE ledger

Projected(session, a, record) ==
    IF record \in LedgerOpen THEN [session EXCEPT !.pending = a, !.open = TRUE]
    ELSE [session EXCEPT !.pending = None, !.open = FALSE,
                         !.done[a] = IF record = "SUCCEEDED" THEN "succeeded" ELSE "refused"]

(* The status of the payment decides a payment nobody knows the result of: *)
(* any payment of the order counts for its success, its own for failure.   *)
AskStatus(h) ==
    LET s == run[h].session
        p == s.pending
        written == \E q \in Payments : service[q].at = "written"
        status == IF written THEN "SUCCEEDED" ELSE "EXPIRED"
    IN  /\ run[h].at = "send" /\ run[h].request.kind = "status"
        /\ s.open /\ p \in Payments
        /\ written \/ service[p].at = "undone"
        /\ ledger' = Settled(p, status)
        /\ Go(h, "finish", [Projected(s, p, status) EXCEPT !.active = None])
        /\ UNCHANGED <<thread, checkpoint, service>>

(* reconcileBooking and reconcileAction.                                   *)
Reconcile(h) ==
    LET s == run[h].session
    IN  /\ run[h].at = "send" /\ run[h].request.kind # "status"
        /\ s.open
        /\ RunGraph(h, s, s.pending, "reconcile")
        /\ UNCHANGED <<thread, checkpoint, ledger, service>>

(* A request that was interrupted is sent again.                           *)
Resume(h) ==
    LET s == run[h].session
        r == run[h].request
        succeeded == r.kind = "answer" /\ s.done[r.action] = "succeeded"
    IN  /\ run[h].at = "send" /\ r.kind # "status"
        /\ ~s.open /\ s.active = r
        /\ Go(h, IF Waiting(s) THEN "finish"
                 ELSE IF succeeded /\ r.action \in Bookings THEN "booked"
                 ELSE IF succeeded THEN "finish" ELSE "talk", s)
        /\ UNCHANGED <<thread, checkpoint, ledger, service>>

(* The customer confirms: the confirmation is saved before anything else.  *)
Confirm(h) ==
    LET s == [run[h].session EXCEPT !.active = run[h].request]
        a == run[h].request.action
    IN  /\ run[h].at = "send" /\ run[h].request.kind = "answer"
        /\ run[h].session.active = None /\ Waiting(s) /\ s.pending = a
        /\ Save(h, s)
        /\ RunGraph(h, s, a, "confirm")
        /\ UNCHANGED <<thread, ledger, service>>

(* He rejects it, it has expired, or what he was shown is not true now.    *)
Refuse(h) ==
    LET s == run[h].session
        a == run[h].request.action
    IN  /\ run[h].at = "send" /\ run[h].request.kind = "answer"
        /\ s.active = None /\ Waiting(s) /\ s.pending = a
        /\ Go(h, "talk", [s EXCEPT !.active = run[h].request, !.pending = None,
                                   !.done[a] = "refused"])
        /\ UNCHANGED <<thread, checkpoint, ledger, service>>

(* A message takes back an order that waits for its confirmation.          *)
Message(h) ==
    LET s == [run[h].session EXCEPT !.active = run[h].request]
        a == s.pending
    IN  /\ run[h].at = "send" /\ run[h].request.kind = "message"
        /\ run[h].session.active = None /\ ~s.open
        /\ \/ a = None /\ Go(h, "talk", s)
           \/ a # None /\ Go(h, "talk", [s EXCEPT !.pending = None, !.done[a] = "refused"])
           \/ a \in Payments /\ Go(h, "finish", s)
        /\ UNCHANGED <<thread, checkpoint, ledger, service>>

(* The model reads, with checkpoints between, and may prepare an action.   *)
Checkpoint(h) ==
    /\ run[h].at = "talk"
    /\ Save(h, run[h].session)
    /\ UNCHANGED <<thread, ledger, service, run>>

Prepare(h, a) ==
    /\ run[h].at = "talk" /\ CanPrepare(run[h].session, a)
    /\ Go(h, "finish", [run[h].session EXCEPT !.pending = a])
    /\ UNCHANGED <<thread, checkpoint, ledger, service>>

-----------------------------------------------------------------------------
(* The graph of a confirmed action.                                        *)

Validate(h) ==
    /\ run[h].at = "graph" /\ Holds(h)
    /\ run' = [run EXCEPT ![h].at = IF ledger[run[h].action] = "none" THEN "reserve" ELSE "lookup"]
    /\ UNCHANGED <<thread, checkpoint, ledger, service>>

(* reserve inserts the record; a session has one open record at a time.    *)
Reserve(h) ==
    LET a == run[h].action
    IN  /\ run[h].at = "reserve"
        /\ IF ledger[a] # "none"
           THEN run' = [run EXCEPT ![h].at = "lookup"] /\ UNCHANGED ledger
           ELSE /\ \A b \in Actions : ledger[b] \notin LedgerOpen
                /\ ledger' = [ledger EXCEPT ![a] = "EXECUTING"]
                /\ run' = [run EXCEPT ![h].at = "execute"]
        /\ UNCHANGED <<thread, checkpoint, service>>

(* Wrong: a record is settled whatever has become of it.                   *)
SettleAlways(h, status) ==
    /\ ledger' = [ledger EXCEPT ![run[h].action] = status]
    /\ run' = [run EXCEPT ![h].at = "project", ![h].record = status]
    /\ UNCHANGED <<thread, checkpoint, service>>

(* settle changes an open record only.                                     *)
Settle(h, status) ==
    /\ ledger' = Settled(run[h].action, status)
    /\ run' = [run EXCEPT ![h].at = "project", ![h].record = ledger'[run[h].action]]
    /\ UNCHANGED <<thread, checkpoint, service>>

(* Before the call: a condition does not hold any more, or the request has *)
(* been aborted or has lost the lease.                                     *)
GiveUp(h) ==
    /\ run[h].at = "execute"
    /\ \E status \in {"EXPIRED", "UNKNOWN"} : Settle(h, status)

(* Wrong: the lease is not looked at before the call.                      *)
CallUnchecked(h) ==
    LET a == run[h].action
    IN  /\ run[h].at = "execute"
        /\ service' = [service EXCEPT ![a] = [at |-> "running", calls |-> @.calls + 1,
                                              automatic |-> run[h].from = "booking"]]
        /\ run' = [run EXCEPT ![h].at = "called"]
        /\ UNCHANGED <<thread, checkpoint, ledger>>

(* The service is called, with the lease renewed.                          *)
Call(h) ==
    LET a == run[h].action
    IN  /\ run[h].at = "execute" /\ Holds(h)
        /\ service' = [service EXCEPT ![a] = [at |-> "running", calls |-> @.calls + 1,
                                              automatic |-> run[h].from = "booking"]]
        /\ run' = [run EXCEPT ![h].at = "called"]
        /\ UNCHANGED <<thread, checkpoint, ledger>>

(* What it returns: a result, an error it says nothing was written with,   *)
(* a payment that is blocked, or nothing that is known in time.            *)
Return(h) ==
    LET at == service[run[h].action].at
    IN  /\ run[h].at = "called"
        /\ \/ at \in {"written", "undone"} /\ Settle(h, "SUCCEEDED")
           \/ at \in {"failed", "undone"} /\ Settle(h, "EXPIRED")
           \/ Settle(h, "UNKNOWN")

(* Wrong: an order that is not found yet is taken as not made.             *)
LookupDecides(h) ==
    LET a == run[h].action
    IN  /\ run[h].at = "lookup"
        /\ Settle(h, IF a \notin Bookings THEN ledger[a]
                     ELSE IF service[a].at = "written" THEN "SUCCEEDED" ELSE "EXPIRED")

(* reconcile: the order of a booking is looked for, if it can be.          *)
Lookup(h) ==
    LET a == run[h].action
    IN  /\ run[h].at = "lookup"
        /\ \/ a \in Bookings /\ service[a].at = "written" /\ Settle(h, "SUCCEEDED")
           \/ Settle(h, ledger[a])

(* project, and the checkpoint after the graph.                            *)
Project(h) ==
    LET a == run[h].action
        from == run[h].from
        s == Projected(run[h].session, a, run[h].record)
        kept == IF from = "reconcile" /\ ~s.open THEN [s EXCEPT !.active = None] ELSE s
        ended == from = "reconcile" /\ s.open
    IN  /\ run[h].at = "project"
        /\ Save(h, kept)
        /\ run' = [run EXCEPT ![h] =
              IF ended THEN Idle
              ELSE [@ EXCEPT !.session = kept, !.action = None, !.record = "none", !.from = "none",
                             !.at = IF from = "load" THEN "send"
                                    ELSE IF a \in Bookings /\ s.done[a] = "succeeded" THEN "booked"
                                    ELSE "finish"]]
        /\ thread' = IF ended THEN None ELSE thread
        /\ UNCHANGED <<ledger, service>>

(* Wrong: an earlier payment of the order is not looked for.               *)
ContinueAnyway(h) ==
    LET s == run[h].session
    IN  /\ run[h].at = "booked"
        /\ \/ Go(h, "finish", s) /\ UNCHANGED checkpoint
           \/ \E p \in Payments :
                 LET asked == [s EXCEPT !.pending = p]
                 IN  /\ CanPrepare(s, p)
                     /\ \/ Go(h, "finish", asked) /\ UNCHANGED checkpoint
                        \/ Save(h, asked) /\ RunGraph(h, asked, p, "booking")
        /\ UNCHANGED <<thread, ledger, service>>

(* continueBooking: the order is paid for, as it was confirmed, or the     *)
(* customer is asked to confirm the payment.                               *)
ContinueBooking(h) ==
    LET s == run[h].session
        paidFor == \E p \in Payments : s.done[p] # "none"
    IN  /\ run[h].at = "booked"
        /\ \/ Go(h, "finish", s) /\ UNCHANGED checkpoint
           \/ \E p \in Payments :
                 LET asked == [s EXCEPT !.pending = p]
                 IN  /\ ~paidFor /\ CanPrepare(s, p)
                     /\ \/ Go(h, "finish", asked) /\ UNCHANGED checkpoint
                        \/ Save(h, asked) /\ RunGraph(h, asked, p, "booking")
        /\ UNCHANGED <<thread, ledger, service>>

-----------------------------------------------------------------------------
(* The services, whoever waits for them.                                   *)

Lands(a) ==
    /\ service[a].at = "running"
    /\ \E at \in {"written", "failed"} : service' = [service EXCEPT ![a].at = at]
    /\ UNCHANGED <<thread, checkpoint, ledger, run>>

PaymentFails(p) ==
    /\ service[p].at = "written"
    /\ service' = [service EXCEPT ![p].at = "undone"]
    /\ UNCHANGED <<thread, checkpoint, ledger, run>>

-----------------------------------------------------------------------------
Handle(h) ==
    \/ \E request \in Requests : Receive(h, request)
    \/ Drop(h) \/ Finish(h)
    \/ AskStatus(h) \/ Reconcile(h) \/ Resume(h) \/ Confirm(h) \/ Refuse(h) \/ Message(h)
    \/ Checkpoint(h) \/ \E a \in Actions : Prepare(h, a)
    \/ Validate(h) \/ Reserve(h) \/ GiveUp(h) \/ Call(h) \/ Return(h) \/ Lookup(h) \/ Project(h)
    \/ ContinueBooking(h)

Next ==
    \/ \E h \in Handlers : Handle(h)
    \/ LeaseEnds
    \/ \E a \in Actions : Lands(a)
    \/ \E p \in Payments : PaymentFails(p)

Spec == Init /\ [][Next]_vars

-----------------------------------------------------------------------------
(* Properties.                                                             *)

TypeOK ==
    /\ thread \in Handlers \cup {None}
    /\ checkpoint \in SessionRecords
    /\ ledger \in [Actions -> LedgerStatuses]
    /\ service \in [Actions -> ServiceRecords]
    /\ run \in [Handlers -> RunRecords]

(* What the customer confirmed is called once, and an order is paid for at *)
(* most once without his being asked, over crashes, requests sent again    *)
(* and leases that were taken over (mongo-action-ledger.ts:56,             *)
(* agent.service.ts:433).                                                  *)
CalledOnce ==
    /\ \A a \in Actions : service[a].calls <= 1
    /\ Cardinality({p \in Payments : service[p].automatic}) <= 1

(* The session tells the truth: nothing is written by an action that it    *)
(* says was rejected or has expired, an order it says was made is there,   *)
(* and an action that was called and is not decided is still before the    *)
(* customer (customer-workflow-runtime.ts:129, confirmed-action.graph.ts:  *)
(* 108, mongo-action-ledger.ts:71).                                        *)
SessionTrue ==
    \A a \in Actions :
        /\ checkpoint.done[a] = "refused" => service[a].at \in {"none", "failed", "undone"}
        /\ checkpoint.done[a] = "succeeded" =>
              \E b \in (IF a \in Bookings THEN {a} ELSE Payments) : service[b].at \in {"written", "undone"}
        /\ service[a].calls > 0 /\ ledger[a] \in LedgerOpen => checkpoint.pending = a

Assisted == INSTANCE AssistedOrder WITH
    effect <- [a \in Actions |-> service[a].at], decision <- checkpoint.done

(* All requests, leases, repeated answers and late services together keep  *)
(* what AssistedOrder promises of repeated attempts at one order: one of   *)
(* them makes it, it is paid for only once it is made, nothing is called   *)
(* that was decided before                                                 *)
(* (confirmed-action.graph.ts:108, mongo-action-ledger.ts:56).             *)
KeepsPromise == Assisted!Spec

(* A decision that was saved stays: no request that has lost its lease     *)
(* writes an older session over it (mongo-graph-access.ts:136).            *)
DecisionsStay ==
    [][\A a \in Actions :
          checkpoint.done[a] # "none" => checkpoint'.done[a] = checkpoint.done[a]]_vars

=================================================================================
