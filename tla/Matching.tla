------------------------------ MODULE Matching ------------------------------
(***************************************************************************)
(* How one order of Handigo finds a provider: dispatch.service.ts,         *)
(* assignment.service.ts, orderReassignment.service.ts and the matching    *)
(* part of order.service.ts, payment.service.ts and                        *)
(* orderCancellation.service.ts.                                           *)
(*                                                                         *)
(* The order, the offers (one OrderAssignment document per provider, by    *)
(* the unique index on orderId and providerId) live in MongoDB and survive *)
(* a crash.  A request handler, a timer or a monitor is a worker whose     *)
(* local variables live in memory.                                         *)
(* A worker's step is one database operation, or one transaction: between  *)
(* two steps of a worker any other worker may run, which is what an await  *)
(* allows.  A read that only decides whether to issue a conditional update *)
(* whose filter repeats the test is merged with that update.               *)
(*                                                                         *)
(* Whether a provider is online, near, solvent and free is an input: each  *)
(* of them may change between any two reads.                               *)
(*                                                                         *)
(* Time is not counted: a deadline passes by an action of its own, under   *)
(* the one constraint the code gives (an offer never outlives the search   *)
(* that sent it, line 551 of dispatch.service.ts).                         *)
(***************************************************************************)
EXTENDS Naturals, FiniteSets

CONSTANTS
    Providers,       \* the providers that may be offered the order
    Nobody,          \* null in a field that holds a provider
    Handlers,        \* workers that serve requests and fire timers
    Scanner,         \* the worker of startTimeoutMonitor, one scan at a time
    Monitor,         \* the worker of startReassignmentMonitor
    OrderTypes,      \* the orderType an order may have: "normal", "scheduled"
    Methods,         \* the payment method an order may have: "wallet", "payos"
    MaxAttempts,     \* MAX_MATCHING_ATTEMPTS
    DirectAttempts,  \* MAX_DIRECT_PROVIDER_ATTEMPTS
    BatchSize,       \* MATCHING_BATCH_SIZE
    MaxCrashes       \* bound of the model: how often the process crashes

Workers == Handlers \cup {Scanner, Monitor}

ASSUME ConstantsAssumption ==
    /\ Nobody \notin Providers
    /\ Scanner # Monitor
    /\ Scanner \notin Handlers
    /\ Monitor \notin Handlers
    /\ OrderTypes \subseteq {"normal", "scheduled"}
    /\ Methods \subseteq {"wallet", "payos"}
    /\ MaxAttempts \in Nat \ {0}
    /\ DirectAttempts \in Nat \ {0}
    /\ BatchSize \in Nat \ {0}
    /\ MaxCrashes \in Nat

VARIABLES
    order,       \* the Order document
    offer,       \* offer[p]: the OrderAssignment document of p, or none
    run,         \* run[w]: where worker w is, and its local variables
    recovering,  \* the scan in progress is scan(true), the one of the start-up
    crashes      \* how often the process has crashed

vars == <<order, offer, run, recovering, crashes>>

Statuses == {"created", "accepted", "in_progress", "completed", "cancelled"}
OfferStatuses == {"none", "pending", "accepted", "rejected", "timeout", "cancelled"}
Closed == {"rejected", "timeout", "cancelled"}
OfferTypes == {"dispatch", "appointment", "direct_request"}
BookingStatuses == {"not_required", "awaiting_provider", "confirmed", "rejected"}
ReplyStatuses == {"none", "awaiting_customer", "matching", "matched", "declined",
                  "expired", "failed"}

(* The steps of a worker, named for what it does next. *)
Steps == {"idle", "ready", "claim", "preferred", "ask", "askSend", "askNone", "tried",
          "load", "pending", "pick", "send", "cancel", "cancelling", "timeoutRead",
          "timeoutDirect", "giveBack", "anyPending", "rejectRead", "accept", "closeOthers",
          "create", "undo", "expire", "expired", "declined", "scanTimeouts", "scanReady",
          "scanActive", "activePending", "recover", "scanEnd"}

(* Where worker w is when it has nothing left to do. *)
Idle(back) == [pc |-> back, back |-> back, prov |-> Nobody, type |-> "dispatch",
               tried |-> {}, cand |-> {}, first |-> TRUE, late |-> FALSE, mode |-> "first"]

NoReply == [status |-> "none", automatic |-> FALSE, previous |-> {}, over |-> FALSE]

NoOffer == [status |-> "none", type |-> "dispatch", due |-> FALSE,
            sinceStart |-> FALSE, sinceReply |-> FALSE]

(* An offer that is no longer open.  What nothing reads any more is dropped: *)
(* the deadline and the type, and the age unless the provider declined.      *)
Close(o, status) ==
    IF status \in {"rejected", "timeout"}
    THEN [o EXCEPT !.status = status, !.type = "dispatch", !.due = FALSE]
    ELSE [NoOffer EXCEPT !.status = status]

-----------------------------------------------------------------------------
(* Helpers *)

(* Worker w goes on at a step that uses none of its variables, or keeps     *)
(* provider p for it; or it goes on with all it knows.                      *)
Goto(w, step) == run' = [run EXCEPT ![w] = [Idle(@.back) EXCEPT !.pc = step]]
GotoWith(w, step, p) ==
    run' = [run EXCEPT ![w] = [Idle(@.back) EXCEPT !.pc = step, !.prov = p]]
GoOn(w, step) == run' = [run EXCEPT ![w].pc = step]
Finish(w) == run' = [run EXCEPT ![w] = Idle(run[w].back)]
(* An exception that leaves the handler.  It aborts the whole scan, and the *)
(* scans that follow the start-up scan do not recover.                      *)
Abort(w) ==
    IF w = Scanner THEN /\ run' = [run EXCEPT ![w] = Idle("scanTimeouts")]
                        /\ recovering' = FALSE
                   ELSE Finish(w) /\ UNCHANGED recovering
(* Worker w leaves the point it waits at and starts a handler there. *)
Begin(w, record) == run' = [run EXCEPT ![w] = record]

Pending == {p \in Providers : offer[p].status = "pending"}

Dispatchable ==
    /\ order.status = "created"
    /\ order.readyForMatching
    /\ order.preferredProviderId = Nobody

hasProviderArrived ==
    order.providerId # Nobody /\ order.arrival = order.providerId

(* getTriedProviderState: who declined since the search in progress began,  *)
(* and, for a replacement, who already left the order.                      *)
TriedProviders ==
    LET replacing == order.reassignment.status = "matching"
        inWindow(p) == IF replacing THEN offer[p].sinceReply
                       ELSE order.matchingStartedAt => offer[p].sinceStart
    IN  {p \in Providers : offer[p].status \in {"rejected", "timeout"} /\ inWindow(p)}
          \cup (IF replacing THEN order.reassignment.previous ELSE {})

NewOffer(type, due) ==
    [status |-> "pending", type |-> type, due |-> due, sinceStart |-> TRUE, sinceReply |-> TRUE]

Scheduled == order.orderType = "scheduled"

DirectType == IF Scheduled THEN "appointment" ELSE "direct_request"
BatchType == IF Scheduled THEN "appointment" ELSE "dispatch"

(* matchingStartedAt, or respondedAt, becomes now: what was sent is older. *)
BeforeStart == [p \in Providers |-> [offer[p] EXCEPT !.sinceStart = FALSE]]
BeforeReply == [p \in Providers |-> [offer[p] EXCEPT !.sinceReply = FALSE]]

(* The transaction of cancelOrdersWithSettlement, as far as matching sees   *)
(* it: the order is cancelled and its pending offers with it.               *)
CancelCommit(reply) ==
    /\ order' = [order EXCEPT !.status = "cancelled", !.readyForMatching = FALSE,
                              !.reassignment.status = reply]
    /\ offer' = [p \in Providers |->
                   IF p \in Pending THEN Close(offer[p], "cancelled") ELSE offer[p]]

-----------------------------------------------------------------------------
(* The order is created unpaid and not ready; the customer may have chosen  *)
(* a provider (createOrder).                                                *)
Init ==
    /\ \E p \in Providers \cup {Nobody}, type \in OrderTypes, m \in Methods :
         order = [orderType |-> type, method |-> m, status |-> "created",
                  providerId |-> Nobody, preferredProviderId |-> p,
                  readyForMatching |-> FALSE, matchingStartedAt |-> FALSE,
                  matchingSearch |-> "none", bookingStatus |-> "not_required",
                  paid |-> FALSE, arrival |-> Nobody, reassignment |-> NoReply]
    /\ offer = [p \in Providers |-> NoOffer]
    /\ run = [w \in Workers |-> IF w = Scanner THEN Idle("scanTimeouts") ELSE Idle("idle")]
    /\ recovering = TRUE
    /\ crashes = 0

-----------------------------------------------------------------------------
(* Payment, providers, time and crashes *)

(* syncPaidPayosPaymentToOrder and the wallet payment: the first success    *)
(* makes the order ready; a QR payment already paid is synced again by      *)
(* every repeated webhook and every reconciliation.                         *)
SyncPayment(h) ==
    /\ run[h].pc = "idle"
    /\ ~order.paid \/ order.method = "payos"
    /\ order.status # "cancelled"
    /\ LET created == order.status = "created"
       IN  /\ order' = [order EXCEPT
                 !.paid = TRUE,
                 !.readyForMatching = created \/ @,
                 !.bookingStatus = IF Scheduled /\ order.status \in {"created", "accepted"}
                                   THEN IF order.providerId # Nobody THEN "confirmed"
                                        ELSE "awaiting_provider"
                                   ELSE @]
           /\ IF created THEN Goto(h, "ready") ELSE UNCHANGED run
    /\ UNCHANGED <<offer, recovering, crashes>>

(* An offer reaches its responseDeadline. *)
OfferExpires(p) ==
    /\ offer[p].status = "pending" /\ ~offer[p].due
    /\ offer' = [offer EXCEPT ![p].due = TRUE]
    /\ UNCHANGED <<order, run, recovering, crashes>>

(* The search reaches its expiresAt; the offers it sent, and the deadlines  *)
(* a batch in flight has computed, have passed by then.                     *)
SearchExpires ==
    /\ order.matchingSearch = "open"
    /\ order' = [order EXCEPT !.matchingSearch = "over"]
    /\ offer' = [p \in Providers |->
                   IF p \in Pending THEN [offer[p] EXCEPT !.due = TRUE] ELSE offer[p]]
    /\ run' = [w \in Workers |->
                 [run[w] EXCEPT !.late = @ \/ run[w].pc \in {"pending", "pick", "send"}]]
    /\ UNCHANGED <<recovering, crashes>>

(* The customer's time to answer runs out. *)
ReplyExpires ==
    /\ order.reassignment.status = "awaiting_customer" /\ ~order.reassignment.over
    /\ order' = [order EXCEPT !.reassignment.over = TRUE]
    /\ UNCHANGED <<offer, run, recovering, crashes>>

(* The process dies and is started again: what was in memory is lost, the   *)
(* monitors start, and the first scan is scan(true).                        *)
Crash ==
    /\ crashes < MaxCrashes
    /\ crashes' = crashes + 1
    /\ run' = [w \in Workers |-> IF w = Scanner THEN Idle("scanTimeouts") ELSE Idle("idle")]
    /\ recovering' = TRUE
    /\ UNCHANGED <<order, offer>>

-----------------------------------------------------------------------------
(* dispatchReadyOrder: start the matching of a paid order *)

(* The first read; preferredProviderId is used after the claim's await. *)
ReadReady(w) ==
    /\ run[w].pc = "ready"
    /\ IF /\ order.status = "created" /\ order.readyForMatching /\ ~order.matchingStartedAt
       THEN GotoWith(w, "claim", order.preferredProviderId)
       ELSE Finish(w)
    /\ UNCHANGED <<order, offer, recovering, crashes>>

(* The conditional update that lets one worker start the matching. *)
ClaimMatching(w) ==
    /\ run[w].pc = "claim"
    /\ IF /\ order.status = "created" /\ order.readyForMatching /\ ~order.matchingStartedAt
       THEN /\ order' = [order EXCEPT
                  !.matchingStartedAt = TRUE,
                  !.matchingSearch = IF run[w].prov # Nobody THEN "none" ELSE "open"]
            /\ offer' = BeforeStart
            /\ IF order.preferredProviderId # Nobody
               THEN GotoWith(w, "preferred", order.preferredProviderId)
               ELSE Goto(w, "tried")
       ELSE Finish(w) /\ UNCHANGED <<order, offer>>
    /\ UNCHANGED <<recovering, crashes>>

(* findDirectProvider: is the chosen provider online, near and free, with   *)
(* the money for the fee?                                                   *)
FindPreferred(w) ==
    /\ run[w].pc = "preferred"
    /\ \/ GoOn(w, "ask")
       \/ Goto(w, "askNone")
    /\ UNCHANGED <<order, offer, recovering, crashes>>

AwaitPreferred(w) ==
    /\ run[w].pc = "ask"
    /\ order' = IF order.status = "created"
                THEN [order EXCEPT !.bookingStatus = "awaiting_provider"] ELSE order
    /\ GoOn(w, "askSend")
    /\ UNCHANGED <<offer, recovering, crashes>>

(* sendDirectProviderRequest: reopen a closed offer or create one; the      *)
(* unique index makes the creation fail when the offer is still open.       *)
SendDirect(w) ==
    /\ run[w].pc = "askSend"
    /\ IF offer[run[w].prov].status \in Closed \cup {"none"}
       THEN /\ offer' = [offer EXCEPT ![run[w].prov] = NewOffer(DirectType, FALSE)]
            /\ Finish(w)
            /\ UNCHANGED recovering
       ELSE Abort(w) /\ UNCHANGED offer
    /\ UNCHANGED <<order, crashes>>

(* Slip: the order given back stays ready for the scan. *)
BackToCustomerReady(o) ==
    IF o.status = "created"
    THEN [o EXCEPT !.bookingStatus = "rejected", !.preferredProviderId = Nobody,
                   !.matchingStartedAt = FALSE]
    ELSE o

(* The order goes back to the customer: choose somebody else. *)
BackToCustomer(o) ==
    IF o.status = "created"
    THEN [o EXCEPT !.bookingStatus = "rejected", !.preferredProviderId = Nobody,
                   !.readyForMatching = FALSE, !.matchingStartedAt = FALSE]
    ELSE o

PreferredUnavailable(w) ==
    /\ run[w].pc = "askNone"
    /\ order' = BackToCustomer(order)
    /\ Finish(w)
    /\ UNCHANGED <<offer, recovering, crashes>>

-----------------------------------------------------------------------------
(* dispatchOrder: offer the order to the next batch of providers *)

ReadTried(w) ==
    /\ run[w].pc = "tried"
    /\ run' = [run EXCEPT ![w].pc = "load", ![w].tried = TriedProviders]
    /\ UNCHANGED <<order, offer, recovering, crashes>>

(* The order is read; a missing search is created, and the order read again. *)
LoadOrder(w) ==
    /\ run[w].pc = "load"
    /\ IF ~Dispatchable
       THEN Finish(w) /\ UNCHANGED order
       ELSE IF order.matchingSearch = "none"
       THEN order' = [order EXCEPT !.matchingSearch = "open"] /\ UNCHANGED run
       ELSE /\ run' = [run EXCEPT
                 ![w].pc = IF order.matchingSearch = "over" THEN "cancel" ELSE "pending",
                 ![w].mode = IF order.reassignment.status # "matching" THEN "first"
                             ELSE IF order.reassignment.automatic THEN "automatic" ELSE "direct"]
            /\ UNCHANGED order
    /\ UNCHANGED <<offer, recovering, crashes>>

(* Who agrees to one more search after a refusal is tried for less long. *)
Limit(mode) == IF mode = "direct" THEN DirectAttempts ELSE MaxAttempts

(* Somebody is still thinking; or the search is over, or too many declined. *)
CheckPending(w) ==
    /\ run[w].pc = "pending"
    /\ IF Pending # {} THEN Finish(w)
       ELSE IF \/ run[w].late
               \/ /\ run[w].mode # "automatic"
                  /\ Cardinality(run[w].tried) >= Limit(run[w].mode)
       THEN Goto(w, "cancel") ELSE GoOn(w, "pick")
    /\ UNCHANGED <<order, offer, recovering, crashes>>

(* findNearestProviders, cut to candidateLimit: any providers not tried     *)
(* before, as being online, distance, wallet and calendar may rule out some. *)
PickCandidates(w) ==
    LET left == MaxAttempts - Cardinality(run[w].tried)
        limit == CASE run[w].mode = "automatic" -> BatchSize
                   [] run[w].mode = "direct" -> 1
                   [] OTHER -> IF BatchSize < left THEN BatchSize ELSE left
    IN  /\ run[w].pc = "pick"
        /\ \E C \in SUBSET (Providers \ run[w].tried) :
             /\ Cardinality(C) <= limit
             /\ IF C = {} \/ run[w].late THEN Finish(w)
                ELSE run' = [run EXCEPT ![w] = [Idle(@.back) EXCEPT !.pc = "send", !.cand = C]]
        /\ UNCHANGED <<order, offer, recovering, crashes>>

(* sendAssignmentBatch, one candidate at a time: a closed offer is reopened, *)
(* a missing one created.  The duplicate-key error of an open offer ends the *)
(* batch on the first candidate and is skipped on the others.                *)
SendOffer(w) ==
    /\ run[w].pc = "send"
    /\ \E p \in run[w].cand :
         LET dup == offer[p].status \notin Closed \cup {"none"}
         IN  /\ offer' = IF dup THEN offer
                         ELSE [offer EXCEPT ![p] = NewOffer(BatchType, run[w].late)]
             /\ IF run[w].cand = {p} \/ (dup /\ run[w].first) THEN Finish(w)
                ELSE run' = [run EXCEPT ![w].cand = @ \ {p}, ![w].first = FALSE]
    /\ UNCHANGED <<order, recovering, crashes>>

(* cancelUnmatchedOrder: nobody was found.  A worker that finds a           *)
(* cancellation of the process in flight has nothing to do but to wait.     *)
CancelUnmatched(w) ==
    /\ run[w].pc = "cancel"
    /\ IF \E v \in Workers : run[v].pc = "cancelling" THEN Finish(w) ELSE Goto(w, "cancelling")
    /\ UNCHANGED <<order, offer, recovering, crashes>>

(* Slip: the cancellation is not restricted to an order still created. *)
CommitUnmatchedAny(w) ==
    /\ run[w].pc = "cancelling"
    /\ CancelCommit(order.reassignment.status)
    /\ Finish(w)
    /\ UNCHANGED <<recovering, crashes>>

(* Its transaction leaves an order alone that somebody has just taken; the  *)
(* failed automatic replacement is marked "failed".                         *)
CommitUnmatched(w) ==
    /\ run[w].pc = "cancelling"
    /\ IF order.status # "created" THEN UNCHANGED <<order, offer>>
       ELSE CancelCommit(IF order.reassignment.status = "matching" /\ order.reassignment.automatic
                         THEN "failed" ELSE order.reassignment.status)
    /\ Finish(w)
    /\ UNCHANGED <<recovering, crashes>>

-----------------------------------------------------------------------------
(* _onAssignmentTimeout: fired by the timer of an offer, or by the scan *)

TimeoutOffer(w, p) ==
    /\ offer[p].status = "pending" /\ offer[p].due
    /\ offer' = [offer EXCEPT ![p] = Close(@, "timeout")]
    /\ Begin(w, [run[w] EXCEPT !.pc = "timeoutRead", !.prov = p, !.type = offer[p].type])

TimerFires(h, p) ==
    /\ run[h].pc = "idle"
    /\ TimeoutOffer(h, p)
    /\ UNCHANGED <<order, recovering, crashes>>

AfterTimeout(w) ==
    /\ run[w].pc = "timeoutRead"
    /\ IF order.status # "created" THEN Finish(w)
       ELSE IF run[w].type = "appointment" /\ order.preferredProviderId # Nobody
       THEN GoOn(w, "giveBack")
       ELSE IF run[w].type = "direct_request" THEN Goto(w, "timeoutDirect")
       ELSE Goto(w, "anyPending")
    /\ UNCHANGED <<order, offer, recovering, crashes>>

DirectTimedOut(w) ==
    /\ run[w].pc = "timeoutDirect"
    /\ order' = BackToCustomer(order)
    /\ Finish(w)
    /\ UNCHANGED <<offer, recovering, crashes>>

(* requestDirectProviderReassignment: the chosen provider declined, so the  *)
(* customer is asked whether Handigo may look for another one.              *)
AskCustomer(w) ==
    /\ run[w].pc = "giveBack"
    /\ LET p == run[w].prov
       IN  order' = IF /\ order.status = "created" /\ order.providerId = Nobody
                       /\ order.preferredProviderId = p
                    THEN [BackToCustomer(order) EXCEPT
                            !.reassignment = [status |-> "awaiting_customer", automatic |-> FALSE,
                                              previous |-> {p}, over |-> FALSE]]
                    ELSE order
    /\ Finish(w)
    /\ UNCHANGED <<offer, recovering, crashes>>

(* After a timeout or a rejection: look for others once nobody is asked. *)
AnyPending(w) ==
    /\ run[w].pc = "anyPending"
    /\ IF Pending # {} THEN Finish(w) ELSE Goto(w, "tried")
    /\ UNCHANGED <<order, offer, recovering, crashes>>

-----------------------------------------------------------------------------
(* rejectAssignment: a provider declines; no deadline and no availability   *)
(* is checked.                                                              *)
RejectOffer(h, p) ==
    /\ run[h].pc = "idle"
    /\ offer[p].status = "pending"
    /\ offer' = [offer EXCEPT ![p] = Close(@, "rejected")]
    /\ Begin(h, [run[h] EXCEPT !.pc = "rejectRead", !.prov = p, !.type = offer[p].type])
    /\ UNCHANGED <<order, recovering, crashes>>

AfterReject(w) ==
    /\ run[w].pc = "rejectRead"
    /\ IF \/ run[w].type = "appointment" /\ order.preferredProviderId # Nobody
          \/ run[w].type = "direct_request"
       THEN GoOn(w, "giveBack") ELSE Goto(w, "anyPending")
    /\ UNCHANGED <<order, offer, recovering, crashes>>

-----------------------------------------------------------------------------
(* acceptAssignment *)

(* The checks made before the transaction. *)
CheckAccept(h, p) ==
    /\ run[h].pc = "idle"
    /\ offer[p].status = "pending" /\ ~offer[p].due
    /\ Begin(h, [run[h] EXCEPT !.pc = "accept", !.prov = p, !.type = offer[p].type])
    /\ UNCHANGED <<order, offer, recovering, crashes>>

(* The transaction: the order is taken and the offer accepted together.     *)
(* The calendar of the provider may refuse it (the second disjunct).        *)
AcceptOffer(w) ==
    LET p == run[w].prov
    IN  /\ run[w].pc = "accept"
        /\ \/ /\ order.status = "created" /\ order.providerId = Nobody
              /\ run[w].type # "appointment" => order.readyForMatching
              /\ order.paid
              /\ offer[p].status = "pending" /\ ~offer[p].due
              /\ offer' = [offer EXCEPT ![p] = Close(@, "accepted")]
              /\ order' = [order EXCEPT
                    !.arrival = Nobody, !.providerId = p, !.status = "accepted",
                    !.readyForMatching = FALSE,
                    !.bookingStatus = IF run[w].type = "appointment" THEN "confirmed" ELSE @,
                    !.reassignment.status = IF @ = "matching" THEN "matched" ELSE @]
              /\ GotoWith(w, "closeOthers", p)
           \/ Finish(w) /\ UNCHANGED <<order, offer>>
        /\ UNCHANGED <<recovering, crashes>>

(* closeCompetingAssignments, after the commit: a crash before it leaves    *)
(* the other offers pending.                                                *)
CloseCompeting(w) ==
    /\ run[w].pc = "closeOthers"
    /\ offer' = [p \in Providers |->
                   IF p \in Pending \ {run[w].prov}
                   THEN Close(offer[p], "cancelled") ELSE offer[p]]
    /\ Finish(w)
    /\ UNCHANGED <<order, recovering, crashes>>

-----------------------------------------------------------------------------
(* The provider who holds the order *)

(* Slip: the offer of the provider who leaves stays accepted. *)
LeaveOrderKeepingOffer(h) ==
    LET p == order.providerId
    IN  /\ run[h].pc = "idle"
        /\ order.status = "accepted" /\ ~hasProviderArrived
        /\ order' = [order EXCEPT
              !.status = "created", !.providerId = Nobody, !.preferredProviderId = Nobody,
              !.readyForMatching = TRUE, !.matchingStartedAt = FALSE,
              !.matchingSearch = "none", !.bookingStatus = "not_required",
              !.reassignment = [status |-> "matching", automatic |-> TRUE,
                                previous |-> @.previous \cup {p}, over |-> FALSE]]
        /\ offer' = BeforeReply
        /\ Goto(h, "ready")
        /\ UNCHANGED <<recovering, crashes>>

(* requestProviderReassignment: the provider leaves before arriving.  The   *)
(* order is searched again by itself; who has left is remembered.  A        *)
(* provider who has arrived cancels the order instead.                      *)
LeaveOrder(h) ==
    LET p == order.providerId
    IN  /\ run[h].pc = "idle"
        /\ order.status = "accepted"
        /\ IF hasProviderArrived
           THEN CancelCommit(order.reassignment.status) /\ UNCHANGED run
           ELSE /\ order' = [order EXCEPT
                     !.status = "created", !.providerId = Nobody, !.preferredProviderId = Nobody,
                     !.readyForMatching = TRUE, !.matchingStartedAt = FALSE,
                     !.matchingSearch = "none", !.bookingStatus = "not_required",
                     !.reassignment = [status |-> "matching", automatic |-> TRUE,
                                       previous |-> @.previous \cup {p}, over |-> FALSE]]
                /\ offer' = [BeforeReply EXCEPT
                     ![p] = IF @.status = "accepted" THEN Close(@, "cancelled") ELSE @]
                /\ Goto(h, "ready")
        /\ UNCHANGED <<recovering, crashes>>

MarkArrival ==
    /\ order.status = "accepted" /\ ~hasProviderArrived
    /\ Scheduled => order.bookingStatus = "confirmed"
    /\ order' = [order EXCEPT !.arrival = order.providerId]
    /\ UNCHANGED <<offer, run, recovering, crashes>>

StartOrder ==
    /\ order.status = "accepted"
    /\ Scheduled => order.bookingStatus = "confirmed"
    /\ order' = [order EXCEPT !.status = "in_progress"]
    /\ UNCHANGED <<offer, run, recovering, crashes>>

CompleteOrder ==
    /\ order.status = "in_progress"
    /\ order' = [order EXCEPT !.status = "completed"]
    /\ UNCHANGED <<offer, run, recovering, crashes>>

-----------------------------------------------------------------------------
(* The customer and the administrator *)

(* cancelOrder: the customer before the work starts (for how long after the *)
(* acceptance is a policy of its own), or an administrator.                 *)
CancelOrder ==
    /\ order.status \in {"created", "accepted"}
    /\ CancelCommit(order.reassignment.status)
    /\ UNCHANGED <<run, recovering, crashes>>

(* respondToProviderReassignment, the customer lets Handigo look. *)
AgreeToSearch(h) ==
    /\ run[h].pc = "idle"
    /\ order.status = "created"
    /\ order.reassignment.status = "awaiting_customer" /\ ~order.reassignment.over
    /\ order' = [order EXCEPT !.reassignment.status = "matching", !.bookingStatus = "not_required",
                              !.readyForMatching = TRUE, !.matchingStartedAt = FALSE]
    /\ offer' = BeforeReply
    /\ Goto(h, "ready")
    /\ UNCHANGED <<recovering, crashes>>

(* The customer declines, or answers too late: a first write records it and *)
(* a transaction cancels the order.                                         *)
DeclineSearch(h) ==
    /\ run[h].pc = "idle"
    /\ order.status = "created"
    /\ order.reassignment.status = "awaiting_customer"
    /\ LET reply == IF order.reassignment.over THEN "expired" ELSE "declined"
       IN  /\ order' = [order EXCEPT !.reassignment.status = reply]
           /\ Goto(h, reply)
    /\ UNCHANGED <<offer, recovering, crashes>>

(* The cancellation that follows, by the customer or by the system, is not  *)
(* restricted to an order that nobody has taken.                            *)
CancelAfterReply(w) ==
    /\ run[w].pc \in {"declined", "expired"}
    /\ Finish(w)
    /\ IF order.status \in {"created", "accepted"}
       THEN CancelCommit(order.reassignment.status) ELSE UNCHANGED <<order, offer>>
    /\ UNCHANGED <<recovering, crashes>>

(* selectAppointmentProvider: the customer chooses provider p.  The update  *)
(* is conditional on the version that was read.                             *)
SelectProvider(h, p) ==
    LET replacing == order.reassignment.status = "awaiting_customer"
    IN  /\ run[h].pc = "idle"
        /\ order.status = "created" /\ order.providerId = Nobody
        /\ order.bookingStatus = "rejected" \/ replacing
        /\ replacing => ~order.reassignment.over
        /\ p \notin order.reassignment.previous
        /\ offer[p].status \notin {"rejected", "timeout"}
        /\ order' = [order EXCEPT
              !.preferredProviderId = p, !.bookingStatus = "awaiting_provider",
              !.readyForMatching = ~Scheduled,
              !.reassignment.status = IF replacing THEN "matching" ELSE @]
        /\ offer' = IF replacing THEN BeforeReply ELSE offer
        /\ GotoWith(h, "create", p)
        /\ UNCHANGED <<recovering, crashes>>

(* Its second step creates the offer, and tells the provider; when either   *)
(* fails, the selection is undone.                                          *)
CreateDirect(w) ==
    /\ run[w].pc = "create"
    /\ IF offer[run[w].prov].status = "none"
       THEN /\ offer' = [offer EXCEPT ![run[w].prov] = NewOffer(DirectType, FALSE)]
            /\ Finish(w) \/ Goto(w, "undo")
       ELSE Goto(w, "undo") /\ UNCHANGED offer
    /\ UNCHANGED <<order, recovering, crashes>>

(* Slip: the selection is undone whatever became of the order meanwhile. *)
UndoSelectionAny(w) ==
    /\ run[w].pc = "undo"
    /\ order' = [order EXCEPT !.bookingStatus = "rejected", !.preferredProviderId = Nobody]
    /\ Finish(w)
    /\ UNCHANGED <<offer, recovering, crashes>>

UndoSelection(w) ==
    /\ run[w].pc = "undo"
    /\ order' = IF order.bookingStatus = "awaiting_provider"
                THEN [order EXCEPT !.bookingStatus = "rejected", !.preferredProviderId = Nobody]
                ELSE order
    /\ Finish(w)
    /\ UNCHANGED <<offer, recovering, crashes>>

(* redispatch, on the request of an administrator. *)
Redispatch(h) ==
    /\ run[h].pc = "idle"
    /\ order.status = "created"
    /\ Goto(h, "tried")
    /\ UNCHANGED <<order, offer, recovering, crashes>>

-----------------------------------------------------------------------------
(* The monitors *)

(* Slip: only the answered questions are listed. *)
FindRepliesAnswered ==
    /\ run[Monitor].pc = "idle"
    /\ order.status = "created" /\ order.reassignment.status \in {"declined", "expired"}
    /\ Goto(Monitor, "expire")
    /\ UNCHANGED <<order, offer, recovering, crashes>>

(* expirePendingReassignments: the list of unanswered questions, and of the  *)
(* answered ones whose cancellation did not come off.                       *)
FindReplies ==
    /\ run[Monitor].pc = "idle"
    /\ order.status = "created"
    /\ \/ order.reassignment.status = "awaiting_customer" /\ order.reassignment.over
       \/ order.reassignment.status \in {"declined", "expired"}
    /\ Goto(Monitor, "expire")
    /\ UNCHANGED <<order, offer, recovering, crashes>>

(* One order of the list, read again: a question still open is claimed.     *)
ExpireReply ==
    /\ run[Monitor].pc = "expire"
    /\ IF order.status # "created" THEN Finish(Monitor) ELSE Goto(Monitor, "expired")
    /\ order' = IF order.status = "created" /\ order.reassignment.status = "awaiting_customer"
                THEN [order EXCEPT !.reassignment.status = "expired"] ELSE order
    /\ UNCHANGED <<offer, recovering, crashes>>

(* Slip: the scan looks for one type of offer only. *)
ScanTimeoutsDispatch ==
    /\ run[Scanner].pc = "scanTimeouts"
    /\ \/ \E p \in Providers : offer[p].type = "dispatch" /\ TimeoutOffer(Scanner, p)
       \/ /\ \A p \in Pending : offer[p].type = "dispatch" => ~offer[p].due
          /\ Begin(Scanner, Idle("scanReady")) /\ UNCHANGED offer
    /\ UNCHANGED <<order, recovering, crashes>>

(* scanOnce, part 1: the offers whose deadline passed. *)
ScanTimeouts ==
    /\ run[Scanner].pc = "scanTimeouts"
    /\ \/ \E p \in Providers : TimeoutOffer(Scanner, p)
       \/ /\ \A p \in Pending : ~offer[p].due
          /\ Begin(Scanner, Idle("scanReady")) /\ UNCHANGED offer
    /\ UNCHANGED <<order, recovering, crashes>>

(* Part 2: the orders whose matching has not started. *)
ScanReady ==
    /\ run[Scanner].pc = "scanReady"
    /\ IF order.status = "created" /\ order.readyForMatching /\ ~order.matchingStartedAt
       THEN Begin(Scanner, [Idle("scanActive") EXCEPT !.pc = "ready"])
       ELSE Begin(Scanner, Idle("scanActive"))
    /\ UNCHANGED <<order, offer, recovering, crashes>>

(* Part 3: the orders being matched; preferredProviderId is used below as   *)
(* it was when the list was read.                                           *)
ScanActive ==
    /\ run[Scanner].pc = "scanActive"
    /\ IF order.status = "created" /\ order.readyForMatching /\ order.matchingStartedAt
       THEN Begin(Scanner, [Idle("scanEnd") EXCEPT !.pc = "activePending",
                                                   !.prov = order.preferredProviderId])
       ELSE Begin(Scanner, Idle("scanEnd"))
    /\ UNCHANGED <<order, offer, recovering, crashes>>

(* Slip: an order that nobody is asked for is left to its timers. *)
ScanStalledWaiting ==
    /\ run[Scanner].pc = "activePending"
    /\ IF Pending = {} /\ run[Scanner].prov # Nobody /\ recovering
       THEN Goto(Scanner, "recover") ELSE Finish(Scanner)
    /\ UNCHANGED <<order, offer, recovering, crashes>>

(* A stalled order is dispatched again; one that waits for a chosen         *)
(* provider only by the scan of the start-up.                               *)
ScanStalled ==
    /\ run[Scanner].pc = "activePending"
    /\ IF Pending # {} THEN Finish(Scanner)
       ELSE IF run[Scanner].prov = Nobody THEN Goto(Scanner, "tried")
       ELSE IF recovering THEN Goto(Scanner, "recover") ELSE Finish(Scanner)
    /\ UNCHANGED <<order, offer, recovering, crashes>>

RestartMatching ==
    /\ run[Scanner].pc = "recover"
    /\ order' = IF order.status = "created" THEN [order EXCEPT !.matchingStartedAt = FALSE] ELSE order
    /\ Goto(Scanner, "ready")
    /\ UNCHANGED <<offer, recovering, crashes>>

EndScan ==
    /\ run[Scanner].pc = "scanEnd"
    /\ Begin(Scanner, Idle("scanTimeouts"))
    /\ recovering' = FALSE
    /\ UNCHANGED <<order, offer, crashes>>

-----------------------------------------------------------------------------
(* The specification *)

(* What a worker does once it has started. *)
Work(w) ==
    \/ ReadReady(w) \/ ClaimMatching(w) \/ FindPreferred(w) \/ AwaitPreferred(w)
    \/ SendDirect(w) \/ PreferredUnavailable(w) \/ ReadTried(w) \/ LoadOrder(w)
    \/ CheckPending(w) \/ PickCandidates(w) \/ SendOffer(w) \/ CancelUnmatched(w)
    \/ CommitUnmatched(w)
    \/ AfterTimeout(w) \/ DirectTimedOut(w) \/ AskCustomer(w) \/ AnyPending(w)
    \/ AfterReject(w) \/ AcceptOffer(w) \/ CloseCompeting(w) \/ CancelAfterReply(w)
    \/ CreateDirect(w) \/ UndoSelection(w)

Scan == ScanTimeouts \/ ScanReady \/ ScanActive \/ ScanStalled \/ RestartMatching \/ EndScan

ExpireReplies == FindReplies \/ ExpireReply

(* What people do. *)
Request(h) ==
    \/ SyncPayment(h) \/ LeaveOrder(h) \/ AgreeToSearch(h) \/ DeclineSearch(h) \/ Redispatch(h)
    \/ \E p \in Providers :
         TimerFires(h, p) \/ RejectOffer(h, p) \/ CheckAccept(h, p) \/ SelectProvider(h, p)

Environment == MarkArrival \/ StartOrder \/ CompleteOrder \/ CancelOrder

Time == SearchExpires \/ ReplyExpires \/ \E p \in Providers : OfferExpires(p)

Next ==
    \/ \E w \in Workers : Work(w)
    \/ Scan
    \/ ExpireReplies
    \/ \E h \in Handlers : Request(h)
    \/ Environment
    \/ Time
    \/ Crash

(* A step that has been awaited is resumed, the monitors run on their       *)
(* intervals, and deadlines pass.  Nothing is assumed of the people.        *)
Fairness ==
    /\ \A w \in Workers : WF_vars(Work(w))
    /\ WF_vars(Scan)
    /\ WF_vars(ExpireReplies)
    /\ WF_vars(SearchExpires)
    /\ WF_vars(ReplyExpires)
    /\ \A p \in Providers : WF_vars(OfferExpires(p))

Spec == Init /\ [][Next]_vars

FairSpec == Spec /\ Fairness

-----------------------------------------------------------------------------
(* Properties *)

OfferRecords == [status : OfferStatuses, type : OfferTypes, due : BOOLEAN,
                 sinceStart : BOOLEAN, sinceReply : BOOLEAN]

Replies == [status : ReplyStatuses, automatic : BOOLEAN, previous : SUBSET Providers,
            over : BOOLEAN]

OrderRecords == [orderType : OrderTypes, method : Methods, status : Statuses,
                 providerId : Providers \cup {Nobody},
                 preferredProviderId : Providers \cup {Nobody},
                 readyForMatching : BOOLEAN, matchingStartedAt : BOOLEAN,
                 matchingSearch : {"none", "open", "over"}, bookingStatus : BookingStatuses,
                 paid : BOOLEAN, arrival : Providers \cup {Nobody}, reassignment : Replies]

(* Where a worker waits, and where it knows for whom it answers. *)
Waiting == {"idle", "scanTimeouts", "scanReady", "scanActive", "scanEnd"}
Answering == {"timeoutRead", "rejectRead", "giveBack", "accept"}

WorkerRecords == [pc : Steps, back : Waiting, prov : Providers \cup {Nobody},
                  type : OfferTypes, tried : SUBSET Providers, cand : SUBSET Providers,
                  first : BOOLEAN, late : BOOLEAN, mode : {"first", "automatic", "direct"}]

TypeOK ==
    /\ order \in OrderRecords
    /\ offer \in [Providers -> OfferRecords]
    /\ run \in [Workers -> WorkerRecords]
    /\ \A w \in Workers : run[w].pc \in Answering => run[w].prov \in Providers
    /\ recovering \in BOOLEAN
    /\ crashes \in 0..MaxCrashes

Held == {"accepted", "in_progress", "completed"}

(* The order and its offers agree on who holds it, although a dozen         *)
(* handlers write the two documents: an order being matched has no holder   *)
(* and no accepted offer, and an order taken has one holder, whose offer is *)
(* the only accepted one (acceptAssignment, requestProviderReassignment).   *)
HolderMatchesOffer ==
    /\ order.status = "created" => order.providerId = Nobody
    /\ order.status \in Held => order.providerId \in Providers
    /\ order.status # "cancelled" =>
         \A p \in Providers : offer[p].status = "accepted" <=> p = order.providerId

(* The customer is asked whether Handigo may look for somebody else.        *)
Asked == order.status = "created" /\ order.reassignment.status = "awaiting_customer"

(* While the customer is asked, no matching can start                       *)
(* (requestDirectProviderReassignment clears readyForMatching,              *)
(* respondToProviderReassignment sets it).  An order paid by QR breaks it.  *)
ConsentBeforeSearch == Asked => ~order.readyForMatching

(* A QR payment that is paid already is synced once more.                   *)
Resync(h) == order.paid /\ order.method = "payos" /\ SyncPayment(h)

(* Nothing else lets a matching start while the customer is asked: not what *)
(* handlers, timers and monitors had under way when he was, and not what    *)
(* they begin before he answers.  An order paid by wallet is never searched *)
(* without his consent.                                                     *)
OnlyResyncSkipsConsent ==
    [][~ConsentBeforeSearch' => ~ConsentBeforeSearch \/ \E h \in Handlers : Resync(h)]_vars

(* A provider who has taken an appointment can start it: the order is       *)
(* confirmed whatever undid or repeated a selection meanwhile (startOrder   *)
(* and markProviderArrival refuse an appointment that is not confirmed).    *)
AppointmentConfirmed ==
    Scheduled /\ order.status \in Held => order.bookingStatus = "confirmed"

(* The order as the customer sees it. *)
Stage == IF order.status = "created" THEN IF order.paid THEN "waiting" ELSE "unpaid"
         ELSE order.status

Lifecycle == INSTANCE OrderLifecycle WITH stage <- Stage, holder <- order.providerId

(* All the handlers, timers and monitors together keep the life cycle the   *)
(* platform promises: no second holder, nothing cancelled once the work has *)
(* started, nothing revived (dispatch, assignment, reassignment and         *)
(* cancellation services).                                                  *)
KeepsLifecycle == Lifecycle!Spec

(* A search among all providers ends, whatever crash or lost timer comes in *)
(* between: somebody takes the order, it is cancelled, or it goes back to   *)
(* the customer (dispatchOrder, scanTimeouts).                              *)
SearchEnds == Dispatchable ~> ~Dispatchable

(* The customer who is asked answers, or the monitor answers for him. *)
ReplyEnds == Asked ~> ~Asked

(* An offer does not stay open for ever, even if its timer died with the    *)
(* process: the scan closes it (startTimeoutMonitor).                       *)
OfferEnds == \A p \in Providers : offer[p].status = "pending" ~> offer[p].status # "pending"

=============================================================================
