------------------------------- MODULE Moderation -------------------------------
(***************************************************************************)
(* Reports and support tickets about a user, the violations that are       *)
(* recorded for them, and the lock of the user's account: report.service,  *)
(* supportTicket.service, violation.service, penaltyPolicy.service, and    *)
(* the status of a user in admin.service and user.service.                 *)
(*                                                                         *)
(* A report is handled in transactions that write it first (lockReport),   *)
(* and so is a violation: each is one action.  A handler of a ticket reads *)
(* it, decides, and saves it only in the version it read.  The lock of the *)
(* account is set by a violation or by the administrator, who looks at the *)
(* account before; a temporary lock remembers the violation it comes from  *)
(* and is lifted by a monitor, or by the next request of the user.         *)
(*                                                                         *)
(* One account, of a confirmed address: a second registration of another   *)
(* makes it active again, see Accounts.  A case leads to one violation at  *)
(* most, which is known by its case.  The report of a customer's no-show,  *)
(* reviewed on its own (customerNoShow.service.ts), texts, files, and whom *)
(* a ticket is assigned to are left out.                                   *)
(*                                                                         *)
(* UserProofs extends this module and Accounts, so names that both would   *)
(* use carry Case or review here.                                          *)
(***************************************************************************)
EXTENDS FiniteSets

CONSTANTS
    Reports, Tickets,
    Reviewers,     \* requests about a ticket that are in progress at a time
    NoCase         \* no violation, no case

Cases == Reports \cup Tickets

ASSUME ModerationAssumption ==
    /\ Reports \cap Tickets = {}
    /\ NoCase \notin Cases

VARIABLES
    user,        \* User: its status and temporaryLockId
    case,        \* Report or SupportTicket: its status
    violation,   \* Violation made of a case
    review,      \* what a request about a ticket read
    admin        \* updateUserStatus in progress

caseVars == <<user, case, violation, review, admin>>

-----------------------------------------------------------------------------
(* Records.                                                                *)

ReportStatuses ==
    {"none", "pending", "under_review", "evidence_requested", "confirmed", "resolved",
     "rejected", "cancelled"}

TicketStatuses ==
    {"none", "open", "in_progress", "waiting_user", "resolved", "closed", "cancelled"}

ReportEnded == {"confirmed", "resolved", "rejected", "cancelled"}

TicketEnded == {"resolved", "closed", "cancelled"}

(* byHand: history, the administrator was the last to set the status.      *)
UserRecords ==
    [status : {"active", "locked"}, tempLock : Cases \cup {NoCase},
     deleted : BOOLEAN, byHand : BOOLEAN]

(* ended: endAt has passed.  permanent: PERMANENT_BAN, account_locked and  *)
(* provider_suspended.                                                     *)
ViolationRecords ==
    [status : {"none", "active", "resolved"}, penalty : {"warning", "temporary", "permanent"},
     ended : BOOLEAN]

NoReview == [case |-> NoCase, status |-> "none", charged |-> FALSE, fresh |-> TRUE]

(* charged: the ticket has a createdViolationId.  fresh: nobody has saved  *)
(* the ticket since, so that its __v is the one that was read.             *)
ReviewRecords ==
    {NoReview} \cup [case : Tickets, status : TicketStatuses, charged : BOOLEAN, fresh : BOOLEAN]

CaseInit ==
    /\ user = [status |-> "active", tempLock |-> NoCase, deleted |-> FALSE, byHand |-> FALSE]
    /\ case = [c \in Cases |-> "none"]
    /\ violation = [c \in Cases |-> [status |-> "none", penalty |-> "warning", ended |-> FALSE]]
    /\ review = [h \in Reviewers |-> NoReview]
    /\ admin = "idle"

HasViolation(c) == violation[c].status # "none"

-----------------------------------------------------------------------------
(* Reports.                                                                *)

OnReport == UNCHANGED <<user, violation, review, admin>>

(* createReport.                                                           *)
CreateReport(c) ==
    /\ case[c] = "none"
    /\ case' = [case EXCEPT ![c] = "pending"]
    /\ OnReport

(* reviewReport: a decision can be revised, a cancelled report not.        *)
ReviewReport(c, status) ==
    /\ case[c] \notin {"none", "cancelled"} /\ status # "evidence_requested"
    /\ HasViolation(c) => status = "confirmed"
    /\ case' = [case EXCEPT ![c] = status]
    /\ OnReport

(* cancelReport.                                                           *)
CancelReport(c) ==
    /\ case[c] \notin ReportEnded \cup {"none"}
    /\ case' = [case EXCEPT ![c] = "cancelled"]
    /\ OnReport

(* requestReportEvidence, and addReportEvidence that answers it.           *)
RequestReportEvidence(c) ==
    /\ case[c] \notin ReportEnded \cup {"none"}
    /\ case' = [case EXCEPT ![c] = "evidence_requested"]
    /\ OnReport

AddReportEvidence(c) ==
    /\ case[c] = "evidence_requested"
    /\ case' = [case EXCEPT ![c] = "under_review"]
    /\ OnReport

-----------------------------------------------------------------------------
(* Support tickets.                                                        *)

OnTicket == UNCHANGED <<user, violation, admin>>

(* createSupportTicket.                                                    *)
CreateSupportTicket(c) ==
    /\ case[c] = "none"
    /\ case' = [case EXCEPT ![c] = "open"]
    /\ UNCHANGED review /\ OnTicket

(* What the other requests about the ticket read is no longer its version. *)
Outdated(c) ==
    [h \in Reviewers |-> IF review[h].case = c THEN [review[h] EXCEPT !.fresh = FALSE] ELSE review[h]]

(* A request finds the ticket.                                             *)
ReadTicket(h, c) ==
    /\ review[h] = NoReview /\ case[c] # "none"
    /\ review' = [review EXCEPT ![h] = [case |-> c, status |-> case[c],
                                        charged |-> HasViolation(c), fresh |-> TRUE]]
    /\ UNCHANGED case /\ OnTicket

(* It is refused, because of what it read or because it is too late.       *)
DropTicket(h) ==
    /\ review[h] # NoReview
    /\ review' = [review EXCEPT ![h] = NoReview]
    /\ UNCHANGED case /\ OnTicket

(* Wrong: the ticket is saved in whatever version it is.                   *)
SaveAnyVersion(h, status) ==
    /\ review[h] # NoReview
    /\ case' = [case EXCEPT ![review[h].case] = status]
    /\ review' = [Outdated(review[h].case) EXCEPT ![h] = NoReview]
    /\ OnTicket

(* saveTicketChange.                                                       *)
SaveTicketChange(h, status) ==
    /\ review[h] # NoReview /\ review[h].fresh
    /\ case' = [case EXCEPT ![review[h].case] = status]
    /\ review' = [Outdated(review[h].case) EXCEPT ![h] = NoReview]
    /\ OnTicket

(* addSupportTicketResponse, of the administrator and of the requester.    *)
AddTicketResponse(h, byAdmin) ==
    /\ review[h].status \notin TicketEnded
    /\ LET taken == review[h].status = (IF byAdmin THEN "open" ELSE "waiting_user")
       IN  SaveTicketChange(h, IF taken THEN "in_progress" ELSE review[h].status)

(* cancelSupportTicket.                                                    *)
CancelSupportTicket(h) ==
    /\ review[h].status \notin TicketEnded
    /\ SaveTicketChange(h, "cancelled")

(* ADMIN_STATUS_TRANSITIONS.                                               *)
AdminStatusTransitions(status) ==
    CASE status = "open" -> {"in_progress", "waiting_user", "resolved"}
      [] status = "in_progress" -> {"waiting_user", "resolved"}
      [] status = "waiting_user" -> {"in_progress", "resolved"}
      [] status = "resolved" -> {"in_progress", "closed"}
      [] OTHER -> {}

(* updateSupportTicketStatus.                                              *)
UpdateTicketStatus(h, status) ==
    /\ review[h].charged => status = "resolved"
    /\ status \in AdminStatusTransitions(review[h].status) \cup {review[h].status}
    /\ SaveTicketChange(h, status)

(* assignSupportTicket.                                                    *)
AssignTicket(h) ==
    /\ review[h].status \notin TicketEnded
    /\ SaveTicketChange(h, IF review[h].status = "open" THEN "in_progress" ELSE review[h].status)

-----------------------------------------------------------------------------
(* Violations and the lock of the account.                                 *)

Suspends(v) == v.status = "active" /\ v.penalty # "warning"

(* effectivePenaltyFilter, of the suspensions.                             *)
IsEffective(v) == Suspends(v) /\ ~v.ended

(* Wrong: a temporary suspension takes over any lock.                      *)
PenalizedAlways(c, penalty) ==
    IF penalty = "warning" THEN user
    ELSE [user EXCEPT !.status = "locked",
                      !.tempLock = IF penalty = "temporary" THEN c ELSE NoCase]

(* applyPenalty: a temporary suspension does not replace a firm lock.      *)
Penalized(c, penalty) ==
    LET replaces == user.status = "active" \/ user.tempLock # NoCase
    IN  CASE penalty = "warning" -> user
          [] penalty = "temporary" ->
                [user EXCEPT !.status = "locked",
                             !.tempLock = IF replaces THEN c ELSE user.tempLock]
          [] OTHER -> [user EXCEPT !.status = "locked", !.tempLock = NoCase]

Verdict(c) == IF c \in Reports THEN "confirmed" ELSE "resolved"

(* createViolation, of a report, a complaint or a ticket.                  *)
CreateViolation(c, penalty) ==
    /\ case[c] # "none" /\ ~HasViolation(c)
    /\ c \in Reports => case[c] \notin {"cancelled", "rejected"}
    /\ ~user.deleted
    /\ user' = Penalized(c, penalty)
    /\ violation' = [violation EXCEPT
                       ![c] = [status |-> "active", penalty |-> penalty, ended |-> FALSE]]
    /\ case' = [case EXCEPT ![c] = Verdict(c)]
    /\ review' = Outdated(c)
    /\ UNCHANGED admin

(* The term of a temporary suspension ends.                                *)
EndPasses(c) ==
    /\ violation[c].penalty = "temporary" /\ ~violation[c].ended
    /\ violation' = [violation EXCEPT ![c].ended = TRUE]
    /\ UNCHANGED <<user, case, review, admin>>

Resolved(cases) ==
    [c \in Cases |-> IF c \in cases THEN [violation[c] EXCEPT !.status = "resolved"]
                     ELSE violation[c]]

EndedSuspensions ==
    {c \in Cases : Suspends(violation[c]) /\ violation[c].penalty = "temporary" /\ violation[c].ended}

(* refreshTemporaryLock, by the monitor and by refreshAccountLock.         *)
RefreshTemporaryLock ==
    /\ ~user.deleted /\ user.status = "locked" /\ user.tempLock # NoCase
    /\ Suspends(violation[user.tempLock]) /\ violation[user.tempLock].ended
    /\ \A c \in Cases : ~IsEffective(violation[c])
    /\ user' = [user EXCEPT !.status = "active", !.tempLock = NoCase]
    /\ violation' = Resolved(EndedSuspensions)
    /\ UNCHANGED <<case, review, admin>>

(* updateUserStatus of admin.service looks at the user first.              *)
FindUser(status) ==
    /\ admin = "idle" /\ ~user.deleted
    /\ admin' = status
    /\ UNCHANGED <<user, case, violation, review>>

(* Wrong: the source of a temporary lock stays.                            *)
UpdateKeepsSource ==
    /\ admin # "idle"
    /\ user' = IF user.deleted THEN user
               ELSE [user EXCEPT !.status = admin, !.byHand = (admin = "locked")]
    /\ violation' = IF admin = "active" THEN Resolved({c \in Cases : Suspends(violation[c])}) ELSE violation
    /\ admin' = "idle"
    /\ UNCHANGED <<case, review>>

(* Its transaction.                                                        *)
UpdateUserStatus ==
    /\ admin # "idle"
    /\ user' = IF user.deleted THEN user
               ELSE [user EXCEPT !.status = admin, !.tempLock = NoCase,
                                 !.byHand = (admin = "locked")]
    /\ violation' = IF admin = "active" THEN Resolved({c \in Cases : Suspends(violation[c])}) ELSE violation
    /\ admin' = "idle"
    /\ UNCHANGED <<case, review>>

(* deleteUserService.                                                      *)
DeleteUser ==
    /\ ~user.deleted
    /\ user' = [user EXCEPT !.status = "locked", !.deleted = TRUE]
    /\ UNCHANGED <<case, violation, review, admin>>

-----------------------------------------------------------------------------
ReportStep ==
    \E c \in Reports :
        \/ CreateReport(c)
        \/ \E status \in ReportStatuses \ {"none"} : ReviewReport(c, status)
        \/ CancelReport(c) \/ RequestReportEvidence(c) \/ AddReportEvidence(c)

TicketStep ==
    \/ \E c \in Tickets : CreateSupportTicket(c) \/ \E h \in Reviewers : ReadTicket(h, c)
    \/ \E h \in Reviewers :
          \/ DropTicket(h)
          \/ \E byAdmin \in BOOLEAN : AddTicketResponse(h, byAdmin)
          \/ CancelSupportTicket(h) \/ AssignTicket(h)
          \/ \E status \in TicketStatuses \ {"none"} : UpdateTicketStatus(h, status)

ViolationStep ==
    \E c \in Cases :
        \/ \E penalty \in {"warning", "temporary", "permanent"} : CreateViolation(c, penalty)
        \/ EndPasses(c)

AccountStep ==
    \/ RefreshTemporaryLock
    \/ \E status \in {"active", "locked"} : FindUser(status)
    \/ UpdateUserStatus \/ DeleteUser

CaseNext == ReportStep \/ TicketStep \/ ViolationStep \/ AccountStep

CaseSpec == CaseInit /\ [][CaseNext]_caseVars

(* Terms end, and the monitor looks every minute at the suspensions that   *)
(* have (penaltyPolicy.service.ts:106).                                    *)
CaseFairSpec ==
    /\ CaseSpec
    /\ \A c \in Cases : WF_caseVars(EndPasses(c))
    /\ WF_caseVars(RefreshTemporaryLock)

-----------------------------------------------------------------------------
(* Properties.                                                             *)

CaseTypeOK ==
    /\ user \in UserRecords
    /\ case \in [Cases -> ReportStatuses \cup TicketStatuses]
    /\ \A c \in Cases : case[c] \in (IF c \in Reports THEN ReportStatuses ELSE TicketStatuses)
    /\ violation \in [Cases -> ViolationRecords]
    /\ review \in [Reviewers -> ReviewRecords]
    /\ admin \in {"idle", "active", "locked"}

(* The end of a temporary suspension opens no account that another         *)
(* suspension, the administrator or its deletion keeps locked, whatever    *)
(* the order of the decisions; and no account stays locked for nobody's    *)
(* reason (penaltyPolicy.service.ts:59, violation.service.ts:99).          *)
LockKeepsDecisions ==
    /\ user.deleted \/ user.byHand \/ (\E c \in Cases : IsEffective(violation[c]))
          => user.status = "locked"
    /\ user.status = "locked" =>
          user.deleted \/ user.byHand \/ \E c \in Cases : Suspends(violation[c])

(* What was decided of a case stays: no review, no withdrawal and no       *)
(* request about a ticket that was under way changes a case that led to a  *)
(* violation, that its author withdrew or that was closed, except for the  *)
(* violation that may still be made of a ticket (report.service.ts:388,    *)
(* supportTicket.service.ts:16).                                           *)
DecisionsStay ==
    [][\A c \in Cases :
          /\ HasViolation(c) \/ case[c] \in {"cancelled", "closed"}
          /\ case'[c] # case[c]
          => c \in Tickets /\ ~HasViolation(c) /\ HasViolation(c)']_caseVars

(* A temporary lock ends: the user is let in again, or a later decision    *)
(* has replaced it (penaltyPolicy.service.ts:59).                          *)
TempLockEnds == user.tempLock # NoCase ~> user.tempLock = NoCase \/ user.deleted

=================================================================================
