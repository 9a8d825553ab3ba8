--------------------------- MODULE MatchingProofs ---------------------------
(***************************************************************************)
(* Theorems about Matching, for any number of providers, handlers and      *)
(* crashes: its types, the agreement of the order with its offers, the     *)
(* life cycle of OrderLifecycle that the handlers keep together, and what  *)
(* holds of appointments and of the customer who is asked.                 *)
(*                                                                         *)
(* The inductive invariant IInv adds to TypeOK and HolderMatchesOffer that *)
(* an order taken is paid.  Every action is shown to keep IInv and to be a *)
(* step of the life cycle, or none: SameHolderStep does so for the actions *)
(* that leave the holder alone, which are most of them.                    *)
(***************************************************************************)
EXTENDS Matching, TLAPS

RunOK ==
    /\ run \in [Workers -> WorkerRecords]
    /\ \A w \in Workers : run[w].pc \in Answering => run[w].prov \in Providers

TakenIsPaid == order.status \in Held => order.paid

IInv == TypeOK /\ HolderMatchesOffer /\ TakenIsPaid

LifeStep == [Lifecycle!Next]_<<Stage, order.providerId>>

SameHolder ==
    /\ order'.status = order.status
    /\ order'.providerId = order.providerId
    /\ order'.paid = order.paid
    /\ \A p \in Providers : offer'[p].status = "accepted" <=> offer[p].status = "accepted"

-----------------------------------------------------------------------------
(* The moves of a worker keep its record well formed. *)

LEMMA IdleType ==
  ASSUME NEW s \in Waiting
  PROVE  Idle(s) \in WorkerRecords /\ Idle(s).pc \notin Answering
BY DEF Idle, WorkerRecords, OfferTypes, Waiting, Steps, Answering

(* A worker that begins a step keeps the workers well-formed. *)
LEMMA BeginType ==
  ASSUME RunOK, NEW w \in Workers, NEW r \in WorkerRecords,
         r.pc \in Answering => r.prov \in Providers,
         run' = [run EXCEPT ![w] = r]
  PROVE  RunOK'
BY DEF RunOK

(* A fresh worker record at a step that carries nothing. *)
LEMMA AtType ==
  ASSUME RunOK, NEW w \in Workers, NEW s \in Steps \ Answering,
         NEW p \in Providers \cup {Nobody}
  PROVE  /\ run[w].back \in Waiting
         /\ [Idle(run[w].back) EXCEPT !.pc = s] \in WorkerRecords
         /\ [Idle(run[w].back) EXCEPT !.pc = s].pc = s
         /\ [Idle(run[w].back) EXCEPT !.pc = s, !.prov = p] \in WorkerRecords
         /\ [Idle(run[w].back) EXCEPT !.pc = s, !.prov = p].pc = s
<1>1. run[w].back \in Waiting BY DEF RunOK, WorkerRecords
<1>2. Idle(run[w].back) \in WorkerRecords BY <1>1, IdleType
<1>3. ASSUME NEW i \in WorkerRecords
      PROVE  /\ [i EXCEPT !.pc = s] \in WorkerRecords
             /\ [i EXCEPT !.pc = s].pc = s
             /\ [i EXCEPT !.pc = s, !.prov = p] \in WorkerRecords
             /\ [i EXCEPT !.pc = s, !.prov = p].pc = s
  BY DEF WorkerRecords
<1> QED BY <1>1, <1>2, <1>3

(* Going to a step keeps the workers well-formed. *)
LEMMA GotoType ==
  ASSUME RunOK, NEW w \in Workers, NEW s \in Steps \ Answering, Goto(w, s)
  PROVE  RunOK'
BY AtType, BeginType DEF Goto

(* Going to a step with a provider does too. *)
LEMMA GotoWithType ==
  ASSUME RunOK, NEW w \in Workers, NEW s \in Steps \ Answering,
         NEW p \in Providers \cup {Nobody}, GotoWith(w, s, p)
  PROVE  RunOK'
<1>1. /\ [Idle(run[w].back) EXCEPT !.pc = s, !.prov = p] \in WorkerRecords
      /\ [Idle(run[w].back) EXCEPT !.pc = s, !.prov = p].pc = s
  BY AtType
<1>2. run' = [run EXCEPT ![w] = [Idle(run[w].back) EXCEPT !.pc = s, !.prov = p]]
  BY DEF GotoWith
<1> QED BY <1>1, <1>2, BeginType

(* Going on with what the worker carries does too. *)
LEMMA GoOnType ==
  ASSUME RunOK, NEW w \in Workers, NEW s \in Steps, GoOn(w, s),
         s \in Answering => run[w].pc \in Answering
  PROVE  RunOK'
BY DEF RunOK, GoOn, WorkerRecords

(* Finishing returns a worker to where it waits. *)
LEMMA FinishType ==
  ASSUME RunOK, NEW w \in Workers, Finish(w)
  PROVE  RunOK'
<1>1. run[w].back \in Waiting BY DEF RunOK, WorkerRecords
<1> QED BY <1>1, IdleType, BeginType DEF Finish

(* A worker begins to answer for provider p. *)
LEMMA AnswerType ==
  ASSUME RunOK, offer \in [Providers -> OfferRecords],
         NEW w \in Workers, NEW s \in Steps, NEW p \in Providers,
         Begin(w, [run[w] EXCEPT !.pc = s, !.prov = p, !.type = offer[p].type])
  PROVE  RunOK'
<1>1. offer[p].type \in OfferTypes BY DEF OfferRecords
<1>2. run[w] \in WorkerRecords BY DEF RunOK
<1>3. [run[w] EXCEPT !.pc = s, !.prov = p, !.type = offer[p].type] \in WorkerRecords
  BY <1>1, <1>2 DEF WorkerRecords
<1>4. [run[w] EXCEPT !.pc = s, !.prov = p, !.type = offer[p].type].prov = p
  BY <1>2 DEF WorkerRecords
<1> QED BY <1>3, <1>4, BeginType DEF Begin

-----------------------------------------------------------------------------
(* The changes of an offer and of the order *)

LEMMA CloseType ==
  ASSUME NEW o \in OfferRecords, NEW s \in OfferStatuses
  PROVE  Close(o, s) \in OfferRecords /\ Close(o, s).status = s
BY DEF Close, OfferRecords, NoOffer, OfferTypes

(* A new offer is pending. *)
LEMMA NewOfferType ==
  ASSUME NEW t \in OfferTypes, NEW d \in BOOLEAN
  PROVE  NewOffer(t, d) \in OfferRecords /\ NewOffer(t, d).status = "pending"
BY DEF NewOffer, OfferRecords, OfferStatuses

(* Marking offers as older than a start-up or a question changes no status. *)
LEMMA BeforeType ==
  ASSUME offer \in [Providers -> OfferRecords]
  PROVE  /\ BeforeStart \in [Providers -> OfferRecords]
         /\ BeforeReply \in [Providers -> OfferRecords]
         /\ \A p \in Providers : /\ BeforeStart[p].status = offer[p].status
                                 /\ BeforeReply[p].status = offer[p].status
BY DEF BeforeStart, BeforeReply, OfferRecords

(* Giving an order back to the customer moves no holder and no money. *)
LEMMA BackType ==
  ASSUME NEW o \in OrderRecords
  PROVE  /\ BackToCustomer(o) \in OrderRecords
         /\ BackToCustomer(o).status = o.status
         /\ BackToCustomer(o).providerId = o.providerId
         /\ BackToCustomer(o).paid = o.paid
BY DEF BackToCustomer, OrderRecords, BookingStatuses

(* Timing an offer out accepts none. *)
LEMMA TimeoutOfferType ==
  ASSUME RunOK, offer \in [Providers -> OfferRecords],
         NEW w \in Workers, NEW p \in Providers, TimeoutOffer(w, p)
  PROVE  /\ RunOK' /\ offer' \in [Providers -> OfferRecords]
         /\ \A q \in Providers : offer'[q].status = "accepted" <=> offer[q].status = "accepted"
<1>1. RunOK' BY AnswerType DEF TimeoutOffer, Steps
<1>2. Close(offer[p], "timeout") \in OfferRecords /\ Close(offer[p], "timeout").status = "timeout"
  BY CloseType DEF OfferStatuses
<1> QED BY <1>1, <1>2 DEF TimeoutOffer

(* An action that does not touch the holder keeps the agreement, and the    *)
(* customer sees nothing of it.                                             *)
LEMMA SameHolderStep ==
  ASSUME IInv, TypeOK', SameHolder
  PROVE  IInv' /\ LifeStep
<1>1. HolderMatchesOffer' BY DEF IInv, HolderMatchesOffer, SameHolder
<1>2. TakenIsPaid' BY DEF IInv, TakenIsPaid, SameHolder
<1>3. LifeStep BY DEF LifeStep, Stage, SameHolder
<1> QED BY <1>1, <1>2, <1>3 DEF IInv

(* A cancellation of an order that nobody works on. *)
LEMMA CancelStep ==
  ASSUME IInv, NEW reply \in ReplyStatuses, CancelCommit(reply),
         order.status \in {"created", "accepted"}
  PROVE  /\ order' \in OrderRecords
         /\ offer' \in [Providers -> OfferRecords]
         /\ HolderMatchesOffer' /\ TakenIsPaid' /\ LifeStep
<1>1. order \in OrderRecords /\ order.reassignment \in Replies
  BY DEF IInv, TypeOK, OrderRecords
<1>2. [order.reassignment EXCEPT !.status = reply] \in Replies
  BY <1>1 DEF Replies
<1>3. /\ order' \in OrderRecords
      /\ order'.status = "cancelled" /\ order'.providerId = order.providerId
  BY <1>1, <1>2 DEF CancelCommit, OrderRecords, Statuses
<1>4. offer' \in [Providers -> OfferRecords]
  BY CloseType DEF IInv, TypeOK, CancelCommit, OfferStatuses
<1>5. HolderMatchesOffer' /\ TakenIsPaid'
  BY <1>3 DEF HolderMatchesOffer, TakenIsPaid, Held
<1>6. LifeStep
  BY <1>3 DEF LifeStep, Stage, Lifecycle!Next, Lifecycle!Cancel
<1> QED BY <1>3, <1>4, <1>5, <1>6

-----------------------------------------------------------------------------
(* One lemma per action *)

LEMMA ReadReadyStep ==
  ASSUME IInv, NEW w \in Workers, ReadReady(w)
  PROVE  IInv' /\ LifeStep
<1>1. order' \in OrderRecords
  BY DEF IInv, TypeOK, ReadReady
<1>2. offer' \in [Providers -> OfferRecords]
  BY DEF IInv, TypeOK, ReadReady
<1>3. RunOK'
  BY GotoWithType, FinishType DEF IInv, TypeOK, RunOK, ReadReady, Steps, Answering, OrderRecords
<1>4. SameHolder
  BY DEF IInv, TypeOK, ReadReady, SameHolder
<1> QED BY <1>1, <1>2, <1>3, <1>4, SameHolderStep DEF IInv, TypeOK, RunOK, ReadReady

(* ClaimMatching keeps the invariant and the life cycle. *)
LEMMA ClaimMatchingStep ==
  ASSUME IInv, NEW w \in Workers, ClaimMatching(w)
  PROVE  IInv' /\ LifeStep
<1>1. order' \in OrderRecords
  BY DEF IInv, TypeOK, ClaimMatching, OrderRecords, Replies, BookingStatuses, ReplyStatuses
<1>2. offer' \in [Providers -> OfferRecords]
  BY BeforeType DEF IInv, TypeOK, ClaimMatching
<1>3. RunOK'
  BY GotoType, GotoWithType, FinishType DEF IInv, TypeOK, RunOK, ClaimMatching, Steps, Answering, OrderRecords, Workers
<1>4. SameHolder
  BY BeforeType DEF IInv, TypeOK, ClaimMatching, SameHolder, OrderRecords
<1> QED BY <1>1, <1>2, <1>3, <1>4, SameHolderStep DEF IInv, TypeOK, RunOK, ClaimMatching

(* FindPreferred keeps the invariant and the life cycle. *)
LEMMA FindPreferredStep ==
  ASSUME IInv, NEW w \in Workers, FindPreferred(w)
  PROVE  IInv' /\ LifeStep
<1>1. order' \in OrderRecords
  BY DEF IInv, TypeOK, FindPreferred
<1>2. offer' \in [Providers -> OfferRecords]
  BY DEF IInv, TypeOK, FindPreferred
<1>3. RunOK'
  BY GotoType, GoOnType DEF IInv, TypeOK, RunOK, FindPreferred, Steps, Answering
<1>4. SameHolder
  BY DEF IInv, TypeOK, FindPreferred, SameHolder
<1> QED BY <1>1, <1>2, <1>3, <1>4, SameHolderStep DEF IInv, TypeOK, RunOK, FindPreferred

(* AwaitPreferred keeps the invariant and the life cycle. *)
LEMMA AwaitPreferredStep ==
  ASSUME IInv, NEW w \in Workers, AwaitPreferred(w)
  PROVE  IInv' /\ LifeStep
<1>1. order' \in OrderRecords
  BY DEF IInv, TypeOK, AwaitPreferred, OrderRecords, Replies, BookingStatuses, ReplyStatuses
<1>2. offer' \in [Providers -> OfferRecords]
  BY DEF IInv, TypeOK, AwaitPreferred
<1>3. RunOK'
  BY GoOnType DEF IInv, TypeOK, RunOK, AwaitPreferred, Steps, Answering
<1>4. SameHolder
  BY DEF IInv, TypeOK, AwaitPreferred, SameHolder, OrderRecords
<1> QED BY <1>1, <1>2, <1>3, <1>4, SameHolderStep DEF IInv, TypeOK, RunOK, AwaitPreferred

(* SendDirect keeps the invariant and the life cycle. *)
LEMMA SendDirectStep ==
  ASSUME IInv, NEW w \in Workers, SendDirect(w)
  PROVE  IInv' /\ LifeStep
<1>1. order' \in OrderRecords
  BY DEF IInv, TypeOK, SendDirect
<1>2. offer' \in [Providers -> OfferRecords]
  BY NewOfferType DEF IInv, TypeOK, SendDirect, DirectType, OfferTypes
<1>3. RunOK'
  <2>1. CASE Finish(w) BY <2>1, FinishType DEF IInv, TypeOK, RunOK
  <2>2. CASE w = Scanner /\ run' = [run EXCEPT ![w] = Idle("scanTimeouts")]
    BY <2>2, IdleType, BeginType DEF IInv, TypeOK, RunOK, Waiting
  <2> QED BY <2>1, <2>2 DEF SendDirect, Abort
<1>4. SameHolder
  <2>1. UNCHANGED order BY DEF SendDirect
  <2>2. ASSUME offer[run[w].prov].status \in Closed \cup {"none"},
               offer' = [offer EXCEPT ![run[w].prov] = NewOffer(DirectType, FALSE)]
        PROVE  SameHolder
    <3>1. NewOffer(DirectType, FALSE).status = "pending" BY DEF NewOffer
    <3> QED BY <2>1, <2>2, <3>1 DEF IInv, TypeOK, SameHolder, Closed
  <2>3. CASE UNCHANGED offer BY <2>1, <2>3 DEF SameHolder
  <2> QED BY <2>2, <2>3 DEF SendDirect
<1> QED BY <1>1, <1>2, <1>3, <1>4, SameHolderStep DEF IInv, TypeOK, RunOK, SendDirect, Abort

(* PreferredUnavailable keeps the invariant and the life cycle. *)
LEMMA PreferredUnavailableStep ==
  ASSUME IInv, NEW w \in Workers, PreferredUnavailable(w)
  PROVE  IInv' /\ LifeStep
<1>1. order' \in OrderRecords
  BY BackType DEF IInv, TypeOK, PreferredUnavailable
<1>2. offer' \in [Providers -> OfferRecords]
  BY DEF IInv, TypeOK, PreferredUnavailable
<1>3. RunOK'
  BY FinishType DEF IInv, TypeOK, RunOK, PreferredUnavailable, Steps, Answering
<1>4. SameHolder
  BY BackType DEF IInv, TypeOK, PreferredUnavailable, SameHolder
<1> QED BY <1>1, <1>2, <1>3, <1>4, SameHolderStep DEF IInv, TypeOK, RunOK, PreferredUnavailable

(* ReadTried keeps the invariant and the life cycle. *)
LEMMA ReadTriedStep ==
  ASSUME IInv, NEW w \in Workers, ReadTried(w)
  PROVE  IInv' /\ LifeStep
<1>1. order' \in OrderRecords
  BY DEF IInv, TypeOK, ReadTried
<1>2. offer' \in [Providers -> OfferRecords]
  BY DEF IInv, TypeOK, ReadTried
<1>3. RunOK'
  <2>1. TriedProviders \in SUBSET Providers
    BY DEF IInv, TypeOK, OrderRecords, Replies, TriedProviders
  <2>2. ASSUME NEW T \in SUBSET Providers,
               run' = [run EXCEPT ![w].pc = "load", ![w].tried = T]
        PROVE  RunOK'
    <3>1. run[w] \in WorkerRecords BY DEF IInv, TypeOK
    <3>2. /\ [run[w] EXCEPT !.pc = "load", !.tried = T] \in WorkerRecords
          /\ [run[w] EXCEPT !.pc = "load", !.tried = T].pc = "load"
      BY <3>1 DEF WorkerRecords, Steps
    <3>3. run' = [run EXCEPT ![w] = [run[w] EXCEPT !.pc = "load", !.tried = T]]
      BY <2>2 DEF IInv, TypeOK
    <3> QED BY <3>2, <3>3, BeginType DEF IInv, TypeOK, RunOK, Answering
  <2> QED BY <2>1, <2>2 DEF ReadTried
<1>4. SameHolder
  BY DEF IInv, TypeOK, ReadTried, SameHolder
<1> QED BY <1>1, <1>2, <1>3, <1>4, SameHolderStep DEF IInv, TypeOK, RunOK, ReadTried

(* LoadOrder keeps the invariant and the life cycle. *)
LEMMA LoadOrderStep ==
  ASSUME IInv, NEW w \in Workers, LoadOrder(w)
  PROVE  IInv' /\ LifeStep
<1>1. order' \in OrderRecords
  BY DEF IInv, TypeOK, LoadOrder, OrderRecords, Replies, BookingStatuses, ReplyStatuses
<1>2. offer' \in [Providers -> OfferRecords]
  BY DEF IInv, TypeOK, LoadOrder
<1>3. RunOK'
  <2>1. CASE Finish(w) BY <2>1, FinishType DEF IInv, TypeOK, RunOK
  <2>2. CASE UNCHANGED run BY <2>2 DEF IInv, TypeOK, RunOK
  <2>3. ASSUME NEW s \in {"cancel", "pending"}, NEW m \in {"first", "automatic", "direct"},
               run' = [run EXCEPT ![w].pc = s, ![w].mode = m]
        PROVE  RunOK'
    <3>1. run[w] \in WorkerRecords BY DEF IInv, TypeOK
    <3>2. [run[w] EXCEPT !.pc = s, !.mode = m] \in WorkerRecords
      BY <3>1 DEF WorkerRecords, Steps
    <3>3. [run[w] EXCEPT !.pc = s, !.mode = m].pc = s
      BY <3>1 DEF WorkerRecords
    <3>4. run' = [run EXCEPT ![w] = [run[w] EXCEPT !.pc = s, !.mode = m]]
      BY <2>3 DEF IInv, TypeOK
    <3> QED BY <3>2, <3>3, <3>4, BeginType DEF IInv, TypeOK, RunOK, Answering
  <2> QED BY <2>1, <2>2, <2>3 DEF LoadOrder
<1>4. SameHolder
  BY DEF IInv, TypeOK, LoadOrder, SameHolder, OrderRecords
<1> QED BY <1>1, <1>2, <1>3, <1>4, SameHolderStep DEF IInv, TypeOK, RunOK, LoadOrder

(* CheckPending keeps the invariant and the life cycle. *)
LEMMA CheckPendingStep ==
  ASSUME IInv, NEW w \in Workers, CheckPending(w)
  PROVE  IInv' /\ LifeStep
<1>1. order' \in OrderRecords
  BY DEF IInv, TypeOK, CheckPending
<1>2. offer' \in [Providers -> OfferRecords]
  BY DEF IInv, TypeOK, CheckPending
<1>3. RunOK'
  BY GotoType, GoOnType, FinishType DEF IInv, TypeOK, RunOK, CheckPending, Steps, Answering, Workers
<1>4. SameHolder
  BY DEF IInv, TypeOK, CheckPending, SameHolder
<1> QED BY <1>1, <1>2, <1>3, <1>4, SameHolderStep DEF IInv, TypeOK, RunOK, CheckPending

(* PickCandidates keeps the invariant and the life cycle. *)
LEMMA PickCandidatesStep ==
  ASSUME IInv, NEW w \in Workers, PickCandidates(w)
  PROVE  IInv' /\ LifeStep
<1>1. order' \in OrderRecords
  BY DEF IInv, TypeOK, PickCandidates
<1>2. offer' \in [Providers -> OfferRecords]
  BY DEF IInv, TypeOK, PickCandidates
<1>3. RunOK'
  <2>1. PICK C \in SUBSET Providers :
             \/ Finish(w)
             \/ run' = [run EXCEPT ![w] = [Idle(@.back) EXCEPT !.pc = "send", !.cand = C]]
    BY DEF PickCandidates
  <2>2. RunOK /\ run[w].back \in Waiting BY DEF IInv, TypeOK, RunOK, WorkerRecords
  <2>3. ASSUME NEW i \in WorkerRecords
        PROVE  /\ [i EXCEPT !.pc = "send", !.cand = C] \in WorkerRecords
               /\ [i EXCEPT !.pc = "send", !.cand = C].pc = "send"
    BY DEF WorkerRecords, Steps
  <2>4. CASE Finish(w) BY <2>2, <2>4, FinishType
  <2>5. CASE run' = [run EXCEPT ![w] = [Idle(@.back) EXCEPT !.pc = "send", !.cand = C]]
    <3>1. Idle(run[w].back) \in WorkerRecords BY <2>2, IdleType
    <3>2. run' = [run EXCEPT ![w] = [Idle(run[w].back) EXCEPT !.pc = "send", !.cand = C]]
      BY <2>2, <2>5 DEF RunOK
    <3> QED BY <2>2, <2>3, <3>1, <3>2, BeginType DEF Answering
  <2> QED BY <2>1, <2>4, <2>5
<1>4. SameHolder
  BY DEF IInv, TypeOK, PickCandidates, SameHolder
<1> QED BY <1>1, <1>2, <1>3, <1>4, SameHolderStep DEF IInv, TypeOK, RunOK, PickCandidates

(* SendOffer keeps the invariant and the life cycle. *)
LEMMA SendOfferStep ==
  ASSUME IInv, NEW w \in Workers, SendOffer(w)
  PROVE  IInv' /\ LifeStep
<1>1. order' \in OrderRecords
  BY DEF IInv, TypeOK, SendOffer
<1>2. offer' \in [Providers -> OfferRecords]
  <2>1. \A p \in Providers : NewOffer(BatchType, run[w].late) \in OfferRecords
    BY NewOfferType DEF IInv, TypeOK, WorkerRecords, BatchType, OfferTypes
  <2>2. run[w].cand \subseteq Providers BY DEF IInv, TypeOK, WorkerRecords
  <2> QED BY <2>1, <2>2 DEF IInv, TypeOK, SendOffer
<1>3. RunOK'
  <2>1. CASE Finish(w) BY <2>1, FinishType DEF IInv, TypeOK, RunOK
  <2>2. ASSUME NEW p \in run[w].cand, run' = [run EXCEPT ![w].cand = @ \ {p}, ![w].first = FALSE]
        PROVE  RunOK'
    BY <2>2 DEF IInv, TypeOK, RunOK, WorkerRecords
  <2> QED BY <2>1, <2>2 DEF SendOffer
<1>4. SameHolder
  <2>1. PICK p \in run[w].cand :
             offer' = IF offer[p].status \notin Closed \cup {"none"} THEN offer
                      ELSE [offer EXCEPT ![p] = NewOffer(BatchType, run[w].late)]
    BY DEF SendOffer
  <2>2. NewOffer(BatchType, run[w].late).status = "pending" BY DEF NewOffer
  <2> QED BY <2>1, <2>2 DEF IInv, TypeOK, SendOffer, SameHolder, Closed
<1> QED BY <1>1, <1>2, <1>3, <1>4, SameHolderStep DEF IInv, TypeOK, RunOK, SendOffer

(* CancelUnmatched keeps the invariant and the life cycle. *)
LEMMA CancelUnmatchedStep ==
  ASSUME IInv, NEW w \in Workers, CancelUnmatched(w)
  PROVE  IInv' /\ LifeStep
<1>1. order' \in OrderRecords
  BY DEF IInv, TypeOK, CancelUnmatched
<1>2. offer' \in [Providers -> OfferRecords]
  BY DEF IInv, TypeOK, CancelUnmatched
<1>3. RunOK'
  BY GotoType, FinishType DEF IInv, TypeOK, RunOK, CancelUnmatched, Steps, Answering, Workers
<1>4. SameHolder
  BY DEF IInv, TypeOK, CancelUnmatched, SameHolder
<1> QED BY <1>1, <1>2, <1>3, <1>4, SameHolderStep DEF IInv, TypeOK, RunOK, CancelUnmatched

(* CommitUnmatched keeps the invariant and the life cycle. *)
LEMMA CommitUnmatchedStep ==
  ASSUME IInv, NEW w \in Workers, CommitUnmatched(w)
  PROVE  IInv' /\ LifeStep
<1>1. RunOK' /\ recovering' \in BOOLEAN /\ crashes' \in 0..MaxCrashes
  BY FinishType DEF IInv, TypeOK, RunOK, CommitUnmatched
<1>2. CASE UNCHANGED <<order, offer>>
  BY <1>1, <1>2, SameHolderStep DEF IInv, TypeOK, RunOK, SameHolder
<1>3. CASE order.status \in {"created", "accepted"} /\ \E r \in ReplyStatuses : CancelCommit(r)
  BY <1>1, <1>3, CancelStep DEF IInv, TypeOK, RunOK
<1>4. order.reassignment.status \in ReplyStatuses /\ "failed" \in ReplyStatuses
  BY DEF IInv, TypeOK, OrderRecords, Replies, ReplyStatuses
<1> QED BY <1>2, <1>3, <1>4 DEF CommitUnmatched

(* AfterTimeout keeps the invariant and the life cycle. *)
LEMMA AfterTimeoutStep ==
  ASSUME IInv, NEW w \in Workers, AfterTimeout(w)
  PROVE  IInv' /\ LifeStep
<1>1. order' \in OrderRecords
  BY DEF IInv, TypeOK, AfterTimeout
<1>2. offer' \in [Providers -> OfferRecords]
  BY DEF IInv, TypeOK, AfterTimeout
<1>3. RunOK'
  BY GotoType, GoOnType, FinishType DEF IInv, TypeOK, RunOK, AfterTimeout, Steps, Answering
<1>4. SameHolder
  BY DEF IInv, TypeOK, AfterTimeout, SameHolder
<1> QED BY <1>1, <1>2, <1>3, <1>4, SameHolderStep DEF IInv, TypeOK, RunOK, AfterTimeout

(* DirectTimedOut keeps the invariant and the life cycle. *)
LEMMA DirectTimedOutStep ==
  ASSUME IInv, NEW w \in Workers, DirectTimedOut(w)
  PROVE  IInv' /\ LifeStep
<1>1. order' \in OrderRecords
  BY BackType DEF IInv, TypeOK, DirectTimedOut
<1>2. offer' \in [Providers -> OfferRecords]
  BY DEF IInv, TypeOK, DirectTimedOut
<1>3. RunOK'
  BY FinishType DEF IInv, TypeOK, RunOK, DirectTimedOut, Steps, Answering
<1>4. SameHolder
  BY BackType DEF IInv, TypeOK, DirectTimedOut, SameHolder
<1> QED BY <1>1, <1>2, <1>3, <1>4, SameHolderStep DEF IInv, TypeOK, RunOK, DirectTimedOut

(* AskCustomer keeps the invariant and the life cycle. *)
LEMMA AskCustomerStep ==
  ASSUME IInv, NEW w \in Workers, AskCustomer(w)
  PROVE  IInv' /\ LifeStep
<1>1. order' \in OrderRecords
  <2>1. /\ order \in OrderRecords /\ BackToCustomer(order) \in OrderRecords
        /\ run[w].prov \in Providers
    BY BackType DEF IInv, TypeOK, AskCustomer, Answering
  <2>2. [status |-> "awaiting_customer", automatic |-> FALSE, previous |-> {run[w].prov},
         over |-> FALSE] \in Replies
    BY <2>1 DEF Replies, ReplyStatuses
  <2> QED BY <2>1, <2>2 DEF AskCustomer, OrderRecords
<1>2. offer' \in [Providers -> OfferRecords]
  BY DEF IInv, TypeOK, AskCustomer
<1>3. RunOK'
  BY FinishType DEF IInv, TypeOK, RunOK, AskCustomer, Steps, Answering
<1>4. SameHolder
  BY BackType DEF IInv, TypeOK, AskCustomer, SameHolder
<1> QED BY <1>1, <1>2, <1>3, <1>4, SameHolderStep DEF IInv, TypeOK, RunOK, AskCustomer

(* AnyPending keeps the invariant and the life cycle. *)
LEMMA AnyPendingStep ==
  ASSUME IInv, NEW w \in Workers, AnyPending(w)
  PROVE  IInv' /\ LifeStep
<1>1. order' \in OrderRecords
  BY DEF IInv, TypeOK, AnyPending
<1>2. offer' \in [Providers -> OfferRecords]
  BY DEF IInv, TypeOK, AnyPending
<1>3. RunOK'
  BY GotoType, FinishType DEF IInv, TypeOK, RunOK, AnyPending, Steps, Answering
<1>4. SameHolder
  BY DEF IInv, TypeOK, AnyPending, SameHolder
<1> QED BY <1>1, <1>2, <1>3, <1>4, SameHolderStep DEF IInv, TypeOK, RunOK, AnyPending

(* AfterReject keeps the invariant and the life cycle. *)
LEMMA AfterRejectStep ==
  ASSUME IInv, NEW w \in Workers, AfterReject(w)
  PROVE  IInv' /\ LifeStep
<1>1. order' \in OrderRecords
  BY DEF IInv, TypeOK, AfterReject
<1>2. offer' \in [Providers -> OfferRecords]
  BY DEF IInv, TypeOK, AfterReject
<1>3. RunOK'
  BY GotoType, GoOnType DEF IInv, TypeOK, RunOK, AfterReject, Steps, Answering
<1>4. SameHolder
  BY DEF IInv, TypeOK, AfterReject, SameHolder
<1> QED BY <1>1, <1>2, <1>3, <1>4, SameHolderStep DEF IInv, TypeOK, RunOK, AfterReject

(* AcceptOffer keeps the invariant and the life cycle. *)
LEMMA AcceptOfferStep ==
  ASSUME IInv, NEW w \in Workers, AcceptOffer(w)
  PROVE  IInv' /\ LifeStep
<1>1. RunOK /\ run[w].prov \in Providers
  BY DEF IInv, TypeOK, RunOK, AcceptOffer, Answering
<1>2. CASE Finish(w) /\ UNCHANGED <<order, offer>>
  BY <1>1, <1>2, FinishType, SameHolderStep DEF IInv, TypeOK, RunOK, SameHolder, AcceptOffer
<1>3. CASE ~(Finish(w) /\ UNCHANGED <<order, offer>>)
  <2> DEFINE p == run[w].prov
  <2>1. /\ order.status = "created" /\ order.providerId = Nobody /\ order.paid
        /\ offer' = [offer EXCEPT ![p] = Close(@, "accepted")]
        /\ GotoWith(w, "closeOthers", p)
        /\ UNCHANGED <<recovering, crashes>>
    BY <1>3 DEF AcceptOffer
  <2>2. order' = [order EXCEPT
          !.arrival = Nobody, !.providerId = p, !.status = "accepted",
          !.readyForMatching = FALSE,
          !.bookingStatus = IF run[w].type = "appointment" THEN "confirmed" ELSE @,
          !.reassignment.status = IF @ = "matching" THEN "matched" ELSE @]
    BY <1>3 DEF AcceptOffer
  <2>3. order \in OrderRecords /\ order.reassignment \in Replies
    BY DEF IInv, TypeOK, OrderRecords
  <2>4. [order.reassignment EXCEPT !.status = IF @ = "matching" THEN "matched" ELSE @] \in Replies
    BY <2>3 DEF Replies, ReplyStatuses
  <2>5. /\ order' \in OrderRecords
        /\ order'.status = "accepted" /\ order'.providerId = p /\ order'.paid
    BY <1>1, <2>1, <2>2, <2>3, <2>4 DEF OrderRecords, Statuses, BookingStatuses
  <2>6. /\ offer' \in [Providers -> OfferRecords]
        /\ \A q \in Providers : offer'[q].status = "accepted" <=> q = p
    <3>1. offer \in [Providers -> OfferRecords] /\ offer[p] \in OfferRecords
      BY <1>1 DEF IInv, TypeOK
    <3>2. Close(offer[p], "accepted") \in OfferRecords /\ Close(offer[p], "accepted").status = "accepted"
      BY <3>1, CloseType DEF OfferStatuses
    <3>3. \A q \in Providers : offer[q].status # "accepted"
      BY <2>1, ConstantsAssumption DEF IInv, HolderMatchesOffer
    <3> QED BY <1>1, <2>1, <3>1, <3>2, <3>3
  <2>7. RunOK'
    BY <1>1, <2>1, GotoWithType DEF Steps, Answering
  <2>8. HolderMatchesOffer' /\ TakenIsPaid'
    BY <1>1, <2>5, <2>6 DEF HolderMatchesOffer, TakenIsPaid, Held
  <2>9. LifeStep
    BY <1>1, <2>1, <2>5 DEF LifeStep, Stage, Lifecycle!Next, Lifecycle!Take
  <2> QED BY <2>1, <2>5, <2>6, <2>7, <2>8, <2>9 DEF IInv, TypeOK, RunOK
<1> QED BY <1>2, <1>3

(* CloseCompeting keeps the invariant and the life cycle. *)
LEMMA CloseCompetingStep ==
  ASSUME IInv, NEW w \in Workers, CloseCompeting(w)
  PROVE  IInv' /\ LifeStep
<1>1. order' \in OrderRecords
  BY DEF IInv, TypeOK, CloseCompeting
<1>2. offer' \in [Providers -> OfferRecords]
  BY CloseType DEF IInv, TypeOK, CloseCompeting, OfferStatuses
<1>3. RunOK'
  BY FinishType DEF IInv, TypeOK, RunOK, CloseCompeting, Steps, Answering
<1>4. SameHolder
  <2>1. \A p \in Providers : offer[p] \in OfferRecords BY DEF IInv, TypeOK
  <2>2. \A p \in Pending : offer[p].status = "pending" /\ Close(offer[p], "cancelled").status = "cancelled"
    BY <2>1, CloseType DEF Pending, OfferStatuses
  <2>3. \A p \in Providers :
           offer'[p] = IF p \in Pending \ {run[w].prov} THEN Close(offer[p], "cancelled") ELSE offer[p]
    BY DEF CloseCompeting
  <2> QED BY <2>2, <2>3 DEF SameHolder, CloseCompeting
<1> QED BY <1>1, <1>2, <1>3, <1>4, SameHolderStep DEF IInv, TypeOK, RunOK, CloseCompeting

(* CancelAfterReply keeps the invariant and the life cycle. *)
LEMMA CancelAfterReplyStep ==
  ASSUME IInv, NEW w \in Workers, CancelAfterReply(w)
  PROVE  IInv' /\ LifeStep
<1>1. RunOK' /\ recovering' \in BOOLEAN /\ crashes' \in 0..MaxCrashes
  BY FinishType DEF IInv, TypeOK, RunOK, CancelAfterReply
<1>2. CASE UNCHANGED <<order, offer>>
  BY <1>1, <1>2, SameHolderStep DEF IInv, TypeOK, RunOK, SameHolder
<1>3. CASE order.status \in {"created", "accepted"} /\ \E r \in ReplyStatuses : CancelCommit(r)
  BY <1>1, <1>3, CancelStep DEF IInv, TypeOK, RunOK
<1>4. order.reassignment.status \in ReplyStatuses /\ "failed" \in ReplyStatuses
  BY DEF IInv, TypeOK, OrderRecords, Replies, ReplyStatuses
<1> QED BY <1>2, <1>3, <1>4 DEF CancelAfterReply

(* CreateDirect keeps the invariant and the life cycle. *)
LEMMA CreateDirectStep ==
  ASSUME IInv, NEW w \in Workers, CreateDirect(w)
  PROVE  IInv' /\ LifeStep
<1>1. order' \in OrderRecords
  BY DEF IInv, TypeOK, CreateDirect
<1>2. offer' \in [Providers -> OfferRecords]
  BY NewOfferType DEF IInv, TypeOK, CreateDirect, DirectType, OfferTypes
<1>3. RunOK'
  BY GotoType, FinishType DEF IInv, TypeOK, RunOK, CreateDirect, Steps, Answering
<1>4. SameHolder
  BY NewOfferType DEF IInv, TypeOK, CreateDirect, SameHolder, DirectType, OfferTypes
<1> QED BY <1>1, <1>2, <1>3, <1>4, SameHolderStep DEF IInv, TypeOK, RunOK, CreateDirect

(* UndoSelection keeps the invariant and the life cycle. *)
LEMMA UndoSelectionStep ==
  ASSUME IInv, NEW w \in Workers, UndoSelection(w)
  PROVE  IInv' /\ LifeStep
<1>1. order' \in OrderRecords
  BY DEF IInv, TypeOK, UndoSelection, OrderRecords, BookingStatuses
<1>2. offer' \in [Providers -> OfferRecords]
  BY DEF IInv, TypeOK, UndoSelection
<1>3. RunOK'
  BY FinishType DEF IInv, TypeOK, RunOK, UndoSelection, Steps, Answering
<1>4. SameHolder
  BY DEF IInv, TypeOK, UndoSelection, SameHolder, OrderRecords
<1> QED BY <1>1, <1>2, <1>3, <1>4, SameHolderStep DEF IInv, TypeOK, RunOK, UndoSelection

(* ScanTimeouts keeps the invariant and the life cycle. *)
LEMMA ScanTimeoutsStep ==
  ASSUME IInv, ScanTimeouts
  PROVE  IInv' /\ LifeStep
<1>1. CASE \E p \in Providers : TimeoutOffer(Scanner, p)
  <2>1. PICK p \in Providers : TimeoutOffer(Scanner, p) BY <1>1
  <2>2. /\ RunOK' /\ offer' \in [Providers -> OfferRecords]
        /\ \A q \in Providers : offer'[q].status = "accepted" <=> offer[q].status = "accepted"
    BY <2>1, TimeoutOfferType DEF IInv, TypeOK, RunOK, Workers
  <2> QED BY <2>2, SameHolderStep DEF IInv, TypeOK, RunOK, SameHolder, ScanTimeouts
<1>2. CASE Begin(Scanner, Idle("scanReady")) /\ UNCHANGED offer
  <2>1. RunOK'
    BY <1>2, BeginType, IdleType DEF IInv, TypeOK, RunOK, Begin, Workers, Waiting
  <2> QED BY <1>2, <2>1, SameHolderStep DEF IInv, TypeOK, RunOK, SameHolder, ScanTimeouts
<1> QED BY <1>1, <1>2 DEF ScanTimeouts

(* ScanReady keeps the invariant and the life cycle. *)
LEMMA ScanReadyStep ==
  ASSUME IInv, ScanReady
  PROVE  IInv' /\ LifeStep
<1>1. order' \in OrderRecords
  BY DEF IInv, TypeOK, ScanReady
<1>2. offer' \in [Providers -> OfferRecords]
  BY DEF IInv, TypeOK, ScanReady
<1>3. RunOK'
  <2>1. Idle("scanActive") \in WorkerRecords /\ Idle("scanActive").pc \notin Answering
    BY IdleType DEF Waiting
  <2>2. /\ [Idle("scanActive") EXCEPT !.pc = "ready"] \in WorkerRecords
        /\ [Idle("scanActive") EXCEPT !.pc = "ready"].pc = "ready"
    BY <2>1 DEF IInv, TypeOK, OrderRecords, WorkerRecords, Steps
  <2> QED BY <2>1, <2>2, BeginType DEF IInv, TypeOK, RunOK, ScanReady, Begin, Workers, Answering
<1>4. SameHolder
  BY DEF IInv, TypeOK, ScanReady, SameHolder
<1> QED BY <1>1, <1>2, <1>3, <1>4, SameHolderStep DEF IInv, TypeOK, RunOK, ScanReady

(* ScanActive keeps the invariant and the life cycle. *)
LEMMA ScanActiveStep ==
  ASSUME IInv, ScanActive
  PROVE  IInv' /\ LifeStep
<1>1. order' \in OrderRecords
  BY DEF IInv, TypeOK, ScanActive
<1>2. offer' \in [Providers -> OfferRecords]
  BY DEF IInv, TypeOK, ScanActive
<1>3. RunOK'
  <2>1. Idle("scanEnd") \in WorkerRecords /\ Idle("scanEnd").pc \notin Answering
    BY IdleType DEF Waiting
  <2>2. /\ [Idle("scanEnd") EXCEPT !.pc = "activePending", !.prov = order.preferredProviderId] \in WorkerRecords
        /\ [Idle("scanEnd") EXCEPT !.pc = "activePending", !.prov = order.preferredProviderId].pc = "activePending"
    BY <2>1 DEF IInv, TypeOK, OrderRecords, WorkerRecords, Steps
  <2> QED BY <2>1, <2>2, BeginType DEF IInv, TypeOK, RunOK, ScanActive, Begin, Workers, Answering
<1>4. SameHolder
  BY DEF IInv, TypeOK, ScanActive, SameHolder
<1> QED BY <1>1, <1>2, <1>3, <1>4, SameHolderStep DEF IInv, TypeOK, RunOK, ScanActive

(* ScanStalled keeps the invariant and the life cycle. *)
LEMMA ScanStalledStep ==
  ASSUME IInv, ScanStalled
  PROVE  IInv' /\ LifeStep
<1>1. order' \in OrderRecords
  BY DEF IInv, TypeOK, ScanStalled
<1>2. offer' \in [Providers -> OfferRecords]
  BY DEF IInv, TypeOK, ScanStalled
<1>3. RunOK'
  BY GotoType, FinishType DEF IInv, TypeOK, RunOK, ScanStalled, Steps, Answering, Workers
<1>4. SameHolder
  BY DEF IInv, TypeOK, ScanStalled, SameHolder
<1> QED BY <1>1, <1>2, <1>3, <1>4, SameHolderStep DEF IInv, TypeOK, RunOK, ScanStalled

(* RestartMatching keeps the invariant and the life cycle. *)
LEMMA RestartMatchingStep ==
  ASSUME IInv, RestartMatching
  PROVE  IInv' /\ LifeStep
<1>1. order' \in OrderRecords
  BY DEF IInv, TypeOK, RestartMatching, OrderRecords, Replies, BookingStatuses, ReplyStatuses
<1>2. offer' \in [Providers -> OfferRecords]
  BY DEF IInv, TypeOK, RestartMatching
<1>3. RunOK'
  BY GotoType DEF IInv, TypeOK, RunOK, RestartMatching, Steps, Answering, Workers
<1>4. SameHolder
  BY DEF IInv, TypeOK, RestartMatching, SameHolder, OrderRecords
<1> QED BY <1>1, <1>2, <1>3, <1>4, SameHolderStep DEF IInv, TypeOK, RunOK, RestartMatching

(* EndScan keeps the invariant and the life cycle. *)
LEMMA EndScanStep ==
  ASSUME IInv, EndScan
  PROVE  IInv' /\ LifeStep
<1>1. order' \in OrderRecords
  BY DEF IInv, TypeOK, EndScan
<1>2. offer' \in [Providers -> OfferRecords]
  BY DEF IInv, TypeOK, EndScan
<1>3. RunOK'
  BY BeginType, IdleType DEF IInv, TypeOK, RunOK, EndScan, Begin, Workers, Waiting
<1>4. SameHolder
  BY DEF IInv, TypeOK, EndScan, SameHolder
<1> QED BY <1>1, <1>2, <1>3, <1>4, SameHolderStep DEF IInv, TypeOK, RunOK, EndScan

(* FindReplies keeps the invariant and the life cycle. *)
LEMMA FindRepliesStep ==
  ASSUME IInv, FindReplies
  PROVE  IInv' /\ LifeStep
<1>1. order' \in OrderRecords
  BY DEF IInv, TypeOK, FindReplies
<1>2. offer' \in [Providers -> OfferRecords]
  BY DEF IInv, TypeOK, FindReplies
<1>3. RunOK'
  BY GotoType DEF IInv, TypeOK, RunOK, FindReplies, Steps, Answering, Workers
<1>4. SameHolder
  BY DEF IInv, TypeOK, FindReplies, SameHolder
<1> QED BY <1>1, <1>2, <1>3, <1>4, SameHolderStep DEF IInv, TypeOK, RunOK, FindReplies

(* ExpireReply keeps the invariant and the life cycle. *)
LEMMA ExpireReplyStep ==
  ASSUME IInv, ExpireReply
  PROVE  IInv' /\ LifeStep
<1>1. order' \in OrderRecords
  BY DEF IInv, TypeOK, ExpireReply, OrderRecords, Replies, BookingStatuses, ReplyStatuses
<1>2. offer' \in [Providers -> OfferRecords]
  BY DEF IInv, TypeOK, ExpireReply
<1>3. RunOK'
  BY GotoType, FinishType DEF IInv, TypeOK, RunOK, ExpireReply, Steps, Answering, Workers
<1>4. SameHolder
  BY DEF IInv, TypeOK, ExpireReply, SameHolder, OrderRecords
<1> QED BY <1>1, <1>2, <1>3, <1>4, SameHolderStep DEF IInv, TypeOK, RunOK, ExpireReply

(* MarkArrival keeps the invariant and the life cycle. *)
LEMMA MarkArrivalStep ==
  ASSUME IInv, MarkArrival
  PROVE  IInv' /\ LifeStep
<1>1. order' \in OrderRecords
  BY DEF IInv, TypeOK, MarkArrival, OrderRecords, Replies, BookingStatuses, ReplyStatuses
<1>2. offer' \in [Providers -> OfferRecords]
  BY DEF IInv, TypeOK, MarkArrival
<1>3. RunOK'
  BY DEF IInv, TypeOK, RunOK, MarkArrival
<1>4. SameHolder
  BY DEF IInv, TypeOK, MarkArrival, SameHolder, OrderRecords
<1> QED BY <1>1, <1>2, <1>3, <1>4, SameHolderStep DEF IInv, TypeOK, RunOK, MarkArrival

(* StartOrder keeps the invariant and the life cycle. *)
LEMMA StartOrderStep ==
  ASSUME IInv, StartOrder
  PROVE  IInv' /\ LifeStep
<1>1. /\ order' \in OrderRecords /\ order'.status = "in_progress"
      /\ order'.providerId = order.providerId /\ order'.paid = order.paid
  BY DEF IInv, TypeOK, StartOrder, OrderRecords, Statuses
<1>2. UNCHANGED <<offer, run, recovering, crashes>> BY DEF StartOrder
<1>3. order.status \in Held BY DEF StartOrder, Held
<1>4. HolderMatchesOffer' /\ TakenIsPaid'
  BY <1>1, <1>2, <1>3 DEF IInv, HolderMatchesOffer, TakenIsPaid, Held
<1>5. LifeStep
  BY <1>1 DEF LifeStep, Stage, StartOrder, Lifecycle!Next, Lifecycle!Start
<1> QED BY <1>1, <1>2, <1>4, <1>5 DEF IInv, TypeOK

(* CompleteOrder keeps the invariant and the life cycle. *)
LEMMA CompleteOrderStep ==
  ASSUME IInv, CompleteOrder
  PROVE  IInv' /\ LifeStep
<1>1. /\ order' \in OrderRecords /\ order'.status = "completed"
      /\ order'.providerId = order.providerId /\ order'.paid = order.paid
  BY DEF IInv, TypeOK, CompleteOrder, OrderRecords, Statuses
<1>2. UNCHANGED <<offer, run, recovering, crashes>> BY DEF CompleteOrder
<1>3. order.status \in Held BY DEF CompleteOrder, Held
<1>4. HolderMatchesOffer' /\ TakenIsPaid'
  BY <1>1, <1>2, <1>3 DEF IInv, HolderMatchesOffer, TakenIsPaid, Held
<1>5. LifeStep
  BY <1>1 DEF LifeStep, Stage, CompleteOrder, Lifecycle!Next, Lifecycle!Complete
<1> QED BY <1>1, <1>2, <1>4, <1>5 DEF IInv, TypeOK

(* CancelOrder keeps the invariant and the life cycle. *)
LEMMA CancelOrderStep ==
  ASSUME IInv, CancelOrder
  PROVE  IInv' /\ LifeStep
<1>1. RunOK' /\ recovering' \in BOOLEAN /\ crashes' \in 0..MaxCrashes
  BY DEF IInv, TypeOK, RunOK, CancelOrder
<1>2. CASE UNCHANGED <<order, offer>>
  BY <1>1, <1>2, SameHolderStep DEF IInv, TypeOK, RunOK, SameHolder
<1>3. CASE order.status \in {"created", "accepted"} /\ \E r \in ReplyStatuses : CancelCommit(r)
  BY <1>1, <1>3, CancelStep DEF IInv, TypeOK, RunOK
<1>4. order.reassignment.status \in ReplyStatuses /\ "failed" \in ReplyStatuses
  BY DEF IInv, TypeOK, OrderRecords, Replies, ReplyStatuses
<1> QED BY <1>2, <1>3, <1>4 DEF CancelOrder

(* SearchExpires keeps the invariant and the life cycle. *)
LEMMA SearchExpiresStep ==
  ASSUME IInv, SearchExpires
  PROVE  IInv' /\ LifeStep
<1>1. order' \in OrderRecords
  BY DEF IInv, TypeOK, SearchExpires, OrderRecords, Replies, BookingStatuses, ReplyStatuses
<1>2. offer' \in [Providers -> OfferRecords]
  <2>1. \A p \in Providers : [offer[p] EXCEPT !.due = TRUE] \in OfferRecords
    BY DEF IInv, TypeOK, OfferRecords
  <2> QED BY <2>1 DEF IInv, TypeOK, SearchExpires
<1>3. RunOK'
  <2>1. \A w \in Workers : \A late \in BOOLEAN :
            /\ [run[w] EXCEPT !.late = late] \in WorkerRecords
            /\ [run[w] EXCEPT !.late = late].pc = run[w].pc
            /\ [run[w] EXCEPT !.late = late].prov = run[w].prov
    BY DEF IInv, TypeOK, WorkerRecords
  <2>2. \A w \in Workers : run[w].late \in BOOLEAN
    BY DEF IInv, TypeOK, WorkerRecords
  <2>3. run' = [w \in Workers |->
                  [run[w] EXCEPT !.late = run[w].late \/ run[w].pc \in {"pending", "pick", "send"}]]
    BY DEF SearchExpires
  <2> QED BY <2>1, <2>2, <2>3 DEF IInv, TypeOK, RunOK
<1>4. SameHolder
  BY DEF IInv, TypeOK, SearchExpires, SameHolder, OrderRecords
<1> QED BY <1>1, <1>2, <1>3, <1>4, SameHolderStep DEF IInv, TypeOK, RunOK, SearchExpires

(* ReplyExpires keeps the invariant and the life cycle. *)
LEMMA ReplyExpiresStep ==
  ASSUME IInv, ReplyExpires
  PROVE  IInv' /\ LifeStep
<1>1. order' \in OrderRecords
  BY DEF IInv, TypeOK, ReplyExpires, OrderRecords, Replies, BookingStatuses, ReplyStatuses
<1>2. offer' \in [Providers -> OfferRecords]
  BY DEF IInv, TypeOK, ReplyExpires
<1>3. RunOK'
  BY DEF IInv, TypeOK, RunOK, ReplyExpires
<1>4. SameHolder
  BY DEF IInv, TypeOK, ReplyExpires, SameHolder, OrderRecords
<1> QED BY <1>1, <1>2, <1>3, <1>4, SameHolderStep DEF IInv, TypeOK, RunOK, ReplyExpires

(* SyncPayment keeps the invariant and the life cycle. *)
LEMMA SyncPaymentStep ==
  ASSUME IInv, NEW h \in Handlers, SyncPayment(h)
  PROVE  IInv' /\ LifeStep
<1>1. /\ order' \in OrderRecords /\ order'.status = order.status
      /\ order'.providerId = order.providerId /\ order'.paid
  BY DEF IInv, TypeOK, SyncPayment, OrderRecords, BookingStatuses
<1>2. RunOK' /\ UNCHANGED <<offer, recovering, crashes>>
  BY GotoType DEF IInv, TypeOK, RunOK, SyncPayment, Workers, Steps, Answering
<1>3. HolderMatchesOffer' /\ TakenIsPaid'
  BY <1>1, <1>2 DEF IInv, HolderMatchesOffer, TakenIsPaid
<1>4. LifeStep
  BY <1>1 DEF LifeStep, Stage, SyncPayment, Lifecycle!Next, Lifecycle!Pay
<1> QED BY <1>1, <1>2, <1>3, <1>4 DEF IInv, TypeOK, RunOK

(* LeaveOrder keeps the invariant and the life cycle. *)
LEMMA LeaveOrderStep ==
  ASSUME IInv, NEW h \in Handlers, LeaveOrder(h)
  PROVE  IInv' /\ LifeStep
<1>1. RunOK' /\ recovering' \in BOOLEAN /\ crashes' \in 0..MaxCrashes
  BY GotoType DEF IInv, TypeOK, RunOK, LeaveOrder, Workers, Steps, Answering
<1>2. order.status = "accepted" /\ order.providerId \in Providers /\ order.paid
  BY DEF IInv, LeaveOrder, HolderMatchesOffer, TakenIsPaid, Held
<1>3. order \in OrderRecords /\ order.reassignment \in Replies
  BY DEF IInv, TypeOK, OrderRecords
<1>4. CASE hasProviderArrived
  <2>1. order.reassignment.status \in ReplyStatuses BY <1>3 DEF Replies
  <2> QED BY <1>1, <1>2, <1>4, <2>1, CancelStep DEF LeaveOrder, IInv, TypeOK, RunOK
<1>5. CASE ~hasProviderArrived
  <2> DEFINE p == order.providerId
             reply == [status |-> "matching", automatic |-> TRUE,
                       previous |-> order.reassignment.previous \cup {p}, over |-> FALSE]
  <2>1. /\ order' = [order EXCEPT
              !.status = "created", !.providerId = Nobody, !.preferredProviderId = Nobody,
              !.readyForMatching = TRUE, !.matchingStartedAt = FALSE,
              !.matchingSearch = "none", !.bookingStatus = "not_required",
              !.reassignment = reply]
        /\ offer' = [BeforeReply EXCEPT ![p] = IF @.status = "accepted" THEN Close(@, "cancelled") ELSE @]
    BY <1>5 DEF LeaveOrder
  <2>2. reply \in Replies BY <1>2, <1>3 DEF Replies, ReplyStatuses
  <2>3. /\ order' \in OrderRecords
        /\ order'.status = "created" /\ order'.providerId = Nobody /\ order'.paid
    <3> HIDE DEF reply
    <3> QED BY <1>2, <1>3, <2>1, <2>2 DEF OrderRecords, Statuses, BookingStatuses
  <2>4. /\ offer' \in [Providers -> OfferRecords]
        /\ \A q \in Providers : offer'[q].status # "accepted"
    <3>1. /\ BeforeReply \in [Providers -> OfferRecords]
          /\ \A q \in Providers : BeforeReply[q].status = "accepted" <=> q = p
      BY <1>2, BeforeType DEF IInv, TypeOK, HolderMatchesOffer
    <3>2. /\ Close(BeforeReply[p], "cancelled") \in OfferRecords
          /\ Close(BeforeReply[p], "cancelled").status = "cancelled"
      BY <1>2, <3>1, CloseType DEF OfferStatuses
    <3> QED BY <1>2, <2>1, <3>1, <3>2
  <2>5. HolderMatchesOffer' /\ TakenIsPaid'
    BY <2>3, <2>4, ConstantsAssumption DEF HolderMatchesOffer, TakenIsPaid, Held
  <2>6. LifeStep
    BY <1>2, <2>3 DEF LifeStep, Stage, Lifecycle!Next, Lifecycle!Leave
  <2> QED BY <1>1, <2>3, <2>4, <2>5, <2>6 DEF IInv, TypeOK, RunOK
<1> QED BY <1>4, <1>5

(* AgreeToSearch keeps the invariant and the life cycle. *)
LEMMA AgreeToSearchStep ==
  ASSUME IInv, NEW h \in Handlers, AgreeToSearch(h)
  PROVE  IInv' /\ LifeStep
<1>1. order' \in OrderRecords
  BY DEF IInv, TypeOK, AgreeToSearch, OrderRecords, Replies, BookingStatuses, ReplyStatuses
<1>2. offer' \in [Providers -> OfferRecords]
  BY BeforeType DEF IInv, TypeOK, AgreeToSearch
<1>3. RunOK'
  BY GotoType DEF IInv, TypeOK, RunOK, AgreeToSearch, Steps, Answering, Workers
<1>4. SameHolder
  BY BeforeType DEF IInv, TypeOK, AgreeToSearch, SameHolder, OrderRecords
<1> QED BY <1>1, <1>2, <1>3, <1>4, SameHolderStep DEF IInv, TypeOK, RunOK, AgreeToSearch

(* DeclineSearch keeps the invariant and the life cycle. *)
LEMMA DeclineSearchStep ==
  ASSUME IInv, NEW h \in Handlers, DeclineSearch(h)
  PROVE  IInv' /\ LifeStep
<1>1. order' \in OrderRecords
  BY DEF IInv, TypeOK, DeclineSearch, OrderRecords, Replies, BookingStatuses, ReplyStatuses
<1>2. offer' \in [Providers -> OfferRecords]
  BY DEF IInv, TypeOK, DeclineSearch
<1>3. RunOK'
  BY GotoType DEF IInv, TypeOK, RunOK, DeclineSearch, Steps, Answering, Workers
<1>4. SameHolder
  BY DEF IInv, TypeOK, DeclineSearch, SameHolder, OrderRecords
<1> QED BY <1>1, <1>2, <1>3, <1>4, SameHolderStep DEF IInv, TypeOK, RunOK, DeclineSearch

(* Redispatch keeps the invariant and the life cycle. *)
LEMMA RedispatchStep ==
  ASSUME IInv, NEW h \in Handlers, Redispatch(h)
  PROVE  IInv' /\ LifeStep
<1>1. order' \in OrderRecords
  BY DEF IInv, TypeOK, Redispatch
<1>2. offer' \in [Providers -> OfferRecords]
  BY DEF IInv, TypeOK, Redispatch
<1>3. RunOK'
  BY GotoType DEF IInv, TypeOK, RunOK, Redispatch, Steps, Answering, Workers
<1>4. SameHolder
  BY DEF IInv, TypeOK, Redispatch, SameHolder
<1> QED BY <1>1, <1>2, <1>3, <1>4, SameHolderStep DEF IInv, TypeOK, RunOK, Redispatch

(* TimerFires keeps the invariant and the life cycle. *)
LEMMA TimerFiresStep ==
  ASSUME IInv, NEW h \in Handlers, NEW p \in Providers, TimerFires(h, p)
  PROVE  IInv' /\ LifeStep
<1>1. /\ RunOK' /\ offer' \in [Providers -> OfferRecords]
      /\ \A q \in Providers : offer'[q].status = "accepted" <=> offer[q].status = "accepted"
  BY TimeoutOfferType DEF IInv, TypeOK, RunOK, Workers, TimerFires
<1> QED BY <1>1, SameHolderStep DEF IInv, TypeOK, RunOK, SameHolder, TimerFires

(* RejectOffer keeps the invariant and the life cycle. *)
LEMMA RejectOfferStep ==
  ASSUME IInv, NEW h \in Handlers, NEW p \in Providers, RejectOffer(h, p)
  PROVE  IInv' /\ LifeStep
<1>1. order' \in OrderRecords
  BY DEF IInv, TypeOK, RejectOffer
<1>2. offer' \in [Providers -> OfferRecords]
  BY CloseType DEF IInv, TypeOK, RejectOffer, OfferStatuses
<1>3. RunOK'
  BY AnswerType DEF IInv, TypeOK, RunOK, RejectOffer, Workers, Steps
<1>4. SameHolder
  BY CloseType DEF IInv, TypeOK, RejectOffer, SameHolder, OfferStatuses
<1> QED BY <1>1, <1>2, <1>3, <1>4, SameHolderStep DEF IInv, TypeOK, RunOK, RejectOffer

(* CheckAccept keeps the invariant and the life cycle. *)
LEMMA CheckAcceptStep ==
  ASSUME IInv, NEW h \in Handlers, NEW p \in Providers, CheckAccept(h, p)
  PROVE  IInv' /\ LifeStep
<1>1. order' \in OrderRecords
  BY DEF IInv, TypeOK, CheckAccept
<1>2. offer' \in [Providers -> OfferRecords]
  BY DEF IInv, TypeOK, CheckAccept
<1>3. RunOK'
  BY AnswerType DEF IInv, TypeOK, RunOK, CheckAccept, Workers, Steps
<1>4. SameHolder
  BY DEF IInv, TypeOK, CheckAccept, SameHolder
<1> QED BY <1>1, <1>2, <1>3, <1>4, SameHolderStep DEF IInv, TypeOK, RunOK, CheckAccept

(* SelectProvider keeps the invariant and the life cycle. *)
LEMMA SelectProviderStep ==
  ASSUME IInv, NEW h \in Handlers, NEW p \in Providers, SelectProvider(h, p)
  PROVE  IInv' /\ LifeStep
<1>1. order' \in OrderRecords
  BY DEF IInv, TypeOK, SelectProvider, OrderRecords, Replies, BookingStatuses, ReplyStatuses
<1>2. offer' \in [Providers -> OfferRecords]
  BY BeforeType DEF IInv, TypeOK, SelectProvider
<1>3. RunOK'
  BY GotoWithType DEF IInv, TypeOK, RunOK, SelectProvider, Steps, Answering, OrderRecords, Workers
<1>4. SameHolder
  BY BeforeType DEF IInv, TypeOK, SelectProvider, SameHolder, OrderRecords
<1> QED BY <1>1, <1>2, <1>3, <1>4, SameHolderStep DEF IInv, TypeOK, RunOK, SelectProvider

(* OfferExpires keeps the invariant and the life cycle. *)
LEMMA OfferExpiresStep ==
  ASSUME IInv, NEW p \in Providers, OfferExpires(p)
  PROVE  IInv' /\ LifeStep
<1>1. order' \in OrderRecords
  BY DEF IInv, TypeOK, OfferExpires
<1>2. offer' \in [Providers -> OfferRecords]
  <2>1. [offer[p] EXCEPT !.due = TRUE] \in OfferRecords
    BY DEF IInv, TypeOK, OfferRecords
  <2> QED BY <2>1 DEF IInv, TypeOK, OfferExpires
<1>3. RunOK'
  BY DEF IInv, TypeOK, RunOK, OfferExpires
<1>4. SameHolder
  BY DEF IInv, TypeOK, OfferExpires, SameHolder
<1> QED BY <1>1, <1>2, <1>3, <1>4, SameHolderStep DEF IInv, TypeOK, RunOK, OfferExpires

(* Crash keeps the invariant and the life cycle. *)
LEMMA CrashStep ==
  ASSUME IInv, Crash
  PROVE  IInv' /\ LifeStep
<1>1. order' \in OrderRecords
  BY DEF IInv, TypeOK, Crash
<1>2. offer' \in [Providers -> OfferRecords]
  BY DEF IInv, TypeOK, Crash
<1>3. RunOK'
  <2>1. /\ Idle("scanTimeouts") \in WorkerRecords /\ Idle("scanTimeouts").pc \notin Answering
        /\ Idle("idle") \in WorkerRecords /\ Idle("idle").pc \notin Answering
    BY IdleType DEF Waiting
  <2> QED BY <2>1 DEF RunOK, Crash
<1>4. SameHolder
  BY DEF IInv, TypeOK, Crash, SameHolder
<1>5. crashes' \in 0..MaxCrashes /\ recovering' \in BOOLEAN
  BY ConstantsAssumption DEF IInv, TypeOK, Crash
<1> QED BY <1>1, <1>2, <1>3, <1>4, <1>5, SameHolderStep DEF IInv, TypeOK, RunOK

-----------------------------------------------------------------------------
(* The theorems *)

(* Every order starts in a state of the invariant, and the customer sees an *)
(* unpaid order nobody holds.                                               *)
LEMMA InitInv ==
  ASSUME Init
  PROVE  IInv /\ Lifecycle!Init
<1>1. order \in OrderRecords
  BY ConstantsAssumption DEF Init, OrderRecords, Replies, NoReply, Statuses, BookingStatuses, ReplyStatuses
<1>2. offer \in [Providers -> OfferRecords]
  BY DEF Init, NoOffer, OfferRecords, OfferStatuses, OfferTypes
<1>3. RunOK
  <2>1. /\ Idle("scanTimeouts") \in WorkerRecords /\ Idle("scanTimeouts").pc \notin Answering
        /\ Idle("idle") \in WorkerRecords /\ Idle("idle").pc \notin Answering
    BY IdleType DEF Waiting
  <2> QED BY <2>1 DEF RunOK, Init
<1>4. recovering \in BOOLEAN /\ crashes \in 0..MaxCrashes
  BY ConstantsAssumption DEF Init
<1>5. /\ order.status = "created" /\ order.providerId = Nobody /\ ~order.paid
      /\ \A p \in Providers : offer[p].status = "none"
  BY DEF Init, NoOffer
<1>6. HolderMatchesOffer /\ TakenIsPaid
  BY <1>5, ConstantsAssumption DEF HolderMatchesOffer, TakenIsPaid, Held
<1>7. Lifecycle!Init
  BY <1>5 DEF Lifecycle!Init, Stage
<1> QED BY <1>1, <1>2, <1>3, <1>4, <1>6, <1>7 DEF IInv, TypeOK, RunOK

(* Whoever moves, the invariant stays and the life cycle is kept. *)
LEMMA NextInv ==
  ASSUME IInv, [Next]_vars
  PROVE  IInv' /\ LifeStep
<1>1. ASSUME NEW w \in Workers, Work(w) PROVE IInv' /\ LifeStep
  BY <1>1, ReadReadyStep, ClaimMatchingStep, FindPreferredStep, AwaitPreferredStep,
     SendDirectStep, PreferredUnavailableStep, ReadTriedStep, LoadOrderStep,
     CheckPendingStep, PickCandidatesStep, SendOfferStep, CancelUnmatchedStep,
     CommitUnmatchedStep, AfterTimeoutStep, DirectTimedOutStep, AskCustomerStep,
     AnyPendingStep, AfterRejectStep, AcceptOfferStep, CloseCompetingStep,
     CancelAfterReplyStep, CreateDirectStep, UndoSelectionStep
     DEF Work
<1>2. ASSUME Scan PROVE IInv' /\ LifeStep
  BY <1>2, ScanTimeoutsStep, ScanReadyStep, ScanActiveStep, ScanStalledStep,
     RestartMatchingStep, EndScanStep
     DEF Scan
<1>3. ASSUME ExpireReplies PROVE IInv' /\ LifeStep
  BY <1>3, FindRepliesStep, ExpireReplyStep DEF ExpireReplies
<1>4. ASSUME NEW h \in Handlers, Request(h) PROVE IInv' /\ LifeStep
  BY <1>4, SyncPaymentStep, LeaveOrderStep, AgreeToSearchStep, DeclineSearchStep,
     RedispatchStep, TimerFiresStep, RejectOfferStep, CheckAcceptStep,
     SelectProviderStep
     DEF Request
<1>5. ASSUME Environment PROVE IInv' /\ LifeStep
  BY <1>5, MarkArrivalStep, StartOrderStep, CompleteOrderStep, CancelOrderStep
     DEF Environment
<1>6. ASSUME Time PROVE IInv' /\ LifeStep
  BY <1>6, SearchExpiresStep, ReplyExpiresStep, OfferExpiresStep DEF Time
<1>7. CASE UNCHANGED vars
  BY <1>7 DEF vars, IInv, TypeOK, HolderMatchesOffer, TakenIsPaid, LifeStep, Stage
<1> QED BY <1>1, <1>2, <1>3, <1>4, <1>5, <1>6, <1>7, CrashStep DEF Next

(* The invariant holds in every reachable state. *)
LEMMA Invariance == Spec => []IInv
<1>1. Init => IInv BY InitInv
<1>2. IInv /\ [Next]_vars => IInv' BY NextInv
<1> QED BY <1>1, <1>2, PTL DEF Spec

(* Every document and every worker keeps the shape the code relies on,      *)
(* whatever the handlers, the timers and the monitors do.                   *)
THEOREM TypeCorrect == Spec => []TypeOK
<1>1. IInv => TypeOK BY DEF IInv
<1> QED BY <1>1, Invariance, PTL

(* The order and its offers agree on who holds it, for any number of        *)
(* providers competing for it and any interleaving of the handlers.         *)
THEOREM HolderCorrect == Spec => []HolderMatchesOffer
<1>1. IInv => HolderMatchesOffer BY DEF IInv
<1> QED BY <1>1, Invariance, PTL

(* The matching implements the life cycle: one holder at a time, only for a *)
(* paid order, and no way back from a completed or a cancelled order.       *)
THEOREM LifecycleCorrect == Spec => KeepsLifecycle
<1>1. Init => Lifecycle!Init BY InitInv
<1>2. IInv /\ [Next]_vars => [Lifecycle!Next]_<<Stage, order.providerId>>
  BY NextInv DEF LifeStep
<1> QED BY <1>1, <1>2, Invariance, PTL DEF Spec, KeepsLifecycle, Lifecycle!Spec, Lifecycle!lifecycle

-----------------------------------------------------------------------------
(* What the life cycle says of the order of Matching.                      *)

LEMMA LifecycleHolds ==
  ASSUME Lifecycle!HeldOnceTaken, [Lifecycle!Next]_(Lifecycle!lifecycle)
  PROVE  Lifecycle!HeldOnceTaken'
<1>1. CASE Lifecycle!Pay BY <1>1 DEF Lifecycle!Pay, Lifecycle!HeldOnceTaken
<1>2. ASSUME NEW p \in Providers, Lifecycle!Take(p) PROVE Lifecycle!HeldOnceTaken'
  BY <1>2 DEF Lifecycle!Take, Lifecycle!HeldOnceTaken
<1>3. CASE Lifecycle!Leave BY <1>3 DEF Lifecycle!Leave, Lifecycle!HeldOnceTaken
<1>4. CASE Lifecycle!Start \/ Lifecycle!Complete
  BY <1>4 DEF Lifecycle!Start, Lifecycle!Complete, Lifecycle!HeldOnceTaken
<1>5. CASE Lifecycle!Cancel BY <1>5 DEF Lifecycle!Cancel, Lifecycle!HeldOnceTaken
<1>6. CASE UNCHANGED Lifecycle!lifecycle
  BY <1>6 DEF Lifecycle!lifecycle, Lifecycle!HeldOnceTaken
<1> QED BY <1>1, <1>2, <1>3, <1>4, <1>5, <1>6 DEF Lifecycle!Next

(* Whatever the handlers do, the order of Matching has a holder exactly    *)
(* from the acceptance on.                                                 *)
THEOREM HeldOnceTakenCorrect == Spec => []Lifecycle!HeldOnceTaken
<1>1. Lifecycle!Init => Lifecycle!HeldOnceTaken
  BY DEF Lifecycle!Init, Lifecycle!HeldOnceTaken
<1> QED BY <1>1, LifecycleHolds, LifecycleCorrect, PTL DEF KeepsLifecycle, Lifecycle!Spec

(* Whatever the handlers do, the order of Matching is paid before it is    *)
(* taken, changes hands only while nobody works, and ends for good.        *)
THEOREM OrderAdvancesCorrect == Spec => Lifecycle!OrderAdvances
<1> DEFINE Advances ==
      /\ Stage = "unpaid" => Stage' \in {"unpaid", "waiting", "cancelled"}
      /\ order.providerId # Nobody /\ order.providerId' # order.providerId
            => Stage = "accepted" /\ order.providerId' = Nobody
      /\ Stage = "in_progress" => Stage' \in {"in_progress", "completed"}
      /\ Stage \in {"completed", "cancelled"} => UNCHANGED <<Stage, order.providerId>>
<1>1. Lifecycle!HeldOnceTaken /\ [Lifecycle!Next]_<<Stage, order.providerId>>
        => [Advances]_<<Stage, order.providerId>>
  BY DEF Lifecycle!HeldOnceTaken, Lifecycle!Next, Lifecycle!Pay, Lifecycle!Take, Lifecycle!Leave,
         Lifecycle!Start, Lifecycle!Complete, Lifecycle!Cancel
<1> QED
  BY <1>1, HeldOnceTakenCorrect, LifecycleCorrect, PTL
  DEF KeepsLifecycle, Lifecycle!Spec, Lifecycle!lifecycle, Lifecycle!OrderAdvances

-----------------------------------------------------------------------------
(* Appointments.  An offer of an appointment is for the appointment, and so *)
(* is an answer to it: who takes it confirms it.                            *)

AppointmentOffers ==
    Scheduled =>
        /\ \A p \in Providers : offer[p].status = "pending" => offer[p].type = "appointment"
        /\ \A w \in Workers : run[w].pc = "accept" => run[w].type = "appointment"

(* What a step may do to a worker, to the offers and to the order so that   *)
(* this stays.                                                              *)
RunKeeps ==
    \A v \in Workers : run'[v].pc = "accept" =>
        \/ run[v].pc = "accept" /\ run'[v].type = run[v].type
        \/ \E p \in Providers : offer[p].status = "pending" /\ run'[v].type = offer[p].type

OffersKeep ==
    \A p \in Providers : offer'[p].status = "pending" =>
        \/ offer[p].status = "pending" /\ offer'[p].type = offer[p].type
        \/ Scheduled => offer'[p].type = "appointment"

OrderKeeps ==
    /\ order'.orderType = order.orderType
    /\ Scheduled /\ order'.status \in Held =>
         \/ order'.bookingStatus = "confirmed"
         \/ order.status \in Held /\ order'.bookingStatus = order.bookingStatus

LEMMA KeepsAppointment ==
  ASSUME IInv, AppointmentOffers, AppointmentConfirmed, RunKeeps, OffersKeep, OrderKeeps
  PROVE  AppointmentOffers' /\ AppointmentConfirmed'
BY DEF AppointmentOffers, AppointmentConfirmed, RunKeeps, OffersKeep, OrderKeeps, Scheduled

(* A worker that goes on somewhere else than to an acceptance.              *)
LEMMA MovesKeep ==
  ASSUME IInv, NEW w \in Workers, NEW s, s # "accept"
  PROVE  /\ Goto(w, s) => RunKeeps
         /\ GoOn(w, s) => RunKeeps
         /\ \A p : GotoWith(w, s, p) => RunKeeps
         /\ Finish(w) => RunKeeps
         /\ Abort(w) => RunKeeps
         /\ \A r : r.pc = s /\ Begin(w, r) => RunKeeps
<1>1. run \in [Workers -> WorkerRecords] BY DEF IInv, TypeOK
<1>2. ASSUME NEW r, run' = [run EXCEPT ![w] = r], r.pc # "accept" PROVE RunKeeps
  BY <1>1, <1>2 DEF RunKeeps
<1>3. run[w].back \in Waiting BY <1>1 DEF WorkerRecords
<1>4. Idle(run[w].back).pc # "accept" /\ Idle("scanTimeouts").pc # "accept"
  BY <1>3 DEF Idle, Waiting
<1>5. \A p : /\ [Idle(run[w].back) EXCEPT !.pc = s].pc # "accept"
             /\ [Idle(run[w].back) EXCEPT !.pc = s, !.prov = p].pc # "accept"
             /\ [run[w] EXCEPT !.pc = s].pc # "accept"
  BY <1>1 DEF Idle, WorkerRecords
<1>6. Goto(w, s) => RunKeeps BY <1>2, <1>5 DEF Goto
<1>7. GoOn(w, s) => RunKeeps
  BY <1>1, <1>2, <1>5 DEF GoOn
<1>8. \A p : GotoWith(w, s, p) => RunKeeps BY <1>2, <1>5 DEF GotoWith
<1>9. Finish(w) => RunKeeps BY <1>2, <1>4 DEF Finish
<1>10. Abort(w) => RunKeeps BY <1>2, <1>4, <1>9 DEF Abort
<1>11. \A r : r.pc = s /\ Begin(w, r) => RunKeeps BY <1>2 DEF Begin
<1> QED BY <1>6, <1>7, <1>8, <1>9, <1>10, <1>11

(* A closed offer is not pending.                                           *)
LEMMA CloseKeeps ==
  ASSUME NEW o \in OfferRecords
  PROVE  /\ Close(o, "timeout").status # "pending" /\ Close(o, "rejected").status # "pending"
         /\ Close(o, "cancelled").status # "pending" /\ Close(o, "accepted").status # "pending"
BY DEF Close, OfferRecords, NoOffer

(* The answers and the searches.                                            *)
LEMMA WorkKeeps ==
  ASSUME IInv, AppointmentOffers, AppointmentConfirmed, NEW w \in Workers, Work(w)
  PROVE  RunKeeps /\ OffersKeep /\ OrderKeeps
<1>1. /\ order \in OrderRecords /\ offer \in [Providers -> OfferRecords]
      /\ run \in [Workers -> WorkerRecords]
  BY DEF IInv, TypeOK
<1>2. UNCHANGED order => OrderKeeps BY DEF OrderKeeps
<1>3. UNCHANGED offer => OffersKeep BY DEF OffersKeep
<1>4. UNCHANGED run => RunKeeps BY DEF RunKeeps
<1>5. CASE \/ ReadReady(w) \/ FindPreferred(w) \/ CheckPending(w) \/ CancelUnmatched(w)
           \/ AfterTimeout(w) \/ AnyPending(w) \/ AfterReject(w)
  BY <1>2, <1>3, <1>5, MovesKeep
  DEF ReadReady, FindPreferred, CheckPending, CancelUnmatched, AfterTimeout, AnyPending, AfterReject
<1>6. CASE ClaimMatching(w)
  <2>1. OrderKeeps BY <1>1, <1>6 DEF OrderKeeps, ClaimMatching, OrderRecords, Held
  <2>2. OffersKeep BY <1>1, <1>6 DEF OffersKeep, ClaimMatching, BeforeStart, OfferRecords
  <2>3. RunKeeps BY <1>6, MovesKeep DEF ClaimMatching
  <2> QED BY <2>1, <2>2, <2>3
<1>7. ASSUME order' = BackToCustomer(order) PROVE OrderKeeps
  BY <1>1, <1>7 DEF OrderKeeps, BackToCustomer, OrderRecords, Held
<1>8. CASE PreferredUnavailable(w) \/ DirectTimedOut(w)
  BY <1>3, <1>7, <1>8, MovesKeep DEF PreferredUnavailable, DirectTimedOut
<1>9. CASE AwaitPreferred(w)
  <2>1. OrderKeeps BY <1>1, <1>9 DEF OrderKeeps, AwaitPreferred, OrderRecords, Held
  <2> QED BY <1>3, <1>9, <2>1, MovesKeep DEF AwaitPreferred
<1>10. ASSUME NEW p \in Providers, NEW d \in BOOLEAN, NEW t \in {DirectType, BatchType},
              offer' = [offer EXCEPT ![p] = NewOffer(t, d)]
       PROVE  OffersKeep
  BY <1>1, <1>10 DEF OffersKeep, NewOffer, DirectType, BatchType, Scheduled
<1>11. CASE SendDirect(w)
  <2>1. OffersKeep
    <3>1. CASE UNCHANGED offer BY <1>3, <3>1
    <3>2. CASE offer' = [offer EXCEPT ![run[w].prov] = NewOffer(DirectType, FALSE)]
      BY <1>1, <3>2 DEF OffersKeep, NewOffer, DirectType, Scheduled
    <3> QED BY <1>11, <3>1, <3>2 DEF SendDirect
  <2> QED BY <1>2, <1>11, <2>1, MovesKeep DEF SendDirect
<1>12. CASE SendOffer(w)
  <2>1. PICK p \in run[w].cand :
          /\ \/ UNCHANGED offer
             \/ offer' = [offer EXCEPT ![p] = NewOffer(BatchType, run[w].late)]
          /\ \/ Finish(w)
             \/ run' = [run EXCEPT ![w].cand = @ \ {p}, ![w].first = FALSE]
    BY <1>12 DEF SendOffer
  <2>2. OffersKeep
    <3>1. CASE UNCHANGED offer BY <1>3, <3>1
    <3>2. CASE offer' = [offer EXCEPT ![p] = NewOffer(BatchType, run[w].late)]
      BY <1>1, <3>2 DEF OffersKeep, NewOffer, BatchType, Scheduled
    <3> QED BY <2>1, <3>1, <3>2
  <2>3. RunKeeps
    <3>1. CASE Finish(w) BY <3>1, MovesKeep
    <3>2. CASE run' = [run EXCEPT ![w].cand = @ \ {p}, ![w].first = FALSE]
      BY <1>1, <3>2 DEF RunKeeps, WorkerRecords
    <3> QED BY <2>1, <3>1, <3>2
  <2> QED BY <1>2, <1>12, <2>2, <2>3 DEF SendOffer
<1>13. CASE ReadTried(w)
  BY <1>1, <1>2, <1>3, <1>13 DEF ReadTried, RunKeeps, WorkerRecords
<1>14. CASE LoadOrder(w)
  <2>1. OrderKeeps BY <1>1, <1>14 DEF OrderKeeps, LoadOrder, OrderRecords
  <2>2. RunKeeps
    <3>1. CASE Finish(w) BY <3>1, MovesKeep
    <3>2. ASSUME NEW s \in {"cancel", "pending"}, NEW m, run' = [run EXCEPT ![w].pc = s, ![w].mode = m]
          PROVE RunKeeps
      BY <1>1, <3>2 DEF RunKeeps, WorkerRecords
    <3> QED BY <1>4, <1>14, <3>1, <3>2 DEF LoadOrder
  <2> QED BY <1>3, <1>14, <2>1, <2>2 DEF LoadOrder
<1>15. CASE PickCandidates(w)
  <2>1. PICK C : Finish(w) \/ run' = [run EXCEPT ![w] = [Idle(@.back) EXCEPT !.pc = "send", !.cand = C]]
    BY <1>15 DEF PickCandidates
  <2>2. ASSUME run' = [run EXCEPT ![w] = [Idle(@.back) EXCEPT !.pc = "send", !.cand = C]]
        PROVE  RunKeeps
    <3>1. Idle(run[w].back) \in WorkerRecords BY <1>1, IdleType DEF WorkerRecords
    <3>2. PICK i \in WorkerRecords : i = Idle(run[w].back) BY <3>1
    <3>3. [i EXCEPT !.pc = "send", !.cand = C].pc = "send" BY DEF WorkerRecords
    <3>4. run' = [run EXCEPT ![w] = [i EXCEPT !.pc = "send", !.cand = C]]
      <4>1. run' = [run EXCEPT ![w] = [Idle(run[w].back) EXCEPT !.pc = "send", !.cand = C]]
        BY <1>1, <2>2
      <4> QED BY <3>2, <4>1
    <3> QED BY <1>1, <3>3, <3>4 DEF RunKeeps
  <2> QED BY <1>2, <1>3, <1>15, <2>1, <2>2, MovesKeep DEF PickCandidates
<1>16. ASSUME NEW reply, CancelCommit(reply) PROVE OrderKeeps /\ OffersKeep
  <2>1. OrderKeeps BY <1>1, <1>16 DEF OrderKeeps, CancelCommit, OrderRecords, Held
  <2>2. OffersKeep BY <1>1, <1>16, CloseKeeps DEF OffersKeep, CancelCommit
  <2> QED BY <2>1, <2>2
<1>17. CASE CommitUnmatched(w) \/ CancelAfterReply(w)
  BY <1>2, <1>3, <1>16, <1>17, MovesKeep DEF CommitUnmatched, CancelAfterReply
<1>18. CASE AskCustomer(w)
  <2>1. OrderKeeps
    BY <1>1, <1>18 DEF OrderKeeps, AskCustomer, BackToCustomer, OrderRecords, Held
  <2> QED BY <1>3, <1>18, <2>1, MovesKeep DEF AskCustomer
<1>19. CASE AcceptOffer(w)
  <2>1. RunKeeps
    <3>1. GotoWith(w, "closeOthers", run[w].prov) \/ Finish(w) BY <1>19 DEF AcceptOffer
    <3> QED BY <3>1, MovesKeep
  <2>2. CASE UNCHANGED <<order, offer>> BY <1>2, <1>3, <2>1, <2>2
  <2>3. CASE ~UNCHANGED <<order, offer>>
    <3>1. OffersKeep BY <1>1, <1>19, <2>3, CloseKeeps DEF OffersKeep, AcceptOffer
    <3>2. Scheduled => run[w].type = "appointment"
      BY <1>19 DEF AppointmentOffers, AcceptOffer
    <3>3. OrderKeeps
      BY <1>1, <1>19, <2>3, <3>2 DEF OrderKeeps, AcceptOffer, OrderRecords
    <3> QED BY <2>1, <3>1, <3>3
  <2> QED BY <2>2, <2>3
<1>20. CASE CloseCompeting(w)
  <2>1. OffersKeep BY <1>1, <1>20, CloseKeeps DEF OffersKeep, CloseCompeting
  <2> QED BY <1>2, <1>20, <2>1, MovesKeep DEF CloseCompeting
<1>21. CASE CreateDirect(w)
  <2>1. OffersKeep
    <3>1. CASE UNCHANGED offer BY <1>3, <3>1
    <3>2. CASE offer' = [offer EXCEPT ![run[w].prov] = NewOffer(DirectType, FALSE)]
      BY <1>1, <3>2 DEF OffersKeep, NewOffer, DirectType, Scheduled
    <3> QED BY <1>21, <3>1, <3>2 DEF CreateDirect
  <2> QED BY <1>2, <1>21, <2>1, MovesKeep DEF CreateDirect
<1>22. CASE UndoSelection(w)
  <2>1. order'.bookingStatus # order.bookingStatus => order.bookingStatus = "awaiting_provider"
    BY <1>22 DEF UndoSelection
  <2>2. OrderKeeps
    BY <1>1, <1>22 DEF OrderKeeps, UndoSelection, OrderRecords, AppointmentConfirmed
  <2> QED BY <1>3, <1>22, <2>2, MovesKeep DEF UndoSelection
<1> QED BY <1>5, <1>6, <1>8, <1>9, <1>11, <1>12, <1>13, <1>14, <1>15, <1>17, <1>18, <1>19, <1>20,
           <1>21, <1>22 DEF Work

(* The monitors. *)
LEMMA TimeoutKeeps ==
  ASSUME IInv, NEW w \in Workers, NEW p \in Providers, NEW s, s # "accept",
         NEW status \in {"timeout", "rejected"},
         offer' = [offer EXCEPT ![p] = Close(@, status)],
         NEW type, Begin(w, [run[w] EXCEPT !.pc = s, !.prov = p, !.type = type])
  PROVE  RunKeeps /\ OffersKeep
<1>1. offer \in [Providers -> OfferRecords] /\ run \in [Workers -> WorkerRecords]
  BY DEF IInv, TypeOK
<1>2. OffersKeep BY <1>1, CloseKeeps DEF OffersKeep
<1>3. RunKeeps BY <1>1 DEF RunKeeps, Begin, WorkerRecords
<1> QED BY <1>2, <1>3

LEMMA MonitorsKeep ==
  ASSUME IInv, Scan \/ ExpireReplies PROVE RunKeeps /\ OffersKeep /\ OrderKeeps
<1>1. /\ order \in OrderRecords /\ offer \in [Providers -> OfferRecords]
      /\ run \in [Workers -> WorkerRecords] /\ Scanner \in Workers /\ Monitor \in Workers
  BY DEF IInv, TypeOK, Workers
<1>2. UNCHANGED order => OrderKeeps BY DEF OrderKeeps
<1>3. UNCHANGED offer => OffersKeep BY DEF OffersKeep
<1>4. \A s : Idle(s).pc = s BY DEF Idle
<1>5. CASE ScanTimeouts
  <2>1. ASSUME NEW p \in Providers, TimeoutOffer(Scanner, p) PROVE RunKeeps /\ OffersKeep
    BY <1>1, <2>1, TimeoutKeeps DEF TimeoutOffer
  <2>2. ASSUME Begin(Scanner, Idle("scanReady")) PROVE RunKeeps
    BY <1>1, <1>4, <2>2, MovesKeep
  <2> QED BY <1>2, <1>3, <1>5, <2>1, <2>2 DEF ScanTimeouts
<1>6. ASSUME NEW s, s # "accept", NEW t, NEW p, Begin(Scanner, [Idle(t) EXCEPT !.pc = s, !.prov = p])
      PROVE  RunKeeps
  BY <1>1, <1>6, MovesKeep DEF Idle
<1>7. ASSUME NEW s, s # "accept", NEW t, Begin(Scanner, [Idle(t) EXCEPT !.pc = s])
      PROVE  RunKeeps
  BY <1>1, <1>7, MovesKeep DEF Idle
<1>8. CASE ScanReady
  <2>1. \/ Begin(Scanner, [Idle("scanActive") EXCEPT !.pc = "ready"])
        \/ Begin(Scanner, Idle("scanActive"))
    BY <1>8 DEF ScanReady
  <2>2. RunKeeps BY <1>1, <1>4, <1>7, <2>1, MovesKeep
  <2> QED BY <1>2, <1>3, <1>8, <2>2 DEF ScanReady
<1>9. CASE ScanActive
  <2>1. \/ Begin(Scanner, [Idle("scanEnd") EXCEPT !.pc = "activePending",
                                                  !.prov = order.preferredProviderId])
        \/ Begin(Scanner, Idle("scanEnd"))
    BY <1>9 DEF ScanActive
  <2>2. RunKeeps BY <1>1, <1>4, <1>6, <2>1, MovesKeep
  <2> QED BY <1>2, <1>3, <1>9, <2>2 DEF ScanActive
<1>10. CASE ScanStalled \/ FindReplies
  BY <1>1, <1>2, <1>3, <1>10, MovesKeep DEF ScanStalled, FindReplies
<1>11. CASE RestartMatching
  <2>1. OrderKeeps BY <1>1, <1>11 DEF OrderKeeps, RestartMatching, OrderRecords
  <2> QED BY <1>1, <1>3, <1>11, <2>1, MovesKeep DEF RestartMatching
<1>12. CASE EndScan
  BY <1>1, <1>2, <1>3, <1>4, <1>12, MovesKeep DEF EndScan
<1>13. CASE ExpireReply
  <2>1. OrderKeeps BY <1>1, <1>13 DEF OrderKeeps, ExpireReply, OrderRecords
  <2> QED BY <1>1, <1>3, <1>13, <2>1, MovesKeep DEF ExpireReply
<1> QED BY <1>5, <1>8, <1>9, <1>10, <1>11, <1>12, <1>13 DEF Scan, ExpireReplies

(* People, time and crashes. *)
LEMMA RequestKeeps ==
  ASSUME IInv, NEW h \in Handlers, Request(h) PROVE RunKeeps /\ OffersKeep /\ OrderKeeps
<1>1. /\ order \in OrderRecords /\ offer \in [Providers -> OfferRecords]
      /\ run \in [Workers -> WorkerRecords] /\ h \in Workers
  BY DEF IInv, TypeOK, Workers
<1>2. UNCHANGED order => OrderKeeps BY DEF OrderKeeps
<1>3. UNCHANGED offer => OffersKeep BY DEF OffersKeep
<1>4. UNCHANGED run => RunKeeps BY DEF RunKeeps
<1>5. CASE SyncPayment(h)
  <2>1. order.status \in Held => order.providerId # Nobody
    BY ConstantsAssumption DEF IInv, HolderMatchesOffer
  <2>2. order' = [order EXCEPT
                 !.paid = TRUE,
                 !.readyForMatching = order.status = "created" \/ order.readyForMatching,
                 !.bookingStatus = IF Scheduled /\ order.status \in {"created", "accepted"}
                                   THEN IF order.providerId # Nobody THEN "confirmed"
                                        ELSE "awaiting_provider"
                                   ELSE order.bookingStatus]
    BY <1>1, <1>5 DEF SyncPayment, OrderRecords
  <2>3. /\ order'.orderType = order.orderType /\ order'.status = order.status
        /\ order'.bookingStatus = IF Scheduled /\ order.status \in {"created", "accepted"}
                                  THEN IF order.providerId # Nobody THEN "confirmed"
                                       ELSE "awaiting_provider"
                                  ELSE order.bookingStatus
    BY <1>1, <2>2 DEF OrderRecords
  <2>4. OrderKeeps BY <2>1, <2>3 DEF OrderKeeps, Held
  <2> QED BY <1>1, <1>3, <1>4, <1>5, <2>4, MovesKeep DEF SyncPayment
<1>6. ASSUME NEW reply, CancelCommit(reply) PROVE OrderKeeps /\ OffersKeep
  <2>1. OrderKeeps BY <1>1, <1>6 DEF OrderKeeps, CancelCommit, OrderRecords, Held
  <2>2. OffersKeep BY <1>1, <1>6, CloseKeeps DEF OffersKeep, CancelCommit
  <2> QED BY <2>1, <2>2
<1>7. offer' = BeforeReply => OffersKeep
  BY <1>1 DEF OffersKeep, BeforeReply, OfferRecords
<1>8. CASE LeaveOrder(h)
  <2>1. CASE hasProviderArrived
    BY <1>4, <1>6, <1>8, <2>1 DEF LeaveOrder
  <2>2. CASE ~hasProviderArrived
    <3>1. OrderKeeps BY <1>1, <1>8, <2>2 DEF OrderKeeps, LeaveOrder, OrderRecords, Held
    <3>2. OffersKeep
      BY <1>1, <1>8, <2>2 DEF OffersKeep, LeaveOrder, BeforeReply, OfferRecords, Close, NoOffer
    <3> QED BY <1>1, <1>8, <2>2, <3>1, <3>2, MovesKeep DEF LeaveOrder
  <2> QED BY <2>1, <2>2
<1>9. CASE AgreeToSearch(h)
  <2>1. OrderKeeps BY <1>1, <1>9 DEF OrderKeeps, AgreeToSearch, OrderRecords, Held
  <2> QED BY <1>1, <1>7, <1>9, <2>1, MovesKeep DEF AgreeToSearch
<1>10. CASE DeclineSearch(h)
  <2>1. OrderKeeps BY <1>1, <1>10 DEF OrderKeeps, DeclineSearch, OrderRecords, Held
  <2>2. Goto(h, "expired") \/ Goto(h, "declined") BY <1>10 DEF DeclineSearch
  <2> QED BY <1>1, <1>3, <1>10, <2>1, <2>2, MovesKeep DEF DeclineSearch
<1>11. CASE Redispatch(h)
  BY <1>1, <1>2, <1>3, <1>11, MovesKeep DEF Redispatch
<1>12. ASSUME NEW p \in Providers, TimerFires(h, p) \/ RejectOffer(h, p)
       PROVE  RunKeeps /\ OffersKeep /\ OrderKeeps
  BY <1>1, <1>2, <1>12, TimeoutKeeps DEF TimerFires, TimeoutOffer, RejectOffer
<1>13. ASSUME NEW p \in Providers, CheckAccept(h, p) PROVE RunKeeps /\ OffersKeep /\ OrderKeeps
  <2>1. RunKeeps BY <1>1, <1>13 DEF RunKeeps, CheckAccept, Begin, WorkerRecords
  <2> QED BY <1>2, <1>3, <1>13, <2>1 DEF CheckAccept
<1>14. ASSUME NEW p \in Providers, SelectProvider(h, p) PROVE RunKeeps /\ OffersKeep /\ OrderKeeps
  <2>1. OrderKeeps BY <1>1, <1>14 DEF OrderKeeps, SelectProvider, OrderRecords, Held
  <2>2. OffersKeep BY <1>3, <1>7, <1>14 DEF SelectProvider
  <2> QED BY <1>1, <1>14, <2>1, <2>2, MovesKeep DEF SelectProvider
<1> QED BY <1>5, <1>8, <1>9, <1>10, <1>11, <1>12, <1>13, <1>14 DEF Request

LEMMA RestKeeps ==
  ASSUME IInv, Environment \/ Time \/ Crash PROVE RunKeeps /\ OffersKeep /\ OrderKeeps
<1>1. /\ order \in OrderRecords /\ offer \in [Providers -> OfferRecords]
      /\ run \in [Workers -> WorkerRecords]
  BY DEF IInv, TypeOK
<1>2. UNCHANGED order => OrderKeeps BY DEF OrderKeeps
<1>3. UNCHANGED offer => OffersKeep BY DEF OffersKeep
<1>4. UNCHANGED run => RunKeeps BY DEF RunKeeps
<1>5. CASE MarkArrival \/ StartOrder \/ CompleteOrder
  <2>1. OrderKeeps
    BY <1>1, <1>5 DEF OrderKeeps, MarkArrival, StartOrder, CompleteOrder, OrderRecords, Held
  <2> QED BY <1>3, <1>4, <1>5, <2>1 DEF MarkArrival, StartOrder, CompleteOrder
<1>6. CASE CancelOrder
  <2>1. OrderKeeps BY <1>1, <1>6 DEF OrderKeeps, CancelOrder, CancelCommit, OrderRecords, Held
  <2>2. OffersKeep BY <1>1, <1>6, CloseKeeps DEF OffersKeep, CancelOrder, CancelCommit
  <2> QED BY <1>4, <1>6, <2>1, <2>2 DEF CancelOrder
<1>7. CASE SearchExpires
  <2>1. OrderKeeps BY <1>1, <1>7 DEF OrderKeeps, SearchExpires, OrderRecords
  <2>2. OffersKeep BY <1>1, <1>7 DEF OffersKeep, SearchExpires, OfferRecords
  <2>3. RunKeeps BY <1>1, <1>7 DEF RunKeeps, SearchExpires, WorkerRecords
  <2> QED BY <2>1, <2>2, <2>3
<1>8. CASE ReplyExpires
  <2>1. OrderKeeps BY <1>1, <1>8 DEF OrderKeeps, ReplyExpires, OrderRecords
  <2> QED BY <1>3, <1>4, <1>8, <2>1 DEF ReplyExpires
<1>9. ASSUME NEW p \in Providers, OfferExpires(p) PROVE RunKeeps /\ OffersKeep /\ OrderKeeps
  <2>1. OffersKeep BY <1>1, <1>9 DEF OffersKeep, OfferExpires, OfferRecords
  <2> QED BY <1>2, <1>4, <1>9, <2>1 DEF OfferExpires
<1>10. CASE Crash
  <2>1. RunKeeps BY <1>10 DEF RunKeeps, Crash, Idle
  <2> QED BY <1>2, <1>3, <1>10, <2>1 DEF Crash
<1> QED BY <1>5, <1>6, <1>7, <1>8, <1>9, <1>10 DEF Environment, Time

(* A provider who has taken an appointment can start it: the order is       *)
(* confirmed, however selections, payments and undone selections interleave *)
(* (order.service.ts, startOrder, and customerNoShow.service.ts refuse an   *)
(* appointment that is not).                                                *)
THEOREM AppointmentConfirmedCorrect == Spec => []AppointmentConfirmed
<1>1. Init => AppointmentOffers /\ AppointmentConfirmed
  BY DEF Init, AppointmentOffers, AppointmentConfirmed, NoOffer, Idle, Held
<1>2. IInv /\ AppointmentOffers /\ AppointmentConfirmed /\ [Next]_vars
        => AppointmentOffers' /\ AppointmentConfirmed'
  <2>1. ASSUME IInv, AppointmentOffers, AppointmentConfirmed, Next
        PROVE  RunKeeps /\ OffersKeep /\ OrderKeeps
    BY <2>1, WorkKeeps, MonitorsKeep, RequestKeeps, RestKeeps DEF Next
  <2>2. ASSUME AppointmentOffers, AppointmentConfirmed, UNCHANGED vars
        PROVE  AppointmentOffers' /\ AppointmentConfirmed'
    BY <2>2 DEF vars, AppointmentOffers, AppointmentConfirmed, Scheduled
  <2> QED BY <2>1, <2>2, KeepsAppointment
<1> QED BY <1>1, <1>2, Invariance, PTL DEF Spec

-----------------------------------------------------------------------------
(* The consent of the customer.  Before the payment nothing has begun, and  *)
(* only a QR payment is synced once more after it.                          *)

Early == Waiting \cup {"tried", "load"}

UnpaidRests ==
    ~order.paid =>
        /\ ~order.readyForMatching /\ order.reassignment.status = "none"
        /\ order.bookingStatus # "rejected" /\ order.status \in {"created", "cancelled"}
        /\ \A p \in Providers : offer[p].status = "none"
        /\ \A w \in Workers : run[w].pc \in Early

ConsentInv == UnpaidRests /\ (order.method = "wallet" => ConsentBeforeSearch)

(* What a step may do to a paid order so that nobody searches unasked.      *)
ConsentKept ==
    /\ order'.method = order.method /\ (order.paid => order'.paid)
    /\ order'.status = "created" /\ order'.reassignment.status = "awaiting_customer"
         => \/ ~order'.readyForMatching
            \/ /\ order.status = "created" /\ order.reassignment.status = "awaiting_customer"
               /\ order.readyForMatching

(* Nothing that begins needs no payment.                                    *)
LEMMA UnpaidStep ==
  ASSUME IInv, UnpaidRests, ~order.paid, Next
  PROVE  order'.method = order.method /\ order'.reassignment.status = "none"
         /\ (order'.paid \/ UnpaidRests')
<1>1. /\ order \in OrderRecords /\ offer \in [Providers -> OfferRecords]
      /\ run \in [Workers -> WorkerRecords] /\ Pending = {}
      /\ Handlers \subseteq Workers /\ Scanner \in Workers /\ Monitor \in Workers
      /\ order.reassignment \in Replies
  BY DEF IInv, TypeOK, UnpaidRests, Pending, Workers, OrderRecords
<1>2. /\ ~order.readyForMatching /\ order.reassignment.status = "none"
      /\ order.bookingStatus # "rejected" /\ order.status \in {"created", "cancelled"}
      /\ \A p \in Providers : offer[p].status = "none"
      /\ \A w \in Workers : run[w].pc \in Early
  BY DEF UnpaidRests
<1>3. ASSUME NEW w \in Workers, NEW r, run' = [run EXCEPT ![w] = r], r.pc \in Early
      PROVE  \A v \in Workers : run'[v].pc \in Early
  BY <1>1, <1>2, <1>3
<1>4. ASSUME NEW w \in Workers, Finish(w) PROVE \A v \in Workers : run'[v].pc \in Early
  <2>1. run[w].back \in Waiting BY <1>1 DEF WorkerRecords
  <2> QED BY <1>3, <1>4, <2>1 DEF Finish, Idle, Early
<1>5. ASSUME UNCHANGED <<order, offer>>, \A v \in Workers : run'[v].pc \in Early
      PROVE  /\ order'.method = order.method /\ order'.reassignment.status = "none"
             /\ order'.paid \/ UnpaidRests'
  BY <1>2, <1>5 DEF UnpaidRests
<1>6. ASSUME NEW w \in Workers, Work(w)
      PROVE  /\ order'.method = order.method /\ order'.reassignment.status = "none"
             /\ order'.paid \/ UnpaidRests'
  <2>1. ReadTried(w) \/ LoadOrder(w)
    <3>1. run[w].pc \in Early BY <1>2
    <3> QED BY <1>6, <3>1 DEF Work, Early, Waiting, ReadReady, ClaimMatching, FindPreferred,
         AwaitPreferred, SendDirect, PreferredUnavailable, CheckPending, PickCandidates, SendOffer,
         CancelUnmatched, CommitUnmatched, AfterTimeout, DirectTimedOut, AskCustomer, AnyPending,
         AfterReject, AcceptOffer, CloseCompeting, CancelAfterReply, CreateDirect, UndoSelection
  <2>2. CASE ReadTried(w)
    <3>1. \A v \in Workers : run'[v].pc \in Early
      BY <1>1, <1>2, <2>2 DEF ReadTried, WorkerRecords, Early
    <3> QED BY <1>5, <2>2, <3>1 DEF ReadTried
  <2>3. CASE LoadOrder(w)
    <3>1. Finish(w) /\ UNCHANGED <<order, offer>> BY <1>2, <2>3 DEF LoadOrder, Dispatchable
    <3> QED BY <1>4, <1>5, <3>1
  <2> QED BY <2>1, <2>2, <2>3
<1>7. CASE Scan
  <2>1. ASSUME NEW s \in Early, Begin(Scanner, Idle(s)), UNCHANGED <<order, offer>>
        PROVE  /\ order'.method = order.method /\ order'.reassignment.status = "none"
               /\ order'.paid \/ UnpaidRests'
    <3>1. Idle(s).pc = s BY DEF Idle
    <3> QED BY <1>1, <1>3, <1>5, <2>1, <3>1 DEF Begin
  <2>2. CASE ScanTimeouts
    BY <1>1, <1>2, <2>1, <2>2 DEF ScanTimeouts, TimeoutOffer, Early, Waiting
  <2>3. CASE ScanReady BY <1>2, <2>1, <2>3 DEF ScanReady, Early, Waiting
  <2>4. CASE ScanActive BY <1>2, <2>1, <2>4 DEF ScanActive, Early, Waiting
  <2>5. CASE EndScan BY <2>1, <2>5 DEF EndScan, Early, Waiting
  <2>6. ~ScanStalled /\ ~RestartMatching
    BY <1>1, <1>2 DEF ScanStalled, RestartMatching, Early, Waiting
  <2> QED BY <1>7, <2>2, <2>3, <2>4, <2>5, <2>6 DEF Scan, ScanTimeouts, ScanReady, ScanActive, EndScan
<1>8. ~ExpireReplies
  BY <1>1, <1>2 DEF ExpireReplies, FindReplies, ExpireReply, Early, Waiting
<1>9. ASSUME NEW h \in Handlers, Request(h)
      PROVE  /\ order'.method = order.method /\ order'.reassignment.status = "none"
             /\ order'.paid \/ UnpaidRests'
  <2>1. SyncPayment(h) \/ Redispatch(h)
    BY <1>2, <1>9 DEF Request, LeaveOrder, AgreeToSearch, DeclineSearch, TimerFires, TimeoutOffer,
       RejectOffer, CheckAccept, SelectProvider
  <2>2. CASE SyncPayment(h)
    <3>1. PICK ready, booking : order' = [order EXCEPT !.paid = TRUE, !.readyForMatching = ready,
                                                      !.bookingStatus = booking]
      BY <1>1, <2>2 DEF SyncPayment, OrderRecords
    <3>2. order'.paid /\ order'.method = order.method /\ order'.reassignment = order.reassignment
      BY <1>1, <3>1 DEF OrderRecords
    <3> QED BY <1>2, <3>2
  <2>3. CASE Redispatch(h)
    <3>1. PICK s : s = "tried" /\ s \in Early BY DEF Early
    <3>2. Goto(h, s) /\ UNCHANGED <<order, offer>> BY <2>3, <3>1 DEF Redispatch
    <3>3. Idle(run[h].back) \in WorkerRecords BY <1>1, IdleType DEF WorkerRecords
    <3>4. PICK i \in WorkerRecords : i = Idle(run[h].back) BY <3>3
    <3>5. [i EXCEPT !.pc = s].pc = s BY DEF WorkerRecords
    <3>6. run' = [run EXCEPT ![h] = [i EXCEPT !.pc = s]]
      <4>1. run' = [run EXCEPT ![h] = [Idle(run[h].back) EXCEPT !.pc = s]]
        BY <1>1, <3>2 DEF Goto
      <4> QED BY <3>4, <4>1
    <3> QED BY <1>1, <1>3, <1>5, <3>1, <3>2, <3>5, <3>6
  <2> QED BY <2>1, <2>2, <2>3
<1>10. CASE Environment
  <2>1. CancelOrder BY <1>2, <1>10 DEF Environment, MarkArrival, StartOrder, CompleteOrder
  <2>2. CancelCommit(order.reassignment.status) /\ UNCHANGED run BY <2>1 DEF CancelOrder
  <2>3. /\ order'.method = order.method /\ order'.status = "cancelled"
        /\ ~order'.readyForMatching /\ order'.reassignment.status = "none"
        /\ order'.bookingStatus = order.bookingStatus
    BY <1>1, <1>2, <2>2 DEF CancelCommit, OrderRecords, Replies
  <2>4. \A p \in Providers : offer'[p] = offer[p] BY <1>1, <2>2 DEF CancelCommit
  <2> QED BY <1>2, <2>2, <2>3, <2>4 DEF UnpaidRests
<1>11. CASE Time
  <2>1. CASE SearchExpires
    <3>1. /\ order'.method = order.method /\ order'.status = order.status
          /\ order'.readyForMatching = order.readyForMatching
          /\ order'.reassignment = order.reassignment
          /\ order'.bookingStatus = order.bookingStatus
      BY <1>1, <2>1 DEF SearchExpires, OrderRecords
    <3>2. \A p \in Providers : offer'[p] = offer[p] BY <1>1, <2>1 DEF SearchExpires
    <3>3. \A v \in Workers : run'[v].pc = run[v].pc
      BY <1>1, <2>1 DEF SearchExpires, WorkerRecords
    <3> QED BY <1>2, <3>1, <3>2, <3>3 DEF UnpaidRests
  <2>2. ~ReplyExpires BY <1>2 DEF ReplyExpires
  <2>3. \A p \in Providers : ~OfferExpires(p) BY <1>2 DEF OfferExpires
  <2> QED BY <1>11, <2>1, <2>2, <2>3 DEF Time
<1>12. CASE Crash
  <2>1. UNCHANGED <<order, offer>> /\ \A v \in Workers : run'[v].pc \in Early
    BY <1>12 DEF Crash, Idle, Early, Waiting
  <2> QED BY <1>5, <2>1
<1> QED BY <1>6, <1>7, <1>8, <1>9, <1>10, <1>11, <1>12 DEF Next

(* A paid order is made ready by the customer, or when nobody asks him.     *)
LEMMA PaidStep ==
  ASSUME IInv, order.paid, Next, \A h \in Handlers : ~SyncPayment(h)
  PROVE  ConsentKept
<1>1. order \in OrderRecords /\ order.reassignment \in Replies
  BY DEF IInv, TypeOK, OrderRecords
<1>2. UNCHANGED order => ConsentKept BY DEF ConsentKept
<1>3. ASSUME NEW reply, CancelCommit(reply) PROVE ConsentKept
  BY <1>1, <1>3 DEF ConsentKept, CancelCommit, OrderRecords
<1>4. /\ BackToCustomer(order) \in OrderRecords
      /\ BackToCustomer(order).method = order.method
      /\ BackToCustomer(order).paid = order.paid
      /\ order.status = "created" => ~BackToCustomer(order).readyForMatching
      /\ BackToCustomer(order).status = order.status
  BY <1>1, BackType DEF BackToCustomer, OrderRecords
<1>5. order' = BackToCustomer(order) => ConsentKept BY <1>4 DEF ConsentKept
<1>6. ASSUME NEW w \in Workers, Work(w) PROVE ConsentKept
  <2>1. CASE ClaimMatching(w) BY <1>1, <2>1 DEF ClaimMatching, ConsentKept, OrderRecords
  <2>2. CASE AwaitPreferred(w) BY <1>1, <2>2 DEF AwaitPreferred, ConsentKept, OrderRecords
  <2>3. CASE LoadOrder(w) BY <1>1, <2>3 DEF LoadOrder, ConsentKept, OrderRecords
  <2>4. CASE CommitUnmatched(w) \/ CancelAfterReply(w)
    BY <1>2, <1>3, <2>4 DEF CommitUnmatched, CancelAfterReply
  <2>5. CASE AskCustomer(w)
    <3>1. PICK o \in OrderRecords : o = BackToCustomer(order) BY <1>4
    <3>2. CASE UNCHANGED order BY <1>2, <3>2
    <3>3. CASE order.status = "created" /\ order' = [o EXCEPT !.reassignment =
                 [status |-> "awaiting_customer", automatic |-> FALSE,
                  previous |-> {run[w].prov}, over |-> FALSE]]
      BY <1>4, <3>1, <3>3 DEF ConsentKept, OrderRecords
    <3> QED BY <2>5, <3>1, <3>2, <3>3 DEF AskCustomer
  <2>6. CASE AcceptOffer(w) BY <1>1, <1>2, <2>6 DEF AcceptOffer, ConsentKept, OrderRecords
  <2>7. CASE UndoSelection(w) BY <1>1, <2>7 DEF UndoSelection, ConsentKept, OrderRecords
  <2>8. CASE PreferredUnavailable(w) \/ DirectTimedOut(w)
    BY <1>5, <2>8 DEF PreferredUnavailable, DirectTimedOut
  <2>9. CASE \/ ReadReady(w) \/ FindPreferred(w) \/ SendDirect(w) \/ ReadTried(w)
             \/ CheckPending(w) \/ PickCandidates(w) \/ SendOffer(w) \/ CancelUnmatched(w)
             \/ AfterTimeout(w) \/ AnyPending(w) \/ AfterReject(w) \/ CloseCompeting(w)
             \/ CreateDirect(w)
    BY <1>2, <2>9 DEF ReadReady, FindPreferred, SendDirect, ReadTried, CheckPending,
       PickCandidates, SendOffer, CancelUnmatched, AfterTimeout, AnyPending, AfterReject,
       CloseCompeting, CreateDirect
  <2> QED BY <1>6, <2>1, <2>2, <2>3, <2>4, <2>5, <2>6, <2>7, <2>8, <2>9 DEF Work
<1>7. CASE Scan \/ ExpireReplies
  <2>1. CASE RestartMatching BY <1>1, <2>1 DEF RestartMatching, ConsentKept, OrderRecords
  <2>2. CASE ExpireReply BY <1>1, <2>2 DEF ExpireReply, ConsentKept, OrderRecords, Replies
  <2>3. CASE ScanTimeouts \/ ScanReady \/ ScanActive \/ ScanStalled \/ EndScan \/ FindReplies
    BY <1>2, <2>3 DEF ScanTimeouts, ScanReady, ScanActive, ScanStalled, EndScan, FindReplies
  <2> QED BY <1>7, <2>1, <2>2, <2>3 DEF Scan, ExpireReplies
<1>8. ASSUME NEW h \in Handlers, Request(h) PROVE ConsentKept
  <2>1. ~SyncPayment(h) OBVIOUS
  <2>2. CASE LeaveOrder(h)
    <3>1. CASE hasProviderArrived BY <1>3, <2>2, <3>1 DEF LeaveOrder
    <3>2. CASE ~hasProviderArrived
      <4>1. /\ order'.method = order.method /\ order'.paid = order.paid
            /\ order'.reassignment.status = "matching"
        <5> DEFINE left == [status |-> "matching", automatic |-> TRUE, over |-> FALSE,
                            previous |-> order.reassignment.previous \cup {order.providerId}]
        <5>1. left.status = "matching" OBVIOUS
        <5>2. order' = [order EXCEPT
                 !.status = "created", !.providerId = Nobody, !.preferredProviderId = Nobody,
                 !.readyForMatching = TRUE, !.matchingStartedAt = FALSE,
                 !.matchingSearch = "none", !.bookingStatus = "not_required",
                 !.reassignment = left]
          BY <1>1, <2>2, <3>2 DEF LeaveOrder
        <5> HIDE DEF left
        <5> QED BY <1>1, <5>1, <5>2 DEF OrderRecords
      <4> QED BY <4>1 DEF ConsentKept
    <3> QED BY <3>1, <3>2
  <2>3. CASE AgreeToSearch(h)
    BY <1>1, <2>3 DEF AgreeToSearch, ConsentKept, OrderRecords, Replies
  <2>4. CASE DeclineSearch(h)
    BY <1>1, <2>4 DEF DeclineSearch, ConsentKept, OrderRecords, Replies
  <2>5. ASSUME NEW p \in Providers, SelectProvider(h, p) PROVE ConsentKept
    BY <1>1, <2>5 DEF SelectProvider, ConsentKept, OrderRecords, Replies
  <2>6. ASSUME NEW p \in Providers, TimerFires(h, p) \/ RejectOffer(h, p) \/ CheckAccept(h, p)
        PROVE  ConsentKept
    BY <1>2, <2>6 DEF TimerFires, RejectOffer, CheckAccept
  <2>7. CASE Redispatch(h) BY <1>2, <2>7 DEF Redispatch
  <2> QED BY <1>8, <2>1, <2>2, <2>3, <2>4, <2>5, <2>6, <2>7 DEF Request
<1>9. CASE Environment
  <2>1. CASE MarkArrival \/ StartOrder \/ CompleteOrder
    BY <1>1, <2>1 DEF MarkArrival, StartOrder, CompleteOrder, ConsentKept, OrderRecords
  <2>2. CASE CancelOrder BY <1>3, <2>2 DEF CancelOrder
  <2> QED BY <1>9, <2>1, <2>2 DEF Environment
<1>10. CASE Time
  <2>1. CASE SearchExpires BY <1>1, <2>1 DEF SearchExpires, ConsentKept, OrderRecords
  <2>2. CASE ReplyExpires BY <1>1, <2>2 DEF ReplyExpires, ConsentKept, OrderRecords, Replies
  <2>3. ASSUME NEW p \in Providers, OfferExpires(p) PROVE ConsentKept
    BY <1>2, <2>3 DEF OfferExpires
  <2> QED BY <1>10, <2>1, <2>2, <2>3 DEF Time
<1>11. CASE Crash BY <1>2, <1>11 DEF Crash
<1> QED BY <1>6, <1>7, <1>8, <1>9, <1>10, <1>11 DEF Next

(* A payment that is synced keeps the way it is paid and the question.      *)
LEMMA SyncStep ==
  ASSUME IInv, NEW h \in Handlers, SyncPayment(h)
  PROVE  /\ order'.method = order.method /\ order'.paid
         /\ order.paid => Resync(h)
<1>1. order \in OrderRecords BY DEF IInv, TypeOK
<1>2. PICK ready, booking : order' = [order EXCEPT !.paid = TRUE, !.readyForMatching = ready,
                                                  !.bookingStatus = booking]
  BY <1>1 DEF SyncPayment, OrderRecords
<1>3. order.paid => order.method = "payos" BY DEF SyncPayment
<1> QED BY <1>1, <1>2, <1>3 DEF Resync, OrderRecords

(* Every step keeps what is known before the payment and of wallets, and    *)
(* nothing but a QR payment synced again lets a search start.               *)
LEMMA ConsentStep ==
  ASSUME IInv, ConsentInv, [Next]_vars
  PROVE  /\ ConsentInv'
         /\ ~ConsentBeforeSearch' =>
              ~ConsentBeforeSearch \/ \E h \in Handlers : Resync(h)
<1>1. CASE UNCHANGED vars
  BY <1>1 DEF vars, ConsentInv, UnpaidRests, ConsentBeforeSearch, Asked
<1>2. CASE Next /\ ~order.paid
  <2>1. /\ order'.method = order.method /\ order'.reassignment.status = "none"
        /\ order'.paid \/ UnpaidRests'
    BY <1>2, UnpaidStep DEF ConsentInv
  <2>2. UnpaidRests' BY <2>1 DEF UnpaidRests
  <2> QED BY <2>1, <2>2 DEF ConsentInv, ConsentBeforeSearch, Asked
<1>3. ASSUME Next, order.paid, NEW h \in Handlers, SyncPayment(h)
      PROVE  ConsentInv' /\ Resync(h)
  <2>1. order'.method = order.method /\ order'.paid /\ Resync(h) BY <1>3, SyncStep
  <2>2. order'.method # "wallet" BY <2>1 DEF Resync
  <2> QED BY <2>1, <2>2 DEF ConsentInv, UnpaidRests
<1>4. CASE Next /\ order.paid /\ \A h \in Handlers : ~SyncPayment(h)
  <2>1. ConsentKept BY <1>4, PaidStep
  <2> QED BY <1>4, <2>1 DEF ConsentInv, ConsentKept, UnpaidRests, ConsentBeforeSearch, Asked
<1> QED BY <1>1, <1>2, <1>3, <1>4

(* What is known before the payment and of wallets always holds.            *)
LEMMA ConsentInvariant == Spec => [](IInv /\ ConsentInv)
<1>1. Init => ConsentInv
  BY DEF Init, ConsentInv, UnpaidRests, ConsentBeforeSearch, Asked, NoReply, NoOffer, Idle,
     Early, Waiting
<1>2. IInv /\ ConsentInv /\ [Next]_vars => ConsentInv' BY ConsentStep
<1> QED BY <1>1, <1>2, Invariance, PTL DEF Spec

(* While the customer is asked whether Handigo may look for somebody else,  *)
(* nothing but a QR payment synced again lets a search start, whichever way *)
(* the order is paid and whatever handlers and monitors were under way      *)
(* (requestDirectProviderReassignment, respondToProviderReassignment,       *)
(* syncPaidPayosPaymentToOrder).                                            *)
THEOREM ConsentCorrect == Spec => OnlyResyncSkipsConsent
<1>1. IInv /\ ConsentInv /\ [Next]_vars =>
        [~ConsentBeforeSearch' =>
           ~ConsentBeforeSearch \/ \E h \in Handlers : Resync(h)]_vars
  BY ConsentStep
<1> QED BY <1>1, ConsentInvariant, PTL DEF Spec, OnlyResyncSkipsConsent

(* An order paid from the wallet is never searched while its customer is    *)
(* asked, in every reachable state and beside orders paid by QR.            *)
THEOREM WalletConsentCorrect ==
  Spec => [](order.method = "wallet" => ConsentBeforeSearch)
<1>1. ConsentInv => (order.method = "wallet" => ConsentBeforeSearch) BY DEF ConsentInv
<1> QED BY <1>1, ConsentInvariant, PTL

=============================================================================
