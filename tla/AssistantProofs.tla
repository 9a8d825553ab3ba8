---------------------------- MODULE AssistantProofs ----------------------------
(***************************************************************************)
(* Theorems about Assistant, for any orders, payments and requests in      *)
(* progress.  IInv says what a session may claim, of the one that is saved *)
(* and of the copy of the request that holds the lease.  Who has lost the  *)
(* lease keeps a copy of which nothing is known but its shape; it can      *)
(* still write the ledger, but neither call a service nor save.            *)
(***************************************************************************)
EXTENDS Assistant, FiniteSetTheorems, TLAPS

-----------------------------------------------------------------------------
(* The inductive invariant.                                                *)

Harmless == {"none", "failed", "undone"}

Written(a) ==
    \E b \in (IF a \in Bookings THEN {a} ELSE Payments) : service[b].at \in {"written", "undone"}

(* What a session says of the actions is so, and no action that was called *)
(* is missing from it.                                                     *)
Truthful(s) ==
    \A a \in Actions :
        /\ s.done[a] = "refused" => service[a].at \in Harmless
        /\ s.done[a] = "succeeded" => Written(a)
        /\ service[a].calls > 0 => \/ s.pending = a
                                   \/ s.done[a] # "none" /\ ledger[a] \notin LedgerOpen

(* The shape of any session, however old.                                  *)
Shaped(s) ==
    /\ s.pending # None => s.done[s.pending] = "none"
    /\ s.open => s.pending # None /\ ledger[s.pending] # "none"

Graphing == {"graph", "reserve", "execute", "called", "lookup", "project"}

(* What a request knows of its action at each of its steps.                *)
StepSound(r) ==
    /\ r.at \in {"talk", "booked"} => r.session.pending = None /\ ~r.session.open
    /\ r.at \in Graphing => r.action \in Actions /\ r.session.pending = r.action
    /\ r.at \in {"execute", "called", "lookup", "project"} => ledger[r.action] # "none"
    /\ r.at = "execute" => service[r.action].calls = 0
    /\ r.at = "called" => service[r.action].calls > 0
    /\ r.at = "project" => r.record = ledger[r.action] \/ r.record \in LedgerOpen

RunSound(r) == Shaped(r.session) /\ StepSound(r)

Extends(s, t) == \A a \in Actions : t.done[a] # "none" => s.done[a] = t.done[a]

(* What the request that holds the lease knows besides.                    *)
HolderSound(r) ==
    /\ Truthful(r.session)
    /\ Extends(r.session, checkpoint)
    /\ r.at \in Graphing \cup {"send"} => r.session = checkpoint
    /\ r.at = "send" /\ Waiting(r.session) => service[r.session.pending].calls = 0
    /\ r.at = "execute" =>
          /\ ledger[r.action] = "EXECUTING"
          /\ \A k \in Handlers : ~(run[k].session.open /\ run[k].session.pending = r.action)
    /\ r.at \in {"graph", "reserve", "execute"} /\ r.from = "booking" =>
          \A p \in Payments : service[p].calls = 0

LedgerTrue ==
    \A a \in Actions :
        /\ ledger[a] = "none" => service[a].calls = 0
        /\ ledger[a] = "EXPIRED" => service[a].at \in Harmless
        /\ ledger[a] = "SUCCEEDED" => Written(a)

ServiceSound ==
    \A a \in Actions :
        /\ service[a].calls <= 1
        /\ service[a].calls = 0 => service[a].at = "none" /\ ~service[a].automatic

(* One request at a time stands before the call of an action.              *)
OneExecutes ==
    \A h, k \in Handlers :
        run[h].at = "execute" /\ run[k].at = "execute" /\ run[h].action = run[k].action => h = k

OneAutomatic == \A p, q \in Payments : service[p].automatic /\ service[q].automatic => p = q

IInv ==
    /\ TypeOK
    /\ Truthful(checkpoint) /\ Shaped(checkpoint)
    /\ LedgerTrue /\ ServiceSound /\ OneExecutes /\ OneAutomatic
    /\ \A h \in Handlers : RunSound(run[h])
    /\ \A h \in Handlers : Holds(h) /\ run[h].at # "idle" => HolderSound(run[h])

(* DecisionsStay of one step.                                              *)
DecisionsKept ==
    \A a \in Actions : checkpoint.done[a] # "none" => checkpoint'.done[a] = checkpoint.done[a]

LEMMA InitIInv == ASSUME Init PROVE IInv
<1>1. NewSession \in SessionRecords BY DEF NewSession, SessionRecords
<1>2. Idle \in RunRecords BY <1>1 DEF Idle, RunRecords, Steps, LedgerStatuses
<1>3. TypeOK BY <1>1, <1>2 DEF Init, TypeOK, LedgerStatuses, ServiceRecords
<1>4. Truthful(NewSession) /\ Shaped(NewSession)
  BY DEF Init, Truthful, Shaped, NewSession
<1>5. \A h \in Handlers : run[h] = Idle /\ RunSound(run[h])
  BY <1>4 DEF Init, RunSound, StepSound, Idle, Graphing
<1>6. /\ LedgerTrue /\ ServiceSound
      /\ OneExecutes /\ OneAutomatic
  <2>1. \A a \in Actions : service[a].at = "none" /\ service[a].calls = 0 /\ ~service[a].automatic
    BY DEF Init
  <2>2. LedgerTrue BY <2>1 DEF Init, LedgerTrue
  <2>3. ServiceSound BY <2>1 DEF ServiceSound
  <2>4. OneAutomatic BY <2>1 DEF OneAutomatic, Actions
  <2>5. OneExecutes BY <1>5 DEF OneExecutes, Idle
  <2> QED BY <2>2, <2>3, <2>4, <2>5
<1>7. \A h \in Handlers : ~Holds(h)
  BY AssistantAssumption DEF Init, Holds
<1> QED BY <1>3, <1>4, <1>5, <1>6, <1>7 DEF IInv, Init

-----------------------------------------------------------------------------
(* Steps of one request.                                                   *)

(* A request moves, and may save its session with the lease, or write the  *)
(* ledger.                                                                 *)
LEMMA RequestStep ==
  ASSUME IInv, NEW h \in Handlers, NEW r \in RunRecords,
         run' = [run EXCEPT ![h] = r], service' = service,
         checkpoint' \in SessionRecords, thread' \in {thread, None, h},
         checkpoint' = checkpoint \/ Holds(h), thread' = h => thread \in {None, h},
         ledger' \in [Actions -> LedgerStatuses],
         \A a \in Actions :
            /\ ledger'[a] \in LedgerOpen => ledger[a] \in LedgerOpen \/ service[a].calls = 0
            /\ ledger'[a] = "none" => ledger[a] = "none"
            /\ ledger[a] \in {"SUCCEEDED", "EXPIRED"} => ledger'[a] = ledger[a],
         \A k \in Handlers : Holds(k) /\ k # h /\ run[k].at = "execute"
            => ledger'[run[k].action] = "EXECUTING",
         LedgerTrue', Truthful(checkpoint)', Shaped(checkpoint)', RunSound(r)',
         r.at = "execute" =>
            \A k \in Handlers \ {h} : ~(run[k].at = "execute" /\ run[k].action = r.action),
         r.session.open => \/ run[h].session.open /\ run[h].session.pending = r.session.pending
                           \/ thread' \in {None, h},
         thread' = h /\ r.at # "idle" => HolderSound(r)'
  PROVE  IInv'
<1>1. /\ run'[h] = r
      /\ \A k \in Handlers : k # h => run'[k] = run[k]
  BY DEF IInv, TypeOK
<1>2. TypeOK' BY <1>1 DEF IInv, TypeOK
<1>3. ServiceSound' /\ OneAutomatic' BY DEF IInv, ServiceSound, OneAutomatic
<1>4. OneExecutes' BY <1>1 DEF IInv, OneExecutes
<1>5. ASSUME NEW k \in Handlers PROVE RunSound(run[k])'
  <2>1. CASE k = h BY <2>1, <1>1
  <2>2. CASE k # h
    <3>1. run'[k] = run[k] /\ run[k] \in RunRecords BY <1>1, <2>2 DEF IInv, TypeOK
    <3>2. RunSound(run[k]) BY DEF IInv
    <3>3. run[k].session.pending \in Actions \cup {None}
      BY <3>1 DEF RunRecords, SessionRecords
    <3>4. Shaped(run[k].session)'
      BY <3>1, <3>2, <3>3 DEF RunSound, Shaped
    <3>5. StepSound(run[k])'
      BY <3>1, <3>2 DEF RunSound, StepSound, IInv, TypeOK, LedgerOpen, Graphing, LedgerStatuses
    <3> QED BY <3>4, <3>5 DEF RunSound
  <2> QED BY <2>1, <2>2
<1>6. ASSUME NEW k \in Handlers, Holds(k)', run'[k].at # "idle" PROVE HolderSound(run[k])'
  <2>1. CASE k = h BY <2>1, <1>1, <1>6 DEF Holds
  <2>2. CASE k # h
    <3>1. run'[k] = run[k] /\ run[k] \in RunRecords BY <1>1, <2>2 DEF IInv, TypeOK
    <3>2. thread' = k /\ thread = k /\ checkpoint' = checkpoint
      BY <1>6, <2>2, AssistantAssumption DEF Holds
    <3>3. HolderSound(run[k]) /\ RunSound(run[k]) BY <1>6, <3>1, <3>2 DEF IInv, Holds
    <3>4. Truthful(run[k].session)'
      BY <3>1, <3>3 DEF HolderSound, Truthful, Written, IInv, TypeOK
    <3>5. Extends(run[k].session, checkpoint)'
      BY <3>1, <3>2, <3>3 DEF HolderSound, Extends
    <3>6. run[k].at = "execute" =>
             \A j \in Handlers : ~(run'[j].session.open /\ run'[j].session.pending = run[k].action)
      BY <1>1, <3>2, <3>3, <2>2, AssistantAssumption DEF HolderSound
    <3> QED BY <3>1, <3>2, <3>3, <3>4, <3>5, <3>6, <2>2 DEF HolderSound, Holds, Waiting
  <2> QED BY <2>1, <2>2
<1> QED BY <1>2, <1>3, <1>4, <1>5, <1>6 DEF IInv

(* What is known of any request.                                           *)
LEMMA RunOf ==
  ASSUME IInv, NEW h \in Handlers
  PROVE  /\ run[h] \in RunRecords
         /\ run[h].session \in SessionRecords
         /\ run[h].session.pending \in Actions \cup {None}
         /\ run[h].session.open \in BOOLEAN
         /\ run[h].action \in Actions \cup {None}
         /\ RunSound(run[h])
BY DEF IInv, TypeOK, RunRecords, SessionRecords

(* Nothing but the request moves.                                          *)
LEMMA KeepStep ==
  ASSUME IInv, NEW h \in Handlers, NEW r \in RunRecords,
         run' = [run EXCEPT ![h] = r],
         UNCHANGED <<thread, checkpoint, ledger, service>>,
         RunSound(r), r.at # "execute",
         r.session.open =>
            run[h].session.open /\ run[h].session.pending = r.session.pending,
         Holds(h) /\ r.at # "idle" =>
            /\ Truthful(r.session)
            /\ Extends(r.session, checkpoint)
            /\ r.at \in Graphing \cup {"send"} => r.session = checkpoint
            /\ r.at = "send" /\ Waiting(r.session) => service[r.session.pending].calls = 0
            /\ r.at \in {"graph", "reserve", "execute"} /\ r.from = "booking" =>
                  \A p \in Payments : service[p].calls = 0
  PROVE  IInv'
<1>1. /\ checkpoint' \in SessionRecords /\ ledger' \in [Actions -> LedgerStatuses]
      /\ Truthful(checkpoint) /\ Shaped(checkpoint) /\ LedgerTrue
  BY DEF IInv, TypeOK
<1>2. /\ LedgerTrue' /\ Truthful(checkpoint)' /\ Shaped(checkpoint)' /\ RunSound(r)'
      /\ Truthful(r.session) <=> Truthful(r.session)'
  BY <1>1 DEF LedgerTrue, Truthful, Shaped, RunSound, StepSound, Written
<1>3. \A k \in Handlers : Holds(k) /\ run[k].at = "execute" => ledger[run[k].action] = "EXECUTING"
  BY DEF IInv, HolderSound
<1>4. thread' = h /\ r.at # "idle" => HolderSound(r)'
  BY <1>2 DEF HolderSound, Holds, Extends, Waiting
<1>5. thread \in Handlers \cup {None} BY DEF IInv, TypeOK
<1>6. \A a \in Actions :
            /\ ledger'[a] \in LedgerOpen => ledger[a] \in LedgerOpen \/ service[a].calls = 0
            /\ ledger'[a] = "none" => ledger[a] = "none"
            /\ ledger[a] \in {"SUCCEEDED", "EXPIRED"} => ledger'[a] = ledger[a]
  OBVIOUS
<1> QED BY <1>1, <1>2, <1>3, <1>4, <1>5, <1>6, RequestStep

(* The request that holds the lease saves s, and stops or goes on from it. *)
LEMMA SaveStep ==
  ASSUME IInv, NEW h \in Handlers, NEW r \in RunRecords, NEW s \in SessionRecords,
         run' = [run EXCEPT ![h] = r], Save(h, s), thread' \in {thread, None},
         UNCHANGED <<ledger, service>>,
         Truthful(s), Shaped(s), RunSound(r), r.at # "execute",
         r.at = "send" => ~Waiting(s),
         r.at # "idle" => r.session = s,
         r.at = "idle" => ~r.session.open,
         r.at \in {"graph", "reserve", "execute"} /\ r.from = "booking" =>
            \A p \in Payments : service[p].calls = 0
  PROVE  IInv'
<1>1. checkpoint' = s /\ thread = h BY DEF Save, Holds
<1>2. /\ LedgerTrue' /\ Truthful(s)' /\ Shaped(s)' /\ RunSound(r)'
  BY DEF IInv, LedgerTrue, Truthful, Shaped, RunSound, StepSound, Written
<1>3. Truthful(checkpoint)' /\ Shaped(checkpoint)'
  BY <1>1, <1>2 DEF Truthful, Shaped
<1>4. \A k \in Handlers : Holds(k) /\ run[k].at = "execute" => ledger'[run[k].action] = "EXECUTING"
  BY DEF IInv, HolderSound
<1>5. r.at # "idle" => HolderSound(r)'
  BY <1>1, <1>2 DEF HolderSound, Extends, Waiting, Truthful
<1>6. ledger' \in [Actions -> LedgerStatuses] BY DEF IInv, TypeOK
<1>7. \A a \in Actions :
            /\ ledger'[a] \in LedgerOpen => ledger[a] \in LedgerOpen \/ service[a].calls = 0
            /\ ledger'[a] = "none" => ledger[a] = "none"
            /\ ledger[a] \in {"SUCCEEDED", "EXPIRED"} => ledger'[a] = ledger[a]
  OBVIOUS
<1>8. thread' \in {None, h} BY <1>1
<1> QED BY <1>1, <1>2, <1>3, <1>4, <1>5, <1>6, <1>7, <1>8, RequestStep DEF Holds

LEMMA IdleSound == Idle \in RunRecords /\ RunSound(Idle) /\ ~Idle.session.open /\ Idle.at = "idle"
<1>1. NewSession \in SessionRecords BY DEF NewSession, SessionRecords
<1>2. Idle \in RunRecords BY <1>1 DEF Idle, RunRecords, Steps, LedgerStatuses
<1>3. RunSound(Idle)
  BY DEF RunSound, Shaped, StepSound, Idle, NewSession, Graphing
<1> QED BY <1>2, <1>3 DEF Idle, NewSession

-----------------------------------------------------------------------------
(* The actions that leave the services and the ledger alone.               *)

LEMMA DropStep ==
  ASSUME IInv, NEW h \in Handlers, Drop(h) PROVE IInv'
BY IdleSound, KeepStep DEF Drop

LEMMA GoRun ==
  ASSUME IInv, NEW h \in Handlers, NEW at, NEW s, Go(h, at, s)
  PROVE  run' = [run EXCEPT ![h] = [run[h] EXCEPT !.at = at, !.session = s]]
BY DEF Go, IInv, TypeOK, RunRecords

LEMMA FinishStep ==
  ASSUME IInv, NEW h \in Handlers, Finish(h) PROVE IInv'
<1> DEFINE s == [run[h].session EXCEPT !.active = None]
<1>1. /\ run[h].session \in SessionRecords /\ RunSound(run[h]) BY RunOf
<1>2. Holds(h) /\ run[h].at # "idle" BY DEF Finish, Save
<1>3. HolderSound(run[h]) BY <1>2 DEF IInv
<1>4. /\ s \in SessionRecords /\ s.done = run[h].session.done
      /\ s.pending = run[h].session.pending /\ s.open = run[h].session.open
  BY <1>1 DEF SessionRecords
<1>5. Truthful(s) /\ Shaped(s)
  BY <1>1, <1>3, <1>4 DEF HolderSound, Truthful, RunSound, Shaped
<1>6. Save(h, s) /\ thread' = None /\ run' = [run EXCEPT ![h] = Idle] /\ UNCHANGED <<ledger, service>>
  BY <1>2 DEF Finish
<1> HIDE DEF s
<1> QED BY <1>4, <1>5, <1>6, IdleSound, SaveStep

LEMMA ReconcileStep ==
  ASSUME IInv, NEW h \in Handlers, Reconcile(h) PROVE IInv'
<1> DEFINE r == [run[h] EXCEPT !.at = "graph", !.action = run[h].session.pending,
                               !.from = "reconcile"]
<1>1. /\ run[h] \in RunRecords /\ run[h].session \in SessionRecords /\ RunSound(run[h])
      /\ run[h].at = "send" /\ run[h].session.open
  BY RunOf DEF Reconcile
<1>2. run[h].session.pending \in Actions
  BY <1>1, RunOf DEF RunSound, Shaped
<1>3. /\ r \in RunRecords /\ r.session = run[h].session /\ r.at = "graph"
      /\ r.action = run[h].session.pending /\ r.from = "reconcile"
  BY <1>1, <1>2 DEF RunRecords, Steps
<1>4. run' = [run EXCEPT ![h] = r] /\ UNCHANGED <<thread, checkpoint, ledger, service>>
  BY <1>1 DEF Reconcile, RunGraph, IInv, TypeOK, RunRecords
<1>5. RunSound(r) BY <1>1, <1>2, <1>3 DEF RunSound, StepSound, Graphing
<1>6. Holds(h) => HolderSound(run[h]) BY <1>1 DEF IInv
<1> HIDE DEF r
<1> QED BY <1>1, <1>3, <1>4, <1>5, <1>6, KeepStep DEF HolderSound

LEMMA ResumeStep ==
  ASSUME IInv, NEW h \in Handlers, Resume(h) PROVE IInv'
<1>1. /\ run[h] \in RunRecords /\ run[h].session \in SessionRecords /\ RunSound(run[h])
      /\ run[h].at = "send" /\ ~run[h].session.open
  BY RunOf DEF Resume
<1>2. PICK at \in {"finish", "booked", "talk"} :
        /\ run' = [run EXCEPT ![h].at = at, ![h].session = run[h].session]
        /\ at # "finish" => ~Waiting(run[h].session)
  BY DEF Resume, Go
<1> DEFINE r == [run[h] EXCEPT !.at = at]
<1>3. /\ r \in RunRecords /\ r.session = run[h].session /\ r.at = at
      /\ r.action = run[h].action
  BY <1>1, <1>2 DEF RunRecords, Steps
<1>4. run' = [run EXCEPT ![h] = r] /\ UNCHANGED <<thread, checkpoint, ledger, service>>
  BY <1>1, <1>2 DEF Resume, IInv, TypeOK, RunRecords
<1>5. RunSound(r) BY <1>1, <1>2, <1>3 DEF RunSound, StepSound, Graphing, Waiting
<1>6. Holds(h) => HolderSound(run[h]) BY <1>1 DEF IInv
<1> HIDE DEF r
<1> QED BY <1>1, <1>2, <1>3, <1>4, <1>5, <1>6, KeepStep DEF HolderSound, Graphing

LEMMA ConfirmStep ==
  ASSUME IInv, NEW h \in Handlers, Confirm(h) PROVE IInv'
<1> DEFINE s == [run[h].session EXCEPT !.active = run[h].request]
           a == run[h].session.pending
           r == [run[h] EXCEPT !.at = "graph", !.session = s, !.action = a, !.from = "confirm"]
<1>1. /\ run[h] \in RunRecords /\ run[h].session \in SessionRecords /\ RunSound(run[h])
      /\ run[h].at = "send" /\ Waiting(run[h].session) /\ Holds(h)
  BY RunOf DEF Confirm, Save, Waiting, SessionRecords
<1>2. a \in Actions /\ run[h].request \in Requests \cup {None}
  BY <1>1, RunOf DEF Waiting, RunRecords
<1>3. /\ s \in SessionRecords /\ s.done = run[h].session.done
      /\ s.pending = a /\ s.open = run[h].session.open
  BY <1>1, <1>2 DEF SessionRecords
<1>4. /\ r \in RunRecords /\ r.session = s /\ r.at = "graph" /\ r.action = a /\ r.from = "confirm"
  BY <1>1, <1>2, <1>3 DEF RunRecords, Steps
<1>5. /\ run[h].request.action = a
      /\ Save(h, s) /\ UNCHANGED <<thread, ledger, service>>
      /\ RunGraph(h, s, a, "confirm")
  BY <1>3 DEF Confirm
<1>6. run' = [run EXCEPT ![h] = r]
  BY <1>1, <1>5 DEF RunGraph, IInv, TypeOK, RunRecords
<1>7. HolderSound(run[h]) BY <1>1 DEF IInv
<1>8. Truthful(s) /\ Shaped(s)
  BY <1>1, <1>3, <1>7 DEF HolderSound, Truthful, RunSound, Shaped
<1>9. RunSound(r) BY <1>2, <1>3, <1>4, <1>8 DEF RunSound, StepSound, Graphing
<1> HIDE DEF s, r
<1> QED BY <1>3, <1>4, <1>5, <1>6, <1>8, <1>9, SaveStep

LEMMA RefuseStep ==
  ASSUME IInv, NEW h \in Handlers, Refuse(h) PROVE IInv'
<1> DEFINE a == run[h].session.pending
           s == [run[h].session EXCEPT !.active = run[h].request, !.pending = None,
                                       !.done[a] = "refused"]
           r == [run[h] EXCEPT !.at = "talk", !.session = s]
<1>1. /\ run[h] \in RunRecords /\ run[h].session \in SessionRecords /\ RunSound(run[h])
      /\ run[h].at = "send" /\ Waiting(run[h].session)
  BY RunOf DEF Refuse
<1>2. a \in Actions /\ run[h].request \in Requests \cup {None}
  BY <1>1, RunOf DEF Waiting, RunRecords
<1>3. /\ s \in SessionRecords /\ s.done = [run[h].session.done EXCEPT ![a] = "refused"]
      /\ s.pending = None /\ s.open = run[h].session.open
      /\ run[h].session.done \in [Actions -> {"none", "succeeded", "refused"}]
  BY <1>1, <1>2 DEF SessionRecords
<1>4. /\ r \in RunRecords /\ r.session = s /\ r.at = "talk" /\ r.action = run[h].action
  BY <1>1, <1>2, <1>3 DEF RunRecords, Steps
<1>5. /\ run[h].request.action = a
      /\ UNCHANGED <<thread, checkpoint, ledger, service>>
      /\ Go(h, "talk", s)
  BY <1>3 DEF Refuse
<1>6. run' = [run EXCEPT ![h] = r]
  BY <1>5, GoRun
<1>7. RunSound(r)
  BY <1>1, <1>3, <1>4 DEF RunSound, StepSound, Shaped, Graphing, Waiting
<1>8. ASSUME Holds(h) PROVE Truthful(s) /\ Extends(s, checkpoint)
  <2>1. HolderSound(run[h]) BY <1>1, <1>8 DEF IInv
  <2>2. service[a].calls = 0 /\ service[a].at = "none"
    BY <1>1, <1>2, <2>1 DEF HolderSound, IInv, ServiceSound
  <2>3. run[h].session.done[a] = "none" BY <1>1, <1>2 DEF RunSound, Shaped, Waiting
  <2>4. Truthful(s)
    BY <1>2, <1>3, <2>1, <2>2 DEF HolderSound, Truthful, Harmless
  <2>5. Extends(s, checkpoint)
    BY <1>2, <1>3, <2>1, <2>3 DEF HolderSound, Extends
  <2> QED BY <2>4, <2>5
<1> HIDE DEF s, r
<1> QED BY <1>1, <1>3, <1>4, <1>5, <1>6, <1>7, <1>8, KeepStep DEF Graphing, Waiting

(* A session that forgets an action which was never called.                *)
LEMMA MessageStep ==
  ASSUME IInv, NEW h \in Handlers, Message(h) PROVE IInv'
<1> DEFINE s == [run[h].session EXCEPT !.active = run[h].request]
           a == s.pending
           t == [s EXCEPT !.pending = None, !.done[a] = "refused"]
<1>1. /\ run[h] \in RunRecords /\ run[h].session \in SessionRecords /\ RunSound(run[h])
      /\ run[h].at = "send" /\ ~run[h].session.open
      /\ run[h].request \in Requests \cup {None}
  BY RunOf DEF Message, RunRecords
<1>2. /\ s \in SessionRecords /\ s.done = run[h].session.done
      /\ a = run[h].session.pending /\ ~s.open /\ a \in Actions \cup {None}
      /\ s.done \in [Actions -> {"none", "succeeded", "refused"}]
  BY <1>1 DEF SessionRecords
<1>3. a # None => /\ t \in SessionRecords /\ t.done = [s.done EXCEPT ![a] = "refused"]
                  /\ t.pending = None /\ ~t.open
  BY <1>2 DEF SessionRecords
<1>4. PICK at \in {"talk", "finish"}, u \in SessionRecords :
        /\ Go(h, at, u)
        /\ u = s \/ (a # None /\ u = t)
        /\ at = "talk" => u.pending = None
  <2>1. \/ a = None /\ Go(h, "talk", s)
        \/ a # None /\ Go(h, "talk", t)
        \/ Go(h, "finish", s)
    BY DEF Message
  <2> HIDE DEF s, t
  <2>2. CASE a = None /\ Go(h, "talk", s) BY <2>2, <1>2
  <2>3. CASE a # None /\ Go(h, "talk", t) BY <2>3, <1>2, <1>3
  <2>4. CASE Go(h, "finish", s) BY <2>4, <1>2
  <2> QED BY <2>1, <2>2, <2>3, <2>4
<1> DEFINE r == [run[h] EXCEPT !.at = at, !.session = u]
<1>5. /\ r \in RunRecords /\ r.session = u /\ r.at = at /\ r.action = run[h].action
  BY <1>1, <1>4 DEF RunRecords, Steps
<1>6. run' = [run EXCEPT ![h] = r] BY <1>1, <1>4 DEF Go, IInv, TypeOK, RunRecords
<1>7. Shaped(u) /\ ~u.open
  BY <1>1, <1>2, <1>3, <1>4 DEF RunSound, Shaped
<1>8. RunSound(r) BY <1>4, <1>5, <1>7 DEF RunSound, StepSound, Graphing
<1>9. ASSUME Holds(h) PROVE Truthful(u) /\ Extends(u, checkpoint)
  <2>1. HolderSound(run[h]) BY <1>1, <1>9 DEF IInv
  <2>2. Truthful(s) /\ Extends(s, checkpoint)
    BY <1>2, <2>1 DEF HolderSound, Truthful, Extends
  <2>3. ASSUME a # None PROVE Truthful(t) /\ Extends(t, checkpoint)
    <3>1. a \in Actions /\ service[a].calls = 0 /\ service[a].at = "none"
      BY <1>1, <1>2, <2>1, <2>3 DEF HolderSound, IInv, ServiceSound, Waiting
    <3>2. s.done[a] = "none" BY <1>1, <1>2, <2>3 DEF RunSound, Shaped
    <3>3. Truthful(t) BY <1>2, <1>3, <2>2, <2>3, <3>1 DEF Truthful, Harmless
    <3>4. Extends(t, checkpoint) BY <1>2, <1>3, <2>2, <2>3, <3>1, <3>2 DEF Extends
    <3> QED BY <3>3, <3>4
  <2> QED BY <1>4, <2>2, <2>3
<1>10. UNCHANGED <<thread, checkpoint, ledger, service>> BY DEF Message
<1> HIDE DEF s, t, r
<1> QED BY <1>4, <1>5, <1>6, <1>7, <1>8, <1>9, <1>10, KeepStep DEF Graphing

LEMMA CheckpointStep ==
  ASSUME IInv, NEW h \in Handlers, Checkpoint(h) PROVE IInv'
<1> DEFINE s == run[h].session
<1>1. /\ run[h] \in RunRecords /\ s \in SessionRecords /\ RunSound(run[h])
      /\ run[h].at = "talk" /\ Holds(h)
  BY RunOf DEF Checkpoint, Save
<1>2. HolderSound(run[h]) BY <1>1 DEF IInv
<1>3. run' = [run EXCEPT ![h] = run[h]] BY DEF Checkpoint, IInv, TypeOK
<1>4. Save(h, s) /\ UNCHANGED <<thread, ledger, service>> BY DEF Checkpoint
<1> QED BY <1>1, <1>2, <1>3, <1>4, SaveStep DEF HolderSound, RunSound

(* A session without a pending action asks for one that is new.            *)
LEMMA Asked ==
  ASSUME IInv, NEW s \in SessionRecords, s.pending = None, ~s.open, NEW a \in Actions,
         s.done[a] = "none"
  PROVE  LET t == [s EXCEPT !.pending = a]
         IN  /\ t \in SessionRecords /\ t.done = s.done /\ t.pending = a /\ ~t.open
             /\ Shaped(t) /\ (Truthful(s) => Truthful(t))
             /\ (Extends(s, checkpoint) => Extends(t, checkpoint))
<1> DEFINE t == [s EXCEPT !.pending = a]
<1>1. t \in SessionRecords /\ t.done = s.done /\ t.pending = a /\ ~t.open
  BY DEF SessionRecords
<1>2. Shaped(t) BY <1>1 DEF Shaped
<1>3. Truthful(s) => Truthful(t)
  BY <1>1, AssistantAssumption DEF Truthful
<1>4. Extends(s, checkpoint) => Extends(t, checkpoint) BY <1>1 DEF Extends
<1> QED BY <1>1, <1>2, <1>3, <1>4

LEMMA PrepareStep ==
  ASSUME IInv, NEW h \in Handlers, NEW a \in Actions, Prepare(h, a) PROVE IInv'
<1> DEFINE s == run[h].session
           t == [s EXCEPT !.pending = a]
           r == [run[h] EXCEPT !.at = "finish", !.session = t]
<1>1. /\ run[h] \in RunRecords /\ s \in SessionRecords /\ RunSound(run[h])
      /\ run[h].at = "talk"
  BY RunOf DEF Prepare
<1>2. /\ s.pending = None /\ ~s.open /\ s.done[a] = "none"
  BY <1>1 DEF RunSound, StepSound, Prepare, CanPrepare, Fresh
<1>3. /\ t \in SessionRecords /\ ~t.open /\ Shaped(t)
      /\ Truthful(s) => Truthful(t)
      /\ Extends(s, checkpoint) => Extends(t, checkpoint)
  BY <1>1, <1>2, Asked
<1>4. Go(h, "finish", t) /\ UNCHANGED <<thread, checkpoint, ledger, service>> BY DEF Prepare
<1>5. run' = [run EXCEPT ![h] = r] BY <1>4, GoRun
<1>6. r \in RunRecords /\ r.session = t /\ r.at = "finish"
  BY <1>1, <1>3 DEF RunRecords, Steps
<1>7. RunSound(r) BY <1>3, <1>6 DEF RunSound, StepSound, Graphing
<1>8. Holds(h) => HolderSound(run[h]) BY <1>1 DEF IInv
<1> HIDE DEF t, r
<1> QED BY <1>3, <1>4, <1>5, <1>6, <1>7, <1>8, KeepStep DEF HolderSound, Graphing

LEMMA ValidateStep ==
  ASSUME IInv, NEW h \in Handlers, Validate(h) PROVE IInv'
<1>1. /\ run[h] \in RunRecords /\ RunSound(run[h]) /\ Holds(h) /\ run[h].at = "graph"
  BY RunOf DEF Validate
<1>2. PICK at \in {"reserve", "lookup"} :
        /\ run' = [run EXCEPT ![h].at = at]
        /\ at = "lookup" => ledger[run[h].action] # "none"
  BY DEF Validate
<1> DEFINE r == [run[h] EXCEPT !.at = at]
<1>3. /\ r \in RunRecords /\ r.at = at /\ r.session = run[h].session
      /\ r.action = run[h].action /\ r.from = run[h].from
  BY <1>1, <1>2 DEF RunRecords, Steps
<1>4. run' = [run EXCEPT ![h] = r] BY <1>1, <1>2 DEF IInv, TypeOK, RunRecords
<1>5. RunSound(r) BY <1>1, <1>2, <1>3 DEF RunSound, StepSound, Graphing
<1>6. HolderSound(run[h]) BY <1>1 DEF IInv
<1>7. UNCHANGED <<thread, checkpoint, ledger, service>> BY DEF Validate
<1> HIDE DEF r
<1> QED BY <1>1, <1>2, <1>3, <1>4, <1>5, <1>6, <1>7, KeepStep DEF HolderSound, Graphing

(* The result of the graph is written into the session.                    *)
LEMMA ProjectedTrue ==
  ASSUME IInv, NEW h \in Handlers, run[h].at = "project", Holds(h)
  PROVE  LET a == run[h].action
             s == Projected(run[h].session, a, run[h].record)
         IN  /\ s \in SessionRecords /\ Truthful(s) /\ Shaped(s) /\ Extends(s, checkpoint)
             /\ s.open \/ s.pending = None
<1> DEFINE a == run[h].action
           old == run[h].session
           record == run[h].record
           s == Projected(old, a, record)
<1>1. /\ run[h] \in RunRecords /\ old \in SessionRecords /\ RunSound(run[h])
      /\ HolderSound(run[h])
  BY RunOf DEF IInv
<1>2. /\ a \in Actions /\ old.pending = a /\ old.done[a] = "none" /\ ledger[a] # "none"
      /\ record \in LedgerStatuses /\ (record = ledger[a] \/ record \in LedgerOpen)
      /\ a # None
  BY <1>1, AssistantAssumption DEF RunSound, StepSound, Shaped, Graphing, RunRecords
<1>3. CASE record \in LedgerOpen
  <2>1. /\ s \in SessionRecords /\ s.done = old.done /\ s.pending = a /\ s.open
    BY <1>1, <1>2, <1>3 DEF Projected, SessionRecords
  <2> HIDE DEF s
  <2>2. Truthful(s) BY <1>1, <1>2, <2>1 DEF HolderSound, Truthful
  <2>3. Shaped(s) BY <1>2, <2>1 DEF Shaped
  <2>4. Extends(s, checkpoint) BY <1>1, <2>1 DEF HolderSound, Extends
  <2> QED BY <2>1, <2>2, <2>3, <2>4 DEF s
<1>4. CASE record \notin LedgerOpen
  <2> DEFINE done == IF record = "SUCCEEDED" THEN "succeeded" ELSE "refused"
  <2>1. /\ s \in SessionRecords /\ s.done = [old.done EXCEPT ![a] = done]
        /\ old.done \in [Actions -> {"none", "succeeded", "refused"}]
        /\ s.pending = None /\ ~s.open
    BY <1>1, <1>2, <1>4 DEF Projected, SessionRecords
  <2>2. record = ledger[a] /\ record \in {"SUCCEEDED", "EXPIRED"}
    BY <1>2, <1>4 DEF LedgerStatuses, LedgerOpen
  <2>3. /\ done = "refused" => service[a].at \in Harmless
        /\ done = "succeeded" => Written(a)
        /\ done \in {"refused", "succeeded"}
    BY <1>2, <2>2 DEF IInv, LedgerTrue
  <2> HIDE DEF s, done
  <2>4. Truthful(s)
    <3>1. SUFFICES ASSUME NEW b \in Actions
          PROVE  /\ s.done[b] = "refused" => service[b].at \in Harmless
                 /\ s.done[b] = "succeeded" => Written(b)
                 /\ service[b].calls > 0 => s.done[b] # "none" /\ ledger[b] \notin LedgerOpen
      BY DEF Truthful
    <3>2. CASE b = a BY <3>2, <1>2, <1>4, <2>1, <2>2, <2>3
    <3>3. CASE b # a BY <3>3, <1>1, <1>2, <2>1 DEF HolderSound, Truthful
    <3> QED BY <3>2, <3>3
  <2>5. Shaped(s) BY <2>1 DEF Shaped
  <2>6. Extends(s, checkpoint) BY <1>1, <1>2, <2>1 DEF HolderSound, Extends
  <2> QED BY <2>1, <2>4, <2>5, <2>6 DEF s
<1> QED BY <1>3, <1>4

LEMMA ProjectStep ==
  ASSUME IInv, NEW h \in Handlers, Project(h) PROVE IInv'
<1> DEFINE a == run[h].action
           from == run[h].from
           s == Projected(run[h].session, a, run[h].record)
           kept == IF from = "reconcile" /\ ~s.open THEN [s EXCEPT !.active = None] ELSE s
           at == IF from = "load" THEN "send"
                 ELSE IF a \in Bookings /\ s.done[a] = "succeeded" THEN "booked" ELSE "finish"
           ended == from = "reconcile" /\ s.open
           r == [run[h] EXCEPT !.session = kept, !.action = None, !.record = "none",
                               !.from = "none", !.at = at]
<1>1. Project(h) /\ Holds(h) /\ run[h].at = "project" /\ run[h] \in RunRecords
  BY RunOf DEF Project, Save
<1>2. /\ s \in SessionRecords /\ Truthful(s) /\ Shaped(s) /\ Extends(s, checkpoint)
      /\ s.open \/ s.pending = None
  BY <1>1, ProjectedTrue
<1>3. /\ Save(h, kept) /\ UNCHANGED <<ledger, service>>
      /\ thread' = IF ended THEN None ELSE thread
      /\ run' = [run EXCEPT ![h] = IF ended THEN Idle ELSE r]
  BY DEF Project
<1>4. a \in Bookings /\ s.done[a] = "succeeded" => ~s.open /\ s.pending = None
  <2>1. run[h].session.done[a] = "none" /\ run[h].session \in SessionRecords
    BY <1>1, RunOf, AssistantAssumption DEF RunSound, StepSound, Shaped, Graphing
  <2> QED BY <2>1 DEF Projected, SessionRecords
<1> HIDE DEF s
<1>5. /\ kept \in SessionRecords /\ kept.done = s.done /\ kept.pending = s.pending
      /\ kept.open = s.open
  BY <1>2 DEF SessionRecords
<1> HIDE DEF kept
<1>6. Truthful(kept) /\ Shaped(kept)
  BY <1>2, <1>5 DEF Truthful, Shaped
<1>7. /\ r \in RunRecords /\ r.session = kept /\ r.at = at
      /\ at \in {"send", "booked", "finish"}
  BY <1>1, <1>5 DEF RunRecords, Steps, LedgerStatuses
<1>8. at = "booked" => kept.pending = None /\ ~kept.open
  BY <1>4, <1>5
<1> HIDE DEF at
<1>9. RunSound(r)
  BY <1>6, <1>7, <1>8 DEF RunSound, StepSound, Graphing
<1>10. ~Waiting(kept) BY <1>2, <1>5 DEF Waiting
<1> HIDE DEF r
<1>11. CASE ended BY <1>11, <1>3, <1>5, <1>6, IdleSound, SaveStep
<1>12. CASE ~ended BY <1>12, <1>3, <1>5, <1>6, <1>7, <1>9, <1>10, SaveStep
<1> QED BY <1>11, <1>12

LEMMA ContinueStep ==
  ASSUME IInv, NEW h \in Handlers, ContinueBooking(h) PROVE IInv'
<1> DEFINE s == run[h].session
<1>1. /\ run[h] \in RunRecords /\ s \in SessionRecords /\ RunSound(run[h])
      /\ run[h].at = "booked" /\ s.pending = None /\ ~s.open
  BY RunOf DEF ContinueBooking, RunSound, StepSound
<1>2. Holds(h) => Truthful(s) /\ Extends(s, checkpoint) BY <1>1 DEF IInv, HolderSound
<1>3. ASSUME NEW t \in SessionRecords, Go(h, "finish", t), ~t.open, Shaped(t),
             UNCHANGED <<thread, checkpoint, ledger, service>>,
             Holds(h) => Truthful(t) /\ Extends(t, checkpoint)
      PROVE  IInv'
  <2> DEFINE r == [run[h] EXCEPT !.at = "finish", !.session = t]
  <2>1. r \in RunRecords /\ r.session = t /\ r.at = "finish"
    BY <1>1 DEF RunRecords, Steps
  <2>2. run' = [run EXCEPT ![h] = r] BY <1>3, GoRun
  <2>3. RunSound(r) BY <1>3, <2>1 DEF RunSound, StepSound, Graphing
  <2> HIDE DEF r
  <2> QED BY <1>3, <2>1, <2>2, <2>3, KeepStep DEF Graphing
<1>4. CASE Go(h, "finish", s) /\ UNCHANGED <<thread, checkpoint, ledger, service>>
  BY <1>1, <1>2, <1>3, <1>4 DEF RunSound
<1>5. ASSUME NEW p \in Payments, CanPrepare(s, p),
             ~(\E q \in Payments : s.done[q] # "none"),
             UNCHANGED <<thread, ledger, service>>,
             LET t == [s EXCEPT !.pending = p]
             IN  \/ Go(h, "finish", t) /\ UNCHANGED checkpoint
                 \/ Save(h, t) /\ RunGraph(h, t, p, "booking")
      PROVE  IInv'
  <2> DEFINE t == [s EXCEPT !.pending = p]
  <2>1. p \in Actions /\ s.done[p] = "none" BY <1>5 DEF Actions
  <2>2. /\ t \in SessionRecords /\ ~t.open /\ t.pending = p /\ Shaped(t)
        /\ Truthful(s) => Truthful(t)
        /\ Extends(s, checkpoint) => Extends(t, checkpoint)
    BY <1>1, <2>1, Asked
  <2>3. CASE Go(h, "finish", t) /\ UNCHANGED checkpoint
    <3> HIDE DEF t
    <3> QED BY <1>2, <1>3, <1>5, <2>2, <2>3
  <2>4. CASE Save(h, t) /\ RunGraph(h, t, p, "booking")
    <3> DEFINE r == [run[h] EXCEPT !.at = "graph", !.session = t, !.action = p,
                                   !.from = "booking"]
    <3>1. /\ r \in RunRecords /\ r.session = t /\ r.at = "graph" /\ r.action = p
          /\ r.from = "booking"
      BY <1>1, <2>1, <2>2 DEF RunRecords, Steps
    <3>2. run' = [run EXCEPT ![h] = r]
      BY <1>1, <2>4 DEF RunGraph, IInv, TypeOK, RunRecords
    <3>3. Holds(h) /\ Save(h, t) BY <2>4 DEF Save
    <3>4. ASSUME NEW q \in Payments PROVE service[q].calls = 0
      <4>1. q \in Actions /\ s.done[q] = "none" /\ s.pending # q
        BY <1>1, <1>5, AssistantAssumption DEF Actions
      <4>2. service[q].calls \in 0 .. 2
        BY <4>1 DEF IInv, TypeOK, ServiceRecords
      <4> QED BY <1>2, <3>3, <4>1, <4>2 DEF Truthful
    <3>5. RunSound(r) BY <2>1, <2>2, <3>1 DEF RunSound, StepSound, Graphing
    <3> HIDE DEF t, r
    <3> QED BY <1>2, <1>5, <2>2, <3>1, <3>2, <3>3, <3>4, <3>5, SaveStep
  <2> QED BY <1>5, <2>3, <2>4
<1>6. QED BY <1>4, <1>5 DEF ContinueBooking

(* exclusive and the first thing send does.                                *)
LEMMA ReceiveStep ==
  ASSUME IInv, NEW h \in Handlers, NEW request \in Requests, Receive(h, request) PROVE IInv'
<1> DEFINE reserved == Waiting(checkpoint) /\ ledger[checkpoint.pending] # "none"
           new == [Idle EXCEPT !.at = IF reserved THEN "graph" ELSE "send", !.request = request,
                               !.session = checkpoint,
                               !.action = IF reserved THEN checkpoint.pending ELSE None,
                               !.from = IF reserved THEN "load" ELSE "none"]
<1>1. /\ checkpoint \in SessionRecords /\ ledger \in [Actions -> LedgerStatuses]
      /\ Truthful(checkpoint) /\ Shaped(checkpoint) /\ LedgerTrue
  BY DEF IInv, TypeOK
<1>2. checkpoint.pending \in Actions \cup {None} BY <1>1 DEF SessionRecords
<1>3. new \in RunRecords
  BY <1>1, <1>2, IdleSound DEF RunRecords, Steps, Waiting
<1>4. PICK r \in RunRecords : r = new BY <1>3
<1>5. /\ thread = None /\ thread' = h /\ run' = [run EXCEPT ![h] = r]
      /\ UNCHANGED <<checkpoint, ledger, service>>
  BY <1>4 DEF Receive
<1>6. /\ r.session = checkpoint /\ r.at \in {"graph", "send"}
      /\ r.action = IF reserved THEN checkpoint.pending ELSE None
      /\ r.from # "booking"
      /\ r.at = "graph" => reserved
      /\ r.at = "send" => ~reserved
  BY <1>4 DEF Idle
<1> HIDE DEF new
<1>7. RunSound(r)
  BY <1>1, <1>2, <1>6 DEF RunSound, StepSound, Graphing, Waiting
<1>8. HolderSound(r)'
  <2>1. Waiting(checkpoint) /\ ~reserved => service[checkpoint.pending].calls = 0
    BY <1>1, <1>2 DEF LedgerTrue, Waiting
  <2> HIDE DEF reserved
  <2>2. Truthful(r.session)' BY <1>1, <1>5, <1>6 DEF Truthful, Written
  <2>3. Extends(r.session, checkpoint)' BY <1>5, <1>6 DEF Extends
  <2> QED BY <1>5, <1>6, <2>1, <2>2, <2>3 DEF HolderSound, Waiting
<1>9. /\ LedgerTrue' /\ Truthful(checkpoint)' /\ Shaped(checkpoint)' /\ RunSound(r)'
  BY <1>1, <1>5, <1>7 DEF LedgerTrue, Truthful, Shaped, RunSound, StepSound, Written
<1>10. \A k \in Handlers : ~Holds(k) BY <1>5, AssistantAssumption DEF Holds
<1>11. \A a \in Actions :
            /\ ledger'[a] \in LedgerOpen => ledger[a] \in LedgerOpen \/ service[a].calls = 0
            /\ ledger'[a] = "none" => ledger[a] = "none"
            /\ ledger[a] \in {"SUCCEEDED", "EXPIRED"} => ledger'[a] = ledger[a]
  BY <1>5
<1>12. /\ checkpoint' \in SessionRecords /\ ledger' \in [Actions -> LedgerStatuses]
       /\ r.at # "execute" /\ service' = service
  BY <1>1, <1>5, <1>6
<1> QED BY <1>5, <1>4, <1>8, <1>9, <1>10, <1>11, <1>12, RequestStep

-----------------------------------------------------------------------------
(* The actions that write the ledger.                                      *)

(* An open record is settled by a result that is so.                       *)
LEMMA SettledTrue ==
  ASSUME IInv, NEW a \in Actions, NEW status \in {"UNKNOWN", "EXPIRED", "SUCCEEDED"},
         status = "EXPIRED" => service[a].at \in Harmless,
         status = "SUCCEEDED" => Written(a),
         ledger' = Settled(a, status), service' = service
  PROVE  /\ ledger' \in [Actions -> LedgerStatuses] /\ LedgerTrue'
         /\ \A b \in Actions :
               /\ ledger'[b] \in LedgerOpen => ledger[b] \in LedgerOpen
               /\ ledger'[b] = "none" <=> ledger[b] = "none"
               /\ ledger[b] \in {"SUCCEEDED", "EXPIRED"} => ledger'[b] = ledger[b]
               /\ b # a => ledger'[b] = ledger[b]
         /\ ledger[a] # "none" => ledger'[a] = status \/ ledger'[a] = ledger[a]
<1>1. ledger \in [Actions -> LedgerStatuses] /\ LedgerTrue BY DEF IInv, TypeOK
<1>2. /\ ledger' \in [Actions -> LedgerStatuses]
      /\ \A b \in Actions : ledger'[b] = IF b = a /\ ledger[a] \in LedgerOpen THEN status
                                         ELSE ledger[b]
  BY <1>1 DEF Settled, LedgerStatuses, LedgerOpen
<1>3. LedgerTrue' BY <1>1, <1>2 DEF LedgerTrue, LedgerOpen, Written
<1> QED BY <1>1, <1>2, <1>3 DEF LedgerOpen

(* Settle, after the call, instead of it, or for a lookup.                 *)
LEMMA SettleStep ==
  ASSUME IInv, NEW h \in Handlers, run[h].at \in {"execute", "called", "lookup"},
         NEW status \in {"UNKNOWN", "EXPIRED", "SUCCEEDED"}, Settle(h, status),
         status = "EXPIRED" => service[run[h].action].at \in Harmless,
         status = "SUCCEEDED" => Written(run[h].action),
         \A k \in Handlers : k # h =>
            ~(run[k].at = "execute" /\ run[k].action = run[h].action)
  PROVE  IInv'
<1> DEFINE a == run[h].action
<1>1. /\ run[h] \in RunRecords /\ RunSound(run[h]) /\ a \in Actions /\ ledger[a] # "none"
  BY RunOf DEF RunSound, StepSound, Graphing
<1>2. ledger' = Settled(a, status) /\ UNCHANGED <<thread, checkpoint, service>> BY DEF Settle
<1>3. /\ ledger' \in [Actions -> LedgerStatuses] /\ LedgerTrue'
      /\ \A b \in Actions :
            /\ ledger'[b] \in LedgerOpen => ledger[b] \in LedgerOpen
            /\ ledger'[b] = "none" <=> ledger[b] = "none"
            /\ ledger[b] \in {"SUCCEEDED", "EXPIRED"} => ledger'[b] = ledger[b]
            /\ b # a => ledger'[b] = ledger[b]
  BY <1>1, <1>2, SettledTrue
<1>4. PICK record \in LedgerStatuses : record = ledger'[a] BY <1>1, <1>3
<1>5. [run[h] EXCEPT !.at = "project", !.record = record] \in RunRecords
  BY <1>1, <1>4 DEF RunRecords, Steps
<1>6. PICK r \in RunRecords : r = [run[h] EXCEPT !.at = "project", !.record = record] BY <1>5
<1>7. /\ r.at = "project" /\ r.record = record /\ r.session = run[h].session /\ r.action = a
      /\ run' = [run EXCEPT ![h] = r]
  BY <1>1, <1>4, <1>6 DEF Settle, IInv, TypeOK, RunRecords
<1>8. RunSound(r)'
  BY <1>1, <1>3, <1>4, <1>7, RunOf DEF RunSound, StepSound, Shaped, Graphing
<1>9. /\ checkpoint \in SessionRecords /\ Truthful(checkpoint) /\ Shaped(checkpoint)
      /\ checkpoint.pending \in Actions \cup {None}
  BY DEF IInv, TypeOK, SessionRecords
<1>10. Truthful(checkpoint)' /\ Shaped(checkpoint)'
  BY <1>2, <1>3, <1>9 DEF Truthful, Shaped, Written
<1>11. \A k \in Handlers : Holds(k) /\ k # h /\ run[k].at = "execute"
         => ledger'[run[k].action] = "EXECUTING"
  <2>1. SUFFICES ASSUME NEW k \in Handlers, Holds(k), k # h, run[k].at = "execute"
        PROVE  ledger'[run[k].action] = "EXECUTING"
    OBVIOUS
  <2>2. HolderSound(run[k]) /\ RunSound(run[k]) BY <2>1 DEF IInv
  <2>3. run[k].action \in Actions /\ run[k].action # a
    BY <2>1, <2>2 DEF RunSound, StepSound, Graphing
  <2> QED BY <1>3, <2>1, <2>2, <2>3 DEF HolderSound
<1>12. thread' = h => HolderSound(r)'
  <2>1. SUFFICES ASSUME Holds(h) PROVE HolderSound(r)' BY <1>2 DEF Holds
  <2>2. HolderSound(run[h]) BY <2>1 DEF IInv
  <2>3. Truthful(r.session)'
    BY <1>2, <1>3, <1>7, <2>2 DEF HolderSound, Truthful, Written
  <2>4. Extends(r.session, checkpoint)' BY <1>2, <1>7, <2>2 DEF HolderSound, Extends
  <2>5. r.session = checkpoint' BY <1>2, <1>7, <2>2 DEF HolderSound, Graphing
  <2> QED BY <1>7, <2>3, <2>4, <2>5 DEF HolderSound
<1> QED BY <1>2, <1>3, <1>7, <1>8, <1>9, <1>10, <1>11, <1>12, RequestStep

LEMMA GiveUpStep ==
  ASSUME IInv, NEW h \in Handlers, GiveUp(h) PROVE IInv'
<1>1. RunSound(run[h]) /\ run[h].at = "execute" BY RunOf DEF GiveUp
<1>2. service[run[h].action].at \in Harmless
  BY <1>1 DEF RunSound, StepSound, Graphing, IInv, ServiceSound, Harmless
<1>3. \A k \in Handlers : k # h => ~(run[k].at = "execute" /\ run[k].action = run[h].action)
  BY <1>1 DEF IInv, OneExecutes
<1>4. PICK status \in {"EXPIRED", "UNKNOWN"} : Settle(h, status) BY DEF GiveUp
<1> QED BY <1>1, <1>2, <1>3, <1>4, SettleStep

(* Whoever was called has no other request before its call.                *)
LEMMA CalledAlone ==
  ASSUME IInv, NEW a \in Actions, service[a].calls > 0
  PROVE  \A k \in Handlers : ~(run[k].at = "execute" /\ run[k].action = a)
BY DEF IInv, RunSound, StepSound

LEMMA ReturnStep ==
  ASSUME IInv, NEW h \in Handlers, Return(h) PROVE IInv'
<1> DEFINE a == run[h].action
<1>1. /\ run[h].at = "called" /\ a \in Actions /\ service[a].calls > 0
  BY RunOf DEF Return, RunSound, StepSound, Graphing
<1>2. \A k \in Handlers : ~(run[k].at = "execute" /\ run[k].action = a)
  BY <1>1, CalledAlone
<1>3. CASE service[a].at \in {"written", "undone"} /\ Settle(h, "SUCCEEDED")
  <2>1. Written(a) BY <1>1, <1>3 DEF Written, Actions
  <2> QED BY <1>1, <1>2, <1>3, <2>1, SettleStep
<1>4. CASE service[a].at \in {"failed", "undone"} /\ Settle(h, "EXPIRED")
  BY <1>1, <1>2, <1>4, SettleStep DEF Harmless
<1>5. CASE Settle(h, "UNKNOWN") BY <1>1, <1>2, <1>5, SettleStep
<1> QED BY <1>3, <1>4, <1>5 DEF Return

LEMMA LookupStep ==
  ASSUME IInv, NEW h \in Handlers, Lookup(h) PROVE IInv'
<1> DEFINE a == run[h].action
<1>1. /\ run[h] \in RunRecords /\ RunSound(run[h]) /\ run[h].at = "lookup"
      /\ a \in Actions /\ run[h].session.pending = a /\ ledger[a] # "none"
  BY RunOf DEF Lookup, RunSound, StepSound, Graphing
<1>2. ASSUME a \in Bookings, service[a].at = "written", Settle(h, "SUCCEEDED") PROVE IInv'
  <2>1. Written(a) /\ service[a].calls > 0
    <3>1. service[a].calls \in 0 .. 2 BY <1>1 DEF IInv, TypeOK, ServiceRecords
    <3> QED BY <1>1, <1>2, <3>1 DEF Written, IInv, ServiceSound
  <2>2. \A k \in Handlers : ~(run[k].at = "execute" /\ run[k].action = a)
    BY <1>1, <2>1, CalledAlone
  <2> QED BY <1>1, <1>2, <2>1, <2>2, SettleStep
<1>3. ASSUME Settle(h, ledger[a]) PROVE IInv'
  <2>1. ledger \in [Actions -> LedgerStatuses] BY DEF IInv, TypeOK
  <2>2. ledger' = ledger /\ UNCHANGED <<thread, checkpoint, service>>
    BY <1>1, <1>3, <2>1 DEF Settle, Settled
  <2> DEFINE r == [run[h] EXCEPT !.at = "project", !.record = ledger[a]]
  <2>3. /\ r \in RunRecords /\ r.at = "project" /\ r.record = ledger[a]
        /\ r.session = run[h].session /\ r.action = a
    BY <1>1, <2>1 DEF RunRecords, Steps
  <2>4. run' = [run EXCEPT ![h] = r]
    BY <1>1, <1>3, <2>2 DEF Settle, IInv, TypeOK, RunRecords
  <2>5. RunSound(r) BY <1>1, <2>3 DEF RunSound, StepSound, Graphing
  <2>6. Holds(h) => HolderSound(run[h]) BY <1>1 DEF IInv
  <2> HIDE DEF r
  <2> QED BY <1>1, <2>2, <2>3, <2>4, <2>5, <2>6, KeepStep DEF HolderSound, Graphing
<1> QED BY <1>2, <1>3 DEF Lookup

LEMMA AskStatusStep ==
  ASSUME IInv, NEW h \in Handlers, AskStatus(h) PROVE IInv'
<1> DEFINE s == run[h].session
           p == s.pending
           written == \E q \in Payments : service[q].at = "written"
<1>1. /\ run[h] \in RunRecords /\ RunSound(run[h]) /\ s \in SessionRecords
      /\ run[h].at = "send" /\ s.open /\ p \in Payments /\ p \in Actions /\ p # None
      /\ s.done[p] = "none"
      /\ s.done \in [Actions -> {"none", "succeeded", "refused"}]
      /\ UNCHANGED <<thread, checkpoint, service>>
  BY RunOf, AssistantAssumption DEF AskStatus, RunSound, Shaped, SessionRecords, Actions
<1>2. PICK status \in {"SUCCEEDED", "EXPIRED"} :
        /\ status = "SUCCEEDED" => written
        /\ status = "EXPIRED" => service[p].at = "undone"
        /\ ledger' = Settled(p, status)
        /\ Go(h, "finish", [Projected(s, p, status) EXCEPT !.active = None])
  BY DEF AskStatus
<1> DEFINE done == IF status = "SUCCEEDED" THEN "succeeded" ELSE "refused"
           new == [Projected(s, p, status) EXCEPT !.active = None]
<1>3. /\ new \in SessionRecords /\ new.done = [s.done EXCEPT ![p] = done]
      /\ new.pending = None /\ ~new.open
  BY <1>1 DEF Projected, SessionRecords, LedgerOpen
<1>4. /\ done = "succeeded" => Written(p)
      /\ done = "refused" => service[p].at \in Harmless
      /\ done \in {"succeeded", "refused"}
  <2>1. p \notin Bookings BY <1>1, AssistantAssumption
  <2> QED BY <1>1, <1>2, <2>1 DEF Written, Harmless
<1>5. /\ ledger' \in [Actions -> LedgerStatuses] /\ LedgerTrue'
      /\ \A b \in Actions :
            /\ ledger'[b] \in LedgerOpen => ledger[b] \in LedgerOpen
            /\ ledger'[b] = "none" <=> ledger[b] = "none"
            /\ ledger[b] \in {"SUCCEEDED", "EXPIRED"} => ledger'[b] = ledger[b]
            /\ b # p => ledger'[b] = ledger[b]
      /\ ledger'[p] \notin LedgerOpen
  <2>1. ledger[p] # "none" BY <1>1 DEF RunSound, Shaped
  <2>2. status = "EXPIRED" => service[p].at \in Harmless BY <1>2 DEF Harmless
  <2>3. status = "SUCCEEDED" => Written(p) BY <1>4
  <2>4. ledger'[p] \notin LedgerOpen
    BY <1>1, <1>2 DEF Settled, IInv, TypeOK, LedgerOpen
  <2> QED BY <1>1, <1>2, <2>2, <2>3, <2>4, SettledTrue
<1>6. PICK r \in RunRecords : r = [run[h] EXCEPT !.at = "finish", !.session = new]
  BY <1>1, <1>3 DEF RunRecords, Steps
<1>7. r.at = "finish" /\ r.session = new /\ run' = [run EXCEPT ![h] = r]
  <2>1. r.at = "finish" /\ r.session = new BY <1>1, <1>6 DEF RunRecords
  <2>2. Go(h, "finish", new) BY <1>2
  <2> HIDE DEF new
  <2> QED BY <1>6, <2>1, <2>2, GoRun
<1>8. RunSound(r)'
  BY <1>3, <1>7 DEF RunSound, StepSound, Shaped, Graphing
<1>9. /\ checkpoint \in SessionRecords /\ Truthful(checkpoint) /\ Shaped(checkpoint)
      /\ checkpoint.pending \in Actions \cup {None}
  BY DEF IInv, TypeOK, SessionRecords
<1>10. Truthful(checkpoint)' /\ Shaped(checkpoint)'
  BY <1>1, <1>5, <1>9 DEF Truthful, Shaped, Written
<1>11. \A k \in Handlers : Holds(k) /\ k # h /\ run[k].at = "execute"
         => ledger'[run[k].action] = "EXECUTING"
  <2>1. SUFFICES ASSUME NEW k \in Handlers, Holds(k), k # h, run[k].at = "execute"
        PROVE  ledger'[run[k].action] = "EXECUTING"
    OBVIOUS
  <2>2. HolderSound(run[k]) /\ RunSound(run[k]) BY <2>1 DEF IInv
  <2>3. run[k].action \in Actions /\ run[k].action # p
    BY <1>1, <2>1, <2>2 DEF RunSound, StepSound, Graphing, HolderSound
  <2> QED BY <1>5, <2>1, <2>2, <2>3 DEF HolderSound
<1> HIDE DEF new, done
<1>12. thread' = h => HolderSound(r)'
  <2>1. SUFFICES ASSUME Holds(h) PROVE HolderSound(r)' BY <1>1 DEF Holds
  <2>2. HolderSound(run[h]) BY <1>1, <2>1 DEF IInv
  <2>3. Truthful(r.session)'
    <3>1. SUFFICES ASSUME NEW b \in Actions
          PROVE  /\ new.done[b] = "refused" => service[b].at \in Harmless
                 /\ new.done[b] = "succeeded" => Written(b)
                 /\ service[b].calls > 0 => new.done[b] # "none" /\ ledger'[b] \notin LedgerOpen
      BY <1>1, <1>7 DEF Truthful, Written
    <3>2. CASE b = p BY <3>2, <1>1, <1>3, <1>4, <1>5
    <3>3. CASE b # p BY <3>3, <1>1, <1>3, <1>5, <2>2 DEF HolderSound, Truthful
    <3> QED BY <3>2, <3>3
  <2>4. Extends(r.session, checkpoint)'
    BY <1>1, <1>3, <1>7, <2>2 DEF HolderSound, Extends
  <2> QED BY <1>7, <2>3, <2>4 DEF HolderSound, Graphing
<1> QED BY <1>1, <1>3, <1>5, <1>7, <1>8, <1>9, <1>10, <1>11, <1>12, RequestStep

LEMMA ReserveStep ==
  ASSUME IInv, NEW h \in Handlers, Reserve(h) PROVE IInv'
<1> DEFINE a == run[h].action
<1>1. /\ run[h] \in RunRecords /\ RunSound(run[h]) /\ run[h].at = "reserve"
      /\ a \in Actions /\ run[h].session.pending = a
  BY RunOf DEF Reserve, RunSound, StepSound, Graphing
<1>2. ledger \in [Actions -> LedgerStatuses] BY DEF IInv, TypeOK
<1>3. CASE ledger[a] # "none"
  <2> DEFINE r == [run[h] EXCEPT !.at = "lookup"]
  <2>1. /\ r \in RunRecords /\ r.at = "lookup" /\ r.session = run[h].session /\ r.action = a
    BY <1>1 DEF RunRecords, Steps
  <2>2. run' = [run EXCEPT ![h] = r] /\ UNCHANGED <<thread, checkpoint, ledger, service>>
    BY <1>1, <1>3 DEF Reserve, IInv, TypeOK, RunRecords
  <2>3. RunSound(r) BY <1>1, <1>3, <2>1 DEF RunSound, StepSound, Graphing
  <2>4. Holds(h) => HolderSound(run[h]) BY <1>1 DEF IInv
  <2> HIDE DEF r
  <2> QED BY <1>1, <2>1, <2>2, <2>3, <2>4, KeepStep DEF HolderSound, Graphing
<1>4. CASE ledger[a] = "none"
  <2> DEFINE new == [run[h] EXCEPT !.at = "execute"]
  <2>1. new \in RunRecords BY <1>1 DEF RunRecords, Steps
  <2>2. PICK r \in RunRecords : r = new BY <2>1
  <2>3. /\ r.at = "execute" /\ r.session = run[h].session /\ r.action = a
        /\ r.from = run[h].from /\ run' = [run EXCEPT ![h] = r]
    BY <1>1, <1>4, <2>2 DEF Reserve, IInv, TypeOK, RunRecords
  <2>4. /\ ledger' = [ledger EXCEPT ![a] = "EXECUTING"]
        /\ UNCHANGED <<thread, checkpoint, service>>
    BY <1>4 DEF Reserve
  <2>5. /\ ledger' \in [Actions -> LedgerStatuses] /\ ledger'[a] = "EXECUTING"
        /\ \A b \in Actions : b # a => ledger'[b] = ledger[b]
    BY <1>1, <1>2, <2>4 DEF LedgerStatuses, LedgerOpen
  <2>6. service[a].calls = 0 BY <1>1, <1>4 DEF IInv, LedgerTrue
  <2>7. \A k \in Handlers :
          /\ ~(run[k].at = "execute" /\ run[k].action = a)
          /\ ~(run[k].session.open /\ run[k].session.pending = a)
    BY <1>4, RunOf DEF RunSound, StepSound, Shaped
  <2>8. /\ checkpoint \in SessionRecords /\ Truthful(checkpoint) /\ Shaped(checkpoint)
        /\ checkpoint.pending \in Actions \cup {None} /\ LedgerTrue
    BY DEF IInv, TypeOK, SessionRecords
  <2>9. LedgerTrue'
    BY <2>4, <2>5, <2>6, <2>8 DEF LedgerTrue, Written
  <2>10. Truthful(checkpoint)' /\ Shaped(checkpoint)'
    BY <1>1, <2>4, <2>5, <2>6, <2>8 DEF Truthful, Shaped, Written
  <2>11. RunSound(r)'
    BY <1>1, <1>4, <2>3, <2>4, <2>5, <2>6 DEF RunSound, StepSound, Shaped, Graphing
  <2>12. \A k \in Handlers : Holds(k) /\ k # h /\ run[k].at = "execute"
           => ledger'[run[k].action] = "EXECUTING"
    <3>1. SUFFICES ASSUME NEW k \in Handlers, Holds(k), k # h, run[k].at = "execute"
          PROVE  ledger'[run[k].action] = "EXECUTING"
      OBVIOUS
    <3>2. HolderSound(run[k]) /\ RunSound(run[k]) BY <3>1 DEF IInv
    <3>3. run[k].action \in Actions /\ run[k].action # a
      BY <2>7, <3>1, <3>2 DEF RunSound, StepSound, Graphing
    <3> QED BY <2>5, <3>1, <3>2, <3>3 DEF HolderSound
  <2>13. thread' = h => HolderSound(r)'
    <3>1. SUFFICES ASSUME Holds(h) PROVE HolderSound(r)' BY <2>4 DEF Holds
    <3>2. HolderSound(run[h]) BY <1>1, <3>1 DEF IInv
    <3>3. r.session = checkpoint' BY <1>1, <2>3, <2>4, <3>2 DEF HolderSound, Graphing
    <3>4. Truthful(r.session)' BY <2>10, <3>3 DEF Truthful
    <3>5. Extends(r.session, checkpoint)' BY <3>3 DEF Extends
    <3>6. \A k \in Handlers : ~(run'[k].session.open /\ run'[k].session.pending = a)
      BY <2>3, <2>7 DEF IInv, TypeOK
    <3>7. r.from = "booking" => \A p \in Payments : service'[p].calls = 0
      BY <1>1, <2>3, <2>4, <3>2 DEF HolderSound
    <3> QED BY <2>3, <2>5, <3>3, <3>4, <3>5, <3>6, <3>7 DEF HolderSound
  <2>14. \A b \in Actions :
            /\ ledger'[b] \in LedgerOpen => ledger[b] \in LedgerOpen \/ service[b].calls = 0
            /\ ledger'[b] = "none" => ledger[b] = "none"
            /\ ledger[b] \in {"SUCCEEDED", "EXPIRED"} => ledger'[b] = ledger[b]
    BY <1>4, <2>5, <2>6
  <2>15. r.session.open => /\ run[h].session.open
                           /\ run[h].session.pending = r.session.pending
    BY <2>3
  <2>16. \A k \in Handlers \ {h} : ~(run[k].at = "execute" /\ run[k].action = r.action)
    BY <2>3, <2>7
  <2>17. run' = [run EXCEPT ![h] = r] /\ ledger' \in [Actions -> LedgerStatuses]
    BY <2>3, <2>5
  <2> HIDE DEF new, a
  <2> QED BY <2>4, <2>8, <2>9, <2>10, <2>11, <2>12, <2>13, <2>14, <2>15, <2>16, <2>17,
             RequestStep
<1> QED BY <1>3, <1>4

-----------------------------------------------------------------------------
(* The actions of the services and of the lease.                           *)

(* A service goes on with a call that was made.                            *)
LEMMA ServiceStep ==
  ASSUME IInv, NEW a \in Actions, service[a].calls > 0,
         NEW at \in {"written", "failed", "undone"},
         service' = [service EXCEPT ![a].at = at],
         at = "failed" => service[a].at = "running",
         at = "written" => service[a].at = "running",
         at = "undone" => service[a].at = "written",
         UNCHANGED <<thread, checkpoint, ledger, run>>
  PROVE  IInv'
<1>1. /\ service \in [Actions -> ServiceRecords] /\ service[a] \in ServiceRecords
  BY DEF IInv, TypeOK
<1>2. /\ service' \in [Actions -> ServiceRecords]
      /\ \A b \in Actions : /\ service'[b].calls = service[b].calls
                            /\ service'[b].automatic = service[b].automatic
                            /\ b # a => service'[b].at = service[b].at
      /\ service'[a].at = at
  BY <1>1 DEF ServiceRecords
<1>3. TypeOK' BY <1>2 DEF IInv, TypeOK
<1>4. \A b \in Actions : Written(b) => Written(b)'
  BY <1>1, <1>2 DEF Written, Actions
<1>5. ASSUME NEW s, Truthful(s) PROVE Truthful(s)'
  BY <1>2, <1>4, <1>5 DEF Truthful, Harmless
<1>6. Truthful(checkpoint)' /\ Shaped(checkpoint)'
  <2>1. Truthful(checkpoint) /\ Shaped(checkpoint) BY DEF IInv
  <2>2. PICK s : s = checkpoint OBVIOUS
  <2>3. Truthful(s)' BY <1>5, <2>1, <2>2
  <2> QED BY <2>1, <2>2, <2>3 DEF Truthful, Shaped
<1>7. LedgerTrue'
  BY <1>2, <1>4 DEF IInv, LedgerTrue, Harmless
<1>8. ServiceSound' /\ OneExecutes' /\ OneAutomatic'
  BY <1>2 DEF IInv, ServiceSound, OneExecutes, OneAutomatic, Actions
<1>9. ASSUME NEW k \in Handlers PROVE RunSound(run[k])'
  <2>1. RunSound(run[k]) /\ run'[k] = run[k] BY DEF IInv
  <2> QED BY <1>2, <2>1 DEF RunSound, StepSound, Shaped, Graphing
<1>10. ASSUME NEW k \in Handlers, Holds(k)', run'[k].at # "idle" PROVE HolderSound(run[k])'
  <2>1. HolderSound(run[k]) /\ RunSound(run[k]) BY <1>10 DEF IInv, Holds
  <2>2. PICK s : s = run[k].session OBVIOUS
  <2>3. Truthful(s)' BY <1>5, <2>1, <2>2 DEF HolderSound
  <2>4. Truthful(run[k].session)' BY <2>2, <2>3 DEF Truthful
  <2>5. Waiting(run[k].session) => run[k].session.pending \in Actions
    BY RunOf DEF Waiting
  <2>6. \A p \in Payments : service'[p].calls = service[p].calls BY <1>2 DEF Actions
  <2> QED BY <1>2, <2>1, <2>4, <2>5, <2>6 DEF HolderSound, Extends, Waiting
<1> QED BY <1>3, <1>6, <1>7, <1>8, <1>9, <1>10 DEF IInv

LEMMA LandsStep ==
  ASSUME IInv, NEW a \in Actions, Lands(a) PROVE IInv'
<1>1. service[a] \in ServiceRecords BY DEF IInv, TypeOK
<1>2. service[a].calls > 0
  BY <1>1 DEF Lands, IInv, ServiceSound, ServiceRecords
<1>3. PICK at \in {"written", "failed"} : service' = [service EXCEPT ![a].at = at]
  BY DEF Lands
<1> QED BY <1>2, <1>3, ServiceStep DEF Lands

LEMMA PaymentFailsStep ==
  ASSUME IInv, NEW p \in Payments, PaymentFails(p) PROVE IInv'
<1>1. p \in Actions /\ service[p] \in ServiceRecords BY DEF IInv, TypeOK, Actions
<1>2. service[p].calls > 0
  BY <1>1 DEF PaymentFails, IInv, ServiceSound, ServiceRecords
<1> QED BY <1>1, <1>2, ServiceStep DEF PaymentFails

LEMMA LeaseEndsStep ==
  ASSUME IInv, LeaseEnds PROVE IInv'
<1>1. /\ TypeOK' /\ LedgerTrue' /\ ServiceSound' /\ OneExecutes' /\ OneAutomatic'
      /\ Truthful(checkpoint)' /\ Shaped(checkpoint)'
  BY DEF LeaseEnds, IInv, TypeOK, LedgerTrue, ServiceSound, OneExecutes, OneAutomatic, Truthful,
         Shaped, Written
<1>2. \A k \in Handlers : RunSound(run[k])'
  BY DEF LeaseEnds, IInv, RunSound, StepSound, Shaped
<1>3. \A k \in Handlers : ~Holds(k)' BY AssistantAssumption DEF LeaseEnds, Holds
<1> QED BY <1>1, <1>2, <1>3 DEF IInv

(* The service is called by the request that holds the lease.              *)
LEMMA CallStep ==
  ASSUME IInv, NEW h \in Handlers, Call(h) PROVE IInv'
<1> DEFINE a == run[h].action
           r == [run[h] EXCEPT !.at = "called"]
           called == [at |-> "running", calls |-> service[a].calls + 1,
                      automatic |-> run[h].from = "booking"]
<1>1. /\ run[h] \in RunRecords /\ RunSound(run[h]) /\ run[h].at = "execute"
      /\ a \in Actions /\ thread = h
  BY RunOf DEF Call, Holds, RunSound, StepSound, Graphing
<1>2. HolderSound(run[h]) BY <1>1 DEF IInv, Holds
<1>3. /\ service[a].calls = 0 /\ service[a].at = "none" /\ ledger[a] = "EXECUTING"
      /\ run[h].session = checkpoint /\ checkpoint.pending = a /\ checkpoint.done[a] = "none"
  BY <1>1, <1>2, AssistantAssumption
  DEF HolderSound, RunSound, StepSound, Shaped, Graphing, IInv, ServiceSound
<1>4. /\ service \in [Actions -> ServiceRecords] /\ called \in ServiceRecords
      /\ service' = [service EXCEPT ![a] = called]
      /\ called.at = "running" /\ called.calls = 1
      /\ called.automatic <=> run[h].from = "booking"
  <2>1. (run[h].from = "booking") \in BOOLEAN OBVIOUS
  <2>2. called.automatic = (run[h].from = "booking") OBVIOUS
  <2>3. called \in ServiceRecords BY <1>3, <2>1 DEF ServiceRecords
  <2>4. service' = [service EXCEPT ![a] = called] BY DEF Call
  <2>5. called.at = "running" /\ called.calls = 1 BY <1>3
  <2>6. service \in [Actions -> ServiceRecords] BY DEF IInv, TypeOK
  <2> HIDE DEF called
  <2> QED BY <2>2, <2>3, <2>4, <2>5, <2>6
<1>5. /\ UNCHANGED <<thread, checkpoint, ledger>>
      /\ run' = [run EXCEPT ![h].at = "called"]
  BY DEF Call
<1>6. /\ r \in RunRecords /\ r.at = "called" /\ r.session = run[h].session /\ r.action = a
  BY <1>1 DEF RunRecords, Steps
<1>7. run' = [run EXCEPT ![h] = r] BY <1>1, <1>5 DEF IInv, TypeOK, RunRecords
<1> HIDE DEF r, called
<1>8. /\ run'[h] = r /\ \A k \in Handlers : k # h => run'[k] = run[k]
      /\ service'[a] = called /\ \A b \in Actions : b # a => service'[b] = service[b]
      /\ service' \in [Actions -> ServiceRecords]
  BY <1>1, <1>4, <1>7 DEF IInv, TypeOK
<1>9. TypeOK' BY <1>5, <1>6, <1>7, <1>8 DEF IInv, TypeOK
<1>10. \A b \in Actions : Written(b) => Written(b)'
  BY <1>3, <1>8 DEF Written, Actions
<1>11. Truthful(checkpoint)' /\ Shaped(checkpoint)'
  <2>1. Truthful(checkpoint) /\ Shaped(checkpoint) BY DEF IInv
  <2> QED BY <1>3, <1>4, <1>5, <1>8, <1>10, <2>1 DEF Truthful, Shaped
<1>12. LedgerTrue' BY <1>3, <1>5, <1>8, <1>10 DEF IInv, LedgerTrue
<1>13. ServiceSound' BY <1>4, <1>8 DEF IInv, ServiceSound
<1>14. OneExecutes' BY <1>6, <1>8 DEF IInv, OneExecutes
<1>15. OneAutomatic'
  <2>1. SUFFICES ASSUME NEW p \in Payments, NEW q \in Payments,
                        service'[p].automatic, service'[q].automatic
        PROVE  p = q
    BY DEF OneAutomatic
  <2>2. p \in Actions /\ q \in Actions BY DEF Actions
  <2>3. CASE run[h].from = "booking"
    <3>1. \A b \in Payments : ~service[b].automatic
      BY <1>1, <1>2, <2>3 DEF HolderSound, IInv, ServiceSound, Actions
    <3> QED BY <1>8, <2>1, <2>2, <3>1
  <2>4. CASE run[h].from # "booking"
    <3>1. p # a /\ q # a BY <1>4, <1>8, <2>1, <2>4
    <3> QED BY <1>8, <2>1, <2>2, <3>1 DEF IInv, OneAutomatic
  <2> QED BY <2>3, <2>4
<1>16. ASSUME NEW k \in Handlers PROVE RunSound(run[k])'
  <2>1. CASE k = h
    BY <2>1, <1>1, <1>3, <1>4, <1>5, <1>6, <1>8 DEF RunSound, StepSound, Shaped, Graphing
  <2>2. CASE k # h
    <3>1. RunSound(run[k]) /\ run'[k] = run[k] BY <1>8, <2>2 DEF IInv
    <3>2. run[k].at = "execute" => run[k].action # a
      BY <1>1, <2>2 DEF IInv, OneExecutes
    <3>3. Shaped(run[k].session)' BY <1>5, <3>1 DEF RunSound, Shaped
    <3>4. run[k].at \in Graphing => run[k].action \in Actions
      BY <3>1 DEF RunSound, StepSound
    <3>5. StepSound(run[k])'
      <4>1. StepSound(run[k]) /\ run'[k] = run[k] /\ ledger' = ledger
        BY <1>5, <3>1 DEF RunSound
      <4>2. CASE run[k].at \notin {"execute", "called"}
        BY <4>1, <4>2 DEF StepSound
      <4>3. CASE run[k].at \in {"execute", "called"}
        <5>1. PICK b \in Actions : b = run[k].action BY <3>4, <4>3 DEF Graphing
        <5>2. /\ run[k].at = "execute" => b # a /\ service[b].calls = 0
              /\ run[k].at = "called" => service[b].calls > 0
          BY <3>2, <4>1, <5>1 DEF StepSound
        <5>3. /\ b # a => service'[b] = service[b]
              /\ b = a => service'[b].calls = 1
          BY <1>4, <1>8
        <5>4. /\ run[k].at = "execute" => service'[b].calls = 0
              /\ run[k].at = "called" => service'[b].calls > 0
          <6>1. CASE b = a BY <5>2, <5>3, <6>1
          <6>2. CASE b # a BY <5>2, <5>3, <6>2
          <6> QED BY <6>1, <6>2
        <5> QED BY <4>1, <5>1, <5>4 DEF StepSound
      <4> QED BY <4>2, <4>3
    <3> QED BY <3>3, <3>5 DEF RunSound
  <2> QED BY <2>1, <2>2
<1>17. ASSUME NEW k \in Handlers, Holds(k)', run'[k].at # "idle" PROVE HolderSound(run[k])'
  <2>1. k = h /\ run'[k] = r BY <1>1, <1>5, <1>8, <1>17 DEF Holds
  <2>2. r.session = checkpoint' BY <1>3, <1>5, <1>6
  <2>3. Truthful(run[k].session)' BY <1>11, <2>1, <2>2 DEF Truthful
  <2> QED BY <1>6, <2>1, <2>2, <2>3 DEF HolderSound, Extends
<1> QED BY <1>9, <1>11, <1>12, <1>13, <1>14, <1>15, <1>16, <1>17 DEF IInv

-----------------------------------------------------------------------------
LEMMA HandleStep ==
  ASSUME IInv, NEW h \in Handlers, Handle(h) PROVE IInv'
BY ReceiveStep, DropStep, FinishStep, AskStatusStep, ReconcileStep, ResumeStep, ConfirmStep,
   RefuseStep, MessageStep, CheckpointStep, PrepareStep, ValidateStep, ReserveStep, GiveUpStep,
   CallStep, ReturnStep, LookupStep, ProjectStep, ContinueStep DEF Handle

LEMMA NextIInv ==
  ASSUME IInv, [Next]_vars PROVE IInv'
<1>1. CASE Next BY <1>1, HandleStep, LeaseEndsStep, LandsStep, PaymentFailsStep DEF Next
<1>2. CASE UNCHANGED vars
  <2>1. /\ TypeOK' /\ LedgerTrue' /\ ServiceSound' /\ OneExecutes' /\ OneAutomatic'
        /\ Truthful(checkpoint)' /\ Shaped(checkpoint)'
    BY <1>2 DEF vars, IInv, TypeOK, LedgerTrue, ServiceSound, OneExecutes, OneAutomatic, Truthful,
                Shaped, Written
  <2>2. \A k \in Handlers : RunSound(run[k])'
    BY <1>2 DEF vars, IInv, RunSound, StepSound, Shaped
  <2>3. \A k \in Handlers : Holds(k)' /\ run'[k].at # "idle" => HolderSound(run[k])'
    BY <1>2 DEF vars, IInv, Holds, HolderSound, Truthful, Written, Extends, Waiting
  <2> QED BY <2>1, <2>2, <2>3 DEF IInv
<1> QED BY <1>1, <1>2

-----------------------------------------------------------------------------
(* The theorems.                                                           *)

LEMMA Inductive == Spec => []IInv
<1>1. Init => IInv BY InitIInv
<1>2. IInv /\ [Next]_vars => IInv' BY NextIInv
<1> QED BY <1>1, <1>2, PTL DEF Spec

(* Sessions, records of the ledger and requests have the shapes declared.  *)
THEOREM AssistantTypeCorrect == Spec => []TypeOK
<1>1. IInv => TypeOK BY DEF IInv
<1> QED BY <1>1, Inductive, PTL

(* What a customer confirmed is called once, and his order is paid for at  *)
(* most once without his being asked, whatever requests are sent again and *)
(* whoever takes over the lease (mongo-action-ledger.ts:56,                *)
(* agent.service.ts:433).                                                  *)
THEOREM CalledOnceCorrect == Spec => []CalledOnce
<1>1. ASSUME IInv PROVE CalledOnce
  <2> DEFINE unasked == {p \in Payments : service[p].automatic}
  <2>1. Cardinality(unasked) <= 1
    <3>1. CASE unasked = {} BY <3>1, FS_EmptySet
    <3>2. CASE unasked # {}
      <4>1. PICK p : p \in unasked BY <3>2
      <4>2. unasked = {p} BY <1>1, <4>1 DEF IInv, OneAutomatic
      <4>3. Cardinality({p}) = 1 BY FS_Singleton
      <4> HIDE DEF unasked
      <4> QED BY <4>2, <4>3
    <3> QED BY <3>1, <3>2
  <2>2. \A a \in Actions : service[a].calls <= 1 BY <1>1 DEF IInv, ServiceSound
  <2> QED BY <2>1, <2>2 DEF CalledOnce
<1> QED BY <1>1, Inductive, PTL

(* What the saved session says of an action is so: of one it calls         *)
(* rejected or expired nothing is written, an order it calls made is       *)
(* there, and an action called and not decided is before the customer      *)
(* (customer-workflow-runtime.ts:129, mongo-action-ledger.ts:71).          *)
THEOREM SessionTrueCorrect == Spec => []SessionTrue
<1>1. ASSUME IInv PROVE SessionTrue
  BY <1>1 DEF IInv, Truthful, SessionTrue, Written, Harmless
<1> QED BY <1>1, Inductive, PTL

LEMMA SavedExtends ==
  ASSUME IInv, NEW h \in Handlers, NEW s, Save(h, s), run[h].at # "idle",
         \A a \in Actions : run[h].session.done[a] # "none" => s.done[a] = run[h].session.done[a]
  PROVE  DecisionsKept
BY DEF IInv, HolderSound, Extends, Save, DecisionsKept

LEMMA HandleKeeps ==
  ASSUME IInv, NEW h \in Handlers, Handle(h) PROVE DecisionsKept
<1>1. CASE checkpoint' = checkpoint BY <1>1 DEF DecisionsKept
<1>2. run[h].session \in SessionRecords BY RunOf
<1>3. CASE Finish(h)
  BY <1>2, <1>3, SavedExtends DEF Finish, SessionRecords
<1>4. CASE Checkpoint(h) BY <1>4, SavedExtends DEF Checkpoint
<1>5. CASE Confirm(h)
  <2>1. Save(h, [run[h].session EXCEPT !.active = run[h].request]) /\ run[h].at = "send"
    BY <1>5 DEF Confirm
  <2> QED BY <1>2, <2>1, SavedExtends DEF SessionRecords
<1>6. CASE Project(h)
  <2> DEFINE s == Projected(run[h].session, run[h].action, run[h].record)
             kept == IF run[h].from = "reconcile" /\ ~s.open THEN [s EXCEPT !.active = None] ELSE s
  <2>1. Save(h, kept) /\ run[h].at = "project" /\ Holds(h) BY <1>6 DEF Project, Save
  <2>2. s \in SessionRecords /\ Extends(s, checkpoint) BY <2>1, ProjectedTrue
  <2>3. kept.done = s.done BY <2>2 DEF SessionRecords
  <2> HIDE DEF kept, s
  <2> QED BY <2>1, <2>2, <2>3 DEF Extends, Save, DecisionsKept
<1>7. CASE ContinueBooking(h)
  <2>1. CASE checkpoint' = checkpoint BY <2>1, <1>1
  <2>2. CASE \E p \in Payments : Save(h, [run[h].session EXCEPT !.pending = p])
    BY <1>2, <1>7, <2>2, SavedExtends DEF SessionRecords, ContinueBooking
  <2> QED BY <1>7, <2>1, <2>2 DEF ContinueBooking
<1> QED BY <1>1, <1>3, <1>4, <1>5, <1>6, <1>7
  DEF Handle, Receive, Drop, AskStatus, Reconcile, Resume, Refuse, Message, Prepare, Validate,
      Reserve, GiveUp, Settle, Call, Return, Lookup

(* A decision that was saved stays: no request that has lost its lease     *)
(* writes an older session over it (mongo-graph-access.ts:136).            *)
THEOREM AssistantDecisionsCorrect == Spec => DecisionsStay
<1>1. ASSUME IInv, [Next]_vars PROVE [DecisionsKept]_vars
  BY <1>1, HandleKeeps DEF Next, LeaseEnds, Lands, PaymentFails, DecisionsKept
<1>2. IInv /\ [Next]_vars => [DecisionsKept]_vars BY <1>1
<1>3. Spec => [][DecisionsKept]_vars BY <1>2, Inductive, PTL DEF Spec
<1> QED BY <1>3 DEF DecisionsStay, DecisionsKept

-----------------------------------------------------------------------------
(* Assistant implements AssistedOrder.                                     *)

(* An order is pending until there is one, and a payment after that.       *)
Sequenced(s) ==
    s.pending # None => (s.pending \in Payments <=> \E b \in Bookings : s.done[b] = "succeeded")

Sequences ==
    /\ Sequenced(checkpoint)
    /\ \A h \in Handlers : Sequenced(run[h].session)

(* No order is undone.                                                     *)
BookingsStand == \A b \in Bookings : service[b].at # "undone"

PInv == IInv /\ Sequences /\ BookingsStand

LEMMA InitPInv == ASSUME Init PROVE PInv
<1>1. Sequenced(NewSession) BY DEF Sequenced, NewSession
<1>2. \A h \in Handlers : run[h].session = NewSession BY DEF Init, Idle
<1>3. BookingsStand BY DEF Init, BookingsStand, Actions
<1> QED BY <1>1, <1>2, <1>3, InitIInv DEF PInv, Sequences, Init

(* A request moves on in a session with the sequence kept.                 *)
LEMMA SequenceStep ==
  ASSUME PInv, NEW h \in Handlers, NEW r, run' = [run EXCEPT ![h] = r],
         Sequenced(r.session),
         checkpoint' = checkpoint \/ Sequenced(checkpoint')
  PROVE  Sequences'
<1>1. /\ run'[h] = r
      /\ \A k \in Handlers : k # h => run'[k] = run[k]
  BY DEF PInv, IInv, TypeOK
<1>2. Sequenced(checkpoint)' BY DEF PInv, Sequences, Sequenced
<1>3. ASSUME NEW k \in Handlers PROVE Sequenced(run[k].session)'
  <2>1. CASE k = h BY <1>1, <2>1 DEF Sequenced
  <2>2. CASE k # h BY <1>1, <2>2 DEF PInv, Sequences, Sequenced
  <2> QED BY <2>1, <2>2
<1> QED BY <1>2, <1>3 DEF Sequences

(* A session whose pending action is kept or cleared.                      *)
LEMMA SequenceKept ==
  ASSUME NEW s, NEW t, Sequenced(s),
         t.pending = None \/ (t.pending = s.pending /\ t.done = s.done)
  PROVE  Sequenced(t)
BY DEF Sequenced

LEMMA ProjectedSequenced ==
  ASSUME PInv, NEW h \in Handlers, NEW record,
         run[h].session.pending \in Actions
  PROVE  LET s == Projected(run[h].session, run[h].session.pending, record)
         IN  /\ Sequenced(s)
             /\ Sequenced([s EXCEPT !.active = None])
<1> DEFINE s == Projected(run[h].session, run[h].session.pending, record)
           kept == [s EXCEPT !.active = None]
<1>1. run[h].session \in SessionRecords /\ Sequenced(run[h].session)
  BY RunOf DEF PInv, Sequences
<1>2. s.pending = None \/ (s.pending = run[h].session.pending /\ s.done = run[h].session.done)
  BY <1>1 DEF Projected, SessionRecords
<1>3. kept.pending = s.pending /\ kept.done = s.done
  BY <1>1 DEF Projected, SessionRecords
<1> HIDE DEF s, kept
<1>4. Sequenced(s) /\ Sequenced(kept) BY <1>1, <1>2, <1>3, SequenceKept
<1> QED BY <1>4 DEF s, kept

LEMMA GoSequenced ==
  ASSUME PInv, NEW h \in Handlers, NEW at, NEW t, Go(h, at, t), Sequenced(t),
         checkpoint' = checkpoint
  PROVE  Sequences'
<1> DEFINE r == [run[h] EXCEPT !.at = at, !.session = t]
<1>1. run' = [run EXCEPT ![h] = r] BY GoRun DEF PInv
<1>2. r.session = t BY RunOf DEF PInv, RunRecords
<1> HIDE DEF r
<1> QED BY <1>1, <1>2, SequenceStep

LEMMA GraphSequenced ==
  ASSUME PInv, NEW h \in Handlers, NEW t, NEW a, NEW from, RunGraph(h, t, a, from), Sequenced(t),
         checkpoint' = t
  PROVE  Sequences'
<1> DEFINE r == [run[h] EXCEPT !.at = "graph", !.session = t, !.action = a, !.from = from]
<1>1. run \in [Handlers -> RunRecords] /\ run[h] \in RunRecords BY DEF PInv, IInv, TypeOK
<1>2. run' = [run EXCEPT ![h] = r] BY <1>1 DEF RunGraph, RunRecords
<1>3. r.session = t BY <1>1 DEF RunRecords
<1> HIDE DEF r
<1> QED BY <1>2, <1>3, SequenceStep

(* Steps that keep the session of the request.                             *)
LEMMA StepRun ==
  ASSUME PInv, NEW h \in Handlers,
         \/ Reconcile(h) \/ Resume(h) \/ Checkpoint(h) \/ Validate(h) \/ Reserve(h)
         \/ GiveUp(h) \/ Call(h) \/ Return(h) \/ Lookup(h)
  PROVE  \E r : run' = [run EXCEPT ![h] = r] /\ r.session = run[h].session
<1> DEFINE Moves(r) == run' = [run EXCEPT ![h] = r] /\ r.session = run[h].session
<1>1. run \in [Handlers -> RunRecords] /\ run[h] \in RunRecords BY DEF PInv, IInv, TypeOK
<1>2. CASE Reconcile(h)
  <2>1. Moves([run[h] EXCEPT !.at = "graph", !.session = run[h].session,
                             !.action = run[h].session.pending, !.from = "reconcile"])
    BY <1>1, <1>2 DEF Reconcile, RunGraph, RunRecords
  <2> QED BY <2>1
<1>3. CASE Resume(h)
  <2>1. PICK at : run' = [run EXCEPT ![h].at = at, ![h].session = run[h].session]
    BY <1>3 DEF Resume, Go
  <2>2. Moves([run[h] EXCEPT !.at = at, !.session = run[h].session])
    BY <1>1, <2>1 DEF RunRecords
  <2> QED BY <2>2
<1>4. CASE Checkpoint(h)
  <2>1. Moves(run[h]) BY <1>1, <1>4 DEF Checkpoint
  <2> QED BY <2>1
<1>5. CASE Validate(h) \/ Reserve(h) \/ Call(h)
  <2>1. PICK at : run' = [run EXCEPT ![h].at = at] BY <1>5 DEF Validate, Reserve, Call
  <2>2. Moves([run[h] EXCEPT !.at = at]) BY <1>1, <2>1 DEF RunRecords
  <2> QED BY <2>2
<1>6. CASE GiveUp(h) \/ Return(h) \/ Lookup(h)
  <2>1. PICK record : run' = [run EXCEPT ![h].at = "project", ![h].record = record]
    BY <1>6 DEF GiveUp, Return, Lookup, Settle
  <2>2. Moves([run[h] EXCEPT !.at = "project", !.record = record]) BY <1>1, <2>1 DEF RunRecords
  <2> QED BY <2>2
<1> QED BY <1>2, <1>3, <1>4, <1>5, <1>6

(* The call alone of a request touches a service.                          *)
LEMMA HandleServices ==
  ASSUME NEW h \in Handlers, Handle(h) PROVE Call(h) \/ service' = service
BY DEF Handle, Receive, Drop, Finish, AskStatus, Reconcile, Resume, Confirm, Refuse, Message,
       Checkpoint, Prepare, Validate, Reserve, GiveUp, Settle, Return, Lookup, Project,
       ContinueBooking

LEMMA HandleSequences ==
  ASSUME PInv, NEW h \in Handlers, Handle(h) PROVE Sequences'
<1> DEFINE s == run[h].session
<1>1. /\ run \in [Handlers -> RunRecords] /\ run[h] \in RunRecords
      /\ s \in SessionRecords /\ Sequenced(s) /\ RunSound(run[h])
      /\ s.pending \in Actions \cup {None}
  BY RunOf DEF PInv, Sequences, IInv, TypeOK
<1>2. ASSUME NEW request \in Requests, Receive(h, request) PROVE Sequences'
  <2>1. PICK at, from, a : run' = [run EXCEPT ![h] = [Idle EXCEPT !.at = at, !.request = request,
                                       !.session = checkpoint, !.action = a, !.from = from]]
    BY <1>2 DEF Receive
  <2>2. PICK r : r = [Idle EXCEPT !.at = at, !.request = request, !.session = checkpoint,
                                  !.action = a, !.from = from]
    OBVIOUS
  <2>3. r.session = checkpoint BY <2>2, IdleSound DEF RunRecords
  <2> QED BY <1>2, <2>1, <2>2, <2>3, SequenceStep DEF Receive, PInv, Sequences
<1>3. CASE Drop(h) \/ Finish(h)
  <2>1. run' = [run EXCEPT ![h] = Idle] BY <1>3 DEF Drop, Finish
  <2>2. Sequenced(Idle.session) BY DEF Sequenced, Idle, NewSession
  <2>3. checkpoint' = checkpoint \/ checkpoint' = [s EXCEPT !.active = None]
    BY <1>3 DEF Drop, Finish, Save
  <2>4. Sequenced([s EXCEPT !.active = None]) BY <1>1 DEF Sequenced, SessionRecords
  <2> QED BY <2>1, <2>2, <2>3, <2>4, SequenceStep
<1>4. CASE AskStatus(h)
  <2>1. PICK status \in {"SUCCEEDED", "EXPIRED"} :
           Go(h, "finish", [Projected(s, s.pending, status) EXCEPT !.active = None])
    BY <1>4 DEF AskStatus
  <2>2. s.pending \in Actions /\ checkpoint' = checkpoint BY <1>4 DEF AskStatus, Actions
  <2>3. PICK t : /\ t = [Projected(s, s.pending, status) EXCEPT !.active = None]
                 /\ Sequenced(t)
    BY <2>2, ProjectedSequenced
  <2> QED BY <2>1, <2>2, <2>3, GoSequenced
<1>5. CASE Confirm(h)
  <2>1. PICK t : /\ t = [s EXCEPT !.active = run[h].request]
                 /\ Save(h, t) /\ RunGraph(h, t, run[h].request.action, "confirm")
    BY <1>5 DEF Confirm
  <2>2. Sequenced(t) BY <1>1, <2>1 DEF Sequenced, SessionRecords
  <2> QED BY <2>1, <2>2, GraphSequenced DEF Save
<1>6. CASE Refuse(h) \/ Message(h)
  <2> DEFINE kept == [s EXCEPT !.active = run[h].request]
             refused(a) == [s EXCEPT !.active = run[h].request, !.pending = None,
                                     !.done[a] = "refused"]
             dropped(a) == [kept EXCEPT !.pending = None, !.done[a] = "refused"]
  <2>1. kept.pending = s.pending /\ kept.done = s.done BY <1>1 DEF SessionRecords
  <2>2. \A a : refused(a).pending = None /\ dropped(a).pending = None BY <1>1 DEF SessionRecords
  <2>3. \/ \E at : Go(h, at, kept)
        \/ \E a : Go(h, "talk", refused(a)) \/ Go(h, "talk", dropped(a))
    BY <1>6 DEF Refuse, Message
  <2> HIDE DEF kept, refused, dropped
  <2>4. PICK at, t : /\ Go(h, at, t)
                     /\ t.pending = None \/ (t.pending = s.pending /\ t.done = s.done)
    BY <2>1, <2>2, <2>3
  <2>5. Sequenced(t) BY <1>1, <2>4, SequenceKept
  <2>6. checkpoint' = checkpoint BY <1>6 DEF Refuse, Message
  <2> QED BY <2>4, <2>5, <2>6, GoSequenced
<1>7. ASSUME NEW a \in Actions, Prepare(h, a) PROVE Sequences'
  <2>1. PICK t : t = [s EXCEPT !.pending = a] /\ Go(h, "finish", t)
    BY <1>7 DEF Prepare
  <2>2. Sequenced(t) BY <1>1, <1>7, <2>1 DEF Prepare, CanPrepare, Sequenced, SessionRecords
  <2> QED BY <1>7, <2>1, <2>2, GoSequenced DEF Prepare
<1>8. CASE ContinueBooking(h)
  <2>1. CASE Go(h, "finish", s) /\ UNCHANGED checkpoint BY <1>1, <2>1, GoSequenced
  <2>2. CASE \E p \in Payments :
                /\ CanPrepare(s, p)
                /\ \/ Go(h, "finish", [s EXCEPT !.pending = p]) /\ UNCHANGED checkpoint
                   \/ /\ Save(h, [s EXCEPT !.pending = p])
                      /\ RunGraph(h, [s EXCEPT !.pending = p], p, "booking")
    <3>1. PICK p, t :
             /\ p \in Payments /\ CanPrepare(s, p) /\ t = [s EXCEPT !.pending = p]
             /\ \/ Go(h, "finish", t) /\ checkpoint' = checkpoint
                \/ Save(h, t) /\ RunGraph(h, t, p, "booking")
      BY <2>2
    <3>2. Sequenced(t) BY <1>1, <3>1 DEF CanPrepare, Sequenced, SessionRecords
    <3> QED BY <3>1, <3>2, GoSequenced, GraphSequenced DEF Save
  <2> QED BY <1>8, <2>1, <2>2 DEF ContinueBooking
<1>9. CASE Project(h)
  <2>1. s.pending \in Actions /\ run[h].action = s.pending
    BY <1>1, <1>9 DEF Project, RunSound, StepSound, Graphing
  <2>2. PICK t, u, r : /\ t = Projected(s, s.pending, run[h].record)
                       /\ u \in {t, [t EXCEPT !.active = None]}
                       /\ checkpoint' = u /\ run' = [run EXCEPT ![h] = r]
                       /\ r.session \in {u, Idle.session}
    <3> DEFINE t == Projected(s, s.pending, run[h].record)
               kept == IF run[h].from = "reconcile" /\ ~t.open THEN [t EXCEPT !.active = None] ELSE t
    <3>1. checkpoint' = kept BY <1>9, <2>1 DEF Project, Save
    <3>2. \/ run' = [run EXCEPT ![h] = Idle]
          \/ \E at : run' = [run EXCEPT ![h] = [@ EXCEPT !.session = kept, !.action = None,
                                  !.record = "none", !.from = "none", !.at = at]]
      BY <1>9, <2>1 DEF Project
    <3>3. \A at : LET r == [run[h] EXCEPT !.session = kept, !.action = None, !.record = "none",
                                           !.from = "none", !.at = at]
                  IN  /\ r.session = kept
                      /\ [run EXCEPT ![h] = r] =
                         [run EXCEPT ![h] = [@ EXCEPT !.session = kept, !.action = None,
                                                !.record = "none", !.from = "none", !.at = at]]
      BY <1>1 DEF RunRecords
    <3>4. \E r : run' = [run EXCEPT ![h] = r] /\ r.session \in {kept, Idle.session}
      <4> HIDE DEF kept
      <4> QED BY <3>2, <3>3
    <3>5. kept \in {t, [t EXCEPT !.active = None]} OBVIOUS
    <3> HIDE DEF kept
    <3> QED BY <3>1, <3>4, <3>5
  <2>3. Sequenced(u)
    <3>1. Sequenced(t) /\ Sequenced([t EXCEPT !.active = None]) BY <2>1, <2>2, ProjectedSequenced
    <3> QED BY <2>2, <3>1
  <2>4. Sequenced(Idle.session) BY DEF Sequenced, Idle, NewSession
  <2> QED BY <2>2, <2>3, <2>4, SequenceStep
<1>10. CASE \/ Reconcile(h) \/ Resume(h) \/ Checkpoint(h) \/ Validate(h) \/ Reserve(h)
            \/ GiveUp(h) \/ Call(h) \/ Return(h) \/ Lookup(h)
  <2>1. checkpoint' = checkpoint \/ checkpoint' = s
    BY <1>10 DEF Reconcile, Resume, Checkpoint, Validate, Reserve, GiveUp, Call, Return, Lookup,
                 Settle, Save
  <2>2. PICK r : run' = [run EXCEPT ![h] = r] /\ r.session = s
    BY <1>10, StepRun
  <2> QED BY <1>1, <2>1, <2>2, SequenceStep
<1> QED BY <1>2, <1>3, <1>4, <1>5, <1>6, <1>7, <1>8, <1>9, <1>10 DEF Handle

LEMMA NextPInv ==
  ASSUME PInv, [Next]_vars PROVE PInv'
<1>1. IInv' BY NextIInv DEF PInv
<1>2. Sequences'
  <2>1. ASSUME NEW h \in Handlers, Handle(h) PROVE Sequences' BY <2>1, HandleSequences
  <2>2. CASE UNCHANGED <<checkpoint, run>> BY <2>2 DEF PInv, Sequences, Sequenced
  <2> QED BY <2>1, <2>2 DEF Next, LeaseEnds, Lands, PaymentFails, vars
<1>3. BookingsStand'
  <2>1. CASE service' = service BY <2>1 DEF PInv, BookingsStand
  <2>2. service \in [Actions -> ServiceRecords] BY DEF PInv, IInv, TypeOK
  <2>3. ASSUME NEW a \in Actions, NEW at, at # "undone" \/ a \in Payments,
               NEW sr, sr.at = at, service' = [service EXCEPT ![a] = sr]
        PROVE  BookingsStand'
    BY <2>2, <2>3, AssistantAssumption DEF PInv, BookingsStand, Actions
  <2>4. ASSUME NEW h \in Handlers, Call(h) PROVE BookingsStand'
    <3>1. run[h].action \in Actions
      BY <2>4, RunOf DEF PInv, Call, RunSound, StepSound, Graphing
    <3> QED BY <2>3, <2>4, <3>1 DEF Call
  <2>5. ASSUME NEW a \in Actions, Lands(a) PROVE BookingsStand'
    BY <2>2, <2>3, <2>5 DEF Lands, ServiceRecords
  <2>6. ASSUME NEW p \in Payments, PaymentFails(p) PROVE BookingsStand'
    BY <2>2, <2>3, <2>6 DEF PaymentFails, ServiceRecords, Actions
  <2> QED BY <2>1, <2>4, <2>5, <2>6, HandleServices DEF Next, LeaseEnds, vars
<1> QED BY <1>1, <1>2, <1>3 DEF PInv

LEMMA AlwaysPInv == Spec => []PInv
<1>1. Init => PInv BY InitPInv
<1>2. PInv /\ [Next]_vars => PInv' BY NextPInv
<1> QED BY <1>1, <1>2, PTL DEF Spec

-----------------------------------------------------------------------------
(* The steps of AssistedOrder.                                             *)

(* What is saved says of an action what came of it.                        *)
LEMMA StepSays ==
  ASSUME PInv, PInv', DecisionsKept, service' = service PROVE Assisted!Say
<1>1. checkpoint'.done \in [Actions -> {"none", "succeeded", "refused"}]
  BY DEF PInv, IInv, TypeOK, SessionRecords
<1>2. ASSUME NEW a \in Actions, checkpoint'.done[a] # checkpoint.done[a]
      PROVE  /\ checkpoint.done[a] = "none"
             /\ \/ checkpoint'.done[a] = "refused" /\ service[a].at \in Harmless
                \/ checkpoint'.done[a] = "succeeded" /\ Written(a)
  <2>1. Truthful(checkpoint)' BY DEF PInv, IInv
  <2>2. checkpoint.done[a] = "none" BY <1>2 DEF DecisionsKept
  <2>3. checkpoint'.done[a] \in {"succeeded", "refused"} BY <1>1, <1>2, <2>2
  <2> QED BY <2>1, <2>2, <2>3 DEF Truthful, Written
<1>3. \A a \in Actions : Written(a) => Assisted!Succeeded(a)
  BY DEF Written, Assisted!Succeeded, Assisted!Actions, Actions
<1> QED BY <1>1, <1>2, <1>3 DEF Assisted!Say, Assisted!Actions, Actions, Harmless

(* A service is called for an order that nothing else has been made of, or *)
(* a payment of an order that was made.                                    *)
LEMMA StepCalls ==
  ASSUME PInv, NEW h \in Handlers, Call(h)
  PROVE  \/ \E b \in Bookings : Assisted!Book(b)
         \/ \E p \in Payments : Assisted!Pay(p)
<1>1. PICK a : a = run[h].action OBVIOUS
<1>2. /\ run[h].at = "execute" /\ Holds(h) /\ RunSound(run[h]) /\ HolderSound(run[h])
      /\ a \in Actions
  BY <1>1, RunOf DEF PInv, IInv, Call, RunSound, StepSound, Graphing
<1>3. /\ service[a].calls = 0 /\ service[a].at = "none"
      /\ checkpoint.pending = a /\ checkpoint.done[a] = "none"
  BY <1>1, <1>2, AssistantAssumption
  DEF HolderSound, RunSound, StepSound, Shaped, Graphing, PInv, IInv, ServiceSound
<1>4. /\ service \in [Actions -> ServiceRecords]
      /\ Truthful(checkpoint) /\ ServiceSound /\ Sequenced(checkpoint) /\ BookingsStand
  BY DEF PInv, IInv, TypeOK, Sequences
<1>5. /\ \A b \in Actions : service'[b].at = IF b = a THEN "running" ELSE service[b].at
      /\ checkpoint' = checkpoint
  BY <1>1, <1>2, <1>4 DEF Call
<1>6. a \in Payments <=> \E b \in Bookings : checkpoint.done[b] = "succeeded"
  BY <1>2, <1>3, <1>4, AssistantAssumption DEF Sequenced
<1>7. [b \in Actions |-> service'[b].at] = [[b \in Actions |-> service[b].at] EXCEPT ![a] = "running"]
  BY <1>5
<1>8. CASE a \in Bookings
  <2>1. a \notin Payments BY <1>8, AssistantAssumption
  <2>2. ASSUME NEW b \in Bookings PROVE service[b].at \notin {"running", "written"}
    <3>1. CASE b = a BY <1>3, <3>1
    <3>2. CASE b # a
      <4>1. b \in Actions /\ service[b] \in ServiceRecords BY <1>4 DEF Actions
      <4>2. checkpoint.done[b] # "succeeded" BY <1>6, <2>1
      <4>3. CASE service[b].calls = 0 BY <1>4, <4>1, <4>3 DEF ServiceSound
      <4>4. CASE service[b].calls > 0
        <5>1. checkpoint.done[b] # "none" BY <1>3, <1>4, <3>2, <4>1, <4>4 DEF Truthful
        <5>2. checkpoint.done[b] = "refused"
          BY <4>1, <4>2, <5>1 DEF PInv, IInv, TypeOK, SessionRecords
        <5> QED BY <1>4, <4>1, <5>2 DEF Truthful, Harmless
      <4> QED BY <4>1, <4>3, <4>4 DEF ServiceRecords
    <3> QED BY <3>1, <3>2
  <2>3. Assisted!Book(a)
    BY <1>2, <1>3, <1>5, <1>7, <1>8, <2>2
    DEF Assisted!Book, Assisted!Stands, Assisted!Actions, Actions
  <2> QED BY <1>8, <2>3
<1>9. CASE a \in Payments
  <2>1. PICK b \in Bookings : checkpoint.done[b] = "succeeded" BY <1>6, <1>9
  <2>2. b \in Actions /\ service[b].at = "written"
    BY <1>4, <2>1 DEF Truthful, Written, BookingsStand, Actions
  <2>3. Assisted!Pay(a)
    BY <1>2, <1>3, <1>5, <1>7, <1>9, <2>2 DEF Assisted!Pay, Assisted!Actions, Actions
  <2> QED BY <1>9, <2>3
<1> QED BY <1>2, <1>8, <1>9 DEF Actions

LEMMA StepImplements ==
  ASSUME PInv, PInv', [Next]_vars PROVE [Assisted!Next]_(Assisted!promised)
<1>1. service \in [Actions -> ServiceRecords] BY DEF PInv, IInv, TypeOK
<1>2. ASSUME NEW h \in Handlers, Handle(h) PROVE Assisted!Next
  <2>1. CASE Call(h) BY <2>1, StepCalls DEF Assisted!Next
  <2>2. CASE ~Call(h)
    <3>1. service' = service BY <1>2, <2>2, HandleServices
    <3>2. DecisionsKept BY <1>2, HandleKeeps DEF PInv
    <3> QED BY <3>1, <3>2, StepSays DEF Assisted!Next
  <2> QED BY <2>1, <2>2
<1>3. ASSUME NEW a \in Actions, Lands(a) PROVE Assisted!Land(a)
  <2>1. PICK at \in {"written", "failed"} : service' = [service EXCEPT ![a].at = at]
    BY <1>3 DEF Lands
  <2>2. \A b \in Actions : service'[b].at = IF b = a THEN at ELSE service[b].at
    BY <1>1, <2>1 DEF ServiceRecords
  <2>3. [b \in Actions |-> service'[b].at] = [[b \in Actions |-> service[b].at] EXCEPT ![a] = at]
    BY <2>2
  <2> QED BY <1>3, <2>3 DEF Lands, Assisted!Land, Assisted!Actions, Actions
<1>4. ASSUME NEW p \in Payments, PaymentFails(p) PROVE Assisted!Undo(p)
  <2>1. p \in Actions BY DEF Actions
  <2>2. \A b \in Actions : service'[b].at = IF b = p THEN "undone" ELSE service[b].at
    BY <1>1, <1>4, <2>1 DEF PaymentFails, ServiceRecords
  <2>3. [b \in Actions |-> service'[b].at] = [[b \in Actions |-> service[b].at] EXCEPT ![p] = "undone"]
    BY <2>2
  <2> QED BY <1>4, <2>1, <2>3 DEF PaymentFails, Assisted!Undo, Assisted!Actions, Actions
<1>5. CASE LeaseEnds \/ UNCHANGED vars
  BY <1>5 DEF LeaseEnds, vars, Assisted!promised, Assisted!Actions, Actions
<1> QED BY <1>2, <1>3, <1>4, <1>5 DEF Next, Assisted!Next, Assisted!Actions, Actions

(* Assistant implements AssistedOrder: whatever requests, leases, repeated *)
(* answers and late services do together, one of the attempts at an order  *)
(* makes it, and it is paid for only then; nothing is called that was      *)
(* called or decided before, and what the session says is so, is said      *)
(* once, and ends the action (confirmed-action.graph.ts:108,               *)
(* mongo-action-ledger.ts:56).                                             *)
THEOREM PromiseCorrect == Spec => KeepsPromise
<1>1. Init => Assisted!Init
  BY DEF Init, NewSession, Assisted!Init, Assisted!Actions, Actions
<1>2. PInv /\ PInv' /\ [Next]_vars => [Assisted!Next]_(Assisted!promised) BY StepImplements
<1> QED BY <1>1, <1>2, AlwaysPInv, PTL DEF Spec, KeepsPromise, Assisted!Spec

(* So one attempt at an order at most stands or is under way, and nothing  *)
(* is paid before it is made (confirmed-action.graph.ts:108).              *)
THEOREM OneOrderCorrect == Spec => []Assisted!OneOrder
<1>1. Assisted!Init => Assisted!OneOrder
  BY DEF Assisted!Init, Assisted!OneOrder, Assisted!Stands, Assisted!Actions, Actions
<1>2. ASSUME Assisted!OneOrder, [Assisted!Next]_(Assisted!promised) PROVE Assisted!OneOrder'
  <2>1. ASSUME NEW b \in Bookings, Assisted!Book(b) PROVE Assisted!OneOrder'
    BY <1>2, <2>1, AssistantAssumption
    DEF Assisted!Book, Assisted!OneOrder, Assisted!Stands, Assisted!Actions, Actions
  <2>2. ASSUME NEW p \in Payments, Assisted!Pay(p) \/ Assisted!Undo(p) PROVE Assisted!OneOrder'
    BY <1>2, <2>2, AssistantAssumption
    DEF Assisted!Pay, Assisted!Undo, Assisted!OneOrder, Assisted!Stands, Assisted!Actions, Actions
  <2>3. ASSUME NEW a \in Actions, Assisted!Land(a) PROVE Assisted!OneOrder'
    BY <1>2, <2>3, AssistantAssumption
    DEF Assisted!Land, Assisted!OneOrder, Assisted!Stands, Assisted!Actions, Actions
  <2>4. CASE Assisted!Say \/ UNCHANGED Assisted!promised
    BY <1>2, <2>4 DEF Assisted!Say, Assisted!promised, Assisted!OneOrder, Assisted!Stands
  <2> QED BY <1>2, <2>1, <2>2, <2>3, <2>4 DEF Assisted!Next, Assisted!Actions, Actions
<1>3. Assisted!OneOrder /\ [Assisted!Next]_(Assisted!promised) => Assisted!OneOrder' BY <1>2
<1> QED BY <1>1, <1>3, PromiseCorrect, PTL DEF KeepsPromise, Assisted!Spec
=============================================================================
