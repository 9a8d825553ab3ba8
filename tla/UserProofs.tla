------------------------------- MODULE UserProofs -------------------------------
(***************************************************************************)
(* Theorems about a user: about Accounts, for any passwords, sessions,     *)
(* connections and requests in progress, and about Moderation, for any     *)
(* reports, tickets and requests about them.  Both are about the User      *)
(* document: its passwords, codes and version of the tokens, and its       *)
(* status with the cause of a lock.                                        *)
(***************************************************************************)
EXTENDS Accounts, Moderation, TLAPS

-----------------------------------------------------------------------------
(* The inductive invariant of Accounts.                                    *)

(* Version and password, or "oauth", that a session is opened with: if the *)
(* version is current, so is the password.                                 *)
Current(version, opened) ==
    /\ version <= account.version
    /\ version = account.version /\ opened # "oauth" => opened = account.password

SessionSound(s) ==
    session[s].status # "none" =>
        account.status = "verified" /\ Current(session[s].version, session[s].opened)

(* What a request in progress still knows.                                 *)
RunSound(r) ==
    /\ r.at \in {"create", "register", "resend"} => r.password \in AnyPassword
    /\ r.at = "resend" => r.password = r.read.password
    /\ r.at = "verify" => r.read.registerOtp # 0
    /\ r.at = "link" => account.status # "none" /\ r.password = "oauth"
    /\ r.at \in {"issue", "refresh", "change"} => account.status = "verified"
    /\ r.at = "issue" => Current(r.read.version, r.password)
    /\ r.at = "refresh" =>
          /\ r.session \in Sessions /\ session[r.session].status # "none"
          /\ Current(r.read.version, session[r.session].opened)
    /\ r.at = "reset" => r.password \in Passwords /\ r.code # 0 /\ r.read.resetOtp = r.code
    /\ r.at = "change" => r.password \in Passwords

(* The code to reset with is the newest and was not used.                  *)
ResetCodeSound ==
    /\ account.resetOtp <= Len(mail)
    /\ account.resetOtp # 0 =>
          /\ mail[account.resetOtp].uses = 0
          /\ \A d \in 1 .. Len(mail) : d > account.resetOtp => mail[d].purpose # "reset"

(* The code to register with was mailed for the password of now.           *)
RegisterCodeSound ==
    /\ account.registerOtp <= Len(mail)
    /\ account.status = "unverified" /\ account.registerOtp # 0 /\ ~account.byReset
          => mail[account.registerOtp].password = account.password

(* Who is no longer let in is about to be disconnected.                    *)
SocketsSound ==
    /\ \A k \in Sockets : socket[k].at # "none" => account.status = "verified"
    /\ \A k \in Sockets :
          socket[k].at = "checked" /\ (account.locked \/ socket[k].version # account.version)
             => \E h \in Handlers : run[h].at \in {"disconnect", "hangup"}

IInv ==
    /\ TypeOK /\ ResetCodeSound /\ RegisterCodeSound /\ SocketsSound
    /\ \A s \in Sessions : SessionSound(s)
    /\ \A h \in Handlers : RunSound(run[h])

-----------------------------------------------------------------------------
(* Records.                                                                *)

LEMMA SeenRecord ==
  ASSUME NEW seen \in AccountRecords
  PROVE  /\ Seen(seen) \in SeenRecords
         /\ Seen(seen).status = seen.status /\ Seen(seen).password = seen.password
         /\ Seen(seen).registerOtp = seen.registerOtp /\ Seen(seen).resetOtp = seen.resetOtp
         /\ Seen(seen).version = seen.version
BY DEF Seen, SeenRecords, AccountRecords

LEMMA NoAccountRecord == NoAccount \in AccountRecords /\ NoAccount.status = "none"
BY AccountsAssumption DEF NoAccount, AccountRecords, AnyPassword, Codes

LEMMA IdleRecord == Idle \in RunRecords /\ Idle.at = "idle"
<1>1. Seen(NoAccount) \in SeenRecords BY NoAccountRecord, SeenRecord
<1> QED BY <1>1, AccountsAssumption DEF Idle, RunRecords, Steps, AnyPassword, Codes

(* Where a request goes on with nothing, or with a password.               *)
LEMMA GoRecord ==
  ASSUME NEW at \in Steps
  PROVE  [Idle EXCEPT !.at = at] \in RunRecords /\ [Idle EXCEPT !.at = at].at = at
<1>1. PICK i \in RunRecords : i = Idle BY IdleRecord
<1>2. [i EXCEPT !.at = at] \in RunRecords /\ [i EXCEPT !.at = at].at = at BY DEF RunRecords
<1> QED BY <1>1, <1>2

LEMMA BlindRecord ==
  ASSUME NEW at \in Steps, NEW password \in AnyPassword
  PROVE  /\ [Idle EXCEPT !.at = at, !.password = password] \in RunRecords
         /\ [Idle EXCEPT !.at = at, !.password = password].at = at
         /\ [Idle EXCEPT !.at = at, !.password = password].password = password
<1>1. PICK i \in RunRecords : i = Idle BY IdleRecord
<1>2. /\ [i EXCEPT !.at = at, !.password = password] \in RunRecords
      /\ [i EXCEPT !.at = at, !.password = password].at = at
      /\ [i EXCEPT !.at = at, !.password = password].password = password
  BY DEF RunRecords
<1> QED BY <1>1, <1>2

LEMMA BeginRecord ==
  ASSUME TypeOK, NEW at \in Steps, NEW password \in AnyPassword \cup {"oauth"}, NEW code \in Codes
  PROVE  [at |-> at, read |-> Seen(account), password |-> password, code |-> code,
          session |-> None] \in RunRecords
BY SeenRecord DEF TypeOK, RunRecords

(* The types, without their definition.                                    *)
LEMMA Types ==
  ASSUME IInv
  PROVE  /\ account \in AccountRecords
         /\ mail \in Seq(MailRecords) /\ Len(mail) \in Nat /\ Len(mail) <= MaxMails
         /\ session \in [Sessions -> SessionRecords] /\ socket \in [Sockets -> SocketRecords]
         /\ run \in [Handlers -> RunRecords]
         /\ \A h \in Handlers : run[h] \in RunRecords
BY DEF IInv, TypeOK

-----------------------------------------------------------------------------
(* What a step may do to the rest, so that a request still knows what it   *)
(* knew, and what the action properties ask of it.                         *)

AccountKeeps ==
    /\ account.status # "none" => account'.status # "none"
    /\ account.status = "verified" =>
          /\ account'.status = "verified" /\ account.version <= account'.version
          /\ account'.version = account.version => account'.password = account.password

SessionsKeep ==
    \A s \in Sessions : session[s].status # "none" =>
        session'[s].status # "none" /\ session'[s].opened = session[s].opened

CodesKept ==
    \A c \in 1 .. Len(mail) :
        mail'[c].uses # mail[c].uses =>
            /\ mail[c].uses = 0
            /\ \A d \in 1 .. Len(mail) : d > c => mail[d].purpose # "reset"

ConfirmsOwn ==
    account.status = "unverified" /\ account'.status = "verified" /\ account'.password # None
      => account.byReset \/ mail[account.registerOtp].password = account'.password

LEMMA RunKept ==
  ASSUME IInv, account' \in AccountRecords, AccountKeeps, SessionsKeep,
         NEW r \in RunRecords, RunSound(r)
  PROVE  RunSound(r)'
<1>1. account \in AccountRecords /\ session \in [Sessions -> SessionRecords] BY Types
<1>2. ASSUME NEW v \in 0 .. MaxVersion, NEW p, Current(v, p), account.status = "verified"
      PROVE  Current(v, p)'
  BY <1>1, <1>2, AccountsAssumption DEF AccountKeeps, AccountRecords, Current
<1>3. r.read.version \in 0 .. MaxVersion BY DEF RunRecords, SeenRecords
<1>4. r.at = "issue" => Current(r.read.version, r.password)' BY <1>2, <1>3 DEF RunSound
<1>5. ASSUME r.at = "refresh"
      PROVE  r.session \in Sessions /\ session'[r.session].status # "none"
             /\ Current(r.read.version, session[r.session].opened)'
  <2>1. /\ r.session \in Sessions /\ session[r.session].status # "none"
        /\ account.status = "verified" /\ Current(r.read.version, session[r.session].opened)
    BY <1>5 DEF RunSound
  <2>2. /\ session'[r.session].status # "none"
        /\ session'[r.session].opened = session[r.session].opened
    BY <2>1 DEF SessionsKeep
  <2>3. PICK o : o = session[r.session].opened OBVIOUS
  <2>4. Current(r.read.version, o)' BY <1>2, <1>3, <2>1, <2>3
  <2> QED BY <2>1, <2>2, <2>3, <2>4 DEF Current
<1> QED BY <1>4, <1>5 DEF RunSound, AccountKeeps

(* A session that the step did not touch.                                  *)
LEMMA SessionKept ==
  ASSUME IInv, account' \in AccountRecords, AccountKeeps, NEW s \in Sessions,
         session'[s].status # "none" =>
             /\ session[s].status # "none" /\ session'[s].opened = session[s].opened
             /\ session'[s].version = session[s].version
  PROVE  SessionSound(s)'
<1>1. account \in AccountRecords /\ session[s] \in SessionRecords BY Types
<1>2. SessionSound(s) BY DEF IInv
<1> QED
  BY <1>1, <1>2, AccountsAssumption
  DEF AccountKeeps, AccountRecords, SessionRecords, SessionSound, Current

(* A step of one request that leaves everything else alone.                *)
LEMMA RequestStep ==
  ASSUME IInv, NEW h \in Handlers, NEW r \in RunRecords, RunSound(r),
         run' = [run EXCEPT ![h] = r], UNCHANGED <<account, mail, session, socket>>,
         run[h].at \notin {"disconnect", "hangup"}
  PROVE  IInv' /\ CodesKept /\ ConfirmsOwn
<1>1. \A g \in Handlers : g # h => run'[g] = run[g] BY Types
<1>2. run'[h] = r BY Types
<1>3. TypeOK' BY Types DEF TypeOK
<1>4. ResetCodeSound' /\ RegisterCodeSound'
  BY DEF IInv, ResetCodeSound, RegisterCodeSound
<1>5. SocketsSound' BY <1>1 DEF IInv, SocketsSound
<1>6. \A s \in Sessions : SessionSound(s)' BY DEF IInv, SessionSound, Current
<1>7. ASSUME NEW g \in Handlers PROVE RunSound(run[g])'
  <2>1. RunSound(run'[g]) BY <1>1, <1>2 DEF IInv
  <2> QED BY <2>1 DEF RunSound, Current
<1> QED BY <1>3, <1>4, <1>5, <1>6, <1>7 DEF IInv, CodesKept, ConfirmsOwn

LEMMA SocketsKept ==
  ASSUME IInv, UNCHANGED socket, AccountKeeps, NEW h \in Handlers, NEW r \in RunRecords,
         run' = [run EXCEPT ![h] = r], run[h].at \notin {"disconnect", "hangup"},
         \/ r.at \in {"disconnect", "hangup"}
         \/ account.status = "verified" =>
               (account'.locked => account.locked) /\ account'.version = account.version
  PROVE  SocketsSound'
<1>1. run'[h] = r /\ \A g \in Handlers : g # h => run'[g] = run[g] BY Types
<1>2. SocketsSound BY DEF IInv
<1>3. ASSUME NEW k \in Sockets, socket[k].at = "checked",
             account'.locked \/ socket[k].version # account'.version
      PROVE  \E g \in Handlers : run'[g].at \in {"disconnect", "hangup"}
  <2>1. account.status = "verified" BY <1>2, <1>3 DEF SocketsSound
  <2>2. CASE r.at \in {"disconnect", "hangup"} BY <1>1, <2>2
  <2>3. CASE account.locked \/ socket[k].version # account.version
    <3>1. PICK g \in Handlers : run[g].at \in {"disconnect", "hangup"}
      BY <1>2, <1>3, <2>3 DEF SocketsSound
    <3> QED BY <1>1, <3>1
  <2> QED BY <1>3, <2>1, <2>2, <2>3
<1>4. \A k \in Sockets : socket'[k].at # "none" => account'.status = "verified"
  BY <1>2 DEF SocketsSound, AccountKeeps
<1> QED BY <1>3, <1>4 DEF SocketsSound

(* A step of one request that writes the account, mails or touches a       *)
(* session.                                                                *)
LEMMA WriteStep ==
  ASSUME IInv, NEW h \in Handlers, NEW r \in RunRecords, run' = [run EXCEPT ![h] = r],
         run[h].at \notin {"disconnect", "hangup"}, UNCHANGED socket,
         account' \in AccountRecords, mail' \in Seq(MailRecords), Len(mail') <= MaxMails,
         session' \in [Sessions -> SessionRecords],
         AccountKeeps, SessionsKeep, RunSound(r)', ResetCodeSound', RegisterCodeSound',
         \/ r.at \in {"disconnect", "hangup"}
         \/ account.status = "verified" =>
               (account'.locked => account.locked) /\ account'.version = account.version,
         \A s \in Sessions : SessionSound(s)'
  PROVE  IInv'
<1>1. run'[h] = r /\ \A g \in Handlers : g # h => run'[g] = run[g] BY Types
<1>2. TypeOK' BY Types DEF TypeOK
<1>3. SocketsSound' BY SocketsKept
<1>4. ASSUME NEW g \in Handlers, g # h PROVE RunSound(run[g])'
  <2>1. PICK q \in RunRecords : q = run[g] BY Types
  <2>2. RunSound(q) BY <2>1 DEF IInv
  <2>3. RunSound(q)' BY <2>2, RunKept
  <2>4. run'[g] = q BY <1>1, <1>4, <2>1
  <2> QED BY <2>3, <2>4 DEF RunSound
<1>5. RunSound(run[h])' BY <1>1 DEF RunSound
<1> QED BY <1>2, <1>3, <1>4, <1>5 DEF IInv

LEMMA SessionsUntouched ==
  ASSUME IInv, UNCHANGED session, account' \in AccountRecords, AccountKeeps
  PROVE  SessionsKeep /\ \A s \in Sessions : SessionSound(s)'
<1>1. SessionsKeep BY DEF SessionsKeep
<1> QED BY <1>1, SessionKept

-----------------------------------------------------------------------------
(* Requests that begin, or are dropped.                                    *)

LEMMA BeginStep ==
  ASSUME IInv, NEW h \in Handlers, NEW at \in Steps, NEW password \in AnyPassword \cup {"oauth"},
         NEW code \in Codes, Begin(h, at, password, code),
         UNCHANGED <<account, mail, session, socket>>,
         at \in {"create", "register", "resend"} => password \in AnyPassword,
         at = "resend" => password = account.password,
         at = "verify" => account.registerOtp # 0,
         at = "link" => account.status # "none" /\ password = "oauth",
         at = "issue" =>
            /\ account.status = "verified"
            /\ password # "oauth" => password = account.password,
         at = "reset" => password \in Passwords /\ code # 0 /\ account.resetOtp = code,
         at \notin {"refresh", "change"}
  PROVE  IInv' /\ CodesKept /\ ConfirmsOwn
<1>1. TypeOK BY DEF IInv
<1>2. PICK r \in RunRecords :
          r = [at |-> at, read |-> Seen(account), password |-> password, code |-> code,
               session |-> None]
  BY <1>1, BeginRecord
<1>3. r.at = at /\ r.read = Seen(account) /\ r.password = password /\ r.code = code BY <1>2
<1>4. run' = [run EXCEPT ![h] = r] /\ run[h].at = "idle" BY <1>2 DEF Begin
<1>5. account.version \in 0 .. MaxVersion BY Types DEF AccountRecords
<1>6. at = "issue" => Current(account.version, password)
  BY <1>5, AccountsAssumption DEF Current
<1>7. RunSound(r) BY <1>3, <1>6, SeenRecord, Types DEF RunSound
<1> QED BY <1>4, <1>7, RequestStep

LEMMA IdleSound == ASSUME IInv PROVE RunSound(Idle) /\ RunSound(Idle)'
BY IdleRecord DEF RunSound

LEMMA DropStep ==
  ASSUME IInv, NEW h \in Handlers, Drop(h) PROVE IInv' /\ CodesKept /\ ConfirmsOwn
<1>1. run' = [run EXCEPT ![h] = Idle] BY DEF Drop, End
<1>2. run[h].at \notin {"disconnect", "hangup"} /\ UNCHANGED <<account, mail, session, socket>>
  BY DEF Drop
<1> QED BY <1>1, <1>2, IdleRecord, IdleSound, RequestStep

LEMMA StartStep ==
  ASSUME IInv, NEW h \in Handlers,
         \/ \E p \in Passwords : StartRegister(h, p) \/ StartLogin(h, p)
         \/ StartResend(h) \/ StartOAuth(h)
         \/ \E c \in Codes \ {0} : StartVerify(h, c) \/ \E p \in Passwords : StartReset(h, c, p)
  PROVE  IInv' /\ CodesKept /\ ConfirmsOwn
<1>1. account.password \in AnyPassword /\ None \in AnyPassword /\ Passwords \subseteq AnyPassword
      /\ 0 \in Codes
  BY Types, AccountsAssumption DEF AccountRecords, AnyPassword, Codes
<1>2. ASSUME NEW p \in Passwords, StartRegister(h, p) PROVE IInv' /\ CodesKept /\ ConfirmsOwn
  <2>1. PICK at \in {"create", "register"} : Begin(h, at, p, 0) BY <1>2 DEF StartRegister
  <2> QED BY <1>1, <1>2, <2>1, BeginStep DEF StartRegister, Steps
<1>3. ASSUME NEW p \in Passwords, StartLogin(h, p) PROVE IInv' /\ CodesKept /\ ConfirmsOwn
  BY <1>1, <1>3, BeginStep DEF StartLogin, Steps
<1>4. CASE StartResend(h) BY <1>1, <1>4, BeginStep DEF StartResend, Steps
<1>5. CASE StartOAuth(h) BY <1>1, <1>5, BeginStep DEF StartOAuth, Steps
<1>6. ASSUME NEW c \in Codes \ {0}, StartVerify(h, c) PROVE IInv' /\ CodesKept /\ ConfirmsOwn
  BY <1>1, <1>6, BeginStep DEF StartVerify, Steps
<1>7. ASSUME NEW c \in Codes \ {0}, NEW p \in Passwords, StartReset(h, c, p)
      PROVE  IInv' /\ CodesKept /\ ConfirmsOwn
  BY <1>1, <1>7, BeginStep DEF StartReset, Steps
<1> QED BY <1>2, <1>3, <1>4, <1>5, <1>6, <1>7

LEMMA StartBlindStep ==
  ASSUME IInv, NEW h \in Handlers,
         StartForgot(h) \/ \E current, p \in Passwords : StartChange(h, current, p)
  PROVE  IInv' /\ CodesKept /\ ConfirmsOwn
<1>1. PICK at \in {"forgot", "change"}, p \in Passwords \cup {None} :
          /\ BeginBlind(h, at, p) /\ UNCHANGED <<account, mail, session, socket>>
          /\ at = "change" => p \in Passwords /\ account.status = "verified"
  BY DEF StartForgot, StartChange
<1>2. PICK r \in RunRecords :
          r = [Idle EXCEPT !.at = at, !.password = p] /\ r.at = at /\ r.password = p
  <2>1. at \in Steps /\ p \in AnyPassword BY DEF Steps, AnyPassword
  <2> DEFINE q == [Idle EXCEPT !.at = at, !.password = p]
  <2>2. q \in RunRecords /\ q.at = at /\ q.password = p BY <2>1, BlindRecord
  <2> HIDE DEF q
  <2>3. \E r \in RunRecords : r = q /\ r.at = at /\ r.password = p BY <2>2
  <2> QED BY <2>3 DEF q
<1>3. run' = [run EXCEPT ![h] = r] /\ run[h].at = "idle" BY <1>1, <1>2 DEF BeginBlind
<1>4. RunSound(r) BY <1>1, <1>2 DEF RunSound
<1> QED BY <1>1, <1>3, <1>4, RequestStep

LEMMA StartRefreshStep ==
  ASSUME IInv, NEW h \in Handlers, NEW s \in Sessions, StartRefresh(h, s)
  PROVE  IInv' /\ CodesKept /\ ConfirmsOwn
<1>1. PICK i \in RunRecords : i = Idle BY IdleRecord
<1>2. Seen(account) \in SeenRecords /\ Seen(account).version = account.version BY Types, SeenRecord
<1>3. PICK r : r = [i EXCEPT !.at = "refresh", !.read = Seen(account), !.session = s] OBVIOUS
<1>4. r \in RunRecords /\ r.at = "refresh" /\ r.read = Seen(account) /\ r.session = s
  BY <1>2, <1>3 DEF RunRecords, Steps
<1>5. run' = [run EXCEPT ![h] = r] /\ run[h].at = "idle" BY <1>1, <1>3 DEF StartRefresh
<1>6. SessionSound(s) /\ session[s].status = "live" /\ session[s].version = account.version
  BY DEF IInv, StartRefresh
<1>7. RunSound(r) BY <1>2, <1>4, <1>6 DEF RunSound, SessionSound
<1>8. UNCHANGED <<account, mail, session, socket>> BY DEF StartRefresh
<1> QED BY <1>4, <1>5, <1>7, <1>8, RequestStep

-----------------------------------------------------------------------------
(* Registration.                                                           *)

LEMMA CreateAccountStep ==
  ASSUME IInv, NEW h \in Handlers, CreateAccount(h)
  PROVE  IInv' /\ CodesKept /\ ConfirmsOwn
<1>1. PICK r \in RunRecords : r = run[h] BY Types
<1>2. /\ r.at = "create" /\ r.password \in AnyPassword /\ account.status = "none"
      /\ UNCHANGED <<mail, session, socket>>
  BY <1>1 DEF CreateAccount, IInv, RunSound
<1>3. PICK n \in AccountRecords : n = NoAccount BY NoAccountRecord
<1>4. account' = [n EXCEPT !.status = "unverified", !.password = r.password]
  BY <1>1, <1>3 DEF CreateAccount
<1>5. n.registerOtp = 0 /\ n.resetOtp = 0 BY <1>3 DEF NoAccount
<1>6. /\ account' \in AccountRecords /\ account'.status = "unverified"
      /\ account'.password = r.password /\ account'.registerOtp = 0 /\ account'.resetOtp = 0
  BY <1>2, <1>4, <1>5 DEF AccountRecords
<1>7. PICK a \in AccountRecords : a = account' BY <1>6
<1>8. run' = [run EXCEPT ![h].at = "resend", ![h].read = Seen(a)]
  BY <1>7 DEF CreateAccount
<1>9. PICK q : q = [r EXCEPT !.at = "resend", !.read = Seen(a)] OBVIOUS
<1>10. Seen(a) \in SeenRecords /\ Seen(a).password = a.password BY SeenRecord
<1>11. q \in RunRecords /\ q.at = "resend" /\ q.read = Seen(a) /\ q.password = r.password
  BY <1>9, <1>10 DEF RunRecords, Steps
<1>12. run' = [run EXCEPT ![h] = q] BY <1>1, <1>8, <1>9, Types
<1>13. AccountKeeps BY <1>2 DEF AccountKeeps
<1>14. SessionsKeep /\ \A s \in Sessions : SessionSound(s)' BY <1>2, <1>6, <1>13, SessionsUntouched
<1>15. RunSound(q)' BY <1>2, <1>6, <1>7, <1>10, <1>11 DEF RunSound
<1>16. ResetCodeSound' /\ RegisterCodeSound'
  BY <1>2, <1>6, Types DEF ResetCodeSound, RegisterCodeSound
<1>17. IInv' BY <1>1, <1>2, <1>6, <1>11, <1>12, <1>13, <1>14, <1>15, <1>16, Types, WriteStep
<1> QED BY <1>2, <1>17 DEF CodesKept, ConfirmsOwn

(* A mail is appended: the older ones stay as they are.                    *)
LEMMA SendKeeps ==
  ASSUME IInv, NEW purpose \in {"register", "reset"}, NEW password \in AnyPassword,
         Send(purpose, password)
  PROVE  /\ mail' \in Seq(MailRecords) /\ Len(mail') = Len(mail) + 1 /\ Len(mail') <= MaxMails
         /\ \A c \in 1 .. Len(mail) : mail'[c] = mail[c]
         /\ mail'[Len(mail) + 1].purpose = purpose
         /\ mail'[Len(mail) + 1].password = password
         /\ mail'[Len(mail) + 1].uses = 0
         /\ NextCode \in Codes /\ NextCode = Len(mail) + 1
         /\ CodesKept
<1>1. PICK m : m = [purpose |-> purpose, password |-> password, uses |-> 0] OBVIOUS
<1>2. m \in MailRecords /\ m.purpose = purpose /\ m.password = password /\ m.uses = 0
  BY <1>1, AccountsAssumption DEF MailRecords
<1>3. mail' = Append(mail, m) /\ Len(mail) < MaxMails BY <1>1 DEF Send
<1>4. mail' \in Seq(MailRecords) /\ Len(mail') = Len(mail) + 1 /\ mail'[Len(mail) + 1] = m
      /\ \A c \in 1 .. Len(mail) : mail'[c] = mail[c]
  BY <1>2, <1>3, Types
<1>5. NextCode \in Codes /\ NextCode = Len(mail) + 1
  BY <1>3, Types, AccountsAssumption DEF NextCode, Codes
<1> QED BY <1>2, <1>3, <1>4, <1>5, Types, AccountsAssumption DEF CodesKept

LEMMA SendRegisterOtpStep ==
  ASSUME IInv, NEW h \in Handlers, SendRegisterOtp(h)
  PROVE  IInv' /\ CodesKept /\ ConfirmsOwn
<1>1. PICK r \in RunRecords : r = run[h] BY Types
<1>2. /\ r.at \in {"register", "resend"} /\ r.password \in AnyPassword
      /\ r.at = "resend" => r.password = account.password
      /\ account.status = "unverified" /\ Send("register", r.password)
      /\ run' = [run EXCEPT ![h] = Idle] /\ UNCHANGED <<session, socket>>
  BY <1>1 DEF SendRegisterOtp, End, IInv, RunSound
<1>3. /\ mail' \in Seq(MailRecords) /\ Len(mail') = Len(mail) + 1 /\ Len(mail') <= MaxMails
      /\ \A c \in 1 .. Len(mail) : mail'[c] = mail[c]
      /\ mail'[Len(mail) + 1].purpose = "register"
      /\ mail'[Len(mail) + 1].password = r.password
      /\ NextCode \in Codes /\ NextCode = Len(mail) + 1 /\ CodesKept
  BY <1>2, SendKeeps
<1>4. account' = IF r.at = "resend" THEN [account EXCEPT !.registerOtp = NextCode]
                 ELSE [account EXCEPT !.registerOtp = NextCode, !.password = r.password,
                                      !.locked = FALSE, !.byReset = FALSE]
  BY <1>1 DEF SendRegisterOtp, Registered
<1>5. /\ account' \in AccountRecords /\ account'.status = "unverified"
      /\ account'.registerOtp = Len(mail) + 1 /\ account'.resetOtp = account.resetOtp
      /\ account'.password = r.password
  BY <1>2, <1>3, <1>4, Types DEF AccountRecords
<1>6. AccountKeeps BY <1>2, <1>5 DEF AccountKeeps
<1>7. SessionsKeep /\ \A s \in Sessions : SessionSound(s)' BY <1>2, <1>5, <1>6, SessionsUntouched
<1>8. RegisterCodeSound' BY <1>3, <1>5, Types DEF RegisterCodeSound
<1>9. ResetCodeSound'
  <2>1. account.resetOtp \in Nat /\ ResetCodeSound
    BY Types DEF AccountRecords, Codes, IInv
  <2>2. ASSUME account.resetOtp # 0, NEW d \in 1 .. Len(mail'), d > account.resetOtp
        PROVE  mail'[d].purpose # "reset"
    <3>1. CASE d = Len(mail) + 1 BY <1>3, <3>1
    <3>2. CASE d \in 1 .. Len(mail) BY <1>3, <2>1, <2>2, <3>2 DEF ResetCodeSound
    <3> QED BY <1>3, <2>2, <3>1, <3>2, Types
  <2>3. account.resetOtp # 0 => mail'[account.resetOtp].uses = 0
    BY <1>3, <2>1, Types DEF ResetCodeSound
  <2>4. account.resetOtp <= Len(mail') BY <1>3, <2>1, Types DEF ResetCodeSound
  <2> QED BY <1>5, <2>2, <2>3, <2>4 DEF ResetCodeSound
<1>10. IInv'
  BY <1>1, <1>2, <1>3, <1>5, <1>6, <1>7, <1>8, <1>9, Types, IdleRecord, IdleSound, WriteStep
<1> QED BY <1>3, <1>5, <1>10 DEF ConfirmsOwn

LEMMA VerifyStep ==
  ASSUME IInv, NEW h \in Handlers, Verify(h)
  PROVE  IInv' /\ CodesKept /\ ConfirmsOwn
<1>1. PICK r \in RunRecords : r = run[h] BY Types
<1>2. /\ r.at = "verify" /\ r.read.registerOtp # 0 /\ account.registerOtp = r.read.registerOtp
      /\ account.status = "unverified" /\ UNCHANGED <<mail, session, socket>>
      /\ account' = [account EXCEPT !.status = "verified", !.registerOtp = 0]
  BY <1>1 DEF Verify, IInv, RunSound
<1>3. /\ account' \in AccountRecords /\ account'.status = "verified"
      /\ account'.registerOtp = 0 /\ account'.resetOtp = account.resetOtp
      /\ account'.password = account.password /\ account'.version = account.version
      /\ account.password \in AnyPassword
  <2>1. 0 \in Codes BY AccountsAssumption DEF Codes
  <2> QED BY <1>2, <2>1, Types DEF AccountRecords
<1>4. PICK a \in AccountRecords : a = account' BY <1>3
<1>5. AccountKeeps BY <1>2, <1>3 DEF AccountKeeps
<1>6. SessionsKeep /\ \A s \in Sessions : SessionSound(s)' BY <1>2, <1>3, <1>5, SessionsUntouched
<1>7. ResetCodeSound' /\ RegisterCodeSound'
  BY <1>2, <1>3, Types DEF IInv, ResetCodeSound, RegisterCodeSound
<1>8. PICK q \in RunRecords : run' = [run EXCEPT ![h] = q] /\ RunSound(q)'
  <2>1. CASE End(h) BY <2>1, IdleRecord, IdleSound DEF End
  <2>2. CASE ~End(h)
    <3>1. run' = [run EXCEPT ![h].at = "issue", ![h].read = Seen(a),
                             ![h].password = account.password]
      BY <1>4, <2>2 DEF Verify
    <3>2. PICK q : q = [r EXCEPT !.at = "issue", !.read = Seen(a), !.password = account.password]
      OBVIOUS
    <3>3. Seen(a) \in SeenRecords /\ Seen(a).version = a.version BY SeenRecord
    <3>4. /\ q \in RunRecords /\ q.at = "issue" /\ q.read = Seen(a)
          /\ q.password = account.password
      BY <1>3, <3>2, <3>3 DEF RunRecords, Steps
    <3>5. run' = [run EXCEPT ![h] = q] BY <1>1, <3>1, <3>2, Types
    <3>6. account'.version \in 0 .. MaxVersion BY <1>3 DEF AccountRecords
    <3>7. RunSound(q)'
      BY <1>3, <1>4, <3>3, <3>4, <3>6, AccountsAssumption DEF RunSound, Current
    <3> QED BY <3>4, <3>5, <3>7
  <2> QED BY <2>1, <2>2
<1>9. IInv'
  BY <1>1, <1>2, <1>3, <1>5, <1>6, <1>7, <1>8, Types, WriteStep
<1>10. account.byReset \/ mail[account.registerOtp].password = account.password
  BY <1>2 DEF IInv, RegisterCodeSound
<1> QED BY <1>2, <1>3, <1>9, <1>10 DEF CodesKept, ConfirmsOwn

-----------------------------------------------------------------------------
(* Sessions.                                                               *)

LEMMA CreateByOAuthStep ==
  ASSUME IInv, NEW h \in Handlers, NEW google \in BOOLEAN, CreateByOAuth(h, google)
  PROVE  IInv' /\ CodesKept /\ ConfirmsOwn
<1>1. run[h].at = "idle" /\ account.status = "none" /\ UNCHANGED <<mail, session, socket>>
  BY DEF CreateByOAuth
<1>2. PICK n \in AccountRecords : n = NoAccount BY NoAccountRecord
<1>3. account' = [n EXCEPT !.status = "verified", !.password = "random", !.google = google]
  BY <1>2 DEF CreateByOAuth
<1>4. n.registerOtp = 0 /\ n.resetOtp = 0 BY <1>2 DEF NoAccount
<1>5. /\ account' \in AccountRecords /\ account'.status = "verified"
      /\ account'.registerOtp = 0 /\ account'.resetOtp = 0
  BY <1>3, <1>4 DEF AccountRecords, AnyPassword
<1>6. PICK a \in AccountRecords : a = account' BY <1>5
<1>7. AccountKeeps BY <1>1, <1>5 DEF AccountKeeps
<1>8. SessionsKeep /\ \A s \in Sessions : SessionSound(s)' BY <1>1, <1>5, <1>7, SessionsUntouched
<1>9. ResetCodeSound' /\ RegisterCodeSound'
  BY <1>1, <1>5, Types DEF ResetCodeSound, RegisterCodeSound
<1>10. PICK i \in RunRecords : i = Idle BY IdleRecord
<1>11. PICK q : q = [i EXCEPT !.at = "issue", !.read = Seen(a), !.password = "oauth"] OBVIOUS
<1>12. Seen(a) \in SeenRecords /\ Seen(a).version = a.version BY SeenRecord
<1>13. q \in RunRecords /\ q.at = "issue" /\ q.read = Seen(a) /\ q.password = "oauth"
  BY <1>11, <1>12 DEF RunRecords, Steps
<1>14. run' = [run EXCEPT ![h] = q] BY <1>6, <1>10, <1>11 DEF CreateByOAuth
<1>15. account'.version \in 0 .. MaxVersion BY <1>5 DEF AccountRecords
<1>16. RunSound(q)' BY <1>5, <1>6, <1>12, <1>13, <1>15, AccountsAssumption DEF RunSound, Current
<1>17. IInv' BY <1>1, <1>5, <1>7, <1>8, <1>9, <1>13, <1>14, <1>16, Types, WriteStep
<1> QED BY <1>1, <1>17 DEF CodesKept, ConfirmsOwn

LEMMA LinkStep ==
  ASSUME IInv, NEW h \in Handlers, NEW google \in BOOLEAN, Link(h, google)
  PROVE  IInv' /\ CodesKept /\ ConfirmsOwn
<1>1. PICK r \in RunRecords : r = run[h] BY Types
<1>2. /\ r.at = "link" /\ r.password = "oauth" /\ account.status # "none"
      /\ UNCHANGED <<mail, session, socket>>
      /\ account.status = "unverified" => account.version < MaxVersion
  BY <1>1 DEF Link, IInv, RunSound
<1>3. PICK g \in BOOLEAN : g = (account.google \/ google) OBVIOUS
<1>4. account' = IF account.status = "unverified"
                 THEN [account EXCEPT !.google = g, !.status = "verified", !.password = None,
                                      !.registerOtp = 0, !.resetOtp = 0,
                                      !.version = account.version + 1]
                 ELSE [account EXCEPT !.google = g]
  BY <1>2, <1>3, Types DEF Link, AccountRecords
<1>5. account.version \in 0 .. MaxVersion /\ 0 \in Codes /\ None \in AnyPassword
  BY Types, AccountsAssumption DEF AccountRecords, Codes, AnyPassword
<1>6. account.status = "unverified" => account.version + 1 \in 0 .. MaxVersion
  BY <1>2, <1>5, AccountsAssumption
<1>7. /\ account' \in AccountRecords /\ account'.status = "verified"
      /\ account.status = "unverified" =>
            /\ account'.password = None /\ account'.registerOtp = 0 /\ account'.resetOtp = 0
      /\ account.status = "verified" =>
            /\ account'.password = account.password /\ account'.version = account.version
            /\ account'.registerOtp = account.registerOtp /\ account'.resetOtp = account.resetOtp
            /\ account'.locked = account.locked
  BY <1>2, <1>4, <1>5, <1>6, Types DEF AccountRecords
<1>8. PICK a \in AccountRecords : a = account' BY <1>7
<1>9. AccountKeeps BY <1>5, <1>7 DEF AccountKeeps
<1>10. SessionsKeep /\ \A s \in Sessions : SessionSound(s)' BY <1>2, <1>7, <1>9, SessionsUntouched
<1>11. ResetCodeSound' /\ RegisterCodeSound'
  <2>1. account.status \in {"unverified", "verified"} BY <1>2, Types DEF AccountRecords
  <2> QED BY <1>2, <1>7, <2>1, Types DEF IInv, ResetCodeSound, RegisterCodeSound
<1>12. PICK q : q = [r EXCEPT !.at = "issue", !.read = Seen(a)] OBVIOUS
<1>13. Seen(a) \in SeenRecords /\ Seen(a).version = a.version BY SeenRecord
<1>14. q \in RunRecords /\ q.at = "issue" /\ q.read = Seen(a) /\ q.password = r.password
  BY <1>12, <1>13 DEF RunRecords, Steps
<1>15. run' = [run EXCEPT ![h] = q]
  <2>1. run' = [run EXCEPT ![h].at = "issue", ![h].read = Seen(a)] BY <1>8 DEF Link
  <2> QED BY <1>1, <1>12, <2>1, Types
<1>16. account'.version \in 0 .. MaxVersion BY <1>7 DEF AccountRecords
<1>17. RunSound(q)'
  BY <1>2, <1>7, <1>8, <1>13, <1>14, <1>16, AccountsAssumption DEF RunSound, Current
<1>18. IInv' BY <1>1, <1>2, <1>7, <1>9, <1>10, <1>11, <1>14, <1>15, <1>17, Types, WriteStep
<1> QED BY <1>2, <1>7, <1>18 DEF CodesKept, ConfirmsOwn

LEMMA IssueTokensStep ==
  ASSUME IInv, NEW h \in Handlers, NEW s \in Sessions, IssueTokens(h, s)
  PROVE  IInv' /\ CodesKept /\ ConfirmsOwn
<1>1. PICK r \in RunRecords : r = run[h] BY Types
<1>2. /\ r.at = "issue" /\ session[s].status = "none" /\ UNCHANGED <<account, mail, socket>>
      /\ account.status = "verified" /\ Current(r.read.version, r.password)
      /\ run' = [run EXCEPT ![h] = Idle]
  BY <1>1 DEF IssueTokens, End, IInv, RunSound
<1>3. PICK n : n = [status |-> "live", version |-> r.read.version, opened |-> r.password] OBVIOUS
<1>4. n \in SessionRecords /\ n.version = r.read.version /\ n.opened = r.password
  BY <1>3 DEF RunRecords, SeenRecords, SessionRecords
<1>5. session' = [session EXCEPT ![s] = n] BY <1>1, <1>3 DEF IssueTokens
<1>6. /\ session' \in [Sessions -> SessionRecords] /\ session'[s] = n
      /\ \A t \in Sessions : t # s => session'[t] = session[t]
  BY <1>4, <1>5, Types
<1>7. AccountKeeps BY <1>2, Types, AccountsAssumption DEF AccountKeeps, AccountRecords
<1>8. SessionsKeep BY <1>2, <1>6 DEF SessionsKeep
<1>9. SessionSound(s)' BY <1>2, <1>4, <1>6 DEF SessionSound, Current
<1>10. \A t \in Sessions : SessionSound(t)' BY <1>2, <1>6, <1>7, <1>9, SessionKept, Types
<1>11. ResetCodeSound' /\ RegisterCodeSound'
  BY <1>2 DEF IInv, ResetCodeSound, RegisterCodeSound
<1>12. IInv'
  BY <1>1, <1>2, <1>6, <1>7, <1>8, <1>10, <1>11, Types, IdleRecord, IdleSound, WriteStep
<1> QED BY <1>2, <1>12 DEF CodesKept, ConfirmsOwn

LEMMA RefreshStep ==
  ASSUME IInv, NEW h \in Handlers, Refresh(h) PROVE IInv' /\ CodesKept /\ ConfirmsOwn
<1>1. PICK r \in RunRecords : r = run[h] BY Types
<1>2. PICK s \in Sessions : s = r.session BY <1>1 DEF Refresh, IInv, RunSound
<1>3. /\ r.at = "refresh" /\ session[s].status # "none" /\ UNCHANGED <<account, mail, socket>>
      /\ account.status = "verified" /\ Current(r.read.version, session[s].opened)
      /\ run' = [run EXCEPT ![h] = Idle]
  BY <1>1, <1>2 DEF Refresh, End, IInv, RunSound
<1>4. PICK o : o = session[s] OBVIOUS
<1>5. PICK n : n = [o EXCEPT !.status = "live", !.version = r.read.version] OBVIOUS
<1>6. /\ n \in SessionRecords /\ n.status = "live" /\ n.version = r.read.version
      /\ n.opened = o.opened
  <2>1. o \in SessionRecords BY <1>4, Types
  <2>2. r.read.version \in 0 .. MaxVersion BY DEF RunRecords, SeenRecords
  <2> QED BY <1>5, <2>1, <2>2 DEF SessionRecords
<1>7. session' = [session EXCEPT ![s] = n] BY <1>1, <1>2, <1>4, <1>5, Types DEF Refresh
<1>8. /\ session' \in [Sessions -> SessionRecords] /\ session'[s] = n
      /\ \A t \in Sessions : t # s => session'[t] = session[t]
  BY <1>6, <1>7, Types
<1>9. AccountKeeps BY <1>3, Types, AccountsAssumption DEF AccountKeeps, AccountRecords
<1>10. SessionsKeep BY <1>3, <1>4, <1>6, <1>8 DEF SessionsKeep
<1>11. SessionSound(s)' BY <1>3, <1>4, <1>6, <1>8 DEF SessionSound, Current
<1>12. \A t \in Sessions : SessionSound(t)' BY <1>3, <1>8, <1>9, <1>11, SessionKept, Types
<1>13. ResetCodeSound' /\ RegisterCodeSound'
  BY <1>3 DEF IInv, ResetCodeSound, RegisterCodeSound
<1>14. IInv'
  BY <1>1, <1>3, <1>8, <1>9, <1>10, <1>12, <1>13, Types, IdleRecord, IdleSound, WriteStep
<1> QED BY <1>3, <1>14 DEF CodesKept, ConfirmsOwn

(* A session that is revoked stays what it was opened with.                *)
LEMMA RevokedRecord ==
  ASSUME NEW o \in SessionRecords
  PROVE  LET n == [o EXCEPT !.status = "revoked"]
         IN  /\ n \in SessionRecords /\ n.status = "revoked"
             /\ n.opened = o.opened /\ n.version = o.version
BY DEF SessionRecords

LEMMA RevokeKeeps ==
  ASSUME IInv, account' \in AccountRecords, AccountKeeps,
         session' = [s \in Sessions |-> session'[s]],
         \A s \in Sessions :
            \/ session'[s] = session[s]
            \/ session[s].status = "live" /\ session'[s] = [session[s] EXCEPT !.status = "revoked"]
  PROVE  /\ session' \in [Sessions -> SessionRecords] /\ SessionsKeep
         /\ \A s \in Sessions : SessionSound(s)'
<1>1. ASSUME NEW s \in Sessions
      PROVE  /\ session'[s] \in SessionRecords
             /\ session'[s].status # "none" <=> session[s].status # "none"
             /\ session'[s].opened = session[s].opened /\ session'[s].version = session[s].version
  <2>1. PICK o \in SessionRecords : o = session[s] BY Types
  <2>2. session'[s] = o \/ (o.status = "live" /\ session'[s] = [o EXCEPT !.status = "revoked"])
    BY <2>1
  <2> QED BY <2>1, <2>2, RevokedRecord
<1>2. SessionsKeep BY <1>1 DEF SessionsKeep
<1> QED BY <1>1, <1>2, SessionKept

(* A step of nobody's request on the sessions.                             *)
LEMMA SessionStep ==
  ASSUME IInv, NEW s \in Sessions, RefuseLocked(s) \/ Logout(s)
  PROVE  IInv' /\ CodesKept /\ ConfirmsOwn
<1>1. /\ session[s].status = "live" /\ session' = [session EXCEPT ![s].status = "revoked"]
      /\ UNCHANGED <<account, mail, socket, run>>
  BY DEF RefuseLocked, Logout
<1>2. AccountKeeps BY <1>1, Types, AccountsAssumption DEF AccountKeeps, AccountRecords
<1>3. \A t \in Sessions :
         \/ session'[t] = session[t]
         \/ session[t].status = "live" /\ session'[t] = [session[t] EXCEPT !.status = "revoked"]
  BY <1>1, Types
<1>4. /\ session' \in [Sessions -> SessionRecords] /\ SessionsKeep
      /\ \A t \in Sessions : SessionSound(t)'
  <2>1. session' = [t \in Sessions |-> session'[t]] BY <1>1, Types
  <2> QED BY <1>1, <1>2, <1>3, <2>1, Types, RevokeKeeps
<1>5. ASSUME NEW h \in Handlers PROVE RunSound(run[h])'
  <2>1. PICK r \in RunRecords : r = run[h] /\ r = run'[h] /\ RunSound(r)
    BY <1>1, Types DEF IInv
  <2>2. RunSound(r)' BY <1>1, <1>2, <1>4, <2>1, RunKept, Types
  <2> QED BY <2>1, <2>2 DEF RunSound
<1>6. TypeOK' BY <1>1, <1>4, Types DEF TypeOK
<1>7. ResetCodeSound' /\ RegisterCodeSound' /\ SocketsSound'
  BY <1>1 DEF IInv, ResetCodeSound, RegisterCodeSound, SocketsSound
<1> QED BY <1>1, <1>4, <1>5, <1>6, <1>7 DEF IInv, CodesKept, ConfirmsOwn

-----------------------------------------------------------------------------
(* Passwords.                                                              *)

LEMMA ForgotStep ==
  ASSUME IInv, NEW h \in Handlers, Forgot(h) PROVE IInv' /\ CodesKept /\ ConfirmsOwn
<1>1. /\ run[h].at = "forgot" /\ Send("reset", None) /\ UNCHANGED <<session, socket>>
      /\ account' = [account EXCEPT !.resetOtp = NextCode]
      /\ run' = [run EXCEPT ![h] = Idle]
  BY DEF Forgot, End
<1>2. /\ mail' \in Seq(MailRecords) /\ Len(mail') = Len(mail) + 1 /\ Len(mail') <= MaxMails
      /\ \A c \in 1 .. Len(mail) : mail'[c] = mail[c]
      /\ mail'[Len(mail) + 1].uses = 0
      /\ NextCode \in Codes /\ NextCode = Len(mail) + 1 /\ CodesKept
  BY <1>1, SendKeeps DEF AnyPassword
<1>3. /\ account' \in AccountRecords /\ account'.resetOtp = Len(mail) + 1
      /\ account'.status = account.status /\ account'.registerOtp = account.registerOtp
      /\ account'.password = account.password /\ account'.version = account.version
      /\ account'.locked = account.locked /\ account'.byReset = account.byReset
      /\ account.version \in Int /\ account.registerOtp \in Nat
  <2>1. account.version \in Int /\ account.registerOtp \in Nat
    BY Types, AccountsAssumption DEF AccountRecords, Codes
  <2> QED BY <1>1, <1>2, <2>1, Types DEF AccountRecords
<1>4. AccountKeeps BY <1>3 DEF AccountKeeps
<1>5. SessionsKeep /\ \A s \in Sessions : SessionSound(s)' BY <1>1, <1>3, <1>4, SessionsUntouched
<1>6. ResetCodeSound' BY <1>2, <1>3, Types DEF ResetCodeSound
<1>7. RegisterCodeSound'
  <2>1. RegisterCodeSound BY DEF IInv
  <2>2. account.registerOtp # 0 => mail'[account.registerOtp] = mail[account.registerOtp]
    BY <1>2, <1>3, <2>1, Types DEF RegisterCodeSound
  <2> QED BY <1>2, <1>3, <2>1, <2>2, Types DEF RegisterCodeSound
<1>8. IInv' BY <1>1, <1>2, <1>3, <1>4, <1>5, <1>6, <1>7, Types, IdleRecord, IdleSound, WriteStep
<1> QED BY <1>2, <1>3, <1>8 DEF ConfirmsOwn

(* The next password, and the sessions it puts out of date.                *)
LEMMA PasswordRecord ==
  ASSUME NEW a \in AccountRecords, NEW password \in AnyPassword, a.version < MaxVersion
  PROVE  LET b == [a EXCEPT !.password = password, !.version = a.version + 1]
         IN  /\ b \in AccountRecords /\ b.version = a.version + 1 /\ b.password = password
             /\ b.status = a.status /\ b.registerOtp = a.registerOtp /\ b.resetOtp = a.resetOtp
             /\ b.byReset = a.byReset
<1>1. a.version + 1 \in 0 .. MaxVersion BY AccountsAssumption DEF AccountRecords
<1> QED BY <1>1 DEF AccountRecords

LEMMA DisconnectSound ==
  ASSUME NEW at \in {"disconnect", "hangup", "revoke"}
  PROVE  /\ [Idle EXCEPT !.at = at] \in RunRecords /\ [Idle EXCEPT !.at = at].at = at
         /\ RunSound([Idle EXCEPT !.at = at])'
<1>1. PICK r \in RunRecords : r = [Idle EXCEPT !.at = at] /\ r.at = at
  <2> DEFINE q == [Idle EXCEPT !.at = at]
  <2>1. q \in RunRecords /\ q.at = at BY GoRecord DEF Steps
  <2> HIDE DEF q
  <2>2. \E r \in RunRecords : r = q /\ r.at = at BY <2>1
  <2> QED BY <2>2 DEF q
<1>2. RunSound(r)' BY <1>1 DEF RunSound
<1>3. PICK q : q = [Idle EXCEPT !.at = at] OBVIOUS
<1> QED BY <1>1, <1>2, <1>3

LEMMA ResetStep ==
  ASSUME IInv, NEW h \in Handlers, Reset(h) PROVE IInv' /\ CodesKept /\ ConfirmsOwn
<1>1. PICK r \in RunRecords : r = run[h] BY Types
<1>2. /\ r.at = "reset" /\ account.version < MaxVersion /\ account.resetOtp = r.read.resetOtp
      /\ r.password \in Passwords /\ r.code # 0 /\ r.read.resetOtp = r.code
      /\ mail' = [mail EXCEPT ![r.code].uses = @ + 1] /\ UNCHANGED <<session, socket>>
      /\ run' = [run EXCEPT ![h] = [Idle EXCEPT !.at = "disconnect"]]
  BY <1>1 DEF Reset, Go, IInv, RunSound
<1>3. PICK b : b = [account EXCEPT !.password = r.password, !.version = account.version + 1]
  OBVIOUS
<1>4. /\ b \in AccountRecords /\ b.version = account.version + 1 /\ b.password = r.password
      /\ b.status = account.status /\ b.registerOtp = account.registerOtp
  BY <1>2, <1>3, Types, PasswordRecord DEF AnyPassword
<1>5. account' = [b EXCEPT !.resetOtp = 0, !.byReset = TRUE] BY <1>1, <1>3 DEF Reset, WithPassword
<1>6. /\ account' \in AccountRecords /\ account'.version = account.version + 1
      /\ account'.status = account.status /\ account'.registerOtp = account.registerOtp
      /\ account'.resetOtp = 0 /\ account'.byReset = TRUE
  <2>1. 0 \in Codes BY AccountsAssumption DEF Codes
  <2> QED BY <1>4, <1>5, <2>1 DEF AccountRecords
<1>7. r.code \in 1 .. Len(mail) /\ mail[r.code].uses = 0 /\ mail[r.code] \in MailRecords
  <2>1. r.code \in Nat BY AccountsAssumption DEF RunRecords, Codes
  <2> QED BY <1>2, <2>1, Types DEF IInv, ResetCodeSound
<1>8. PICK m : m = [mail[r.code] EXCEPT !.uses = @ + 1] OBVIOUS
<1>9. m \in MailRecords
  <2>1. mail[r.code].uses + 1 \in 0 .. MaxMails BY <1>7, Types, AccountsAssumption
  <2> QED BY <1>7, <1>8, <2>1 DEF MailRecords
<1>10. mail' = [mail EXCEPT ![r.code] = m] BY <1>2, <1>8
<1>11. /\ mail' \in Seq(MailRecords) /\ Len(mail') = Len(mail)
       /\ \A c \in 1 .. Len(mail) : c # r.code => mail'[c] = mail[c]
  BY <1>7, <1>9, <1>10, Types
<1>12. CodesKept BY <1>2, <1>7, <1>11 DEF CodesKept, IInv, ResetCodeSound
<1>13. AccountKeeps
  <2>1. account.version \in Nat BY Types, AccountsAssumption DEF AccountRecords
  <2> QED BY <1>6, <2>1 DEF AccountKeeps
<1>14. SessionsKeep /\ \A s \in Sessions : SessionSound(s)' BY <1>2, <1>6, <1>13, SessionsUntouched
<1>15. ResetCodeSound' /\ RegisterCodeSound'
  BY <1>6, <1>11, Types DEF IInv, ResetCodeSound, RegisterCodeSound
<1>16. IInv'
  <2>1. PICK q \in RunRecords : q = [Idle EXCEPT !.at = "disconnect"] /\ q.at = "disconnect"
                                /\ RunSound(q)'
    <3>1. PICK q : q = [Idle EXCEPT !.at = "disconnect"] OBVIOUS
    <3> QED BY <3>1, DisconnectSound
  <2>2. run' = [run EXCEPT ![h] = q] BY <1>2, <2>1
  <2> QED BY <1>1, <1>2, <1>6, <1>11, <1>13, <1>14, <1>15, <2>1, <2>2, Types, WriteStep
<1> QED BY <1>6, <1>12, <1>16 DEF ConfirmsOwn

LEMMA ChangeStep ==
  ASSUME IInv, NEW h \in Handlers, Change(h) PROVE IInv' /\ CodesKept /\ ConfirmsOwn
<1>1. PICK r \in RunRecords : r = run[h] BY Types
<1>2. /\ r.at = "change" /\ account.version < MaxVersion /\ account.status = "verified"
      /\ r.password \in Passwords /\ UNCHANGED <<mail, session, socket>>
      /\ run' = [run EXCEPT ![h] = [Idle EXCEPT !.at = "disconnect"]]
      /\ account' = [account EXCEPT !.password = r.password, !.version = account.version + 1]
  BY <1>1 DEF Change, Go, WithPassword, IInv, RunSound
<1>3. /\ account' \in AccountRecords /\ account'.version = account.version + 1
      /\ account'.status = account.status /\ account'.resetOtp = account.resetOtp
      /\ account'.registerOtp = account.registerOtp
  BY <1>2, Types, PasswordRecord DEF AnyPassword
<1>4. AccountKeeps
  <2>1. account.version \in Nat BY Types, AccountsAssumption DEF AccountRecords
  <2> QED BY <1>3, <2>1 DEF AccountKeeps
<1>5. SessionsKeep /\ \A s \in Sessions : SessionSound(s)' BY <1>2, <1>3, <1>4, SessionsUntouched
<1>6. ResetCodeSound' /\ RegisterCodeSound'
  BY <1>2, <1>3 DEF IInv, ResetCodeSound, RegisterCodeSound
<1>7. PICK q \in RunRecords : q = [Idle EXCEPT !.at = "disconnect"] /\ q.at = "disconnect"
                              /\ RunSound(q)'
  <2>1. PICK q : q = [Idle EXCEPT !.at = "disconnect"] OBVIOUS
  <2> QED BY <2>1, DisconnectSound
<1>8. run' = [run EXCEPT ![h] = q] BY <1>2, <1>7
<1>9. IInv' BY <1>1, <1>2, <1>3, <1>4, <1>5, <1>6, <1>7, <1>8, Types, WriteStep
<1> QED BY <1>2, <1>9 DEF CodesKept, ConfirmsOwn

-----------------------------------------------------------------------------
(* Locks, revocation and sockets.                                          *)

LEMMA LockRecord ==
  ASSUME IInv, NEW b \in BOOLEAN, account' = [account EXCEPT !.locked = b]
  PROVE  /\ account' \in AccountRecords /\ account'.locked = b
         /\ account'.status = account.status /\ account'.version = account.version
         /\ account'.password = account.password /\ account'.byReset = account.byReset
         /\ account'.registerOtp = account.registerOtp /\ account'.resetOtp = account.resetOtp
         /\ AccountKeeps
<1>1. account \in AccountRecords /\ account.version \in Nat
  BY Types, AccountsAssumption DEF AccountRecords
<1>2. /\ account' \in AccountRecords /\ account'.locked = b
      /\ account'.status = account.status /\ account'.version = account.version
      /\ account'.password = account.password /\ account'.byReset = account.byReset
      /\ account'.registerOtp = account.registerOtp /\ account'.resetOtp = account.resetOtp
  BY <1>1 DEF AccountRecords
<1> QED BY <1>1, <1>2 DEF AccountKeeps

(* No code is used and nobody is confirmed.                                *)
LEMMA CodesUntouched ==
  ASSUME IInv, UNCHANGED mail, account'.status = account.status,
         account'.registerOtp = account.registerOtp, account'.resetOtp = account.resetOtp,
         account'.password = account.password, account'.byReset = account.byReset
  PROVE  ResetCodeSound' /\ RegisterCodeSound' /\ CodesKept /\ ConfirmsOwn
BY DEF IInv, ResetCodeSound, RegisterCodeSound, CodesKept, ConfirmsOwn

LEMMA RevokedSessions ==
  ASSUME IInv, account' \in AccountRecords, AccountKeeps, session' = Revoked
  PROVE  /\ session' \in [Sessions -> SessionRecords] /\ SessionsKeep
         /\ \A s \in Sessions : SessionSound(s)'
BY RevokeKeeps, Types DEF Revoked

LEMMA LockStep ==
  ASSUME IInv, NEW h \in Handlers, LockAccount(h) \/ Suspend(h)
  PROVE  IInv' /\ CodesKept /\ ConfirmsOwn
<1>1. PICK at \in {"disconnect", "hangup"} :
          /\ run[h].at = "idle" /\ account' = [account EXCEPT !.locked = TRUE]
          /\ session' = session \/ session' = Revoked
          /\ run' = [run EXCEPT ![h] = [Idle EXCEPT !.at = at]] /\ UNCHANGED <<mail, socket>>
  BY DEF LockAccount, Suspend, Go
<1>2. /\ account' \in AccountRecords /\ AccountKeeps
      /\ ResetCodeSound' /\ RegisterCodeSound' /\ CodesKept /\ ConfirmsOwn
  BY <1>1, LockRecord, CodesUntouched
<1>3. /\ session' \in [Sessions -> SessionRecords] /\ SessionsKeep
      /\ \A s \in Sessions : SessionSound(s)'
  BY <1>1, <1>2, RevokedSessions, SessionsUntouched, Types
<1>4. PICK q \in RunRecords : q = [Idle EXCEPT !.at = at] /\ q.at = at /\ RunSound(q)'
  <2>1. PICK q : q = [Idle EXCEPT !.at = at] OBVIOUS
  <2> QED BY <2>1, DisconnectSound
<1>5. run' = [run EXCEPT ![h] = q] BY <1>1, <1>4
<1>6. IInv' BY <1>1, <1>2, <1>3, <1>4, <1>5, Types, WriteStep
<1> QED BY <1>2, <1>6

LEMMA RevokeSessionsStep ==
  ASSUME IInv, NEW h \in Handlers, RevokeSessions(h)
  PROVE  IInv' /\ CodesKept /\ ConfirmsOwn
<1>1. /\ run[h].at = "revoke" /\ session' = Revoked /\ run' = [run EXCEPT ![h] = Idle]
      /\ UNCHANGED <<account, mail, socket>>
  BY DEF RevokeSessions, End
<1>2. account.version \in Nat BY Types, AccountsAssumption DEF AccountRecords
<1>3. AccountKeeps BY <1>1, <1>2 DEF AccountKeeps
<1>4. /\ session' \in [Sessions -> SessionRecords] /\ SessionsKeep
      /\ \A s \in Sessions : SessionSound(s)'
  BY <1>1, <1>3, RevokedSessions, Types
<1>5. ResetCodeSound' /\ RegisterCodeSound' /\ CodesKept /\ ConfirmsOwn
  BY <1>1, CodesUntouched
<1>6. IInv' BY <1>1, <1>3, <1>4, <1>5, Types, IdleRecord, IdleSound, WriteStep
<1> QED BY <1>5, <1>6

(* A step on the sockets, which leaves account, codes and sessions alone.  *)
LEMMA SocketWrite ==
  ASSUME IInv, UNCHANGED <<account, mail, session>>,
         socket' \in [Sockets -> SocketRecords], run' \in [Handlers -> RunRecords],
         SocketsSound',
         \A h \in Handlers : run'[h] = run[h] \/ RunSound(run[h])'
  PROVE  IInv' /\ CodesKept /\ ConfirmsOwn
<1>1. account.version \in Nat BY Types, AccountsAssumption DEF AccountRecords
<1>2. AccountKeeps BY <1>1 DEF AccountKeeps
<1>3. SessionsKeep /\ \A s \in Sessions : SessionSound(s)' BY <1>2, SessionsUntouched, Types
<1>4. ResetCodeSound' /\ RegisterCodeSound' /\ CodesKept /\ ConfirmsOwn BY CodesUntouched
<1>5. TypeOK' BY Types DEF TypeOK
<1>6. ASSUME NEW h \in Handlers PROVE RunSound(run[h])'
  <2>1. PICK r \in RunRecords : r = run'[h] OBVIOUS
  <2>2. CASE r = run[h]
    <3>1. RunSound(r) BY <2>2 DEF IInv
    <3>2. RunSound(r)' BY <1>2, <1>3, <3>1, RunKept, Types
    <3> QED BY <2>1, <3>2 DEF RunSound
  <2>3. CASE r # run[h] BY <2>1, <2>3 DEF RunSound
  <2> QED BY <2>2, <2>3
<1> QED BY <1>3, <1>4, <1>5, <1>6 DEF IInv

LEMMA DisconnectSocketsStep ==
  ASSUME IInv, NEW h \in Handlers, DisconnectSockets(h)
  PROVE  IInv' /\ CodesKept /\ ConfirmsOwn
<1>1. /\ socket' = [k \in Sockets |-> IF socket[k].at \in {"joined", "checked"} THEN NoSocket
                                      ELSE socket[k]]
      /\ UNCHANGED <<account, mail, session>>
  BY DEF DisconnectSockets
<1>2. NoSocket \in SocketRecords /\ NoSocket.at = "none"
  BY AccountsAssumption DEF NoSocket, SocketRecords
<1>3. socket' \in [Sockets -> SocketRecords] BY <1>1, <1>2, Types
<1>4. SocketsSound'
  <2>1. \A k \in Sockets : socket'[k].at # "checked" BY <1>1, <1>2
  <2>2. \A k \in Sockets : socket'[k].at # "none" => socket[k].at # "none" BY <1>1, <1>2
  <2> QED BY <1>1, <2>1, <2>2 DEF IInv, SocketsSound
<1>5. PICK q \in RunRecords : run' = [run EXCEPT ![h] = q] /\ RunSound(q)'
  <2>1. CASE Go(h, "revoke")
    <3>1. PICK q : q = [Idle EXCEPT !.at = "revoke"] OBVIOUS
    <3>2. q \in RunRecords /\ RunSound(q)' BY <3>1, DisconnectSound
    <3>3. run' = [run EXCEPT ![h] = q] BY <2>1, <3>1 DEF Go
    <3> QED BY <3>2, <3>3
  <2>2. CASE End(h) BY <2>2, IdleRecord, IdleSound DEF End
  <2> QED BY <2>1, <2>2 DEF DisconnectSockets
<1>6. run' \in [Handlers -> RunRecords] BY <1>5, Types
<1>7. \A g \in Handlers : run'[g] = run[g] \/ RunSound(run[g])'
  <2>1. TAKE g \in Handlers
  <2>2. CASE g = h
    <3>1. run'[g] = q BY <1>5, <2>2, Types
    <3> QED BY <1>5, <3>1 DEF RunSound
  <2>3. CASE g # h BY <1>5, <2>3, Types
  <2> QED BY <2>2, <2>3
<1> QED BY <1>1, <1>3, <1>4, <1>6, <1>7, SocketWrite

LEMMA SocketStep ==
  ASSUME IInv, NEW k \in Sockets, Handshake(k) \/ Join(k) \/ Recheck(k) \/ Close(k)
  PROVE  IInv' /\ CodesKept /\ ConfirmsOwn
<1>1. UNCHANGED <<account, mail, session, run>> BY DEF Handshake, Join, Recheck, Close
<1>2. PICK n \in SocketRecords :
          /\ socket' = [socket EXCEPT ![k] = n]
          /\ n.at # "none" => account.status = "verified"
          /\ n.at = "checked" => ~account.locked /\ n.version = account.version
  <2>1. SocketsSound /\ socket[k] \in SocketRecords /\ account.version \in 0 .. MaxVersion
    BY Types DEF IInv, AccountRecords
  <2>2. CASE Handshake(k)
    <3>1. PICK n : n = [at |-> "handshake", version |-> account.version] OBVIOUS
    <3>2. n \in SocketRecords /\ n.at = "handshake" BY <2>1, <3>1 DEF SocketRecords
    <3> QED BY <2>2, <3>1, <3>2 DEF Handshake
  <2>3. CASE Join(k)
    <3>1. PICK n : n = [socket[k] EXCEPT !.at = "joined"] OBVIOUS
    <3>2. n \in SocketRecords /\ n.at = "joined" BY <2>1, <3>1 DEF SocketRecords
    <3>3. account.status = "verified" BY <2>1, <2>3 DEF Join, SocketsSound
    <3>4. socket' = [socket EXCEPT ![k] = n] BY <2>3, <3>1, Types DEF Join
    <3> QED BY <3>2, <3>3, <3>4
  <2>4. NoSocket \in SocketRecords /\ NoSocket.at = "none"
    BY AccountsAssumption DEF NoSocket, SocketRecords
  <2>5. CASE socket' = [socket EXCEPT ![k] = NoSocket] BY <2>4, <2>5
  <2>6. CASE Recheck(k) /\ socket' # [socket EXCEPT ![k] = NoSocket]
    <3>1. PICK n : n = [socket[k] EXCEPT !.at = "checked"] OBVIOUS
    <3>2. n \in SocketRecords /\ n.at = "checked" /\ n.version = socket[k].version
      BY <2>1, <3>1 DEF SocketRecords
    <3>3. /\ account.status = "verified" /\ ~account.locked
          /\ socket[k].version = account.version /\ socket' = [socket EXCEPT ![k].at = "checked"]
      BY <2>1, <2>6 DEF Recheck, SocketsSound
    <3>4. socket' = [socket EXCEPT ![k] = n] BY <3>1, <3>3, Types
    <3> QED BY <3>2, <3>3, <3>4
  <2> QED BY <2>2, <2>3, <2>5, <2>6 DEF Close
<1>3. socket' \in [Sockets -> SocketRecords] BY <1>2, Types
<1>4. SocketsSound'
  <2>1. socket'[k] = n /\ \A j \in Sockets : j # k => socket'[j] = socket[j] BY <1>2, Types
  <2> QED BY <1>1, <1>2, <2>1 DEF IInv, SocketsSound
<1> QED BY <1>1, <1>3, <1>4, SocketWrite, Types

LEMMA UnlockStep == ASSUME IInv, Unlock PROVE IInv' /\ CodesKept /\ ConfirmsOwn
<1>1. account' = [account EXCEPT !.locked = FALSE] /\ UNCHANGED <<mail, session, socket, run>>
  BY DEF Unlock
<1>2. /\ account' \in AccountRecords /\ AccountKeeps /\ account'.locked = FALSE
      /\ account'.status = account.status /\ account'.version = account.version
      /\ ResetCodeSound' /\ RegisterCodeSound' /\ CodesKept /\ ConfirmsOwn
  BY <1>1, LockRecord, CodesUntouched
<1>3. SessionsKeep /\ \A s \in Sessions : SessionSound(s)' BY <1>1, <1>2, SessionsUntouched
<1>4. SocketsSound' BY <1>1, <1>2 DEF IInv, SocketsSound
<1>5. TypeOK' BY <1>1, <1>2, Types DEF TypeOK
<1>6. ASSUME NEW h \in Handlers PROVE RunSound(run[h])'
  <2>1. PICK r \in RunRecords : r = run[h] /\ r = run'[h] /\ RunSound(r)
    BY <1>1, Types DEF IInv
  <2>2. RunSound(r)' BY <1>2, <1>3, <2>1, RunKept
  <2> QED BY <2>1, <2>2 DEF RunSound
<1> QED BY <1>2, <1>3, <1>4, <1>5, <1>6 DEF IInv

LEMMA CrashStep == ASSUME IInv, Crash PROVE IInv' /\ CodesKept /\ ConfirmsOwn
<1>1. /\ run' = [h \in Handlers |-> Idle] /\ socket' = [k \in Sockets |-> NoSocket]
      /\ UNCHANGED <<account, mail, session>>
  BY DEF Crash
<1>2. NoSocket \in SocketRecords /\ NoSocket.at = "none"
  BY AccountsAssumption DEF NoSocket, SocketRecords
<1>3. socket' \in [Sockets -> SocketRecords] /\ run' \in [Handlers -> RunRecords]
  BY <1>1, <1>2, IdleRecord
<1>4. SocketsSound' BY <1>1, <1>2 DEF SocketsSound
<1>5. \A h \in Handlers : RunSound(run[h])'
  <2>1. TAKE h \in Handlers
  <2>2. run'[h] = Idle BY <1>1
  <2> QED BY <2>2, IdleSound DEF RunSound
<1> QED BY <1>1, <1>3, <1>4, <1>5, SocketWrite

-----------------------------------------------------------------------------
LEMMA InitIInv == ASSUME Init PROVE IInv
<1>1. NoAccount \in AccountRecords /\ NoAccount.status = "none" BY NoAccountRecord
<1>2. NoAccount.registerOtp = 0 /\ NoAccount.resetOtp = 0 BY DEF NoAccount
<1>3. NoSocket \in SocketRecords /\ NoSocket.at = "none"
  BY AccountsAssumption DEF NoSocket, SocketRecords
<1>4. mail \in Seq(MailRecords) /\ Len(mail) = 0 BY DEF Init
<1>5. /\ session \in [Sessions -> SessionRecords]
      /\ \A s \in Sessions : session[s].status = "none"
  BY AccountsAssumption DEF Init, SessionRecords, AnyPassword
<1>6. TypeOK BY <1>1, <1>3, <1>4, <1>5, IdleRecord, AccountsAssumption DEF Init, TypeOK
<1>7. ResetCodeSound /\ RegisterCodeSound
  BY <1>2, <1>4 DEF Init, ResetCodeSound, RegisterCodeSound
<1>8. SocketsSound BY <1>3 DEF Init, SocketsSound
<1>9. \A s \in Sessions : SessionSound(s) BY <1>5 DEF SessionSound
<1>10. \A h \in Handlers : RunSound(run[h])
  <2>1. RunSound(Idle) BY IdleRecord DEF RunSound
  <2> QED BY <2>1 DEF Init
<1> QED BY <1>6, <1>7, <1>8, <1>9, <1>10 DEF IInv

LEMMA NextIInv == ASSUME IInv, Next PROVE IInv' /\ CodesKept /\ ConfirmsOwn
<1>1. ASSUME NEW h \in Handlers, Request(h) PROVE IInv' /\ CodesKept /\ ConfirmsOwn
  <2>1. CASE Drop(h) BY <2>1, DropStep
  <2>2. CASE \/ \E p \in Passwords : StartRegister(h, p) \/ StartLogin(h, p)
             \/ StartResend(h) \/ StartOAuth(h)
             \/ \E c \in Codes \ {0} : StartVerify(h, c) \/ \E p \in Passwords : StartReset(h, c, p)
    BY <2>2, StartStep
  <2>3. CASE StartForgot(h) \/ \E current, p \in Passwords : StartChange(h, current, p)
    BY <2>3, StartBlindStep
  <2>4. CASE CreateAccount(h) \/ SendRegisterOtp(h) \/ Verify(h)
    BY <2>4, CreateAccountStep, SendRegisterOtpStep, VerifyStep
  <2>5. CASE \E google \in BOOLEAN : CreateByOAuth(h, google) \/ Link(h, google)
    BY <2>5, CreateByOAuthStep, LinkStep
  <2>6. CASE (\E s \in Sessions : IssueTokens(h, s) \/ StartRefresh(h, s)) \/ Refresh(h)
    BY <2>6, IssueTokensStep, StartRefreshStep, RefreshStep
  <2>7. CASE Forgot(h) \/ Reset(h) \/ Change(h) BY <2>7, ForgotStep, ResetStep, ChangeStep
  <2>8. CASE LockAccount(h) \/ Suspend(h) \/ DisconnectSockets(h) \/ RevokeSessions(h)
    BY <2>8, LockStep, DisconnectSocketsStep, RevokeSessionsStep
  <2> QED BY <1>1, <2>1, <2>2, <2>3, <2>4, <2>5, <2>6, <2>7, <2>8 DEF Request
<1>2. CASE \E s \in Sessions : RefuseLocked(s) \/ Logout(s) BY <1>2, SessionStep
<1>3. CASE \E k \in Sockets : Handshake(k) \/ Join(k) \/ Recheck(k) \/ Close(k)
  BY <1>3, SocketStep
<1>4. CASE Unlock \/ Crash BY <1>4, UnlockStep, CrashStep
<1> QED BY <1>1, <1>2, <1>3, <1>4 DEF Next

LEMMA StutterIInv == ASSUME IInv, UNCHANGED vars PROVE IInv'
BY DEF vars, IInv, TypeOK, ResetCodeSound, RegisterCodeSound, SocketsSound, SessionSound,
       RunSound, Current

LEMMA Invariance == Spec => []IInv
<1>1. Init => IInv BY InitIInv
<1>2. IInv /\ [Next]_vars => IInv' BY NextIInv, StutterIInv
<1> QED BY <1>1, <1>2, PTL DEF Spec

(* The account, its codes, sessions and sockets and the requests have their *)
(* types: no code is counted above the mails that were sent.               *)
THEOREM AccountsTypeCorrect == Spec => []TypeOK
<1>1. IInv => TypeOK BY DEF IInv
<1> QED BY <1>1, Invariance, PTL

(* Who is still let in belongs to the account as it is now                 *)
(* (auth.service.ts:805, utils/token.ts:6, initSocket.ts:113).             *)
THEOREM OnlyCurrentStayCorrect == Spec => []OnlyCurrentStay
<1>1. IInv => OnlyCurrentStay
  BY Types DEF IInv, SessionSound, SocketsSound, OnlyCurrentStay, Current
<1> QED BY <1>1, Invariance, PTL

(* A code resets the password once (auth.service.ts:663).                  *)
THEOREM CodesUsedOnceCorrect == Spec => CodesUsedOnce
<1>1. IInv /\ [Next]_vars => [CodesKept]_vars BY NextIInv
<1>2. [CodesKept]_vars <=> [\A c \in 1 .. Len(mail) :
          mail'[c].uses # mail[c].uses =>
              /\ mail[c].uses = 0
              /\ \A d \in 1 .. Len(mail) : d > c => mail[d].purpose # "reset"]_vars
  BY DEF CodesKept
<1> QED BY <1>1, <1>2, Invariance, PTL DEF Spec, CodesUsedOnce

(* Who confirms a registration confirms his own password                   *)
(* (auth.service.ts:219).                                                  *)
THEOREM ConfirmsOwnCorrect == Spec => ConfirmsOwnRegistration
<1>1. IInv /\ [Next]_vars => [ConfirmsOwn]_vars BY NextIInv
<1>2. [ConfirmsOwn]_vars <=>
        [account.status = "unverified" /\ account'.status = "verified" /\ account'.password # None
           => account.byReset \/ mail[account.registerOtp].password = account'.password]_vars
  BY DEF ConfirmsOwn
<1> QED BY <1>1, <1>2, Invariance, PTL DEF Spec, ConfirmsOwnRegistration

-----------------------------------------------------------------------------
(* The inductive invariant of Moderation: LockKeepsDecisions, that a       *)
(* temporary lock is not the administrator's, what a violation makes of    *)
(* its case, and what a request about a ticket still knows of it.          *)

(* A temporary lock is a lock, and not one of the administrator.           *)
TempLockIsLock == user.tempLock # NoCase => user.status = "locked" /\ ~user.byHand

(* A case that led to a violation says so.                                 *)
ChargedDecided == \A c \in Cases : HasViolation(c) => case[c] = Verdict(c)

(* The version that was read is the present one as long as nobody saved.   *)
ReadIsSo(r) ==
    r # NoReview /\ r.fresh =>
        /\ r.case \in Tickets /\ r.status = case[r.case] /\ r.status # "none"
        /\ r.charged <=> HasViolation(r.case)

CaseInv ==
    /\ CaseTypeOK /\ LockKeepsDecisions /\ TempLockIsLock /\ ChargedDecided
    /\ \A h \in Reviewers : ReadIsSo(review[h])

(* DecisionsStay of one step.                                              *)
DecisionsKept ==
    \A c \in Cases :
        /\ HasViolation(c) \/ case[c] \in {"cancelled", "closed"}
        /\ case'[c] # case[c]
        => c \in Tickets /\ ~HasViolation(c) /\ HasViolation(c)'

LEMMA NoReviewRecord ==
  NoReview \in ReviewRecords /\ NoReview.case = NoCase /\ NoReview.status = "none"
BY DEF NoReview, ReviewRecords

LEMMA InitCaseInv == ASSUME CaseInit PROVE CaseInv
<1>1. CaseTypeOK
  BY NoReviewRecord, ModerationAssumption
  DEF CaseInit, CaseTypeOK, UserRecords, ReportStatuses, TicketStatuses, ViolationRecords
<1>2. \A c \in Cases : ~HasViolation(c) /\ ~Suspends(violation[c])
  BY DEF CaseInit, HasViolation, Suspends
<1>3. LockKeepsDecisions /\ TempLockIsLock
  BY <1>2 DEF CaseInit, LockKeepsDecisions, TempLockIsLock, IsEffective
<1>4. ChargedDecided BY <1>2 DEF ChargedDecided
<1>5. \A h \in Reviewers : ReadIsSo(review[h]) BY DEF CaseInit, ReadIsSo
<1> QED BY <1>1, <1>3, <1>4, <1>5 DEF CaseInv

(* What a request that did not notice anything knows of its ticket.        *)
LEMMA ReviewOf ==
  ASSUME CaseInv, NEW h \in Reviewers
  PROVE  /\ review[h] \in ReviewRecords
         /\ review[h] # NoReview =>
              /\ review[h].case \in Tickets /\ review[h].case \in Cases /\ review[h].case # NoCase
              /\ review[h].status \in TicketStatuses /\ review[h].charged \in BOOLEAN
         /\ ReadIsSo(review[h])
BY ModerationAssumption DEF CaseInv, CaseTypeOK, ReviewRecords, Cases

-----------------------------------------------------------------------------
(* Cases.                                                                  *)

(* A report that did not lead to a violation and was not withdrawn gets    *)
(* another status.                                                         *)
LEMMA ReportChange ==
  ASSUME CaseInv, NEW c \in Reports, NEW status \in ReportStatuses,
         case' = [case EXCEPT ![c] = status], OnReport,
         HasViolation(c) => status = case[c],
         case[c] # "cancelled" \/ status = "cancelled"
  PROVE  CaseInv' /\ DecisionsKept
<1>1. c \in Cases /\ c \notin Tickets BY ModerationAssumption DEF Cases
<1>2. UNCHANGED <<user, violation, review, admin>> BY DEF OnReport
<1>3. case \in [Cases -> ReportStatuses \cup TicketStatuses] BY DEF CaseInv, CaseTypeOK
<1>4. case'[c] = status /\ \A d \in Cases : d # c => case'[d] = case[d] BY <1>1, <1>3
<1>5. CaseTypeOK' BY <1>1, <1>2, <1>3, <1>4 DEF CaseInv, CaseTypeOK
<1>6. LockKeepsDecisions' /\ TempLockIsLock'
  BY <1>2 DEF CaseInv, LockKeepsDecisions, TempLockIsLock
<1>7. ChargedDecided' BY <1>1, <1>2, <1>4 DEF CaseInv, ChargedDecided, HasViolation
<1>8. ASSUME NEW h \in Reviewers PROVE ReadIsSo(review[h])'
  <2>1. review'[h] = review[h] /\ ReadIsSo(review[h]) BY <1>2 DEF CaseInv
  <2>2. review[h] # NoReview => review[h].case \in Cases /\ review[h].case # c BY <1>1, ReviewOf
  <2> QED BY <1>2, <1>4, <2>1, <2>2 DEF ReadIsSo, HasViolation
<1>9. DecisionsKept
  <2>1. case[c] # "closed"
    BY <1>1 DEF CaseInv, CaseTypeOK, ReportStatuses
  <2> QED BY <1>1, <1>4, <2>1 DEF DecisionsKept
<1> QED BY <1>5, <1>6, <1>7, <1>8, <1>9 DEF CaseInv

LEMMA ReportSteps ==
  ASSUME CaseInv, ReportStep PROVE CaseInv' /\ DecisionsKept
<1>1. PICK c \in Reports :
        \/ CreateReport(c)
        \/ \E status \in ReportStatuses \ {"none"} : ReviewReport(c, status)
        \/ CancelReport(c) \/ RequestReportEvidence(c) \/ AddReportEvidence(c)
  BY DEF ReportStep
<1>2. HasViolation(c) => case[c] = "confirmed"
  BY DEF CaseInv, ChargedDecided, Verdict, Cases
<1>3. CASE CreateReport(c)
  BY <1>2, <1>3, ReportChange DEF CreateReport, ReportStatuses
<1>4. ASSUME NEW status \in ReportStatuses, ReviewReport(c, status) PROVE CaseInv' /\ DecisionsKept
  BY <1>2, <1>4, ReportChange DEF ReviewReport
<1>5. CASE CancelReport(c)
  BY <1>2, <1>5, ReportChange DEF CancelReport, ReportStatuses, ReportEnded
<1>6. CASE RequestReportEvidence(c)
  BY <1>2, <1>6, ReportChange DEF RequestReportEvidence, ReportStatuses, ReportEnded
<1>7. CASE AddReportEvidence(c)
  BY <1>2, <1>7, ReportChange DEF AddReportEvidence, ReportStatuses
<1> QED BY <1>1, <1>3, <1>4, <1>5, <1>6, <1>7

(* Who saves a ticket makes what the others read of it old.                *)
LEMMA OutdatedSo ==
  ASSUME CaseInv, NEW c \in Cases, NEW h \in Reviewers
  PROVE  /\ Outdated(c)[h] \in ReviewRecords
         /\ review[h].case # c => Outdated(c)[h] = review[h]
         /\ review[h].case = c => ~Outdated(c)[h].fresh
<1>1. /\ review[h] \in ReviewRecords
      /\ review[h] # NoReview => review[h] \in [case : Tickets, status : TicketStatuses,
                                      charged : BOOLEAN, fresh : BOOLEAN]
  BY ReviewOf DEF ReviewRecords
<1>2. c # NoCase BY ModerationAssumption
<1>3. Outdated(c)[h] = IF review[h].case = c THEN [review[h] EXCEPT !.fresh = FALSE] ELSE review[h]
  BY DEF Outdated
<1>4. CASE review[h].case # c BY <1>1, <1>3, <1>4
<1>5. CASE review[h].case = c
  <2>1. review[h] # NoReview BY <1>2, <1>5, NoReviewRecord
  <2>2. [review[h] EXCEPT !.fresh = FALSE] \in ReviewRecords BY <1>1, <2>1 DEF ReviewRecords
  <2>3. ~[review[h] EXCEPT !.fresh = FALSE].fresh BY <1>1, <2>1
  <2> QED BY <1>3, <1>5, <2>2, <2>3
<1> QED BY <1>4, <1>5

LEMMA TicketChange ==
  ASSUME CaseInv, NEW h \in Reviewers, NEW status \in TicketStatuses, SaveTicketChange(h, status),
         HasViolation(review[h].case) => status = case[review[h].case],
         case[review[h].case] \in {"cancelled", "closed"} => status = case[review[h].case]
  PROVE  CaseInv' /\ DecisionsKept
<1> DEFINE c == review[h].case
<1>1. /\ c \in Cases /\ c \in Tickets /\ c \notin Reports
  BY ReviewOf, ModerationAssumption DEF SaveTicketChange
<1>2. /\ UNCHANGED <<user, violation, admin>>
      /\ case' = [case EXCEPT ![c] = status]
      /\ review' = [Outdated(c) EXCEPT ![h] = NoReview]
  BY DEF SaveTicketChange, OnTicket
<1>3. case \in [Cases -> ReportStatuses \cup TicketStatuses] BY DEF CaseInv, CaseTypeOK
<1> HIDE DEF c
<1>4. case'[c] = status /\ \A d \in Cases : d # c => case'[d] = case[d] BY <1>1, <1>2, <1>3
<1>5. review' \in [Reviewers -> ReviewRecords]
      /\ review'[h] = NoReview /\ \A k \in Reviewers : k # h => review'[k] = Outdated(c)[k]
  <2>1. Outdated(c) \in [Reviewers -> ReviewRecords] BY <1>1, OutdatedSo DEF Outdated
  <2> QED BY <1>2, <2>1, NoReviewRecord
<1>6. CaseTypeOK' BY <1>1, <1>2, <1>3, <1>4, <1>5 DEF CaseInv, CaseTypeOK
<1>7. LockKeepsDecisions' /\ TempLockIsLock'
  BY <1>2 DEF CaseInv, LockKeepsDecisions, TempLockIsLock
<1>8. ChargedDecided'
  BY <1>1, <1>2, <1>4 DEF CaseInv, ChargedDecided, HasViolation, c
<1>9. ASSUME NEW k \in Reviewers PROVE ReadIsSo(review[k])'
  <2>1. CASE k = h BY <1>5, <2>1 DEF ReadIsSo
  <2>2. CASE k # h /\ review[k].case = c
    BY <1>1, <1>5, <2>2, OutdatedSo DEF ReadIsSo
  <2>3. CASE k # h /\ review[k].case # c
    <3>1. review'[k] = review[k] /\ ReadIsSo(review[k]) BY <1>1, <1>5, <2>3, OutdatedSo, ReviewOf
    <3>2. review[k] # NoReview => review[k].case \in Cases BY ReviewOf
    <3> QED BY <1>2, <1>4, <2>3, <3>1, <3>2 DEF ReadIsSo, HasViolation
  <2> QED BY <2>1, <2>2, <2>3
<1>10. DecisionsKept BY <1>1, <1>4 DEF DecisionsKept, c
<1> QED BY <1>6, <1>7, <1>8, <1>9, <1>10 DEF CaseInv

(* Only what the requests read changes.                                    *)
LEMMA ReadChange ==
  ASSUME CaseInv, NEW h \in Reviewers, NEW r \in ReviewRecords, review' = [review EXCEPT ![h] = r],
         UNCHANGED case, OnTicket, ReadIsSo(r)
  PROVE  CaseInv' /\ DecisionsKept
<1>1. UNCHANGED <<user, violation, admin, case>> BY DEF OnTicket
<1>2. CaseTypeOK' BY <1>1 DEF CaseInv, CaseTypeOK
<1>3. LockKeepsDecisions' /\ TempLockIsLock' /\ ChargedDecided'
  BY <1>1 DEF CaseInv, LockKeepsDecisions, TempLockIsLock, ChargedDecided, HasViolation
<1>4. \A k \in Reviewers : ReadIsSo(review[k])'
  BY <1>1 DEF CaseInv, CaseTypeOK, ReadIsSo, HasViolation
<1> QED BY <1>1, <1>2, <1>3, <1>4 DEF CaseInv, DecisionsKept

LEMMA CreateTicketStep ==
  ASSUME CaseInv, NEW c \in Tickets, CreateSupportTicket(c) PROVE CaseInv' /\ DecisionsKept
<1>1. c \in Cases /\ c \notin Reports /\ case[c] = "none"
  BY ModerationAssumption DEF Cases, CreateSupportTicket
<1>2. /\ UNCHANGED <<user, violation, admin, review>> /\ case' = [case EXCEPT ![c] = "open"]
  BY DEF CreateSupportTicket, OnTicket
<1>3. case \in [Cases -> ReportStatuses \cup TicketStatuses] BY DEF CaseInv, CaseTypeOK
<1>4. case'[c] = "open" /\ \A d \in Cases : d # c => case'[d] = case[d] BY <1>1, <1>2, <1>3
<1>5. ~HasViolation(c) BY <1>1 DEF CaseInv, ChargedDecided, Verdict
<1>6. CaseTypeOK' BY <1>1, <1>2, <1>3, <1>4 DEF CaseInv, CaseTypeOK, TicketStatuses
<1>7. LockKeepsDecisions' /\ TempLockIsLock'
  BY <1>2 DEF CaseInv, LockKeepsDecisions, TempLockIsLock
<1>8. ChargedDecided' BY <1>2, <1>4, <1>5 DEF CaseInv, ChargedDecided, HasViolation
<1>9. ASSUME NEW h \in Reviewers PROVE ReadIsSo(review[h])'
  <2>1. review'[h] = review[h] /\ ReadIsSo(review[h]) BY <1>2 DEF CaseInv
  <2>2. review[h] # NoReview => review[h].case \in Cases BY ReviewOf
  <2> QED BY <1>1, <1>2, <1>4, <2>1, <2>2 DEF ReadIsSo, HasViolation
<1>10. DecisionsKept BY <1>1, <1>4, <1>5 DEF DecisionsKept
<1> QED BY <1>6, <1>7, <1>8, <1>9, <1>10 DEF CaseInv

LEMMA TicketSteps ==
  ASSUME CaseInv, TicketStep PROVE CaseInv' /\ DecisionsKept
<1>1. ASSUME NEW h \in Reviewers, NEW c \in Tickets, ReadTicket(h, c)
      PROVE  CaseInv' /\ DecisionsKept
  <2> DEFINE r == [case |-> c, status |-> case[c], charged |-> HasViolation(c), fresh |-> TRUE]
  <2>1. case[c] \in TicketStatuses /\ HasViolation(c) \in BOOLEAN /\ case[c] # "none"
    BY <1>1, ModerationAssumption DEF CaseInv, CaseTypeOK, Cases, HasViolation, ReadTicket
  <2>2. r \in ReviewRecords BY <2>1 DEF ReviewRecords
  <2>3. ReadIsSo(r) BY <2>1 DEF ReadIsSo
  <2>4. review' = [review EXCEPT ![h] = r] /\ UNCHANGED case /\ OnTicket BY <1>1 DEF ReadTicket
  <2> HIDE DEF r
  <2> QED BY <2>2, <2>3, <2>4, ReadChange
<1>2. ASSUME NEW h \in Reviewers, DropTicket(h) PROVE CaseInv' /\ DecisionsKept
  BY <1>2, NoReviewRecord, ReadChange DEF DropTicket, ReadIsSo
<1>3. ASSUME NEW h \in Reviewers, NEW status, SaveTicketChange(h, status)
      PROVE  /\ review[h].status = case[review[h].case] /\ review[h].status \in TicketStatuses
             /\ review[h].charged <=> HasViolation(review[h].case)
             /\ HasViolation(review[h].case) => review[h].status = "resolved"
  <2>1. review[h] # NoReview /\ review[h].fresh BY <1>3 DEF SaveTicketChange
  <2>2. ReadIsSo(review[h]) /\ review[h].status \in TicketStatuses /\ review[h].case \in Cases
        /\ review[h].case \notin Reports
    BY <2>1, ReviewOf, ModerationAssumption
  <2> QED BY <2>1, <2>2 DEF ReadIsSo, CaseInv, ChargedDecided, Verdict
<1>4. ASSUME NEW h \in Reviewers, NEW status \in TicketStatuses, SaveTicketChange(h, status),
             review[h].status \notin TicketEnded
      PROVE  CaseInv' /\ DecisionsKept
  BY <1>3, <1>4, TicketChange DEF TicketEnded
<1>5. ASSUME NEW h \in Reviewers, NEW byAdmin \in BOOLEAN, AddTicketResponse(h, byAdmin)
      PROVE  CaseInv' /\ DecisionsKept
  <2>1. PICK status : SaveTicketChange(h, status) /\ status \in {"in_progress", review[h].status}
    BY <1>5 DEF AddTicketResponse
  <2>2. status \in TicketStatuses BY <1>3, <2>1 DEF TicketStatuses
  <2> QED BY <1>4, <1>5, <2>1, <2>2 DEF AddTicketResponse
<1>6. ASSUME NEW h \in Reviewers, CancelSupportTicket(h) PROVE CaseInv' /\ DecisionsKept
  BY <1>4, <1>6 DEF CancelSupportTicket, TicketStatuses
<1>7. ASSUME NEW h \in Reviewers, AssignTicket(h) PROVE CaseInv' /\ DecisionsKept
  <2>1. PICK status : SaveTicketChange(h, status) /\ status \in {"in_progress", review[h].status}
    BY <1>7 DEF AssignTicket
  <2>2. status \in TicketStatuses BY <1>3, <2>1 DEF TicketStatuses
  <2> QED BY <1>4, <1>7, <2>1, <2>2 DEF AssignTicket
<1>8. ASSUME NEW h \in Reviewers, NEW status \in TicketStatuses, UpdateTicketStatus(h, status)
      PROVE  CaseInv' /\ DecisionsKept
  <2>1. SaveTicketChange(h, status) BY <1>8 DEF UpdateTicketStatus
  <2>2. HasViolation(review[h].case) => status = case[review[h].case]
    BY <1>3, <1>8, <2>1 DEF UpdateTicketStatus
  <2>3. case[review[h].case] \in {"cancelled", "closed"} => status = case[review[h].case]
    BY <1>3, <1>8, <2>1 DEF UpdateTicketStatus, AdminStatusTransitions
  <2> QED BY <2>1, <2>2, <2>3, TicketChange
<1> QED BY <1>1, <1>2, <1>5, <1>6, <1>7, <1>8, CreateTicketStep DEF TicketStep

-----------------------------------------------------------------------------
(* Violations and the account.                                             *)

LEMMA CreateViolationStep ==
  ASSUME CaseInv, NEW c \in Cases, NEW penalty \in {"warning", "temporary", "permanent"},
         CreateViolation(c, penalty)
  PROVE  CaseInv' /\ DecisionsKept
<1>1. /\ user \in UserRecords /\ violation \in [Cases -> ViolationRecords]
      /\ case \in [Cases -> ReportStatuses \cup TicketStatuses]
  BY DEF CaseInv, CaseTypeOK
<1>2. /\ ~HasViolation(c) /\ ~user.deleted /\ UNCHANGED admin
      /\ user' = Penalized(c, penalty)
      /\ violation' = [violation EXCEPT
                         ![c] = [status |-> "active", penalty |-> penalty, ended |-> FALSE]]
      /\ case' = [case EXCEPT ![c] = Verdict(c)]
      /\ review' = Outdated(c)
      /\ c \in Reports => case[c] # "cancelled"
  BY DEF CreateViolation
<1>3. /\ violation' \in [Cases -> ViolationRecords]
      /\ violation'[c] = [status |-> "active", penalty |-> penalty, ended |-> FALSE]
      /\ \A d \in Cases : d # c => violation'[d] = violation[d]
  BY <1>1, <1>2 DEF ViolationRecords
<1>4. /\ user' \in UserRecords /\ user'.byHand = user.byHand
      /\ ~user'.deleted
      /\ penalty = "warning" => user' = user
      /\ penalty # "warning" => user'.status = "locked"
      /\ user'.tempLock # NoCase => \/ user.tempLock # NoCase
                                    \/ user.status = "active" /\ user'.status = "locked"
      /\ user.status = "locked" => user'.status = "locked"
  BY <1>1, <1>2 DEF Penalized, UserRecords
<1>5. /\ case'[c] = Verdict(c) /\ \A d \in Cases : d # c => case'[d] = case[d]
  BY <1>1, <1>2
<1>6. CaseTypeOK'
  <2>1. review' \in [Reviewers -> ReviewRecords] BY <1>2, OutdatedSo DEF Outdated
  <2>2. Verdict(c) \in (IF c \in Reports THEN ReportStatuses ELSE TicketStatuses)
    BY DEF Verdict, ReportStatuses, TicketStatuses
  <2>3. case' \in [Cases -> ReportStatuses \cup TicketStatuses] BY <1>1, <1>2, <2>2
  <2> QED BY <1>2, <1>3, <1>4, <1>5, <2>1, <2>2, <2>3 DEF CaseInv, CaseTypeOK
<1>7. \A d \in Cases : /\ Suspends(violation[d]) => Suspends(violation'[d])
                       /\ IsEffective(violation'[d])
                            => IsEffective(violation[d]) \/ penalty # "warning"
  BY <1>2, <1>3 DEF Suspends, IsEffective, HasViolation
<1>8. penalty # "warning" => Suspends(violation'[c]) BY <1>3 DEF Suspends
<1>9. user.byHand => user.status = "locked"
  BY DEF CaseInv, LockKeepsDecisions
<1>10. LockKeepsDecisions'
  <2>1. user'.byHand \/ (\E d \in Cases : IsEffective(violation'[d])) => user'.status = "locked"
    BY <1>4, <1>7 DEF CaseInv, LockKeepsDecisions
  <2>2. user'.status = "locked" => user'.byHand \/ \E d \in Cases : Suspends(violation'[d])
    BY <1>2, <1>4, <1>7, <1>8 DEF CaseInv, LockKeepsDecisions
  <2> QED BY <1>4, <2>1, <2>2 DEF LockKeepsDecisions
<1>11. TempLockIsLock'
  BY <1>1, <1>4, <1>9 DEF CaseInv, TempLockIsLock, UserRecords
<1>12. ChargedDecided' BY <1>3, <1>5 DEF CaseInv, ChargedDecided, HasViolation, Verdict
<1>13. ASSUME NEW h \in Reviewers PROVE ReadIsSo(review[h])'
  <2>1. CASE review[h].case = c BY <1>2, <2>1, OutdatedSo DEF ReadIsSo
  <2>2. CASE review[h].case # c
    <3>1. review'[h] = review[h] /\ ReadIsSo(review[h]) BY <1>2, <2>2, OutdatedSo, ReviewOf
    <3>2. review[h] # NoReview => review[h].case \in Cases BY ReviewOf
    <3> QED BY <1>3, <1>5, <2>2, <3>1, <3>2 DEF ReadIsSo, HasViolation
  <2> QED BY <2>1, <2>2
<1>14. DecisionsKept
  <2>1. HasViolation(c)' BY <1>3 DEF HasViolation
  <2>2. c \in Reports => case[c] # "closed" BY DEF CaseInv, CaseTypeOK, ReportStatuses
  <2> QED BY <1>2, <1>5, <2>1, <2>2 DEF DecisionsKept, Cases
<1> QED BY <1>6, <1>10, <1>11, <1>12, <1>13, <1>14 DEF CaseInv

(* The account and the violations change, the cases do not.                *)
LEMMA LockChange ==
  ASSUME CaseInv, UNCHANGED <<case, review>>, user' \in UserRecords,
         violation' \in [Cases -> ViolationRecords], admin' \in {"idle", "active", "locked"},
         \A c \in Cases : HasViolation(c)' <=> HasViolation(c),
         LockKeepsDecisions', TempLockIsLock'
  PROVE  CaseInv' /\ DecisionsKept
<1>1. CaseTypeOK' BY DEF CaseInv, CaseTypeOK
<1>2. ChargedDecided' BY DEF CaseInv, ChargedDecided
<1>3. ASSUME NEW h \in Reviewers PROVE ReadIsSo(review[h])'
  <2>1. ReadIsSo(review[h]) /\ (review[h] # NoReview => review[h].case \in Cases) BY ReviewOf
  <2> QED BY <2>1 DEF ReadIsSo
<1>4. DecisionsKept BY DEF DecisionsKept
<1> QED BY <1>1, <1>2, <1>3, <1>4 DEF CaseInv

LEMMA SuspensionEndsStep ==
  ASSUME CaseInv, NEW c \in Cases, EndPasses(c) PROVE CaseInv' /\ DecisionsKept
<1>1. /\ violation \in [Cases -> ViolationRecords] /\ violation[c] \in ViolationRecords
      /\ violation' = [violation EXCEPT ![c].ended = TRUE]
      /\ UNCHANGED <<user, case, review, admin>>
  BY DEF CaseInv, CaseTypeOK, EndPasses
<1>2. /\ violation' \in [Cases -> ViolationRecords]
      /\ \A d \in Cases : /\ violation'[d].status = violation[d].status
                          /\ violation'[d].penalty = violation[d].penalty
                          /\ d # c => violation'[d] = violation[d]
      /\ violation'[c].ended
  BY <1>1 DEF ViolationRecords
<1>3. \A d \in Cases : /\ HasViolation(d)' <=> HasViolation(d)
                       /\ Suspends(violation'[d]) <=> Suspends(violation[d])
                       /\ IsEffective(violation'[d]) => IsEffective(violation[d])
  BY <1>2 DEF HasViolation, Suspends, IsEffective
<1>4. LockKeepsDecisions' /\ TempLockIsLock'
  BY <1>1, <1>3 DEF CaseInv, LockKeepsDecisions, TempLockIsLock
<1> QED BY <1>1, <1>2, <1>3, <1>4, LockChange DEF CaseInv, CaseTypeOK

(* Suspensions are resolved, not made.                                     *)
LEMMA ResolvedSo ==
  ASSUME CaseInv, NEW cases \in SUBSET Cases, \A c \in cases : Suspends(violation[c]),
         violation' = Resolved(cases)
  PROVE  /\ violation' \in [Cases -> ViolationRecords]
         /\ \A c \in Cases : /\ HasViolation(c)' <=> HasViolation(c)
                             /\ Suspends(violation'[c]) <=> Suspends(violation[c]) /\ c \notin cases
                             /\ violation'[c].ended = violation[c].ended
<1>1. violation \in [Cases -> ViolationRecords] BY DEF CaseInv, CaseTypeOK
<1>2. \A c \in Cases : [violation[c] EXCEPT !.status = "resolved"] \in ViolationRecords
  BY <1>1 DEF ViolationRecords
<1>3. \A c \in Cases :
        violation'[c] = IF c \in cases THEN [violation[c] EXCEPT !.status = "resolved"]
                        ELSE violation[c]
  BY DEF Resolved
<1>4. violation' \in [Cases -> ViolationRecords] BY <1>1, <1>2 DEF Resolved
<1> QED BY <1>1, <1>3, <1>4 DEF HasViolation, Suspends, ViolationRecords

LEMMA RefreshLockStep ==
  ASSUME CaseInv, RefreshTemporaryLock PROVE CaseInv' /\ DecisionsKept
<1>1. /\ ~user.deleted /\ user.tempLock # NoCase /\ user \in UserRecords
      /\ \A c \in Cases : ~IsEffective(violation[c])
      /\ user' = [user EXCEPT !.status = "active", !.tempLock = NoCase]
      /\ violation' = Resolved(EndedSuspensions)
      /\ UNCHANGED <<case, review, admin>>
  BY DEF RefreshTemporaryLock, CaseInv, CaseTypeOK
<1>2. ~user.byHand BY <1>1 DEF CaseInv, TempLockIsLock
<1>3. /\ user' \in UserRecords /\ user'.status = "active" /\ user'.tempLock = NoCase
      /\ ~user'.deleted /\ ~user'.byHand
  BY <1>1, <1>2 DEF UserRecords
<1>4. EndedSuspensions \in SUBSET Cases /\ \A c \in EndedSuspensions : Suspends(violation[c])
  BY DEF EndedSuspensions
<1>5. /\ violation' \in [Cases -> ViolationRecords]
      /\ \A c \in Cases : /\ HasViolation(c)' <=> HasViolation(c)
                          /\ ~IsEffective(violation'[c])
  BY <1>1, <1>4, ResolvedSo DEF IsEffective
<1>6. LockKeepsDecisions' /\ TempLockIsLock'
  BY <1>3, <1>5 DEF LockKeepsDecisions, TempLockIsLock
<1> QED BY <1>1, <1>3, <1>5, <1>6, LockChange DEF CaseInv, CaseTypeOK

LEMMA FindUserStep ==
  ASSUME CaseInv, NEW status \in {"active", "locked"}, FindUser(status)
  PROVE  CaseInv' /\ DecisionsKept
<1>1. UNCHANGED <<user, case, violation, review>> /\ admin' = status BY DEF FindUser
<1>2. LockKeepsDecisions' /\ TempLockIsLock'
  BY <1>1 DEF CaseInv, LockKeepsDecisions, TempLockIsLock
<1> QED BY <1>1, <1>2, LockChange DEF CaseInv, CaseTypeOK, HasViolation

LEMMA UpdateUserStep ==
  ASSUME CaseInv, UpdateUserStatus PROVE CaseInv' /\ DecisionsKept
<1> DEFINE suspended == {c \in Cases : Suspends(violation[c])}
<1>1. /\ user \in UserRecords /\ admin \in {"active", "locked"}
      /\ user' = IF user.deleted THEN user
                 ELSE [user EXCEPT !.status = admin, !.tempLock = NoCase,
                                   !.byHand = (admin = "locked")]
      /\ violation' = IF admin = "active" THEN Resolved(suspended) ELSE violation
      /\ admin' = "idle" /\ UNCHANGED <<case, review>>
  BY DEF UpdateUserStatus, CaseInv, CaseTypeOK
<1>2. /\ user' \in UserRecords
      /\ user.deleted => user' = user
      /\ ~user.deleted => /\ user'.status = admin /\ user'.tempLock = NoCase
                          /\ user'.byHand <=> admin = "locked"
                          /\ ~user'.deleted
  <2>1. (admin = "locked") \in BOOLEAN OBVIOUS
  <2> QED BY <1>1, <2>1 DEF UserRecords
<1>3. CASE admin = "active"
  <2>1. /\ violation' \in [Cases -> ViolationRecords]
        /\ \A c \in Cases : /\ HasViolation(c)' <=> HasViolation(c)
                            /\ ~Suspends(violation'[c])
    BY <1>1, <1>3, ResolvedSo
  <2>2. LockKeepsDecisions' /\ TempLockIsLock'
    BY <1>2, <1>3, <2>1 DEF CaseInv, LockKeepsDecisions, TempLockIsLock, IsEffective
  <2> QED BY <1>1, <1>2, <2>1, <2>2, LockChange
<1>4. CASE admin = "locked"
  <2>1. violation' = violation BY <1>1, <1>4
  <2>2. LockKeepsDecisions' /\ TempLockIsLock'
    BY <1>2, <1>4, <2>1 DEF CaseInv, LockKeepsDecisions, TempLockIsLock
  <2> QED BY <1>1, <1>2, <2>1, <2>2, LockChange DEF CaseInv, CaseTypeOK, HasViolation
<1> QED BY <1>1, <1>3, <1>4

LEMMA DeleteUserStep ==
  ASSUME CaseInv, DeleteUser PROVE CaseInv' /\ DecisionsKept
<1>1. /\ user \in UserRecords
      /\ user' = [user EXCEPT !.status = "locked", !.deleted = TRUE]
      /\ UNCHANGED <<case, violation, review, admin>>
  BY DEF DeleteUser, CaseInv, CaseTypeOK
<1>2. /\ user' \in UserRecords /\ user'.status = "locked" /\ user'.deleted
      /\ user'.tempLock = user.tempLock /\ user'.byHand = user.byHand
  BY <1>1 DEF UserRecords
<1>3. LockKeepsDecisions' /\ TempLockIsLock'
  BY <1>1, <1>2 DEF CaseInv, LockKeepsDecisions, TempLockIsLock
<1> QED BY <1>1, <1>2, <1>3, LockChange DEF CaseInv, CaseTypeOK, HasViolation

-----------------------------------------------------------------------------
LEMMA NextCaseInv ==
  ASSUME CaseInv, [CaseNext]_caseVars PROVE CaseInv' /\ [DecisionsKept]_caseVars
<1>1. CASE ReportStep BY <1>1, ReportSteps
<1>2. CASE TicketStep BY <1>2, TicketSteps
<1>3. CASE ViolationStep BY <1>3, CreateViolationStep, SuspensionEndsStep DEF ViolationStep
<1>4. CASE AccountStep
  BY <1>4, RefreshLockStep, FindUserStep, UpdateUserStep, DeleteUserStep DEF AccountStep
<1>5. CASE UNCHANGED caseVars
  <2>1. UNCHANGED <<user, case, violation, review, admin>> BY <1>5 DEF caseVars
  <2>2. LockKeepsDecisions' /\ TempLockIsLock'
    BY <2>1 DEF CaseInv, LockKeepsDecisions, TempLockIsLock
  <2> QED BY <1>5, <2>1, <2>2, LockChange DEF CaseInv, CaseTypeOK, HasViolation
<1> QED BY <1>1, <1>2, <1>3, <1>4, <1>5 DEF CaseNext

LEMMA CaseInvariance == CaseSpec => []CaseInv
<1>1. CaseInit => CaseInv BY InitCaseInv
<1>2. CaseInv /\ [CaseNext]_caseVars => CaseInv' BY NextCaseInv
<1> QED BY <1>1, <1>2, PTL DEF CaseSpec

-----------------------------------------------------------------------------
(* The theorems.                                                           *)

(* Account, cases, violations and requests have the shapes declared: a     *)
(* report never gets the status of a ticket, nor a ticket that of a        *)
(* report.                                                                 *)
THEOREM ModerationTypeCorrect == CaseSpec => []CaseTypeOK
<1>1. CaseInv => CaseTypeOK BY DEF CaseInv
<1> QED BY <1>1, CaseInvariance, PTL

(* The end of a temporary suspension opens no account that another         *)
(* suspension, the administrator or its deletion keeps locked, and no      *)
(* account stays locked for nobody's reason (penaltyPolicy.service.ts:59). *)
THEOREM LockKeepsDecisionsCorrect == CaseSpec => []LockKeepsDecisions
<1>1. CaseInv => LockKeepsDecisions BY DEF CaseInv
<1> QED BY <1>1, CaseInvariance, PTL

(* A case that led to a violation, was withdrawn or was closed keeps its   *)
(* status, but for the violation that may still be made of a ticket        *)
(* (report.service.ts:388, supportTicket.service.ts:16).                   *)
THEOREM ModerationDecisionsCorrect == CaseSpec => DecisionsStay
<1>1. CaseInv /\ [CaseNext]_caseVars => [DecisionsKept]_caseVars BY NextCaseInv
<1>2. CaseSpec => [][DecisionsKept]_caseVars BY <1>1, CaseInvariance, PTL DEF CaseSpec
<1> QED BY <1>2 DEF DecisionsStay, DecisionsKept

=============================================================================
