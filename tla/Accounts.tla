-------------------------------- MODULE Accounts --------------------------------
(***************************************************************************)
(* One account, its passwords, codes, sessions and socket connections      *)
(* (auth.service.ts, utils/token.ts, auth.middleware.ts, initSocket.ts).   *)
(*                                                                         *)
(* A request reads the user, hashes or compares a password or asks an      *)
(* identity provider, and only then writes: some of the writes are         *)
(* conditional on what was read, others are not.  Sessions are revoked and *)
(* sockets disconnected in further steps, which a crash can cut off; the   *)
(* version of the tokens is written with the password.                     *)
(*                                                                         *)
(* A code is known by the mail it was sent in.  The lifetime of codes and  *)
(* tokens is left out: a request that is refused changes nothing.  A       *)
(* password stands for its hash; setting the same one again makes another  *)
(* hash, and would be refused more often than here.  Left out are also     *)
(* the profile, the phone number, the wallet that goes with an account and *)
(* its deletion.                                                           *)
(***************************************************************************)
EXTENDS Integers, Sequences

CONSTANTS
    Passwords, Sessions, Sockets, Handlers,
    None,          \* no password
    MaxMails,      \* bound: codes that are mailed
    MaxVersion     \* bound: the version of the tokens

ASSUME AccountsAssumption ==
    /\ None \notin Passwords /\ "random" \notin Passwords
    /\ MaxMails \in Nat /\ MaxVersion \in Nat

VARIABLES
    account,   \* User
    mail,      \* codes mailed, with the password they were asked for
    session,   \* Session
    socket,    \* socket.io connections
    run        \* requests in progress

vars == <<account, mail, session, socket, run>>

-----------------------------------------------------------------------------
(* Records.                                                                *)

(* random: the password of an account that Google or Facebook opened.      *)
AnyPassword == Passwords \cup {None, "random"}

Codes == 0 .. MaxMails       \* 0: no code

(* byReset: history, the password was last set with a code.                *)
AccountRecords ==
    [status : {"none", "unverified", "verified"}, password : AnyPassword,
     registerOtp : Codes, resetOtp : Codes, version : 0 .. MaxVersion,
     locked : BOOLEAN, google : BOOLEAN, byReset : BOOLEAN]

(* uses: history, how often the code reset the password.                   *)
MailRecords == [purpose : {"register", "reset"}, password : AnyPassword, uses : 0 .. MaxMails]

(* opened: history, the password or the way the session was opened with.   *)
SessionRecords ==
    [status : {"none", "live", "revoked"}, version : 0 .. MaxVersion,
     opened : AnyPassword \cup {"oauth"}]

SocketRecords == [at : {"none", "handshake", "joined", "checked"}, version : 0 .. MaxVersion]

Steps == {"idle", "create", "register", "resend", "verify", "link", "issue", "refresh", "forgot", "reset",
          "change", "disconnect", "revoke", "hangup"}

SeenRecords ==
    [status : {"none", "unverified", "verified"}, password : AnyPassword,
     registerOtp : Codes, resetOtp : Codes, version : 0 .. MaxVersion]

(* read: what was found of the user.  password and code: of the request.   *)
RunRecords ==
    [at : Steps, read : SeenRecords, password : AnyPassword \cup {"oauth"}, code : Codes,
     session : Sessions \cup {None}]

NoAccount ==
    [status |-> "none", password |-> None, registerOtp |-> 0, resetOtp |-> 0, version |-> 0,
     locked |-> FALSE, google |-> FALSE, byReset |-> FALSE]

(* What a request that has read the user goes by.                          *)
Seen(user) ==
    [status |-> user.status, password |-> user.password, registerOtp |-> user.registerOtp,
     resetOtp |-> user.resetOtp, version |-> user.version]

NoSocket == [at |-> "none", version |-> 0]

Idle == [at |-> "idle", read |-> Seen(NoAccount), password |-> None, code |-> 0, session |-> None]

Init ==
    /\ account = NoAccount
    /\ mail = <<>>
    /\ session = [s \in Sessions |-> [status |-> "none", version |-> 0, opened |-> None]]
    /\ socket = [k \in Sockets |-> NoSocket]
    /\ run = [h \in Handlers |-> Idle]

-----------------------------------------------------------------------------
(* Steps of a request.                                                     *)

Begin(h, at, password, code) ==
    /\ run[h].at = "idle"
    /\ run' = [run EXCEPT ![h] = [at |-> at, read |-> Seen(account), password |-> password,
                                  code |-> code, session |-> None]]

(* What it read is not used any more.                                      *)
Go(h, at) == run' = [run EXCEPT ![h] = [Idle EXCEPT !.at = at]]

(* A request whose write does not depend on what it read.                  *)
BeginBlind(h, at, password) ==
    /\ run[h].at = "idle"
    /\ run' = [run EXCEPT ![h] = [Idle EXCEPT !.at = at, !.password = password]]

End(h) == run' = [run EXCEPT ![h] = Idle]

(* A request is refused at its write, or a step of it fails.               *)
Drop(h) ==
    /\ run[h].at \notin {"idle", "disconnect", "hangup"}
    /\ End(h)
    /\ UNCHANGED <<account, mail, session, socket>>

Send(purpose, password) ==
    /\ Len(mail) < MaxMails
    /\ mail' = Append(mail, [purpose |-> purpose, password |-> password, uses |-> 0])

NextCode == Len(mail) + 1

-----------------------------------------------------------------------------
(* Registration.                                                           *)

(* register: the password is hashed before anything is written.            *)
StartRegister(h, password) ==
    /\ account.status # "verified"
    /\ Begin(h, IF account.status = "none" THEN "create" ELSE "register", password, 0)
    /\ UNCHANGED <<account, mail, session, socket>>

(* User.create: there is one account of an address.                        *)
CreateAccount(h) ==
    /\ run[h].at = "create" /\ account.status = "none"
    /\ LET created == [NoAccount EXCEPT !.status = "unverified", !.password = run[h].password]
       IN  /\ account' = created
           /\ run' = [run EXCEPT ![h].at = "resend", ![h].read = Seen(created)]
    /\ UNCHANGED <<mail, session, socket>>

(* resendRegisterOtp.                                                      *)
StartResend(h) ==
    /\ account.status = "unverified"
    /\ Begin(h, "resend", account.password, 0)
    /\ UNCHANGED <<account, mail, session, socket>>

(* A second registration sets the password and makes the account active    *)
(* again; a code that is only sent again changes nothing else.             *)
Registered(h) ==
    IF run[h].at = "resend" THEN [account EXCEPT !.registerOtp = NextCode]
    ELSE [account EXCEPT !.registerOtp = NextCode, !.password = run[h].password,
                         !.locked = FALSE, !.byReset = FALSE]

(* Wrong: the code is set whoever registered meanwhile.                    *)
SendRegisterOtpAlways(h) ==
    /\ run[h].at \in {"register", "resend"} /\ account.status = "unverified"
    /\ Send("register", run[h].password)
    /\ account' = Registered(h)
    /\ End(h)
    /\ UNCHANGED <<session, socket>>

(* createAndSendRegisterOtp.                                               *)
SendRegisterOtp(h) ==
    /\ run[h].at \in {"register", "resend"} /\ account.status = "unverified"
    /\ account.password = run[h].read.password /\ account.registerOtp = run[h].read.registerOtp
    /\ Send("register", run[h].password)
    /\ account' = Registered(h)
    /\ End(h)
    /\ UNCHANGED <<session, socket>>

(* verifyRegisterOtp; the registration of a provider logs him in.          *)
StartVerify(h, code) ==
    /\ account.status = "unverified" /\ account.registerOtp = code
    /\ Begin(h, "verify", None, code)
    /\ UNCHANGED <<account, mail, session, socket>>

Verify(h) ==
    /\ run[h].at = "verify" /\ account.status = "unverified"
    /\ account.registerOtp = run[h].read.registerOtp /\ account.password = run[h].read.password
    /\ account' = [account EXCEPT !.status = "verified", !.registerOtp = 0]
    /\ \/ End(h)
       \/ run' = [run EXCEPT ![h].at = "issue", ![h].read = Seen(account'),
                             ![h].password = account.password]
    /\ UNCHANGED <<mail, session, socket>>

-----------------------------------------------------------------------------
(* Sessions.                                                               *)

(* login: the password is compared; a provider is set offline meanwhile.   *)
StartLogin(h, password) ==
    /\ account.status = "verified" /\ ~account.locked /\ account.password = password
    /\ Begin(h, "issue", password, 0)
    /\ UNCHANGED <<account, mail, session, socket>>

(* googleLogin and facebookLogin, of an account or for a new one.          *)
StartOAuth(h) ==
    /\ account.status # "none" /\ ~account.locked
    /\ Begin(h, "link", "oauth", 0)
    /\ UNCHANGED <<account, mail, session, socket>>

CreateByOAuth(h, google) ==
    /\ account.status = "none" /\ run[h].at = "idle"
    /\ LET created == [NoAccount EXCEPT !.status = "verified", !.password = "random",
                                        !.google = google]
       IN  /\ account' = created
           /\ run' = [run EXCEPT ![h] = [Idle EXCEPT !.at = "issue", !.read = Seen(created),
                                                     !.password = "oauth"]]
    /\ UNCHANGED <<mail, session, socket>>

(* linkOAuthAccount: an account nobody confirmed loses its password.       *)
Link(h, google) ==
    LET unverified == account.status = "unverified"
        linked == [account EXCEPT !.google = @ \/ google]
    IN  /\ run[h].at = "link" /\ ~account.locked
        /\ account.status = run[h].read.status /\ account.password = run[h].read.password
        /\ account.registerOtp = run[h].read.registerOtp
        /\ unverified => account.version < MaxVersion
        /\ account' = IF unverified
                      THEN [linked EXCEPT !.status = "verified", !.password = None,
                                          !.registerOtp = 0, !.resetOtp = 0,
                                          !.version = account.version + 1]
                      ELSE linked
        /\ run' = [run EXCEPT ![h].at = "issue", ![h].read = Seen(account')]
        /\ UNCHANGED <<mail, session, socket>>

(* issueSessionTokens, of a new session.                                   *)
IssueTokens(h, s) ==
    /\ run[h].at = "issue" /\ session[s].status = "none"
    /\ session' = [session EXCEPT ![s] = [status |-> "live", version |-> run[h].read.version,
                                          opened |-> run[h].password]]
    /\ End(h)
    /\ UNCHANGED <<account, mail, socket>>

(* refreshToken: what it finds, and the tokens it issues then.             *)
StartRefresh(h, s) ==
    /\ session[s].status = "live" /\ session[s].version = account.version
    /\ ~account.locked /\ run[h].at = "idle"
    /\ run' = [run EXCEPT ![h] = [Idle EXCEPT !.at = "refresh", !.read = Seen(account), !.session = s]]
    /\ UNCHANGED <<account, mail, session, socket>>

RefuseLocked(s) ==
    /\ session[s].status = "live" /\ session[s].version = account.version /\ account.locked
    /\ session' = [session EXCEPT ![s].status = "revoked"]
    /\ UNCHANGED <<account, mail, socket, run>>

Refresh(h) ==
    /\ run[h].at = "refresh"
    /\ session' = [session EXCEPT ![run[h].session].status = "live",
                                  ![run[h].session].version = run[h].read.version]
    /\ End(h)
    /\ UNCHANGED <<account, mail, socket>>

(* logout.                                                                 *)
Logout(s) ==
    /\ session[s].status = "live"
    /\ session' = [session EXCEPT ![s].status = "revoked"]
    /\ UNCHANGED <<account, mail, socket, run>>

-----------------------------------------------------------------------------
(* Passwords.                                                              *)

(* forgotPassword, whether the address was confirmed or not.               *)
StartForgot(h) ==
    /\ account.status # "none"
    /\ BeginBlind(h, "forgot", None)
    /\ UNCHANGED <<account, mail, session, socket>>

Forgot(h) ==
    /\ run[h].at = "forgot"
    /\ Send("reset", None)
    /\ account' = [account EXCEPT !.resetOtp = NextCode]
    /\ End(h)
    /\ UNCHANGED <<session, socket>>

(* resetPassword.                                                          *)
StartReset(h, code, password) ==
    /\ account.status # "none" /\ account.resetOtp = code
    /\ Begin(h, "reset", password, code)
    /\ UNCHANGED <<account, mail, session, socket>>

WithPassword(password) ==
    [account EXCEPT !.password = password, !.version = account.version + 1]

(* Wrong: the code that was found is not looked at again.                  *)
ResetAgain(h) ==
    /\ run[h].at = "reset" /\ account.version < MaxVersion
    /\ account' = [WithPassword(run[h].password) EXCEPT !.resetOtp = 0, !.byReset = TRUE]
    /\ mail' = [mail EXCEPT ![run[h].code].uses = @ + 1]
    /\ Go(h, "disconnect")
    /\ UNCHANGED <<session, socket>>

Reset(h) ==
    /\ run[h].at = "reset" /\ account.version < MaxVersion
    /\ account.password = run[h].read.password /\ account.resetOtp = run[h].read.resetOtp
    /\ account' = [WithPassword(run[h].password) EXCEPT !.resetOtp = 0, !.byReset = TRUE]
    /\ mail' = [mail EXCEPT ![run[h].code].uses = @ + 1]
    /\ Go(h, "disconnect")
    /\ UNCHANGED <<session, socket>>

(* changePassword, of somebody who is logged in.                           *)
StartChange(h, current, password) ==
    /\ account.status = "verified" /\ ~account.locked /\ ~account.google
    /\ account.password = current
    /\ BeginBlind(h, "change", password)
    /\ UNCHANGED <<account, mail, session, socket>>

(* Wrong: the sessions are left to their revocation.                       *)
ChangeOnly(h) ==
    /\ run[h].at = "change"
    /\ account' = [account EXCEPT !.password = run[h].password]
    /\ Go(h, "disconnect")
    /\ UNCHANGED <<mail, session, socket>>

(* It is saved over whatever the password is by now.                       *)
Change(h) ==
    /\ run[h].at = "change" /\ account.version < MaxVersion
    /\ account' = WithPassword(run[h].password)
    /\ Go(h, "disconnect")
    /\ UNCHANGED <<mail, session, socket>>

-----------------------------------------------------------------------------
(* Locks, revocation and sockets.                                          *)

Revoked ==
    [s \in Sessions |-> IF session[s].status = "live"
                        THEN [session[s] EXCEPT !.status = "revoked"] ELSE session[s]]

(* updateUserStatus of admin.service.                                      *)
LockAccount(h) ==
    /\ run[h].at = "idle" /\ account.status # "none"
    /\ account' = [account EXCEPT !.locked = TRUE]
    /\ Go(h, "disconnect")
    /\ UNCHANGED <<mail, session, socket>>

(* createViolation: the sessions are revoked in its transaction.           *)
Suspend(h) ==
    /\ run[h].at = "idle" /\ account.status # "none"
    /\ account' = [account EXCEPT !.locked = TRUE]
    /\ session' = Revoked
    /\ Go(h, "hangup")
    /\ UNCHANGED <<mail, socket>>

Unlock ==
    /\ account.locked
    /\ account' = [account EXCEPT !.locked = FALSE]
    /\ UNCHANGED <<mail, session, socket, run>>

(* disconnectUserSockets, of the sockets in the room of the user.          *)
DisconnectSockets(h) ==
    /\ run[h].at \in {"disconnect", "hangup"}
    /\ socket' = [k \in Sockets |-> IF socket[k].at \in {"joined", "checked"} THEN NoSocket
                                    ELSE socket[k]]
    /\ IF run[h].at = "disconnect" THEN Go(h, "revoke") ELSE End(h)
    /\ UNCHANGED <<account, mail, session>>

RevokeSessions(h) ==
    /\ run[h].at = "revoke"
    /\ session' = Revoked
    /\ End(h)
    /\ UNCHANGED <<account, mail, socket>>

(* The process stops.                                                      *)
Crash ==
    /\ run' = [h \in Handlers |-> Idle]
    /\ socket' = [k \in Sockets |-> NoSocket]
    /\ UNCHANGED <<account, mail, session>>

(* The handshake reads the user.                                           *)
Handshake(k) ==
    /\ socket[k].at = "none" /\ account.status = "verified" /\ ~account.locked
    /\ socket' = [socket EXCEPT ![k] = [at |-> "handshake", version |-> account.version]]
    /\ UNCHANGED <<account, mail, session, run>>

(* Wrong: the handshake is believed.                                       *)
JoinUnchecked(k) ==
    /\ socket[k].at = "handshake"
    /\ socket' = [socket EXCEPT ![k].at = "checked"]
    /\ UNCHANGED <<account, mail, session, run>>

(* The connection joins the room of the user ...                           *)
Join(k) ==
    /\ socket[k].at = "handshake"
    /\ socket' = [socket EXCEPT ![k].at = "joined"]
    /\ UNCHANGED <<account, mail, session, run>>

(* ... and the user is read again, as it is for every event.               *)
Recheck(k) ==
    /\ socket[k].at \in {"joined", "checked"}
    /\ socket' = IF account.locked \/ account.version # socket[k].version
                 THEN [socket EXCEPT ![k] = NoSocket]
                 ELSE [socket EXCEPT ![k].at = "checked"]
    /\ UNCHANGED <<account, mail, session, run>>

Close(k) ==
    /\ socket[k].at # "none"
    /\ socket' = [socket EXCEPT ![k] = NoSocket]
    /\ UNCHANGED <<account, mail, session, run>>

-----------------------------------------------------------------------------
Request(h) ==
    \/ Drop(h)
    \/ \E p \in Passwords : StartRegister(h, p) \/ StartLogin(h, p)
    \/ CreateAccount(h) \/ StartResend(h) \/ SendRegisterOtp(h)
    \/ \E c \in Codes \ {0} : StartVerify(h, c) \/ \E p \in Passwords : StartReset(h, c, p)
    \/ Verify(h) \/ StartOAuth(h)
    \/ \E google \in BOOLEAN : CreateByOAuth(h, google) \/ Link(h, google)
    \/ \E s \in Sessions : IssueTokens(h, s) \/ StartRefresh(h, s)
    \/ Refresh(h) \/ StartForgot(h) \/ Forgot(h) \/ Reset(h)
    \/ \E current, p \in Passwords : StartChange(h, current, p)
    \/ Change(h) \/ LockAccount(h) \/ Suspend(h) \/ DisconnectSockets(h) \/ RevokeSessions(h)

Next ==
    \/ \E h \in Handlers : Request(h)
    \/ \E s \in Sessions : RefuseLocked(s) \/ Logout(s)
    \/ \E k \in Sockets : Handshake(k) \/ Join(k) \/ Recheck(k) \/ Close(k)
    \/ Unlock \/ Crash

Spec == Init /\ [][Next]_vars

-----------------------------------------------------------------------------
(* Properties.                                                             *)

TypeOK ==
    /\ account \in AccountRecords
    /\ mail \in Seq(MailRecords) /\ Len(mail) <= MaxMails
    /\ session \in [Sessions -> SessionRecords]
    /\ socket \in [Sockets -> SocketRecords]
    /\ run \in [Handlers -> RunRecords]

(* Who is still let in belongs to the account as it is now.  A session     *)
(* that can be refreshed was opened with the password of now, whatever was *)
(* changed, reset, refreshed and cut off between: the version of its       *)
(* tokens is current under no other one.  And a socket that was checked    *)
(* after it joined the room of its user outlives a new password or a lock  *)
(* only until the request that set it disconnects the room                 *)
(* (auth.service.ts:805, utils/token.ts:6, initSocket.ts:113).             *)
OnlyCurrentStay ==
    /\ \A s \in Sessions :
          /\ session[s].status = "live" /\ session[s].version = account.version
          /\ session[s].opened # "oauth"
          => session[s].opened = account.password
    /\ \A k \in Sockets :
          socket[k].at = "checked" /\ (account.locked \/ socket[k].version # account.version)
             => \E h \in Handlers : run[h].at \in {"disconnect", "hangup"}

(* A code resets the password once, and not after a newer one has been     *)
(* mailed, however many requests found it (auth.service.ts:663).           *)
CodesUsedOnce ==
    [][\A c \in 1 .. Len(mail) :
          mail'[c].uses # mail[c].uses =>
              /\ mail[c].uses = 0
              /\ \A d \in 1 .. Len(mail) : d > c => mail[d].purpose # "reset"]_vars

(* Who confirms a registration confirms the password it was mailed for, or *)
(* one he has set himself with a code, and never the password of another   *)
(* registration of the address that was under way (auth.service.ts:219).   *)
ConfirmsOwnRegistration ==
    [][account.status = "unverified" /\ account'.status = "verified" /\ account'.password # None
         => account.byReset \/ mail[account.registerOtp].password = account'.password]_vars

=================================================================================
