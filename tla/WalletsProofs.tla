---------------------------- MODULE WalletsProofs ----------------------------
(***************************************************************************)
(* Theorems about Wallets, for any deposits, withdrawal requests, bank     *)
(* accounts and request handlers.  IInv adds to the safety invariants how  *)
(* far a deposit and its link have come together, that what a handler saw  *)
(* at PayOS is final when it acts on it, and that a request names an       *)
(* account that exists.                                                    *)
(***************************************************************************)
EXTENDS Wallets, FiniteSetTheorems, TLAPS

(* A deposit, its maker and its link.                                      *)
Sound(r) ==
    /\ r.status = "none" => r.maker = "none"
    /\ r.maker \in {"none", "linking"} => r.link = "none"
    /\ r.link = "paid" => r.maker = "shown"
    /\ r.status = "cancelled" => r.link = "cancelled"
    /\ r.status = "success" => r.link = "paid"

DepositsSound == \A d \in Deposits : Sound(deposit[d])

(* What a handler saw of a link that was paid or closed is still so.       *)
StillSeen(r) ==
    /\ r.at # "idle" => r.deposit \in Deposits
    /\ r.at = "reconcile" /\ r.seen \in Closed \cup {"paid"} => deposit[r.deposit].link = r.seen

RunsSeen == \A h \in Handlers : StillSeen(run[h])

(* A request has an account.                                               *)
RequestsHeld ==
    \A q \in Requests : request[q].status # "none" => account[request[q].account].status # "none"

IInv == /\ TypeOK /\ DepositsSound /\ RunsSeen /\ RequestsHeld
        /\ BooksBalance /\ RequestsKeepAccount /\ OneDefault

-----------------------------------------------------------------------------
(* Counting.                                                               *)

(* An element more, or less, in a finite set.                              *)
LEMMA OneMore ==
  ASSUME NEW S, IsFiniteSet(S), NEW x, x \notin S
  PROVE  /\ Cardinality(S) \in Nat
         /\ Cardinality(S \cup {x}) = Cardinality(S) + 1
BY FS_AddElement, FS_CardinalityType

LEMMA OneLess ==
  ASSUME NEW S, IsFiniteSet(S), NEW x \in S
  PROVE  /\ Cardinality(S) \in Nat
         /\ Cardinality(S \ {x}) = Cardinality(S) - 1
         /\ Cardinality(S) >= 1
<1>1. /\ Cardinality(S) \in Nat
      /\ Cardinality(S \ {x}) = Cardinality(S) - 1
      /\ Cardinality(S \ {x}) \in Nat
  BY FS_RemoveElement, FS_CardinalityType
<1> QED BY <1>1

LEMMA Finite == IsFiniteSet(Paid) /\ IsFiniteSet(Waiting) /\ IsFiniteSet(Gone)
<1>1. Paid \subseteq Deposits /\ Waiting \subseteq Requests /\ Gone \subseteq Requests
  BY DEF Paid, Waiting, Gone
<1> QED BY <1>1, FS_Subset, WalletsAssumption

-----------------------------------------------------------------------------
(* The initial states.                                                     *)

LEMMA InitIInv == ASSUME Init PROVE IInv
<1>1. SomeIdentity \in Identities
  <2>1. PICK n \in Numbers, i \in Holders : TRUE BY WalletsAssumption
  <2>2. [number |-> n, holder |-> i] \in Identities BY <2>1 DEF Identities
  <2> QED BY <2>2 DEF SomeIdentity
<1>2. (CHOOSE a \in Accounts : TRUE) \in Accounts BY WalletsAssumption
<1> HIDE DEF SomeIdentity
<1>3. deposit \in [Deposits -> DepositRecords] BY DEF Init, DepositRecords
<1>4. request \in [Requests -> RequestRecords]
  <2> DEFINE first == CHOOSE a \in Accounts : TRUE
  <2>1. first \in Accounts BY <1>2
  <2>2. request = [q \in Requests |-> [status |-> "none", account |-> first, made |-> SomeIdentity]]
    BY DEF Init
  <2> HIDE DEF first
  <2> QED BY <1>1, <2>1, <2>2 DEF RequestRecords
<1>5. account \in [Accounts -> AccountRecords] BY <1>1 DEF Init, AccountRecords
<1>6. run \in [Handlers -> Runs] BY DEF Init, Runs, Idle
<1>7. TypeOK
  <2>2. wallet \in [balance : Nat, pendingBalance : Nat] BY DEF Init
  <2>3. adjusted \in -MaxAdjusted .. MaxAdjusted BY WalletsAssumption DEF Init
  <2> QED BY <1>3, <1>4, <1>5, <1>6, <2>2, <2>3 DEF TypeOK
<1>8. DepositsSound BY DEF Init, DepositsSound, Sound
<1>9. RunsSeen BY DEF Init, RunsSeen, StillSeen, Idle
<1>10. RequestsHeld BY DEF Init, RequestsHeld
<1>11. BooksBalance
  <2>1. Paid = {} /\ Waiting = {} /\ Gone = {} BY DEF Init, Paid, Waiting, Gone
  <2> QED BY <2>1, FS_EmptySet DEF Init, BooksBalance
<1>12. RequestsKeepAccount BY DEF Init, RequestsKeepAccount
<1>13. OneDefault BY DEF Init, OneDefault
<1> QED BY <1>7, <1>8, <1>9, <1>10, <1>11, <1>12, <1>13 DEF IInv

-----------------------------------------------------------------------------
(* Bank accounts.                                                          *)

(* What every operation on accounts keeps: accounts do not vanish, those   *)
(* with requests keep their identity, those with pending ones stay active. *)
LEMMA AccountsChange ==
  ASSUME IInv, UNCHANGED <<wallet, adjusted, deposit, request, run>>,
         account' \in [Accounts -> AccountRecords],
         \A a \in Accounts :
            /\ account[a].status # "none" => account'[a].status # "none"
            /\ RequestsOf(a) # {} => account'[a].identity = account[a].identity
            /\ PendingOf(a) # {} /\ account[a].status = "active" => account'[a].status = "active",
         OneDefault'
  PROVE  IInv'
<1>1. TypeOK' BY DEF IInv, TypeOK
<1>2. DepositsSound' /\ RunsSeen' BY DEF IInv, DepositsSound, RunsSeen, StillSeen
<1>3. BooksBalance' BY DEF IInv, BooksBalance, Paid, Waiting, Gone
<1>4. \A q \in Requests : request[q].account \in Accounts
  BY DEF IInv, TypeOK, RequestRecords
<1>5. RequestsHeld' BY <1>4 DEF IInv, RequestsHeld
<1>6. RequestsKeepAccount'
  <2> SUFFICES ASSUME NEW q \in Requests
               PROVE  /\ request[q].status = "pending" => account'[request[q].account].status = "active"
                      /\ request[q].status \notin {"none", "choosing"} =>
                           account'[request[q].account].identity = request[q].made
    BY DEF RequestsKeepAccount
  <2>1. request[q].status \notin {"none", "choosing"} => q \in RequestsOf(request[q].account)
    BY DEF RequestsOf
  <2>2. request[q].status = "pending" => q \in PendingOf(request[q].account)
    BY <2>1 DEF PendingOf
  <2> QED BY <1>4, <2>1, <2>2 DEF IInv, RequestsKeepAccount
<1> QED BY <1>1, <1>2, <1>3, <1>5, <1>6 DEF IInv

(* A pending request makes its account active.                             *)
LEMMA PendingActive ==
  ASSUME IInv, NEW a \in Accounts, PendingOf(a) # {}
  PROVE  account[a].status = "active"
BY DEF IInv, RequestsKeepAccount, PendingOf, RequestsOf

(* WithDefault leaves at most one default account.                         *)
LEMMA WithDefaultFits ==
  ASSUME IInv, NEW a \in Accounts, NEW r \in AccountRecords,
         r.status = "active", account' = WithDefault(a, r),
         account[a].isDefault => r.isDefault
  PROVE  /\ account' \in [Accounts -> AccountRecords]
         /\ account'[a] = r
         /\ \A b \in Accounts \ {a} : /\ account'[b].status = account[b].status
                                      /\ account'[b].identity = account[b].identity
         /\ OneDefault'
<1>1. account \in [Accounts -> AccountRecords] BY DEF IInv, TypeOK
<1>2. \A b \in Accounts : account'[b] = IF b = a THEN r
        ELSE IF r.isDefault /\ b \in Kept THEN [account[b] EXCEPT !.isDefault = FALSE]
        ELSE account[b]
  BY DEF WithDefault
<1>3. \A b \in Accounts : [account[b] EXCEPT !.isDefault = FALSE] \in AccountRecords
  BY <1>1 DEF AccountRecords
<1>4. account' \in [Accounts -> AccountRecords] BY <1>1, <1>2, <1>3 DEF WithDefault
<1>5. \A b \in Accounts \ {a} : /\ account'[b].status = account[b].status
                                /\ account'[b].identity = account[b].identity
  BY <1>1, <1>2 DEF AccountRecords
<1>6. \A b \in Accounts \ {a} : account'[b].isDefault => account[b].isDefault /\ ~r.isDefault
  <2> TAKE b \in Accounts \ {a}
  <2>1. account[b].isDefault => b \in Kept BY DEF IInv, OneDefault
  <2> QED BY <1>1, <1>2, <2>1 DEF AccountRecords
<1>7. OneDefault'
  <2>1. \A b, c \in Accounts : account'[b].isDefault /\ account'[c].isDefault => b = c
    BY <1>2, <1>6 DEF IInv, OneDefault
  <2>2. \A b \in Accounts : account'[b].isDefault => b \in Kept'
    BY <1>2, <1>5, <1>6 DEF IInv, OneDefault, Kept
  <2> QED BY <2>1, <2>2 DEF OneDefault
<1> QED BY <1>2, <1>4, <1>5, <1>7

LEMMA AddAccount ==
  ASSUME IInv, NEW a \in Accounts, NEW i \in Identities, NEW asked \in BOOLEAN,
         CreateAccount(a, i, asked) \/ RestoreAccount(a, i, asked)
  PROVE  IInv'
<1> DEFINE r == [status |-> "active", isDefault |-> asked \/ Kept = {}, identity |-> i]
<1>1. r \in AccountRecords BY DEF AccountRecords
<1>2. a \notin Kept BY DEF Kept, CreateAccount, RestoreAccount
<1>3. ~account[a].isDefault BY <1>2 DEF IInv, OneDefault
<1>4. account' = WithDefault(a, r) BY DEF CreateAccount, RestoreAccount
<1>5. UNCHANGED <<wallet, adjusted, deposit, request, run>> BY DEF CreateAccount, RestoreAccount
<1>6. RequestsOf(a) # {} => i = account[a].identity
  <2>1. CASE CreateAccount(a, i, asked)
    <3>1. account[a].status = "none" BY <2>1 DEF CreateAccount
    <3> QED BY <3>1 DEF IInv, RequestsHeld, RequestsOf
  <2>2. CASE RestoreAccount(a, i, asked) BY <2>2 DEF RestoreAccount, MayBecome
  <2> QED BY <2>1, <2>2
<1>7. r.status = "active" /\ r.identity = i OBVIOUS
<1> HIDE DEF r
<1>8. /\ account' \in [Accounts -> AccountRecords] /\ account'[a] = r /\ OneDefault'
      /\ \A b \in Accounts \ {a} : /\ account'[b].status = account[b].status
                                   /\ account'[b].identity = account[b].identity
  BY <1>1, <1>3, <1>4, <1>7, WithDefaultFits
<1> QED BY <1>5, <1>6, <1>7, <1>8, AccountsChange

LEMMA SetDefaultStep ==
  ASSUME IInv, NEW a \in Accounts, NEW i \in Identities, SetDefault(a, i)
  PROVE  IInv'
<1> DEFINE r == [status |-> "active", isDefault |-> TRUE, identity |-> i]
<1>1. r \in AccountRecords BY DEF AccountRecords
<1>2. account' = WithDefault(a, r) BY DEF SetDefault
<1>3. RequestsOf(a) # {} => i = account[a].identity BY DEF SetDefault, MayBecome
<1>4. r.status = "active" /\ r.identity = i /\ r.isDefault OBVIOUS
<1> HIDE DEF r
<1>5. /\ account' \in [Accounts -> AccountRecords] /\ account'[a] = r /\ OneDefault'
      /\ \A b \in Accounts \ {a} : /\ account'[b].status = account[b].status
                                   /\ account'[b].identity = account[b].identity
  BY <1>1, <1>2, <1>4, WithDefaultFits
<1> QED BY <1>3, <1>4, <1>5, AccountsChange DEF SetDefault

LEMMA UpdateAccountStep ==
  ASSUME IInv, NEW a \in Accounts, NEW i \in Identities, NEW isDefault \in BOOLEAN,
         NEW s \in {"active", "inactive"}, UpdateAccount(a, i, isDefault, s)
  PROVE  IInv'
<1> DEFINE r == [status |-> s, isDefault |-> isDefault, identity |-> i]
<1>1. account \in [Accounts -> AccountRecords] BY DEF IInv, TypeOK
<1>2. r \in AccountRecords BY DEF AccountRecords
<1>3. \A b \in Accounts : account'[b] = IF b = a THEN r ELSE account[b]
  BY <1>1 DEF UpdateAccount
<1>4. account' \in [Accounts -> AccountRecords] BY <1>1, <1>2 DEF UpdateAccount
<1>5. isDefault => account[a].isDefault BY DEF UpdateAccount
<1>6. OneDefault'
  <2>1. \A b \in Accounts : account'[b].isDefault => account[b].isDefault BY <1>3, <1>5
  <2>2. \A b \in Accounts : account'[b].isDefault => b \in Kept'
    BY <1>3, <2>1 DEF IInv, OneDefault, Kept
  <2> QED BY <2>1, <2>2 DEF IInv, OneDefault
<1>7. RequestsOf(a) # {} => i = account[a].identity BY DEF UpdateAccount, MayBecome
<1>8. PendingOf(a) # {} => s = "active"
  BY PendingActive DEF UpdateAccount, MayRest
<1> QED BY <1>3, <1>4, <1>6, <1>7, <1>8, AccountsChange DEF UpdateAccount

LEMMA DeleteAccountStep ==
  ASSUME IInv, NEW a \in Accounts, DeleteAccount(a)
  PROVE  IInv'
<1> DEFINE rest == Kept \ {a}
           active == {b \in rest : account[b].status = "active"}
           promoted == {b \in active : /\ \A c \in rest : ~account[c].isDefault
                                       /\ \A c \in active : c <= b}
<1>1. account \in [Accounts -> AccountRecords] BY DEF IInv, TypeOK
<1>2. \A b \in Accounts : account'[b] =
        IF b = a THEN [account[a] EXCEPT !.status = "deleted", !.isDefault = FALSE]
        ELSE IF b \in promoted THEN [account[b] EXCEPT !.isDefault = TRUE] ELSE account[b]
  BY DEF DeleteAccount
<1>3. promoted \subseteq Accounts \ {a} /\ promoted \subseteq Kept BY DEF Kept
<1>4. \A b, c \in promoted : b = c
  <2> TAKE b, c \in promoted
  <2>1. b <= c /\ c <= b OBVIOUS
  <2>2. b \in Nat /\ c \in Nat BY <1>3, WalletsAssumption
  <2> QED BY <2>1, <2>2
<1>5. \A b \in promoted, c \in Accounts \ {a} : ~account[c].isDefault
  BY DEF IInv, OneDefault
<1>6. UNCHANGED <<wallet, adjusted, deposit, request, run>> /\ PendingOf(a) = {}
  BY DEF DeleteAccount, MayRest
<1>7. account' \in [Accounts -> AccountRecords]
  <2>1. /\ [account[a] EXCEPT !.status = "deleted", !.isDefault = FALSE] \in AccountRecords
        /\ \A b \in Accounts : [account[b] EXCEPT !.isDefault = TRUE] \in AccountRecords
    BY <1>1 DEF AccountRecords
  <2>2. account' = [b \in Accounts |->
                     IF b = a THEN [account[a] EXCEPT !.status = "deleted", !.isDefault = FALSE]
                     ELSE IF b \in promoted THEN [account[b] EXCEPT !.isDefault = TRUE]
                     ELSE account[b]]
    BY DEF DeleteAccount
  <2> HIDE DEF promoted
  <2> QED BY <1>1, <2>1, <2>2
<1> HIDE DEF promoted
<1>8. /\ ~account'[a].isDefault /\ account'[a].status = "deleted"
      /\ account'[a].identity = account[a].identity
      /\ \A b \in Accounts \ {a} :
            /\ account'[b].status = account[b].status
            /\ account'[b].identity = account[b].identity
            /\ account'[b].isDefault => account[b].isDefault \/ b \in promoted
  BY <1>1, <1>2 DEF AccountRecords
<1>9. OneDefault'
  <2>1. \A b, c \in Accounts : account'[b].isDefault /\ account'[c].isDefault => b = c
    BY <1>3, <1>4, <1>5, <1>8 DEF IInv, OneDefault
  <2>2. \A b \in Accounts : account'[b].isDefault => b \in Kept'
    BY <1>3, <1>8 DEF IInv, OneDefault, Kept
  <2> QED BY <2>1, <2>2 DEF OneDefault
<1> QED BY <1>6, <1>7, <1>8, <1>9, AccountsChange

-----------------------------------------------------------------------------
(* Withdrawals.                                                            *)

(* A step that changes one request: r is what it becomes.                  *)
LEMMA RequestChange ==
  ASSUME IInv, NEW q \in Requests, NEW r \in RequestRecords,
         request' = [request EXCEPT ![q] = r],
         UNCHANGED <<adjusted, deposit, account, run>>,
         wallet' \in [balance : Nat, pendingBalance : Nat],
         r.status # "none" => account[r.account].status # "none",
         r.status = "pending" => account[r.account].status = "active",
         r.status \notin {"none", "choosing"} => account[r.account].identity = r.made,
         BooksBalance'
  PROVE  IInv'
<1>1. request \in [Requests -> RequestRecords] BY DEF IInv, TypeOK
<1>2. \A x \in Requests : request'[x] = IF x = q THEN r ELSE request[x] BY <1>1
<1>3. request' \in [Requests -> RequestRecords] BY <1>1
<1>4. TypeOK' BY <1>3 DEF IInv, TypeOK
<1>5. DepositsSound' /\ RunsSeen' BY DEF IInv, DepositsSound, RunsSeen, StillSeen
<1>6. RequestsHeld' BY <1>2 DEF IInv, RequestsHeld
<1>7. RequestsKeepAccount' BY <1>2 DEF IInv, RequestsKeepAccount
<1>8. OneDefault' BY DEF IInv, OneDefault, Kept
<1> QED BY <1>4, <1>5, <1>6, <1>7, <1>8 DEF IInv

LEMMA ChooseAccountStep ==
  ASSUME IInv, NEW q \in Requests, NEW a \in Accounts, ChooseAccount(q, a)
  PROVE  IInv'
<1> DEFINE r == [request[q] EXCEPT !.status = "choosing", !.account = a]
<1>1. request \in [Requests -> RequestRecords] BY DEF IInv, TypeOK
<1>2. r \in RequestRecords /\ r.status = "choosing" /\ r.account = a
  BY <1>1 DEF RequestRecords
<1>3. request' = [request EXCEPT ![q] = r] BY <1>1 DEF ChooseAccount
<1>4. account[a].status # "none" BY DEF ChooseAccount
<1> HIDE DEF r
<1>5. \A x \in Requests : request'[x] = IF x = q THEN r ELSE request[x] BY <1>1, <1>3
<1>6. Waiting' = Waiting /\ Gone' = Gone /\ Paid' = Paid
  BY <1>2, <1>5 DEF Waiting, Gone, Paid, ChooseAccount
<1>7. BooksBalance' BY <1>6 DEF IInv, BooksBalance, ChooseAccount
<1>8. wallet' \in [balance : Nat, pendingBalance : Nat] BY DEF IInv, TypeOK, ChooseAccount
<1> QED BY <1>2, <1>3, <1>4, <1>7, <1>8, RequestChange DEF ChooseAccount

LEMMA CreateWithdrawalStep ==
  ASSUME IInv, NEW q \in Requests, CreateWithdrawal(q)
  PROVE  IInv'
<1> DEFINE a == request[q].account
           r == [request[q] EXCEPT !.status = "pending", !.made = account[a].identity]
           s == [request[q] EXCEPT !.status = "none"]
<1>1. /\ request \in [Requests -> RequestRecords] /\ account \in [Accounts -> AccountRecords]
      /\ wallet \in [balance : Nat, pendingBalance : Nat] /\ adjusted \in Int
  BY DEF IInv, TypeOK
<1>2. a \in Accounts /\ account[a].identity \in Identities BY <1>1 DEF RequestRecords, AccountRecords
<1>3. request[q].status = "choosing" BY DEF CreateWithdrawal
<1>4. CASE account[a].status = "active" /\ wallet.balance >= 1
  <2>1. r \in RequestRecords /\ r.status = "pending" /\ r.account = a
        /\ r.made = account[a].identity
    BY <1>1, <1>2 DEF RequestRecords
  <2>2. request' = [request EXCEPT ![q] = r] BY <1>1, <1>4 DEF CreateWithdrawal
  <2> HIDE DEF r
  <2>3. \A x \in Requests : request'[x] = IF x = q THEN r ELSE request[x] BY <1>1, <2>2
  <2>4. Waiting' = Waiting \cup {q} /\ Gone' = Gone /\ Paid' = Paid /\ q \notin Waiting
    BY <1>3, <2>1, <2>3 DEF Waiting, Gone, Paid, CreateWithdrawal
  <2>5. Cardinality(Waiting') = Cardinality(Waiting) + 1 /\ Cardinality(Waiting) \in Nat
    BY <2>4, Finite, OneMore
  <2>6. wallet' = [balance |-> wallet.balance - 1, pendingBalance |-> wallet.pendingBalance + 1]
        /\ adjusted' = adjusted
    BY <1>4 DEF CreateWithdrawal
  <2>7. Cardinality(Paid) \in Nat /\ Cardinality(Gone) \in Nat BY Finite, FS_CardinalityType
  <2>8. BooksBalance'
    BY <1>1, <2>4, <2>5, <2>6, <2>7 DEF IInv, BooksBalance
  <2>9. wallet' \in [balance : Nat, pendingBalance : Nat] BY <1>1, <1>4, <2>6
  <2> QED BY <1>2, <1>4, <2>1, <2>2, <2>8, <2>9, RequestChange DEF CreateWithdrawal
<1>5. CASE ~(account[a].status = "active" /\ wallet.balance >= 1)
  <2>1. s \in RequestRecords /\ s.status = "none" BY <1>1 DEF RequestRecords
  <2>2. request' = [request EXCEPT ![q] = s] /\ UNCHANGED wallet
    BY <1>1, <1>5 DEF CreateWithdrawal
  <2> HIDE DEF s
  <2>3. \A x \in Requests : request'[x] = IF x = q THEN s ELSE request[x] BY <1>1, <2>2
  <2>4. Waiting' = Waiting /\ Gone' = Gone /\ Paid' = Paid
    BY <1>3, <2>1, <2>3 DEF Waiting, Gone, Paid, CreateWithdrawal
  <2>5. BooksBalance' BY <2>2, <2>4 DEF IInv, BooksBalance, CreateWithdrawal
  <2> QED BY <1>1, <2>1, <2>2, <2>5, RequestChange DEF CreateWithdrawal
<1> QED BY <1>4, <1>5

(* Approval and rejection.                                                 *)
LEMMA ReviewStep ==
  ASSUME IInv, NEW q \in Requests, ApproveWithdrawal(q) \/ RejectWithdrawal(q)
  PROVE  IInv'
<1> DEFINE end == IF ApproveWithdrawal(q) THEN "approved" ELSE "rejected"
           r == [request[q] EXCEPT !.status = end]
<1>1. /\ request \in [Requests -> RequestRecords]
      /\ wallet \in [balance : Nat, pendingBalance : Nat] /\ adjusted \in Int
  BY DEF IInv, TypeOK
<1>2. request[q].status = "pending" /\ UNCHANGED <<adjusted, deposit, account, run>>
      /\ wallet.pendingBalance >= 1
  BY DEF ApproveWithdrawal, RejectWithdrawal
<1>3. \/ /\ end = "approved"
         /\ request' = [request EXCEPT ![q].status = "approved"]
         /\ wallet' = [wallet EXCEPT !.pendingBalance = @ - 1]
      \/ /\ end = "rejected"
         /\ request' = [request EXCEPT ![q].status = "rejected"]
         /\ wallet' = [balance |-> wallet.balance + 1, pendingBalance |-> wallet.pendingBalance - 1]
  BY DEF ApproveWithdrawal, RejectWithdrawal
<1> HIDE DEF end
<1>4. end \in {"approved", "rejected"} BY <1>3
<1>5. r \in RequestRecords /\ r.status = end /\ r.account = request[q].account
      /\ r.made = request[q].made
  BY <1>1, <1>4 DEF RequestRecords
<1>6. request' = [request EXCEPT ![q] = r] BY <1>1, <1>3
<1> HIDE DEF r
<1>7. \A x \in Requests : request'[x] = IF x = q THEN r ELSE request[x] BY <1>1, <1>6
<1>8. Waiting' = Waiting \ {q} /\ q \in Waiting /\ Paid' = Paid /\ q \notin Gone
      /\ Gone' = IF end = "approved" THEN Gone \cup {q} ELSE Gone
  BY <1>2, <1>4, <1>5, <1>7 DEF Waiting, Gone, Paid
<1>9. /\ Cardinality(Waiting') = Cardinality(Waiting) - 1 /\ Cardinality(Waiting) \in Nat
      /\ Cardinality(Paid) \in Nat /\ Cardinality(Gone) \in Nat
      /\ Cardinality(Gone \cup {q}) = Cardinality(Gone) + 1
  BY <1>8, Finite, OneLess, OneMore, FS_CardinalityType
<1>10. wallet' \in [balance : Nat, pendingBalance : Nat] BY <1>1, <1>2, <1>3
<1>11. BooksBalance'
  BY <1>1, <1>2, <1>3, <1>8, <1>9 DEF IInv, BooksBalance
<1>12. /\ account[request[q].account].status # "none"
       /\ account[request[q].account].identity = request[q].made
  BY <1>2 DEF IInv, RequestsHeld, RequestsKeepAccount
<1> QED BY <1>2, <1>4, <1>5, <1>6, <1>10, <1>11, <1>12, RequestChange

LEMMA AdjustStep ==
  ASSUME IInv, NEW n \in {-1, 1}, AdjustWallet(n)
  PROVE  IInv'
<1>1. wallet \in [balance : Nat, pendingBalance : Nat] /\ adjusted \in Int
  BY DEF IInv, TypeOK
<1>2. /\ wallet' = [wallet EXCEPT !.balance = @ + n] /\ adjusted' = adjusted + n
      /\ UNCHANGED <<deposit, request, account, run>> /\ wallet.balance + n >= 0
      /\ adjusted' \in -MaxAdjusted .. MaxAdjusted
  BY DEF AdjustWallet
<1>3. wallet' \in [balance : Nat, pendingBalance : Nat] BY <1>1, <1>2
<1>4. TypeOK' BY <1>2, <1>3 DEF IInv, TypeOK
<1>5. Cardinality(Paid) \in Nat /\ Cardinality(Gone) \in Nat BY Finite, FS_CardinalityType
<1>6. Paid' = Paid /\ Gone' = Gone /\ Waiting' = Waiting BY <1>2 DEF Paid, Gone, Waiting
<1>7. BooksBalance' BY <1>1, <1>2, <1>5, <1>6 DEF IInv, BooksBalance
<1>8. DepositsSound' /\ RunsSeen' /\ RequestsHeld' /\ RequestsKeepAccount' /\ OneDefault'
  BY <1>2 DEF IInv, DepositsSound, RunsSeen, StillSeen, RequestsHeld, RequestsKeepAccount,
              OneDefault, Kept
<1> QED BY <1>4, <1>7, <1>8 DEF IInv

-----------------------------------------------------------------------------
(* Deposits.                                                               *)

(* A handler as it was, or one that asks again or has ended.               *)
RunKept(h) ==
    \/ run'[h] = run[h]
    \/ run'[h] \in Runs /\ run'[h].at = "check" /\ run'[h].deposit \in Deposits
    \/ run'[h] = Idle

(* A step that changes one deposit: r is what it becomes.  It counts from  *)
(* now on, or as before; a link that is paid or closed stays so.           *)
LEMMA DepositChange ==
  ASSUME IInv, NEW d \in Deposits, NEW r \in DepositRecords, Sound(r),
         deposit' = [deposit EXCEPT ![d] = r],
         UNCHANGED <<adjusted, request, account>>,
         run' \in [Handlers -> Runs], \A h \in Handlers : RunKept(h),
         deposit[d].link \in Closed \cup {"paid"} => r.link = deposit[d].link,
         \/ /\ r.status = "success" /\ deposit[d].status # "success"
            /\ wallet' = [wallet EXCEPT !.balance = @ + 1]
         \/ /\ r.status = "success" <=> deposit[d].status = "success"
            /\ wallet' = wallet
  PROVE  IInv'
<1>1. /\ deposit \in [Deposits -> DepositRecords] /\ adjusted \in Int
      /\ wallet \in [balance : Nat, pendingBalance : Nat]
  BY DEF IInv, TypeOK
<1>2. \A x \in Deposits : deposit'[x] = IF x = d THEN r ELSE deposit[x] BY <1>1
<1>3. deposit' \in [Deposits -> DepositRecords] BY <1>1
<1>4. wallet' \in [balance : Nat, pendingBalance : Nat] BY <1>1
<1>5. TypeOK' BY <1>3, <1>4 DEF IInv, TypeOK
<1>6. DepositsSound' BY <1>2 DEF IInv, DepositsSound, Sound
<1>7. RunsSeen'
  <2> SUFFICES ASSUME NEW h \in Handlers PROVE StillSeen(run[h])' BY DEF RunsSeen
  <2>1. CASE run'[h] = run[h]
    <3>1. StillSeen(run[h]) BY DEF IInv, RunsSeen
    <3> QED BY <1>2, <2>1, <3>1 DEF StillSeen, Closed
  <2>2. CASE run'[h] \in Runs /\ run'[h].at = "check" /\ run'[h].deposit \in Deposits
    BY <2>2 DEF StillSeen
  <2>3. CASE run'[h] = Idle BY <2>3 DEF StillSeen, Idle
  <2> QED BY <2>1, <2>2, <2>3 DEF RunKept
<1>8. Waiting' = Waiting /\ Gone' = Gone BY DEF Waiting, Gone
<1>9. Cardinality(Paid) \in Nat /\ Cardinality(Gone) \in Nat BY Finite, FS_CardinalityType
<1>10. BooksBalance'
  <2>1. CASE /\ r.status = "success" /\ deposit[d].status # "success"
             /\ wallet' = [wallet EXCEPT !.balance = @ + 1]
    <3>1. Paid' = Paid \cup {d} /\ d \notin Paid BY <1>2, <2>1 DEF Paid
    <3>2. Cardinality(Paid') = Cardinality(Paid) + 1 BY <3>1, Finite, OneMore
    <3> QED BY <1>1, <1>8, <1>9, <2>1, <3>2 DEF IInv, BooksBalance
  <2>2. CASE (r.status = "success" <=> deposit[d].status = "success") /\ wallet' = wallet
    <3>1. Paid' = Paid BY <1>2, <2>2 DEF Paid
    <3> QED BY <1>8, <2>2, <3>1 DEF IInv, BooksBalance
  <2> QED BY <2>1, <2>2
<1>11. RequestsHeld' /\ RequestsKeepAccount' /\ OneDefault'
  BY DEF IInv, RequestsHeld, RequestsKeepAccount, OneDefault, Kept
<1> QED BY <1>5, <1>6, <1>7, <1>10, <1>11 DEF IInv

LEMMA RecordDepositStep ==
  ASSUME IInv, NEW d \in Deposits, RecordDeposit(d)
  PROVE  IInv'
<1> DEFINE r == [deposit[d] EXCEPT !.status = "pending", !.maker = "linking"]
<1>1. /\ deposit \in [Deposits -> DepositRecords] /\ run \in [Handlers -> Runs]
      /\ Sound(deposit[d])
  BY DEF IInv, TypeOK, DepositsSound
<1>2. r \in DepositRecords BY <1>1 DEF DepositRecords
<1>3. deposit[d].status = "none" /\ deposit[d].link = "none"
  BY <1>1 DEF RecordDeposit, Sound
<1>4. Sound(r) /\ r.link = "none" /\ r.status = "pending"
  BY <1>1, <1>3 DEF DepositRecords, Sound
<1>5. deposit' = [deposit EXCEPT ![d] = r] BY <1>1 DEF RecordDeposit, DepositRecords
<1>6. run' = run /\ wallet' = wallet /\ UNCHANGED <<adjusted, request, account>>
  BY DEF RecordDeposit
<1>7. \A h \in Handlers : RunKept(h) BY <1>6 DEF RunKept
<1> HIDE DEF r
<1> QED BY <1>1, <1>2, <1>3, <1>4, <1>5, <1>6, <1>7, DepositChange

(* A deposit that is being made; it is not paid yet.                       *)
LEMMA MakeStep ==
  ASSUME IInv, NEW d \in Deposits, CreateLink(d) \/ SaveLink(d)
  PROVE  IInv'
<1>1. /\ deposit \in [Deposits -> DepositRecords] /\ run \in [Handlers -> Runs]
      /\ Sound(deposit[d]) /\ deposit[d] \in DepositRecords
  BY DEF IInv, TypeOK, DepositsSound
<1>2. PICK r : /\ deposit' = [deposit EXCEPT ![d] = r]
               /\ r \in DepositRecords /\ Sound(r) /\ r.status # "success"
               /\ deposit[d].link \in Closed \cup {"paid"} => r.link = deposit[d].link
               /\ deposit[d].status # "success"
  <2>1. CASE CreateLink(d)
    <3>1. /\ deposit[d].maker = "linking" /\ deposit[d].link = "none"
          /\ deposit[d].status \notin {"success", "cancelled", "none"}
      BY <1>1, <2>1 DEF CreateLink, Sound
    <3>2. CASE deposit' = [deposit EXCEPT ![d].link = "open", ![d].maker = "saving"]
      <4> DEFINE r == [deposit[d] EXCEPT !.link = "open", !.maker = "saving"]
      <4>1. r \in DepositRecords /\ Sound(r) /\ r.status # "success"
        BY <1>1, <3>1 DEF DepositRecords, Sound
      <4>2. deposit' = [deposit EXCEPT ![d] = r] BY <1>1, <3>2
      <4> HIDE DEF r
      <4> QED BY <3>1, <4>1, <4>2 DEF Closed
    <3>3. ASSUME NEW l \in {"open", "none"},
                 deposit' = [deposit EXCEPT ![d].link = l, ![d].maker = "over",
                                            ![d].status = "failed"]
          PROVE \E r : /\ deposit' = [deposit EXCEPT ![d] = r]
                       /\ r \in DepositRecords /\ Sound(r) /\ r.status # "success"
                       /\ deposit[d].link \in Closed \cup {"paid"} => r.link = deposit[d].link
                       /\ deposit[d].status # "success"
      <4> DEFINE r == [deposit[d] EXCEPT !.link = l, !.maker = "over", !.status = "failed"]
      <4>1. r \in DepositRecords /\ Sound(r) /\ r.status # "success"
        BY <1>1, <3>1 DEF DepositRecords, Sound
      <4>2. deposit' = [deposit EXCEPT ![d] = r] BY <1>1, <3>3
      <4> HIDE DEF r
      <4> QED BY <3>1, <4>1, <4>2 DEF Closed
    <3> QED BY <2>1, <3>2, <3>3 DEF CreateLink
  <2>2. CASE SaveLink(d)
    <3>1. /\ deposit[d].maker = "saving" /\ deposit[d].link # "paid"
          /\ deposit[d].status \notin {"success", "none"}
      BY <1>1, <2>2 DEF SaveLink, Sound
    <3>2. CASE deposit' = [deposit EXCEPT ![d].maker = "shown"]
      <4> DEFINE r == [deposit[d] EXCEPT !.maker = "shown"]
      <4>1. r \in DepositRecords /\ Sound(r) /\ r.status # "success" /\ r.link = deposit[d].link
        BY <1>1, <3>1 DEF DepositRecords, Sound
      <4>2. deposit' = [deposit EXCEPT ![d] = r] BY <1>1, <3>2
      <4> HIDE DEF r
      <4> QED BY <3>1, <4>1, <4>2
    <3>3. CASE deposit' = [deposit EXCEPT ![d].maker = "over", ![d].status = "failed"]
      <4> DEFINE r == [deposit[d] EXCEPT !.maker = "over", !.status = "failed"]
      <4>1. r \in DepositRecords /\ Sound(r) /\ r.status # "success" /\ r.link = deposit[d].link
        BY <1>1, <3>1 DEF DepositRecords, Sound
      <4>2. deposit' = [deposit EXCEPT ![d] = r] BY <1>1, <3>3
      <4> HIDE DEF r
      <4> QED BY <3>1, <4>1, <4>2
    <3> QED BY <2>2, <3>2, <3>3 DEF SaveLink
  <2> QED BY <2>1, <2>2
<1>3. run' = run /\ wallet' = wallet /\ UNCHANGED <<adjusted, request, account>>
  BY DEF CreateLink, SaveLink
<1>4. \A h \in Handlers : RunKept(h) BY <1>3 DEF RunKept
<1> QED BY <1>1, <1>2, <1>3, <1>4, DepositChange

(* What happens to an open link at PayOS.                                  *)
LEMMA LinkStep ==
  ASSUME IInv, NEW d \in Deposits, PayLink(d) \/ ExpireLink(d)
  PROVE  IInv'
<1> DEFINE end == IF PayLink(d) THEN "paid" ELSE "expired"
           r == [deposit[d] EXCEPT !.link = end]
<1>1. /\ deposit \in [Deposits -> DepositRecords] /\ run \in [Handlers -> Runs]
      /\ Sound(deposit[d]) /\ deposit[d] \in DepositRecords
  BY DEF IInv, TypeOK, DepositsSound
<1>2. /\ deposit[d].link = "open" /\ UNCHANGED <<wallet, adjusted, request, account, run>>
      /\ deposit[d].status \notin {"cancelled", "success", "none"}
  BY <1>1 DEF PayLink, ExpireLink, Sound
<1>3. /\ end \in {"paid", "expired"} /\ (end = "paid" => deposit[d].maker = "shown")
      /\ deposit' = [deposit EXCEPT ![d].link = end]
  <2>1. CASE PayLink(d) BY <2>1 DEF PayLink
  <2>2. CASE ~PayLink(d) BY <2>2 DEF ExpireLink
  <2> QED BY <2>1, <2>2
<1> HIDE DEF end
<1>4. r \in DepositRecords /\ r.status = deposit[d].status /\ r.maker = deposit[d].maker
      /\ r.link = end
  BY <1>1, <1>3 DEF DepositRecords
<1>5. deposit' = [deposit EXCEPT ![d] = r] BY <1>1, <1>3
<1> HIDE DEF r
<1>6. Sound(r) BY <1>1, <1>2, <1>3, <1>4 DEF Sound
<1>7. \A h \in Handlers : RunKept(h) BY <1>2 DEF RunKept
<1>8. deposit[d].link \notin Closed \cup {"paid"} BY <1>2 DEF Closed
<1> QED BY <1>1, <1>2, <1>4, <1>5, <1>6, <1>7, <1>8, DepositChange

(* A step that leaves deposits and wallet alone and ends a handler, or     *)
(* makes it ask again.                                                     *)
LEMMA RunChange ==
  ASSUME IInv, UNCHANGED <<wallet, adjusted, deposit, request, account>>,
         run' \in [Handlers -> Runs], RunsSeen'
  PROVE  IInv'
<1>1. TypeOK' BY DEF IInv, TypeOK
<1>2. DepositsSound' /\ RequestsHeld' /\ RequestsKeepAccount' /\ OneDefault' /\ BooksBalance'
  BY DEF IInv, DepositsSound, RequestsHeld, RequestsKeepAccount, OneDefault, Kept,
         BooksBalance, Paid, Waiting, Gone
<1> QED BY <1>1, <1>2 DEF IInv

LEMMA KeptRunsSeen ==
  ASSUME IInv, UNCHANGED deposit, \A h \in Handlers : RunKept(h)
  PROVE  RunsSeen'
<1> SUFFICES ASSUME NEW h \in Handlers PROVE StillSeen(run[h])' BY DEF RunsSeen
<1>1. CASE run'[h] = run[h] BY <1>1 DEF IInv, RunsSeen, StillSeen
<1>2. CASE run'[h] \in Runs /\ run'[h].at = "check" /\ run'[h].deposit \in Deposits
  BY <1>2 DEF StillSeen
<1>3. CASE run'[h] = Idle BY <1>3 DEF StillSeen, Idle
<1> QED BY <1>1, <1>2, <1>3 DEF RunKept

(* A deposit that was paid counts, once.                                   *)
LEMMA MarkSuccessKeeps ==
  ASSUME IInv, NEW d \in Deposits, deposit[d].link = "paid", MarkSuccess(d),
         UNCHANGED <<adjusted, request, account>>,
         run' \in [Handlers -> Runs], \A h \in Handlers : RunKept(h)
  PROVE  IInv'
<1>1. /\ deposit \in [Deposits -> DepositRecords] /\ Sound(deposit[d])
      /\ deposit[d] \in DepositRecords
  BY DEF IInv, TypeOK, DepositsSound
<1>2. CASE deposit[d].status = "success"
  <2>1. UNCHANGED <<wallet, deposit>> BY <1>2 DEF MarkSuccess
  <2> QED BY <2>1, KeptRunsSeen, RunChange
<1>3. CASE deposit[d].status # "success"
  <2> DEFINE r == [deposit[d] EXCEPT !.status = "success", !.reference = "payment"]
  <2>1. r \in DepositRecords /\ Sound(r) /\ r.link = "paid" /\ r.status = "success"
    BY <1>1 DEF DepositRecords, Sound
  <2>2. deposit' = [deposit EXCEPT ![d] = r] BY <1>1, <1>3 DEF MarkSuccess
  <2>3. wallet' = [wallet EXCEPT !.balance = @ + 1] BY <1>3 DEF MarkSuccess
  <2> HIDE DEF r
  <2> QED BY <1>3, <2>1, <2>2, <2>3, DepositChange
<1> QED BY <1>2, <1>3

LEMMA WebhookStep ==
  ASSUME IInv, NEW d \in Deposits, WebhookPaid(d) \/ WebhookFailed(d)
  PROVE  IInv'
<1>1. /\ deposit \in [Deposits -> DepositRecords] /\ run \in [Handlers -> Runs]
      /\ Sound(deposit[d]) /\ deposit[d] \in DepositRecords
  BY DEF IInv, TypeOK, DepositsSound
<1>2. UNCHANGED <<adjusted, request, account, run>> BY DEF WebhookPaid, WebhookFailed
<1>3. run' \in [Handlers -> Runs] /\ \A h \in Handlers : RunKept(h) BY <1>1, <1>2 DEF RunKept
<1>4. CASE WebhookPaid(d) BY <1>2, <1>3, <1>4, MarkSuccessKeeps DEF WebhookPaid
<1>5. CASE WebhookFailed(d)
  <2>1. PICK x \in {"none", "attempt"} :
          deposit' = [deposit EXCEPT ![d].status = "failed", ![d].reference = x]
    BY <1>5 DEF WebhookFailed
  <2> DEFINE r == [deposit[d] EXCEPT !.status = "failed", !.reference = x]
  <2>2. deposit[d].status = "pending" /\ wallet' = wallet BY <1>5 DEF WebhookFailed
  <2>3. r \in DepositRecords /\ Sound(r) /\ r.link = deposit[d].link /\ r.status = "failed"
    BY <1>1, <2>2 DEF DepositRecords, Sound
  <2>4. deposit' = [deposit EXCEPT ![d] = r] BY <1>1, <2>1
  <2> HIDE DEF r
  <2> QED BY <1>2, <1>3, <2>2, <2>3, <2>4, DepositChange
<1> QED BY <1>4, <1>5

-----------------------------------------------------------------------------
(* Handlers.                                                               *)

LEMMA AskLinkStep ==
  ASSUME IInv, NEW h \in Handlers, NEW d \in Deposits, NEW cancels \in BOOLEAN,
         AskLink(h, d, cancels)
  PROVE  IInv'
<1> DEFINE r == [deposit |-> d, seen |-> deposit[d].link,
                 at |-> IF cancels /\ deposit[d].link = "open" THEN "cancel" ELSE "reconcile"]
<1>1. /\ deposit[d] \in DepositRecords /\ run \in [Handlers -> Runs]
  BY DEF IInv, TypeOK
<1>2. r \in Runs BY <1>1 DEF Runs, DepositRecords
<1>3. run' = [run EXCEPT ![h] = r] /\ UNCHANGED <<wallet, adjusted, deposit, request, account>>
  BY DEF AskLink
<1>4. StillSeen(r) BY DEF StillSeen
<1> HIDE DEF r
<1>5. \A x \in Handlers : run'[x] = IF x = h THEN r ELSE run[x] BY <1>1, <1>3
<1>6. run' \in [Handlers -> Runs] BY <1>1, <1>2, <1>3
<1>7. RunsSeen' BY <1>3, <1>4, <1>5 DEF IInv, RunsSeen, StillSeen
<1> QED BY <1>3, <1>6, <1>7, RunChange

LEMMA CancelLinkStep ==
  ASSUME IInv, NEW h \in Handlers, CancelLink(h)
  PROVE  IInv'
<1> DEFINE d == run[h].deposit
           c == [run[h] EXCEPT !.at = "check"]
           r == [deposit[d] EXCEPT !.link = "cancelled"]
<1>1. /\ deposit \in [Deposits -> DepositRecords] /\ run \in [Handlers -> Runs]
      /\ run[h].at = "cancel"
  BY DEF IInv, TypeOK, CancelLink, At
<1>2. d \in Deposits BY <1>1 DEF IInv, RunsSeen, StillSeen
<1>3. Sound(deposit[d]) /\ deposit[d] \in DepositRecords
  BY <1>1, <1>2 DEF IInv, DepositsSound
<1>4. c \in Runs /\ c.at = "check" /\ c.deposit = d BY <1>1 DEF Runs
<1>5. run' = [run EXCEPT ![h] = c] /\ UNCHANGED <<wallet, adjusted, request, account>>
  BY <1>1 DEF CancelLink
<1> HIDE DEF c
<1>6. run' \in [Handlers -> Runs] /\ \A x \in Handlers : RunKept(x)
  BY <1>1, <1>2, <1>4, <1>5 DEF RunKept
<1>7. CASE UNCHANGED deposit BY <1>5, <1>6, <1>7, KeptRunsSeen, RunChange
<1>8. CASE /\ deposit[d].link = "open"
           /\ deposit' = [deposit EXCEPT ![d].link = "cancelled"]
  <2>1. r \in DepositRecords /\ r.status = deposit[d].status /\ Sound(r)
    BY <1>3, <1>8 DEF DepositRecords, Sound
  <2>2. deposit' = [deposit EXCEPT ![d] = r] BY <1>1, <1>8
  <2>3. deposit[d].link \notin Closed \cup {"paid"} BY <1>8 DEF Closed
  <2> HIDE DEF r, d
  <2> QED BY <1>2, <1>5, <1>6, <2>1, <2>2, <2>3, DepositChange
<1> QED BY <1>7, <1>8 DEF CancelLink

LEMMA CheckLinkStep ==
  ASSUME IInv, NEW h \in Handlers, CheckLink(h)
  PROVE  IInv'
<1> DEFINE d == run[h].deposit
           seen == deposit[d].link
           r == IF seen = "open" THEN Idle ELSE [run[h] EXCEPT !.at = "reconcile", !.seen = seen]
<1>1. /\ deposit \in [Deposits -> DepositRecords] /\ run \in [Handlers -> Runs]
      /\ run[h].at = "check"
  BY DEF IInv, TypeOK, CheckLink, At
<1>2. d \in Deposits BY <1>1 DEF IInv, RunsSeen, StillSeen
<1>3. seen \in {"none", "open", "paid", "cancelled", "expired"} BY <1>1, <1>2 DEF DepositRecords
<1>4. r \in Runs BY <1>1, <1>3 DEF Runs, Idle
<1>5. StillSeen(r)
  <2>1. CASE seen = "open" BY <2>1 DEF StillSeen, Idle
  <2>2. CASE seen # "open"
    <3>1. r.deposit = d /\ r.seen = seen BY <1>1, <2>2 DEF Runs
    <3> QED BY <1>2, <3>1 DEF StillSeen
  <2> QED BY <2>1, <2>2
<1>6. run' = [run EXCEPT ![h] = r] /\ UNCHANGED <<wallet, adjusted, deposit, request, account>>
  BY <1>1 DEF CheckLink
<1> HIDE DEF r
<1>7. \A x \in Handlers : run'[x] = IF x = h THEN r ELSE run[x] BY <1>1, <1>6
<1>8. run' \in [Handlers -> Runs] BY <1>1, <1>4, <1>6
<1>9. RunsSeen' BY <1>5, <1>6, <1>7 DEF IInv, RunsSeen, StillSeen
<1> QED BY <1>6, <1>8, <1>9, RunChange

LEMMA ReconcileStep ==
  ASSUME IInv, NEW h \in Handlers, Reconcile(h)
  PROVE  IInv'
<1> DEFINE d == run[h].deposit
           seen == run[h].seen
           end == IF seen = "cancelled" THEN "cancelled" ELSE "failed"
           r == [deposit[d] EXCEPT !.status = end]
<1>1. /\ deposit \in [Deposits -> DepositRecords] /\ run \in [Handlers -> Runs]
      /\ run[h].at = "reconcile" /\ UNCHANGED <<adjusted, request, account>>
      /\ run' = [run EXCEPT ![h] = Idle]
  BY DEF IInv, TypeOK, Reconcile, At
<1>2. StillSeen(run[h]) BY DEF IInv, RunsSeen
<1>3. d \in Deposits BY <1>1, <1>2 DEF StillSeen
<1>4. Sound(deposit[d]) /\ deposit[d] \in DepositRecords
  BY <1>1, <1>3 DEF IInv, DepositsSound
<1>5. Idle \in Runs BY DEF Idle, Runs
<1>6. run' \in [Handlers -> Runs] /\ \A x \in Handlers : RunKept(x)
  BY <1>1, <1>5 DEF RunKept
<1>7. CASE seen = "paid"
  <2>1. MarkSuccess(d) BY <1>7 DEF Reconcile, Closed
  <2>2. deposit[d].link = "paid" BY <1>1, <1>2, <1>7 DEF StillSeen
  <2> HIDE DEF d
  <2> QED BY <1>1, <1>3, <1>6, <2>1, <2>2, MarkSuccessKeeps
<1>8. CASE seen \in Closed /\ deposit[d].status \in {"pending", "failed"}
  <2>1. deposit' = [deposit EXCEPT ![d].status = end] /\ wallet' = wallet
    BY <1>8 DEF Reconcile, Closed
  <2>2. deposit[d].link = seen BY <1>1, <1>2, <1>8 DEF StillSeen
  <2>3. r \in DepositRecords /\ Sound(r) /\ r.link = deposit[d].link /\ r.status # "success"
    BY <1>4, <1>8, <2>2 DEF DepositRecords, Sound, Closed
  <2>4. deposit' = [deposit EXCEPT ![d] = r] BY <1>1, <2>1
  <2> HIDE DEF r, d
  <2> QED BY <1>1, <1>3, <1>6, <1>8, <2>1, <2>3, <2>4, DepositChange
<1>9. CASE seen # "paid" /\ ~(seen \in Closed /\ deposit[d].status \in {"pending", "failed"})
  <2>1. UNCHANGED <<wallet, deposit>> BY <1>9 DEF Reconcile
  <2> QED BY <1>1, <1>6, <2>1, KeptRunsSeen, RunChange
<1> QED BY <1>7, <1>8, <1>9

LEMMA AbortStep ==
  ASSUME IInv, NEW h \in Handlers, Abort(h)
  PROVE  IInv'
<1>1. run \in [Handlers -> Runs] /\ Idle \in Runs BY DEF IInv, TypeOK, Idle, Runs
<1>2. run' = [run EXCEPT ![h] = Idle] /\ UNCHANGED <<wallet, adjusted, deposit, request, account>>
  BY DEF Abort
<1>3. run' \in [Handlers -> Runs] /\ \A x \in Handlers : RunKept(x) BY <1>1, <1>2 DEF RunKept
<1> QED BY <1>2, <1>3, KeptRunsSeen, RunChange

-----------------------------------------------------------------------------
(* The theorems.                                                           *)

LEMMA Preserved == ASSUME IInv, [Next]_vars PROVE IInv'
<1>1. CASE AccountStep
  BY <1>1, AddAccount, SetDefaultStep, UpdateAccountStep, DeleteAccountStep DEF AccountStep
<1>2. CASE RequestStep
  BY <1>2, ChooseAccountStep, CreateWithdrawalStep, ReviewStep DEF RequestStep
<1>3. CASE DepositStep
  BY <1>3, RecordDepositStep, MakeStep, LinkStep, WebhookStep, AskLinkStep DEF DepositStep
<1>4. CASE RunStep
  BY <1>4, CancelLinkStep, CheckLinkStep, ReconcileStep, AbortStep DEF RunStep
<1>5. CASE Adjustment BY <1>5, AdjustStep DEF Adjustment
<1>6. CASE UNCHANGED vars
  <2>1. /\ wallet' = wallet /\ adjusted' = adjusted /\ deposit' = deposit
        /\ request' = request /\ account' = account /\ run' = run
    BY <1>6 DEF vars
  <2>2. RunsSeen' BY <2>1 DEF IInv, RunsSeen, StillSeen
  <2>3. run' \in [Handlers -> Runs] BY <2>1 DEF IInv, TypeOK
  <2> QED BY <2>1, <2>2, <2>3, RunChange
<1> QED BY <1>1, <1>2, <1>3, <1>4, <1>5, <1>6 DEF Next

LEMMA Inductive == Spec => []IInv
<1>1. Init => IInv BY InitIInv
<1>2. IInv /\ [Next]_vars => IInv' BY Preserved
<1> QED BY <1>1, <1>2, PTL DEF Spec

(* Wallet, deposits, requests, accounts and handlers keep their types; in  *)
(* particular no balance becomes negative.                                 *)
THEOREM WalletsTypeCorrect == Spec => []TypeOK
<1>1. IInv => TypeOK BY DEF IInv
<1> QED BY <1>1, Inductive, PTL

(* The balances add up to what was deposited, withdrawn and corrected.     *)
THEOREM BooksBalanceCorrect == Spec => []BooksBalance
<1>1. IInv => BooksBalance BY DEF IInv
<1> QED BY <1>1, Inductive, PTL

(* What counts was paid, and what was paid is not called cancelled.        *)
THEOREM DepositsMatchCorrect == Spec => []DepositsMatchPayos
<1>1. IInv => DepositsMatchPayos BY DEF IInv, DepositsSound, Sound, DepositsMatchPayos
<1> QED BY <1>1, Inductive, PTL

(* A withdrawal keeps the account, and the account its identity.           *)
THEOREM RequestsKeepCorrect == Spec => []RequestsKeepAccount
<1>1. IInv => RequestsKeepAccount BY DEF IInv
<1> QED BY <1>1, Inductive, PTL

(* There are never two default accounts.                                   *)
THEOREM OneDefaultCorrect == Spec => []OneDefault
<1>1. IInv => OneDefault BY DEF IInv
<1> QED BY <1>1, Inductive, PTL


-----------------------------------------------------------------------------
(* The steps of Purse.                                                     *)

(* Nothing that the user is promised changes.                              *)
LEMMA Quiet ==
  ASSUME wallet'.balance = wallet.balance,
         \A d \in Deposits : MoneyOf(d)' = MoneyOf(d),
         \A q \in Requests : WishOf(q)' = WishOf(q)
  PROVE  UNCHANGED Promised!purse
<1>1. [d \in Deposits |-> MoneyOf(d)]' = [d \in Deposits |-> MoneyOf(d)] OBVIOUS
<1>2. [q \in Requests |-> WishOf(q)]' = [q \in Requests |-> WishOf(q)] OBVIOUS
<1> QED BY <1>1, <1>2 DEF Promised!purse

LEMMA SameMoney ==
  ASSUME deposit' = deposit, NEW d PROVE MoneyOf(d)' = MoneyOf(d)
BY DEF MoneyOf

LEMMA SameWishes ==
  ASSUME request' = request, NEW q PROVE WishOf(q)' = WishOf(q)
BY DEF WishOf

LEMMA AccountPurse == ASSUME AccountStep PROVE UNCHANGED Promised!purse
<1>1. wallet' = wallet /\ deposit' = deposit /\ request' = request
  BY DEF AccountStep, CreateAccount, RestoreAccount, SetDefault, UpdateAccount, DeleteAccount
<1> QED BY <1>1, Quiet, SameMoney, SameWishes

(* One request becomes what Purse lets it become.                          *)
LEMMA WishBecomes ==
  ASSUME IInv, NEW q \in Requests,
         \A p \in Requests \ {q} : request'[p] = request[p],
         NEW w, WishOf(q)' = w
  PROVE  [p \in Requests |-> WishOf(p)]' = [[p \in Requests |-> WishOf(p)] EXCEPT ![q] = w]
<1>1. \A p \in Requests : WishOf(p)' = IF p = q THEN w ELSE WishOf(p) BY DEF WishOf
<1> QED BY <1>1

LEMMA RequestPurse == ASSUME IInv, RequestStep PROVE [Promised!Next]_(Promised!purse)
<1>1. /\ request \in [Requests -> RequestRecords]
      /\ wallet \in [balance : Nat, pendingBalance : Nat]
  BY DEF IInv, TypeOK
<1>2. PICK q \in Requests :
        (\E a \in Accounts : ChooseAccount(q, a)) \/ CreateWithdrawal(q)
          \/ ApproveWithdrawal(q) \/ RejectWithdrawal(q)
  BY DEF RequestStep
<1>3. deposit' = deposit
  BY <1>2 DEF ChooseAccount, CreateWithdrawal, ApproveWithdrawal, RejectWithdrawal
<1>4. /\ request'[q] \in RequestRecords
      /\ \A p \in Requests \ {q} : request'[p] = request[p]
  <2>1. request' \in [Requests -> RequestRecords]
    BY <1>2, Preserved DEF IInv, TypeOK, Next, RequestStep
  <2> QED BY <1>1, <1>2, <2>1
      DEF ChooseAccount, CreateWithdrawal, ApproveWithdrawal, RejectWithdrawal
<1>5. [d \in Deposits |-> MoneyOf(d)]' = [d \in Deposits |-> MoneyOf(d)] BY <1>3, SameMoney
<1>6. CASE \E a \in Accounts : ChooseAccount(q, a)
  <2>1. /\ wallet' = wallet
        /\ request[q].status = "none" /\ request'[q].status = "choosing"
    BY <1>1, <1>6 DEF ChooseAccount, RequestRecords
  <2>2. \A p \in Requests : WishOf(p)' = WishOf(p) BY <1>4, <2>1 DEF WishOf
  <2> QED BY <1>3, <2>1, <2>2, Quiet, SameMoney
<1>7. CASE CreateWithdrawal(q)
  <2>1. CASE account[request[q].account].status = "active" /\ wallet.balance >= 1
    <3>1. /\ wallet'.balance = wallet.balance - 1
          /\ request[q].status = "choosing" /\ request'[q].status = "pending"
      BY <1>1, <1>7, <2>1 DEF CreateWithdrawal, RequestRecords
    <3>2. WishOf(q) = "none" /\ WishOf(q)' = "held" BY <3>1 DEF WishOf
    <3>3. Promised!Withdraw(q)
      BY <1>1, <1>4, <1>5, <2>1, <3>1, <3>2, WishBecomes DEF Promised!Withdraw
    <3> QED BY <3>3 DEF Promised!Next
  <2>2. CASE ~(account[request[q].account].status = "active" /\ wallet.balance >= 1)
    <3>1. /\ wallet' = wallet
          /\ request[q].status = "choosing" /\ request'[q].status = "none"
      BY <1>1, <1>7, <2>2 DEF CreateWithdrawal, RequestRecords
    <3>2. \A p \in Requests : WishOf(p)' = WishOf(p) BY <1>4, <3>1 DEF WishOf
    <3> QED BY <1>3, <3>1, <3>2, Quiet, SameMoney
  <2> QED BY <2>1, <2>2
<1>8. CASE ApproveWithdrawal(q)
  <2>1. /\ wallet'.balance = wallet.balance
        /\ request[q].status = "pending" /\ request'[q].status = "approved"
    BY <1>1, <1>8 DEF ApproveWithdrawal, RequestRecords
  <2>2. WishOf(q) = "held" /\ WishOf(q)' = "sent" BY <2>1 DEF WishOf
  <2>3. Promised!Send(q) BY <1>4, <1>5, <2>1, <2>2, WishBecomes DEF Promised!Send
  <2> QED BY <2>3 DEF Promised!Next
<1>9. CASE RejectWithdrawal(q)
  <2>1. /\ wallet'.balance = wallet.balance + 1
        /\ request[q].status = "pending" /\ request'[q].status = "rejected"
    BY <1>1, <1>9 DEF RejectWithdrawal, RequestRecords
  <2>2. WishOf(q) = "held" /\ WishOf(q)' = "given back" BY <2>1 DEF WishOf
  <2>3. Promised!GiveBack(q) BY <1>4, <1>5, <2>1, <2>2, WishBecomes DEF Promised!GiveBack
  <2> QED BY <2>3 DEF Promised!Next
<1> QED BY <1>2, <1>6, <1>7, <1>8, <1>9

(* One deposit becomes what Purse lets it become.                          *)
LEMMA MoneyBecomes ==
  ASSUME NEW d \in Deposits,
         \A x \in Deposits \ {d} : deposit'[x] = deposit[x],
         NEW m, MoneyOf(d)' = m
  PROVE  [x \in Deposits |-> MoneyOf(x)]' = [[x \in Deposits |-> MoneyOf(x)] EXCEPT ![d] = m]
<1>1. \A x \in Deposits : MoneyOf(x)' = IF x = d THEN m ELSE MoneyOf(x) BY DEF MoneyOf
<1> QED BY <1>1

(* A deposit that is credited when it was paid, or that stays as it is.    *)
LEMMA MarkPurse ==
  ASSUME IInv, NEW d \in Deposits, deposit[d].link = "paid", MarkSuccess(d), request' = request
  PROVE  [Promised!Next]_(Promised!purse)
<1>1. /\ deposit \in [Deposits -> DepositRecords]
      /\ wallet \in [balance : Nat, pendingBalance : Nat]
  BY DEF IInv, TypeOK
<1>2. CASE deposit[d].status = "success"
  BY <1>2, Quiet, SameMoney, SameWishes DEF MarkSuccess
<1>3. CASE deposit[d].status # "success"
  <2>1. /\ wallet'.balance = wallet.balance + 1
        /\ deposit'[d].status = "success"
        /\ \A x \in Deposits \ {d} : deposit'[x] = deposit[x]
    BY <1>1, <1>3 DEF MarkSuccess, DepositRecords
  <2>2. MoneyOf(d) = "received" /\ MoneyOf(d)' = "credited" BY <1>3, <2>1 DEF MoneyOf
  <2>3. [q \in Requests |-> WishOf(q)]' = [q \in Requests |-> WishOf(q)] BY SameWishes
  <2>4. Promised!Credit(d) BY <2>1, <2>2, <2>3, MoneyBecomes DEF Promised!Credit
  <2> QED BY <2>4 DEF Promised!Next
<1> QED BY <1>2, <1>3

(* A deposit and its link change, but not so that the money does.          *)
LEMMA DepositQuiet ==
  ASSUME wallet' = wallet, request' = request, NEW d \in Deposits,
         \A x \in Deposits \ {d} : deposit'[x] = deposit[x],
         deposit'[d].status = "success" <=> deposit[d].status = "success",
         deposit'[d].link = "paid" <=> deposit[d].link = "paid"
  PROVE  UNCHANGED Promised!purse
<1>1. \A x \in Deposits : MoneyOf(x)' = MoneyOf(x) BY DEF MoneyOf
<1> QED BY <1>1, Quiet, SameWishes

LEMMA DepositPurse == ASSUME IInv, DepositStep PROVE [Promised!Next]_(Promised!purse)
<1>1. /\ deposit \in [Deposits -> DepositRecords]
      /\ wallet \in [balance : Nat, pendingBalance : Nat]
      /\ \A d \in Deposits : Sound(deposit[d])
  BY DEF IInv, TypeOK, DepositsSound
<1>2. PICK d \in Deposits :
        \/ RecordDeposit(d) \/ CreateLink(d) \/ SaveLink(d)
        \/ PayLink(d) \/ ExpireLink(d)
        \/ WebhookPaid(d) \/ WebhookFailed(d)
        \/ \E h \in Handlers, cancels \in BOOLEAN : AskLink(h, d, cancels)
  BY DEF DepositStep
<1>3. CASE RecordDeposit(d) \/ CreateLink(d) \/ SaveLink(d) \/ ExpireLink(d) \/ WebhookFailed(d)
  <2>1. /\ wallet' = wallet /\ request' = request
        /\ \A x \in Deposits \ {d} : deposit'[x] = deposit[x]
    BY <1>1, <1>3 DEF RecordDeposit, CreateLink, SaveLink, ExpireLink, WebhookFailed
  <2>2. /\ deposit[d] \in DepositRecords /\ Sound(deposit[d])
        /\ deposit[d].status = "success" => deposit[d].link = "paid" /\ deposit[d].maker = "shown"
    BY <1>1 DEF Sound
  <2>3. CASE RecordDeposit(d) \/ ExpireLink(d) \/ WebhookFailed(d)
    <3>1. /\ deposit'[d].status = "success" <=> deposit[d].status = "success"
          /\ deposit'[d].link = "paid" <=> deposit[d].link = "paid"
      BY <1>1, <2>2, <2>3 DEF RecordDeposit, ExpireLink, WebhookFailed, DepositRecords
    <3> QED BY <2>1, <3>1, DepositQuiet
  <2>4. CASE CreateLink(d) \/ SaveLink(d)
    <3>1. deposit[d].maker \in {"linking", "saving"} BY <2>4 DEF CreateLink, SaveLink
    <3>2. deposit[d].status # "success" /\ deposit[d].link # "paid" BY <2>2, <3>1 DEF Sound
    <3>3. deposit'[d].status # "success" /\ deposit'[d].link # "paid"
      BY <1>1, <2>2, <2>4, <3>2 DEF CreateLink, SaveLink, DepositRecords
    <3> QED BY <2>1, <3>2, <3>3, DepositQuiet
  <2> QED BY <1>3, <2>3, <2>4
<1>4. CASE PayLink(d)
  <2>1. /\ deposit[d].link = "open" /\ deposit[d].status # "success"
        /\ deposit'[d].link = "paid" /\ deposit'[d].status = deposit[d].status
        /\ \A x \in Deposits \ {d} : deposit'[x] = deposit[x]
        /\ wallet' = wallet /\ request' = request
    BY <1>1, <1>4 DEF PayLink, DepositRecords, Sound
  <2>2. MoneyOf(d) = "absent" /\ MoneyOf(d)' = "received" BY <2>1 DEF MoneyOf
  <2>3. [q \in Requests |-> WishOf(q)]' = [q \in Requests |-> WishOf(q)] BY <2>1, SameWishes
  <2>4. Promised!Pay(d) BY <2>1, <2>2, <2>3, MoneyBecomes DEF Promised!Pay
  <2> QED BY <2>4 DEF Promised!Next
<1>5. CASE WebhookPaid(d) BY <1>5, MarkPurse DEF WebhookPaid
<1>6. CASE \E h \in Handlers, cancels \in BOOLEAN : AskLink(h, d, cancels)
  BY <1>6, Quiet, SameMoney, SameWishes DEF AskLink
<1> QED BY <1>2, <1>3, <1>4, <1>5, <1>6

LEMMA RunPurse == ASSUME IInv, RunStep PROVE [Promised!Next]_(Promised!purse)
<1>1. /\ deposit \in [Deposits -> DepositRecords]
      /\ \A d \in Deposits : Sound(deposit[d])
      /\ \A h \in Handlers : StillSeen(run[h])
  BY DEF IInv, TypeOK, DepositsSound, RunsSeen
<1>2. PICK h \in Handlers : CancelLink(h) \/ CheckLink(h) \/ Reconcile(h) \/ Abort(h)
  BY DEF RunStep
<1>3. PICK d : d = run[h].deposit OBVIOUS
<1>4. CASE CheckLink(h) \/ Abort(h)
  BY <1>4, Quiet, SameMoney, SameWishes DEF CheckLink, Abort
<1>5. ASSUME CancelLink(h) \/ Reconcile(h) PROVE d \in Deposits
  BY <1>1, <1>3, <1>5 DEF CancelLink, Reconcile, At, StillSeen
<1>6. CASE CancelLink(h)
  <2>1. wallet' = wallet /\ request' = request BY <1>6 DEF CancelLink
  <2>2. CASE deposit' = deposit BY <2>1, <2>2, Quiet, SameMoney, SameWishes
  <2>3. CASE deposit[d].link = "open" /\ deposit' = [deposit EXCEPT ![d].link = "cancelled"]
    <3>1. /\ \A x \in Deposits \ {d} : deposit'[x] = deposit[x]
          /\ deposit'[d].status = deposit[d].status /\ deposit'[d].link = "cancelled"
      BY <1>1, <1>5, <1>6, <2>3 DEF DepositRecords
    <3> QED BY <1>5, <1>6, <2>1, <2>3, <3>1, DepositQuiet
  <2> QED BY <1>3, <1>6, <2>2, <2>3 DEF CancelLink
<1>7. CASE Reconcile(h)
  <2>1. request' = request BY <1>7 DEF Reconcile
  <2>2. CASE run[h].seen = "paid" /\ MarkSuccess(d)
    <3>1. deposit[d].link = "paid" BY <1>1, <1>3, <1>7, <2>2 DEF Reconcile, At, StillSeen
    <3> QED BY <1>5, <1>7, <2>1, <2>2, <3>1, MarkPurse
  <2>3. CASE /\ deposit[d].status \in {"pending", "failed"}
             /\ deposit' = [deposit EXCEPT ![d].status =
                              IF run[h].seen = "cancelled" THEN "cancelled" ELSE "failed"]
             /\ UNCHANGED wallet
    <3>1. /\ \A x \in Deposits \ {d} : deposit'[x] = deposit[x]
          /\ deposit'[d].status # "success" /\ deposit'[d].link = deposit[d].link
      BY <1>1, <1>5, <1>7, <2>3 DEF DepositRecords
    <3> QED BY <1>5, <1>7, <2>1, <2>3, <3>1, DepositQuiet
  <2>4. CASE UNCHANGED <<wallet, deposit>> BY <2>1, <2>4, Quiet, SameMoney, SameWishes
  <2> QED BY <1>3, <1>7, <2>2, <2>3, <2>4 DEF Reconcile
<1> QED BY <1>2, <1>4, <1>6, <1>7

LEMMA StepPurse == ASSUME IInv, [Next]_vars PROVE [Promised!Next]_(Promised!purse)
<1>1. CASE Adjustment
  <2>1. PICK n \in {-1, 1} : AdjustWallet(n) BY <1>1 DEF Adjustment
  <2>2. /\ wallet'.balance = wallet.balance + n /\ wallet.balance + n >= 0
        /\ deposit' = deposit /\ request' = request
    BY <2>1 DEF AdjustWallet, IInv, TypeOK
  <2>3. [d \in Deposits |-> MoneyOf(d)]' = [d \in Deposits |-> MoneyOf(d)] BY <2>2, SameMoney
  <2>4. [q \in Requests |-> WishOf(q)]' = [q \in Requests |-> WishOf(q)] BY <2>2, SameWishes
  <2>5. Promised!Correct(n) BY <2>2, <2>3, <2>4 DEF Promised!Correct
  <2> QED BY <2>5 DEF Promised!Next
<1>2. CASE UNCHANGED vars BY <1>2, Quiet, SameMoney, SameWishes DEF vars
<1> QED BY <1>1, <1>2, AccountPurse, RequestPurse, DepositPurse, RunPurse DEF Next

(* Wallets implements Purse: behind failures, cancellations and expiries   *)
(* that come late or out of order, whatever reconciles them, a deposit     *)
(* counts once and only after PayOS has the money, and a withdrawal leaves *)
(* the balance once and is settled once (wallet.service.ts:436, :467,      *)
(* withdrawal.service.ts:127).                                             *)
THEOREM KeepsPurseCorrect == Spec => KeepsPurse
<1>1. Init => Promised!Init BY DEF Init, Promised!Init, MoneyOf, WishOf
<1>2. IInv /\ [Next]_vars => [Promised!Next]_(Promised!purse) BY StepPurse
<1> QED BY <1>1, <1>2, Inductive, PTL DEF Spec, KeepsPurse, Promised!Spec

(* So what is credited, sent or given back stays so, and no balance is     *)
(* overdrawn (wallet.service.ts:467).                                      *)
THEOREM SettledForGoodCorrect == Spec => Promised!SettledForGood
<1> DEFINE money == [d \in Deposits |-> MoneyOf(d)]
           wish == [q \in Requests |-> WishOf(q)]
           Settled == /\ \A d \in Deposits : money[d] = "credited" => money'[d] = "credited"
                      /\ \A q \in Requests : wish[q] \in {"sent", "given back"} => wish'[q] = wish[q]
                      /\ wallet.balance' >= 0
<1>1. IInv => wallet.balance \in Nat BY DEF IInv, TypeOK
<1>2. ASSUME wallet.balance \in Nat, wallet.balance' \in Nat, Promised!Next PROVE Settled
  <2>1. wallet.balance' >= 0 BY <1>2
  <2>2. ASSUME NEW d \in Deposits, Promised!Pay(d) \/ Promised!Credit(d) PROVE Settled
    <3>1. /\ money[d] # "credited" /\ wish' = wish
          /\ \A x \in Deposits : x # d => money'[x] = money[x]
      BY <2>2 DEF Promised!Pay, Promised!Credit
    <3> HIDE DEF money, wish
    <3> QED BY <2>1, <3>1
  <2>3. ASSUME NEW q \in Requests, Promised!Withdraw(q) \/ Promised!Send(q) \/ Promised!GiveBack(q)
        PROVE  Settled
    <3>1. /\ wish[q] \notin {"sent", "given back"} /\ money' = money
          /\ \A x \in Requests : x # q => wish'[x] = wish[x]
      BY <2>3 DEF Promised!Withdraw, Promised!Send, Promised!GiveBack
    <3> HIDE DEF money, wish
    <3> QED BY <2>1, <3>1
  <2>4. ASSUME NEW n \in {-1, 1}, Promised!Correct(n) PROVE Settled
    BY <2>1, <2>4 DEF Promised!Correct
  <2> QED BY <1>2, <2>2, <2>3, <2>4 DEF Promised!Next
<1>3. wallet.balance \in Nat /\ (wallet.balance \in Nat)' /\ [Promised!Next]_(Promised!purse)
        => [Settled]_(Promised!purse)
  BY <1>2
<1> QED
  BY <1>1, <1>3, Inductive, KeepsPurseCorrect, PTL
  DEF KeepsPurse, Promised!Spec, Promised!purse, Promised!SettledForGood, Settled

=============================================================================
