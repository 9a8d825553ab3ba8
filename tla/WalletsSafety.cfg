\* One deposit, two withdrawals, two accounts that may share a holder.
SPECIFICATION FairSpec
CONSTANTS
  Deposits = {d1}
  NoDeposit = NoDeposit
  Requests = {q1, q2}
  Accounts = {1, 2}
  Handlers = {h1}
  Numbers = {n1, n2}
  Holders = {i1}
  MaxAdjusted = 1
CHECK_DEADLOCK FALSE
INVARIANTS BooksBalance DepositsMatchPayos RequestsKeepAccount
PROPERTIES PaidIsCredited KeepsPurse
