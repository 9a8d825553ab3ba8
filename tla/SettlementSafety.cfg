\* Two payments of one order, two request handlers and a refund scan at once.
SPECIFICATION Spec
CONSTANTS
  Payments = {m1, m2}
  NoPayment = NoPayment
  Handlers = {h1, h2}
  Scanners = {s1}
  MaxAttempts = 2
  MaxCrashes = 0
  MaxRetries = 0
SYMMETRY Symmetry
INVARIANTS LedgerMatches RefundRecordsTrue AwardedOnce
PROPERTY KeepsCustomerMoney
CHECK_DEADLOCK FALSE
