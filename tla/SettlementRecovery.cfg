\* One payment; a crash at any moment and one retry by an administrator.
SPECIFICATION FairSpec
CONSTANTS
  Payments = {m1}
  NoPayment = NoPayment
  Handlers = {h1}
  Scanners = {s1, s2}
  MaxAttempts = 3
  MaxCrashes = 1
  MaxRetries = 1
PROPERTIES RefundEnds RefundReturned
CHECK_DEADLOCK FALSE
