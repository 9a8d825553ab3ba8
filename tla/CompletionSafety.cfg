SPECIFICATION FairSpec
CONSTANTS
    MaxPayments = 4
    MaxRevision = 2
INVARIANTS PaidOnce PaidIsBacked SettledOnce
PROPERTY PaidIsApplied
CHECK_DEADLOCK FALSE
