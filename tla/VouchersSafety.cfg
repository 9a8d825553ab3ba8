\* Three orders of two customers compete for a code of up to two uses.
SPECIFICATION Spec
CONSTANTS
  Orders = {o1, o2, o3}
  Vouchers = {v1}
  Customers = {c1, c2}
  None = None
  MaxLimit = 2
SYMMETRY Symmetry
CHECK_DEADLOCK FALSE
INVARIANTS CountersMatchUsages DiscountBacked
PROPERTIES LimitKept KeepsLimits
