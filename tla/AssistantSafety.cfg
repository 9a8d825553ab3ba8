\* Two orders and two payments, two requests at a time.
SPECIFICATION Spec
CONSTANTS
  Bookings = {b1, b2}
  Payments = {p1, p2}
  Handlers = {h1, h2}
  None = None
SYMMETRY Symmetry
CHECK_DEADLOCK FALSE
INVARIANTS CalledOnce SessionTrue
PROPERTIES DecisionsStay KeepsPromise
