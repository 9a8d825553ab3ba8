\* Two orders, one provider who may leave and come back, two reschedule requests.
SPECIFICATION Spec
CONSTANTS
  Orders = {o1, o2}
  NoOrder = NoOrder
  Providers = {p1}
  Nobody = Nobody
  Requests = {q1, q2}
  NoRequest = NoRequest
  Handlers = {h1}
  Kinds = {"normal", "scheduled"}
  Inspections = {FALSE}
  Durations = {2}
  Duration = 1
  Buffer = 0
  Travel = 0
  Advance = 1
  MaxTime = 2
CHECK_DEADLOCK FALSE
VIEW View
SYMMETRY Symmetry
INVARIANTS AppointmentsApart OneTurnEach ReportHoldsOrder
PROPERTY MovedAsAsked
