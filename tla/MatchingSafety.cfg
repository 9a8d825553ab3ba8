\* Two interchangeable providers or two requests at a time; appointments without
\* a chosen provider paid by QR, other orders by wallet.
SPECIFICATION MixedSpec
CONSTANTS
  Providers = {p1, p2}
  Nobody = Nobody
  Handlers = {h1, h2}
  Scanner = Scanner
  Monitor = Monitor
  OrderTypes = {"normal", "scheduled"}
  Methods = {"wallet", "payos"}
  MaxAttempts = 1
  DirectAttempts = 1
  BatchSize = 2
  MaxCrashes = 0
SYMMETRY Symmetry
CONSTRAINT FewAtATime
INVARIANTS HolderMatchesOffer AppointmentConfirmed
PROPERTIES KeepsLifecycle OnlyResyncSkipsConsent
