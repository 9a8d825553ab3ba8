\* One provider and one request at a time, orders paid by QR.
SPECIFICATION Spec
CONSTANTS
  Providers = {p1}
  Nobody = Nobody
  Handlers = {h1}
  Scanner = Scanner
  Monitor = Monitor
  OrderTypes = {"normal", "scheduled"}
  Methods = {"payos"}
  MaxAttempts = 1
  DirectAttempts = 1
  BatchSize = 1
  MaxCrashes = 0
INVARIANT ConsentBeforeSearch
