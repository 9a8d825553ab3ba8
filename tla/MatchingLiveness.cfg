\* One provider, both kinds of order, one crash of the process at any step.
SPECIFICATION FairSpec
CONSTANTS
  Providers = {p1}
  Nobody = Nobody
  Handlers = {h1}
  Scanner = Scanner
  Monitor = Monitor
  OrderTypes = {"normal", "scheduled"}
  Methods = {"wallet"}
  MaxAttempts = 1
  DirectAttempts = 2
  BatchSize = 2
  MaxCrashes = 1
PROPERTIES SearchEnds ReplyEnds OfferEnds
