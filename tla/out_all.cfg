SPECIFICATION Spec
CONSTANTS
  Invoices = {"i1", "i2"}
  ZeroAmount = {"i2"}
  Keysends = {}
  Offers = {"o1"}
  Unpriced = {}
  Resend = TRUE
  MaxSends = 3
  MaxCrashes = 1
CHECK_DEADLOCK FALSE
INVARIANTS RecordedBeforeSent PendingIsLive
