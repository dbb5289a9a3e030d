SPECIFICATION Spec
CONSTANTS
  Invoices = {"i1", "i2"}
  ZeroAmount = {}
  Keysends = {"k1"}
  Offers = {}
  Unpriced = {}
  Resend = TRUE
  MaxSends = 3
  MaxCrashes = 2
CHECK_DEADLOCK FALSE
INVARIANT FailedMeansUnpaid
