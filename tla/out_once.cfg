SPECIFICATION LiveSpec
CONSTANTS
  Invoices = {"i1", "i2"}
  ZeroAmount = {}
  Keysends = {"k1"}
  Offers = {"o1"}
  Unpriced = {"o1"}
  Resend = FALSE
  MaxSends = 3
  MaxCrashes = 1
CHECK_DEADLOCK FALSE
INVARIANTS TypeOK FailedMeansUnpaid
PROPERTIES SuccessStays SettledIsRecorded PendingResolves
