SPECIFICATION LiveSpec
CONSTANTS
    Invoices = {"i1", "i2"}
    Keysends = {"k1"}
    MaxCrashes = 1
INVARIANTS AnsweredInvoicesKept SucceededMeansClaimed
PROPERTIES ReceivedStays ReceivedIsRecorded
