SPECIFICATION LiveSpec
CONSTANTS
    STOP_GAP = 2
    MaxIndex = 3
    MaxBuilt = 2
    LowFee = {2}
    MaxCrashes = 1
PROPERTIES PersistedNotReissued ReportedNotReused PaymentsFound PackagesArrive
