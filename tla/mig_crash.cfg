SPECIFICATION LiveSpec
CONSTANTS
    Outputs = {o1, o2, o3}
    MaxCrashes = 2
INVARIANTS NothingLost RemovalFailsOnlyWhenTracked
PROPERTY EventuallyTracked
