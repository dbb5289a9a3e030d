SPECIFICATION LiveSpec
CONSTANTS
    Channels = {"c1"}
    Branches = {1, 2}
    None = None
    MaxHeight = 3
    MaxCrashes = 2
INVARIANTS TypeOK NoBlockSkipped EveryChannelWatched
PROPERTY CatchesUp
