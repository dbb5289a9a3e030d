SPECIFICATION LiveSpec
CONSTANTS
    Peers = {"p1"}
    Moved = {"p1"}
    Strangers = {"s1"}
    Callers = {"s1"}
    MaxUpdates = 1
INVARIANTS TypeOK OnlyCheckedConnectLate SavedAtExit
PROPERTIES QuitEndsProcess PeersReconnect
