SPECIFICATION StartLiveSpec
CONSTANTS
    Quotes <- MCQuotes
    NoRate = NoRate
    Word = 65536
    MaxChanges = 2
    Words = {"9733", "word", "regtest", "testnet", "signet", "long", "addr"}
    Ports = {"9733"}
    LongNames = {"long"}
    Addresses = {"addr"}
    Commands <- MCCommands
    Chains = {"main", "test", "regtest", "signet"}
INVARIANTS TypeOK FloorKept RemoteMinimumBelowOwn ArgumentsAsDocumented
PROPERTY FeesFollow
