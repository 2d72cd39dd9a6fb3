SPECIFICATION FairSpec
CONSTANTS
    Treasury = "treasury"
    Proceeds = {"treasury", "launch"}
    AliasOf <- MCAliasOf
    NameOf <- MCNameOf
    Unique = {}
    OwnerTokens = {}
    Units <- MCUnits
    MaxUnits = 2
    NoAddr = "none"
    NoAsset = "none"
    NoMemo = NoMemo
    NoTx = "none"
    RelayStates <- MCRelayStates
    Threads = {"t1", "t2"}
    Txs <- MCTxs
    Stories <- MCStories
    Indexed = {"LAUNCH/M"}
    MarkLimit = 2
    DeliveryLimit = 1
    TrueSide <- MCTrueSide
    TrueTrader <- MCTrueTrader
INVARIANTS
    OwnDay
    LearnedVerified
    PagesSound
    SellsComplete
PROPERTIES
    DeliveriesMatched
    PagesCatchUp
