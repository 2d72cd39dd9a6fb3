SPECIFICATION FairSpec
CONSTANTS
    Callers = {"indexer", "page"}
    Indexing = "indexer"
    NodeStates <- MCNodeStates
    InitialSubsidy = 4
    Eras = 4
    Interval = 2
    SupplyTtl = 2
    BlockBurns = {0, 3}
    SupplyTime = 3
    SupplyBlocks = 3
    Cids = {"p", "q", "s"}
    Readers = {"r1", "r2"}
    Gateways = 2
    CacheMax = 2
    CacheTtl = 1
    CacheTime = 3
    RelayStates <- MCRelayStates
    NoTx = "none"
    SharedBy <- MCSharedBy
    OldBlocks = 2
    Lookers = {"l1", "l2"}
INVARIANTS
    SupplySound
    MetadataSound
    
    RebuildsExact
PROPERTIES
    RpcRecovers
