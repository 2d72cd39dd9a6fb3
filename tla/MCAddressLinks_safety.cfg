SPECIFICATION FairSpec
CONSTANTS
    Http = {h1, h2}
    Nobody = Nobody
    Batch = 2
    Depth = 1
    MaxBlocks = 4
    MaxRewinds = 1
    Faults = {"tick", "refresh", "http"}
    MaxFaults = 1
INVARIANTS SettledExact ListUsed
PROPERTIES EventuallyExact
