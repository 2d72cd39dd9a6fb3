SPECIFICATION Spec
CONSTANTS
    Block <- MCBlock
    Height <- MCHeight
    Path <- MCPath
    Tx <- MCTx
    Txs <- MCTxs
    Coinbase <- MCCoinbase
    Ins <- MCIns
    Outs <- MCOuts
    NoAsset <- MCNoAsset
    KeepsAmount <- MCKeepsAmount
    Payees <- MCPayees
    Active <- MCActive
    Depth = 2
    Batch = 2
    Faults = {"reorg", "midreorg", "retreat", "fetch", "check", "abort", "conndrop", "stop", "crash"}
    MaxFaults = 2
INVARIANTS TypeOK Contiguous GapBounded OneChain RewoundToNode LedgerExact UtxoExact InputsResolved ActivityExact LotteryExact AmountsExact DamageBounded
PROPERTIES DropsOnlyStale
