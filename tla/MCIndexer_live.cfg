SPECIFICATION FairSpec
CONSTANTS
    Block <- MCBlock
    Height <- MCHeight
    Path <- MCPath
    Tx <- MCTx
    Txs <- MCTxs
    Coinbase <- MCCoinbase
    Ins <- MCIns
    Outs <- MCOuts
    NoAsset <- MCNoAsset
    KeepsAmount <- MCKeepsAmount
    Payees <- MCPayees
    Active <- MCActive
    Depth = 2
    Batch = 2
    Faults = {"reorg", "retreat", "fetch", "stop", "crash"}
    MaxFaults = 2
PROPERTIES IndexSpec EventuallySynced
