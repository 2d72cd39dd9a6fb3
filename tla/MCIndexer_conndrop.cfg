SPECIFICATION Spec
CONSTANTS
    Block <- MCBlock
    Height <- MCHeight
    Path <- MCPath
    Tx <- MCTx
    Txs <- MCTxs
    Coinbase <- MCCoinbase
    Ins <- MCIns
    Outs <- MCOuts
    NoAsset <- MCNoAsset
    KeepsAmount <- MCKeepsAmount
    Payees <- MCPayees
    Active <- MCActive
    Depth = 2
    Batch = 3
    Faults = {"conndrop"}
    MaxFaults = 1
INVARIANTS NoGap
