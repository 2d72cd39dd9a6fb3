-------------------------- MODULE IndexerProperties --------------------------
(***************************************************************************)
(* What the index must be, said of the committed tables, with the node's    *)
(* blocks as the reference: nothing here depends on the order in which the  *)
(* explorer came by them.                                                   *)
(***************************************************************************)
EXTENDS Indexer, Sums

TypeOK ==
    /\ best \in Block
    /\ pc \in PCs
    /\ \A blocks \in {db.blocks, saved.blocks} :
          /\ DOMAIN blocks \subseteq Nat
          /\ \A h \in DOMAIN blocks : blocks[h] \in Block
    /\ tip \in Int /\ next \in Nat /\ last \in Int /\ n \in Nat
    /\ block \in Block
    /\ stop \in BOOLEAN
    /\ faults \in Seq(FaultNames) /\ Len(faults) <= MaxFaults

-------------------------------------------------------------------------------
(* Blocks *)

\* Every height up to the indexed one has a block (README.md: "Blocks | Every
\* height").  indexed_height is a MAX, so a gap would never be filled.  One fault
\* can make one: a read that is retried on a new connection.
NoGap == DOMAIN saved.blocks = 0 .. IndexedHeight(saved.blocks)
Contiguous == ~ Happened({"conndrop"}) => NoGap

\* Such a read loses the blocks of its batch.  Each time, no more heights than
\* one batch are missing from then on, and the blocks that are there are still of
\* one chain, unless the node switches branches within a batch or a tip check
\* fails by itself.
GapBounded ==
    /\ Cardinality((0 .. IndexedHeight(saved.blocks)) \ DOMAIN saved.blocks)
          <= Batch * Count("conndrop")
    /\ ~ Happened({"midreorg", "check"}) =>
          \A h, k \in DOMAIN saved.blocks :
              h <= k => Path[saved.blocks[k]][h] = saved.blocks[h]

\* The faults that OneChain does not survive have not happened ...
Disruptive == {"midreorg", "check", "conndrop"}
Calm == ~ Happened(Disruptive)

\* ... or cannot; and no branch of the tree leaves another that is no longer by
\* more than Depth blocks.
CalmFaults == Faults \cap Disruptive = {}
ShallowForks ==
    \A x, y \in Block :
        Height[x] <= Height[y] /\ Height[x] >= Depth =>
            Path[y][Height[x] - Depth] = Path[x][Height[x] - Depth]

\* The committed blocks are one chain of the node's tree: no block is stored on
\* another than its own predecessor.
OneChain ==
    Calm => saved.blocks = EmptyTable \/ \E b \in Block : saved.blocks = Path[b]

\* The comment in _rewind, "re-scan from 0 on deep reorgs": after a tip check,
\* what is kept is on the node's chain.  (Only the last block was compared.)
RewoundToNode ==
    Calm /\ pc = "block" /\ IndexedHeight(db.blocks) >= 0 =>
        OnChain(db.blocks[IndexedHeight(db.blocks)], best)

\* Committed blocks are dropped only when the last of them has left the node's
\* chain: no restart, stop or failed call loses a block.
DropsOnlyStale ==
    [][ ~ (DOMAIN saved.blocks \subseteq DOMAIN saved'.blocks) =>
            saved.blocks[IndexedHeight(saved.blocks)] \notin {Path[best][h] : h \in 0 .. Height[best]}
      ]_vars

\* The committed blocks are an implementation of the promised index.
Index == INSTANCE BlockIndex WITH index <- saved.blocks
IndexSpec == Index!Spec

\* Whatever the node has done and whatever has failed, once that ends the index
\* becomes the node's chain and stays it.  A node that stays below the indexed
\* height is left out: the tip check cannot compare anything then.
EventuallySynced ==
    <>[](Height[best] >= IndexedHeight(saved.blocks) => saved.blocks = Path[best])

-------------------------------------------------------------------------------
(* The node's consensus rules for the transactions of a chain.  The explorer *)
(* takes them for granted: it checks no block that the node gives it.        *)

TxAt(b, h, i) == Txs[Path[b][h]][i]

\* A transaction is mined at most once on a chain.
MinedOnce ==
    \A b \in Block : \A h, k \in 0 .. Height[b] :
        \A i \in DOMAIN Txs[Path[b][h]], j \in DOMAIN Txs[Path[b][k]] :
            TxAt(b, h, i) = TxAt(b, k, j) => h = k /\ i = j

\* No output is spent twice on a chain, and none before it is created.
SpentOnce ==
    \A b \in Block : \A h, k \in 0 .. Height[b] :
        \A i \in DOMAIN Txs[Path[b][h]], j \in DOMAIN Txs[Path[b][k]] :
            Spends(TxAt(b, h, i)) \cap Spends(TxAt(b, k, j)) # {} => h = k /\ i = j
SpentLater ==
    \A b \in Block : \A h, k \in 0 .. Height[b] :
        \A i \in DOMAIN Txs[Path[b][h]], j \in DOMAIN Txs[Path[b][k]] :
            (\E o \in Spends(TxAt(b, k, j)) : o[1] = TxAt(b, h, i)) =>
                h < k \/ (h = k /\ i < j)

\* A block has one coinbase, and a genesis block has nothing else: its outputs
\* carry no asset.
OneCoinbase ==
    \A b \in Block : \A i, j \in DOMAIN Txs[b] :
        Txs[b][i] \in Coinbase /\ Txs[b][j] \in Coinbase => i = j
OnlyPays(t) == t \in Coinbase /\ \A k \in DOMAIN Outs[t] : Outs[t][k].asset = NoAsset
GenesisOnlyPays ==
    \A b \in Block : Height[b] = 0 => \A i \in DOMAIN Txs[b] : OnlyPays(Txs[b][i])

ConsensusRules ==
    /\ \A b \in Block : Txs[b] \in Seq(Tx)
    /\ MinedOnce /\ SpentOnce /\ SpentLater /\ OneCoinbase /\ GenesisOnlyPays

\* Of the outputs of a chain that carry an asset, the first issues it and no
\* other does: its name is issued once, and moved or reissued after that.
Names(t, a) == \E k \in DOMAIN Outs[t] : Outs[t][k].asset = a
NamedBefore(blocks, h, i, a) ==
    \/ \E g \in 0 .. h - 1 : \E j \in DOMAIN Txs[blocks[g]] : Names(Txs[blocks[g]][j], a)
    \/ \E j \in 1 .. i - 1 : Names(Txs[blocks[h]][j], a)
IssuedFirst ==
    \A b \in Block : \A i \in DOMAIN Txs[b] : \A k \in DOMAIN Outs[Txs[b][i]] :
        LET t == Txs[b][i]
            a == Outs[t][k].asset
        IN  a \in KeepsAmount =>
                (Outs[t][k].kind \in {"new", "owner"} <=>
                    /\ ~ NamedBefore(Path[b], Height[b], i, a)
                    /\ \A q \in 1 .. k - 1 : Outs[t][q].asset # a)

AssetRules ==
    /\ NoAsset \notin KeepsAmount
    /\ \A t \in Tx :
          /\ Len(Outs[t]) \in Nat /\ DOMAIN Outs[t] = 1 .. Len(Outs[t])
          /\ \A k \in DOMAIN Outs[t] :
                /\ Outs[t][k].amount \in Int
                /\ Outs[t][k].asset \in KeepsAmount =>
                      Outs[t][k].kind \in {"new", "owner", "reissue", "transfer"}
    /\ IssuedFirst

-------------------------------------------------------------------------------
(* The tables that follow the blocks *)

\* No fault has happened that leaves a block half written or blocks of two
\* branches in the tables.
Whole == Calm /\ ~ Happened({"abort"})

\* <<height, transaction>> of a table of blocks.
MinedIn(blocks) ==
    UNION {{<<h, Txs[blocks[h]][i]>> : i \in DOMAIN Txs[blocks[h]]} : h \in DOMAIN blocks}
Mined == MinedIn(saved.blocks)

\* The outputs above the genesis block that carry coins or an asset, and the
\* outputs that are spent.
Created(mined) == UNION {Unspent(m[2], m[1]) : m \in {x \in mined : x[1] > 0}}
Spent(mined) == UNION {Spends(m[2]) : m \in mined}

\* The <<height, transaction, output>> that carry an asset.
AssetOutputs(mined) ==
    UNION {{<<m[1], m[2], k>> : k \in {j \in DOMAIN Outs[m[2]] : Outs[m[2]][j].asset # NoAsset}} :
              m \in mined}

\* What the tables hold when they hold exactly some mined transactions.
HoldsLedger(d, mined) ==
    LET txs == {m[2] : m \in mined}
    IN  /\ {<<d.txs[t], t>> : t \in DOMAIN d.txs} = mined
        /\ d.outs = UNION {Outpoint(t) : t \in txs}
        /\ DOMAIN d.ins = UNION {{<<t, i>> : i \in DOMAIN Ins[t]} : t \in txs}

Carries(o, h) == StoredValue(o, h) # 0 \/ Output(o).asset # NoAsset
HoldsUtxos(d, mined) ==
    {o \in DOMAIN d.utxos : Carries(o, d.utxos[o])} = Created(mined) \ Spent(mined)

HoldsInputs(d, mined) ==
    \A r \in DOMAIN d.ins : d.ins[r] \/ Ins[r[1]][r[2]] \notin Created(mined)

HoldsActivity(d, mined) ==
    /\ DOMAIN d.activity = AssetOutputs(mined)
    /\ \A r \in DOMAIN d.activity : d.activity[r] = 1

HoldsLottery(d, mined) ==
    LET paid == {m \in mined : m[1] >= 1 /\ m[2] \in Coinbase}
    IN  /\ DOMAIN d.wins = UNION {{<<m[1], k>> : k \in DOMAIN Payees[m[2]]} : m \in paid}
        /\ \A m \in paid : \A k \in DOMAIN Payees[m[2]] : d.wins[<<m[1], k>>] = Payees[m[2]][k]
        /\ d.active = UNION {{m[1]} \X Active[m[2]] : m \in paid}

\* A committed block is there whole, and nothing of a dropped one is left: txs
\* and txio hold the transactions of the stored blocks, each at its block's
\* height, and no other.
LedgerExact == Whole => HoldsLedger(saved, Mined)

\* Balances are sums over utxos.  Its rows that carry coins or an asset are the
\* outputs that the stored blocks create and do not spend, after any sequence
\* of batches, rewinds and restarts.
UtxoExact == Whole => HoldsUtxos(saved, Mined)

\* An input copies address and amount from the row of utxos that it removes,
\* and stores nothing when there is none.  Every stored input found its output,
\* unless that output carries nothing.
InputsResolved == Whole => HoldsInputs(saved, Mined)

\* asset_activity has no key: a block indexed again after a rewind or a restart
\* must leave one row for each asset output, and no row of a dropped block.
ActivityExact == Whole => HoldsActivity(saved, Mined)

\* The payouts shown are those of the stored coinbases, none for height 0.
LotteryExact == Whole => HoldsLottery(saved, Mined)

\* What an output, a transaction, a block and the blocks of a table without gaps
\* issue and reissue of an asset.
Adds(out, a) == out.asset = a /\ out.kind # "transfer"
IssuedBy(t, a) ==
    Total([k \in 1 .. Len(Outs[t]) |-> IF Adds(Outs[t][k], a) THEN Outs[t][k].amount ELSE 0])
IssuedIn(b, a) == Total([i \in 1 .. Len(Txs[b]) |-> IssuedBy(Txs[b][i], a)])
Issued(blocks, a) ==
    Total([k \in 1 .. IndexedHeight(blocks) + 1 |-> IssuedIn(blocks[k - 1], a)])

\* "issuance / reissue increases circulating" (_note_asset), and nothing else
\* does: a stored amount is what the stored blocks issued and reissued.
AmountsMatch ==
    \A a \in DOMAIN saved.assets \cap KeepsAmount :
        (\E r \in AssetOutputs(Mined) : Adds(Output(<<r[2], r[3]>>), a))
            => saved.assets[a].amount = Issued(saved.blocks, a)

\* It is so on a chain that has only grown.
AmountsExact == Whole /\ ~ Happened({"reorg", "retreat"}) => AmountsMatch

\* The comment makes no such exception: of an index that is in step with the
\* node it says the same after a branch switch.
SyncedAmountsExact == saved.blocks = Path[best] => AmountsMatch

\* An exception within a block leaves the rest of that block out for good.  Each
\* such exception costs one block and no more: all other blocks stay whole.
DamageBounded ==
    LET broken == {m[1] : m \in {x \in Mined : x[2] \notin DOMAIN saved.txs}}
    IN  Calm => Cardinality(broken) <= Count("abort")
===============================================================================
