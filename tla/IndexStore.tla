------------------------------ MODULE IndexStore ------------------------------
(***************************************************************************)
(* The tables of explorer/db.py that follow the chain, and what indexing a  *)
(* transaction, rewinding and the genesis repair do to them                 *)
(* (explorer/indexer.py).  A database is a record with one field per table; *)
(* a table with a primary key is a function from its key.                   *)
(*                                                                          *)
(* A transaction stands for its txid.  Addresses, scripts, times and node   *)
(* handles are left out: none of them decides which row is written.         *)
(***************************************************************************)
EXTENDS Integers, Sequences, FiniteSets

CONSTANTS
    Tx,         \* the transactions
    Txs,        \* Txs[b]: the transactions of block b, in order
    Coinbase,   \* the coinbase transactions
    Ins,        \* Ins[t]: the outpoints <<tx, n>> that t spends, in order
    Outs,       \* Outs[t]: the outputs of t, records with the fields
                \*   value, data (nulldata or nonstandard script), asset,
                \*   kind ("new", "owner", "reissue", "transfer"), amount
    NoAsset,    \* the asset of an output that carries none
    KeepsAmount,\* the assets whose name is root, sub, unique or owner
    Payees,     \* Payees[t]: the lottery payees of coinbase t, in order
    Active      \* Active[t]: the node ids that coinbase t records as active

None == -1

Outpoint(t) == {<<t, n>> : n \in DOMAIN Outs[t]}
Output(o) == Outs[o[1]][o[2]]

EmptyTable == [x \in {} |-> None]

EmptyDb ==
    [ blocks   |-> EmptyTable,  \* height -> block
      txs      |-> EmptyTable,  \* tx -> height
      outs     |-> {},          \* txio rows of direction 'out': outpoints
      ins      |-> EmptyTable,  \* txio rows of direction 'in': <<tx, i>> -> resolved?
      utxos    |-> EmptyTable,  \* outpoint -> height
      assets   |-> EmptyTable,  \* name -> [amount, created]
      activity |-> EmptyTable,  \* asset_activity: <<height, tx, n>> -> number of rows
      wins     |-> EmptyTable,  \* lottery_wins: <<height, rank>> -> payee
      active   |-> {} ]         \* lottery_active: <<height, node>>

\* INSERT OR REPLACE of the rows of `new' into `table'.
Upsert(table, new) ==
    [k \in DOMAIN table \cup DOMAIN new |->
        IF k \in DOMAIN new THEN new[k] ELSE table[k]]

\* DELETE of the rows whose key is in `keys'.
Without(table, keys) == [k \in DOMAIN table \ keys |-> table[k]]

\* SELECT MAX(height) FROM blocks, or -1.
IndexedHeight(blocks) ==
    IF DOMAIN blocks = {} THEN -1
    ELSE CHOOSE h \in DOMAIN blocks : \A k \in DOMAIN blocks : k <= h

-------------------------------------------------------------------------------
(* One transaction *)

\* The value an output is stored with: nothing for a genesis coinbase, a
\* nulldata or a nonstandard script.
StoredValue(o, h) ==
    IF Output(o).data \/ (o[1] \in Coinbase /\ h < 1) THEN 0 ELSE Output(o).value

\* The outputs that become rows of utxos.
Unspent(t, h) ==
    {o \in Outpoint(t) : StoredValue(o, h) # 0 \/ Output(o).asset # NoAsset}

Spends(t) == {Ins[t][i] : i \in DOMAIN Ins[t]}

\* Mutant: a reissue is taken for a transfer.
NoteAssetOnce(assets, out, h) ==
    Upsert(assets, [a \in {out.asset} |->
        IF a \in DOMAIN assets THEN assets[a]
        ELSE [amount |-> out.amount, created |-> IF out.kind \in {"new", "owner"} THEN h ELSE None]])

\* The upsert of one asset output into assets, followed by the addition that a
\* reissue makes.
NoteAsset(assets, out, h) ==
    LET known == out.asset \in DOMAIN assets
        kept == known /\ out.asset \in KeepsAmount
                      /\ assets[out.asset].created # None
        created == IF out.kind \in {"new", "owner"} THEN h ELSE None
        added == IF out.kind = "reissue" THEN out.amount ELSE 0
        base == IF kept THEN assets[out.asset].amount ELSE out.amount
    IN  Upsert(assets, [a \in {out.asset} |->
            [amount  |-> base + added,
             created |-> IF known THEN assets[a].created ELSE created]])

\* The outputs of t in their order.
NoteAssets(assets, t, h) ==
    LET noted[k \in 0 .. Len(Outs[t])] ==
            IF k = 0 THEN assets
            ELSE IF Outs[t][k].asset = NoAsset THEN noted[k - 1]
            ELSE NoteAsset(noted[k - 1], Outs[t][k], h)
    IN  noted[Len(Outs[t])]

\* asset_activity has no key: a row is added for every asset output, whatever
\* is there already.
NoteActivity(activity, t, h) ==
    LET rows == {<<h, t, o[2]>> : o \in {p \in Outpoint(t) : Output(p).asset # NoAsset}}
    IN  Upsert(activity, [r \in rows |-> IF r \in DOMAIN activity THEN activity[r] + 1 ELSE 1])

\* _index_tx: spend the inputs that are still unspent, add the outputs, note
\* the assets, record the payees of a coinbase above the genesis block.
IndexTx(db, t, h) ==
    LET pays == t \in Coinbase /\ h >= 1
        unspent == Without(db.utxos, Spends(t))
    IN  [db EXCEPT
            !.txs = Upsert(@, [x \in {t} |-> h]),
            !.outs = @ \cup Outpoint(t),
            !.ins = Upsert(@, [r \in {<<t, i>> : i \in DOMAIN Ins[t]} |->
                                    Ins[t][r[2]] \in DOMAIN db.utxos]),
            !.utxos = Upsert(unspent, [o \in Unspent(t, h) |-> h]),
            !.assets = NoteAssets(@, t, h),
            !.activity = NoteActivity(@, t, h),
            !.wins = IF pays THEN Upsert(@, [r \in {<<h, k>> : k \in DOMAIN Payees[t]} |->
                                                Payees[t][r[2]]])
                     ELSE @,
            !.active = IF pays THEN @ \cup ({h} \X Active[t]) ELSE @]

-------------------------------------------------------------------------------
(* Blocks, rewinding, repair *)

PutBlock(db, h, b) == [db EXCEPT !.blocks = Upsert(@, [k \in {h} |-> b])]

\* _repair_genesis
RepairGenesis(db) ==
    [db EXCEPT !.wins = Without(@, {r \in DOMAIN @ : r[1] = 0}),
               !.active = {r \in @ : r[1] # 0},
               !.utxos = Without(@, {o \in DOMAIN @ : @[o] = 0})]

\* Mutant: the outputs that remaining inputs spend come back too.
RebuildAllOutputs(db) ==
    [db EXCEPT !.utxos = [o \in {p \in db.outs : p[1] \in DOMAIN db.txs} |-> db.txs[o[1]]]]

\* _rebuild_utxos: every stored output that no stored input spends, whatever
\* its value.
RebuildUtxos(db) ==
    LET spent == {Ins[r[1]][r[2]] : r \in DOMAIN db.ins}
        rows == {o \in db.outs : o[1] \in DOMAIN db.txs /\ o \notin spent}
    IN  [db EXCEPT !.utxos = [o \in rows |-> db.txs[o[1]]]]

\* Mutants: one table is forgotten by the rewind.
DropAllButTxio(db, h) ==
    LET gone == {t \in DOMAIN db.txs : db.txs[t] > h}
    IN  [db EXCEPT
            !.blocks = Without(@, {k \in DOMAIN @ : k > h}),
            !.txs = Without(@, gone),
            !.utxos = Without(@, {o \in DOMAIN @ : o[1] \in gone}),
            !.activity = Without(@, {r \in DOMAIN @ : r[1] > h}),
            !.wins = Without(@, {r \in DOMAIN @ : r[1] > h}),
            !.active = {r \in @ : r[1] <= h}]
DropAllButActivity(db, h) == [DropAllButTxio(db, h) EXCEPT
    !.outs = {o \in @ : o[1] \notin {t \in DOMAIN db.txs : db.txs[t] > h}},
    !.ins = Without(@, {r \in DOMAIN @ : r[1] \in {t \in DOMAIN db.txs : db.txs[t] > h}}),
    !.activity = db.activity]
DropAllButWins(db, h) == [DropAllButActivity(db, h) EXCEPT
    !.activity = Without(@, {r \in DOMAIN @ : r[1] > h}),
    !.wins = db.wins]

\* The tables keyed by height or by transaction, cut down to height h.
DropAbove(db, h) ==
    LET gone == {t \in DOMAIN db.txs : db.txs[t] > h}
    IN  [db EXCEPT
            !.blocks = Without(@, {k \in DOMAIN @ : k > h}),
            !.txs = Without(@, gone),
            !.outs = {o \in @ : o[1] \notin gone},
            !.ins = Without(@, {r \in DOMAIN @ : r[1] \in gone}),
            !.utxos = Without(@, {o \in DOMAIN @ : o[1] \in gone}),
            !.activity = Without(@, {r \in DOMAIN @ : r[1] > h}),
            !.wins = Without(@, {r \in DOMAIN @ : r[1] > h}),
            !.active = {r \in @ : r[1] <= h}]

\* Mutant: the spent outputs are not brought back.
RewindWithoutRebuild(db, h) == DropAbove(db, h)

\* _rewind: drop the blocks above h, then rebuild the unspent outputs, or wipe
\* them with the assets when nothing is kept.
Rewind(db, h) ==
    IF h < 0
    THEN [DropAbove(db, h) EXCEPT !.utxos = EmptyTable, !.assets = EmptyTable]
    ELSE RebuildUtxos(DropAbove(db, h))
===============================================================================
