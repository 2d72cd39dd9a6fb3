---------------------------- MODULE LaunchTrades ----------------------------
(***************************************************************************)
(* What trades.py calls a Launch trade: pure operators over one            *)
(* transaction, which decide whether it is a buy or a sell, of what, for   *)
(* how much and by whom, and which transaction hands a buyer's tokens out. *)
(* TradeFeed uses them on the transactions of the index and of the         *)
(* mempool.                                                                *)
(*                                                                         *)
(* A transaction is a record of two sequences of rows, vin and vout.  A    *)
(* row has an address, XFER atoms, an asset name, an asset amount, the     *)
(* kind of its asset output, and the fill marker of its OP_RETURN.  A      *)
(* marker is a record rather than text.  Python walks the addresses of a   *)
(* transaction in the order of its hash table: where that order decides,   *)
(* CHOOSE stands for it.                                                   *)
(***************************************************************************)
EXTENDS Integers, Sequences, FiniteSets, SequencesExt, FiniteSetsExt

CONSTANTS Treasury,      \* LAUNCH_TREASURY
          Proceeds,      \* the configured Launch addresses
          AliasOf,       \* a chain name -> the names that mean the same asset
          NameOf,        \* the NAME field of an XL1 marker -> the chain name
          Unique,        \* the names with a "#"
          OwnerTokens,   \* the names that end with "!"
          Units,         \* the decimals the assets table records, 0 when none
          MaxUnits,      \* 8 in the code
          NoAddr,        \* a row without an address
          NoAsset,       \* a row without an asset
          NoMemo         \* an output without a marker

ASSUME LaunchAssumption ==
    /\ MaxUnits \in Nat
    /\ NoAddr \notin Proceeds \cup {Treasury}
    /\ \A n \in DOMAIN AliasOf : n \in AliasOf[n]
    /\ \A n, m \in DOMAIN AliasOf : AliasOf[n] \cap AliasOf[m] # {} => AliasOf[n] = AliasOf[m]

FairKeepBps == 10000 - 60 - 30
PlatformFeeBps == 60
RouteMinFeeBps == 59

AbsOf(n) == IF n < 0 THEN -n ELSE n
NoTrade == [side |-> "none"]
-----------------------------------------------------------------------------
(* Names and amounts.                                                      *)

SameAsset(left, right) ==
    /\ {left, right} \subseteq DOMAIN AliasOf
    /\ AliasOf[left] \cap AliasOf[right] # {}

Scale(tokens, units) == tokens * 10 ^ (MaxUnits - units)

\* The number of decimals under which the marker's tokens are that amount.
InferUnits(tokens, moved) ==
    {u \in 0..MaxUnits : moved > 0 /\ Scale(tokens, u) = moved}

\* A stored 0 is "not known", except for a unique name.
UnitsFor(name) ==
    LET known == {u \in {Units[n] : n \in AliasOf[name] \cap DOMAIN Units} : u > 0}
    IN  IF known # {} THEN known ELSE IF name \in Unique THEN {0} ELSE {}

\* What the buyer paid when the marker holds the amount after the two fees.
FairGross(net) ==
    {g \in {(net * 10000) \div FairKeepBps} :
        net > 0 /\ (net * 10000) % FairKeepBps = 0 /\ g > net}
-----------------------------------------------------------------------------
(* The rows of a transaction, added up per address.                        *)

RowsWith(rows, Test(_)) == {i \in DOMAIN rows : Test(rows[i])}

Xfer(rows, a) ==
    MapThenSumSet(LAMBDA i : rows[i].value, RowsWith(rows, LAMBDA r : r.addr = a))

AddrsOf(tx) ==
    {row.addr : row \in ToSet(tx.vin) \cup ToSet(tx.vout)} \ {NoAddr}

\* What each address gains of it.
XferNets(tx) == [a \in AddrsOf(tx) |-> Xfer(tx.vout, a) - Xfer(tx.vin, a)]

\* What the inputs bring and the outputs do not pay out, never below 0.
NetworkFee(xfer) == Max({0, MapThenSumSet(LAMBDA a : -xfer[a], DOMAIN xfer)})

\* Issues and owner tokens are not counted as amounts that move.
Moves(row) ==
    /\ row.addr # NoAddr /\ row.asset # NoAsset /\ row.amount > 0
    /\ row.asset \notin OwnerTokens
    /\ row.kind \notin {"new", "reissue", "owner"}

Issued(tx) ==
    {row.asset : row \in {r \in ToSet(tx.vin) \cup ToSet(tx.vout) :
        /\ r.addr # NoAddr /\ r.asset # NoAsset /\ r.amount > 0
        /\ r.asset \notin OwnerTokens
        /\ r.kind \in {"new", "reissue", "owner"}}}

AmountOf(rows, a, name) ==
    MapThenSumSet(LAMBDA i : rows[i].amount,
        RowsWith(rows, LAMBDA r : Moves(r) /\ r.addr = a /\ r.asset = name))

NamesIn(tx) ==
    {row.asset : row \in {r \in ToSet(tx.vin) \cup ToSet(tx.vout) : Moves(r)}}

\* What each address gains of each asset.
AssetNets(tx) ==
    [at \in AddrsOf(tx) \X NamesIn(tx) |->
        AmountOf(tx.vout, at[1], at[2]) - AmountOf(tx.vin, at[1], at[2])]

\* The net moves of the asset a marker names, under every name it goes by.
Moved(tx, name) ==
    {m \in {[addr |-> a, held |-> h, amount |-> AmountOf(tx.vout, a, h) - AmountOf(tx.vin, a, h)] :
                a \in AddrsOf(tx), h \in NamesIn(tx)} :
        m.amount # 0 /\ SameAsset(m.held, name)}

\* The trade that was found, if one was.
FoundOf(trades) == IF trades = {} THEN NoTrade ELSE CHOOSE t \in trades : TRUE
-----------------------------------------------------------------------------
(* The markers.                                                            *)

MarkersOf(tx, tag) ==
    LET marked(m) == m # NoMemo /\ m.tag = tag /\ m.value > 0 /\ m.tokens > 0
        memo(i) == tx.vout[i].memo
    IN  FlattenSeq([i \in DOMAIN tx.vout |-> IF marked(memo(i)) THEN <<memo(i)>> ELSE <<>>])

FillMemos(tx) == MarkersOf(tx, "XL1")
RouteMemos(tx) == MarkersOf(tx, "XB1")
LoneSellMemo(tx) == Len(FillMemos(tx)) = 1 /\ FillMemos(tx)[1].side = "sell"
\* An XL1 marker may use a short name; XB1 always spells the chain name.
MarkedAsset(memo) == IF memo.tag = "XL1" THEN NameOf[memo.field] ELSE memo.field

LearnedFor(name, reserves) ==
    {reserves[n] : n \in AliasOf[name] \cap DOMAIN reserves} \ {NoAddr}
-----------------------------------------------------------------------------
(* A fill marked XL1.                                                      *)

PaysPlatformFee(tx, gross) ==
    LET expected == (gross * PlatformFeeBps) \div 10000
    IN  /\ expected > 0
        /\ \E row \in ToSet(tx.vout) :
              row.addr = Treasury /\ AbsOf(row.value - expected) <= 1

\* The one address other than the treasury that is paid exactly the net.
ReserveOutput(tx, net) ==
    LET hits == {row.addr : row \in {r \in ToSet(tx.vout) : r.value = net}}
                    \ {NoAddr, Treasury}
    IN  IF Cardinality(hits) = 1 THEN hits ELSE {}

\* The one address, none of the parties, that is paid 0.60% of the payout.
PlatformFeeOutput(tx, payout, skip) ==
    LET expected == (payout * PlatformFeeBps) \div 10000
        hits == {row.addr : row \in {r \in ToSet(tx.vout) :
                    /\ expected > 0 /\ r.asset = NoAsset
                    /\ AbsOf(r.value - expected) <= 1}}
                    \ (skip \cup {NoAddr, Treasury})
    IN  IF Cardinality(hits) = 1 THEN CHOOSE a \in hits : TRUE ELSE NoAddr

FromLaunch(tx, name, launch) ==
    \E row \in ToSet(tx.vin) :
        row.addr \in launch /\ SameAsset(row.asset, name) /\ row.amount > 0

ToBuyer(tx, name, atoms, buyer) ==
    {row \in ToSet(tx.vout) :
        row.addr = buyer /\ SameAsset(row.asset, name) /\ row.amount = atoms}

DeliveredInTx(tx, name, atoms, buyer) ==
    FromLaunch(tx, name, Proceeds) /\ ToBuyer(tx, name, atoms, buyer) # {}

\* The chain name of what a Launch address hands to the buyer, if it does.
TokenDelivery(tx, name, atoms, buyer) ==
    IF /\ FillMemos(tx) = <<>> /\ RouteMemos(tx) = <<>>
       /\ FromLaunch(tx, name, Proceeds \cup {Treasury})
    THEN {row.asset : row \in ToBuyer(tx, name, atoms, buyer)}
    ELSE {}

\* The seller: whoever lost exactly the amount, or the only one who spent the
\* asset, or the one who lost the most.
SellTrader(tx, name, atoms, moved, excluded) ==
    LET rows  == {i \in DOMAIN tx.vin :
                     /\ tx.vin[i].addr \notin excluded \cup {NoAddr}
                     /\ tx.vin[i].amount > 0
                     /\ SameAsset(tx.vin[i].asset, name)}
        spent == {tx.vin[i].addr : i \in rows}
        put(a) == MapThenSumSet(LAMBDA i : tx.vin[i].amount,
                                {i \in rows : tx.vin[i].addr = a})
        lost(a) == {-m.amount : m \in {o \in moved : o.addr = a /\ o.amount < 0}}
        loss(a) == IF lost(a) = {} THEN 0 ELSE CHOOSE n \in lost(a) : TRUE
        exact == {a \in spent : loss(a) = atoms}
    IN  IF Cardinality(exact) = 1 THEN exact
        ELSE IF spent = {} THEN {}
        ELSE {CHOOSE a \in spent : \A b \in spent :
                 \/ loss(a) > loss(b)
                 \/ loss(a) = loss(b) /\ put(a) >= put(b)}

Trade(side, name, atoms, xfer, trader, counterparty, reserve, pending, feeAddr) ==
    [side |-> side, asset |-> name, atoms |-> atoms, xfer |-> xfer,
     trader |-> trader, counterparty |-> counterparty, reserve |-> reserve,
     pending |-> pending, feeAddress |-> feeAddr]

BuyBy(tx, name, atoms, gross, buyer, reserve) ==
    Trade("buy", name, atoms, gross, buyer, reserve, reserve,
          ~DeliveredInTx(tx, name, atoms, buyer), NoAddr)

\* The buyer is whoever lost about the gross and the network fee.
BuyFromMemo(memo, tx, xfer, name, atoms) ==
    LET losers == {a \in DOMAIN xfer : xfer[a] < 0}
        off(a, cost) == AbsOf(-xfer[a] - cost)
        buyer(cost)  == CHOOSE a \in losers : \A b \in losers :
                           \/ off(a, cost) < off(b, cost)
                           \/ off(a, cost) = off(b, cost) /\ xfer[a] <= xfer[b]
    IN  FoundOf({BuyBy(tx, name, atoms, gross, buyer(gross + NetworkFee(xfer)), reserve) :
                    gross   \in {g \in FairGross(memo.value) :
                                    losers # {} /\ PaysPlatformFee(tx, g)},
                    reserve \in ReserveOutput(tx, memo.value)})

\* The asset reaches a Launch address and the payout leaves a Launch address
\* or the reserve learned for this asset.
SellFromMemo(memo, tx, xfer, name, atoms, moved, payers) ==
    LET gains == {m \in moved : m.amount = atoms /\ m.addr \in Proceeds}
        gain  == CHOOSE m \in gains : TRUE
        paid  == /\ \E row \in ToSet(tx.vin) : row.addr \in payers
                 /\ \E a \in payers \cap DOMAIN xfer : -xfer[a] = memo.value
    IN  FoundOf({Trade("sell", gain.held, atoms, memo.value, seller, gain.addr, NoAddr, FALSE,
                       PlatformFeeOutput(tx, memo.value,
                           {seller} \cup payers \cup {m.addr : m \in gains})) :
                    seller \in {a \in SellTrader(tx, name, atoms, moved, payers \cup {Treasury}) :
                                   gains # {} /\ paid}})

\* With the decimals on record, or else those that the amounts fit.
MemoTrade(memo, tx, reserves, name, moved) ==
    LET inferred == UNION {InferUnits(memo.tokens, AbsOf(m.amount)) : m \in moved}
        trade(units) ==
            LET atoms == Scale(memo.tokens, CHOOSE u \in units : TRUE)
            IN  IF units = {} THEN NoTrade
                ELSE IF memo.side = "buy"
                THEN BuyFromMemo(memo, tx, XferNets(tx), name, atoms)
                ELSE SellFromMemo(memo, tx, XferNets(tx), name, atoms, moved,
                                  Proceeds \cup LearnedFor(name, reserves))
    IN  trade(IF UnitsFor(name) # {} THEN UnitsFor(name) ELSE inferred)

TradeFromMemo(memo, tx, reserves) ==
    MemoTrade(memo, tx, reserves, MarkedAsset(memo), Moved(tx, MarkedAsset(memo)))
-----------------------------------------------------------------------------
(* An order book trade marked XB1: the Launch fees paid in the same        *)
(* transaction are its only anchor.                                        *)

\* Decimals on record, else those the amounts fit, else the fewest that every
\* moved amount is a multiple of, else none.
RouteUnits(memo, name, moved) ==
    LET inferred == UNION {InferUnits(memo.tokens, AbsOf(m.amount)) : m \in moved}
        fits == {u \in 0..MaxUnits :
                    moved # {} /\ \A m \in moved : AbsOf(m.amount) % (10 ^ (MaxUnits - u)) = 0}
    IN  IF UnitsFor(name) # {} THEN CHOOSE u \in UnitsFor(name) : TRUE
        ELSE IF inferred # {} THEN CHOOSE u \in inferred : TRUE
        ELSE IF fits # {} THEN CHOOSE u \in fits : \A v \in fits : u <= v
        ELSE 0

\* What those of these addresses gain that gain.
GainedBy(xfer, addrs) ==
    MapThenSumSet(LAMBDA a : xfer[a], {a \in addrs \cap DOMAIN xfer : xfer[a] > 0})

RouteTrade(memo, tx, xfer, name, moved, launch) ==
    LET losers == {m \in moved : m.amount < 0 /\ m.addr \notin launch}
        taker  == IF memo.side = "sell" /\ losers # {}
                  THEN (CHOOSE m \in losers : \A o \in losers : m.amount <= o.amount).addr
                  ELSE IF tx.vin # <<>> THEN tx.vin[1].addr ELSE NoAddr
        held   == IF moved = {} THEN name ELSE (CHOOSE m \in moved : TRUE).held
        enough(fee) == fee > 0 /\ fee * 10000 >= memo.value * RouteMinFeeBps
    IN  FoundOf({Trade(memo.side, held, Scale(memo.tokens, RouteUnits(memo, name, moved)),
                       memo.value, a, NoAddr, NoAddr, FALSE, NoAddr) :
                    a \in {b \in {taker} \ (launch \cup {NoAddr}) : enough(GainedBy(xfer, launch))}})

TradeFromRoute(memo, tx, reserves, fees) ==
    LET name == MarkedAsset(memo)
    IN  RouteTrade(memo, tx, XferNets(tx), name, Moved(tx, name),
                   Proceeds \cup {Treasury} \cup LearnedFor(name, reserves) \cup fees)
-----------------------------------------------------------------------------
(* Without a marker: a swap of one asset between one configured Launch     *)
(* address and one other, in which nothing else moves but the fee.         *)

SwapBetween(xfer, given, taken, party, trader, name) ==
    LET side == IF taken > 0 THEN "buy" ELSE "sell"
        got  == IF side = "buy" THEN xfer[party] ELSE xfer[trader]
        paid == IF side = "buy" THEN -xfer[trader] ELSE -xfer[party]
    IN  {trade \in {Trade(side, name, AbsOf(taken), got, trader, party, NoAddr, FALSE, NoAddr)} :
            /\ given # 0 /\ taken = -given /\ trader \notin Proceeds
            /\ {a \in DOMAIN xfer : xfer[a] # 0} \subseteq {trader, party}
            /\ got > 0 /\ paid > 0 /\ AbsOf(paid - got) = NetworkFee(xfer)}

SwapsOf(xfer, held, party, name) ==
    LET others == {a \in DOMAIN xfer \ {party} : held[a, name] # 0}
    IN  UNION {SwapBetween(xfer, held[party, name], held[a, name], party, a, name) :
                  a \in {b \in others : others = {b}}}

Swaps(tx, xfer, held) ==
    LET present == {a \in DOMAIN xfer \cap Proceeds :
                       xfer[a] # 0 \/ \E n \in NamesIn(tx) : held[a, n] # 0}
    IN  UNION {SwapsOf(xfer, held, at[1], at[2]) :
                  at \in {b \in present : present = {b}} \X (NamesIn(tx) \ Issued(tx))}

TradeFromSwap(tx) ==
    LET swaps == Swaps(tx, XferNets(tx), AssetNets(tx))
    IN  IF Cardinality(swaps) = 1 THEN FoundOf(swaps) ELSE NoTrade
-----------------------------------------------------------------------------
\* classify_launch_trade: with more than one marker it is no trade.
Classify(tx, reserves, fees) ==
    LET fills  == FillMemos(tx)
        routes == RouteMemos(tx)
    IN  IF Proceeds = {} \/ Len(fills) + Len(routes) > 1 THEN NoTrade
        ELSE IF fills # <<>> THEN TradeFromMemo(fills[1], tx, reserves)
        ELSE IF routes # <<>> THEN TradeFromRoute(routes[1], tx, reserves, fees)
        ELSE TradeFromSwap(tx)
=============================================================================
