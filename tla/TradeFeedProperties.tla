------------------------ MODULE TradeFeedProperties ------------------------
(***************************************************************************)
(* What the trades page owes its readers.  The chain is all the feed has   *)
(* to go by, so a reserve is as good as the buy that teaches it: one that  *)
(* pays the fee and that a Launch address delivers (trades.py:17-20).      *)
(***************************************************************************)
EXTENDS TradeFeed

CONSTANTS TrueSide,      \* transaction -> "buy", "sell" or "none"
          TrueTrader     \* transaction -> who traded
-----------------------------------------------------------------------------
(* What can be known of reserves and fee addresses.                        *)

\* A Launch address hands out what a buy bought.
HandsOut(c, id) ==
    /\ c # id
    /\ FromLaunch(Txs[c], BuyOf[id].asset, Proceeds \cup {Treasury})
    /\ ToBuyer(Txs[c], BuyOf[id].asset, BuyOf[id].atoms, BuyOf[id].trader) # {}

\* A buy that names a reserve paid the fee to the treasury (PaysPlatformFee).
NamesReserve(id) == BuyOf[id].side = "buy" /\ BuyOf[id].reserve # NoAddr

\* The buys of the index that are delivered, in their block or later.
VerifiedBuys ==
    {id \in InIndex :
        /\ NamesReserve(id)
        /\ BuyOf[id].pending => \E c \in InIndex : HandsOut(c, id) /\ HeightOf(c) >= HeightOf(id)}

\* Those that are delivered in some story.
TxsOf(s) == UNION {ToSet(block) : block \in ToSet(s.past \o s.new)}

DeliverableBuys ==
    {id \in DOMAIN Txs :
        /\ NamesReserve(id)
        /\ BuyOf[id].pending => \E s \in Stories : id \in TxsOf(s) /\ \E c \in TxsOf(s) : HandsOut(c, id)}

\* What buys tell about the reserves of assets, and what may be known then.
ReservesBy(buys, name) == {BuyOf[id].reserve : id \in {b \in buys : SameAsset(BuyOf[b].asset, name)}}

KnownBy(buys) ==
    LET of == [n \in DOMAIN AliasOf |-> ReservesBy(buys, n) \cup {NoAddr}]
    IN  {res \in [DOMAIN AliasOf -> UNION Range(of)] : \A n \in DOMAIN AliasOf : res[n] \in of[n]}

\* The fee addresses that sells pay, to who knows that.
FeesBy(buys, sells) ==
    {trade.feeAddress :
        trade \in {t \in {Classify(Txs[id], res, {}) : id \in sells, res \in KnownBy(buys)} :
                      t.side = "sell"}} \ {NoAddr}

\* What may ever be known.
Knowable == KnownBy(DeliverableBuys)
KnowableFees == FeesBy(DeliverableBuys, DOMAIN Txs)

\* A transaction as it may be read: with its markers, before they are stored,
\* and from the mempool, with some of the transactions it spends.
SeenAs(id) ==
    {Txs[id], NoMarkers(Txs[id])}
    \cup {WithParents(id, parents) : parents \in SUBSET {row.prev : row \in ToSet(Txs[id].vin)}}

\* What a pass may make of it.
TradesOf(id) ==
    {Classify(view, res, fees) : view \in SeenAs(id), res \in Knowable, fees \in SUBSET KnowableFees}

\* Whenever a transaction is taken for a trade, it is for the same one, with its
\* marker or without, with its inputs known or not, and whichever of the
\* reserves and fee addresses that can be verified are known by then.
ASSUME TruthAssumption ==
    \A id \in DOMAIN Txs : \A trade \in {t \in TradesOf(id) : t.side # "none"} :
        trade.side = TrueSide[id] /\ trade.trader = TrueTrader[id]
-----------------------------------------------------------------------------
\* A transaction hands the tokens of a trade to its trader.
Hands(view, trade) == TokenDelivery(view, trade.asset, trade.atoms, trade.trader) # {}

\* A delivery hands out one amount to one buyer (the feed takes it for one buy):
\* what would do for two buys does for both or neither.
ASSUME DeliveryAssumption ==
    LET views == UNION {{Txs[id], NoMarkers(Txs[id])} : id \in DOMAIN Txs}
        buys  == {trade \in UNION {TradesOf(id) : id \in DOMAIN Txs} :
                     trade.side = "buy" /\ trade.pending}
    IN  \A v, w \in views : \A a, b \in buys :
           Hands(v, a) /\ Hands(v, b) /\ Hands(w, a) => Hands(w, b)

\* The relay lists a trade with its side, and with its trader or a Launch
\* address for which the inputs tell who it was.
ASSUME RelayTruthAssumption ==
    \A m, a \in 0..Len(RelayStates) :
        LET rows == RowsOf([markets |-> m, auctions |-> a])
        IN  \A i \in DOMAIN rows :
               rows[i].txid \in DOMAIN Txs /\ TrueSide[rows[i].txid] # "none"
               => /\ rows[i].side = TrueSide[rows[i].txid]
                  /\ TraderOf(rows[i]) = TrueTrader[rows[i].txid]

\* A page shows as confirmed only trades of the day it was asked for, and the
\* list in memory is of the day it is kept under: midnight may pass while a
\* thread reads, and a slow request may turn the day back (_begin_day,
\* today_confirmed).
OwnDay ==
    /\ feed.age # NotBuilt => \A row \in feed.trades : DayOf(row.tx) = feed.key
    /\ \A t \in story.threads : th[t].pc = "merge" =>
          \A row \in th[t].rows : DayOf(row.tx) = th[t].moment

\* Only verified buys teach reserves: a copied marker that pays no fee, or a buy
\* that is not delivered, teaches none.  Only sells of such a reserve teach fee
\* addresses, and under a name the first reserve is kept, whoever else is
\* learning (_remember_reserve, _remember_fee).  It is the chain that verifies:
\* of two equal buys of one buyer and one delivery, both are.
LearnedVerified ==
    /\ \A row \in table : row.addr \in ReservesBy(VerifiedBuys, row.asset)
    /\ \A r, s \in table : r.asset = s.asset => r = s
    /\ \A addr \in feeTable : addr \in FeesBy(VerifiedBuys, InIndex)

\* A transaction is on a page once, and is shown as a trade only if it is one,
\* on its side and by its trader: from the mempool, from the index, or from the
\* relay, which may have booked it to a Launch address (refunds, which the
\* relay lists with the fills, are left out).
PagesSound ==
    \A t \in story.threads : th[t].pc = "merge" =>
        \A m, a \in 0..Len(RelayStates) :
            LET page == {row \in Page(t, [markets |-> m, auctions |-> a]) :
                            row.gen # -1 \/ (row.tx \in InIndex /\ TrueSide[row.tx] # "none")}
            IN  /\ \A row \in page : /\ TrueSide[row.tx] = row.trade.side
                                     /\ TrueTrader[row.tx] = row.trade.trader
                /\ \A row, other \in page : row.tx = other.tx => row = other

\* A reading judges a transaction by what is known at that time.
AsRead(id) == Classify(View(id), LoadReserves, feeTable)

\* Its buys that wait for their tokens, and what could be the delivery of each,
\* every transaction of one buy at most.
Waiting(views) == {id \in ToSet(views) : AsRead(id).side = "buy" /\ AsRead(id).pending}

Pairings(views) ==
    {pairs \in SUBSET {p \in [buy : Waiting(views), by : ToSet(views)] :
                          /\ p.by # p.buy /\ HeightOf(p.by) >= HeightOf(p.buy)
                          /\ Hands(View(p.by), AsRead(p.buy))} :
        \A p, q \in pairs : p.buy = q.buy \/ p.by = q.by => p = q}

\* Of the buys that wait, as many are shown as delivered as the deliveries read
\* can serve, each one once, in its block or a later one (_attach_deliveries
\* takes the first that fits, buy after buy).
DeliveriesMatched ==
    [][\A t \in story.threads : th[t].pc = "read" /\ th'[t].pc = "learn" =>
          LET views  == DayViews(height, th[t].moment)
              served == {id \in Waiting(views) : \E row \in th'[t].rows :
                            row.tx = id /\ row.trade.side = "buy" /\ ~row.trade.pending}
          IN  /\ \E pairs \in Pairings(views) : served = {p.buy : p \in pairs}
              /\ \A pairs \in Pairings(views) : Cardinality(pairs) <= Cardinality(served)]_vars

\* The buys that a search for the asset can come upon: their marker spells one
\* of its names, and was stored, or is read again with the block it is in.
Findable(asset) ==
    {b \in DOMAIN Txs :
        /\ MarkedWith(b, "buy", AliasOf[asset])
        /\ b \in story.unread =>
              \E u \in story.unread : HeightOf(u) = HeightOf(b) /\ Touches(u, asset)}

\* The search looks at all that carries its markers (LIMIT 20).
AllSeen(asset) == \A n \in AliasOf[asset] : Cardinality(BuysMarked(n, {})) <= MarkLimit

\* Whichever verified reserve is the one that is known, the sell looks like one.
Recognized(s) ==
    \A res \in KnownBy(VerifiedBuys) :
        LearnedFor(SellAsset(s), res) # {} => Classify(Txs[s], res, {}).side = "sell"

XL1Sells(views) == {s \in ToSet(views) \ story.unread : LoneSellMemo(Txs[s]) /\ Recognized(s)}

\* A marked sell is on the page of its day whenever the search finds a delivered
\* buy of its asset in the index, of that day or an earlier one.  The code's
\* exceptions: more markers of the asset than the search looks at, more equal
\* deliveries before that of the buy than it looks at (DeliveredAmong), an asset
\* sought in vain before, an old marker that could not be read from the node,
\* and a sell of another reserve than the verified one that was learned
\* (_assemble: buys first, then the search).
SellsComplete ==
    \A t \in story.threads : th[t].pc = "store" =>
        \A s \in XL1Sells(DayViews(th[t].upto, th[t].moment)) :
            LET asset == SellAsset(s)
                ids   == TxsUpTo(th[t].upto)
            IN  (/\ \E b \in Findable(asset) \cap ToSet(ids) : Teaches(ids, b, asset)
                 /\ AllSeen(asset) /\ asset \notin th[t].unsought)
                => \E row \in th[t].rows : row.tx = s

\* A buy of the asset and the delivery of it, both with their markers stored.
TaughtBy(ids, asset) ==
    \E b, c \in ToSet(ids) \ unread :
        /\ NamesReserve(b) /\ SameAsset(BuyOf[b].asset, asset)
        /\ HandsOut(c, b) /\ Hands(View(c), BuyOf[b]) /\ HeightOf(c) >= HeightOf(b)

\* What a list of the last day holds once nothing happens any more.
CaughtUp(rows) ==
    LET views == DayViews(height, day)
        shown == {row.tx : row \in rows}
    IN  /\ \A row \in rows : row.gen = labels.gen
        /\ \A b \in ToSet(views) \ unread : BuyOf[b].side = "buy" => b \in shown
        /\ \A s \in XL1Sells(views) : TaughtBy(views, SellAsset(s)) => s \in shown

\* When blocks, labels and days stop changing, every page served from then on
\* shows the day's buys, and the sells of the listings bought that day, with
\* the labels of now: no stale list is kept for good (cache_seconds).
PagesCatchUp ==
    <>[](\A t \in story.threads : th[t].pc = "merge" => CaughtUp(th[t].rows))
=============================================================================
