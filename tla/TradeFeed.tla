----------------------------- MODULE TradeFeed -----------------------------
(***************************************************************************)
(* The trades page (TradeFeed of trades.py): what it classifies, learns    *)
(* and keeps in memory while the chain, the mempool and the calendar move  *)
(* on under it.  HTTP threads call page(), which reads the mempool, then   *)
(* today's confirmed trades, merges the relay's copy, and reads today's    *)
(* trades once more for its figures.                                       *)
(*                                                                         *)
(* Time is the civil day of a block or of the clock, and for each copy in  *)
(* memory whether it is older than cache_seconds: age 0 is younger.  The   *)
(* index only grows here; what a rewind does to it is in Indexer.          *)
(***************************************************************************)
EXTENDS LaunchTrades, RelayRows

CONSTANTS Threads,
          Txs,          \* the transactions: vin, vout; an input's row has prev
          Stories,      \* past: the blocks there are; unread: transactions indexed
                        \* before markers were stored; new: the blocks to come;
                        \* bounds: days after the first, gens (rebuilds of the
                        \* labels), threads that ask for pages
          Indexed,      \* the names the assets table has
          MarkLimit,    \* how many marked transactions a search looks at, 20
          DeliveryLimit \* how many rows of deliveries, 8

ASSUME LimitsAssumption == MarkLimit \in Nat \ {0} /\ DeliveryLimit \in Nat \ {0}

\* A transaction is in one block, once; what is indexed is mined.
ASSUME StoriesAssumption ==
    \A s \in Stories :
        LET blocks == s.past \o s.new
        IN  /\ s.past \in Seq(Seq(DOMAIN Txs)) /\ s.new \in Seq(Seq(DOMAIN Txs))
            /\ s.unread \subseteq UNION {ToSet(s.past[i]) : i \in DOMAIN s.past}
            /\ \A i, j \in DOMAIN blocks :
                  ToSet(blocks[i]) \cap ToSet(blocks[j]) # {} => i = j
            /\ \A i \in DOMAIN blocks : \A j, k \in DOMAIN blocks[i] :
                  blocks[i][j] = blocks[i][k] => j = k

VARIABLES story,        \* which of them this is
          chain,        \* the blocks of the node: day, txs
          mined,        \* how many of its blocks are mined
          arrived,      \* how many of them were broadcast
          height,       \* how many blocks the index has
          day,          \* the civil day it is
          unread,       \* the indexed transactions whose marker is not stored
          table,        \* launch_reserves: asset, address
          feeTable,     \* launch_fee_addresses
          labels,       \* AddressLinks: generation, stale
          feed,         \* the fields of TradeFeed
          th            \* the locals of each thread; unsought is kept for the properties

nodeVars == <<story, chain, mined, arrived, height, day>>
dbVars == <<unread, table, feeTable>>
vars == <<nodeVars, dbVars, labels, feed, th>>

NotBuilt == 2           \* _day_built = 0.0, _mem is None
Idle == [pc |-> "idle"]
-----------------------------------------------------------------------------
(* The index as the feed reads it.                                         *)

TxsUpTo(h) == FlattenSeq([i \in 1..h |-> chain[i].txs])
InIndex == ToSet(TxsUpTo(height))
HeightOf(id) == CHOOSE h \in DOMAIN chain : id \in ToSet(chain[h].txs)
DayOf(id) == chain[HeightOf(id)].day

NoMarkers(tx) ==
    [tx EXCEPT !.vout = [i \in DOMAIN tx.vout |-> [tx.vout[i] EXCEPT !.memo = NoMemo]]]

View(id) == IF id \in unread THEN NoMarkers(Txs[id]) ELSE Txs[id]

\* An input whose parent is not indexed has no address and no amount.
UnknownRow ==
    [addr |-> NoAddr, value |-> 0, asset |-> NoAsset, amount |-> 0,
     kind |-> "none", memo |-> NoMemo, prev |-> NoTx]

ASSUME TxsAssumption ==
    \A id \in DOMAIN Txs :
        /\ {"vin", "vout"} \subseteq DOMAIN Txs[id]
        /\ \A rows \in {Txs[id].vin, Txs[id].vout} : rows \in Seq(ToSet(rows))
        /\ \A row \in ToSet(Txs[id].vin) \cup ToSet(Txs[id].vout) : DOMAIN row = DOMAIN UnknownRow

WithParents(id, parents) ==
    LET known(row) == row.prev = NoTx \/ row.prev \in parents
        vin == Txs[id].vin
    IN  [Txs[id] EXCEPT !.vin =
            [i \in DOMAIN vin |-> IF known(vin[i]) THEN vin[i] ELSE UnknownRow]]

MempoolView(id) == WithParents(id, InIndex)

\* The rows _trades_between asks for: those that touch a configured address or
\* carry an XB1 marker, of one day ...
DayTxs(upto, d) ==
    {id \in UNION {ToSet(chain[i].txs) : i \in 1..upto} :
        /\ DayOf(id) = d
        /\ \/ \E row \in ToSet(View(id).vin) \cup ToSet(View(id).vout) : row.addr \in Proceeds
           \/ RouteMemos(View(id)) # <<>>}

\* ... in chain order.
DayViews(upto, d) ==
    LET rows == DayTxs(upto, d)
        ids  == TxsUpTo(upto)
    IN  FlattenSeq([i \in DOMAIN ids |-> IF ids[i] \in rows THEN <<ids[i]>> ELSE <<>>])

\* The first place of some places of a sequence, if there is one.
FirstOf(places) == {i \in places : \A j \in places : i <= j}

NoReserves == [n \in DOMAIN AliasOf |-> NoAddr]

\* launch_reserves by every name of each asset.
LoadReserves ==
    [n \in DOMAIN AliasOf |->
        LET hits == {row.addr : row \in {r \in table : n \in AliasOf[r.asset]}}
        IN  IF hits = {} THEN NoAddr ELSE CHOOSE a \in hits : TRUE]
-----------------------------------------------------------------------------
(* Learning.                                                               *)

\* _remember_reserve on the dictionary of one pass: the first address counts.
Remembered(res, asset, addr) ==
    LET stored == {r.addr : r \in {x \in table : x.asset \in AliasOf[asset]}}
        known  == IF LearnedFor(asset, res) # {} THEN LearnedFor(asset, res) ELSE stored
        put    == IF known # {} THEN CHOOSE a \in known : TRUE ELSE addr
    IN  [n \in DOMAIN res |-> IF n \in AliasOf[asset] /\ res[n] = NoAddr THEN put ELSE res[n]]

IsNew(res, asset) ==
    /\ LearnedFor(asset, res) = {}
    /\ \A row \in table : row.asset \notin AliasOf[asset]

\* What a pass knows, and the rows it has yet to write, with one more reserve.
Learned(acc, asset, addr) ==
    [res |-> Remembered(acc.res, asset, addr),
     new |-> IF IsNew(acc.res, asset) THEN acc.new \cup {[asset |-> asset, addr |-> addr]}
             ELSE acc.new]

\* With the reserves that rows teach, in the order of these transactions.
AllLearned(taught, ids, res) ==
    LET of(id) == (CHOOSE row \in taught : row.tx = id).trade
        after[n \in 0..Len(ids)] ==      \* the first n of them
            IF n = 0 THEN [res |-> res, new |-> {}]
            ELSE IF \E row \in taught : row.tx = ids[n]
            THEN Learned(after[n - 1], of(ids[n]).asset, of(ids[n]).reserve)
            ELSE after[n - 1]
    IN  after[Len(ids)]

\* Mutant: a delivery is not used up.
DeliveriesShared(buys, views) ==
    {p \in [buy : DOMAIN buys, by : ToSet(views)] :
        /\ buys[p.buy].pending /\ p.by # p.buy /\ HeightOf(p.by) >= HeightOf(p.buy)
        /\ TokenDelivery(View(p.by), buys[p.buy].asset, buys[p.buy].atoms, buys[p.buy].trader) # {}}

\* The day's buys in chain order, each with the first delivery of that amount
\* to that buyer, in its block or later, that no earlier buy took.
Deliveries(buys, views) ==
    LET fits(id, taken) ==
            {i \in DOMAIN views :
                /\ id \in DOMAIN buys /\ buys[id].pending
                /\ views[i] # id /\ views[i] \notin {d.by : d \in taken}
                /\ HeightOf(views[i]) >= HeightOf(id)
                /\ TokenDelivery(View(views[i]), buys[id].asset, buys[id].atoms,
                                 buys[id].trader) # {}}
        take(taken, id) ==
            taken \cup {[buy |-> id, by |-> views[i]] : i \in FirstOf(fits(id, taken))}
        matched[n \in 0..Len(views)] ==      \* by the first n of the views
            IF n = 0 THEN {} ELSE take(matched[n - 1], views[n])
    IN  matched[Len(views)]

\* Mutant: a buy is confirmed without its delivery.
DeliveredAll(buys, views) == [id \in DOMAIN buys |-> [buys[id] EXCEPT !.pending = FALSE]]

Delivered(buys, views) ==
    LET matched == Deliveries(buys, views)
        by(id) == CHOOSE d \in matched : d.buy = id
        held(id) == CHOOSE n \in TokenDelivery(View(by(id).by), buys[id].asset,
                                buys[id].atoms, buys[id].trader) : TRUE
    IN  [id \in DOMAIN buys |->
            IF \E d \in matched : d.buy = id
            THEN [buys[id] EXCEPT !.pending = FALSE, !.asset = held(id)]
            ELSE buys[id]]

\* What LIMIT leaves of the transactions that a pattern matches: any of them,
\* for the rows are not ordered.
Limited(ids) == IF Cardinality(ids) <= MarkLimit THEN {ids} ELSE kSubset(MarkLimit, ids)

\* A marker begins XL1|<side>|<name>|, whatever follows.
MarkedWith(id, side, names) ==
    \E row \in ToSet(Txs[id].vout) :
        /\ row.memo # NoMemo /\ row.memo.tag = "XL1"
        /\ row.memo.side = side /\ row.memo.field \in names

BuysMarked(name, skipped) == {id \in InIndex \ skipped : MarkedWith(id, "buy", {name})}
SellsMarked(skipped) == {id \in InIndex \ skipped : MarkedWith(id, "sell", DOMAIN NameOf)}

\* What a search for the asset looks at: some for each of its names.
Seen(asset, skipped) ==
    LET limited(n) == Limited(BuysMarked(n, skipped))
        picks == [AliasOf[asset] -> UNION {limited(n) : n \in AliasOf[asset]}]
    IN  {UNION Range(pick) : pick \in {p \in picks : \A n \in AliasOf[asset] : p[n] \in limited(n)}}

\* The rows that _delivery_in_index joins of one transaction: an output that
\* pays the buyer the amount, with an input of the treasury.
DeliveryRows(tx, buy) ==
    {at \in (DOMAIN tx.vout) \X (DOMAIN tx.vin) :
        LET paid  == tx.vout[at[1]]
            spent == tx.vin[at[2]]
        IN  /\ paid.addr = buy.trader /\ paid.amount = buy.atoms /\ SameAsset(paid.asset, buy.asset)
            /\ spent.addr = Treasury /\ spent.amount > 0 /\ SameAsset(spent.asset, buy.asset)}

\* Of the rows, in chain order, one of the first is of another transaction, in
\* the buy's block or later.
DeliveredAmong(ids, buy, id) ==
    LET rowsBefore(k) == UNION {{j} \X DeliveryRows(Txs[ids[j]], buy) : j \in 1..k-1}
    IN  \E k \in DOMAIN ids :
            /\ DeliveryRows(Txs[ids[k]], buy) # {}
            /\ Cardinality(rowsBefore(k)) < DeliveryLimit
            /\ ids[k] # id /\ HeightOf(ids[k]) >= HeightOf(id)

\* A buy by its own marker and payments, without any reserve known.
BuyOf == [id \in DOMAIN Txs |-> Classify(Txs[id], NoReserves, {})]

\* It teaches the reserve of the asset, as far as these transactions show.
Teaches(ids, id, asset) ==
    /\ BuyOf[id].side = "buy" /\ BuyOf[id].reserve # NoAddr
    /\ SameAsset(BuyOf[id].asset, asset)
    /\ DeliveredAmong(ids, BuyOf[id], id)

\* The first of those looked at, in chain order, that teaches one.
ReserveFromIndex(asset, seen) ==
    LET ids == TxsUpTo(height)
        teaching == {i \in DOMAIN ids : ids[i] \in seen /\ Teaches(ids, ids[i], asset)}
    IN  IF teaching = {} THEN NoAddr ELSE BuyOf[ids[CHOOSE i \in FirstOf(teaching) : TRUE]].reserve

\* The blocks that hold an unread marker next to a move of this asset are read
\* again from the node, those that it reaches: a call may fail, and not all of
\* them are asked for at once (LIMIT 15).
Touches(id, asset) ==
    \E row \in ToSet(Txs[id].vin) \cup ToSet(Txs[id].vout) : row.asset \in AliasOf[asset]

HeightsOf(ids) == {HeightOf(id) : id \in ids}

FilledMemos(asset, old, reach) ==
    old \ UNION {ToSet(chain[h].txs) : h \in HeightsOf({id \in old : Touches(id, asset)}) \cap reach}
-----------------------------------------------------------------------------
(* The day.                                                                *)

\* _begin_day: another day than the one in memory drops what is in memory.
DayBegun(f, d) ==
    IF f.key = d THEN f
    ELSE [f EXCEPT !.key = d, !.trades = {}, !.age = NotBuilt, !.memAge = NotBuilt,
                   !.misses = {}, !.feeMiss = FALSE]

Row(id, trade, gen) == [tx |-> id, trade |-> trade, gen |-> gen]
PendingRow(id, trade) == [tx |-> id, trade |-> trade, gen |-> 0, day |-> day]

Step(t, from) == th[t].pc = from
Local(t, rec) == th' = [th EXCEPT ![t] = rec]
Updated(old, new) ==
    [f \in DOMAIN old \cup DOMAIN new |-> IF f \in DOMAIN new THEN new[f] ELSE old[f]]
Put(t, new) == Local(t, Updated(th[t], new))

\* page(): the day is the caller's from here on.
PageBegins(t) ==
    /\ Step(t, "idle")
    /\ feed' = DayBegun(feed, day)
    /\ Local(t, [pc |-> "mempool", moment |-> day])
    /\ UNCHANGED <<nodeVars, dbVars, labels>>

\* labels() rebuilds first when the labels are stale; no rows, no call.
LabelsFor(rows) ==
    IF rows # {} /\ labels.stale THEN [gen |-> labels.gen + 1, stale |-> FALSE] ELSE labels

MempoolIds == UNION {ToSet(story.new[i]) : i \in mined+1..arrived}

\* mempool_trades: without a connection there are no rows; otherwise the node
\* is asked for the ids, and a young copy of the same ids and labels is served.
\* A call that fails gives no ids, or leaves a transaction out.  A row's time is
\* that of the reading; _pending_today leaves out those of another day.
Pending(t, rows) ==
    Local(t, [pc |-> "check", moment |-> th[t].moment,
              pending |-> {row \in rows : row.day = th[t].moment}])

ServesMempool(t, ids) ==
    /\ feed.memAge = 0 /\ ~labels.stale
    /\ feed.memKey = ids /\ feed.memGen = labels.gen
    /\ Pending(t, feed.mem)
    /\ UNCHANGED <<feed, labels>>

MempoolRead(t, ids, rows) ==
    LET shown == {[row EXCEPT !.gen = LabelsFor(rows).gen] : row \in rows}
    IN  /\ labels' = LabelsFor(rows)
        /\ feed' = [feed EXCEPT !.memAge = 0, !.memKey = ids, !.memGen = labels'.gen,
                                !.mem = shown]
        /\ Pending(t, shown)

ClassifiesMempool(t, ids) ==
    /\ ~(/\ feed.memAge = 0 /\ ~labels.stale
         /\ feed.memKey = ids /\ feed.memGen = labels.gen)
    /\ \E seen \in SUBSET ids :
          MempoolRead(t, ids,
              {row \in {PendingRow(id, Classify(MempoolView(id), LoadReserves, feeTable)) :
                           id \in seen} : row.trade.side # "none"})

ReadsMempool(t) ==
    /\ Step(t, "mempool")
    /\ \/ Pending(t, {}) /\ UNCHANGED <<feed, labels>>
       \/ \E ids \in {{}, MempoolIds} : ServesMempool(t, ids) \/ ClassifiesMempool(t, ids)
    /\ UNCHANGED <<nodeVars, dbVars>>

\* Mutant: the list is served however old it is.
ChecksDayOnce(t) ==
    LET f == DayBegun(feed, th[t].moment)
        young == f.age # NotBuilt /\ f.gen = labels.gen
    IN  /\ Step(t, "check")
        /\ feed' = f
        /\ Local(t, [pc |-> IF young THEN "merge" ELSE "read", moment |-> th[t].moment,
                     pending |-> th[t].pending,
                     rows |-> IF young THEN f.trades ELSE {}])
        /\ UNCHANGED <<nodeVars, dbVars, labels>>

\* today_confirmed: the day begins again; a young list of that day is served.
ChecksDay(t) ==
    LET f == DayBegun(feed, th[t].moment)
        young == ~labels.stale /\ f.age = 0 /\ f.gen = labels.gen
    IN  /\ Step(t, "check")
        /\ feed' = f
        /\ Local(t, [pc |-> IF young THEN "merge" ELSE "read", moment |-> th[t].moment,
                     pending |-> th[t].pending,
                     rows |-> IF young THEN f.trades ELSE {}])
        /\ UNCHANGED <<nodeVars, dbVars, labels>>

\* The first pass of _assemble: buys with their deliveries, sells, and what is
\* to be judged again.
Sorted(t, views, base) ==
    LET ids(side) == {id \in DOMAIN base : base[id].side = side}
        done == Delivered([id \in ids("buy") |-> base[id]], views)
    IN  Put(t, [pc |-> "learn", upto |-> height, res |-> LoadReserves, fees |-> feeTable,
                unsought |-> {},
                rows |-> {Row(id, done[id], 0) : id \in ids("buy")}
                         \cup {Row(id, base[id], 0) : id \in ids("sell")},
                retry |-> {id \in ids("none") : LoneSellMemo(View(id))},
                routes |-> {id \in ids("none") :
                               ~LoneSellMemo(View(id)) /\ RouteMemos(View(id)) # <<>>}])

\* _trades_between, and that pass.
ReadsDay(t) ==
    /\ Step(t, "read")
    /\ Sorted(t, DayViews(height, th[t].moment),
           [id \in DayTxs(height, th[t].moment) |-> Classify(View(id), LoadReserves, feeTable)])
    /\ UNCHANGED <<nodeVars, dbVars, labels, feed>>

\* What the sells and the order book trades that are judged again are of, and
\* of which of that the pass does not know the reserve.
SellAsset(id) == MarkedAsset(FillMemos(Txs[id])[1])
RouteAsset(id) == MarkedAsset(RouteMemos(Txs[id])[1])
Needed(assets, res) == {a \in assets : LearnedFor(a, res) = {}}

\* The day's delivered buys teach their reserve, in chain order.
Learns(t) ==
    LET taught  == {row \in th[t].rows : /\ row.trade.side = "buy" /\ ~row.trade.pending
                                         /\ row.trade.reserve # NoAddr}
        end == AllLearned(taught, TxsUpTo(th[t].upto), th[t].res)
    IN  /\ Step(t, "learn")
        /\ feed' = [feed EXCEPT !.misses = @ \ UNION {AliasOf[r.asset] : r \in end.new}]
        /\ Put(t, [pc |-> "seek", res |-> end.res, new |-> end.new,
                   phase |-> "retry", needed |-> Needed({SellAsset(id) : id \in th[t].retry}, end.res)])
        /\ UNCHANGED <<nodeVars, dbVars, labels>>

\* Another thread may have written a row since the table was read: of an asset
\* the first row stays (INSERT OR IGNORE).  A write that fails is passed over.
WritesReserves(t) ==
    /\ Step(t, "seek") /\ th[t].new # {}
    /\ table' \in {table, table \cup {r \in th[t].new : \A s \in table : s.asset # r.asset}}
    /\ Local(t, [th[t] EXCEPT !.new = {}])
    /\ UNCHANGED <<nodeVars, unread, feeTable, labels, feed>>

At(t, from) == Step(t, from) /\ th[t].new = {}

\* An asset that is not indexed, or was sought in vain, is not sought.
Wanted(assets, res) ==
    {a \in assets : /\ LearnedFor(a, res) = {} /\ AliasOf[a] \cap Indexed # {}
                    /\ ~(AliasOf[a] \subseteq feed.misses)}

\* When the search finds nothing, the markers of old rows are filled in, and it
\* is repeated; it is cut short when some of the blocks were not read.
Repeated(asset, less) ==
    {[addr |-> ReserveFromIndex(asset, seen), old |-> less,
      cut |-> \E id \in less : Touches(id, asset)] : seen \in Seen(asset, less)}

Sought(asset, first, old, reach) ==
    IF first # NoAddr THEN {[addr |-> first, old |-> old, cut |-> FALSE]}
    ELSE Repeated(asset, FilledMemos(asset, old, reach))

SearchEnds(t, asset, sought) ==
    /\ unread' = sought.old
    /\ Put(t, [pc |-> "found", needed |-> th[t].needed \ {asset},
               asset |-> asset, found |-> sought.addr,
               unsought |-> IF sought.cut THEN th[t].unsought \cup {asset}
                            ELSE th[t].unsought])

\* _seed_reserves_from_index, one asset at a time.
Searches(t) ==
    /\ At(t, "seek")
    /\ \E asset \in Wanted(th[t].needed, th[t].res), reach \in SUBSET HeightsOf(unread) :
          \E seen \in Seen(asset, unread) :
              \E sought \in Sought(asset, ReserveFromIndex(asset, seen), unread, reach) :
                  SearchEnds(t, asset, sought)
    /\ UNCHANGED <<nodeVars, table, feeTable, labels, feed>>

\* What the search found is remembered; that it found nothing is noted.
NotesFound(t) ==
    LET asset == th[t].asset
        found == th[t].found
        known == [res |-> th[t].res, new |-> {}]
        end   == IF found = NoAddr THEN known ELSE Learned(known, asset, found)
    IN  /\ Step(t, "found")
        /\ feed' = [feed EXCEPT !.misses = IF found = NoAddr THEN @ \cup AliasOf[asset]
                                           ELSE IF end.new # {} THEN @ \ AliasOf[asset] ELSE @]
        /\ Local(t, [th[t] EXCEPT !.pc = "seek", !.asset = NoAsset, !.found = NoAddr,
              !.res = end.res, !.new = end.new])
        /\ UNCHANGED <<nodeVars, dbVars, labels>>

Judged(ids, res, fees) ==
    {row \in {Row(id, Classify(Txs[id], res, fees), 0) : id \in ids} : row.trade.side # "none"}

FeesOf(rows) == {row.trade.feeAddress : row \in rows} \ {NoAddr}

NeededLast(t) == Needed({RouteAsset(id) : id \in th[t].routes}, th[t].res)

\* Mutant: a sell is judged once, before its reserve is known.
JudgesSellsOnce(t) ==
    /\ At(t, "seek") /\ th[t].phase = "retry"
    /\ Wanted(th[t].needed, th[t].res) = {}
    /\ Local(t, [th[t] EXCEPT !.phase = "routes", !.needed = NeededLast(t),
                              !.unsought = @ \cup Needed(th[t].needed, th[t].res)])
    /\ UNCHANGED <<nodeVars, unread, table, feeTable, labels, feed>>

\* The day's sells are judged again, and teach the fee address.
SellsJudged(t, rows) ==
    LET new == FeesOf(rows) \ th[t].fees
    IN  /\ feeTable' \in {feeTable, feeTable \cup new}
        /\ Local(t, [th[t] EXCEPT !.rows = rows, !.fees = @ \cup new, !.phase = "routes",
              !.unsought = @ \cup Needed(th[t].needed, th[t].res), !.needed = NeededLast(t)])

JudgesSells(t) ==
    /\ At(t, "seek") /\ th[t].phase = "retry"
    /\ Wanted(th[t].needed, th[t].res) = {}
    /\ SellsJudged(t, th[t].rows \cup Judged(th[t].retry, th[t].res, {}))
    /\ UNCHANGED <<nodeVars, unread, table, labels, feed>>

\* _seed_fee_from_index: some of the marked sells of the index, newest first,
\* unless a fee address is known or none was found today.
SellsToTry(seen) ==
    LET ids == Reverse(TxsUpTo(height))
        tried(id) == id \in seen /\ Len(FillMemos(Txs[id])) = 1
    IN  FlattenSeq([i \in DOMAIN ids |-> IF tried(ids[i]) THEN <<ids[i]>> ELSE <<>>])

NeededFor(sells) == {SellAsset(sells[i]) : i \in {j \in DOMAIN sells : j = 1}}

SeeksFee(t) ==
    /\ At(t, "seek") /\ th[t].phase = "routes"
    /\ Wanted(th[t].needed, th[t].res) = {}
    /\ IF th[t].routes # {} /\ th[t].fees = {} /\ ~feed.feeMiss
       THEN \E seen \in Limited(SellsMarked(unread)) :
               Put(t, [phase |-> "fees", sells |-> SellsToTry(seen),
                       needed |-> NeededFor(SellsToTry(seen))])
       ELSE Put(t, [phase |-> "last", needed |-> {}])
    /\ UNCHANGED <<nodeVars, dbVars, labels, feed>>

\* The next of them, its reserve sought, teaches the fee address it pays.
FeesTried(t) == FeesOf(Judged({th[t].sells[1]}, th[t].res, {}))

FeeFound(t) ==
    /\ th[t].sells # <<>> /\ FeesTried(t) # {}
    /\ feeTable' \in {feeTable, feeTable \cup FeesTried(t)}
    /\ Put(t, [phase |-> "last", needed |-> {}, fees |-> th[t].fees \cup FeesTried(t)])
    /\ UNCHANGED feed

FeeNotFound(t) ==
    /\ th[t].sells # <<>> /\ FeesTried(t) = {}
    /\ Put(t, [sells |-> Tail(th[t].sells), needed |-> NeededFor(Tail(th[t].sells))])
    /\ UNCHANGED <<feeTable, feed>>

FeeSoughtInVain(t) ==
    /\ th[t].sells = <<>>
    /\ feed' = [feed EXCEPT !.feeMiss = TRUE]
    /\ Put(t, [phase |-> "last", needed |-> {}])
    /\ UNCHANGED feeTable

TriesSell(t) ==
    /\ At(t, "seek") /\ th[t].phase = "fees"
    /\ Wanted(th[t].needed, th[t].res) = {}
    /\ FeeFound(t) \/ FeeNotFound(t) \/ FeeSoughtInVain(t)
    /\ UNCHANGED <<nodeVars, unread, table, labels>>

\* The order book trades are judged last, and every row gets its label.
DayJudged(t, rows) ==
    /\ labels' = LabelsFor(rows)
    /\ Local(t, [pc |-> "store", moment |-> th[t].moment,
          pending |-> th[t].pending, upto |-> th[t].upto, unsought |-> th[t].unsought,
          rows |-> {[row EXCEPT !.gen = labels'.gen] : row \in rows}])

JudgesRoutes(t) ==
    /\ At(t, "seek") /\ th[t].phase = "last"
    /\ DayJudged(t, th[t].rows \cup Judged(th[t].routes, th[t].res, th[t].fees))
    /\ UNCHANGED <<nodeVars, dbVars, feed>>

\* Mutant: the list is kept whatever day it is by now.
StoresAnyDay(t) ==
    /\ Step(t, "store")
    /\ feed' = [feed EXCEPT !.trades = th[t].rows, !.age = 0, !.gen = labels.gen]
    /\ Local(t, [pc |-> "merge", moment |-> th[t].moment,
                 pending |-> th[t].pending, rows |-> th[t].rows])
    /\ UNCHANGED <<nodeVars, dbVars, labels>>

\* The list is kept, under the generation of now, unless midnight passed while
\* the chain was read: then it is dropped.
StoresDay(t) ==
    LET kept == feed.key = th[t].moment
    IN  /\ Step(t, "store")
        /\ feed' = IF kept THEN [feed EXCEPT !.trades = th[t].rows, !.age = 0, !.gen = labels.gen]
                   ELSE feed
        /\ Local(t, [pc |-> "merge", moment |-> th[t].moment,
              pending |-> th[t].pending, rows |-> IF kept THEN th[t].rows ELSE {}])
        /\ UNCHANGED <<nodeVars, dbVars, labels>>

\* Mutant: nothing is merged.
PageUnmerged(pending, confirmed, relay) ==
    pending \cup confirmed
    \cup {[tx |-> relay[i].txid, trade |-> relay[i], gen |-> -1] : i \in DOMAIN relay}

\* Pending rows come first, then confirmed ones, then the relay's; of each
\* transaction the first counts.
PageOf(pending, confirmed, relay) ==
    LET chainIds == {row.tx : row \in pending \cup confirmed}
        newest(i) == \A j \in 1..i-1 : relay[j].txid # relay[i].txid
    IN  pending
        \cup {row \in confirmed : row.tx \notin {p.tx : p \in pending}}
        \cup {[tx |-> relay[i].txid, trade |-> relay[i], gen |-> -1] :
                i \in {j \in DOMAIN relay : newest(j) /\ relay[j].txid \notin chainIds}}

\* resolve_trader: a fill booked to a Launch address is the buyer who put in
\* the most XFER, or the seller who put in the asset, if that is indexed.
TraderOf(row) ==
    LET platform == Proceeds \cup {Treasury}
        inputs == {r \in ToSet(Txs[row.txid].vin) : r.addr \notin platform \cup {NoAddr}}
        could  == IF row.side = "sell" THEN {r \in inputs : r.asset = row.asset}
                  ELSE {r \in inputs : r.asset = NoAsset /\
                           \A o \in inputs : o.asset = NoAsset => r.value >= o.value}
    IN  IF row.trader \notin platform \cup {NoAddr} \/ could = {} THEN row.trader
        ELSE (CHOOSE r \in could : TRUE).addr

ResolveTrader(row) == IF row.txid \in InIndex THEN TraderOf(row) ELSE row.trader

Resolved(rows) ==
    [i \in DOMAIN rows |-> [rows[i] EXCEPT !.trader = ResolveTrader(rows[i])]]

\* _all_time: the page, with the relay's rows of some copy of RelayTrades.
Page(t, c) == PageOf(th[t].pending, th[t].rows, Resolved(RowsOf(c)))

\* The page is sent after its figures took another reading of the day, for
\* which today_confirmed runs again (once in the code, at least once here).
CountsDay(t) ==
    /\ Step(t, "merge")
    /\ Local(t, [pc |-> "check", moment |-> th[t].moment, pending |-> {}])
    /\ UNCHANGED <<nodeVars, dbVars, labels, feed>>

PageEnds(t) ==
    /\ Step(t, "merge")
    /\ Local(t, Idle)
    /\ UNCHANGED <<nodeVars, dbVars, labels, feed>>

PageStep(t) ==
    \/ ReadsMempool(t) \/ ChecksDay(t) \/ ReadsDay(t) \/ Learns(t)
    \/ WritesReserves(t) \/ Searches(t) \/ NotesFound(t) \/ JudgesSells(t)
    \/ SeeksFee(t) \/ TriesSell(t) \/ JudgesRoutes(t) \/ StoresDay(t) \/ CountsDay(t) \/ PageEnds(t)
-----------------------------------------------------------------------------
(* The world around the page.                                              *)

Broadcast ==
    /\ arrived < Len(story.new)
    /\ arrived' = arrived + 1
    /\ UNCHANGED <<story, chain, mined, height, day, dbVars, labels, feed, th>>

Mined ==
    /\ mined < arrived /\ height = Len(chain)
    /\ chain' = Append(chain, [day |-> day, txs |-> story.new[mined + 1]])
    /\ mined' = mined + 1
    /\ UNCHANGED <<story, arrived, height, day, dbVars, labels, feed, th>>

\* The indexer commits the next block; its transactions may change labels.
BlockIndexed ==
    /\ height < Len(chain)
    /\ height' = height + 1
    /\ labels' \in {labels, [labels EXCEPT !.stale = @ \/ labels.gen < story.gens]}
    /\ UNCHANGED <<story, chain, mined, arrived, day, dbVars, feed, th>>

\* The indexer fills in the markers of today's old rows (its own pass), but for
\* heights whose call fails or that are left for the next tick.
TodayFilled ==
    /\ \E skipped \in SUBSET HeightsOf(unread) :
          unread' = {id \in unread : DayOf(id) # day \/ HeightOf(id) \in skipped}
    /\ unread' # unread
    /\ UNCHANGED <<nodeVars, table, feeTable, labels, feed, th>>

Midnight ==
    /\ day < story.days
    /\ day' = day + 1
    /\ UNCHANGED <<story, chain, mined, arrived, height, dbVars, labels, feed, th>>

Older(age) == IF age = 0 THEN 1 ELSE age

\* cache_seconds pass.
CopiesAge ==
    /\ feed' = [feed EXCEPT !.age = Older(@), !.memAge = Older(@)]
    /\ UNCHANGED <<nodeVars, dbVars, labels, th>>

Init ==
    /\ story \in Stories
    /\ chain = [i \in DOMAIN story.past |-> [day |-> 0, txs |-> story.past[i]]]
    /\ mined = 0 /\ arrived = 0 /\ height = Len(story.past) /\ day = 0
    /\ unread = story.unread /\ table = {} /\ feeTable = {}
    /\ labels = [gen |-> 0, stale |-> FALSE]
    /\ feed = [key |-> -1, trades |-> {}, age |-> NotBuilt, gen |-> 0,
               misses |-> {}, feeMiss |-> FALSE,
               mem |-> {}, memKey |-> {}, memGen |-> 0, memAge |-> NotBuilt]
    /\ th = [t \in story.threads |-> Idle]

Next ==
    \/ Broadcast \/ Mined \/ BlockIndexed \/ Midnight \/ CopiesAge \/ TodayFilled
    \/ \E t \in story.threads : PageBegins(t) \/ PageStep(t)

\* Weak fairness of the threads, of the pages the browser polls (app.js), of
\* time, of the node and of the indexer, with the conditions under which those
\* steps can be taken written out: a thread always can take one, a block that
\* waits can be mined or indexed.
Fairness ==
    /\ \A t \in Threads : []<>(t \notin story.threads) \/ []<><<th'[t] # th[t]>>_vars
    /\ []<>(feed.age # 0) /\ []<>(feed.memAge # 0)
    /\ []<>(mined = arrived) /\ []<>(height = Len(chain))

Spec == Init /\ [][Next]_vars
FairSpec == Spec /\ Fairness
=============================================================================
