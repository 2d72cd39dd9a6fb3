# XCoin explorer: specifications, checks and proofs

This directory holds TLA+ specifications of the explorer in `explorer/`: a
Python process that follows an XCoin node over RPC, keeps an index of the chain
in SQLite, and serves it over HTTP. The modules are translated from the code;
`PROJECT.json` gives, for every definition that models code, the lines it
stands for.

Run a check with `tlc -config <file>.cfg <module>`, the proofs with
`tlapm <module>.tla`.

## 1. The system

```
 XCoin node --RPC-- rpc.XCoinRPC --- indexer.Indexer (one thread) --- db.Database (SQLite, WAL)
                         |                  |                              |
                         |            links.AddressLinks            queries / hatstats / supply
                         |                  |                              |
                         +--------- api (HTTP worker threads) -------------+--- web/js/app.js
```

| Component | State | Operations | What is hard |
| --- | --- | --- | --- |
| `indexer.Indexer` | the tables `blocks`, `txs`, `txio`, `utxos`, `assets`, `asset_activity`, `lottery_*`, `identities`, `node_seen`, `meta`; one open transaction; `status`; `_stop` | `start`, `stop`, `_loop`, `tick` (tip check, rewind, batch, commit), `_index_height`, `_index_tx`, `_rewind`, `_rebuild_utxos`, `_repair_genesis`, lottery and share rebuilds, live nodes, backfills | the node moves between any two RPC calls; an exception leaves a tick with its transaction open; crash and restart in mid-batch; undoing a block in nine tables |
| `db.Database` | one connection per thread, a list of all of them, `_closed` | `_thread_conn`, `discard_thread_connection`, `_Cursor` retry, finalizer, `close` | discarding a connection discards its transaction; finalizer, discard and close race |
| `rpc.XCoinRPC` | `connected`, `last_error`, the client with its URL and credentials | `connect`, `call`, `try_call`, `close` | all threads share one client; the wallet restarts with another login, on another port |
| `links.AddressLinks` | the address groups, `_built_height`, `_dirty`, `_built_at`, a lock | `invalidate`, `ensure_fresh`, `refresh_index`, `rebuild`, `_absorb_new`, `observe_tx` | incremental refresh against full rebuild after a rewind; HTTP threads and the indexer refresh at once |
| `statcache.StaleWhileRefreshCache` | entries and locks by key | `get` | stale while refreshing, pruning of locks |
| `supply.SupplyCache`, `supply.compute_supply` | one cached answer | `get` | the parts of one answer are read by separate statements |
| `chain` | none | subsidy, winner count, supply, poll delay, slots | halving boundaries |
| `hostshare` | none | `guest_pot`, `guest_share`, `percent_for_pot`, `detect_host_share` | integer rounding that must invert |
| `decode` | none | scripts, XVA1 lottery records, `select_winners`, `split_reward` | parsing; the split must conserve the reward |
| `trades.TradeFeed` | the day's list, the mempool's list, assets sought in vain; the tables of reserve and fee addresses | `page`, `mempool_trades`, `today_confirmed`, `_assemble`, `_all_time` | midnight between two requests, copies that outlive what they were made from, addresses learned for good from what anyone can broadcast |
| `launch_trades.RelayTrades` | cached relay rows | `rows`, `launch_fill` | stale copies on errors |
| `ipfs` | a bounded cache | `inspect_cid`, `_fetch` | TTL and eviction |
| `queries`, `hatstats` | none (read-only SQL) | pages | several statements for one page |
| `api`, `__main__` | none of their own | routes; wiring and shutdown order | connections released after each request; the database is closed while the indexer may still run |
| `wallet_release`, `amounts`, `config` | none | version choice, formatting, settings | - |
| `web/js/app.js` | the page, the last seen tip | polling, rendering | - |

What makes each correct:

* the index: whole blocks, no gap, one chain, the node's chain in the end; every
  other table a function of the stored blocks, whatever rewinds and restarts
  led there;
* connections: one per thread, each closed once, none left; a read that is run
  again sees what the first would have seen;
* links: a snapshot taken after the index moved is never older than the index
  for longer than the refresh period; a rewind is followed by a full rebuild;
* the trades page: a transaction is on it once, as what it is, by its trader, on
  its own day; what is learned was verified on the chain; no list is stale for good;
* the smaller services: an answer put together from several reads is not of more
  than there is, what a reader gets is what it asked for, and a wallet that is
  back is found;
* caches: one computation at a time for a key, bounded size, bounded staleness;
* pure arithmetic: totals are conserved, closed forms equal their definitions.

## 2. Modules

| Module | Models | Kind |
| --- | --- | --- |
| `ChainNode` | the node: a tree of blocks, growth, branch switches, retreats | external, from the indexer's calls |
| `IndexStore` | the tables of `db.py` and what indexing, rewinding and repair do to them | operators |
| `Indexer` | the indexer thread: a tick as a sequence of steps, the open transaction, process and faults | state machine, composes the two above |
| `Sums` | a sum over a list, by recursion | operator |
| `BlockIndex` | what the index of blocks promises | abstract specification |
| `IndexerProperties` | the properties of `Indexer`, what the tables hold (`HoldsLedger`, ...), the node's `ConsensusRules` and `AssetRules`, and the refinement of `BlockIndex` | properties |
| `MCIndexer` | a tree of nine blocks in three branches; what the theorems suppose of a tree, evaluated on it (`MCRules`) | instance for TLC |
| `IndexerProofs` | the blocks: types, gaps, one chain, refinement | proofs |
| `IndexTablesProofs` | the tables that follow the blocks; asset amounts | proofs |
| `StatCache`, `MCStatCache` | `statcache.StaleWhileRefreshCache`, thread by thread, lock by lock | state machine, instance |
| `StatCacheProofs` | one computation at a time, how old an answer is, no result back in time | proofs |
| `AddressLinks`, `MCAddressLinks` | the snapshot of `links.py`, the indexer's refresh and the pages' rebuilds | state machine, instance |
| `AddressLinksProofs` | settled snapshots are exact, the relay's list is used | proofs |
| `DbConnections` | the connections of `db.Database` from opening to shutdown | state machine |
| `Emission` | `chain.py`: subsidy, winners, closed forms of the supply; `decode.split_reward` | operators |
| `EmissionProofs` | sums of sequences, the halvings, the closed forms of the supply | proofs |
| `HostShare` | `hostshare.py`: pot, share, detection | operators |
| `Payouts`, `MCPayouts` | a chain that pays, and winners that spend, composed from the two above | state machine, instance |
| `PayoutsProofs` | the arithmetic of the pot; supply, division and detection on a chain that pays | proofs |
| `LaunchTrades` | what one transaction is: markers, payments, deliveries (`classify_launch_trade`) | operators |
| `RelayRows` | the relay's fills as rows, and the index of them by txid | operators |
| `TradeFeed` | `trades.TradeFeed`: HTTP threads that read the mempool, the index and the relay's copy | state machine, composes the two above |
| `TradeFeedProperties`, `MCTradeFeed` | what a page owes its readers; nine stories of transactions | properties, instance |
| `TradeFeedProofs` | lists are of their day, what is learned was verified, what is shown is true, deliveries are matched, sells are found within the limits of the searches | proofs |
| `RpcClient` | `rpc.XCoinRPC`, shared by the indexer and the pages | state machine |
| `Supply` | `SupplyCache` and `compute_supply`, while the indexer commits and rewinds | state machine, uses `Emission` |
| `MetadataCache` | `ipfs.inspect_cid`: the cache and its readers | state machine |
| `RelayTrades` | the copy of the relay and its readers | state machine, uses `RelayRows` |
| `Rebuilds` | the indexer's rebuilds of wins and shares after an upgrade | state machine |
| `Services`, `MCServices` | the five above in one run, one subject for each behaviour | composition, instance |
| `ServicesProofs` | the supply page, the IPFS cache, the rebuilds, the relay's copy, and the connections of `DbConnections` | proofs |

### How `Indexer` corresponds to the code

`db` is what the indexer's own connection reads, its uncommitted writes
included; `saved` is the last commit, which is what HTTP threads read and what a
new process finds. The two differ between the first statement of a batch and
its commit. `pc` says where the thread is between two places at which something
else can happen: the node may have moved before the next RPC call, an exception
may leave the tick, or a commit makes the writes so far permanent.

| Code | Action |
| --- | --- |
| `start`: repair of the genesis block, commit, thread | `Start` |
| `tick`: `getblockchaininfo`, repair, commit | `TickHead` |
| `tick`: `getblockhash(indexed)` agrees / differs / raises | `CheckAgrees` / `CheckRewinds` / `CheckFails` |
| `_rewind`, `_rebuild_utxos` | `Rewind` in `CheckRewinds` |
| `_index_height`: two calls and the block's row | `FetchBlock` / `FetchFails` |
| `_index_tx`, one transaction | `WriteTx` |
| the end of a block; the end of the batch; a stop in the batch | `BlockDone`; `Commit`; `BatchStops` |
| an exception in mid-block, caught by `_loop` without a rollback | `TickAborts` |
| `_Cursor._replace` in mid-batch | `ConnectionReplaced` |
| `stop`; `_loop` ends and the database is closed; the process dies | `Stop`; `Exit`; `Crash` |

`faults` lists the disturbances of a behaviour. A property that a disturbance
breaks is stated of the behaviours without it, by name: `Contiguous` says that
there is no gap *unless a transaction was lost in mid-tick*, and `GapBounded`
says what is left when one was. So one run exercises all of them together.

### The other state machines

* `StatCache` has one action for each step of `get` between two points where
  another thread may run: the first look, `_lock_for`, `acquire`, the second
  look, the end of the computation. `data` stands for the database a
  computation reads when it begins.
* `AddressLinks` models the snapshot by the blocks and parts (inputs, outputs)
  that its labels, and the blocks that its owner paths (`paths`), were computed
  from. The indexer's `rebuild` and `_absorb_new` are one step each: that thread
  is the only one that writes blocks, and the lock keeps pages off the snapshot.
  `_absorb_new` adds labels and leaves the paths to the next full rebuild. A
  page's `rebuild` is a step for each of its reads (paths, inputs, outputs, inputs
  again), the commit, and the height it reads last. `rewound` is a history variable.
* `DbConnections` splits opening (test, connect, register, own), dropping
  (forget, off the list, close) and shutdown (flag, list, each connection).
* `TradeFeed` follows one thread from `page` to its answer: `ReadsMempool`,
  `ChecksDay` (`today_confirmed`, and `_begin_day` in it), `ReadsDay` (the query
  and the first pass of `_assemble`), `Learns`, `Searches` and `NotesFound` (one
  asset of `_seed_reserves_from_index`), `JudgesSells`, `SeeksFee` and `TriesSell`
  (`_seed_fee_from_index`, one sell at a time, each with its own search for a
  reserve), `JudgesRoutes`, `StoresDay`, and then a second reading for the page's
  figures (`CountsDay`) or the end. A search looks at `MarkLimit` of the marked
  transactions, any of them, since the query has a `LIMIT` and no `ORDER BY`
  (`Seen`), and at the first `DeliveryLimit` rows of deliveries (`DeliveredAmong`). Fields of the feed and the two learned tables
  are shared. A copy's time is whether it is older than `cache_seconds`. What a
  query says for a fixed day and index is an operator (`DayViews`,
  `ReserveFromIndex`, `FilledMemos`). The node's mempool, the relay and the
  calendar are external.
* `LaunchTrades` is the classification itself, over transactions whose rows have
  an address, an amount and a parsed marker; integer parts of the fees are the
  code's. `CHOOSE` stands for the code's order of dictionaries and sets where the
  properties must hold for any.
* `RpcClient` has an action for each request: a probe of a port, the call, and
  what its answer does to `connected` and the client (`PortTaken`,
  `LoginRefused`, `PortSkipped`, `CallEnds`). The login is that of the process
  that wrote the cookie; a client holds the one it was opened with.
* `Supply` reads the height and the burned sum in two steps, with commits and
  rewinds in between. `MetadataCache` looks, asks the gateways in their order,
  puts and looks again. `RelayTrades` replaces its copy by what was read,
  `markets` and `auctions` apart. `Rebuilds` takes the lottery's rebuild block by
  block, and the indexing that follows as one step, since nothing is judged in
  between.
* `Services` has one variable of its own, `subject`. The services share no state,
  so that a run of all their interleavings would find nothing that a run of each
  does not.
* `Payouts` has no concurrency: it enumerates what a chain pays and how a win is
  spent, against the closed forms and the detection.

## 3. Runs

| Run | Shows | Bounds |
| --- | --- | --- |
| `index_safety` | 12 invariants and `DropsOnlyStale` under all nine faults | `Depth` = `Batch` = 2, two faults |
| `index_live` | refinement of `BlockIndex`; the index becomes the node's chain | the five faults that this survives, two of them |
| `stats_cache` | one computation at a time, no answer back in time, every request answered | 3 threads, 1 key, times 0..2, 2 states of the database |
| `links` | settled snapshots are exact; the timer repairs the rest | 2 pages, 4 blocks, `Batch` 2, a rewind, a fault |
| `db_connections` | connections are counted, and all closed in the end | 3 threads, 3 connections |
| `payouts` | supply, division of rewards, detection of shares | subsidies from 5000 down to 0 on intervals 1, 2, 3 and 5; all percentages, 5 guests |
| `trade_pages` | rows are true, once, of their day; only verified buys teach; deliveries are used once; sells are found; pages catch up | nine stories of at most four blocks, 1 or 2 threads, 2 days, 1 rebuild of labels, `MarkLimit` 2, `DeliveryLimit` 1 |
| `services` | supply figures, IPFS cache, relay's copy, rebuilds; the wallet is found again | 2 ports and 5 states of the wallet; 3 times, 3 blocks; 3 objects in 2 places, 2 gateways; 2 states of the relay; 3 blocks, 2 of them old |
| `read_retry_gap`, `reissue_after_rewind`, `stats_cache_prune`, `links_rewind_growth` | disagreements, see section 6 | the smallest in which they occur |

Why the bounds are enough. The tree has a fork at the genesis block, so that a
rewind empties the index, and forks within `Depth`; a chain grows to five
blocks, more than two batches, so that batches begin and end at every offset
from a fork. A third fault found nothing that two do not. Transactions spend an
output of the same block, issue an asset, reissue it and move its owner token,
and are mined on two branches at different heights: a rewind must undo and redo
them. In `StatCache` one key is enough for everything but the dropping of locks,
since keys share nothing else; `TTL` 1 and `MaxStale` 2 are both passed within the clock.
In `AddressLinks` four blocks allow growth by less than, as much as and more
than the rewind, before and after it. Each connection of `DbConnections` belongs
to one thread, three threads include the main one. In `Payouts` the wins run
from thousands to single units: below 100, percentages collide. `Eras` is 16
where the code has 64, since a subsidy of 5000 is nothing after 13 halvings.

A story of `TradeFeed` is a short list of blocks that brings about one hazard: a
buy that nobody delivers beside one that is, tokens before their buy, two equal
buys, midnight and labels under two requests, old rows in two blocks whose markers
were not stored, and of which the node may give both, either or none. Three stories
are of the searches: two equal buys of one buyer through different addresses, one
delivery, and a third marker, so that two of three are looked at; an equal delivery
before the buy, so that the one that counts is beyond the limit; three marked sells,
of which two are tried for the fee address. The code's limits are 20 and 8; what
tells them from 2 and 1 is only how many markers it takes to pass them. Every place at which a thread can be overtaken is reached with a younger
and with an older copy, and each block may be indexed there. Two threads are
told the two stories that are about threads; in the others the second would only
repeat the first, since what it shares is the feed and the tables, which the
single thread meets in every state. `MaxUnits` 2 admits the units that one
decimal needs. In `RpcClient` a wallet warms up, is on either port, refuses, and
has three logins. `CacheTime` and `SupplyTime` pass their `Ttl` more than once.
In `Rebuilds` two old blocks make a rebuild that can be cut in the midst; the
shares of a block before the win and of one after it are both there.

`CHECK_DEADLOCK FALSE` is set where the system ends: after shutdown, and at the
last height. (`Indexer` and the caches never stop.)

### Fairness

* `Indexer`: weak fairness of the tick, of a restart, and of the end of a stopped
  loop. The thread is a loop over `tick` that catches every exception, and
  supervision restarts the process. Faults are bounded in number, which is the
  assumption that the node answers in the end. Which branch the node takes is
  not fair.
* `StatCache`: threads run, and a computation that is tried for ever succeeds
  some time (strong fairness of `Store`, since failures are not bounded there).
  A lock may go to any waiter.
* `AddressLinks`: the indexer's steps, its next successful tick, the passage of
  `REFRESH_SECONDS`, and the steps of a page that holds the lock. Pages need not
  come.
* `TradeFeed`: a thread that has work takes a step, pages are asked for (the
  browser polls), copies age, waiting blocks are mined and indexed. These are weak
  fairness of the actions with the conditions under which they are enabled written
  out as state predicates: `WF_vars` makes TLC evaluate `ENABLED` of a page's step
  in every state, which takes it a thousand times as long.
* `RpcClient`: each caller's steps, and the indexer's next call (its loop never
  ends). The wallet need not come back: `RpcRecovers` says what happens if it
  does and stays, and if connects do not run into each other (`Undisturbed`; two
  threads that connect can close each other's client for ever).
* `DbConnections`: threads finish what they are in, and workers end once the
  process is told to stop, which the server's shutdown does.

## 4. Properties of the index

* Blocks: `Contiguous`, `GapBounded` (each lost transaction costs at most a
  batch of heights, and the blocks around the gap are of one chain), `OneChain`,
  `RewoundToNode`,
  `DropsOnlyStale`, the refinement `IndexSpec`, and `EventuallySynced`.
* Tables: `LedgerExact` (txs and txio), `UtxoExact`, `InputsResolved`,
  `ActivityExact`, `LotteryExact` say that a table is a function of the
  committed blocks; `AmountsExact` says it of asset amounts on a chain that only
  grows; `DamageBounded` says that an exception in mid-block costs that block
  and no other.

* After an upgrade: `RebuildsExact` says what the recorded versions promise of
  wins and shares, and where they do not (heights skipped, spends judged early).

`EventuallySynced` leaves out a node that stays below the indexed height: the
tip check cannot compare anything then, and the explorer keeps what it has.

### Of the trades page

`OwnDay` relates the list in memory to the day it is kept under, with threads
that hold different days.

`LearnedVerified` says what teaches an address. A reserve comes from a buy that
paid the fee to the treasury and that the index shows delivered, a fee address
from a sell of such a reserve, and an asset has one reserve. It does *not* say
that the reserve is the listing's own: the code has no other source than the
chain. Of two equal buys of one buyer through different addresses one delivery
verifies both, and whichever the search or the day comes upon first is kept. The
seventh story has this case, in both orders that the search can take.

`PagesSound` compares what is shown with a table (`TrueSide`, `TrueTrader`) of what
each transaction is in the code's own sense: with any verified reserve and fee
address known, it is taken for that trade or for none.

`DeliveriesMatched` says that the greedy matching of `_attach_deliveries` is a
largest one.

`SellsComplete` says which sells a list must hold, and when the code gives up:

* more transactions carry the marker of one of the asset's names than a search
  looks at (`LIMIT 20`, `trades.py:1601`): which ones it looks at is then open;
* more rows of equal deliveries to the buyer come before that of the buy than the
  search looks at (`LIMIT 8`, `trades.py:1649`);
* an asset that was sought in vain is not sought again that day;
* a marker that is not stored is read only if the node answers;
* another verified reserve of the asset was learned first than the one the sell
  was made through (`Recognized`).

Within these it does not matter which markers a search looks at. `PagesCatchUp` is
the liveness of the copies.

### Of the services

`SupplySound`: the figures add up and lie between zero and what the schedule
ever issues, and no more coins are shown than were left at the height they name,
unless the chain was cut back between the two statements. `FillsAgree`: a fill of
the list is found from its payment and from its delivery, as the same fill, in
whatever ages the two halves of the copy are. `MetadataSound`, `RpcRecovers`:
see above.

## 5. Proofs

All theorems hold for every value of the constants that the `ASSUME`s admit:
every tree of blocks (`PathAssumption`: a path to each block, and a path's
prefix is a path), every depth, batch, set of faults and bound. TLC evaluates
each `ASSUME` on every run of its module; those of the trades page are under
`TradeFeedProofs` below. A theorem with further hypotheses names them; there are
five, and TLC evaluates the ones about a tree on the tree of the runs:

* `ShallowForks`: no branch leaves another, not longer one by more than `Depth`
  blocks. A deeper one is the disagreement at `indexer.py:166` of section 6.
* `ConsensusRules`: a transaction is mined once on a chain, an output is spent
  once and after it was made, a block has one coinbase, and the genesis block
  nothing else. The node enforces them; the explorer checks no block it gets.
* `AssetRules`, of `Spec_AmountsExact` alone: of the outputs of a chain that name
  an asset, the first issues it and no later one does (they move or reissue it).
  This is the node's rule too: a name is issued once, and before it is moved.
* `KeysFit`: there are no more keys than `max_keys`. The run
  `stats_cache_prune` shows what happens otherwise.
* `CalmFaults`, of `Spec_IndexSpec` alone: an abstract index has no faults.

### `IndexerProofs`: the blocks

* `Spec_TypeOK`, `Spec_DropsOnlyStale`: no further assumption. The invariant
  `StoreInv` survives every fault: rows are blocks at their heights, there is a
  last row at or below any height (so that `MAX(height)` is defined and stays so
  after a rewind of a table with gaps), and the open transaction only adds blocks.
  Without the last, a commit could drop blocks.
* `Spec_Contiguous`: `StoreInv` and, until a transaction is lost in mid-tick,
  `Gapless`: both tables run from 0 up, and *in a batch the table ends just below
  `next`*. `Contiguous` alone is not inductive: `PutBlock` writes at `next`,
  whatever the table holds.
* `Spec_OneChain`, `Spec_RewoundToNode`, `Spec_IndexSpec` assume
  `ShallowForks`. The invariant adds `Chained`: both tables are paths, the working
  one extends the committed one, and *the block below `next` is on the node's
  chain*, which holds through a batch because the node only grows meanwhile.
  The step that needs `ShallowForks` is the rewind (`RewindToNode`). When the tip check
  fails because the node has fewer blocks, the batch is empty (`tip` was
  read before, and is no higher than the node's tip).
* `Spec_GapBounded` counts what is missing below the last row, for any number of
  lost transactions. A batch that goes on after one leaves a gap from the
  committed height up to `next`; nothing in the tables says where the batch
  began. The invariant `Gaps` therefore pays in advance: either the open
  transaction stands on the committed blocks (`OnTop`), or the committed table
  is a whole batch below what it is allowed. That a rewind makes no gap larger
  is a fact about cardinalities (`RewindGaps`). `Branched` is the second half:
  blocks above and below a gap are of one branch, since a tip check compared the
  last of them with the node.

### `IndexTablesProofs`: the tables that follow the blocks

`Spec_LedgerExact`, `Spec_UtxoExact`, `Spec_InputsResolved`,
`Spec_ActivityExact`, `Spec_LotteryExact`, assuming `ConsensusRules` and
`ShallowForks`. What tables hold is said of a set of mined
transactions (`Holds`), and there is a lemma for each thing the indexer does to
each table: one more transaction (`UtxosAdd`, ...), a rewind to a height
(`...Cut`), the repair of the genesis block, the rebuild of `utxos`. The invariant `Exact`
says that the committed tables hold the committed blocks, and that those of the
open transaction hold its blocks, but *of the block being indexed only its first
`n` transactions* (`Begun`). The five tables need each other: `txio` is
rewound by `txs`, and `utxos` is rebuilt from `txio`. `ChainInv` comes in since
the rules hold of the transactions of one chain.

`Spec_DamageBounded`: with exceptions in mid-block the tables are not exact, so
this one has an invariant of its own (`Damaged`): at most one block is broken for
each abort that has happened, *not counting the block that is being indexed*, whose
transactions are there up to `n`; an abort is what turns it into a broken one.

`Spec_AmountsExact`, assuming `AssetRules` too. Amounts are added up, so that no
rewind can undo them, and the theorem is of a chain that has only grown; the
run `reissue_after_rewind` shows what a branch switch does. The invariant
`Amounts` says two things. Every row of the open transaction is a block of the
node's chain, *so that no tip check ever rewinds*. And an amount is what the
blocks below a height, and the first `n` transactions of the one there, have
issued (`AmountsTo`): a row exists as soon as an output has named the asset, *with
the height of its issue*, since `_note_asset` keeps the old amount only of such a
row; and without a row nothing was issued. `NextNoted` is the step of one
transaction, output by output. Sums over the outputs of a transaction, its
block and the blocks are nested, and what is known of them comes from
`EmissionProofs`.

### `StatCacheProofs`

* `Spec_OneComputation` (`KeysFit`): `LockInv` says that a thread past
  `_lock_for` has the lock that the table has for its key, and that one past
  `acquire` holds it.
* `Spec_AnswerRecent`, for any number of keys: `AgesInv` is about times only, as
  the age of an answer does not depend on the locks.
* `Spec_NeverAhead`, `Spec_NoRegress` (`KeysFit`): `VersionsInv` says that a
  thread that computes has read the database later than what is stored for its
  key, which is so because it found that there when it had the lock, and
  nobody else stores while it has it.

### `AddressLinksProofs`

* `Spec_SettledExact`: `ExactInv` describes the snapshot in each place of a tick.
  Between commit and refresh it is not exact but one of three things: the
  indexed blocks; those up to the height it was built at, so that the others can
  be added; or something that the coming rebuild replaces. A page's rebuild
  that is under way has read what it needs *unless the indexer has committed
  since*, and then the tick's own refresh comes after it. `TickInv`: after a
  rewind a tick adds a block before it refreshes.
* `Spec_ListUsed`, rewinds or not: `ListedInv` says that no block has its inputs
  in and its outputs out, in the snapshot and in what a page is building.

### `EmissionProofs` and `PayoutsProofs`

Sums (`Total`) and halvings are recursive functions. What they are for every
argument is proved by hand, each time from a set of numbers at which a statement
fails and its least member (`LeastNumber`, `AllNumbers`), since the library's
induction takes an operator. So: a sum after one more term, sums of equal terms
(`SumAppended`, `SumBySteps`, `SumSame`), the subsidy of an era as a quotient.

* `PayingHeights`: blocks up to `last_paying_height` pay and no later one does.
  `LifetimeReached`: the supply never passes `lifetime_supply`, and is that from
  that height on and not before. Any initial subsidy, interval, number of eras.
* `GuestPotExact` (two divisions in place of one lose nothing),
  `GuestPotIncreasing`, and `PercentRecovered` (for wins of at least 100 the pot
  tells the percentage).
* `Spec_SupplyExact`: the closed form is the sum of what the blocks paid; by
  `CirculatingGrows`, it grows from each height to the next by that subsidy,
  at the halvings too. `Spec_SplitConserves`, `Spec_TagSound`,
  `Spec_EvenShareTagged`: `PayoutsInv` says of the last spend what the detection
  of any list of outputs returns (`DetectSaysTrue`, `ShareTagged`).

### `ServicesProofs`

The supply page, the IPFS cache, the rebuilds and the relay's copy each have an
invariant, and a step of `Services` is a step of one of them or leaves it alone
(`EachService`), so that `Spec_ServicesSound` has the four together.

* `CacheSpec_MetadataSound`: `CacheInv` says that the cache is a finite function
  whose entries hold the object of their key, and that *a reader on its way to put
  or to look again carries the object it asked for*; without the latter a put
  could break the former. That the limit holds needs that a put either
  replaces an entry or has dropped the oldest first.
* `RebuildSpec_Exact`: `RowsOK` of the committed and of the open tables, and how
  far the rebuild of the wins has come. When the shares' version is
  recorded and the lottery's is not, every share counts as judged early: this is
  what the next rebuild of the wins starts from.
* `SupplySpec_Sound`: what is burned up to a height is no more than was issued up
  to it (`BurnsKept`), which a rewind keeps since it holds at *every* height; and
  what a reading notes between its two statements only becomes more than is left
  (`ReadingKept`).
* `RelaySpec_FillsAgree`, for every sequence of states of the relay: the copy is
  a pair of a state of the markets and one of the auctions, or none, and rows and
  fills are made from the same pair. A fill under a key is the last one of the list
  that has it, and the relay lists no refund under the txid of a fill
  (`RelayAssumption`), so that it is the row of the page.
* `ConnSpec_Counted`, of `DbConnections`: `ConnInv` says of every place of a
  thread whether its connection is listed, open and its own alone.

### `TradeFeedProofs`

For any transactions, stories, threads, labels and states of the relay. What the
theorems suppose of the transactions is stated in the `ASSUME`s, which TLC
evaluates on the stories of `trade_pages`:

* `StoriesAssumption`: a transaction is in one block, once. `TxsAssumption`: it has
  inputs and outputs, lists of rows with their fields. `LimitsAssumption`: the
  limits of the searches are positive.
* `LaunchAssumption`: the names of an asset form a class (`_asset_aliases` gives
  each of them the same set), and no address is the missing one.
* `TruthAssumption`, of `Spec_PagesSound` alone: a transaction is taken for the
  same trade or for none, with its marker stored or not, with its inputs known or
  not, and whichever reserves and fee addresses that *some* delivered buys and
  their sells teach are known. It is a demand on transactions and not on what the
  feed learns; a transaction that is a sell to who knows one verified reserve and
  something else to who knows another is what it excludes. Markers that
  pay no fee, buys that nobody delivers, and equal buys with one delivery are all
  admitted, and are in the stories.
* `RelayTruthAssumption`: the relay lists a trade on its side, by its trader or
  under a Launch address.
* `DeliveryAssumption`, of `Spec_DeliveriesMatched` alone: a delivery hands out one
  amount to one buyer. One that delivers two buys confirms one of them only, since
  the code marks a delivery as used by its txid (`trades.py:1449`).

What is proved:

* `Spec_OwnDay`. `DayInv` follows a list from the query to the copy in memory: while
  a thread assembles, the rows it has, *the sells that it will judge again and the
  routes it will search* are of blocks of its day; what is stored is stored
  under the day it was read for.
* `Spec_LearnedVerified`, which needs no assumption about who broadcasts what, and
  `Spec_PagesSound`. `TruthInv` adds that everything known anywhere was verified:
  both tables, what a pass carries, *what a search has found and not yet noted*.
  Since the index only grows, a buy that was delivered stays so, and neither who
  learns in between nor a lost write can upset it. A pass has each transaction
  once: as a row, or in one of the two disjoint lists that it will come back to
  (`AssemblyOK`), so that going through them adds no second row. A row is one of
  the trades that its transaction may be taken for (`TakenFor`); that this is the
  only one enters at the end, for `PagesSound`. Most of the proof
  is about the classification: that a buy found with reserves known is the same buy
  without them, so that its own marker and payments verify it, which of the branches
  give a side, and that a row with no tokens teaches nothing.
* `Spec_DeliveriesMatched`, an action property. Buys take the first delivery that is
  left, in the order of the chain. What could serve two buys serves both or
  neither, and a buy that has taken a delivery has taken the first that was left
  (`Paired`); so any other pairing injects into this one: a buy that goes without
  has found its deliveries taken by buys that could have taken them all.
* `Spec_SellsComplete`. `SellsInv`: while a day is assembled each of its sells *is
  shown, or waits to be judged again with its reserve known, being sought or just
  found, or is excused*. That the search finds it (`SearchEnded`) needs
  that markers are read again block by block (`BlockWise`), so that a buy with an
  unread marker whose block the node gave is read with it; and that a transaction
  which taught a reserve at one height still does at a later one
  (`TaughtBefore`): new blocks come after, so that its delivery keeps its place
  among the first rows. When no name has more markers than the limit, what a
  search looks at is all of them (`AllSeen`), whichever it takes. Excused is what
  the code itself gives up: an asset sought in vain earlier that day, and one with
  an old block left unread.

`Findable` says what a search can come upon, and is narrower than one might wish:
markers spelled with the root's prefix, and old buys in blocks where no unread
transaction moves the asset, are not found (section 6).

### Only model-checked

* Liveness, which is beyond this prover: `EventuallySynced`, `Answered`,
  `EventuallyExact`, `EventuallyNoneOpen`, `PagesCatchUp`, `RpcRecovers`.

## 6. Disagreements found

Each is a run that TLC finds violated and a finding in `PROJECT.json`:

1. `db.py:262`: a read retried on a new connection drops the open batch, and a
   height is never indexed (`read_retry_gap`).
2. `indexer.py:1015`: a reissue that is rewound and mined again counts twice
   (`reissue_after_rewind`).
3. `statcache.py:43`: a lock that was handed out but not yet acquired is dropped
   as idle, and two threads compute for one key (`stats_cache_prune`).
4. `links.py:347`: a rewind and net growth within one tick are taken for growth
   (`links_rewind_growth`).

Further ones, seen while modelling, that no run is spent on:

* `indexer.py:166`: after a branch switch deeper than 32 blocks the stale blocks
  below the rewind stay ("re-scan from 0 on deep reorgs", `indexer.py:565`).
  `ShallowForks` is the assumption that excludes it.
* `indexer.py:579`: `_rebuild_utxos` inserts the genesis coinbase, which "is not
  a UTXO" (`indexer.py:528`), with value 0, until the next tick's repair.
* `statcache.py:76`: an answer stored for a key whose lock was dropped meanwhile
  is itself not dropped before the key is asked for again.
* `links.py:317`: the relay's list is marked as loaded before the rebuild that
  should use it; if that fails, blocks built before stay without change labels
  until the timer. `ListUsed` is stated of behaviours without faults.
* `db.py:479`: `close` misses a connection that is being opened; it is closed
  when its thread ends (`EventuallyNoneOpen`).
* `hostshare.py:58`: a pot that does not divide evenly among the guests is not
  recognised. `EvenShareTagged` says which ones are.
* `launch_trades.py:286`: when the markets are read and the auctions are not,
  the copy is replaced by one without auctions ("Stale copy is kept on errors.",
  `launch_trades.py:254`). Several fills of one txid become one row, and refunds
  are listed with the fills.
* `indexer.py:321`: a stop, or a connection that is lost, in mid-rebuild of the
  lottery lets the rebuild of the shares run on the wins there are, and its
  version is recorded: those shares stay as they were judged (`early`). A height
  whose call fails is never read again (`missed`), which also happens to every
  height above the node's tip while the node itself catches up. Spends that are
  indexed before the rebuild keep the winner's old name.
* `rpc.py:59`: a reconnect closes the client of another thread's call. Two threads
  that do so in turn may go on for ever. `connected` may be set by one thread while
  the client that is left is another's, on another port; and a call after
  `close` opens a client again.
* `trades.py:1246`: a failed `getrawmempool` is kept as an empty mempool until the
  copy ages; a pending trade that is mined is on no list until the day is read.
* `trades.py:1293`: a slow request turns the day in memory back, and both days
  are read again; one that notes an asset as sought in vain after midnight
  notes it for the new day.
* `trades.py:1449`: the delivery of yesterday's buy, mined today, may confirm
  today's equal buy; one transaction that delivers two buys confirms one of them;
  the branch for buys in the mempool is never taken.
* `trades.py:1601`, `trades.py:1649`: with more than 20 markers of a name the search
  looks at any 20 of them, and with more than 8 equal deliveries to a buyer only at
  the first; the buy that teaches the reserve may not be found, the asset then
  counts as sought in vain for the day, and its marked sells are on no list.
* `trades.py:1449`: when one buyer makes two equal buys that pay the fee, and gives
  an address other than the listing's reserve in one of them, the one delivery may
  confirm that one. Its address is then kept as the asset's reserve, and sells
  through the listing's own are not recognised.
* `trades.py:1589`: the search for a reserve does not match markers spelled with
  the root's prefix, and `_fill_missing_memos` skips blocks whose old buys moved
  XFER only.
* `trades.py:1416`: learned addresses survive the rewind of what taught them.
* `supply.py:98`: height and burned sum of two moments are added up.

## 7. What is not modelled

* Live nodes, identities and their expiry; the waiting time between ticks, and
  that an exception there ends the indexer's thread (`indexer.py:120`); the
  units that the backfill of today's scripts adds.
* What a label of `AddressLinks` says, wallet links (their polling hangs on the same
  timer as the paths), `observe_tx`: the mempool's
  co-spent inputs.
* Parsing: scripts, XVA1 records, base58, CIDs; what the sanitising of IPFS
  objects keeps; `select_winners`, which depends on a hash. Formatting, settings,
  installation scripts, the choice of a wallet's release by its name.
* `queries.py` and `hatstats.py`: read-only SQL and its layout; they keep no
  state, and a model of them would be the queries once more. HTTP routing.
* Of `TradeFeed`: the statistics of the last 24 hours, sorting, filters and
  pages; rewinds, which are in `Indexer`. Its limits of 15 blocks whose markers are
  read again and of 100 transactions of the mempool are in the model as a choice:
  any of them may be left out. Those of the searches are constants.
* Of `MetadataCache`: `clear_metadata_cache`, which only tests call.
* Of `Rebuilds`: branch switches.
* The gateways of IPFS, the relay, the wallet: they are only what they answer.

## 8. Plan

Done, in this order: the index and its proofs, the cache, address links,
connections, payouts; the trades page, the relay's copy, the supply page, the
wallet's client, the cache of IPFS objects, the rebuilds; the proofs of section 5,
which state every invariant and every action property that a run checks. Next:

1. `Identities`: how handles follow blocks through rewinds, and the expiry of
   live nodes. `observe_tx` of `AddressLinks`.
2. The poll delay and the end of the loop by an exception outside its `try`.

Small components that do not interact share a run (as `Emission` and `HostShare`
do in `Payouts`, and those of `Services`): a run is one question, and properties
are conditional on what has happened rather than on separate configurations.
