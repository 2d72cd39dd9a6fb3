------------------------------ MODULE Rebuilds ------------------------------
(***************************************************************************)
(* The indexer's one-time rebuilds after an upgrade (indexer.py): the      *)
(* lottery's wins are read again from the node, block by block, and then   *)
(* the shares are tagged again from the wins; each records a version, so   *)
(* that it is not done twice.  Ticks, stops, failed calls and crashes come *)
(* in between.  The chain does not switch branches here (it does in        *)
(* Indexer), but the node may be behind the index while it catches up.     *)
(***************************************************************************)
EXTENDS Integers, Sequences

CONSTANTS SharedBy,      \* for each block: the block whose win a spend in it shares, or 0
          OldBlocks      \* how many blocks an older explorer has indexed

\* A coinbase is spent in a later block only.
ASSUME RebuildsAssumption ==
    /\ SharedBy \in Seq(Nat) /\ OldBlocks \in 0..Len(SharedBy)
    /\ \A b \in DOMAIN SharedBy : SharedBy[b] < b

VARIABLES reachable,     \* the blocks the node has
          stored,        \* the database as committed
          opened,        \* and with the open transaction
          ticker         \* the indexer's thread: pc, the height it is at, stop

rebuildVars == <<reachable, stored, opened, ticker>>

\* A row is "old" or "new", by the version that wrote it.  For the properties,
\* missed: the heights the rebuild skipped; early: the blocks whose spends were
\* judged before the wins had been rebuilt.
OldRows(shareV) ==
    [indexed |-> OldBlocks, lotteryV |-> FALSE, shareV |-> shareV,
     wins |-> [h \in 1..OldBlocks |-> "old"],
     shares |-> [h \in {b \in 1..OldBlocks : SharedBy[b] # 0} |-> "old"],
     missed |-> {}, early |-> IF shareV THEN 1..OldBlocks ELSE {}]

\* _maybe_index_share: a spend is tagged if the win it spends is known, and the
\* tag takes the winner's name from there.
Tags(heights, wins) ==
    [h \in {b \in heights : SharedBy[b] \in DOMAIN wins} |-> wins[SharedBy[h]]]

Ticks(pc) == ticker.pc = pc
TickGoes(pc) == ticker' = [ticker EXCEPT !.pc = pc]
-----------------------------------------------------------------------------
RebuildInit ==
    /\ reachable = OldBlocks
    /\ stored \in {OldRows(v) : v \in BOOLEAN} /\ opened = stored
    /\ ticker = [pc |-> "rest", at |-> 0, stop |-> FALSE]

NodeMoves ==
    /\ reachable' \in DOMAIN SharedBy \cup {0}
    /\ UNCHANGED <<stored, opened, ticker>>

\* tick(): what an earlier tick has left open is committed.  The rebuild begins
\* with an empty history, unless it was done, or the client is not connected
\* any more, in which case the tick goes on without it.
TickBegins ==
    /\ Ticks("rest") /\ ~ticker.stop
    /\ stored' = opened
    /\ \/ /\ ~opened.lotteryV
          /\ opened' = [opened EXCEPT !.wins = [h \in {} |-> "old"], !.missed = {}]
          /\ ticker' = [ticker EXCEPT !.pc = "lottery", !.at = 1]
       \/ /\ TickGoes("shares")
          /\ UNCHANGED opened
    /\ UNCHANGED reachable

\* A block is read again, or a call fails and it is skipped.
RereadsBlock ==
    LET h == ticker.at
    IN  /\ Ticks("lottery") /\ ~ticker.stop /\ h <= opened.indexed
        /\ \/ /\ h <= reachable
              /\ opened' = [opened EXCEPT !.wins = [x \in DOMAIN @ \cup {h} |-> "new"]]
           \/ opened' = [opened EXCEPT !.missed = @ \cup {h}]
        /\ ticker' = [ticker EXCEPT !.at = h + 1]
        /\ UNCHANGED <<reachable, stored>>

\* Mutant: a rebuild that was cut short counts as done.
RebuildCutDone ==
    /\ Ticks("lottery") /\ ticker.stop /\ ticker.at <= opened.indexed
    /\ opened' = [opened EXCEPT !.lotteryV = TRUE]
    /\ TickGoes("shares")
    /\ UNCHANGED <<reachable, stored>>

\* The explorer is being stopped: the rebuild returns, the tick goes on.
RebuildCut ==
    /\ Ticks("lottery") /\ ticker.stop /\ ticker.at <= opened.indexed
    /\ TickGoes("shares")
    /\ UNCHANGED <<reachable, stored, opened>>

LotteryRebuilt ==
    /\ Ticks("lottery") /\ ticker.at > opened.indexed
    /\ opened' = [opened EXCEPT !.lotteryV = TRUE] /\ stored' = opened'
    /\ TickGoes("shares")
    /\ UNCHANGED reachable

\* _rebuild_shares, unless it was done; the commit of _refresh_lottery_live
\* follows in either case.
SharesRebuilt ==
    LET all == 1..opened.indexed
    IN  /\ Ticks("shares")
        /\ opened' = IF opened.shareV THEN opened
                     ELSE [opened EXCEPT !.shares = Tags(all, opened.wins), !.shareV = TRUE,
                                         !.early = IF opened.lotteryV THEN {} ELSE all]
        /\ stored' = opened'
        /\ TickGoes("batch")
        /\ UNCHANGED reachable

\* The new blocks, up to one whose call fails, or until the explorer is stopped.
IndexesBlocks ==
    /\ Ticks("batch")
    /\ \E n \in opened.indexed..IF ticker.stop \/ reachable < opened.indexed
                                THEN opened.indexed ELSE reachable :
          LET new  == opened.indexed + 1..n
              wins == [h \in DOMAIN opened.wins \cup new |->
                          IF h \in new THEN "new" ELSE opened.wins[h]]
              tags == Tags(new, wins)
          IN  /\ opened' = [opened EXCEPT !.indexed = n, !.wins = wins,
                    !.shares = [h \in DOMAIN @ \cup DOMAIN tags |->
                                   IF h \in new THEN tags[h] ELSE @[h]],
                    !.early = IF opened.lotteryV THEN @ ELSE @ \cup new]
              /\ stored' \in {stored, opened'}
    /\ TickGoes("rest")
    /\ UNCHANGED reachable

\* An exception ends the tick; nothing is rolled back.
TickBreaks ==
    /\ ticker.pc \in {"lottery", "shares"}
    /\ TickGoes("rest")
    /\ UNCHANGED <<reachable, stored, opened>>

StopAsked ==
    /\ ~ticker.stop
    /\ ticker' = [ticker EXCEPT !.stop = TRUE]
    /\ UNCHANGED <<reachable, stored, opened>>

\* The process ends, at the end of a tick or in the midst of one, and is
\* started again.
ExplorerRestarts ==
    /\ opened' = stored
    /\ ticker' = [pc |-> "rest", at |-> 0, stop |-> FALSE]
    /\ UNCHANGED <<reachable, stored>>

RebuildNext ==
    \/ NodeMoves \/ TickBegins \/ RereadsBlock \/ RebuildCut \/ LotteryRebuilt
    \/ SharesRebuilt \/ IndexesBlocks \/ TickBreaks \/ StopAsked \/ ExplorerRestarts

RebuildSpec == RebuildInit /\ [][RebuildNext]_rebuildVars
-----------------------------------------------------------------------------
\* What the versions promise of the committed tables: once the lottery's is
\* recorded, every win is there as the new version reads it, but for heights
\* whose call failed during the rebuild; once both are, a share is tagged, under
\* the winner's new name, exactly if its win is there, but for spends that were
\* judged before the wins were rebuilt (a stop or a lost connection in between
\* lets the second rebuild run without the first).
RebuildsExact ==
    stored.lotteryV =>
        /\ \A h \in 1..stored.indexed :
              IF h \in DOMAIN stored.wins THEN stored.wins[h] = "new" ELSE h \in stored.missed
        /\ stored.shareV => \A h \in 1..stored.indexed \ stored.early :
              IF SharedBy[h] \in DOMAIN stored.wins
              THEN h \in DOMAIN stored.shares /\ stored.shares[h] = "new"
              ELSE h \notin DOMAIN stored.shares
=============================================================================
