------------------------------- MODULE Indexer -------------------------------
(***************************************************************************)
(* The indexer thread of explorer/indexer.py: one tick after another, each  *)
(* a sequence of RPC calls to the node and of writes in one open            *)
(* transaction, with the commits where the code makes them.                 *)
(*                                                                          *)
(* `db' is what the indexer's own connection reads, its uncommitted writes  *)
(* included; `saved' is the last commit, which is what every HTTP thread    *)
(* reads and what a new process finds.  A step ends where the node may have *)
(* moved before the next call, where an exception may leave the tick, or at *)
(* a commit.                                                                *)
(***************************************************************************)
EXTENDS ChainNode, IndexStore

CONSTANTS
    Depth,      \* how far a rewind goes back: 32 in the code
    Batch,      \* blocks per tick: batch_size, 40 in the code
    Faults,     \* the disturbances that may happen, see below
    MaxFaults   \* bound on their number in a behaviour

FaultNames ==
    { "reorg",      \* the node switches branches between two ticks
      "midreorg",   \* ... or while a batch is being fetched
      "retreat",    \* the node drops blocks from its tip between two ticks
      "fetch",      \* an RPC call that fetches a block fails
      "check",      \* the RPC call of the tip check fails
      "abort",      \* an exception after part of a block is written
      "conndrop",   \* a read finds a broken connection and is retried
      "stop",       \* the program is asked to stop, and is started again
      "crash" }     \* the process dies, or closes the database in mid-tick

ASSUME IndexerAssumption ==
    /\ Depth \in Nat /\ Batch \in Nat \ {0}
    /\ Faults \subseteq FaultNames /\ MaxFaults \in Nat

VARIABLES
    db,         \* the tables as the indexer's connection sees them
    saved,      \* the tables as committed
    pc,         \* where the thread is
    tip,        \* tip: the height getblockchaininfo answered in this tick
    next,       \* height: the next height of the batch
    last,       \* end: the last height of the batch
    block,      \* the block being indexed
    n,          \* how many of its transactions are written
    stop,       \* _stop is set
    faults      \* the disturbances so far, in order

tickVars == <<tip, next, last, block, n>>
vars == <<best, db, saved, pc, tip, next, last, block, n, stop, faults>>

PCs == {"down", "idle", "check", "block", "tx", "commit"}

Fault(f) == f \in Faults /\ Len(faults) < MaxFaults /\ faults' = Append(faults, f)

\* How often a disturbance has happened, and whether one of some has.
Count(f) == Cardinality({i \in DOMAIN faults : faults[i] = f})
Happened(names) == \E i \in DOMAIN faults : faults[i] \in names

Init ==
    /\ NodeInit
    /\ db = EmptyDb /\ saved = EmptyDb
    /\ pc = "down"
    /\ tip = -1 /\ next = 0 /\ last = -1 /\ n = 0
    /\ block \in {b \in Block : Height[b] = 0}
    /\ stop = FALSE
    /\ faults = <<>>

-------------------------------------------------------------------------------
(* The node *)

NodeGrows == Mine /\ UNCHANGED <<db, saved, pc, tickVars, stop, faults>>

\* A tick that has checked its tip still fetches the blocks of its batch by
\* height: pc is then "block".  Before the check, a branch switch is harmless.
NodeReorgs ==
    /\ \/ pc \in {"down", "idle", "check"} /\ Fault("reorg")
       \/ pc \in {"block", "tx"} /\ Fault("midreorg")
    /\ Reorg
    /\ UNCHANGED <<db, saved, pc, tickVars, stop>>

NodeRetreats ==
    /\ pc \in {"down", "idle"}
    /\ Fault("retreat")
    /\ Retreat
    /\ UNCHANGED <<db, saved, pc, tickVars, stop>>

-------------------------------------------------------------------------------
(* The process and its thread *)

\* start: repair the genesis block, commit, start the thread.
Start ==
    /\ pc = "down"
    /\ db' = RepairGenesis(db)
    /\ saved' = db'
    /\ stop' = FALSE
    /\ pc' = "idle"
    /\ UNCHANGED <<best, tickVars, faults>>

\* stop: ask the thread to end.
Stop ==
    /\ pc # "down" /\ ~ stop
    /\ Fault("stop")
    /\ stop' = TRUE
    /\ UNCHANGED <<best, db, saved, pc, tickVars>>

\* The loop ends between two ticks; the database is closed, and what the last
\* tick left uncommitted is lost.
Exit ==
    /\ pc = "idle" /\ stop
    /\ pc' = "down"
    /\ db' = saved
    /\ UNCHANGED <<best, saved, tickVars, stop, faults>>

\* The process dies; or stop has waited its four seconds, and the main thread
\* closes every connection while a tick runs.
Crash ==
    /\ pc # "down"
    /\ Fault("crash")
    /\ pc' = "down"
    /\ db' = saved
    /\ UNCHANGED <<best, saved, tickVars, stop>>

-------------------------------------------------------------------------------
(* A tick *)

\* getblockchaininfo, the genesis repair and a commit.  The commit takes with
\* it whatever an earlier tick left in the open transaction.
TickHead ==
    /\ pc = "idle" /\ ~ stop
    /\ tip' = Height[best]
    /\ db' = RepairGenesis(db)
    /\ saved' = db'
    /\ pc' = "check"
    /\ UNCHANGED <<best, next, last, block, n, stop, faults>>

\* Mutants: the batch starts one block late, or at the indexed block; it ends
\* one block below the tip.
PlanLate(indexed) ==
    /\ next' = indexed + 2
    /\ last' = IF tip <= indexed + Batch THEN tip ELSE indexed + Batch
    /\ pc' = IF indexed + 2 <= last' THEN "block" ELSE "idle"
    /\ UNCHANGED <<best, tip, block, n, stop>>
PlanEarly(indexed) ==
    /\ next' = indexed
    /\ last' = IF tip <= indexed + Batch THEN tip ELSE indexed + Batch
    /\ pc' = IF indexed <= last' THEN "block" ELSE "idle"
    /\ UNCHANGED <<best, tip, block, n, stop>>
PlanShort(indexed) ==
    /\ next' = indexed + 1
    /\ last' = IF tip - 1 <= indexed + Batch THEN tip - 1 ELSE indexed + Batch
    /\ pc' = IF indexed + 1 <= last' THEN "block" ELSE "idle"
    /\ UNCHANGED <<best, tip, block, n, stop>>

\* start, end, and the loop over the batch or the end of the tick.
PlanBatch(indexed) ==
    LET end == IF tip <= indexed + Batch THEN tip ELSE indexed + Batch IN
    /\ next' = indexed + 1
    /\ last' = end
    /\ pc' = IF indexed + 1 <= end THEN "block" ELSE "idle"
    /\ UNCHANGED <<best, tip, block, n, stop>>

\* Nothing is indexed yet, or the hash of the last indexed block is still the
\* node's.
CheckAgrees ==
    LET indexed == IndexedHeight(db.blocks) IN
    /\ pc = "check"
    /\ indexed >= 0 => HasHeight(indexed) /\ db.blocks[indexed] = BlockAt(indexed)
    /\ PlanBatch(indexed)
    /\ UNCHANGED <<db, saved, faults>>

\* Mutants: the rewind keeps the stale block, or goes back one block too few.
RewindNothing(indexed) == indexed
RewindShort(indexed) == IF indexed - Depth >= 0 THEN indexed - Depth + 1 ELSE -1

RewindTo(indexed) == IF indexed - Depth >= 0 THEN indexed - Depth ELSE -1

\* Mutant: the hash is compared with that of the height below.
CheckRewindsOff ==
    LET indexed == IndexedHeight(db.blocks) IN
    /\ pc = "check"
    /\ indexed > 0 /\ HasHeight(indexed) /\ db.blocks[indexed] # BlockAt(indexed - 1)
    /\ db' = Rewind(db, RewindTo(indexed)) /\ saved' = db'
    /\ PlanBatch(IndexedHeight(db'.blocks))
    /\ UNCHANGED faults

\* It is not: rewind, which commits, and go on from what is left.
CheckRewinds ==
    LET indexed == IndexedHeight(db.blocks) IN
    /\ pc = "check"
    /\ HasHeight(indexed) /\ db.blocks[indexed] # BlockAt(indexed)
    /\ db' = Rewind(db, RewindTo(indexed))
    /\ saved' = db'
    /\ PlanBatch(IndexedHeight(db'.blocks))
    /\ UNCHANGED faults

\* The call fails, because the node is below that height or for another
\* reason; the error is dropped and the tick goes on.
CheckFails ==
    LET indexed == IndexedHeight(db.blocks) IN
    /\ pc = "check"
    /\ indexed >= 0
    /\ \/ ~ HasHeight(indexed) /\ UNCHANGED faults
       \/ Fault("check")
    /\ PlanBatch(indexed)
    /\ UNCHANGED <<db, saved>>

\* Mutant: the loop over the transactions skips the first one.
FetchSkipsFirst ==
    /\ pc = "block" /\ ~ stop
    /\ HasHeight(next)
    /\ block' = BlockAt(next)
    /\ db' = PutBlock(db, next, block')
    /\ n' = 1
    /\ pc' = "tx"
    /\ UNCHANGED <<best, saved, tip, next, last, stop, faults>>

\* getblockhash, getblock, and the row of the block.
FetchBlock ==
    /\ pc = "block" /\ ~ stop
    /\ HasHeight(next)
    /\ block' = BlockAt(next)
    /\ db' = PutBlock(db, next, block')
    /\ n' = 0
    /\ pc' = "tx"
    /\ UNCHANGED <<best, saved, tip, next, last, stop, faults>>

\* The node has no such height any more, or a call fails: the exception leaves
\* the tick, and the blocks of the batch so far stay uncommitted.
FetchFails ==
    /\ pc = "block" /\ ~ stop
    /\ \/ ~ HasHeight(next) /\ UNCHANGED faults
       \/ Fault("fetch")
    /\ pc' = "idle"
    /\ UNCHANGED <<best, db, saved, tickVars, stop>>

\* The loop over the batch ends early on a stop.
BatchStops ==
    /\ pc = "block" /\ stop
    /\ pc' = "commit"
    /\ UNCHANGED <<best, db, saved, tickVars, stop, faults>>

WriteTx ==
    /\ pc = "tx"
    /\ n < Len(Txs[block])
    /\ db' = IndexTx(db, Txs[block][n + 1], next)
    /\ n' = n + 1
    /\ UNCHANGED <<best, saved, pc, tip, next, last, block, stop, faults>>

BlockDone ==
    /\ pc = "tx"
    /\ n = Len(Txs[block])
    /\ next' = next + 1
    /\ pc' = IF next < last THEN "block" ELSE "commit"
    /\ UNCHANGED <<best, db, saved, tip, last, block, n, stop, faults>>

Commit ==
    /\ pc = "commit"
    /\ saved' = db
    /\ pc' = "idle"
    /\ UNCHANGED <<best, db, tickVars, stop, faults>>

\* An exception within a block (a transaction the node does not return, a
\* failed statement) leaves the tick; nothing is rolled back.
TickAborts ==
    /\ pc = "tx"
    /\ Fault("abort")
    /\ pc' = "idle"
    /\ UNCHANGED <<best, db, saved, tickVars, stop>>

\* A SELECT finds the connection unusable: it is closed, which drops the open
\* transaction, and the SELECT is run again on a new one.  The tick goes on.
ConnectionReplaced ==
    /\ pc \in {"block", "tx"}
    /\ Fault("conndrop")
    /\ db' = saved
    /\ UNCHANGED <<best, saved, pc, tickVars, stop>>

-------------------------------------------------------------------------------

NodeNext == NodeGrows \/ NodeReorgs \/ NodeRetreats

Tick == \/ TickHead \/ CheckAgrees \/ CheckRewinds \/ CheckFails
        \/ FetchBlock \/ FetchFails \/ BatchStops \/ WriteTx \/ BlockDone
        \/ Commit \/ TickAborts \/ ConnectionReplaced

Next == NodeNext \/ Tick \/ Start \/ Stop \/ Exit \/ Crash

Spec == Init /\ [][Next]_vars

\* The thread keeps running: a process that is down is started again, a tick
\* that can take a step takes it, a thread that is asked to end does.
FairSpec == Spec /\ WF_vars(Tick) /\ WF_vars(Start) /\ WF_vars(Exit)
===============================================================================
