---------------------------- MODULE IndexerProofs ----------------------------
(***************************************************************************)
(* Theorems about the index of blocks, for every tree of blocks, depth of   *)
(* rewind, batch size and set of transactions.                              *)
(***************************************************************************)
EXTENDS IndexerProperties, FiniteSetTheorems, TLAPS

IsDb(d) == "blocks" \in DOMAIN d

-------------------------------------------------------------------------------
(* What the operations on tables do to table blocks *)

\* The genesis repair leaves table blocks alone.
LEMMA RepairBlocks ==
    ASSUME NEW d, IsDb(d)
    PROVE  IsDb(RepairGenesis(d)) /\ RepairGenesis(d).blocks = d.blocks
  BY DEF IsDb, RepairGenesis

\* Indexing a transaction leaves table blocks alone.
LEMMA IndexTxBlocks ==
    ASSUME NEW d, NEW t, NEW h, IsDb(d)
    PROVE  IsDb(IndexTx(d, t, h)) /\ IndexTx(d, t, h).blocks = d.blocks
  BY DEF IsDb, IndexTx

\* The row of a block is added at its height.
LEMMA PutBlockBlocks ==
    ASSUME NEW d, NEW h, NEW b, IsDb(d)
    PROVE  /\ IsDb(PutBlock(d, h, b))
           /\ PutBlock(d, h, b).blocks =
                [k \in DOMAIN d.blocks \cup {h} |-> IF k = h THEN b ELSE d.blocks[k]]
  BY DEF IsDb, PutBlock, Upsert

\* A rewind cuts table blocks down to its height.
LEMMA RewindBlocks ==
    ASSUME NEW d, NEW h, IsDb(d)
    PROVE  /\ IsDb(Rewind(d, h))
           /\ Rewind(d, h).blocks =
                [k \in DOMAIN d.blocks \ {i \in DOMAIN d.blocks : i > h} |-> d.blocks[k]]
<1>1. /\ IsDb(DropAbove(d, h))
      /\ DropAbove(d, h).blocks = Without(d.blocks, {i \in DOMAIN d.blocks : i > h})
  BY DEF IsDb, DropAbove
<1>2. ASSUME NEW e, IsDb(e) PROVE IsDb(RebuildUtxos(e)) /\ RebuildUtxos(e).blocks = e.blocks
  <2> DEFINE spent == {Ins[r[1]][r[2]] : r \in DOMAIN e.ins}
             rows == {o \in e.outs : o[1] \in DOMAIN e.txs /\ o \notin spent}
             table == [o \in rows |-> e.txs[o[1]]]
  <2>1. RebuildUtxos(e) = [e EXCEPT !.utxos = table]
    BY Zenon DEF RebuildUtxos
  <2> HIDE DEF table
  <2> QED BY <1>2, <2>1 DEF IsDb
<1>3. /\ IsDb([DropAbove(d, h) EXCEPT !.utxos = EmptyTable, !.assets = EmptyTable])
      /\ [DropAbove(d, h) EXCEPT !.utxos = EmptyTable, !.assets = EmptyTable].blocks
            = DropAbove(d, h).blocks
  BY <1>1 DEF IsDb
<1>4. IsDb(Rewind(d, h)) /\ Rewind(d, h).blocks = DropAbove(d, h).blocks
  BY <1>1, <1>2, <1>3 DEF Rewind
<1> QED BY <1>1, <1>4 DEF Without

-------------------------------------------------------------------------------
(* Tables of blocks without a gap *)

\* Table blocks has a row for every height from 0 to k, each a block of that
\* height.
RunTo(blocks, k) ==
    /\ DOMAIN blocks = 0 .. k
    /\ \A h \in 0 .. k : blocks[h] \in Block /\ Height[blocks[h]] = h

Run(blocks) == \E k \in Int : k >= -1 /\ RunTo(blocks, k)

\* The height of a table without a gap is the last of its heights.
LEMMA HeightOfRun ==
    ASSUME NEW f, NEW k \in Int, k >= -1, DOMAIN f = 0 .. k
    PROVE  IndexedHeight(f) = k
<1>1. CASE k = -1
  BY <1>1 DEF IndexedHeight
<1>2. CASE k >= 0
  <2>1. k \in DOMAIN f /\ \A j \in DOMAIN f : j <= k
    BY <1>2
  <2>2. DOMAIN f # {}
    BY <2>1
  <2>3. IndexedHeight(f) \in DOMAIN f /\ \A j \in DOMAIN f : j <= IndexedHeight(f)
    BY <2>1, <2>2 DEF IndexedHeight
  <2> QED BY <2>1, <2>3
<1> QED BY <1>1, <1>2

\* A table without a gap stays one when the block above its top is added.
LEMMA PutOnRun ==
    ASSUME NEW d, NEW k \in Nat, NEW b \in Block, IsDb(d),
           RunTo(d.blocks, k - 1), Height[b] = k
    PROVE  RunTo(PutBlock(d, k, b).blocks, k)
<1>1. DOMAIN d.blocks \cup {k} = 0 .. k
  BY DEF RunTo
<1>2. PutBlock(d, k, b).blocks = [h \in 0 .. k |-> IF h = k THEN b ELSE d.blocks[h]]
  <2>1. PutBlock(d, k, b).blocks =
           [h \in DOMAIN d.blocks \cup {k} |-> IF h = k THEN b ELSE d.blocks[h]]
    BY DEF PutBlock, Upsert, IsDb
  <2> QED BY <2>1, <1>1
<1>3. \A h \in 0 .. k : h # k => h \in 0 .. (k - 1)
  OBVIOUS
<1> QED BY <1>2, <1>3 DEF RunTo

\* A rewind of a table without a gap to a height of it, or to -1.
LEMMA RewindRun ==
    ASSUME NEW d, NEW k \in Int, NEW r \in Int, IsDb(d), RunTo(d.blocks, k), r >= -1, r <= k
    PROVE  /\ RunTo(Rewind(d, r).blocks, r)
           /\ Rewind(d, r).blocks = [h \in 0 .. r |-> d.blocks[h]]
<1>1. (0 .. k) \ {i \in 0 .. k : i > r} = 0 .. r
  OBVIOUS
<1>2. Rewind(d, r).blocks = [h \in 0 .. r |-> d.blocks[h]]
  BY <1>1, RewindBlocks DEF RunTo
<1> QED BY <1>2 DEF RunTo

\* A rewind goes to a height of the index or to -1.
LEMMA RewindToRange ==
    ASSUME NEW k \in Nat
    PROVE  RewindTo(k) \in Int /\ RewindTo(k) >= -1 /\ RewindTo(k) <= k
  BY IndexerAssumption DEF RewindTo

\* The node's answers are blocks of the heights asked for.
LEMMA NodeAnswers ==
    ASSUME best \in Block, NEW h, HasHeight(h)
    PROVE  h \in Nat /\ BlockAt(h) \in Block /\ Height[BlockAt(h)] = h
  BY PathAssumption DEF HasHeight, BlockAt

\* The node's moves end in a block of the tree.
LEMMA NodeType ==
    ASSUME best \in Block, Mine \/ Reorg \/ Retreat
    PROVE  best' \in Block
<1>1. Mine \/ Reorg => best' \in Block
  BY DEF Mine, Reorg
<1>2. ASSUME NEW h \in 0 .. Height[best] - 1 PROVE BlockAt(h) \in Block
  <2>1. Height[best] \in Nat /\ Path[best] \in [0 .. Height[best] -> Block]
    BY PathAssumption
  <2>2. h \in 0 .. Height[best]
    BY <2>1
  <2> QED BY <2>1, <2>2 DEF BlockAt
<1> QED BY <1>1, <1>2 DEF Retreat

-------------------------------------------------------------------------------
(* Tables of blocks, with or without gaps *)

\* What has a largest element, if it has any.
TopIn(S) == S = {} \/ \E k \in S : \A j \in S : j <= k

\* The rows are blocks at their heights, and there is a last one at or below
\* any height.
Rows(f) ==
    /\ DOMAIN f \subseteq Nat
    /\ \A h \in DOMAIN f : f[h] \in Block /\ Height[f[h]] = h
    /\ TopIn(DOMAIN f)
    /\ \A r \in Int : TopIn({h \in DOMAIN f : h <= r})

\* indexed_height is -1 or the last of the rows.
LEMMA HeightOfRows ==
    ASSUME NEW f, Rows(f)
    PROVE  /\ IndexedHeight(f) \in Int /\ IndexedHeight(f) >= -1
           /\ DOMAIN f # {} => IndexedHeight(f) \in DOMAIN f
<1>1. CASE DOMAIN f = {}
  BY <1>1 DEF IndexedHeight
<1>2. CASE DOMAIN f # {}
  <2>1. \E h \in DOMAIN f : \A j \in DOMAIN f : j <= h
    BY <1>2 DEF Rows, TopIn
  <2>2. IndexedHeight(f) \in DOMAIN f
    BY <1>2, <2>1 DEF IndexedHeight
  <2> QED BY <2>2 DEF Rows
<1> QED BY <1>1, <1>2

\* Adding a block at its height keeps the rows in order.
LEMMA RowsPut ==
    ASSUME NEW d, NEW k \in Nat, NEW b \in Block, IsDb(d), Rows(d.blocks), Height[b] = k
    PROVE  /\ Rows(PutBlock(d, k, b).blocks)
           /\ DOMAIN d.blocks \subseteq DOMAIN PutBlock(d, k, b).blocks
<1> DEFINE f == d.blocks
           g == PutBlock(d, k, b).blocks
<1>1. g = [h \in DOMAIN f \cup {k} |-> IF h = k THEN b ELSE f[h]]
  BY DEF PutBlock, Upsert, IsDb
<1> HIDE DEF f, g
<1>2. Rows(f)
  BY DEF f
<1>3. DOMAIN g = DOMAIN f \cup {k} /\ DOMAIN f \subseteq Nat
  BY <1>1, <1>2 DEF Rows
<1>4. ASSUME NEW S, S \subseteq Nat, TopIn(S) PROVE TopIn(S \cup {k})
  <2>1. CASE S = {}
    BY <2>1 DEF TopIn
  <2>2. CASE \E j \in S : \A i \in S : i <= j
    <3>1. PICK j \in S : \A i \in S : i <= j
      BY <2>2
    <3>2. CASE j <= k
      <4>1. \A i \in S \cup {k} : i <= k
        BY <1>4, <3>1, <3>2
      <4> QED BY <4>1 DEF TopIn
    <3>3. CASE k <= j
      <4>1. \A i \in S \cup {k} : i <= j
        BY <3>1, <3>3
      <4> QED BY <3>1, <4>1 DEF TopIn
    <3> QED BY <3>2, <3>3, <1>4
  <2> QED BY <1>4, <2>1, <2>2 DEF TopIn
<1>5. TopIn(DOMAIN g)
  BY <1>2, <1>3, <1>4 DEF Rows
<1>6. ASSUME NEW r \in Int PROVE TopIn({h \in DOMAIN g : h <= r})
  <2>1. TopIn({h \in DOMAIN f : h <= r}) /\ {h \in DOMAIN f : h <= r} \subseteq Nat
    BY <1>2, <1>3 DEF Rows
  <2>2. CASE k <= r
    <3>1. {h \in DOMAIN g : h <= r} = {h \in DOMAIN f : h <= r} \cup {k}
      BY <1>3, <2>2
    <3> QED BY <1>4, <2>1, <3>1
  <2>3. CASE ~ (k <= r)
    <3>1. {h \in DOMAIN g : h <= r} = {h \in DOMAIN f : h <= r}
      BY <1>3, <2>3
    <3> QED BY <2>1, <3>1
  <2> QED BY <2>2, <2>3
<1>7. \A h \in DOMAIN g : g[h] \in Block /\ Height[g[h]] = h
  BY <1>1, <1>2, <1>3 DEF Rows
<1> QED BY <1>3, <1>5, <1>6, <1>7 DEF Rows, f, g

\* So does a rewind.
LEMMA RowsRewind ==
    ASSUME NEW d, NEW r \in Int, IsDb(d), Rows(d.blocks)
    PROVE  Rows(Rewind(d, r).blocks)
<1> DEFINE f == d.blocks
           g == Rewind(d, r).blocks
<1>1. g = [h \in DOMAIN f \ {i \in DOMAIN f : i > r} |-> f[h]]
  BY RewindBlocks
<1> HIDE DEF f, g
<1>2. Rows(f)
  BY DEF f
<1>3. DOMAIN g = {h \in DOMAIN f : h <= r}
  BY <1>1, <1>2 DEF Rows
<1>4. TopIn(DOMAIN g)
  BY <1>2, <1>3 DEF Rows
<1>5. ASSUME NEW q \in Int PROVE TopIn({h \in DOMAIN g : h <= q})
  <2>1. CASE q <= r
    <3>1. {h \in DOMAIN g : h <= q} = {h \in DOMAIN f : h <= q}
      BY <1>2, <1>3, <2>1 DEF Rows
    <3> QED BY <1>2, <3>1 DEF Rows
  <2>2. CASE r <= q
    <3>1. {h \in DOMAIN g : h <= q} = DOMAIN g
      BY <1>2, <1>3, <2>2 DEF Rows
    <3> QED BY <1>4, <3>1
  <2> QED BY <2>1, <2>2
<1>6. DOMAIN g \subseteq Nat /\ \A h \in DOMAIN g : g[h] \in Block /\ Height[g[h]] = h
  BY <1>1, <1>2, <1>3 DEF Rows
<1> QED BY <1>4, <1>5, <1>6 DEF Rows, g

-------------------------------------------------------------------------------
(* The invariant that survives every fault: the types, and that the open
   transaction only adds blocks to the committed ones. *)

StoreInv ==
    /\ TypeOK
    /\ IsDb(db) /\ Rows(db.blocks)
    /\ IsDb(saved) /\ Rows(saved.blocks)
    /\ DOMAIN saved.blocks \subseteq DOMAIN db.blocks
    /\ pc = "check" => saved.blocks = db.blocks

\* What planning a batch establishes.
LEMMA PlanTypes ==
    ASSUME TypeOK, NEW k \in Int, k >= -1, PlanBatch(k)
    PROVE  /\ next' = k + 1 /\ next' \in Nat
           /\ last' \in Int
           /\ pc' \in {"block", "idle"}
           /\ tip' = tip /\ block' = block /\ n' = n /\ stop' = stop /\ best' = best
  BY IndexerAssumption DEF PlanBatch, TypeOK

LEMMA StoreInit == Init => StoreInv
<1> SUFFICES ASSUME Init PROVE StoreInv
  OBVIOUS
<1>1. db = EmptyDb /\ saved = EmptyDb /\ pc = "down" /\ best \in Block /\ block \in Block
  BY DEF Init, NodeInit
<1>2. IsDb(EmptyDb) /\ EmptyDb.blocks = EmptyTable /\ DOMAIN EmptyTable = {}
  BY DEF IsDb, EmptyDb, EmptyTable
<1>3. Rows(EmptyTable)
  <2>1. \A r \in Int : {h \in DOMAIN EmptyTable : h <= r} = {}
    BY <1>2
  <2> QED BY <1>2, <2>1 DEF Rows, TopIn
<1>4. faults \in Seq(FaultNames) /\ Len(faults) <= MaxFaults
  BY IndexerAssumption DEF Init
<1>5. tip \in Int /\ next \in Nat /\ last \in Int /\ n \in Nat
  BY DEF Init
<1>6. pc \in PCs /\ stop \in BOOLEAN
  BY Zenon DEF Init, PCs
<1>7. TypeOK
  BY <1>1, <1>2, <1>4, <1>5, <1>6 DEF TypeOK
<1> QED BY <1>1, <1>2, <1>3, <1>7 DEF StoreInv

\* Every step keeps it.
LEMMA StoreStep ==
    ASSUME StoreInv, [Next]_vars
    PROVE  StoreInv'
<1> USE DEF StoreInv
<1> DEFINE FaultsOK == faults \in Seq(FaultNames) /\ Len(faults) <= MaxFaults
<1>t. /\ best \in Block /\ block \in Block /\ FaultsOK
      /\ tip \in Int /\ next \in Nat /\ last \in Int /\ n \in Nat
      /\ pc \in PCs /\ stop \in BOOLEAN
  BY DEF TypeOK
<1>f. ASSUME NEW f, Fault(f) PROVE FaultsOK'
  BY <1>t, <1>f, IndexerAssumption DEF Fault
<1>u. ASSUME UNCHANGED faults PROVE FaultsOK'
  BY <1>t, <1>u
\* What is left to show of a step.
<1>r. ASSUME best' \in Block, block' \in Block, FaultsOK',
             tip' \in Int, next' \in Nat, last' \in Int, n' \in Nat,
             pc' \in PCs, stop' \in BOOLEAN, Rows(db'.blocks), Rows(saved'.blocks)
      PROVE  TypeOK'
  BY <1>r DEF TypeOK, Rows
<1> HIDE DEF FaultsOK
<1>1. CASE NodeNext
  <2>1. best' \in Block
    BY <1>1, <1>t, NodeType DEF NodeNext, NodeGrows, NodeReorgs, NodeRetreats
  <2>2. UNCHANGED <<db, saved, pc, tickVars, stop>> /\ FaultsOK'
    BY <1>1, <1>t, <1>f, <1>u DEF NodeNext, NodeGrows, NodeReorgs, NodeRetreats
  <2> QED BY <2>1, <2>2, <1>t, <1>r DEF tickVars
<1>2. CASE Start
  <2>1. IsDb(db') /\ db'.blocks = db.blocks /\ saved' = db'
    BY <1>2, RepairBlocks DEF Start
  <2> QED BY <1>2, <2>1, <1>t, <1>u, <1>r DEF Start, tickVars, PCs
<1>3. CASE Stop
  BY <1>3, <1>t, <1>f, <1>r DEF Stop, tickVars
<1>4. CASE Exit
  BY <1>4, <1>t, <1>u, <1>r DEF Exit, tickVars, PCs
<1>5. CASE Crash
  BY <1>5, <1>t, <1>f, <1>r DEF Crash, tickVars, PCs
<1>6. CASE TickHead
  <2>1. IsDb(db') /\ db'.blocks = db.blocks /\ saved' = db'
    BY <1>6, RepairBlocks DEF TickHead
  <2>2. tip' \in Int
    BY <1>6, <1>t, PathAssumption DEF TickHead
  <2> QED BY <1>6, <2>1, <2>2, <1>t, <1>u, <1>r DEF TickHead, PCs
<1>i. IndexedHeight(db.blocks) \in Int /\ IndexedHeight(db.blocks) >= -1
  BY HeightOfRows
<1>7. ASSUME PlanBatch(IndexedHeight(db.blocks)), UNCHANGED <<db, saved>>, FaultsOK'
      PROVE  StoreInv'
  BY <1>7, <1>i, <1>t, <1>r, PlanTypes DEF PCs
<1>8. CASE CheckAgrees
  BY <1>8, <1>7, <1>t, <1>u DEF CheckAgrees
<1>9. CASE CheckFails
  BY <1>9, <1>7, <1>t, <1>u, <1>f DEF CheckFails
<1>10. CASE CheckRewinds
  <2> DEFINE k == IndexedHeight(db.blocks)
  <2>1. k \in Nat
    BY <1>10, <1>t, NodeAnswers DEF CheckRewinds
  <2>2. RewindTo(k) \in Int
    BY <2>1, RewindToRange
  <2>3. IsDb(db') /\ Rows(db'.blocks) /\ saved' = db' /\ UNCHANGED faults
    BY <1>10, <2>2, RowsRewind, RewindBlocks DEF CheckRewinds
  <2>4. PlanBatch(IndexedHeight(db'.blocks))
    BY <1>10 DEF CheckRewinds
  <2>5. IndexedHeight(db'.blocks) \in Int /\ IndexedHeight(db'.blocks) >= -1
    BY <2>3, HeightOfRows
  <2>6. next' \in Nat /\ last' \in Int /\ pc' \in {"block", "idle"}
        /\ tip' = tip /\ block' = block /\ n' = n /\ stop' = stop /\ best' = best
    BY <2>4, <2>5, PlanTypes
  <2> QED BY <2>3, <2>6, <1>t, <1>u, <1>r DEF PCs
<1>11. CASE FetchBlock
  <2>1. block' \in Block /\ Height[block'] = next
    BY <1>11, <1>t, NodeAnswers DEF FetchBlock
  <2>2. IsDb(db')
    BY <1>11, PutBlockBlocks DEF FetchBlock
  <2>3. Rows(db'.blocks) /\ DOMAIN db.blocks \subseteq DOMAIN db'.blocks
    BY <1>11, <2>1, <1>t, RowsPut DEF FetchBlock
  <2> QED BY <1>11, <2>1, <2>2, <2>3, <1>t, <1>u, <1>r DEF FetchBlock, PCs
<1>12. CASE FetchFails
  BY <1>12, <1>t, <1>f, <1>u, <1>r DEF FetchFails, tickVars, PCs
<1>13. CASE BatchStops
  BY <1>13, <1>t, <1>u, <1>r DEF BatchStops, tickVars, PCs
<1>14. CASE WriteTx
  <2>1. IsDb(db') /\ db'.blocks = db.blocks
    BY <1>14, IndexTxBlocks DEF WriteTx
  <2> QED BY <1>14, <2>1, <1>t, <1>u, <1>r DEF WriteTx, PCs
<1>15. CASE BlockDone
  <2>1. next' \in Nat /\ pc' \in {"block", "commit"}
    BY <1>15, <1>t DEF BlockDone
  <2> QED BY <1>15, <2>1, <1>t, <1>u, <1>r DEF BlockDone, PCs
<1>16. CASE Commit
  BY <1>16, <1>t, <1>u, <1>r DEF Commit, tickVars, PCs
<1>17. CASE TickAborts
  BY <1>17, <1>t, <1>f, <1>r DEF TickAborts, tickVars, PCs
<1>18. CASE ConnectionReplaced
  BY <1>18, <1>t, <1>f, <1>r DEF ConnectionReplaced, tickVars
<1>19. CASE UNCHANGED vars
  BY <1>19, <1>t, <1>u, <1>r DEF vars, tickVars
<1> QED
  BY <1>1, <1>2, <1>3, <1>4, <1>5, <1>6, <1>8, <1>9, <1>10, <1>11, <1>12, <1>13, <1>14,
     <1>15, <1>16, <1>17, <1>18, <1>19 DEF Next, Tick

LEMMA StoreInvariant == Spec => []StoreInv
<1>1. StoreInv /\ [Next]_vars => StoreInv'
  BY StoreStep
<1> QED BY <1>1, StoreInit, PTL DEF Spec

\* The variables keep their types, whatever fails.
THEOREM Spec_TypeOK == Spec => []TypeOK
<1>1. StoreInv => TypeOK
  BY DEF StoreInv
<1> QED BY <1>1, StoreInvariant, PTL

\* Blocks are dropped only when the last one has left the node's chain.
LEMMA DropStep ==
    ASSUME StoreInv, [Next]_vars, ~ (DOMAIN saved.blocks \subseteq DOMAIN saved'.blocks)
    PROVE  saved.blocks[IndexedHeight(saved.blocks)]
              \notin {Path[best][h] : h \in 0 .. Height[best]}
<1> USE DEF StoreInv
<1>t. best \in Block /\ IsDb(db)
  BY DEF TypeOK
<1>1. CheckRewinds
  <2>1. CASE Start \/ TickHead \/ Commit
    <3>1. saved'.blocks = db.blocks
      BY <2>1, <1>t, RepairBlocks DEF Start, TickHead, Commit
    <3> QED BY <3>1
  <2>2. CASE UNCHANGED saved
    BY <2>2
  <2> QED BY <2>1, <2>2
          DEF Next, Tick, NodeNext, NodeGrows, NodeReorgs, NodeRetreats, Stop, Exit, Crash,
              CheckAgrees, CheckFails, FetchBlock, FetchFails, BatchStops, WriteTx, BlockDone,
              TickAborts, ConnectionReplaced, vars
<1> DEFINE k == IndexedHeight(db.blocks)
<1>2. saved.blocks = db.blocks /\ HasHeight(k) /\ db.blocks[k] # Path[best][k]
  BY <1>1 DEF CheckRewinds, BlockAt
<1>3. k \in Nat /\ DOMAIN db.blocks # {}
  <2>1. DOMAIN saved.blocks # {}
    OBVIOUS
  <2> QED BY <1>2, <1>t, <2>1, NodeAnswers
<1>4. Height[db.blocks[k]] = k
  BY <1>3, HeightOfRows DEF Rows
<1> HIDE DEF k
<1>5. ASSUME NEW h \in 0 .. Height[best], Path[best][h] = db.blocks[k] PROVE FALSE
  <2>1. Height[Path[best][h]] = h
    BY <1>t, PathAssumption
  <2> QED BY <1>2, <1>4, <1>5, <2>1
<1> QED BY <1>2, <1>5 DEF k

\* No stop, crash, failed call or lost transaction loses a committed block.
THEOREM Spec_DropsOnlyStale == Spec => DropsOnlyStale
<1> DEFINE Drop == ~ (DOMAIN saved.blocks \subseteq DOMAIN saved'.blocks) =>
              saved.blocks[IndexedHeight(saved.blocks)]
                 \notin {Path[best][h] : h \in 0 .. Height[best]}
<1>1. StoreInv /\ [Next]_vars => [Drop]_vars
  BY DropStep
<1> QED BY <1>1, StoreInvariant, PTL DEF Spec, DropsOnlyStale

-------------------------------------------------------------------------------
(* What has happened *)

\* Every step leaves the list of faults, or adds one of the faults that may
\* happen.
LEMMA FaultsGrow ==
    ASSUME [Next]_vars
    PROVE  faults' = faults \/ \E f \in Faults : Fault(f)
  BY DEF Next, Tick, NodeNext, NodeGrows, NodeReorgs, NodeRetreats, Start, Stop, Exit, Crash,
         TickHead, CheckAgrees, CheckRewinds, CheckFails, FetchBlock, FetchFails, BatchStops,
         WriteTx, BlockDone, Commit, TickAborts, ConnectionReplaced, vars, Fault

\* What has happened is not forgotten.
LEMMA Remembers ==
    ASSUME TypeOK, [Next]_vars, NEW names, Happened(names)
    PROVE  Happened(names)'
<1>1. PICK i \in DOMAIN faults : faults[i] \in names
  BY DEF Happened
<1>2. ASSUME NEW f \in Faults, Fault(f) PROVE i \in DOMAIN faults' /\ faults'[i] = faults[i]
  <2>1. faults \in Seq(FaultNames) /\ f \in FaultNames /\ faults' = Append(faults, f)
    BY <1>2, IndexerAssumption DEF TypeOK, Fault
  <2> QED BY <1>1, <2>1
<1>3. i \in DOMAIN faults' /\ faults'[i] = faults[i]
  BY <1>1, <1>2, FaultsGrow
<1> QED BY <1>1, <1>3 DEF Happened

\* A fault that happens has happened.
LEMMA HasHappened ==
    ASSUME TypeOK, NEW f, NEW names, Fault(f), f \in names
    PROVE  Happened(names)'
<1>1. faults \in Seq(FaultNames) /\ f \in FaultNames /\ faults' = Append(faults, f)
  BY IndexerAssumption DEF TypeOK, Fault
<1>2. Len(faults) + 1 \in DOMAIN faults' /\ faults'[Len(faults) + 1] = f
  BY <1>1
<1> QED BY <1>2 DEF Happened

\* A part of a finite set has no more elements.
LEMMA PartOfFinite ==
    ASSUME NEW T, IsFiniteSet(T), NEW S, S \subseteq T
    PROVE  /\ IsFiniteSet(S) /\ Cardinality(S) <= Cardinality(T)
           /\ Cardinality(S) \in Nat /\ Cardinality(T) \in Nat
<1>1. S \in SUBSET T
  OBVIOUS
<1>2. IsFiniteSet(S) /\ Cardinality(S) <= Cardinality(T)
  BY <1>1, FS_Subset
<1> QED BY <1>2, FS_CardinalityType

\* How often a fault has happened is a number, and a fault that happens is one
\* more.
LEMMA Counts ==
    ASSUME TypeOK, NEW f
    PROVE  /\ Count(f) \in Nat
           /\ Fault(f) => Count(f)' = Count(f) + 1
<1> DEFINE S == {i \in DOMAIN faults : faults[i] = f}
<1>1. faults \in Seq(FaultNames) /\ Len(faults) \in Nat /\ DOMAIN faults = 1 .. Len(faults)
  BY DEF TypeOK
<1>2. IsFiniteSet(S)
  <2>1. S \subseteq 1 .. Len(faults)
    BY <1>1
  <2>2. IsFiniteSet(1 .. Len(faults))
    BY <1>1, FS_Interval
  <2> HIDE DEF S
  <2> QED BY <2>1, <2>2, PartOfFinite
<1>3. Count(f) \in Nat
  BY <1>2, FS_CardinalityType DEF Count
<1>4. ASSUME Fault(f) PROVE Count(f)' = Count(f) + 1
  <2> DEFINE k == Len(faults) + 1
  <2>1. faults' = Append(faults, f) /\ f \in FaultNames
    BY <1>4, IndexerAssumption DEF Fault
  <2>2. DOMAIN faults' = (1 .. Len(faults)) \cup {k} /\ faults'[k] = f
        /\ \A i \in 1 .. Len(faults) : faults'[i] = faults[i]
    BY <1>1, <2>1
  <2>3. {i \in DOMAIN faults' : faults'[i] = f} = S \cup {k}
    BY <1>1, <2>2
  <2>4. k \notin S
    BY <1>1
  <2> HIDE DEF k, S
  <2>5. Cardinality(S \cup {k}) = Cardinality(S) + 1
    BY <1>2, <2>4, FS_AddElement
  <2> QED BY <2>3, <2>5 DEF Count, S
<1> QED BY <1>3, <1>4

\* The count of a fault never falls.
LEMMA CountGrows ==
    ASSUME TypeOK, [Next]_vars, NEW f
    PROVE  Count(f)' >= Count(f)
<1> DEFINE S == {i \in DOMAIN faults : faults[i] = f}
           T == {i \in DOMAIN faults' : faults'[i] = f}
<1>1. CASE faults' = faults
  <2>1. Count(f)' = Count(f)
    BY <1>1 DEF Count
  <2> QED BY <2>1, Counts
<1>2. ASSUME NEW g \in Faults, Fault(g) PROVE Count(f)' >= Count(f)
  <2>1. /\ faults \in Seq(FaultNames) /\ faults' \in Seq(FaultNames)
        /\ faults' = Append(faults, g)
    BY <1>2, IndexerAssumption DEF TypeOK, Fault
  <2>2. S \subseteq T /\ T \subseteq 1 .. Len(faults') /\ Len(faults') \in Nat
    BY <2>1
  <2>3. IsFiniteSet(1 .. Len(faults'))
    BY <2>2, FS_Interval
  <2> HIDE DEF S, T
  <2>4. Cardinality(S) <= Cardinality(T)
    BY <2>2, <2>3, PartOfFinite
  <2> QED BY <2>4 DEF Count, S, T
<1> QED BY <1>1, <1>2, FaultsGrow

\* What cannot happen never does.
LEMMA StaysCalm ==
    ASSUME CalmFaults
    PROVE  Spec => []Calm
<1>1. Init => Calm
  BY DEF Init, Calm, Happened
<1>2. TypeOK /\ [Next]_vars /\ Calm => Calm'
  <2> SUFFICES ASSUME TypeOK, [Next]_vars, Calm PROVE Calm'
    OBVIOUS
  <2>1. CASE faults' = faults
    BY <2>1 DEF Calm, Happened
  <2>2. ASSUME NEW f \in Faults, Fault(f) PROVE Calm'
    <3>1. faults \in Seq(FaultNames) /\ f \in FaultNames /\ faults' = Append(faults, f)
      BY <2>2, IndexerAssumption DEF TypeOK, Fault
    <3>2. \A i \in DOMAIN faults' : faults'[i] = f \/ (i \in DOMAIN faults /\ faults'[i] = faults[i])
      BY <3>1
    <3>3. f \notin Disruptive
      BY DEF CalmFaults
    <3> QED BY <3>2, <3>3 DEF Calm, Happened
  <2> QED BY <2>1, <2>2, FaultsGrow
<1> QED BY <1>1, <1>2, Spec_TypeOK, PTL DEF Spec

-------------------------------------------------------------------------------
(* The committed index has no gap.  A batch always puts its next block on the
   top of the table: that is what the last two conjuncts say, and Contiguous is
   not inductive without them. *)

Gapless ==
    /\ Run(db.blocks) /\ Run(saved.blocks)
    /\ pc = "block" => RunTo(db.blocks, next - 1)
    /\ pc = "tx" => RunTo(db.blocks, next)

Kept == ~ Happened({"conndrop"})

GaplessInv == StoreInv /\ (Kept => Gapless)

LEMMA GaplessInit == Init => GaplessInv
<1> SUFFICES ASSUME Init PROVE Gapless
  BY StoreInit DEF GaplessInv
<1>1. DOMAIN EmptyTable = 0 .. -1
  BY DEF EmptyTable
<1>2. RunTo(EmptyTable, -1)
  BY <1>1 DEF RunTo
<1>3. Run(EmptyTable)
  BY <1>2 DEF Run
<1>4. db.blocks = EmptyTable /\ saved.blocks = EmptyTable /\ pc = "down"
  BY DEF Init, EmptyDb
<1> QED BY <1>3, <1>4 DEF Gapless

\* Without a lost transaction, every step keeps the tables without a gap.
LEMMA GaplessStep ==
    ASSUME StoreInv, Gapless, Kept', [Next]_vars
    PROVE  Gapless'
<1> USE DEF Gapless
<1>t. /\ best \in Block /\ next \in Nat /\ TypeOK /\ IsDb(db) /\ IsDb(saved)
  BY DEF StoreInv, TypeOK
<1>1. CASE NodeNext \/ Stop \/ UNCHANGED vars
  <2>1. UNCHANGED <<db, saved, pc, next>>
    BY <1>1 DEF NodeNext, NodeGrows, NodeReorgs, NodeRetreats, Stop, vars, tickVars
  <2> QED BY <2>1
<1>2. CASE Start \/ TickHead
  <2>1. db'.blocks = db.blocks /\ saved' = db' /\ pc' \in {"idle", "check"}
    BY <1>2, <1>t, RepairBlocks DEF Start, TickHead
  <2> QED BY <2>1
<1>3. CASE Exit \/ Crash
  BY <1>3 DEF Exit, Crash
<1>k. PICK k \in Int : k >= -1 /\ RunTo(db.blocks, k)
  BY DEF Run
<1>i. IndexedHeight(db.blocks) = k
  BY <1>k, HeightOfRun DEF RunTo
<1>4. CASE CheckAgrees \/ CheckFails
  <2>1. PlanBatch(k) /\ UNCHANGED <<db, saved>>
    BY <1>4, <1>i DEF CheckAgrees, CheckFails
  <2>2. next' = k + 1 /\ next' - 1 = k /\ pc' \in {"block", "idle"}
    BY <2>1, <1>k, <1>t, PlanTypes
  <2> QED BY <2>1, <2>2, <1>k
<1>5. CASE CheckRewinds
  <2>1. k \in Nat
    BY <1>5, <1>i, <1>t, NodeAnswers DEF CheckRewinds
  <2> DEFINE r == RewindTo(k)
  <2>2. r \in Int /\ r >= -1 /\ r <= k
    BY <2>1, RewindToRange
  <2>3. RunTo(db'.blocks, r) /\ saved' = db'
    BY <1>5, <1>i, <1>k, <1>t, <2>2, RewindRun DEF CheckRewinds
  <2>4. IndexedHeight(db'.blocks) = r
    BY <2>2, <2>3, HeightOfRun DEF RunTo
  <2>5. PlanBatch(r)
    BY <1>5, <2>4 DEF CheckRewinds
  <2> HIDE DEF r
  <2>6. next' = r + 1 /\ next' - 1 = r /\ pc' \in {"block", "idle"}
    BY <2>2, <2>5, <1>t, PlanTypes
  <2> QED BY <2>2, <2>3, <2>6 DEF Run
<1>6. CASE FetchBlock
  <2>1. block' \in Block /\ Height[block'] = next
    BY <1>6, <1>t, NodeAnswers DEF FetchBlock
  <2>2. RunTo(db'.blocks, next)
    BY <1>6, <2>1, <1>t, PutOnRun DEF FetchBlock
  <2> QED BY <1>6, <2>2, <1>t DEF FetchBlock, Run
<1>7. CASE FetchFails \/ BatchStops \/ TickAborts
  BY <1>7 DEF FetchFails, BatchStops, TickAborts
<1>8. CASE WriteTx
  <2>1. db'.blocks = db.blocks
    BY <1>8, <1>t, IndexTxBlocks DEF WriteTx
  <2> QED BY <1>8, <2>1 DEF WriteTx
<1>9. CASE BlockDone
  <2>1. next' - 1 = next /\ pc' \in {"block", "commit"} /\ pc = "tx" /\ UNCHANGED <<db, saved>>
    BY <1>9, <1>t DEF BlockDone
  <2> QED BY <2>1
<1>10. CASE Commit
  BY <1>10 DEF Commit
<1>11. CASE ConnectionReplaced
  BY <1>11, <1>t, HasHappened DEF ConnectionReplaced, Kept
<1> QED
  BY <1>1, <1>2, <1>3, <1>4, <1>5, <1>6, <1>7, <1>8, <1>9, <1>10, <1>11 DEF Next, Tick

LEMMA GaplessInvariant == Spec => []GaplessInv
<1>1. GaplessInv /\ [Next]_vars => GaplessInv'
  <2> SUFFICES ASSUME GaplessInv, [Next]_vars, Kept' PROVE Gapless'
    BY StoreStep DEF GaplessInv
  <2>1. Kept
    BY Remembers DEF Kept, GaplessInv, StoreInv
  <2> QED BY <2>1, GaplessStep DEF GaplessInv
<1> QED BY <1>1, GaplessInit, PTL DEF Spec

\* The committed index has no gap, through every branch switch of the node,
\* failed call, aborted tick, stop and crash, as long as no open transaction is
\* lost in mid-tick.
THEOREM Spec_Contiguous == Spec => []Contiguous
<1>1. GaplessInv => Contiguous
  <2> SUFFICES ASSUME GaplessInv, Kept PROVE NoGap
    BY DEF Contiguous, Kept
  <2>1. PICK k \in Int : k >= -1 /\ RunTo(saved.blocks, k)
    BY DEF GaplessInv, Gapless, Run
  <2> QED BY <2>1, HeightOfRun DEF RunTo, NoGap
<1> QED BY <1>1, GaplessInvariant, PTL

-------------------------------------------------------------------------------
(* The index is one chain, and implements module BlockIndex.  As long as the
   disruptive faults stay away, both tables are paths of the tree, the working
   table extends the committed one, and the thread knows of the node's chain
   what its batch needs. *)

IsPath(blocks) == blocks = EmptyTable \/ \E b \in Block : blocks = Path[b]

\* The block at height h of the working table is the node's.
Agrees(h) == HasHeight(h) /\ db.blocks[h] = BlockAt(h)

Chained ==
    /\ IsPath(db.blocks) /\ IsPath(saved.blocks)
    /\ Index!IsPrefix(saved.blocks, db.blocks)
    /\ pc = "check" => saved.blocks = db.blocks /\ tip <= Height[best]
    /\ pc = "block" /\ next > 0 => Agrees(next - 1)
    /\ pc = "tx" => Agrees(next)

ChainInv == GaplessInv /\ (Calm => Chained)

\* A path is a table from 0 to the height of its last block.
LEMMA PathDomain ==
    ASSUME NEW b \in Block
    PROVE  /\ Height[b] \in Nat
           /\ DOMAIN Path[b] = 0 .. Height[b]
           /\ Path[b][Height[b]] = b
           /\ Path[b] = [h \in 0 .. Height[b] |-> Path[b][h]]
  BY PathAssumption

\* A path cut down to one of its heights is the path of the block there.
LEMMA CutPath ==
    ASSUME NEW b \in Block, NEW r \in 0 .. Height[b]
    PROVE  /\ Path[b][r] \in Block /\ Height[Path[b][r]] = r
           /\ [h \in 0 .. r |-> Path[b][h]] = Path[Path[b][r]]
<1>1. Path[b][r] \in Block /\ Height[Path[b][r]] = r
  BY PathAssumption
<1>2. \A h \in 0 .. r : Path[Path[b][r]][h] = Path[b][h]
  BY PathAssumption
<1>3. Path[Path[b][r]] = [h \in 0 .. r |-> Path[Path[b][r]][h]]
  BY <1>1, PathDomain
<1> QED BY <1>1, <1>2, <1>3

\* A table that is a path of height k, k >= 0, is the path of its last block.
LEMMA TopOfPath ==
    ASSUME NEW f, NEW k \in Nat, IsPath(f), DOMAIN f = 0 .. k
    PROVE  f[k] \in Block /\ Height[f[k]] = k /\ f = Path[f[k]]
<1>1. f # EmptyTable
  <2>1. 0 \in DOMAIN f
    OBVIOUS
  <2> QED BY <2>1 DEF EmptyTable
<1>2. PICK b \in Block : f = Path[b]
  BY <1>1 DEF IsPath
<1>3. 0 .. Height[b] = 0 .. k /\ Height[b] \in Nat
  BY <1>2, PathDomain
<1>4. Height[b] = k
  BY <1>3
<1> QED BY <1>2, <1>4, PathDomain

\* The next block of the node's chain on a path whose last block is on it.
LEMMA PutOnPath ==
    ASSUME best \in Block, NEW d, NEW k \in Nat, IsDb(d), IsPath(d.blocks), HasHeight(k),
           DOMAIN d.blocks = 0 .. k - 1,
           k > 0 => d.blocks[k - 1] = BlockAt(k - 1)
    PROVE  /\ PutBlock(d, k, BlockAt(k)).blocks = Path[BlockAt(k)]
           /\ Index!IsPrefix(d.blocks, PutBlock(d, k, BlockAt(k)).blocks)
<1> DEFINE new == PutBlock(d, k, BlockAt(k)).blocks
<1>1. DOMAIN d.blocks \cup {k} = 0 .. k
  OBVIOUS
<1>2. new = [h \in 0 .. k |-> IF h = k THEN BlockAt(k) ELSE d.blocks[h]]
  <2>1. new = [h \in DOMAIN d.blocks \cup {k} |-> IF h = k THEN BlockAt(k) ELSE d.blocks[h]]
    BY DEF PutBlock, Upsert, IsDb
  <2> QED BY <2>1, <1>1
<1> HIDE DEF new
<1>3. Height[best] \in Nat /\ k \in 0 .. Height[best]
  BY PathDomain DEF HasHeight
<1>4. ASSUME NEW h \in 0 .. k - 1 PROVE d.blocks[h] = Path[best][h]
  <2>1. k - 1 \in Nat /\ k - 1 \in 0 .. Height[best] /\ k > 0
    BY <1>3
  <2>2. d.blocks = Path[d.blocks[k - 1]]
    BY <2>1, TopOfPath
  <2>3. d.blocks = Path[Path[best][k - 1]]
    BY <2>1, <2>2 DEF BlockAt
  <2> QED BY <2>1, <2>3, PathAssumption
<1>5. \A h \in 0 .. k : h # k => h \in 0 .. k - 1
  OBVIOUS
<1>6. \A h \in 0 .. k : new[h] = Path[best][h]
  BY <1>2, <1>4, <1>5 DEF BlockAt
<1>7. new = [h \in 0 .. k |-> Path[best][h]]
  BY <1>2, <1>6
<1>8. new = Path[BlockAt(k)]
  BY <1>7, <1>3, CutPath DEF BlockAt
<1>9. Index!IsPrefix(d.blocks, new)
  <2>1. \A h \in 0 .. k - 1 : h \in 0 .. k /\ h # k
    OBVIOUS
  <2> QED BY <2>1, <1>2 DEF Index!IsPrefix
<1> QED BY <1>8, <1>9 DEF new

LEMMA ChainInit == Init => ChainInv
<1> SUFFICES ASSUME Init PROVE ChainInv
  OBVIOUS
<1>1. db.blocks = EmptyTable /\ saved.blocks = EmptyTable
  BY DEF Init, EmptyDb
<1>2. IsPath(EmptyTable) /\ Index!IsPrefix(EmptyTable, EmptyTable)
  BY DEF IsPath, Index!IsPrefix
<1>3. pc = "down"
  BY DEF Init
<1> QED BY <1>1, <1>2, <1>3, GaplessInit DEF ChainInv, Chained
\* The node's chain keeps what it has in common with the index when it grows.
LEMMA GrowthKeeps ==
    ASSUME best \in Block, best' \in Block, NEW h, HasHeight(h), OnChain(best, best')
    PROVE  HasHeight(h)' /\ Path[best'][h] = Path[best][h]
<1>1. Height[best] \in Nat /\ Height[best'] \in Nat /\ h \in 0 .. Height[best]
  BY PathDomain DEF HasHeight
<1>2. Height[best] \in 0 .. Height[best'] /\ Path[best'][Height[best]] = best
  BY <1>1 DEF OnChain
<1>3. Path[Path[best'][Height[best]]][h] = Path[best'][h]
  BY <1>1, <1>2, PathAssumption
<1> QED BY <1>1, <1>2, <1>3 DEF HasHeight

\* A rewind after a mismatch keeps blocks of the node's chain only.
LEMMA RewindToNode ==
    ASSUME ShallowForks, best \in Block, NEW k \in Nat, HasHeight(k),
           IsDb(db), IsPath(db.blocks), RunTo(db.blocks, k)
    PROVE  /\ IsPath(Rewind(db, RewindTo(k)).blocks)
           /\ Index!IsPrefix(Rewind(db, RewindTo(k)).blocks, db.blocks)
           /\ RewindTo(k) >= 0 =>
                  /\ HasHeight(RewindTo(k))
                  /\ Rewind(db, RewindTo(k)).blocks[RewindTo(k)] = BlockAt(RewindTo(k))
<1> DEFINE r == RewindTo(k)
           x == db.blocks[k]
           new == Rewind(db, r).blocks
<1>1. r \in Int /\ r >= -1 /\ r <= k
  BY RewindToRange
<1>2. x \in Block /\ Height[x] = k /\ db.blocks = Path[x]
  BY TopOfPath DEF RunTo
<1>3. new = [h \in 0 .. r |-> db.blocks[h]]
  BY <1>1, RewindRun
<1> HIDE DEF new, r, x
<1>4. CASE r = -1
  <2>1. 0 .. r = {}
    BY <1>4
  <2>2. new = EmptyTable
    BY <1>3, <2>1 DEF EmptyTable
  <2> QED BY <1>4, <2>1, <2>2 DEF IsPath, Index!IsPrefix, EmptyTable, new, r
<1>5. CASE r >= 0
  <2>1. r \in 0 .. Height[x] /\ r \in 0 .. k
    BY <1>1, <1>2, <1>5
  <2>2. new = Path[Path[x][r]] /\ Path[x][r] \in Block
    BY <1>2, <1>3, <2>1, CutPath
  <2>3. Index!IsPrefix(new, db.blocks)
    <3>1. DOMAIN db.blocks = 0 .. k /\ 0 .. r \subseteq 0 .. k
      BY <1>1, <1>5 DEF RunTo
    <3> QED BY <1>3, <3>1 DEF Index!IsPrefix
  <2>4. r = Height[x] - Depth /\ Depth \in Nat /\ Depth <= k
    BY <1>1, <1>2, <1>5, IndexerAssumption DEF RewindTo, r
  <2>5. Height[best] \in Nat /\ k <= Height[best] /\ HasHeight(r)
    <3>1. Height[best] \in Nat
      BY PathDomain
    <3>2. k <= Height[best]
      BY <3>1 DEF HasHeight
    <3> QED BY <2>1, <3>1, <3>2 DEF HasHeight
  <2>6. Path[best][r] = Path[x][r]
    BY <1>2, <2>4, <2>5 DEF ShallowForks
  <2>7. new[r] = BlockAt(r)
    BY <1>2, <1>3, <2>1, <2>6, <1>5 DEF BlockAt
  <2> QED BY <2>2, <2>3, <2>5, <2>7 DEF IsPath, new, r
<1> QED BY <1>1, <1>4, <1>5

\* Calm faults include no lost transaction.
LEMMA CalmKept == Calm => Kept
  BY DEF Calm, Kept, Disruptive, Happened

\* On shallow forks a step that is no disruptive fault keeps the chain, and is a
\* step of the promised index.
LEMMA ChainStep ==
    ASSUME ShallowForks, StoreInv, Gapless, Chained, Calm', [Next]_vars
    PROVE  Chained' /\ [Index!Next]_(saved.blocks)
<1> USE DEF Chained
<1>c. ~ Fault("conndrop") /\ ~ Fault("check") /\ ~ Fault("midreorg")
  BY HasHappened DEF StoreInv, Calm, Disruptive
<1>g. StoreInv'
  BY StoreStep
<1>t. /\ best \in Block /\ best' \in Block /\ pc \in PCs
      /\ tip \in Int /\ next \in Nat /\ last \in Int /\ n \in Nat
      /\ IsDb(db) /\ IsDb(saved)
  BY <1>g DEF StoreInv, TypeOK
<1>h. Height[best] \in Nat /\ Height[best'] \in Nat
  BY <1>t, PathDomain
<1>k. PICK k \in Int : k >= -1 /\ RunTo(db.blocks, k)
  BY DEF Gapless, Run
<1>i. IndexedHeight(db.blocks) = k
  BY <1>k, HeightOfRun DEF RunTo
\* A committed table that extends the last one, or is extended by it.
<1>e. ASSUME IsPath(saved'.blocks),
             \/ Index!IsPrefix(saved.blocks, saved'.blocks)
             \/ Index!IsPrefix(saved'.blocks, saved.blocks)
      PROVE  Index!Next
  <2>1. saved'.blocks \in Index!Chains
    BY <1>e DEF IsPath, Index!Chains, Index!Empty, EmptyTable, None
  <2> QED BY <1>e, <2>1 DEF Index!Next, Index!Extend, Index!Truncate
<1>s. Index!IsPrefix(saved.blocks, saved.blocks) /\ Index!IsPrefix(db.blocks, db.blocks)
  BY DEF Index!IsPrefix
<1>1. CASE NodeNext
  <2>1. UNCHANGED <<db, saved, pc, tip, next>>
    BY <1>1 DEF NodeNext, NodeGrows, NodeReorgs, NodeRetreats, tickVars
  <2>2. CASE Mine
    <3>1. OnChain(best, best') /\ Height[best] <= Height[best']
      BY <2>2, <1>t DEF Mine, OnChain
    <3>2. \A j : Agrees(j) => Agrees(j)'
      BY <2>1, <3>1, <1>t, GrowthKeeps DEF Agrees, BlockAt
    <3> QED BY <1>g, <1>h, <1>t, <2>1, <3>1, <3>2
  <2>3. CASE Reorg /\ pc \in {"down", "idle", "check"}
    <3>1. Height[best'] > Height[best]
      BY <2>3 DEF Reorg
    <3> QED BY <1>g, <1>h, <1>t, <2>1, <2>3, <3>1
  <2>4. CASE Retreat /\ pc \in {"down", "idle"}
    BY <1>g, <2>1, <2>4
  <2> QED BY <1>1, <1>c, <2>2, <2>3, <2>4 DEF NodeNext, NodeGrows, NodeReorgs, NodeRetreats
<1>2. CASE Start \/ TickHead
  <2>1. db'.blocks = db.blocks /\ saved' = db'
    BY <1>2, <1>t, RepairBlocks DEF Start, TickHead
  <2>2. Index!Next
    BY <1>e, <2>1
  <2>3. pc' \in {"idle", "check"} /\ best' = best /\ (pc' = "check" => tip' = Height[best])
    BY <1>2 DEF Start, TickHead
  <2>4. Chained'
    BY <1>g, <1>h, <1>s, <2>1, <2>3
  <2> QED BY <2>2, <2>4
<1>3. CASE Stop
  BY <1>3, <1>g DEF Stop, tickVars, Agrees, HasHeight, BlockAt
<1>4. CASE Exit \/ Crash
  <2>1. db' = saved /\ saved' = saved /\ pc' = "down"
    BY <1>4 DEF Exit, Crash
  <2> QED BY <1>g, <1>s, <2>1
<1>5. ASSUME CheckAgrees \/ CheckFails
      PROVE  Chained' /\ UNCHANGED saved
  <2>1. /\ UNCHANGED <<db, saved, best, tip>> /\ PlanBatch(k)
    BY <1>5, <1>i DEF CheckAgrees, CheckFails, PlanBatch
  <2>2. next' = k + 1 /\ pc' \in {"block", "idle"}
    BY <2>1, <1>k, PlanTypes DEF StoreInv
  <2>3. CASE CheckAgrees
    <3>1. k >= 0 => Agrees(k)
      BY <2>3, <1>i DEF CheckAgrees, Agrees
    <3>2. next' - 1 = k /\ (next' > 0 => k >= 0)
      BY <2>2, <1>k
    <3>3. pc' = "block" /\ next' > 0 => Agrees(next - 1)'
      BY <3>1, <3>2, <2>1 DEF Agrees, HasHeight, BlockAt
    <3> QED BY <1>g, <2>1, <2>2, <3>3
  <2>4. CASE CheckFails
    <3>1. pc = "check" /\ k >= 0 /\ ~ HasHeight(k)
      BY <2>4, <1>i, <1>c DEF CheckFails
    <3>2. k > tip
      BY <3>1, <1>h, <1>t, <1>k DEF HasHeight
    <3>3. pc' = "idle"
      BY <2>1, <3>2, <1>t, <1>k, IndexerAssumption DEF PlanBatch
    <3> QED BY <1>g, <2>1, <3>3
  <2> QED BY <1>5, <2>1, <2>3, <2>4
<1>6. CASE CheckRewinds
  <2> DEFINE r == RewindTo(k)
  <2>1. HasHeight(k) /\ db' = Rewind(db, r) /\ saved' = db' /\ k \in Nat /\ pc = "check"
    BY <1>6, <1>i, <1>t, NodeAnswers DEF CheckRewinds
  <2>2. r \in Int /\ r >= -1 /\ r <= k
    BY <2>1, RewindToRange
  <2>3. /\ IsPath(db'.blocks) /\ Index!IsPrefix(db'.blocks, db.blocks)
        /\ r >= 0 => HasHeight(r) /\ db'.blocks[r] = BlockAt(r)
    BY <2>1, <1>t, <1>k, RewindToNode
  <2>4. RunTo(db'.blocks, r)
    BY <2>1, <2>2, <1>k, <1>t, RewindRun
  <2>5. IndexedHeight(db'.blocks) = r
    BY <2>2, <2>4, HeightOfRun DEF RunTo
  <2>6. PlanBatch(r)
    BY <1>6, <2>5 DEF CheckRewinds
  <2> HIDE DEF r
  <2>7. next' = r + 1 /\ pc' \in {"block", "idle"} /\ best' = best
    BY <2>2, <2>6, PlanTypes DEF StoreInv
  <2>8. pc' = "block" /\ next' > 0 => Agrees(next - 1)'
    <3>1. next' - 1 = r /\ (next' > 0 => r >= 0)
      BY <2>2, <2>7
    <3> QED BY <2>3, <2>7, <3>1 DEF Agrees, HasHeight, BlockAt
  <2>9. Index!Next
    BY <1>e, <2>1, <2>3
  <2>10. Index!IsPrefix(saved.blocks, db.blocks)'
    BY <2>1 DEF Index!IsPrefix
  <2> QED BY <1>g, <2>1, <2>3, <2>7, <2>8, <2>9, <2>10
<1>7. CASE FetchBlock
  <2>1. /\ pc = "block" /\ HasHeight(next) /\ UNCHANGED <<best, saved, next>> /\ pc' = "tx"
        /\ db' = PutBlock(db, next, BlockAt(next))
    BY <1>7 DEF FetchBlock
  <2>2. RunTo(db.blocks, next - 1)
    BY <2>1 DEF Gapless
  <2>3. next > 0 => db.blocks[next - 1] = BlockAt(next - 1)
    BY <2>1 DEF Agrees
  <2>4. db'.blocks = Path[BlockAt(next)] /\ Index!IsPrefix(db.blocks, db'.blocks)
    BY <2>1, <2>2, <2>3, <1>t, PutOnPath DEF RunTo
  <2>5. IsPath(db'.blocks)
    BY <2>1, <2>4, <1>t, NodeAnswers DEF IsPath
  <2>6. Index!IsPrefix(saved.blocks, db'.blocks)
    BY <2>4 DEF Index!IsPrefix
  <2>7. Agrees(next)'
    <3>1. BlockAt(next) \in Block /\ Height[BlockAt(next)] = next
      BY <2>1, <1>t, NodeAnswers
    <3>2. db'.blocks[next] = BlockAt(next)
      BY <2>4, <3>1, PathDomain
    <3> QED BY <2>1, <3>2 DEF Agrees, HasHeight, BlockAt
  <2> QED BY <1>g, <2>1, <2>5, <2>6, <2>7
<1>8. CASE FetchFails \/ BatchStops \/ TickAborts
  <2>1. UNCHANGED <<best, db, saved>> /\ pc' \in {"idle", "commit"}
    BY <1>8 DEF FetchFails, BatchStops, TickAborts
  <2> QED BY <1>g, <2>1
<1>9. CASE WriteTx
  <2>1. db'.blocks = db.blocks
    BY <1>9, <1>t, IndexTxBlocks DEF WriteTx
  <2>2. UNCHANGED <<best, saved, pc, next>> /\ pc = "tx"
    BY <1>9 DEF WriteTx
  <2> QED BY <1>g, <2>1, <2>2 DEF Agrees, HasHeight, BlockAt
<1>10. CASE BlockDone
  <2>1. /\ UNCHANGED <<best, db, saved>> /\ pc' \in {"block", "commit"} /\ pc = "tx"
        /\ next' = next + 1 /\ next' - 1 = next
    BY <1>10, <1>t DEF BlockDone
  <2> QED BY <1>g, <2>1 DEF Agrees, HasHeight, BlockAt
<1>11. CASE Commit
  <2>1. saved' = db /\ UNCHANGED <<best, db>> /\ pc' = "idle"
    BY <1>11 DEF Commit
  <2>2. Index!Next
    BY <1>e, <2>1
  <2> QED BY <1>g, <1>s, <2>1, <2>2
<1>12. CASE ConnectionReplaced
  BY <1>12, <1>c DEF ConnectionReplaced
<1>13. CASE UNCHANGED vars
  <2>1. UNCHANGED <<best, db, saved, pc, tip, next>>
    BY <1>13 DEF vars
  <2> QED BY <1>g, <2>1 DEF Agrees, HasHeight, BlockAt
<1> QED
  BY <1>1, <1>2, <1>3, <1>4, <1>5, <1>6, <1>7, <1>8, <1>9, <1>10, <1>11, <1>12, <1>13
  DEF Next, Tick
LEMMA ChainInvariant ==
    ASSUME ShallowForks
    PROVE  Spec => []ChainInv
<1>1. ChainInv /\ [Next]_vars /\ GaplessInv' => ChainInv'
  <2> SUFFICES ASSUME ChainInv, [Next]_vars, Calm' PROVE Chained'
    BY DEF ChainInv
  <2>1. Calm
    BY Remembers DEF Calm, ChainInv, GaplessInv, StoreInv
  <2> QED BY <2>1, CalmKept, ChainStep DEF ChainInv, GaplessInv
<1> QED BY <1>1, ChainInit, GaplessInvariant, PTL DEF Spec

\* The committed blocks are one chain of the node's tree.
THEOREM Spec_OneChain ==
    ASSUME ShallowForks
    PROVE  Spec => []OneChain
<1>1. ChainInv => OneChain
  BY DEF ChainInv, Chained, IsPath, OneChain
<1> QED BY <1>1, ChainInvariant, PTL

\* A batch starts on top of a block of the node's chain.
THEOREM Spec_RewoundToNode ==
    ASSUME ShallowForks
    PROVE  Spec => []RewoundToNode
<1>1. ChainInv => RewoundToNode
  <2> SUFFICES ASSUME ChainInv, Calm, pc = "block", IndexedHeight(db.blocks) >= 0
               PROVE  OnChain(db.blocks[IndexedHeight(db.blocks)], best)
    BY DEF RewoundToNode
  <2> DEFINE k == next - 1
  <2>1. next \in Nat /\ best \in Block /\ RunTo(db.blocks, k)
    BY CalmKept DEF ChainInv, GaplessInv, StoreInv, TypeOK, Gapless
  <2>2. IndexedHeight(db.blocks) = k /\ k >= 0
    BY <2>1, HeightOfRun DEF RunTo
  <2>3. HasHeight(k) /\ db.blocks[k] = Path[best][k]
    BY <2>1, <2>2 DEF ChainInv, Chained, Agrees, BlockAt
  <2>4. Height[db.blocks[k]] = k /\ Height[best] \in Nat
    <3>1. k \in 0 .. k
      BY <2>1, <2>2
    <3> QED BY <2>1, <3>1, PathDomain DEF RunTo
  <2> HIDE DEF k
  <2>5. k <= Height[best]
    BY <2>3, <2>4 DEF HasHeight
  <2> QED BY <2>2, <2>3, <2>4, <2>5 DEF OnChain
<1> QED BY <1>1, ChainInvariant, PTL

\* The indexer implements the promised index: commits extend one chain, or cut
\* it, and never do both.
THEOREM Spec_IndexSpec ==
    ASSUME ShallowForks, CalmFaults
    PROVE  Spec => IndexSpec
<1>1. Init => Index!Init
  BY DEF Init, EmptyDb, Index!Init, Index!Empty, EmptyTable, None
<1>2. ChainInv /\ [Next]_vars /\ Calm /\ Calm' => [Index!Next]_(saved.blocks)
  BY ChainStep, CalmKept DEF ChainInv, GaplessInv
<1> QED BY <1>1, <1>2, StaysCalm, ChainInvariant, PTL DEF Spec, IndexSpec, Index!Spec

-------------------------------------------------------------------------------
(* Gaps.  A lost transaction leaves out at most the rest of its batch: from
   then on the table may lack what it had above the committed height, and no
   batch goes further than Batch above that.  A batch that has lost nothing
   puts its blocks on the top of the table. *)

Missing(f) == (0 .. IndexedHeight(f)) \ DOMAIN f
Allowed == Batch * Count("conndrop")
Reach == IndexedHeight(saved.blocks) + Batch

OnTop ==
    /\ Missing(db.blocks) \subseteq Missing(saved.blocks)
    /\ pc = "block" => IndexedHeight(db.blocks) = next - 1
    /\ pc = "tx" => IndexedHeight(db.blocks) = next

Gaps ==
    /\ Cardinality(Missing(saved.blocks)) <= Allowed
    /\ Cardinality(Missing(db.blocks)) <= Allowed
    /\ pc \in {"block", "tx"} => next <= last
    /\ pc \in {"block", "tx", "commit"} =>
          /\ last <= Reach /\ \A h \in DOMAIN db.blocks : h <= Reach
          /\ OnTop \/ Cardinality(Missing(saved.blocks)) + Batch <= Allowed

\* The last height of a table is its indexed height.
LEMMA HeightIsTop ==
    ASSUME NEW f, Rows(f), NEW k \in DOMAIN f, \A j \in DOMAIN f : j <= k
    PROVE  IndexedHeight(f) = k
<1>1. IndexedHeight(f) \in DOMAIN f /\ \A j \in DOMAIN f : j <= IndexedHeight(f)
  BY DEF IndexedHeight
<1>2. k \in Nat /\ IndexedHeight(f) \in Nat
  BY <1>1 DEF Rows
<1> QED BY <1>1, <1>2

LEMMA BelowHeight ==
    ASSUME NEW f, Rows(f), NEW j \in DOMAIN f
    PROVE  j <= IndexedHeight(f)
<1>1. \E k \in DOMAIN f : \A i \in DOMAIN f : i <= k
  BY DEF Rows, TopIn
<1> QED BY <1>1, HeightIsTop

LEMMA MissingFinite ==
    ASSUME NEW f, Rows(f)
    PROVE  IsFiniteSet(Missing(f)) /\ Cardinality(Missing(f)) \in Nat
<1>1. IsFiniteSet(0 .. IndexedHeight(f))
  BY HeightOfRows, FS_Interval
<1> QED BY <1>1, PartOfFinite DEF Missing

\* A table with fewer gaps lacks no more rows.
LEMMA FewerGaps ==
    ASSUME NEW f, NEW g, Rows(f), Missing(g) \subseteq Missing(f)
    PROVE  Cardinality(Missing(g)) <= Cardinality(Missing(f))
<1> DEFINE M == Missing(f)
           N == Missing(g)
<1>1. IsFiniteSet(M) /\ N \subseteq M
  BY MissingFinite
<1> HIDE DEF M, N
<1>2. Cardinality(N) <= Cardinality(M)
  BY <1>1, PartOfFinite
<1> QED BY <1>2 DEF M, N

LEMMA HeightsAbove ==
    ASSUME NEW i \in Int, NEW b \in Nat
    PROVE  IsFiniteSet(i + 1 .. i + b) /\ Cardinality(i + 1 .. i + b) = b
<1>1. ASSUME NEW x \in Int, NEW y \in Int
      PROVE  /\ IsFiniteSet(x .. y)
             /\ Cardinality(x .. y) = IF x > y THEN 0 ELSE y - x + 1
  BY FS_Interval
<1> DEFINE x == i + 1
           y == i + b
<1>2. x \in Int /\ y \in Int /\ (x > y => b = 0) /\ y - x + 1 = b
  OBVIOUS
<1> HIDE DEF x, y
<1>3. IsFiniteSet(x .. y) /\ Cardinality(x .. y) = b
  BY <1>1, <1>2
<1> QED BY <1>3 DEF x, y

\* A table that keeps the rows of another, and has others up to Batch above,
\* lacks at most Batch more.
LEMMA BatchGaps ==
    ASSUME NEW s, NEW f, Rows(s), Rows(f), DOMAIN s \subseteq DOMAIN f,
           \A h \in DOMAIN f : h <= IndexedHeight(s) + Batch
    PROVE  Cardinality(Missing(f)) <= Cardinality(Missing(s)) + Batch
<1> DEFINE i == IndexedHeight(s)
           above == i + 1 .. i + Batch
           M == Missing(s)
<1>1. i \in Int /\ i >= -1 /\ Batch \in Nat
  BY HeightOfRows, IndexerAssumption
<1>2. IndexedHeight(f) \in Int /\ IndexedHeight(f) <= i + Batch
  <2>1. CASE DOMAIN f = {}
    BY <1>1, <2>1 DEF IndexedHeight
  <2>2. CASE DOMAIN f # {}
    BY <1>1, <2>2, HeightOfRows
  <2> QED BY <2>1, <2>2
<1>3. Missing(f) \subseteq M \cup above
  BY <1>1, <1>2 DEF Missing
<1>4. IsFiniteSet(above) /\ Cardinality(above) = Batch
  BY <1>1, HeightsAbove
<1>5. IsFiniteSet(M) /\ Cardinality(M) \in Nat
  BY MissingFinite
<1> HIDE DEF M, above, i
<1>6. IsFiniteSet(M \cup above)
      /\ Cardinality(M \cup above) = Cardinality(M) + Cardinality(above) - Cardinality(M \cap above)
  BY <1>4, <1>5, FS_Union
<1>7. Cardinality(M \cap above) \in Nat
  BY <1>5, PartOfFinite
<1>8. Cardinality(Missing(f)) <= Cardinality(M \cup above) /\ Cardinality(Missing(f)) \in Nat
  BY <1>3, <1>6, PartOfFinite
<1> QED BY <1>1, <1>4, <1>5, <1>6, <1>7, <1>8 DEF M

\* A block on the top of a table leaves no new gap.
LEMMA PutOnTop ==
    ASSUME NEW d, NEW k \in Nat, NEW b \in Block, IsDb(d), Rows(d.blocks), Height[b] = k,
           IndexedHeight(d.blocks) = k - 1
    PROVE  /\ IndexedHeight(PutBlock(d, k, b).blocks) = k
           /\ Missing(PutBlock(d, k, b).blocks) \subseteq Missing(d.blocks)
<1> DEFINE f == d.blocks
           g == PutBlock(d, k, b).blocks
<1>1. DOMAIN g = DOMAIN f \cup {k}
  BY DEF PutBlock, Upsert, IsDb
<1>2. Rows(g)
  BY RowsPut
<1>3. IndexedHeight(f) = k - 1 /\ \A j \in DOMAIN f : j \in Nat /\ j <= k - 1
  BY BelowHeight DEF Rows
<1> HIDE DEF f, g
<1>4. IndexedHeight(g) = k
  <2>1. k \in DOMAIN g /\ \A j \in DOMAIN g : j <= k
    BY <1>1, <1>3
  <2> QED BY <1>2, <2>1, HeightIsTop
<1>5. Missing(g) \subseteq Missing(f)
  BY <1>1, <1>3, <1>4 DEF Missing
<1> QED BY <1>4, <1>5 DEF f, g

\* A rewind leaves no new gap either.
LEMMA RewindGaps ==
    ASSUME NEW d, NEW r \in Int, IsDb(d), Rows(d.blocks)
    PROVE  Missing(Rewind(d, r).blocks) \subseteq Missing(d.blocks)
<1> DEFINE f == d.blocks
           g == Rewind(d, r).blocks
<1>1. g = [h \in DOMAIN f \ {i \in DOMAIN f : i > r} |-> f[h]]
  BY RewindBlocks
<1>2. Rows(g) /\ Rows(f)
  BY RowsRewind
<1> HIDE DEF f, g
<1>3. DOMAIN g = {h \in DOMAIN f : h <= r}
  BY <1>1, <1>2 DEF Rows
<1>4. ASSUME NEW x \in Missing(g) PROVE x \in Missing(f)
  <2>1. x \in 0 .. IndexedHeight(g) /\ x \notin DOMAIN g
    BY DEF Missing
  <2>2. IndexedHeight(g) \in Nat /\ IndexedHeight(g) \in DOMAIN g
    <3>1. IndexedHeight(g) \in Int /\ (DOMAIN g # {} => IndexedHeight(g) \in DOMAIN g)
      BY <1>2, HeightOfRows
    <3>2. DOMAIN g = {} => IndexedHeight(g) = -1
      BY DEF IndexedHeight
    <3>3. x >= 0 /\ x <= IndexedHeight(g) /\ x \in Int
      BY <2>1, <3>1
    <3> QED BY <3>1, <3>2, <3>3
  <2>3. IndexedHeight(g) \in DOMAIN f /\ IndexedHeight(g) <= r
    BY <1>3, <2>2
  <2>4. IndexedHeight(g) <= IndexedHeight(f) /\ IndexedHeight(f) \in Int
    BY <1>2, <2>3, BelowHeight, HeightOfRows
  <2>5. x \in 0 .. IndexedHeight(f) /\ x <= r
    BY <2>1, <2>2, <2>3, <2>4
  <2>6. x \notin DOMAIN f
    BY <1>3, <2>1, <2>5
  <2> QED BY <2>5, <2>6 DEF Missing
<1> QED BY <1>4 DEF f, g

\* What planning a batch on a table of height k bounds.
LEMMA PlanBounds ==
    ASSUME TypeOK, NEW k \in Int, k >= -1, PlanBatch(k)
    PROVE  last' <= k + Batch /\ (pc' = "block" => next' <= last')
  BY IndexerAssumption DEF PlanBatch, TypeOK

LEMMA ProductTyped ==
    ASSUME NEW x \in Nat, NEW y \in Nat, NEW z \in Nat, y <= z
    PROVE  x * y \in Nat /\ x * z \in Nat /\ x * y <= x * z
<1>1. \A u, v \in Nat : u * v \in Nat
  OBVIOUS
<1>2. z - y \in Nat
  OBVIOUS
<1>3. x * z = x * y + x * (z - y)
  OBVIOUS
<1>4. x * (z - y) \in Nat
  BY <1>1, <1>2
<1> QED BY <1>1, <1>3, <1>4

\* What is allowed grows by a batch when a transaction is lost.
LEMMA AllowedGrows ==
    ASSUME StoreInv, [Next]_vars
    PROVE  /\ Allowed \in Nat /\ Allowed' \in Nat /\ Allowed <= Allowed'
           /\ Fault("conndrop") => Allowed' = Allowed + Batch
<1> DEFINE c == Count("conndrop")
<1>1. c \in Nat /\ c' >= c /\ (Fault("conndrop") => c' = c + 1)
  BY Counts, CountGrows DEF StoreInv
<1>2. c' \in Nat
  <2>1. TypeOK'
    BY StoreStep DEF StoreInv
  <2>2. faults' \in Seq(FaultNames)
    BY <2>1 DEF TypeOK
  <2>3. /\ {i \in DOMAIN faults' : faults'[i] = "conndrop"} \subseteq 1 .. Len(faults')
        /\ Len(faults') \in Nat
    BY <2>2
  <2>4. IsFiniteSet(1 .. Len(faults'))
    BY <2>3, FS_Interval
  <2> QED BY <2>3, <2>4, PartOfFinite DEF Count
<1>3. Batch \in Nat
  BY IndexerAssumption
<1> HIDE DEF c
<1>4. Batch * c \in Nat /\ Batch * c' \in Nat
  BY <1>1, <1>2, <1>3, ProductTyped
<1>5. c' = c + 1 => Batch * c' = Batch * c + Batch
  BY <1>1, <1>3
<1>6. Batch * c <= Batch * c'
  BY <1>1, <1>2, <1>3, ProductTyped
<1> QED BY <1>1, <1>4, <1>5, <1>6 DEF Allowed, c

LEMMA GapsStep ==
    ASSUME StoreInv, Gaps, [Next]_vars
    PROVE  Gaps'
<1> DEFINE old == Cardinality(Missing(saved.blocks))
<1>t. /\ next \in Nat /\ last \in Int /\ best \in Block /\ TypeOK
      /\ IsDb(db) /\ IsDb(saved) /\ Rows(db.blocks) /\ Rows(saved.blocks)
      /\ DOMAIN saved.blocks \subseteq DOMAIN db.blocks
      /\ pc = "check" => saved.blocks = db.blocks
  BY DEF StoreInv, TypeOK
<1>u. /\ IsDb(db') /\ IsDb(saved') /\ Rows(db'.blocks) /\ Rows(saved'.blocks)
      /\ next' \in Nat /\ last' \in Int
  BY StoreStep DEF StoreInv, TypeOK
<1>a. /\ Allowed \in Nat /\ Allowed' \in Nat /\ Allowed <= Allowed'
      /\ Fault("conndrop") => Allowed' = Allowed + Batch
  BY AllowedGrows
<1>b. /\ old \in Nat /\ old <= Allowed
      /\ Cardinality(Missing(db.blocks)) \in Nat /\ Cardinality(Missing(db.blocks)) <= Allowed
  BY <1>t, MissingFinite DEF Gaps
<1>i. /\ Batch \in Nat
      /\ IndexedHeight(db.blocks) \in Int /\ IndexedHeight(saved.blocks) \in Int
      /\ IndexedHeight(saved.blocks) >= -1 /\ IndexedHeight(db.blocks) >= -1
  BY <1>t, HeightOfRows, IndexerAssumption
\* Nothing happens to the blocks or to the batch.
<1>1. ASSUME saved'.blocks = saved.blocks, db'.blocks = db.blocks, next' = next, last' = last,
             pc' = pc \/ pc' \notin {"block", "tx", "commit"}
      PROVE  Gaps'
  <2>1. Missing(saved'.blocks) = Missing(saved.blocks) /\ Missing(db'.blocks) = Missing(db.blocks)
        /\ Reach' = Reach /\ (pc' = pc => OnTop' = OnTop)
    BY <1>1 DEF Reach, OnTop
  <2>2. /\ Cardinality(Missing(saved'.blocks)) <= Allowed'
        /\ Cardinality(Missing(db'.blocks)) <= Allowed'
    BY <1>a, <1>b, <2>1
  <2>3. old + Batch <= Allowed => Cardinality(Missing(saved'.blocks)) + Batch <= Allowed'
    BY <1>a, <1>b, <1>i, <2>1
  <2> HIDE DEF old
  <2>4. CASE pc' = pc
    BY <1>1, <2>1, <2>2, <2>3, <2>4 DEF Gaps, old
  <2>5. CASE pc' \notin {"block", "tx", "commit"}
    BY <2>2, <2>5 DEF Gaps
  <2> QED BY <1>1, <2>4, <2>5
\* The tables agree, and no batch is under way.
<1>2. ASSUME saved'.blocks = db'.blocks, db'.blocks \in {db.blocks, saved.blocks},
             pc' \notin {"block", "tx", "commit"}
      PROVE  Gaps'
  <2>1. Cardinality(Missing(db'.blocks)) <= Allowed'
    BY <1>2, <1>a, <1>b
  <2> QED BY <1>2, <2>1 DEF Gaps
\* A batch is planned.
<1>3. ASSUME saved'.blocks = db'.blocks, Missing(db'.blocks) \subseteq Missing(db.blocks),
             PlanBatch(IndexedHeight(db'.blocks))
      PROVE  Gaps'
  <2> DEFINE k == IndexedHeight(db'.blocks)
  <2>1. k \in Int /\ k >= -1
    BY <1>u, HeightOfRows
  <2>2. /\ last' <= k + Batch /\ (pc' = "block" => next' <= last')
        /\ next' = k + 1 /\ pc' \in {"block", "idle"}
    BY <1>3, <1>t, <2>1, PlanBounds, PlanTypes
  <2>3. \A h \in DOMAIN db'.blocks : h <= k + Batch
    <3>1. ASSUME NEW h \in DOMAIN db'.blocks PROVE h <= k /\ h \in Nat
      BY <1>u, BelowHeight DEF Rows
    <3> QED BY <1>i, <2>1, <3>1
  <2>4. Cardinality(Missing(db'.blocks)) <= Cardinality(Missing(db.blocks))
    BY <1>3, <1>t, FewerGaps
  <2>5. Cardinality(Missing(db'.blocks)) <= Allowed'
    <3>1. Cardinality(Missing(db'.blocks)) \in Nat
      BY <1>u, MissingFinite
    <3> QED BY <1>a, <1>b, <2>4, <3>1
  <2>6. Reach' = k + Batch
    BY <1>3 DEF Reach
  <2>7. OnTop'
    BY <1>3, <2>1, <2>2 DEF OnTop
  <2> QED BY <1>3, <2>2, <2>3, <2>5, <2>6, <2>7 DEF Gaps
<1>4. CASE NodeNext \/ Stop \/ FetchFails \/ TickAborts \/ UNCHANGED vars
  <2>1. /\ saved' = saved /\ db' = db /\ next' = next /\ last' = last
        /\ pc' = pc \/ pc' = "idle"
    BY <1>4 DEF NodeNext, NodeGrows, NodeReorgs, NodeRetreats, Stop, FetchFails, TickAborts,
                vars, tickVars
  <2> QED BY <1>1, <2>1
<1>5. CASE WriteTx
  <2>1. db'.blocks = db.blocks /\ saved' = saved /\ next' = next /\ last' = last /\ pc' = pc
    BY <1>5, <1>t, IndexTxBlocks DEF WriteTx
  <2> QED BY <1>1, <2>1
<1>6. CASE Start \/ TickHead \/ Exit \/ Crash \/ Commit
  <2>1. saved'.blocks = db'.blocks /\ db'.blocks \in {db.blocks, saved.blocks}
        /\ pc' \in {"idle", "check", "down"}
    BY <1>6, <1>t, RepairBlocks DEF Start, TickHead, Exit, Crash, Commit
  <2> QED BY <1>2, <2>1
<1>7. CASE CheckAgrees \/ CheckFails
  <2>1. /\ saved'.blocks = db'.blocks /\ db' = db
        /\ PlanBatch(IndexedHeight(db'.blocks))
    BY <1>7, <1>t DEF CheckAgrees, CheckFails
  <2> QED BY <1>3, <2>1
<1>8. CASE CheckRewinds
  <2> DEFINE k == IndexedHeight(db.blocks)
  <2>1. k \in Nat
    BY <1>8, <1>t, NodeAnswers DEF CheckRewinds
  <2>2. RewindTo(k) \in Int
    BY <2>1, RewindToRange
  <2>3. db' = Rewind(db, RewindTo(k)) /\ saved' = db' /\ PlanBatch(IndexedHeight(db'.blocks))
    BY <1>8 DEF CheckRewinds
  <2>4. Missing(db'.blocks) \subseteq Missing(db.blocks)
    BY <1>t, <2>2, <2>3, RewindGaps
  <2> QED BY <1>3, <2>3, <2>4
<1>9. CASE FetchBlock
  <2>1. /\ HasHeight(next) /\ block' = BlockAt(next) /\ db' = PutBlock(db, next, block')
        /\ pc = "block" /\ pc' = "tx" /\ saved' = saved /\ next' = next /\ last' = last
    BY <1>9 DEF FetchBlock
  <2>2. block' \in Block /\ Height[block'] = next
    BY <1>t, <2>1, NodeAnswers
  <2>3. DOMAIN db'.blocks = DOMAIN db.blocks \cup {next}
    BY <1>t, <2>1 DEF PutBlock, Upsert, IsDb
  <2>4. /\ next <= last /\ last <= Reach /\ \A h \in DOMAIN db.blocks : h <= Reach
        /\ OnTop \/ old + Batch <= Allowed
    BY <2>1 DEF Gaps
  <2>5. Reach' = Reach /\ Reach \in Int /\ Missing(saved'.blocks) = Missing(saved.blocks)
    BY <1>i, <2>1 DEF Reach
  <2>6. next' <= last' /\ last' <= Reach' /\ \A h \in DOMAIN db'.blocks : h <= Reach'
    BY <1>t, <2>1, <2>3, <2>4, <2>5
  <2>7. /\ Cardinality(Missing(db'.blocks)) <= Allowed'
        /\ OnTop' \/ Cardinality(Missing(saved'.blocks)) + Batch <= Allowed'
    <3>1. CASE OnTop
      <4>1. IndexedHeight(db.blocks) = next - 1
            /\ Missing(db.blocks) \subseteq Missing(saved.blocks)
        BY <2>1, <3>1 DEF OnTop
      <4>2. IndexedHeight(db'.blocks) = next /\ Missing(db'.blocks) \subseteq Missing(db.blocks)
        BY <1>t, <2>1, <2>2, <4>1, PutOnTop
      <4>3. OnTop'
        BY <2>1, <4>1, <4>2 DEF OnTop
      <4>4. Cardinality(Missing(db'.blocks)) <= Cardinality(Missing(db.blocks))
            /\ Cardinality(Missing(db'.blocks)) \in Nat
        BY <1>t, <1>u, <4>2, FewerGaps, MissingFinite
      <4> QED BY <1>a, <1>b, <4>3, <4>4
    <3>2. CASE old + Batch <= Allowed
      <4>1. DOMAIN saved.blocks \subseteq DOMAIN db'.blocks
            /\ \A h \in DOMAIN db'.blocks : h <= IndexedHeight(saved.blocks) + Batch
        BY <1>t, <2>3, <2>5, <2>6 DEF Reach
      <4>2. Cardinality(Missing(db'.blocks)) <= old + Batch
            /\ Cardinality(Missing(db'.blocks)) \in Nat
        BY <1>t, <1>u, <4>1, BatchGaps, MissingFinite
      <4> HIDE DEF old
      <4>3. Cardinality(Missing(db'.blocks)) <= Allowed' /\ old + Batch <= Allowed'
        BY <1>a, <1>b, <1>i, <3>2, <4>2
      <4> QED BY <2>5, <4>3 DEF old
    <3> QED BY <2>4, <3>1, <3>2
  <2>8. Cardinality(Missing(saved'.blocks)) <= Allowed'
    BY <1>a, <1>b, <2>5
  <2> QED BY <2>1, <2>6, <2>7, <2>8 DEF Gaps
<1>10. CASE BatchStops \/ BlockDone
  <2>1. /\ saved' = saved /\ db' = db /\ last' = last
        /\ \/ pc = "block" /\ pc' = "commit"
           \/ /\ pc = "tx" /\ next' = next + 1
              /\ pc' = IF next < last THEN "block" ELSE "commit"
    BY <1>10 DEF BatchStops, BlockDone, tickVars
  <2>2. /\ Missing(saved'.blocks) = Missing(saved.blocks)
        /\ Missing(db'.blocks) = Missing(db.blocks) /\ Reach' = Reach
    BY <2>1 DEF Reach
  <2>3. /\ Cardinality(Missing(saved'.blocks)) <= Allowed'
        /\ Cardinality(Missing(db'.blocks)) <= Allowed'
    BY <1>a, <1>b, <2>2
  <2>4. pc' \in {"block", "tx"} => next' <= last'
    BY <1>t, <2>1
  <2>5. last <= Reach /\ (\A h \in DOMAIN db.blocks : h <= Reach)
        /\ (OnTop \/ old + Batch <= Allowed)
    BY <2>1 DEF Gaps
  <2>6. OnTop => OnTop'
    BY <1>t, <1>i, <2>1 DEF OnTop
  <2>7. old + Batch <= Allowed => Cardinality(Missing(saved'.blocks)) + Batch <= Allowed'
    BY <1>a, <1>b, <1>i, <2>2
  <2> HIDE DEF old
  <2> QED BY <2>1, <2>2, <2>3, <2>4, <2>5, <2>6, <2>7 DEF Gaps
<1>11. CASE ConnectionReplaced
  <2>1. /\ saved' = saved /\ db' = saved /\ next' = next /\ last' = last /\ pc' = pc
        /\ pc \in {"block", "tx"} /\ Fault("conndrop")
    BY <1>11 DEF ConnectionReplaced, tickVars
  <2>2. next <= last /\ last <= Reach /\ Reach' = Reach
    BY <2>1 DEF Gaps, Reach
  <2>3. \A h \in DOMAIN db'.blocks : h <= Reach'
    BY <1>t, <2>1, <2>2 DEF Gaps
  <2>4. /\ Missing(saved'.blocks) = Missing(saved.blocks)
        /\ Missing(db'.blocks) = Missing(saved.blocks)
    BY <2>1
  <2>5. old + Batch <= Allowed' /\ old <= Allowed'
    BY <1>a, <1>b, <1>i, <2>1
  <2> QED BY <2>1, <2>2, <2>3, <2>4, <2>5 DEF Gaps
<1> QED
  BY <1>4, <1>5, <1>6, <1>7, <1>8, <1>9, <1>10, <1>11 DEF Next, Tick

LEMMA GapsInit == Init => Gaps
<1> SUFFICES ASSUME Init PROVE Gaps
  OBVIOUS
<1>1. db.blocks = EmptyTable /\ saved.blocks = EmptyTable /\ pc = "down"
  BY DEF Init, EmptyDb
<1>2. StoreInv
  BY StoreInit
<1>3. Count("conndrop") \in Nat /\ Batch \in Nat
  BY <1>2, Counts, IndexerAssumption DEF StoreInv
<1>4. Allowed \in Nat
  BY <1>3, ProductTyped DEF Allowed
<1>5. Missing(EmptyTable) = {}
  <2>1. DOMAIN EmptyTable = {}
    BY DEF EmptyTable
  <2>2. IndexedHeight(EmptyTable) = -1
    BY <2>1 DEF IndexedHeight
  <2> QED BY <2>2 DEF Missing
<1>6. Cardinality({}) = 0
  BY FS_EmptySet
<1> QED BY <1>1, <1>4, <1>5, <1>6 DEF Gaps

LEMMA GapsInvariant == Spec => [](StoreInv /\ Gaps)
<1>1. StoreInv /\ Gaps /\ [Next]_vars => StoreInv' /\ Gaps'
  BY StoreStep, GapsStep
<1> QED BY <1>1, StoreInit, GapsInit, PTL DEF Spec

-------------------------------------------------------------------------------
(* Gaps or not, the rows are of one chain as long as the node does not switch
   branches within a batch and no tip check fails by itself: on shallow forks a
   check that agrees, or that rewinds, leaves only blocks of the node. *)

Steady == ~ Happened({"midreorg", "check"})

OnBranch(f) == \A h, k \in DOMAIN f : h <= k => Path[f[k]][h] = f[h]
NodesRows(f) == \A h \in DOMAIN f : HasHeight(h) /\ f[h] = BlockAt(h)

Branched ==
    /\ OnBranch(db.blocks) /\ OnBranch(saved.blocks)
    /\ pc = "check" => tip <= Height[best]
    /\ pc \in {"block", "tx"} => NodesRows(db.blocks) /\ NodesRows(saved.blocks)

\* The node's blocks are of one chain.
LEMMA NodesOnBranch ==
    ASSUME best \in Block, NEW f, Rows(f), NodesRows(f)
    PROVE  OnBranch(f)
<1> SUFFICES ASSUME NEW h \in DOMAIN f, NEW k \in DOMAIN f, h <= k
             PROVE  Path[f[k]][h] = f[h]
  BY DEF OnBranch
<1>1. k \in 0 .. Height[best] /\ f[k] = Path[best][k] /\ f[h] = Path[best][h]
  BY DEF NodesRows, HasHeight, BlockAt
<1>2. h \in 0 .. k
  BY <1>1 DEF Rows
<1>3. Path[Path[best][k]][h] = Path[best][h]
  BY <1>1, <1>2, PathAssumption
<1> QED BY <1>1, <1>3

\* A chain whose last row is of the node's chain is part of it.
LEMMA BranchOfNode ==
    ASSUME best \in Block, NEW f, Rows(f), OnBranch(f), DOMAIN f # {},
           HasHeight(IndexedHeight(f)), f[IndexedHeight(f)] = BlockAt(IndexedHeight(f))
    PROVE  NodesRows(f)
<1> DEFINE k == IndexedHeight(f)
<1>1. k \in DOMAIN f
  BY HeightOfRows
<1> SUFFICES ASSUME NEW h \in DOMAIN f PROVE HasHeight(h) /\ f[h] = BlockAt(h)
  BY DEF NodesRows
<1>2. h \in Nat /\ k \in Nat /\ h <= k
  BY <1>1, BelowHeight DEF Rows
<1>3. k \in 0 .. Height[best] /\ f[k] = Path[best][k] /\ Height[best] \in Nat
  BY PathAssumption DEF HasHeight, BlockAt
<1>4. Path[f[k]][h] = f[h]
  BY <1>1, <1>2 DEF OnBranch
<1>5. h \in 0 .. k /\ Path[Path[best][k]][h] = Path[best][h]
  BY <1>2, <1>3, PathAssumption
<1> QED BY <1>2, <1>3, <1>4, <1>5 DEF HasHeight, BlockAt

\* On shallow forks a rewind from any height that the node has, too.
LEMMA RewoundBranch ==
    ASSUME ShallowForks, best \in Block, NEW d, IsDb(d), Rows(d.blocks), OnBranch(d.blocks),
           DOMAIN d.blocks # {}, HasHeight(IndexedHeight(d.blocks))
    PROVE  NodesRows(Rewind(d, RewindTo(IndexedHeight(d.blocks))).blocks)
<1> DEFINE f == d.blocks
           k == IndexedHeight(f)
           r == RewindTo(k)
           g == Rewind(d, r).blocks
<1>1. g = [h \in DOMAIN f \ {i \in DOMAIN f : i > r} |-> f[h]]
  BY RewindBlocks
<1>2. k \in DOMAIN f /\ k \in Nat /\ f[k] \in Block /\ Height[f[k]] = k
  BY HeightOfRows DEF Rows
<1>3. k <= Height[best] /\ Height[best] \in Nat
  BY PathAssumption DEF HasHeight
<1>4. OnBranch(f) /\ Rows(f)
  OBVIOUS
<1> HIDE DEF f, k, g
<1> SUFFICES ASSUME NEW h \in DOMAIN g PROVE HasHeight(h) /\ g[h] = BlockAt(h)
  BY DEF NodesRows, g, k, f
<1>5. h \in DOMAIN f /\ g[h] = f[h] /\ h \in Nat /\ ~ h > r
  BY <1>1, <1>4 DEF Rows
<1>6. r = k - Depth /\ k >= Depth /\ h <= k - Depth /\ Depth \in Nat
  BY <1>2, <1>5, IndexerAssumption DEF RewindTo
<1>7. Path[best][k - Depth] = Path[f[k]][k - Depth]
  BY <1>2, <1>3, <1>6 DEF ShallowForks
<1>8. h \in 0 .. k - Depth /\ k - Depth \in 0 .. k /\ k - Depth \in 0 .. Height[best]
  BY <1>2, <1>3, <1>5, <1>6
<1>9. /\ Path[Path[best][k - Depth]][h] = Path[best][h]
      /\ Path[Path[f[k]][k - Depth]][h] = Path[f[k]][h]
  BY <1>2, <1>8, PathAssumption
<1>10. Path[f[k]][h] = f[h]
  BY <1>2, <1>4, <1>5, <1>6 DEF OnBranch
<1>11. h \in 0 .. Height[best]
  BY <1>3, <1>8
<1> QED BY <1>5, <1>7, <1>9, <1>10, <1>11 DEF HasHeight, BlockAt

LEMMA BranchInit == Init => Branched
<1> SUFFICES ASSUME Init PROVE Branched
  OBVIOUS
<1>1. db.blocks = EmptyTable /\ saved.blocks = EmptyTable /\ pc = "down"
  BY DEF Init, EmptyDb
<1> QED BY <1>1 DEF Branched, OnBranch, EmptyTable

LEMMA BranchStep ==
    ASSUME ShallowForks, StoreInv, Branched, Steady', [Next]_vars
    PROVE  Branched'
<1>c. ~ Fault("check") /\ ~ Fault("midreorg")
  BY HasHappened DEF StoreInv, Steady
<1>t. /\ next \in Nat /\ last \in Int /\ tip \in Int /\ best \in Block /\ TypeOK
      /\ IsDb(db) /\ IsDb(saved) /\ Rows(db.blocks) /\ Rows(saved.blocks)
      /\ pc = "check" => saved.blocks = db.blocks
      /\ OnBranch(db.blocks) /\ OnBranch(saved.blocks)
  BY DEF StoreInv, TypeOK, Branched
<1>u. best' \in Block /\ Rows(db'.blocks) /\ Rows(saved'.blocks)
  BY StoreStep DEF StoreInv, TypeOK
\* Nothing happens to the blocks.
<1>1. ASSUME saved' = saved, db'.blocks \in {db.blocks, saved.blocks},
             best' = best, tip' = tip, pc' = pc \/ pc' \notin {"check", "block", "tx"}
      PROVE  Branched'
  BY <1>1, <1>t DEF Branched, OnBranch, NodesRows, HasHeight, BlockAt
\* A batch is planned on the node's blocks, or none is.
<1>2. ASSUME saved'.blocks = db'.blocks, OnBranch(db'.blocks), best' = best,
             pc' = "idle" \/ (pc' = "block" /\ NodesRows(db'.blocks))
      PROVE  Branched'
  BY <1>2 DEF Branched, OnBranch, NodesRows, HasHeight, BlockAt
<1> DEFINE k == IndexedHeight(db.blocks)
<1>i. k \in Int /\ k >= -1 /\ (DOMAIN db.blocks # {} => k \in DOMAIN db.blocks)
      /\ (DOMAIN db.blocks = {} => k = -1)
  <2>1. DOMAIN db.blocks = {} => k = -1
    BY DEF IndexedHeight
  <2> QED BY <1>t, <2>1, HeightOfRows
<1>3. CASE Stop \/ FetchFails \/ TickAborts \/ BatchStops \/ ConnectionReplaced
           \/ UNCHANGED vars
  <2>1. saved' = saved /\ db' \in {db, saved} /\ best' = best /\ tip' = tip
        /\ (pc' = pc \/ pc' \in {"idle", "commit"})
    BY <1>3 DEF Stop, FetchFails, TickAborts, BatchStops, ConnectionReplaced, vars, tickVars
  <2> QED BY <1>1, <2>1
<1>4. CASE Exit \/ Crash
  <2>1. saved' = saved /\ db' = saved /\ best' = best /\ tip' = tip /\ pc' = "down"
    BY <1>4 DEF Exit, Crash, tickVars
  <2> QED BY <1>1, <2>1
<1>5. CASE WriteTx
  <2>1. db'.blocks = db.blocks /\ saved' = saved /\ best' = best /\ tip' = tip /\ pc' = pc
    BY <1>5, <1>t, IndexTxBlocks DEF WriteTx
  <2> QED BY <1>1, <2>1
<1>6. CASE Start \/ TickHead
  <2>1. saved'.blocks = db.blocks /\ db'.blocks = db.blocks /\ best' = best
        /\ (pc' = "idle" \/ (pc' = "check" /\ tip' = Height[best]))
    BY <1>6, <1>t, RepairBlocks DEF Start, TickHead
  <2>2. Height[best] \in Nat
    BY <1>t, PathAssumption
  <2> QED BY <1>t, <2>1, <2>2 DEF Branched, OnBranch
<1>7. CASE Commit
  <2>1. saved' = db /\ db' = db /\ pc' = "idle"
    BY <1>7 DEF Commit
  <2> QED BY <1>t, <2>1 DEF Branched, OnBranch
<1>8. CASE BlockDone
  <2>1. saved' = saved /\ db' = db /\ best' = best /\ pc = "tx" /\ pc' \in {"block", "commit"}
    BY <1>8 DEF BlockDone
  <2> QED BY <1>t, <2>1 DEF Branched, OnBranch, NodesRows, HasHeight, BlockAt
<1>9. CASE NodeNext
  <2>1. saved' = saved /\ db' = db /\ pc' = pc /\ tip' = tip
    BY <1>9 DEF NodeNext, NodeGrows, NodeReorgs, NodeRetreats, tickVars
  <2>2. CASE Mine
    <3>1. OnChain(best, best') /\ Height[best'] = Height[best] + 1
      BY <2>2 DEF Mine
    <3>2. ASSUME NEW f, NodesRows(f)
          PROVE  \A h \in DOMAIN f : h \in 0 .. Height[best'] /\ f[h] = Path[best'][h]
      BY <1>t, <1>u, <3>1, <3>2, GrowthKeeps DEF NodesRows, HasHeight, BlockAt
    <3>3. Height[best] \in Nat
      BY <1>t, PathAssumption
    <3>4. pc' = "check" => tip' <= Height[best']
      BY <1>t, <2>1, <3>1, <3>3 DEF Branched
    <3>5. ASSUME pc \in {"block", "tx"}
          PROVE  NodesRows(db.blocks)' /\ NodesRows(saved.blocks)'
      <4>1. NodesRows(db.blocks) /\ NodesRows(saved.blocks)
        BY <3>5 DEF Branched
      <4>2. /\ \A h \in DOMAIN db.blocks :
                  h \in 0 .. Height[best'] /\ db.blocks[h] = Path[best'][h]
            /\ \A h \in DOMAIN saved.blocks :
                  h \in 0 .. Height[best'] /\ saved.blocks[h] = Path[best'][h]
        BY <3>2, <4>1
      <4> QED BY <2>1, <4>2 DEF NodesRows, HasHeight, BlockAt
    <3>6. OnBranch(db.blocks)' /\ OnBranch(saved.blocks)'
      BY <1>t, <2>1 DEF OnBranch
    <3> QED BY <2>1, <3>4, <3>5, <3>6 DEF Branched
  <2>3. CASE Reorg /\ pc \in {"down", "idle", "check"}
    <3>1. Height[best'] > Height[best] /\ Height[best] \in Nat /\ Height[best'] \in Nat
      BY <1>t, <1>u, <2>3, PathAssumption DEF Reorg
    <3>2. pc' = "check" => tip' <= Height[best']
      BY <1>t, <2>1, <3>1 DEF Branched
    <3> QED BY <1>t, <2>1, <2>3, <3>2 DEF Branched, OnBranch
  <2>4. CASE pc \in {"down", "idle"}
    BY <1>t, <2>1, <2>4 DEF Branched, OnBranch
  <2> QED BY <1>9, <1>c, <2>2, <2>3, <2>4 DEF NodeNext, NodeGrows, NodeReorgs, NodeRetreats
<1>10. CASE CheckAgrees \/ CheckFails
  <2>1. /\ saved'.blocks = db'.blocks /\ db' = db /\ PlanBatch(k) /\ pc = "check"
        /\ \/ k >= 0 => HasHeight(k) /\ db.blocks[k] = BlockAt(k)
           \/ k >= 0 /\ ~ HasHeight(k)
    BY <1>10, <1>c, <1>t DEF CheckAgrees, CheckFails
  <2>2. best' = best /\ pc' \in {"block", "idle"}
    BY <1>i, <1>t, <2>1, PlanTypes
  <2>3. ASSUME pc' = "block" PROVE NodesRows(db.blocks)
    <3>1. CASE DOMAIN db.blocks = {}
      BY <3>1 DEF NodesRows
    <3>2. CASE DOMAIN db.blocks # {}
      <4>1. k \in Nat
        BY <1>i, <1>t, <3>2 DEF Rows
      <4>2. k + 1 <= tip
        BY <1>t, <2>1, <2>3, <4>1, IndexerAssumption DEF PlanBatch
      <4>3. tip <= Height[best] /\ Height[best] \in Nat
        BY <1>t, <2>1, PathAssumption DEF Branched
      <4>4. HasHeight(k)
        BY <1>t, <4>1, <4>2, <4>3 DEF HasHeight
      <4>5. db.blocks[k] = BlockAt(k)
        BY <2>1, <4>1, <4>4
      <4> QED BY <1>t, <3>2, <4>4, <4>5, BranchOfNode
    <3> QED BY <3>1, <3>2
  <2> QED BY <1>2, <1>t, <2>1, <2>2, <2>3
<1>11. CASE CheckRewinds
  <2>1. /\ HasHeight(k) /\ db' = Rewind(db, RewindTo(k)) /\ saved' = db'
        /\ PlanBatch(IndexedHeight(db'.blocks))
    BY <1>11 DEF CheckRewinds
  <2>2. k \in Nat
    BY <1>t, <2>1, NodeAnswers
  <2>3. DOMAIN db.blocks # {}
    BY <1>i, <2>2
  <2>4. NodesRows(db'.blocks)
    BY <1>t, <2>1, <2>3, RewoundBranch
  <2>5. OnBranch(db'.blocks)
    BY <1>t, <1>u, <2>4, NodesOnBranch
  <2>6. best' = best /\ pc' \in {"block", "idle"}
    <3>1. IndexedHeight(db'.blocks) \in Int /\ IndexedHeight(db'.blocks) >= -1
      BY <1>u, HeightOfRows
    <3> QED BY <1>t, <2>1, <3>1, PlanTypes
  <2> QED BY <1>2, <2>1, <2>4, <2>5, <2>6
<1>12. CASE FetchBlock
  <2>1. /\ HasHeight(next) /\ block' = BlockAt(next) /\ db' = PutBlock(db, next, block')
        /\ pc = "block" /\ pc' = "tx" /\ saved' = saved /\ best' = best
    BY <1>12 DEF FetchBlock
  <2>2. db'.blocks = [h \in DOMAIN db.blocks \cup {next} |->
                         IF h = next THEN BlockAt(next) ELSE db.blocks[h]]
    BY <1>t, <2>1 DEF PutBlock, Upsert, IsDb
  <2>3. NodesRows(db.blocks) /\ NodesRows(saved.blocks)
    BY <2>1 DEF Branched
  <2>4. NodesRows(db'.blocks)
    BY <2>1, <2>2, <2>3 DEF NodesRows
  <2>5. OnBranch(db'.blocks)
    BY <1>t, <1>u, <2>4, NodesOnBranch
  <2> QED BY <1>t, <2>1, <2>3, <2>4, <2>5
          DEF Branched, OnBranch, NodesRows, HasHeight, BlockAt
<1> QED
  BY <1>3, <1>4, <1>5, <1>6, <1>7, <1>8, <1>9, <1>10, <1>11, <1>12 DEF Next, Tick

\* Each lost transaction costs at most the heights of one batch, and what there
\* is is of one chain, gaps or not.
THEOREM Spec_GapBounded ==
    ASSUME ShallowForks
    PROVE  Spec => []GapBounded
<1> DEFINE Inv == StoreInv /\ (Steady => Branched)
<1>1. Init => Inv
  BY StoreInit, BranchInit
<1>2. Inv /\ [Next]_vars => Inv'
  <2> SUFFICES ASSUME StoreInv, Steady => Branched, [Next]_vars, Steady'
               PROVE  Branched'
    BY StoreStep
  <2>1. Steady
    BY Remembers DEF Steady, StoreInv
  <2> QED BY <2>1, BranchStep
<1>3. Inv /\ Gaps => GapBounded
  BY DEF Gaps, Missing, Allowed, Branched, OnBranch, Steady, GapBounded
<1>4. Spec => []Inv
  <2> HIDE DEF Inv
  <2> QED BY <1>1, <1>2, PTL DEF Spec
<1> QED BY <1>3, <1>4, GapsInvariant, PTL
===============================================================================
