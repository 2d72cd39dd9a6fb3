------------------------- MODULE AddressLinksProofs -------------------------
(***************************************************************************)
(* Theorems about AddressLinks, for any number of HTTP threads, any batch   *)
(* size and depth, and any number of blocks and rewinds.                    *)
(***************************************************************************)
EXTENDS AddressLinks, SequenceTheorems, TLAPS

Kinds == {"spend", "change"}
Busy == {"paths", "spends", "changes", "again", "write", "finish"}

\* A page's rebuild is to come because the relay's list has loaded.
Forced == \E h \in Http : hpc[h] = "force"

Upto(n) == {chain[i] : i \in 1..n} \X Parts
Whole == ToSet(chain) \X Parts
Within == paths \subseteq ToSet(chain)

LinksTypeOK ==
    /\ chain \in Seq(Nat) /\ indexed \in Nat
    /\ \A i \in DOMAIN chain : chain[i] <= indexed
    /\ \A i, j \in DOMAIN chain : i < j => chain[i] < chain[j]
    /\ links \subseteq (0..indexed) \X Kinds /\ paths \subseteq 0..indexed
    /\ built \in Nat \cup {-1} /\ dirty \in BOOLEAN /\ listed \in BOOLEAN
    /\ lock \in Http \cup {Nobody}
    /\ ipc \in {"sleep", "batch", "invalidate", "decide", "full", "absorb"}
    /\ rewound \in {"no", "yes", "absorbed"}
    /\ after \in Nat \cup {-1} /\ owed \in Nat /\ faults \in Nat
    /\ hpc \in [Http -> {"idle", "enter", "force"} \cup Busy]
    /\ buf \in [Http -> SUBSET ((0..indexed) \X Kinds)]
    /\ trail \in [Http -> SUBSET (0..indexed)]
    /\ \A h \in Http : hpc[h] \in Busy <=> lock = h

\* A tick that has rewound indexes a block at least, before it refreshes; blocks
\* are absorbed into a snapshot only.
TickInv ==
    /\ ipc = "batch" => owed > 0 /\ rewound # "no"
    /\ ipc = "absorb" => built >= 0

\* Where a rebuild under way stands, unless the indexer has just committed: then
\* what it has read is right.
PageInv ==
    \A h \in Http : ipc \in {"sleep", "decide", "full", "absorb"} =>
        /\ hpc[h] = "changes" => buf[h] = ToSet(chain) \X {"spend"}
        /\ hpc[h] \in {"again", "write"} => buf[h] = Whole
        /\ hpc[h] \in {"spends", "changes", "again", "write"} => trail[h] \subseteq ToSet(chain)
        /\ hpc[h] = "finish" => links = Whole /\ Within

\* The snapshot is of all blocks; the blocks above the built height can be added
\* to it; or the refresh to come will not rely on it, since there was no block
\* more than that height, or there was a rewind.
Fresh == built = Height /\ ~dirty /\ links = Whole /\ Within
Addable == built >= Height \/ rewound = "yes" \/ (links = Upto(built) /\ Within)
SnapshotInv ==
    /\ ipc = "sleep" => Fresh
    /\ ipc = "invalidate" => Addable
    /\ ipc = "decide" => Fresh \/ (dirty /\ Addable)
    /\ ipc = "absorb" => rewound = "yes" \/ (links \cup NewParts = Whole /\ Within)

ExactInv ==
    faults = 0 /\ rewound # "absorbed" /\ ~Forced =>
        PageInv /\ (lock = Nobody /\ built >= 0 => SnapshotInv)

\* No block has its inputs in and its outputs out.
Balanced(set) == \A b \in ToSet(chain) : <<b, "spend">> \in set => <<b, "change">> \in set

\* All have their outputs in.
Covered(set) == \A b \in ToSet(chain) : <<b, "change">> \in set

\* A block came between the reads of a page that has finished: refresh_index will
\* find a height already built, and rebuild.
Redone ==
    \/ built >= Height /\ (ipc = "invalidate" \/ (ipc = "decide" /\ dirty))
    \/ ipc = "full"

ListedInv ==
    faults = 0 /\ listed /\ ~Forced =>
        /\ lock = Nobody => Balanced(links) \/ Redone
        /\ \A h \in Http : ipc # "invalidate" =>
              /\ hpc[h] = "again" => Covered(buf[h])
              /\ hpc[h] = "write" => Balanced(buf[h])
              /\ hpc[h] = "finish" => Balanced(links)

LinksInv == LinksTypeOK /\ TickInv /\ ExactInv /\ ListedInv

-------------------------------------------------------------------------------
(* The chain as it grows and is cut.                                       *)

LEMMA ChainLen ==
  ASSUME LinksTypeOK
  PROVE  /\ Height \in Nat /\ DOMAIN chain = 1..Height
         /\ \A i \in 1..Height : chain[i] \in Nat /\ chain[i] <= indexed
  BY LenProperties DEF LinksTypeOK, Height

\* The blocks of a batch go on top and are numbered after all others.
LEMMA ChainGrows ==
  ASSUME LinksTypeOK, NEW n \in Nat, AddBlocks(n)
  PROVE  /\ chain' \in Seq(Nat) /\ Height' = Height + n /\ DOMAIN chain' = 1..Height + n
         /\ \A i \in 1..Height : chain'[i] = chain[i]
         /\ \A i \in Height + 1..Height + n : chain'[i] = indexed + i - Height
         /\ indexed' = indexed + n /\ indexed' \in Nat
<1> DEFINE new == [i \in 1 .. n |-> indexed + i]
<1>1. chain \in Seq(Nat) /\ Height \in Nat /\ indexed \in Nat
  BY ChainLen DEF LinksTypeOK
<1>2. new \in Seq(Nat) /\ Len(new) = n
  BY <1>1
<1>3. chain' = chain \o new /\ indexed' = indexed + n
  BY DEF AddBlocks
<1>4. \A i \in 1..n : new[i] = indexed + i
  OBVIOUS
<1> HIDE DEF new
<1>5. /\ chain \o new \in Seq(Nat) /\ Len(chain \o new) = Len(chain) + Len(new)
      /\ \A i \in 1..Len(chain) + Len(new) :
            (chain \o new)[i] = IF i <= Len(chain) THEN chain[i] ELSE new[i - Len(chain)]
  BY <1>1, <1>2, ConcatProperties
<1>6. \A i \in Height + 1..Height + n : chain'[i] = indexed + i - Height
  BY <1>1, <1>2, <1>3, <1>4, <1>5 DEF Height
<1>7. DOMAIN chain' = 1..Height + n
  BY <1>2, <1>3, <1>5, LenProperties DEF Height
<1> QED
  BY <1>1, <1>2, <1>3, <1>5, <1>6, <1>7 DEF Height

\* A rewind leaves the lower blocks as they are.
LEMMA ChainIsCut ==
  ASSUME LinksTypeOK, TickRewinds
  PROVE  /\ chain' \in Seq(Nat) /\ Height' \in Nat /\ Height' < Height
         /\ DOMAIN chain' = 1..Height'
         /\ \A i \in 1..Height' : chain'[i] = chain[i]
         /\ owed' \in Nat \ {0}
<1> DEFINE drop == IF Height > Depth THEN Depth ELSE Height
<1>1. /\ chain \in Seq(Nat) /\ Height \in Nat /\ Height > 0
      /\ drop \in 1..Height /\ chain' = SubSeq(chain, 1, Height - drop)
      /\ owed' = IF drop < Batch THEN drop ELSE Batch
  <2>1. chain \in Seq(Nat) /\ Height \in Nat /\ Depth \in Nat \ {0}
    BY ChainLen, LinksAssumption DEF LinksTypeOK
  <2>2. Height > 0 /\ chain' = SubSeq(chain, 1, Height - drop) /\ owed' = IF drop < Batch THEN drop ELSE Batch
    BY DEF TickRewinds
  <2> QED
    BY <2>1, <2>2
<1> HIDE DEF drop
<1>2. Height - drop \in Nat /\ Height - drop < Height
  BY <1>1
<1>3. \A i \in 1..Height - drop : chain[i] \in Nat
  BY <1>1, ChainLen
<1>4. /\ chain' \in Seq(Nat) /\ Len(chain') = Height - drop
      /\ \A i \in 1..Height - drop : chain'[i] = chain[i]
  BY <1>1, <1>2, <1>3, SubSeqProperties
<1>5. DOMAIN chain' = 1..Len(chain')
  BY <1>4, LenProperties
<1> QED
  BY <1>1, <1>2, <1>4, <1>5, LinksAssumption DEF Height

LEMMA BlocksNumbered ==
  ASSUME LinksTypeOK
  PROVE  ToSet(chain) \subseteq 0..indexed
  BY ChainLen DEF ToSet, LinksTypeOK

-------------------------------------------------------------------------------
(* Types, the order of the blocks, and who has the lock.                   *)

LEMMA AddBlocks_Type ==
  ASSUME LinksTypeOK, NEW n \in Nat, AddBlocks(n),
         ipc' \in {"sleep", "invalidate", "decide"}, faults' \in Nat
  PROVE  LinksTypeOK'
<1>1. /\ Height \in Nat /\ indexed \in Nat /\ DOMAIN chain = 1..Height
      /\ \A i \in 1..Height : chain[i] \in Nat /\ chain[i] <= indexed
      /\ \A i, j \in 1..Height : i < j => chain[i] < chain[j]
  BY ChainLen DEF LinksTypeOK
<1>2. /\ chain' \in Seq(Nat) /\ DOMAIN chain' = 1..Height + n
      /\ \A i \in 1..Height : chain'[i] = chain[i]
      /\ \A i \in Height + 1..Height + n : chain'[i] = indexed + i - Height
      /\ indexed' = indexed + n
  BY ChainGrows
<1>3. ASSUME NEW i \in DOMAIN chain'
      PROVE  chain'[i] <= indexed' /\ (i > Height => chain'[i] > indexed)
  <2>1. i \in 1..Height \/ i \in Height + 1..Height + n
    BY <1>1, <1>2
  <2>2. CASE i \in 1..Height
    <3>1. chain'[i] = chain[i] /\ chain[i] \in Nat /\ chain[i] <= indexed
      BY <1>1, <1>2, <2>2
    <3>2. i \in Nat /\ i <= Height /\ Height \in Nat /\ indexed \in Nat /\ indexed' = indexed + n
      BY <1>1, <1>2, <2>2
    <3> QED
      BY <3>1, <3>2
  <2>3. CASE i \in Height + 1..Height + n
    BY <1>1, <1>2, <2>3
  <2> QED
    BY <2>1, <2>2, <2>3
<1>4. ASSUME NEW i \in DOMAIN chain', NEW j \in DOMAIN chain', i < j
      PROVE  chain'[i] < chain'[j]
  <2>1. CASE j <= Height
    <3>1. i \in 1..Height /\ j \in 1..Height
      BY <1>1, <1>2, <1>4, <2>1
    <3> QED
      BY <1>1, <1>2, <1>4, <3>1
  <2>2. CASE j > Height /\ i <= Height
    <3>1. i \in 1..Height /\ chain'[j] > indexed
      BY <1>1, <1>2, <1>3, <2>2
    <3>2. chain'[i] = chain[i] /\ chain[i] <= indexed /\ chain[i] \in Nat /\ chain'[j] \in Nat
      BY <1>1, <1>2, <3>1
    <3> QED
      BY <1>1, <3>1, <3>2
  <2>3. CASE i > Height
    <3>1. i \in Height + 1..Height + n /\ j \in Height + 1..Height + n
      BY <1>1, <1>2, <1>4, <2>3
    <3> QED
      BY <1>1, <1>2, <1>4, <3>1
  <2>4. i \in Nat /\ j \in Nat
    BY <1>1, <1>2
  <2> QED
    BY <1>1, <2>1, <2>2, <2>3, <2>4
<1>5. (0..indexed) \X Kinds \subseteq (0..indexed') \X Kinds
  BY <1>1, <1>2
<1>6. /\ UNCHANGED <<rewinds, snapshot, listed, lock, after, rewound, http>> /\ owed' = 0
  BY DEF AddBlocks
<1>7. links' \subseteq (0..indexed') \X Kinds /\ buf' \in [Http -> SUBSET ((0..indexed') \X Kinds)]
  BY <1>5, <1>6 DEF LinksTypeOK, snapshot, http
<1>8. paths' \subseteq 0..indexed' /\ trail' \in [Http -> SUBSET (0..indexed')]
  <2>1. 0..indexed \subseteq 0..indexed'
    BY <1>1, <1>2
  <2> QED
    BY <1>6, <2>1 DEF LinksTypeOK, snapshot, http
<1> QED
  BY <1>1, <1>2, <1>3, <1>4, <1>6, <1>7, <1>8 DEF LinksTypeOK, snapshot, http

LEMMA Tick_Type == LinksTypeOK /\ Tick => LinksTypeOK'
<1> SUFFICES ASSUME LinksTypeOK, Tick PROVE LinksTypeOK'
  OBVIOUS
<1>1. CASE TickRewinds
  <2>1. /\ chain' \in Seq(Nat) /\ Height' \in Nat /\ Height' < Height
        /\ DOMAIN chain' = 1..Height' /\ owed' \in Nat
        /\ \A i \in 1..Height' : chain'[i] = chain[i]
    BY <1>1, ChainIsCut
  <2>2. /\ DOMAIN chain = 1..Height /\ Height \in Nat
        /\ \A i \in 1..Height : chain[i] <= indexed
        /\ \A i, j \in 1..Height : i < j => chain[i] < chain[j]
    BY ChainLen DEF LinksTypeOK
  <2>5. \A i \in 1..Height' : i \in 1..Height
    BY <2>1, <2>2
  <2>3. /\ \A i \in DOMAIN chain' : chain'[i] <= indexed
        /\ \A i, j \in DOMAIN chain' : i < j => chain'[i] < chain'[j]
    BY <2>1, <2>2, <2>5
  <2>4. /\ UNCHANGED <<indexed, snapshot, listed, lock, after, http, faults>>
        /\ ipc' = "batch" /\ rewound' \in {"yes", "absorbed"}
    BY <1>1 DEF TickRewinds, LinksTypeOK
  <2> QED
    BY <2>1, <2>3, <2>4 DEF LinksTypeOK, snapshot, http
<1>2. ASSUME NEW n \in 0 .. Batch, TickIndexes(n) PROVE LinksTypeOK'
  <2>1. n \in Nat /\ AddBlocks(n) /\ ipc' \in {"sleep", "invalidate", "decide"} /\ faults' \in Nat
    BY <1>2, LinksAssumption DEF TickIndexes, LinksTypeOK
  <2> QED
    BY <2>1, AddBlocks_Type
<1>3. ASSUME NEW n \in 0 .. Batch, TickFails(n) PROVE LinksTypeOK'
  <2>1. n \in Nat /\ AddBlocks(n) /\ ipc' \in {"sleep", "invalidate", "decide"} /\ faults' \in Nat
    BY <1>3, LinksAssumption DEF TickFails, Fault, LinksTypeOK
  <2> QED
    BY <2>1, AddBlocks_Type
<1> QED
  BY <1>1, <1>2, <1>3 DEF Tick

LEMMA Refresh_Type == LinksTypeOK /\ (Refresh \/ RefreshFails \/ Timer) => LinksTypeOK'
<1> SUFFICES ASSUME LinksTypeOK, Refresh \/ RefreshFails \/ Timer PROVE LinksTypeOK'
  OBVIOUS
<1>1. CASE Invalidate
  BY <1>1 DEF LinksTypeOK, Invalidate, index, http
<1>2. CASE Decide
  BY <1>2 DEF LinksTypeOK, Decide, index, snapshot, http
<1>3. CASE Rebuild
  <2>1. links' \subseteq (0..indexed) \X Kinds
    BY <1>3, BlocksNumbered DEF Rebuild, Kinds
  <2>2. paths' \subseteq 0..indexed
    BY <1>3, BlocksNumbered DEF Rebuild
  <2> QED
    BY <1>3, <2>1, <2>2, ChainLen DEF LinksTypeOK, Rebuild, RelayAnswers, index, http, Height
<1>4. CASE Absorb
  <2>1. NewParts \subseteq (0..indexed) \X Kinds
    BY ChainLen DEF NewParts, Parts, Kinds, LinksTypeOK
  <2>2. links' \subseteq (0..indexed) \X Kinds
    BY <1>4, <2>1 DEF Absorb, LinksTypeOK
  <2> QED
    BY <1>4, <2>2, ChainLen DEF LinksTypeOK, Absorb, index, http
<1>5. CASE RefreshFails
  <2>1. listed' \in BOOLEAN
    <3>1. CASE ipc = "full"
      BY <1>5, <3>1 DEF RefreshFails, LinksTypeOK
    <3>2. CASE ipc # "full"
      BY <1>5, <3>2 DEF RefreshFails, LinksTypeOK
    <3> QED
      BY <3>1, <3>2
  <2>3. faults' \in Nat
    BY <1>5 DEF LinksTypeOK, RefreshFails, Fault
  <2>2. UNCHANGED <<index, snapshot, lock, after, owed, rewound, http>> /\ ipc' = "sleep"
    BY <1>5 DEF RefreshFails
  <2> QED
    BY <2>1, <2>2, <2>3 DEF LinksTypeOK, index, snapshot, http
<1>6. CASE Timer
  BY <1>6 DEF LinksTypeOK, Timer, index, http, indexer
<1> QED
  BY <1>1, <1>2, <1>3, <1>4, <1>5, <1>6 DEF Refresh

\* A page takes a step that leaves the blocks and the indexer alone.
LEMMA Page_Type ==
  ASSUME LinksTypeOK, NEW h \in Http, EnsureFresh(h) \/ Serve(h) \/ RebuildFails(h)
  PROVE  LinksTypeOK'
<1>1. CASE EnsureFresh(h)
  BY <1>1, LinksAssumption DEF LinksTypeOK, EnsureFresh, RelayAnswers, At, Busy, index, snapshot, indexer
<1>2. CASE SkipRebuild(h)
  BY <1>2, LinksAssumption DEF LinksTypeOK, SkipRebuild, At, Busy, index, snapshot, indexer
<1>3. CASE EnterRebuild(h)
  <2>1. \A g \in Http : hpc[g] \notin Busy
    BY <1>3, LinksAssumption DEF LinksTypeOK, EnterRebuild
  <2>2. \A g \in Http : hpc'[g] \in Busy <=> lock' = g
    BY <1>3, <2>1 DEF LinksTypeOK, EnterRebuild, At, Busy
  <2> QED
    BY <1>3, <2>2 DEF LinksTypeOK, EnterRebuild, RelayAnswers, At, Busy, index, snapshot, indexer
<1>4. CASE Reads(h)
  <2>1. ToSet(chain) \X {"spend"} \subseteq (0..indexed) \X Kinds /\ ToSet(chain) \subseteq 0..indexed
    BY BlocksNumbered DEF Kinds
  <2>2. ToSet(chain) \X (Parts \ {"spend"}) \subseteq (0..indexed) \X Kinds
    BY BlocksNumbered DEF Kinds, Parts
  <2>3. buf' \in [Http -> SUBSET ((0..indexed) \X Kinds)] /\ trail' \in [Http -> SUBSET (0..indexed)]
    BY <1>4, <2>1, <2>2 DEF LinksTypeOK, Reads, ReadPaths, ReadSpends, ReadChanges, ReadAgain
  <2>4. \A g \in Http : hpc'[g] \in Busy <=> lock' = g
    BY <1>4 DEF LinksTypeOK, Reads, ReadPaths, ReadSpends, ReadChanges, ReadAgain, At, Busy
  <2>5. hpc' \in [Http -> {"idle", "enter", "force"} \cup Busy]
    BY <1>4 DEF LinksTypeOK, Reads, ReadPaths, ReadSpends, ReadChanges, ReadAgain, At, Busy
  <2>6. UNCHANGED <<index, snapshot, listed, lock, indexer, faults>>
    BY <1>4 DEF Reads, ReadPaths, ReadSpends, ReadChanges, ReadAgain
  <2> QED
    BY <2>3, <2>4, <2>5, <2>6 DEF LinksTypeOK, index, snapshot, indexer
<1>5. CASE Write(h)
  BY <1>5 DEF LinksTypeOK, Write, At, Busy, index, indexer
<1>6. CASE Finish(h)
  <2>1. \A g \in Http : hpc'[g] \in Busy <=> lock' = g
    BY <1>6, LinksAssumption DEF LinksTypeOK, Finish, At, Busy
  <2> QED
    BY <1>6, <2>1, ChainLen DEF LinksTypeOK, Finish, At, Busy, index, indexer
<1>7. CASE RebuildFails(h)
  <2>1. \A g \in Http : hpc'[g] \in Busy <=> lock' = g
    BY <1>7, LinksAssumption DEF LinksTypeOK, RebuildFails, At, Busy
  <2> QED
    BY <1>7, <2>1 DEF LinksTypeOK, RebuildFails, Fault, At, Busy, index, snapshot, indexer
<1> QED
  BY <1>1, <1>2, <1>3, <1>4, <1>5, <1>6, <1>7 DEF Serve

LEMMA Next_Type == LinksTypeOK /\ [Next]_vars => LinksTypeOK'
<1>1. LinksTypeOK /\ UNCHANGED vars => LinksTypeOK'
  BY DEF LinksTypeOK, vars, index, snapshot, indexer, http
<1> QED
  BY <1>1, Tick_Type, Refresh_Type, Page_Type DEF Next

-------------------------------------------------------------------------------
(* The snapshot where nothing went wrong.                                  *)

LEMMA Next_Tick == LinksTypeOK /\ TickInv /\ [Next]_vars => TickInv'
<1> SUFFICES ASSUME LinksTypeOK, TickInv, [Next]_vars PROVE TickInv'
  OBVIOUS
<1>1. CASE TickRewinds
  BY <1>1, ChainIsCut DEF TickInv, TickRewinds, LinksTypeOK
<1>2. CASE \E n \in 0 .. Batch : TickIndexes(n) \/ TickFails(n)
  BY <1>2 DEF TickInv, TickIndexes, TickFails
<1>3. CASE Refresh \/ RefreshFails
  <2>1. CASE Decide
    <3>1. built \in Nat \cup {-1} /\ built' = built
      BY <2>1 DEF LinksTypeOK, Decide, snapshot
    <3>2. ipc' = "absorb" => ~(built < 0)
      BY <2>1 DEF Decide, NeedsFull
    <3>3. ipc' # "batch"
      BY <2>1 DEF Decide
    <3> QED
      BY <3>1, <3>2, <3>3 DEF TickInv
  <2>2. CASE ~Decide
    BY <1>3, <2>2 DEF TickInv, Refresh, Invalidate, Rebuild, Absorb, RefreshFails
  <2> QED
    BY <2>1, <2>2
<1>4. CASE UNCHANGED indexer /\ built' \in {built, Height}
  BY <1>4, ChainLen DEF TickInv, indexer
<1>5. Timer \/ (\E h \in Http : EnsureFresh(h) \/ Serve(h) \/ RebuildFails(h)) =>
          UNCHANGED indexer /\ built' \in {built, Height}
  BY DEF Timer, EnsureFresh, Serve, SkipRebuild, EnterRebuild, Reads, ReadPaths, ReadSpends,
         ReadChanges, ReadAgain, Write, Finish, RebuildFails, snapshot
<1> QED
  BY <1>1, <1>2, <1>3, <1>4, <1>5 DEF Next, Tick, vars, snapshot

\* A tick with nothing to index leaves the blocks; one with blocks leaves what
\* was right up to the built height right up to there.
LEMMA Indexes_Exact ==
  ASSUME LinksTypeOK, TickInv, ExactInv, NEW n \in 0 .. Batch, TickIndexes(n)
  PROVE  ExactInv'
<1> SUFFICES ASSUME faults = 0, rewound # "absorbed", ~Forced
             PROVE  PageInv' /\ (lock = Nobody /\ built >= 0 => SnapshotInv')
  BY DEF ExactInv, TickIndexes, AddBlocks, Forced, snapshot, http
<1>1. /\ n \in Nat /\ AddBlocks(n) /\ n >= owed
      /\ ipc' = IF n > 0 THEN "invalidate" ELSE "decide"
      /\ UNCHANGED <<links, paths, built, dirty, listed, lock, rewound, hpc, buf, trail>>
      /\ ipc \in {"sleep", "batch"}
  BY LinksAssumption DEF TickIndexes, AddBlocks, snapshot, http
<1>2. PageInv /\ (lock = Nobody /\ built >= 0 => SnapshotInv)
  BY DEF ExactInv
<1>3. CASE n = 0
  <2>1. ipc = "sleep" /\ ipc' = "decide"
    BY <1>1, <1>3 DEF TickInv, LinksTypeOK
  <2>2. chain' = chain
    <3>1. /\ chain' \in Seq(Nat) /\ chain \in Seq(Nat) /\ Len(chain') = Len(chain)
          /\ \A i \in 1..Len(chain) : chain'[i] = chain[i]
      BY <1>1, <1>3, ChainGrows, ChainLen DEF LinksTypeOK, Height
    <3> QED
      BY <3>1, SeqEqual
  <2>3. Whole' = Whole /\ (ToSet(chain))' = ToSet(chain) /\ Height' = Height
    BY <1>1, <2>2 DEF Whole, Parts, Height
  <2> QED
    BY <1>1, <1>2, <2>1, <2>3 DEF PageInv, SnapshotInv, Fresh, Within
<1>4. CASE n > 0
  <2>1. ipc' = "invalidate"
    BY <1>1, <1>4
  <2>2. CASE ipc = "batch"
    BY <1>1, <2>1, <2>2 DEF TickInv, PageInv, SnapshotInv, Addable, LinksTypeOK
  <2>3. ASSUME ipc = "sleep", lock = Nobody, built >= 0 PROVE links' = Upto(built)' /\ Within'
    <3>1. built = Height /\ links = ToSet(chain) \X Parts /\ paths \subseteq ToSet(chain)
      BY <1>2, <2>3 DEF SnapshotInv, Fresh, Whole, Within
    <3>2. ToSet(chain) = {chain[i] : i \in 1..Height}
      BY ChainLen DEF ToSet
    <3>3. \A i \in 1..Height : chain'[i] = chain[i]
      BY <1>1, ChainGrows
    <3>4. {chain'[i] : i \in 1..Height} = {chain[i] : i \in 1..Height}
      BY <3>3
    <3>5. Parts' = Parts
      BY <1>1 DEF Parts
    <3>6. ToSet(chain) \subseteq ToSet(chain')
      BY <1>1, <3>2, <3>3, ChainGrows, ChainLen DEF ToSet
    <3> QED
      BY <1>1, <3>1, <3>2, <3>4, <3>5, <3>6 DEF Upto, Within
  <2> QED
    BY <1>1, <2>1, <2>2, <2>3 DEF PageInv, SnapshotInv, Addable
<1> QED
  BY <1>1, <1>3, <1>4

\* The tests of refresh_index are enough: what they absorb or leave alone can be.
LEMMA Decide_Exact ==
  ASSUME LinksTypeOK, ExactInv, Decide
  PROVE  ExactInv'
<1> SUFFICES ASSUME faults = 0, rewound # "absorbed", ~Forced
             PROVE  PageInv' /\ (built >= 0 => SnapshotInv')
  BY DEF ExactInv, Decide, Forced, snapshot, http
<1>1. /\ ipc = "decide" /\ lock = Nobody /\ after' = built
      /\ UNCHANGED <<chain, links, paths, built, dirty, due, listed, lock, rewound, hpc, buf, trail>>
      /\ ipc' = IF NeedsFull THEN "full" ELSE IF Height > built THEN "absorb" ELSE "sleep"
  BY DEF Decide, index, snapshot, http
<1>2. /\ Whole' = Whole /\ (ToSet(chain))' = ToSet(chain) /\ Height' = Height /\ Parts' = Parts
      /\ Within' = Within
  BY <1>1 DEF Whole, Parts, Height, Within
<1>3. PageInv'
  BY <1>1, <1>2 DEF ExactInv, PageInv
<1>4. ASSUME built >= 0 PROVE SnapshotInv'
  <2>1. Fresh \/ (dirty /\ Addable)
    BY <1>1, <1>4 DEF ExactInv, SnapshotInv
  <2>2. Height \in Nat /\ built \in Nat
    BY <1>4, ChainLen DEF LinksTypeOK
  <2>3. CASE ipc' = "full"
    BY <2>3 DEF SnapshotInv
  <2>4. CASE ipc' = "absorb"
    <3>1. ~NeedsFull /\ Height > built
      BY <1>1, <2>4
    <3>2. rewound = "yes" \/ (links = Upto(built) /\ Within)
      BY <2>1, <2>2, <3>1 DEF Fresh, Addable
    <3>3. ASSUME links = Upto(built) PROVE links' \cup NewParts' = Whole'
      <4>1. Upto(built) = {chain[i] : i \in 1..built} \X Parts
        BY DEF Upto
      <4>2. NewParts' = {chain[i] : i \in {j \in 1 .. Height : j > built}} \X Parts
        BY <1>1, <1>2 DEF NewParts
      <4>3. ToSet(chain) = {chain[i] : i \in 1..Height}
        BY ChainLen DEF ToSet
      <4>4. {chain[i] : i \in 1..built} \cup {chain[i] : i \in {j \in 1 .. Height : j > built}}
                = {chain[i] : i \in 1..Height}
        BY <2>2, <3>1
      <4> HIDE DEF Parts
      <4>5. Upto(built) \cup NewParts' = Whole
        BY <4>1, <4>2, <4>3, <4>4 DEF Whole
      <4> QED
        BY <1>1, <1>2, <3>3, <4>5
    <3> QED
      BY <1>1, <1>2, <2>4, <3>2, <3>3 DEF SnapshotInv
  <2>5. CASE ipc' = "sleep"
    <3>1. ~NeedsFull /\ ~(Height > built)
      BY <1>1, <2>5
    <3>2. ~(Height < built) /\ ~(dirty /\ Height <= built)
      BY <3>1 DEF NeedsFull
    <3>3. Fresh
      BY <2>1, <2>2, <3>1, <3>2
    <3> QED
      BY <1>1, <1>2, <2>5, <3>3 DEF SnapshotInv, Fresh
  <2> QED
    BY <1>1, <2>3, <2>4, <2>5
<1> QED
  BY <1>3, <1>4

LEMMA Refresh_Exact ==
  ASSUME LinksTypeOK, TickInv, ExactInv, Refresh
  PROVE  ExactInv'
<1>1. CASE Invalidate
  <2>1. /\ ipc = "invalidate" /\ ipc' = "decide" /\ dirty' = TRUE /\ lock = Nobody
        /\ UNCHANGED <<chain, links, paths, built, listed, lock, rewound, hpc, buf, trail, faults>>
    BY <1>1 DEF Invalidate, index, http
  <2>2. \A h \in Http : hpc[h] \notin Busy
    BY <2>1, LinksAssumption DEF LinksTypeOK
  <2>3. PageInv'
    BY <2>1, <2>2 DEF PageInv, Busy
  <2>4. Upto(built)' = Upto(built) /\ Height' = Height /\ Within' = Within
    BY <2>1 DEF Upto, Parts, Height, Within
  <2>5. SnapshotInv => SnapshotInv'
    BY <2>1, <2>4 DEF SnapshotInv, Addable
  <2> QED
    BY <2>1, <2>3, <2>5 DEF ExactInv, Forced
<1>2. CASE Decide
  BY <1>2, Decide_Exact
<1>3. CASE Rebuild
  <2>1. /\ ipc' = "sleep" /\ lock = Nobody /\ lock' = lock /\ built' = Height /\ dirty' = FALSE
        /\ links' = ToSet(chain) \X (IF listed' THEN {"spend", "change"} ELSE {"spend"})
        /\ paths' = ToSet(chain) /\ UNCHANGED <<chain, hpc, buf>>
    BY <1>3 DEF Rebuild, index, http
  <2>2. \A h \in Http : hpc[h] \notin Busy
    BY <2>1, LinksAssumption DEF LinksTypeOK
  <2>3. PageInv'
    BY <2>1, <2>2 DEF PageInv, Busy
  <2>4. links' = Whole' /\ Height' = Height /\ Within'
    BY <2>1 DEF Whole, Parts, Height, Within
  <2> QED
    BY <2>1, <2>3, <2>4 DEF ExactInv, SnapshotInv, Fresh
<1>4. CASE Absorb
  <2>1. /\ ipc = "absorb" /\ ipc' = "sleep" /\ lock = Nobody /\ built' = Height /\ dirty' = FALSE
        /\ links' = links \cup NewParts
        /\ rewound' = IF rewound = "no" THEN "no" ELSE "absorbed"
        /\ UNCHANGED <<chain, paths, listed, lock, after, hpc, buf, faults>>
    BY <1>4 DEF Absorb, index, http
  <2>2. \A h \in Http : hpc[h] \notin Busy
    BY <2>1, LinksAssumption DEF LinksTypeOK
  <2>3. PageInv'
    BY <2>1, <2>2 DEF PageInv, Busy
  <2>4. Whole' = Whole /\ Height' = Height /\ Within' = Within
    BY <2>1 DEF Whole, Parts, Height, Within
  <2> QED
    BY <2>1, <2>3, <2>4 DEF TickInv, ExactInv, SnapshotInv, Fresh, Forced
<1> QED
  BY <1>1, <1>2, <1>3, <1>4 DEF Refresh

\* A page that takes the lock, reads and writes leaves the blocks and the indexer
\* alone; what it reads while the indexer does not write is right.
LEMMA Rebuilding_Exact ==
  ASSUME LinksTypeOK, ExactInv, NEW h \in Http,
         EnterRebuild(h) \/ Reads(h) \/ Write(h)
  PROVE  ExactInv'
<1> SUFFICES ASSUME faults = 0, rewound # "absorbed", ~Forced' PROVE PageInv' /\ lock' # Nobody
  BY DEF ExactInv, EnterRebuild, Reads, ReadPaths, ReadSpends, ReadChanges, ReadAgain, Write, indexer
<1>1. UNCHANGED <<chain, ipc>> /\ lock' = h /\ lock' # Nobody
  BY LinksAssumption DEF EnterRebuild, Reads, ReadPaths, ReadSpends, ReadChanges, ReadAgain, Write,
                         index, indexer, LinksTypeOK, Busy
<1>2. (ToSet(chain))' = ToSet(chain)
  BY <1>1
<1>3. \A g \in Http \ {h} : hpc'[g] \notin Busy
  BY <1>1, LinksAssumption DEF LinksTypeOK, EnterRebuild, Reads, ReadPaths, ReadSpends, ReadChanges,
                               ReadAgain, Write, At
<1>4. CASE EnterRebuild(h)
  <2>1. hpc'[h] = "paths"
    BY <1>4 DEF EnterRebuild, At, LinksTypeOK
  <2> QED
    BY <1>1, <1>3, <2>1 DEF PageInv, Busy
<1>5. ASSUME Reads(h) \/ Write(h) PROVE ~Forced
  <2>1. \A g \in Http : hpc[g] = "force" => hpc'[g] = "force"
    BY <1>5 DEF Reads, ReadPaths, ReadSpends, ReadChanges, ReadAgain, Write, At, LinksTypeOK
  <2> QED
    BY <2>1 DEF Forced
<1>6. ASSUME Reads(h) \/ Write(h) PROVE PageInv
  BY <1>5, <1>6 DEF ExactInv, Reads, ReadPaths, ReadSpends, ReadChanges, ReadAgain, Write
<1>7. CASE ReadPaths(h)
  <2>1. hpc'[h] = "spends" /\ trail'[h] = ToSet(chain)
    BY <1>7 DEF ReadPaths, At, LinksTypeOK
  <2> QED
    BY <1>1, <1>2, <1>3, <2>1 DEF PageInv, Busy
<1>8. CASE ReadSpends(h)
  <2>1. hpc[h] = "spends" /\ hpc'[h] = "changes" /\ buf'[h] = ToSet(chain) \X {"spend"} /\ trail' = trail
    BY <1>8 DEF ReadSpends, At, LinksTypeOK
  <2>2. PageInv
    BY <1>6, <1>8 DEF Reads
  <2> QED
    BY <1>1, <1>2, <1>3, <2>1, <2>2 DEF PageInv, Busy
<1>9. CASE ReadChanges(h)
  <2>1. /\ hpc[h] = "changes" /\ hpc'[h] = "again" /\ UNCHANGED <<listed, trail>>
        /\ buf'[h] = buf[h] \cup ToSet(chain) \X (Parts \ {"spend"})
    BY <1>9 DEF ReadChanges, At, LinksTypeOK
  <2>2. (ToSet(chain) \X {"spend"}) \cup ToSet(chain) \X (Parts \ {"spend"}) = Whole
    BY DEF Whole, Parts
  <2>3. Whole' = Whole
    BY <1>1, <2>1 DEF Whole, Parts
  <2>4. PageInv
    BY <1>6, <1>9 DEF Reads
  <2> QED
    BY <1>1, <1>2, <1>3, <2>1, <2>2, <2>3, <2>4 DEF PageInv, Busy
<1>10. CASE ReadAgain(h)
  <2>1. /\ hpc[h] = "again" /\ hpc'[h] = "write" /\ UNCHANGED <<listed, trail>>
        /\ buf'[h] = buf[h] \cup ToSet(chain) \X {"spend"}
    BY <1>10 DEF ReadAgain, At, LinksTypeOK
  <2>2. Whole \cup ToSet(chain) \X {"spend"} = Whole
    BY DEF Whole, Parts
  <2>3. Whole' = Whole
    BY <1>1, <2>1 DEF Whole, Parts
  <2>4. PageInv
    BY <1>6, <1>10 DEF Reads
  <2> QED
    BY <1>1, <1>2, <1>3, <2>1, <2>2, <2>3, <2>4 DEF PageInv, Busy
<1>11. CASE Write(h)
  <2>1. /\ hpc[h] = "write" /\ hpc'[h] = "finish" /\ UNCHANGED listed
        /\ links' = buf[h] /\ paths' = trail[h]
    BY <1>11 DEF Write, At, LinksTypeOK
  <2>2. Whole' = Whole
    BY <1>1, <2>1 DEF Whole, Parts
  <2>3. PageInv
    BY <1>6, <1>11
  <2> QED
    BY <1>1, <1>2, <1>3, <2>1, <2>2, <2>3 DEF PageInv, Busy, Within
<1> QED
  BY <1>1, <1>4, <1>7, <1>8, <1>9, <1>10, <1>11 DEF Reads

\* The rebuild takes the height it ends at for the height it was built at.
LEMMA Finish_Exact ==
  ASSUME LinksTypeOK, ExactInv, NEW h \in Http, Finish(h)
  PROVE  ExactInv'
<1> SUFFICES ASSUME faults = 0, rewound # "absorbed", ~Forced' PROVE PageInv' /\ SnapshotInv'
  BY DEF ExactInv, Finish, indexer
<1>1. /\ hpc[h] = "finish" /\ hpc'[h] = "idle" /\ built' = Height /\ dirty' = FALSE
      /\ UNCHANGED <<chain, ipc, after, rewound, links, paths, listed, buf, trail>>
      /\ \A g \in Http \ {h} : hpc'[g] = hpc[g] /\ hpc[g] \notin Busy
  BY DEF Finish, index, indexer, At, LinksTypeOK, Busy
<1>2. ~Forced
  BY <1>1 DEF Forced
<1>3. ipc \in {"sleep", "decide", "full", "absorb"} => links = Whole /\ Within
  BY <1>1, <1>2 DEF ExactInv, PageInv
<1>4. Whole' = Whole /\ Height' = Height /\ Height \in Nat /\ Within' = Within
  BY <1>1, ChainLen DEF Whole, Parts, Height, Within
<1>5. NewParts' \subseteq Whole
  <2>1. NewParts' = {chain[i] : i \in {j \in 1 .. Height : j > after}} \X Parts
    BY <1>1 DEF NewParts, Parts, Height
  <2>2. {chain[i] : i \in {j \in 1 .. Height : j > after}} \subseteq ToSet(chain)
    BY ChainLen DEF ToSet
  <2> QED
    BY <2>1, <2>2 DEF Whole
<1>6. PageInv'
  BY <1>1 DEF PageInv, Busy
<1>7. ipc \in {"sleep", "decide"} => Fresh'
  BY <1>1, <1>3, <1>4 DEF Fresh
<1>8. ipc = "invalidate" => Addable'
  BY <1>1, <1>4 DEF Addable
<1>9. ipc = "absorb" => links' \cup NewParts' = Whole' /\ Within'
  BY <1>1, <1>3, <1>4, <1>5
<1> QED
  BY <1>1, <1>6, <1>7, <1>8, <1>9 DEF SnapshotInv

\* ensure_fresh learns of the relay's list only for a rebuild to come.
LEMMA EnsureFresh_Forces ==
  ASSUME LinksTypeOK, NEW h \in Http, EnsureFresh(h), hpc'[h] # "force"
  PROVE  listed' = listed
<1>1. CASE built < 0
  BY <1>1 DEF EnsureFresh, LinksTypeOK
<1>2. CASE built >= 0
  <2>1. built \in Nat \cup {-1} /\ ~(built < 0)
    BY <1>2 DEF LinksTypeOK
  <2>2. hpc'[h] = IF listed' THEN "force" ELSE "idle"
    BY <2>1 DEF EnsureFresh, At, LinksTypeOK
  <2>4. listed' \in {listed, TRUE}
    BY <1>2 DEF EnsureFresh, RelayAnswers
  <2>5. listed \in BOOLEAN
    BY DEF LinksTypeOK
  <2> QED
    BY <2>2, <2>4, <2>5
<1> QED
  BY <1>1, <1>2 DEF LinksTypeOK

\* The steps that change nothing the snapshot is compared with: a page that comes
\* or leaves, unless a rebuild is to come for it, and the clock.
LEMMA Aside_Exact ==
  ASSUME LinksTypeOK, ExactInv, NEW h \in Http, EnsureFresh(h) \/ SkipRebuild(h)
  PROVE  ExactInv'
<1> SUFFICES ASSUME faults = 0, rewound # "absorbed", ~Forced'
             PROVE  PageInv' /\ (lock' = Nobody /\ built' >= 0 => SnapshotInv')
  BY DEF ExactInv, EnsureFresh, SkipRebuild, indexer
<1>1. /\ UNCHANGED <<chain, ipc, after, rewound, links, paths, built, dirty, lock, buf, trail>>
      /\ hpc' \in [Http -> {"idle", "enter", "force"} \cup Busy]
      /\ \A g \in Http \ {h} : hpc'[g] = hpc[g]
      /\ hpc[h] \notin Busy \cup {"force"} /\ hpc'[h] \notin Busy
  BY DEF EnsureFresh, SkipRebuild, index, indexer, snapshot, At, LinksTypeOK, Busy
<1>2. ~Forced
  BY <1>1 DEF Forced
<1>3. listed' = listed
  <2>1. hpc'[h] # "force"
    BY DEF Forced
  <2> QED
    BY <2>1, EnsureFresh_Forces DEF SkipRebuild
<1>4. PageInv /\ (lock = Nobody /\ built >= 0 => SnapshotInv)
  BY <1>2 DEF ExactInv, EnsureFresh, SkipRebuild
<1>5. /\ Whole' = Whole /\ Height' = Height /\ NewParts' = NewParts /\ Upto(built)' = Upto(built)
      /\ (ToSet(chain))' = ToSet(chain) /\ Within' = Within
  BY <1>1, <1>3 DEF Whole, Parts, Height, NewParts, Upto, Within
<1>6. PageInv'
  BY <1>1, <1>4, <1>5 DEF PageInv, Busy
<1>7. SnapshotInv => SnapshotInv'
  BY <1>1, <1>5 DEF SnapshotInv, Fresh, Addable
<1> QED
  BY <1>1, <1>4, <1>6, <1>7

LEMMA Unchanged_Exact ==
  ASSUME ExactInv, UNCHANGED <<chain, links, paths, built, dirty, listed, lock, ipc, after, rewound,
                               hpc, buf, trail, faults>>
  PROVE  ExactInv'
<1>1. /\ Whole' = Whole /\ Height' = Height /\ NewParts' = NewParts /\ Upto(built)' = Upto(built)
      /\ (ToSet(chain))' = ToSet(chain) /\ Forced' = Forced /\ Within' = Within
  BY DEF Whole, Parts, Height, NewParts, Upto, Forced, Within
<1>2. PageInv => PageInv'
  BY <1>1 DEF PageInv
<1>3. SnapshotInv => SnapshotInv'
  BY <1>1 DEF SnapshotInv, Fresh, Addable
<1> QED
  BY <1>1, <1>2, <1>3 DEF ExactInv

LEMMA Next_Exact == LinksTypeOK /\ TickInv /\ ExactInv /\ [Next]_vars => ExactInv'
<1> SUFFICES ASSUME LinksTypeOK, TickInv, ExactInv, [Next]_vars PROVE ExactInv'
  OBVIOUS
<1>1. CASE TickRewinds
  <2>1. ipc' = "batch"
    BY <1>1 DEF TickRewinds
  <2> QED
    BY <2>1 DEF ExactInv, PageInv, SnapshotInv
<1>2. ASSUME NEW n \in 0 .. Batch, TickIndexes(n) PROVE ExactInv'
  BY <1>2, Indexes_Exact
<1>3. CASE \/ \E n \in 0 .. Batch : TickFails(n)
           \/ RefreshFails
           \/ \E h \in Http : RebuildFails(h)
  <2>1. faults' = faults + 1 /\ faults \in Nat
    BY <1>3 DEF TickFails, RefreshFails, RebuildFails, Fault, LinksTypeOK
  <2> QED
    BY <2>1 DEF ExactInv
<1>4. CASE Refresh
  BY <1>4, Refresh_Exact
<1>5. CASE Timer \/ UNCHANGED vars
  BY <1>5, Unchanged_Exact DEF Timer, vars, index, snapshot, indexer, http
<1>6. ASSUME NEW h \in Http, EnsureFresh(h) \/ Serve(h) PROVE ExactInv'
  BY <1>6, Aside_Exact, Rebuilding_Exact, Finish_Exact DEF Serve
<1> QED
  BY <1>1, <1>2, <1>3, <1>4, <1>5, <1>6 DEF Next, Tick

LEMMA Init_Exact == Init => LinksTypeOK /\ TickInv /\ ExactInv
<1> SUFFICES ASSUME Init PROVE LinksTypeOK /\ TickInv /\ ExactInv
  OBVIOUS
<1>1. chain \in Seq(Nat) /\ DOMAIN chain = {}
  BY DEF Init
<1>2. LinksTypeOK
  BY <1>1, LinksAssumption DEF Init, LinksTypeOK, Busy
<1>3. TickInv /\ ExactInv
  BY DEF Init, TickInv, ExactInv, PageInv, SnapshotInv
<1> QED
  BY <1>2, <1>3

\* Between ticks and with no rebuild under way, and unless a fault or growth that
\* was absorbed after a rewind stands in the way, the snapshot is the one of the
\* indexed blocks: for any number of pages that rebuild it while the indexer
\* commits, invalidates and refreshes (tick, invalidate, refresh_index, rebuild).
THEOREM Spec_SettledExact == Spec => []SettledExact
<1>1. Init => LinksTypeOK /\ TickInv /\ ExactInv
  BY Init_Exact
<1>2. LinksTypeOK /\ TickInv /\ ExactInv /\ [Next]_vars => LinksTypeOK' /\ TickInv' /\ ExactInv'
  BY Next_Type, Next_Tick, Next_Exact
<1>3. LinksTypeOK /\ ExactInv => SettledExact
  <2> SUFFICES ASSUME LinksTypeOK, ExactInv, Settled, faults = 0, rewound # "absorbed"
               PROVE  Exact
    BY DEF SettledExact
  <2>1. lock = Nobody /\ ~Forced
    BY DEF Settled, LinksTypeOK, Busy, Forced
  <2> QED
    BY <2>1 DEF ExactInv, SnapshotInv, Settled, Fresh, Exact, Whole, Within
<1> QED
  BY <1>1, <1>2, <1>3, PTL DEF Spec

-------------------------------------------------------------------------------
(* The relay's list.                                                       *)

\* Blocks that go leave a set balanced, and so do blocks it cannot know yet.
LEMMA Balanced_Kept ==
  ASSUME NEW set, set \subseteq (0..indexed) \X Kinds, Balanced(set), indexed \in Nat,
         \A b \in ToSet(chain)' : b \in ToSet(chain) \/ b > indexed
  PROVE  \A b \in ToSet(chain)' : <<b, "spend">> \in set => <<b, "change">> \in set
<1> SUFFICES ASSUME NEW b \in ToSet(chain)', <<b, "spend">> \in set PROVE <<b, "change">> \in set
  OBVIOUS
<1>1. b \in 0..indexed
  OBVIOUS
<1>2. b \in ToSet(chain)
  BY <1>1
<1> QED
  BY <1>2 DEF Balanced

LEMMA Tick_Listed == LinksTypeOK /\ ListedInv /\ Tick => ListedInv'
<1> SUFFICES ASSUME LinksTypeOK, ListedInv, Tick, faults' = 0, listed', ~Forced'
             PROVE  /\ lock' = Nobody => Balanced(links)'
                    /\ \A h \in Http : ipc' # "invalidate" =>
                          /\ hpc'[h] = "again" => Covered(buf[h])'
                          /\ hpc'[h] = "write" => Balanced(buf[h])'
                          /\ hpc'[h] = "finish" => Balanced(links)'
  BY DEF ListedInv
<1>1. UNCHANGED <<links, listed, lock, hpc, buf>> /\ ipc \in {"sleep", "batch"}
  BY DEF Tick, TickRewinds, TickIndexes, TickFails, AddBlocks, snapshot, http
<1>2. faults = 0 /\ ~(\E n \in 0 .. Batch : TickFails(n))
  <2>1. faults \in Nat
    BY DEF LinksTypeOK
  <2>2. ASSUME \E n \in 0 .. Batch : TickFails(n) PROVE faults' = faults + 1
    BY <2>2 DEF TickFails, Fault
  <2>3. faults' \in {faults, faults + 1}
    BY DEF Tick, TickRewinds, TickIndexes, TickFails, Fault
  <2> QED
    BY <2>1, <2>2, <2>3
<1>3. /\ \A b \in ToSet(chain)' : b \in ToSet(chain) \/ b > indexed
      /\ ipc' # "invalidate" => ToSet(chain)' \subseteq ToSet(chain)
  <2>1. DOMAIN chain = 1..Height /\ Height \in Nat /\ indexed \in Nat
    BY ChainLen DEF LinksTypeOK
  <2>2. CASE TickRewinds
    <3>1. /\ DOMAIN chain' = 1..Height' /\ Height' \in Nat /\ Height' < Height
          /\ \A i \in 1..Height' : chain'[i] = chain[i]
      BY <2>2, ChainIsCut
    <3>2. \A i \in 1..Height' : i \in 1..Height
      BY <2>1, <3>1
    <3> QED
      BY <2>1, <3>1, <3>2 DEF ToSet
  <2>3. ASSUME NEW n \in 0 .. Batch, TickIndexes(n)
        PROVE  /\ \A b \in ToSet(chain)' : b \in ToSet(chain) \/ b > indexed
               /\ ipc' # "invalidate" => ToSet(chain)' \subseteq ToSet(chain)
    <3>1. n \in Nat /\ AddBlocks(n) /\ (ipc' # "invalidate" => n = 0)
      BY <2>3, LinksAssumption DEF TickIndexes
    <3>2. /\ DOMAIN chain' = 1..Height + n
          /\ \A i \in 1..Height : chain'[i] = chain[i]
          /\ \A i \in Height + 1..Height + n : chain'[i] = indexed + i - Height
      BY <3>1, ChainGrows
    <3>3. ASSUME NEW i \in 1..Height + n
          PROVE  chain'[i] \in ToSet(chain) \/ (chain'[i] > indexed /\ n > 0)
      <4>1. CASE i \in 1..Height
        BY <2>1, <3>2, <4>1 DEF ToSet
      <4>2. CASE i \in Height + 1..Height + n
        BY <2>1, <3>1, <3>2, <4>2
      <4> QED
        BY <2>1, <3>1, <4>1, <4>2
    <3> QED
      BY <3>1, <3>2, <3>3 DEF ToSet
  <2> QED
    BY <1>2, <2>2, <2>3 DEF Tick
<1>4. ASSUME NEW set \in SUBSET ((0..indexed) \X Kinds), Balanced(set)
      PROVE  \A b \in ToSet(chain)' : <<b, "spend">> \in set => <<b, "change">> \in set
  BY <1>3, <1>4, Balanced_Kept DEF LinksTypeOK
<1>5. Forced' = Forced
  BY <1>1 DEF Forced
<1>6. /\ lock = Nobody => Balanced(links)
      /\ \A h \in Http : /\ hpc[h] = "again" => Covered(buf[h])
                         /\ hpc[h] = "write" => Balanced(buf[h])
                         /\ hpc[h] = "finish" => Balanced(links)
  BY <1>1, <1>2, <1>5 DEF ListedInv, Redone
<1>7. Balanced(links) => Balanced(links)'
  BY <1>1, <1>4 DEF LinksTypeOK, Balanced
<1>8. \A h \in Http : Balanced(buf[h]) => Balanced(buf[h])'
  BY <1>1, <1>4 DEF LinksTypeOK, Balanced
<1>9. \A h \in Http : ipc' # "invalidate" /\ Covered(buf[h]) => Covered(buf[h])'
  BY <1>1, <1>3 DEF Covered
<1> QED
  BY <1>1, <1>6, <1>7, <1>8, <1>9

LEMMA Refresh_Listed == LinksTypeOK /\ ListedInv /\ Refresh => ListedInv'
<1> SUFFICES ASSUME LinksTypeOK, ListedInv, Refresh PROVE ListedInv'
  OBVIOUS
<1>1. lock = Nobody /\ lock' = lock /\ UNCHANGED <<chain, hpc, buf, faults>>
  BY DEF Refresh, Invalidate, Decide, Rebuild, Absorb, index, snapshot, http
<1>2. \A h \in Http : hpc'[h] \notin Busy
  BY <1>1, LinksAssumption DEF LinksTypeOK
<1>3. ASSUME faults = 0 /\ listed /\ ~Forced => Balanced(links)' \/ Redone', UNCHANGED listed
      PROVE  ListedInv'
  <2>1. Forced' = Forced
    BY <1>1 DEF Forced
  <2> QED
    BY <1>1, <1>2, <1>3, <2>1 DEF ListedInv, Busy
<1>4. Balanced(links) /\ UNCHANGED links => Balanced(links)'
  BY <1>1 DEF Balanced
<1>5. CASE Invalidate
  <2>1. /\ ipc = "invalidate" /\ ipc' = "decide" /\ dirty' /\ UNCHANGED <<links, built, listed>>
        /\ Height' = Height
    BY <1>5 DEF Invalidate, index, Height
  <2> QED
    BY <1>1, <1>3, <1>4, <2>1 DEF ListedInv, Redone
<1>6. CASE Decide
  <2>1. /\ ipc = "decide" /\ UNCHANGED <<links, built, listed>>
        /\ NeedsFull => ipc' = "full"
    BY <1>6 DEF Decide, snapshot
  <2>2. built >= Height /\ dirty => NeedsFull
    BY ChainLen DEF NeedsFull, LinksTypeOK
  <2> QED
    BY <1>1, <1>3, <1>4, <2>1, <2>2 DEF ListedInv, Redone
<1>7. CASE Rebuild
  <2>1. listed' => Balanced(links)'
    BY <1>1, <1>7 DEF Rebuild, Balanced
  <2> QED
    BY <1>2, <2>1 DEF ListedInv, Busy
<1>8. CASE Absorb
  <2>1. ipc = "absorb" /\ UNCHANGED listed /\ links' = links \cup NewParts
    BY <1>8 DEF Absorb
  <2>2. ASSUME faults = 0, listed, ~Forced PROVE Balanced(links)'
    <3>1. Balanced(links)
      BY <1>1, <2>1, <2>2 DEF ListedInv, Redone
    <3>2. \A b : <<b, "spend">> \in NewParts => <<b, "change">> \in NewParts
      BY <2>2 DEF NewParts, Parts
    <3> QED
      BY <1>1, <2>1, <3>1, <3>2 DEF Balanced
  <2> QED
    BY <1>3, <2>1, <2>2
<1> QED
  BY <1>5, <1>6, <1>7, <1>8 DEF Refresh

LEMMA Page_Listed ==
  ASSUME LinksTypeOK, ListedInv, NEW h \in Http, EnsureFresh(h) \/ Serve(h)
  PROVE  ListedInv'
<1> SUFFICES ASSUME faults = 0, listed', ~Forced'
             PROVE  /\ lock' = Nobody => Balanced(links)' \/ Redone'
                    /\ \A g \in Http : ipc' # "invalidate" =>
                          /\ hpc'[g] = "again" => Covered(buf[g])'
                          /\ hpc'[g] = "write" => Balanced(buf[g])'
                          /\ hpc'[g] = "finish" => Balanced(links)'
  BY DEF ListedInv, EnsureFresh, Serve, SkipRebuild, EnterRebuild, Reads, ReadPaths, ReadSpends,
         ReadChanges, ReadAgain, Write, Finish
<1>0. UNCHANGED <<chain, ipc>> /\ Height' = Height
  BY DEF EnsureFresh, Serve, SkipRebuild, EnterRebuild, Reads, ReadPaths, ReadSpends, ReadChanges,
         ReadAgain, Write, Finish, index, indexer, Height
<1>1. CASE EnsureFresh(h) \/ SkipRebuild(h)
  <2>1. /\ UNCHANGED <<links, built, dirty, lock, buf>>
        /\ \A g \in Http \ {h} : hpc'[g] = hpc[g]
        /\ hpc[h] \notin Busy \cup {"force"} /\ hpc'[h] \notin Busy
    BY <1>1 DEF EnsureFresh, SkipRebuild, snapshot, At, LinksTypeOK, Busy
  <2>2. ~Forced /\ hpc'[h] # "force"
    BY <2>1 DEF Forced
  <2>3. listed' = listed
    BY <1>1, <2>2, EnsureFresh_Forces DEF SkipRebuild
  <2> QED
    BY <1>0, <2>1, <2>2, <2>3 DEF ListedInv, Balanced, Covered, Redone, Busy
<1>2. CASE EnterRebuild(h) \/ ReadPaths(h) \/ ReadSpends(h)
  <2>1. /\ lock' = h /\ lock' # Nobody /\ hpc'[h] \in {"paths", "spends", "changes"}
        /\ \A g \in Http \ {h} : hpc'[g] \notin Busy
    BY <1>2, LinksAssumption DEF EnterRebuild, ReadPaths, ReadSpends, At, LinksTypeOK, Busy
  <2> QED
    BY <2>1 DEF Busy
<1>3. CASE ReadChanges(h)
  <2>1. /\ lock' = h /\ lock' # Nobody /\ hpc'[h] = "again" /\ UNCHANGED listed
        /\ \A g \in Http \ {h} : hpc'[g] \notin Busy
        /\ buf'[h] = buf[h] \cup ToSet(chain) \X (Parts \ {"spend"})
    BY <1>3, LinksAssumption DEF ReadChanges, At, LinksTypeOK, Busy
  <2>2. "change" \in Parts \ {"spend"}
    BY <2>1 DEF Parts
  <2>3. \A b \in ToSet(chain) : <<b, "change">> \in buf'[h]
    BY <2>1, <2>2
  <2> QED
    BY <1>0, <2>1, <2>3 DEF Covered, Busy
<1>4. CASE ReadAgain(h)
  <2>1. /\ lock' = h /\ lock' # Nobody /\ hpc[h] = "again" /\ hpc'[h] = "write"
        /\ \A g \in Http \ {h} : hpc'[g] \notin Busy
        /\ UNCHANGED listed /\ buf[h] \subseteq buf'[h]
    BY <1>4, LinksAssumption DEF ReadAgain, At, LinksTypeOK, Busy
  <2>2. ~Forced
    BY <1>4, <2>1 DEF Forced, ReadAgain, At, LinksTypeOK
  <2>3. ipc # "invalidate" => Covered(buf[h])
    BY <2>1, <2>2 DEF ListedInv
  <2> QED
    BY <1>0, <2>1, <2>3 DEF Balanced, Covered, Busy
<1>5. CASE Write(h)
  <2>1. /\ lock' = h /\ lock' # Nobody /\ hpc[h] = "write" /\ hpc'[h] = "finish"
        /\ \A g \in Http \ {h} : hpc'[g] \notin Busy
        /\ UNCHANGED listed /\ links' = buf[h]
    BY <1>5, LinksAssumption DEF Write, At, LinksTypeOK, Busy
  <2>2. ~Forced
    BY <1>5, <2>1 DEF Forced, Write, At, LinksTypeOK
  <2>3. ipc # "invalidate" => Balanced(buf[h])
    BY <2>1, <2>2 DEF ListedInv
  <2> QED
    BY <1>0, <2>1, <2>3 DEF Balanced, Busy
<1>6. CASE Finish(h)
  <2>1. /\ hpc[h] = "finish" /\ hpc'[h] = "idle" /\ UNCHANGED <<listed, links>> /\ built' = Height
        /\ \A g \in Http \ {h} : hpc'[g] = hpc[g] /\ hpc[g] \notin Busy
    BY <1>6 DEF Finish, At, LinksTypeOK, Busy
  <2>2. ~Forced
    BY <2>1 DEF Forced
  <2>3. Balanced(links) \/ ipc = "invalidate"
    BY <2>1, <2>2 DEF ListedInv
  <2> QED
    BY <1>0, <2>1, <2>3, ChainLen DEF Balanced, Redone, Busy
<1> QED
  BY <1>1, <1>2, <1>3, <1>4, <1>5, <1>6 DEF Serve, Reads

LEMMA Next_Listed == LinksTypeOK /\ ListedInv /\ [Next]_vars => ListedInv'
<1> SUFFICES ASSUME LinksTypeOK, ListedInv, [Next]_vars PROVE ListedInv'
  OBVIOUS
<1>1. CASE Timer \/ UNCHANGED vars
  BY <1>1 DEF ListedInv, Balanced, Covered, Redone, Height, Forced, Timer, vars, index, snapshot,
              indexer, http
<1>2. CASE RefreshFails \/ \E h \in Http : RebuildFails(h)
  <2>1. faults' = faults + 1 /\ faults \in Nat
    BY <1>2 DEF RefreshFails, RebuildFails, Fault, LinksTypeOK
  <2> QED
    BY <2>1 DEF ListedInv
<1> QED
  BY <1>1, <1>2, Tick_Listed, Refresh_Listed, Page_Listed DEF Next

\* Once the relay's list is there, no block's outputs stay out of the snapshot,
\* rewinds or not: "the first build after the relay list finally loads" walks the
\* chain for them (ensure_fresh with force, rebuild, _absorb_new).
THEOREM Spec_ListUsed == Spec => []ListUsed
<1>1. Init => LinksTypeOK /\ ListedInv
  BY Init_Exact DEF Init, ListedInv
<1>2. LinksTypeOK /\ ListedInv /\ [Next]_vars => LinksTypeOK' /\ ListedInv'
  BY Next_Type, Next_Listed
<1>3. LinksTypeOK /\ ListedInv => ListUsed
  BY DEF ListUsed, Settled, LinksTypeOK, Busy, ListedInv, Redone, Forced, Balanced
<1> QED
  BY <1>1, <1>2, <1>3, PTL DEF Spec
===============================================================================
