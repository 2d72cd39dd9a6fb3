-------------------------- MODULE TradeFeedProofs --------------------------
(***************************************************************************)
(* Theorems about TradeFeed, for any transactions, stories and number of   *)
(* threads: lists are of their day, what is learned was verified, pages    *)
(* show trades once and rightly, deliveries serve as many buys as they     *)
(* can, and sells are found as far as the bounded searches look.           *)
(* The invariants are DayInv, with the truth TruthInv, with the sells      *)
(* SellsInv; each contains the one before it.                              *)
(***************************************************************************)
EXTENDS TradeFeedProperties, EmissionProofs, FiniteSetTheorems

-----------------------------------------------------------------------------
(* The chain: the blocks of the story, each with its own transactions.     *)

BlocksOf(s) == s.past \o s.new

ChainOK ==
    /\ story \in Stories
    /\ chain \in Seq([day : Nat, txs : Seq(DOMAIN Txs)]) /\ day \in Nat
    /\ mined \in Nat /\ arrived \in Nat /\ mined <= arrived /\ arrived <= Len(story.new)
    /\ Len(chain) = Len(story.past) + mined
    /\ \A k \in DOMAIN chain : chain[k].txs = BlocksOf(story)[k]
    /\ height \in 0 .. Len(chain)

\* These transactions are of that day.
OfDay(ids, d) ==
    \A id \in ids : \E k \in DOMAIN chain : id \in ToSet(chain[k].txs) /\ chain[k].day = d
RowsOfDay(rows, d) == \A row \in rows : "tx" \in DOMAIN row /\ OfDay({row.tx}, d)

\* The blocks of a story follow each other.
LEMMA StoryBlocks ==
    ASSUME NEW s \in Stories
    PROVE  /\ Len(s.past) \in Nat /\ Len(s.new) \in Nat
           /\ DOMAIN BlocksOf(s) = 1 .. Len(s.past) + Len(s.new)
           /\ \A k \in 1 .. Len(s.past) : BlocksOf(s)[k] = s.past[k]
           /\ \A k \in 1 .. Len(s.new) : BlocksOf(s)[Len(s.past) + k] = s.new[k]
           /\ DOMAIN s.past = 1 .. Len(s.past)
           /\ \A k \in 1 .. Len(s.past) : s.past[k] \in Seq(DOMAIN Txs)
           /\ \A k \in 1 .. Len(s.new) : s.new[k] \in Seq(DOMAIN Txs)
           /\ \A i, j \in DOMAIN BlocksOf(s) :
                 ToSet(BlocksOf(s)[i]) \cap ToSet(BlocksOf(s)[j]) # {} => i = j
<1>1. s.past \in Seq(Seq(DOMAIN Txs)) /\ s.new \in Seq(Seq(DOMAIN Txs))
  BY StoriesAssumption
<1>2. \A i, j \in DOMAIN BlocksOf(s) :
         ToSet(BlocksOf(s)[i]) \cap ToSet(BlocksOf(s)[j]) # {} => i = j
  BY StoriesAssumption DEF BlocksOf
<1> DEFINE p == s.past
           q == s.new
<1> HIDE DEF p, q
<1>3. p \in Seq(Seq(DOMAIN Txs)) /\ q \in Seq(Seq(DOMAIN Txs))
  BY <1>1 DEF p, q
<1>4. /\ Len(p) \in Nat /\ Len(q) \in Nat
      /\ DOMAIN (p \o q) = 1 .. Len(p) + Len(q)
      /\ \A k \in 1 .. Len(p) : (p \o q)[k] = p[k]
      /\ \A k \in 1 .. Len(q) : (p \o q)[Len(p) + k] = q[k]
      /\ DOMAIN p = 1 .. Len(p)
      /\ \A k \in 1 .. Len(p) : p[k] \in Seq(DOMAIN Txs)
      /\ \A k \in 1 .. Len(q) : q[k] \in Seq(DOMAIN Txs)
  BY <1>3
<1> QED
  BY <1>2, <1>4 DEF BlocksOf, p, q

\* The blocks that are mined are blocks of the story.
LEMMA ChainInStory ==
    ASSUME ChainOK
    PROVE  DOMAIN chain \subseteq DOMAIN BlocksOf(story)
<1> DEFINE n == Len(story.past)
           m == Len(story.new)
<1>1. n \in Nat /\ m \in Nat /\ DOMAIN BlocksOf(story) = 1 .. n + m
  BY StoryBlocks DEF ChainOK
<1>2. DOMAIN chain = 1 .. n + mined /\ mined \in Nat /\ arrived \in Nat /\ mined <= arrived /\ arrived <= m
  BY DEF ChainOK
<1> HIDE DEF n, m
<1> QED
  BY <1>1, <1>2

\* So a transaction has one block ...
LEMMA HeightIs ==
    ASSUME ChainOK, NEW k \in DOMAIN chain, NEW id \in ToSet(chain[k].txs)
    PROVE  HeightOf(id) = k
<1>1. \A h \in DOMAIN chain : id \in ToSet(chain[h].txs) => h = k
  <2> TAKE h \in DOMAIN chain
  <2>1. h \in DOMAIN BlocksOf(story) /\ k \in DOMAIN BlocksOf(story)
    BY ChainInStory
  <2>2. chain[h].txs = BlocksOf(story)[h] /\ chain[k].txs = BlocksOf(story)[k]
    BY DEF ChainOK
  <2> QED
    BY <2>1, <2>2, StoryBlocks DEF ChainOK
<1> QED
  BY <1>1 DEF HeightOf

\* ... and DayOf is the day of it.
LEMMA DayOfBlock ==
    ASSUME ChainOK, NEW id, NEW d, OfDay({id}, d)
    PROVE  DayOf(id) = d
<1>1. PICK k \in DOMAIN chain : id \in ToSet(chain[k].txs) /\ chain[k].day = d
  BY DEF OfDay
<1>2. HeightOf(id) = k
  BY <1>1, HeightIs
<1> QED
  BY <1>1, <1>2 DEF DayOf

\* The transactions that _trades_between gives for a day are of that day.
LEMMA DayTxsOfDay ==
    ASSUME ChainOK, NEW d
    PROVE  OfDay(DayTxs(height, d), d)
<1> SUFFICES ASSUME NEW id \in DayTxs(height, d)
             PROVE  \E k \in DOMAIN chain : id \in ToSet(chain[k].txs) /\ chain[k].day = d
  BY DEF OfDay
<1>1. id \in UNION {ToSet(chain[i].txs) : i \in 1 .. height} /\ DayOf(id) = d
  BY DEF DayTxs
<1>2. PICK i \in 1 .. height : id \in ToSet(chain[i].txs)
  BY <1>1
<1>3. i \in DOMAIN chain
  BY DEF ChainOK
<1>4. /\ HeightOf(id) \in DOMAIN chain
      /\ id \in ToSet(chain[HeightOf(id)].txs)
  BY <1>2, <1>3 DEF HeightOf
<1> QED
  BY <1>1, <1>4 DEF DayOf

\* A block that is mined takes no transaction out of its day.
LEMMA OfDayStays ==
    ASSUME NEW ids, NEW d, OfDay(ids, d),
           \A k \in DOMAIN chain : k \in DOMAIN chain' /\ chain'[k] = chain[k]
    PROVE  OfDay(ids, d)'
  BY DEF OfDay
-----------------------------------------------------------------------------
(* The list in memory and the lists of the threads.                        *)

FeedFields == {"key", "trades", "age", "gen", "misses", "feeMiss", "mem", "memKey", "memGen", "memAge"}

FeedOK ==
    /\ FeedFields \subseteq DOMAIN feed
    /\ feed.age # NotBuilt => RowsOfDay(feed.trades, feed.key)

\* What a thread has read for a day is of that day: the rows it found, and the
\* transactions that it will judge again.
Assembling == {"learn", "seek", "found"}
LocalsOK(l) ==
    /\ l.pc # "idle" => {"pc", "moment"} \subseteq DOMAIN l
    /\ l.pc \in {"store", "merge"} => "rows" \in DOMAIN l /\ RowsOfDay(l.rows, l.moment)
    /\ l.pc \in Assembling =>
          /\ {"rows", "retry", "routes"} \subseteq DOMAIN l
          /\ RowsOfDay(l.rows, l.moment)
          /\ OfDay(l.retry, l.moment) /\ OfDay(l.routes, l.moment)
ThreadsOK ==
    /\ DOMAIN th = story.threads
    /\ \A t \in story.threads : LocalsOK(th[t])

DayInv == ChainOK /\ FeedOK /\ ThreadsOK

LEMMA DayInv_OwnDay == DayInv => OwnDay
<1> SUFFICES ASSUME DayInv PROVE OwnDay
  OBVIOUS
<1>1. ASSUME feed.age # NotBuilt, NEW row \in feed.trades PROVE DayOf(row.tx) = feed.key
  BY <1>1, DayOfBlock DEF DayInv, FeedOK, RowsOfDay
<1>2. ASSUME NEW t \in story.threads, th[t].pc = "merge", NEW row \in th[t].rows
      PROVE  DayOf(row.tx) = th[t].moment
  BY <1>2, DayOfBlock DEF DayInv, ThreadsOK, LocalsOK, RowsOfDay
<1> QED
  BY <1>1, <1>2 DEF OwnDay

LEMMA Init_DayInv == Init => DayInv
<1> SUFFICES ASSUME Init PROVE DayInv
  OBVIOUS
<1>1. ChainOK
  <2> DEFINE n == Len(story.past)
  <2>0. story \in Stories
    BY DEF Init
  <2>1. n \in Nat /\ Len(story.new) \in Nat /\ DOMAIN story.past = 1 .. n
        /\ \A k \in 1 .. n : BlocksOf(story)[k] = story.past[k]
        /\ \A j \in 1 .. n : story.past[j] \in Seq(DOMAIN Txs)
    BY <2>0, StoryBlocks
  <2>2. chain = [i \in DOMAIN story.past |-> [day |-> 0, txs |-> story.past[i]]]
    BY DEF Init
  <2> HIDE DEF n
  <2>3. chain = [i \in 1 .. n |-> [day |-> 0, txs |-> story.past[i]]]
    BY <2>1, <2>2
  <2>4. /\ chain \in Seq([day : Nat, txs : Seq(DOMAIN Txs)])
        /\ Len(chain) = n /\ DOMAIN chain = 1 .. n
        /\ \A k \in 1 .. n : chain[k].txs = story.past[k]
    BY <2>1, <2>3
  <2>5. mined = 0 /\ arrived = 0 /\ height = n /\ day = 0
    BY DEF Init, n
  <2>6. Len(story.past) = n
    BY DEF n
  <2> QED
    BY <2>0, <2>1, <2>4, <2>5, <2>6 DEF ChainOK
<1>2. FeedOK
  BY DEF Init, FeedOK, FeedFields, NotBuilt
<1>3. ThreadsOK
  BY DEF Init, ThreadsOK, LocalsOK, Idle, Assembling
<1> QED
  BY <1>1, <1>2, <1>3 DEF DayInv
-----------------------------------------------------------------------------
(* The world moves.                                                        *)

\* If no mined block is changed and the lists stay, they stay in order.
LEMMA ListsStay ==
    ASSUME FeedOK, ThreadsOK, UNCHANGED <<story, th>>,
           \A k \in DOMAIN chain : k \in DOMAIN chain' /\ chain'[k] = chain[k],
           FeedFields \subseteq DOMAIN feed',
           feed'.age # NotBuilt => feed.age # NotBuilt,
           feed'.trades = feed.trades, feed'.key = feed.key
    PROVE  FeedOK' /\ ThreadsOK'
<1>1. \A rows, d : RowsOfDay(rows, d) => RowsOfDay(rows, d)'
  BY OfDayStays DEF RowsOfDay
<1>2. \A ids, d : OfDay(ids, d) => OfDay(ids, d)'
  BY OfDayStays
<1>3. FeedOK'
  BY <1>1 DEF FeedOK
<1>4. ASSUME NEW l, LocalsOK(l) PROVE LocalsOK(l)'
  BY <1>1, <1>2, <1>4 DEF LocalsOK
<1> QED
  BY <1>3, <1>4 DEF ThreadsOK

LEMMA Broadcast_Inv == DayInv /\ Broadcast => DayInv'
<1> SUFFICES ASSUME DayInv, Broadcast PROVE DayInv'
  OBVIOUS
<1>1. Len(story.new) \in Nat
  BY StoryBlocks DEF DayInv, ChainOK
<1>2. ChainOK'
  BY <1>1 DEF DayInv, ChainOK, Broadcast
<1>3. FeedOK' /\ ThreadsOK'
  BY ListsStay DEF DayInv, FeedOK, Broadcast
<1> QED
  BY <1>2, <1>3 DEF DayInv

LEMMA Mined_Inv == DayInv /\ Mined => DayInv'
<1> SUFFICES ASSUME DayInv, Mined PROVE DayInv'
  OBVIOUS
<1> DEFINE n == Len(story.past)
           m == Len(story.new)
           b == [day |-> day, txs |-> story.new[mined + 1]]
<1>1. /\ n \in Nat /\ m \in Nat
      /\ \A k \in 1 .. m : story.new[k] \in Seq(DOMAIN Txs)
      /\ \A k \in 1 .. m : BlocksOf(story)[n + k] = story.new[k]
  BY StoryBlocks DEF DayInv, ChainOK
<1>2. /\ chain \in Seq([day : Nat, txs : Seq(DOMAIN Txs)]) /\ day \in Nat
      /\ mined \in Nat /\ arrived \in Nat /\ mined < arrived /\ arrived <= m
      /\ Len(chain) = n + mined /\ height = Len(chain)
      /\ \A k \in DOMAIN chain : chain[k].txs = BlocksOf(story)[k]
  BY DEF DayInv, ChainOK, Mined
<1>3. chain' = Append(chain, b) /\ mined' = mined + 1
  BY DEF Mined
<1>4. mined + 1 \in 1 .. m
  <2> HIDE DEF m
  <2> QED BY <1>1, <1>2
<1>5. b \in [day : Nat, txs : Seq(DOMAIN Txs)] /\ b.txs = BlocksOf(story)[n + mined + 1]
  <2>1. story.new[mined + 1] \in Seq(DOMAIN Txs)
    BY <1>1, <1>4
  <2>2. BlocksOf(story)[n + (mined + 1)] = story.new[mined + 1]
    BY <1>1, <1>4
  <2> HIDE DEF n, m
  <2>3. n + (mined + 1) = n + mined + 1
    BY <1>1, <1>2
  <2> QED
    BY <1>2, <2>1, <2>2, <2>3
<1> HIDE DEF n, m, b
<1>6. /\ chain' \in Seq([day : Nat, txs : Seq(DOMAIN Txs)])
      /\ Len(chain') = n + mined + 1
      /\ chain'[n + mined + 1] = b
      /\ \A k \in DOMAIN chain : k \in DOMAIN chain' /\ chain'[k] = chain[k]
      /\ \A k \in DOMAIN chain' : k \in DOMAIN chain \/ k = n + mined + 1
  BY <1>1, <1>2, <1>3, <1>5
<1>7. UNCHANGED <<story, arrived, height, day, feed, th>>
  BY DEF Mined
<1>8. ChainOK'
  <2>1. \A k \in DOMAIN chain' : chain'[k].txs = BlocksOf(story)[k]
    BY <1>2, <1>5, <1>6
  <2>2. BlocksOf(story)' = BlocksOf(story)
    BY <1>7 DEF BlocksOf
  <2>3. mined' <= arrived' /\ arrived' <= Len(story.new)' /\ height' \in 0 .. Len(chain')
    BY <1>1, <1>2, <1>3, <1>6, <1>7 DEF m
  <2>4. Len(chain') = n + (mined + 1) /\ mined + 1 \in Nat
    BY <1>1, <1>2, <1>6
  <2>5. Len(story.past)' = n
    BY <1>7 DEF n
  <2> QED
    BY <1>2, <1>3, <1>6, <1>7, <2>1, <2>2, <2>3, <2>4, <2>5 DEF DayInv, ChainOK
<1>9. FeedOK' /\ ThreadsOK'
  BY <1>6, <1>7, ListsStay DEF DayInv, FeedOK
<1> QED
  BY <1>8, <1>9 DEF DayInv

\* The index grows, the calendar moves, copies age, old rows are filled in.
LEMMA WorldMoves_Inv ==
    DayInv /\ (BlockIndexed \/ Midnight \/ CopiesAge \/ TodayFilled) => DayInv'
<1> SUFFICES ASSUME DayInv, BlockIndexed \/ Midnight \/ CopiesAge \/ TodayFilled PROVE DayInv'
  OBVIOUS
<1>1. UNCHANGED <<story, chain, mined, arrived, th>>
  BY DEF BlockIndexed, Midnight, CopiesAge, TodayFilled, nodeVars
<1>2. height' \in 0 .. Len(chain) /\ day' \in Nat
  <2>1. height \in 0 .. Len(chain) /\ day \in Nat /\ Len(chain) \in Nat
    BY DEF DayInv, ChainOK
  <2>2. CASE BlockIndexed
    BY <2>1, <2>2 DEF BlockIndexed
  <2>3. CASE Midnight
    BY <2>1, <2>3 DEF Midnight
  <2>4. CASE CopiesAge \/ TodayFilled
    BY <2>1, <2>4 DEF CopiesAge, TodayFilled, nodeVars
  <2> QED
    BY <2>2, <2>3, <2>4
<1>3. ChainOK'
  BY <1>1, <1>2 DEF DayInv, ChainOK, BlocksOf
<1>4. /\ FeedFields \subseteq DOMAIN feed'
      /\ feed'.age # NotBuilt => feed.age # NotBuilt
      /\ feed'.trades = feed.trades /\ feed'.key = feed.key
  <2>1. CASE UNCHANGED feed
    BY <2>1 DEF DayInv, FeedOK
  <2>2. CASE CopiesAge
    <3>1. /\ feed' = [feed EXCEPT !.age = Older(feed.age), !.memAge = Older(feed.memAge)]
          /\ FeedFields \subseteq DOMAIN feed
      BY <2>2 DEF CopiesAge, DayInv, FeedOK
    <3>2. feed'.age = Older(feed.age) /\ feed'.trades = feed.trades /\ feed'.key = feed.key
      BY <3>1 DEF FeedFields
    <3>3. Older(feed.age) # NotBuilt => feed.age # NotBuilt
      BY DEF Older, NotBuilt
    <3> QED
      BY <3>1, <3>2, <3>3
  <2> QED
    BY <2>1, <2>2 DEF BlockIndexed, Midnight, TodayFilled
<1>5. FeedOK' /\ ThreadsOK'
  BY <1>1, <1>4, ListsStay DEF DayInv
<1> QED
  BY <1>3, <1>5 DEF DayInv

-----------------------------------------------------------------------------
(* A thread moves.                                                         *)

\* Its new locals are in order, and so is the list in memory.
LEMMA ThreadMoves ==
    ASSUME DayInv, NEW t \in story.threads, NEW rec, UNCHANGED nodeVars,
           Local(t, rec), LocalsOK(rec), FeedOK'
    PROVE  DayInv'
<1>1. UNCHANGED <<story, chain, mined, arrived, height, day>>
  BY DEF nodeVars
<1>2. ChainOK'
  BY <1>1 DEF DayInv, ChainOK, BlocksOf
<1>3. \A rows, d : RowsOfDay(rows, d)' <=> RowsOfDay(rows, d)
  BY <1>1 DEF RowsOfDay, OfDay
<1>4. \A ids, d : OfDay(ids, d)' <=> OfDay(ids, d)
  BY <1>1 DEF OfDay
<1>5. /\ DOMAIN th' = story.threads
      /\ th'[t] = rec
      /\ \A u \in story.threads : u # t => th'[u] = th[u]
  BY DEF DayInv, ThreadsOK, Local
<1>6. ASSUME NEW u \in story.threads PROVE LocalsOK(th'[u])
  BY <1>5 DEF DayInv, ThreadsOK
<1>7. ASSUME NEW u \in story.threads PROVE LocalsOK(th[u])'
  BY <1>3, <1>4, <1>6 DEF LocalsOK
<1>8. ThreadsOK'
  BY <1>1, <1>5, <1>7 DEF ThreadsOK
<1> QED
  BY <1>2, <1>8 DEF DayInv

\* The list in memory stays what it was.
LEMMA FeedKept ==
    ASSUME FeedOK, UNCHANGED chain, FeedFields \subseteq DOMAIN feed',
           feed'.age = feed.age, feed'.trades = feed.trades, feed'.key = feed.key
    PROVE  FeedOK'
  BY DEF FeedOK, RowsOfDay, OfDay

\* _begin_day: the list is of the day that begins, if there is one.
LEMMA DayBegins ==
    ASSUME FeedOK, NEW d
    PROVE  LET f == DayBegun(feed, d)
           IN  /\ FeedFields \subseteq DOMAIN f /\ f.key = d
               /\ f.age # NotBuilt => RowsOfDay(f.trades, d)
<1> DEFINE f == DayBegun(feed, d)
<1>1. CASE feed.key = d
  BY <1>1 DEF DayBegun, FeedOK
<1>2. CASE feed.key # d
  <2>1. f = [feed EXCEPT !.key = d, !.trades = {}, !.age = NotBuilt, !.memAge = NotBuilt,
                         !.misses = {}, !.feeMiss = FALSE]
    BY <1>2 DEF DayBegun
  <2> HIDE DEF f
  <2>2. f.age = NotBuilt /\ f.key = d /\ DOMAIN f = DOMAIN feed
    BY <2>1 DEF FeedOK, FeedFields
  <2> QED
    BY <2>2 DEF FeedOK, f
<1> QED
  BY <1>1, <1>2

LEMMA PageBegins_Inv ==
    ASSUME DayInv, NEW t \in story.threads, PageBegins(t) PROVE DayInv'
<1>1. UNCHANGED nodeVars /\ feed' = DayBegun(feed, day)
  BY DEF PageBegins
<1>2. FeedOK'
  BY <1>1, DayBegins DEF DayInv, FeedOK, RowsOfDay, OfDay, nodeVars
<1>3. Local(t, [pc |-> "mempool", moment |-> day])
  BY DEF PageBegins
<1>4. LocalsOK([pc |-> "mempool", moment |-> day])
  BY DEF LocalsOK, Assembling
<1> QED
  BY <1>1, <1>2, <1>3, <1>4, ThreadMoves

LEMMA ReadsMempool_Inv ==
    ASSUME DayInv, NEW t \in story.threads, ReadsMempool(t) PROVE DayInv'
<1>1. UNCHANGED nodeVars
  BY DEF ReadsMempool
<1>2. /\ \E rows : Pending(t, rows)
      /\ \/ UNCHANGED feed
         \/ \E ids, gen, shown : feed' = [feed EXCEPT !.memAge = 0, !.memKey = ids, !.memGen = gen,
                                                      !.mem = shown]
  <2>1. CASE Pending(t, {}) /\ UNCHANGED <<feed, labels>>
    BY <2>1
  <2>2. ASSUME NEW ids, ServesMempool(t, ids)
        PROVE  (\E rows : Pending(t, rows)) /\ UNCHANGED feed
    BY <2>2 DEF ServesMempool
  <2>3. ASSUME NEW ids, NEW rows, MempoolRead(t, ids, rows)
        PROVE  /\ \E shown : Pending(t, shown)
               /\ \E gen, shown : feed' = [feed EXCEPT !.memAge = 0, !.memKey = ids, !.memGen = gen,
                                                       !.mem = shown]
    BY <2>3 DEF MempoolRead
  <2>4. ASSUME NEW ids, ClassifiesMempool(t, ids) PROVE \E rows : MempoolRead(t, ids, rows)
    BY <2>4 DEF ClassifiesMempool
  <2> QED
    BY <2>1, <2>2, <2>3, <2>4 DEF ReadsMempool
<1>3. PICK rows : Pending(t, rows)
  BY <1>2
<1> DEFINE rec == [pc |-> "check", moment |-> th[t].moment,
                   pending |-> {row \in rows : row.day = th[t].moment}]
<1>4. Local(t, rec) /\ LocalsOK(rec)
  BY <1>3 DEF Pending, LocalsOK, Assembling
<1>5. FeedOK'
  <2>1. FeedFields \subseteq DOMAIN feed' /\ feed'.age = feed.age /\ feed'.trades = feed.trades
        /\ feed'.key = feed.key
    BY <1>2 DEF DayInv, FeedOK, FeedFields
  <2> QED
    BY <1>1, <2>1, FeedKept DEF DayInv, nodeVars
<1> HIDE DEF rec
<1> QED
  BY <1>1, <1>4, <1>5, ThreadMoves

LEMMA ChecksDay_Inv ==
    ASSUME DayInv, NEW t \in story.threads, ChecksDay(t) PROVE DayInv'
<1> DEFINE f == DayBegun(feed, th[t].moment)
           young == ~labels.stale /\ f.age = 0 /\ f.gen = labels.gen
           rec == [pc |-> IF young THEN "merge" ELSE "read", moment |-> th[t].moment,
                   pending |-> th[t].pending, rows |-> IF young THEN f.trades ELSE {}]
<1>1. UNCHANGED nodeVars /\ feed' = f /\ Local(t, rec)
  BY DEF ChecksDay
<1>2. /\ FeedFields \subseteq DOMAIN f /\ f.key = th[t].moment
      /\ f.age # NotBuilt => RowsOfDay(f.trades, th[t].moment)
  BY DayBegins DEF DayInv
<1> HIDE DEF f
<1>3. FeedOK'
  BY <1>1, <1>2 DEF FeedOK, RowsOfDay, OfDay, nodeVars
<1>4. LocalsOK(rec)
  BY <1>2 DEF LocalsOK, Assembling, NotBuilt
<1> HIDE DEF rec
<1> QED
  BY <1>1, <1>3, <1>4, ThreadMoves

\* A step of the assembly that keeps what was read.
LEMMA UpdatedLocals ==
    ASSUME NEW old, NEW new
    PROVE  LET l == Updated(old, new)
           IN  /\ DOMAIN l = DOMAIN old \cup DOMAIN new
               /\ \A f \in DOMAIN new : l[f] = new[f]
               /\ \A f \in DOMAIN old \ DOMAIN new : l[f] = old[f]
  BY DEF Updated

LEMMA ReadsDay_Inv ==
    ASSUME DayInv, NEW t \in story.threads, ReadsDay(t) PROVE DayInv'
<1> DEFINE d    == th[t].moment
           base == [id \in DayTxs(height, d) |-> Classify(View(id), LoadReserves, feeTable)]
           views == DayViews(height, d)
           ids(side) == {id \in DOMAIN base : base[id].side = side}
           done == Delivered([id \in ids("buy") |-> base[id]], views)
           rows == {Row(id, done[id], 0) : id \in ids("buy")}
                      \cup {Row(id, base[id], 0) : id \in ids("sell")}
           retry == {id \in ids("none") : LoneSellMemo(View(id))}
           routes == {id \in ids("none") : ~LoneSellMemo(View(id)) /\ RouteMemos(View(id)) # <<>>}
           new == [pc |-> "learn", upto |-> height, res |-> LoadReserves, fees |-> feeTable,
                   unsought |-> {}, rows |-> rows, retry |-> retry, routes |-> routes]
           rec == Updated(th[t], new)
<1>1. UNCHANGED <<nodeVars, feed>> /\ th[t].pc = "read"
  BY DEF ReadsDay, Step
<1>2. Local(t, rec)
  BY DEF ReadsDay, Sorted, Put
<1>3. \A side : ids(side) \subseteq DayTxs(height, d)
  OBVIOUS
<1> HIDE DEF base, done
<1>4. /\ \A row \in rows : "tx" \in DOMAIN row /\ row.tx \in DayTxs(height, d)
      /\ retry \subseteq DayTxs(height, d) /\ routes \subseteq DayTxs(height, d)
  BY <1>3 DEF Row
<1>5. OfDay(DayTxs(height, d), d)
  BY DayTxsOfDay DEF DayInv
<1>6. RowsOfDay(rows, d) /\ OfDay(retry, d) /\ OfDay(routes, d)
  <2> HIDE DEF rows, retry, routes, ids
  <2> QED
    BY <1>4, <1>5 DEF RowsOfDay, OfDay
<1>7. "moment" \in DOMAIN th[t]
  BY <1>1 DEF DayInv, ThreadsOK, LocalsOK
<1> HIDE DEF rows, retry, routes, d
<1>8. /\ {"pc", "moment", "rows", "retry", "routes"} \subseteq DOMAIN rec
      /\ rec.pc = "learn" /\ rec.rows = rows /\ rec.retry = retry /\ rec.routes = routes
      /\ rec.moment = th[t].moment
  <2>1. /\ DOMAIN new = {"pc", "upto", "res", "fees", "unsought", "rows", "retry", "routes"}
        /\ new.pc = "learn" /\ new.rows = rows /\ new.retry = retry /\ new.routes = routes
    OBVIOUS
  <2> HIDE DEF new
  <2>2. /\ DOMAIN rec = DOMAIN th[t] \cup DOMAIN new
        /\ \A f \in DOMAIN new : rec[f] = new[f]
        /\ \A f \in DOMAIN th[t] \ DOMAIN new : rec[f] = th[t][f]
    BY UpdatedLocals
  <2> HIDE DEF rec
  <2> QED
    BY <1>7, <2>1, <2>2
<1> HIDE DEF rec
<1>9. LocalsOK(rec)
  BY <1>6, <1>8 DEF LocalsOK, Assembling, d
<1>10. FeedOK'
  BY <1>1, FeedKept DEF DayInv, FeedOK, nodeVars
<1> QED
  BY <1>1, <1>2, <1>9, <1>10, ThreadMoves DEF nodeVars

\* What a thread that assembles keeps of its locals.
KeepsRead(l, k) ==
    /\ {"pc", "moment", "rows", "retry", "routes"} \subseteq DOMAIN k
    /\ k.moment = l.moment /\ k.rows = l.rows /\ k.retry = l.retry /\ k.routes = l.routes

LEMMA StillOK ==
    ASSUME NEW l, NEW k, LocalsOK(l), l.pc \in Assembling, KeepsRead(l, k), k.pc \in Assembling
    PROVE  LocalsOK(k)
  BY DEF LocalsOK, Assembling, KeepsRead

LEMMA Learns_Inv ==
    ASSUME DayInv, NEW t \in story.threads, Learns(t) PROVE DayInv'
<1>1. UNCHANGED nodeVars /\ th[t].pc = "learn"
  BY DEF Learns, Step
<1>2. PICK misses, res, unwritten, needed :
        /\ feed' = [feed EXCEPT !.misses = misses]
        /\ Local(t, Updated(th[t], [pc |-> "seek", res |-> res, new |-> unwritten,
                                    phase |-> "retry", needed |-> needed]))
  BY DEF Learns, Put
<1> DEFINE new == [pc |-> "seek", res |-> res, new |-> unwritten, phase |-> "retry",
                   needed |-> needed]
           rec == Updated(th[t], new)
<1>3. LocalsOK(th[t])
  BY DEF DayInv, ThreadsOK
<1>4. {"pc", "moment", "rows", "retry", "routes"} \subseteq DOMAIN th[t]
  BY <1>1, <1>3 DEF LocalsOK, Assembling
<1>5. KeepsRead(th[t], rec) /\ rec.pc = "seek"
  <2>1. DOMAIN new = {"pc", "res", "new", "phase", "needed"} /\ new.pc = "seek"
    OBVIOUS
  <2> HIDE DEF new
  <2>2. /\ DOMAIN rec = DOMAIN th[t] \cup DOMAIN new
        /\ \A f \in DOMAIN new : rec[f] = new[f]
        /\ \A f \in DOMAIN th[t] \ DOMAIN new : rec[f] = th[t][f]
    BY UpdatedLocals
  <2> HIDE DEF rec
  <2> QED
    BY <1>4, <2>1, <2>2 DEF KeepsRead
<1>6. Local(t, rec)
  BY <1>2
<1> HIDE DEF rec
<1>7. LocalsOK(rec)
  BY <1>1, <1>3, <1>5, StillOK DEF Assembling
<1>8. FeedOK'
  BY <1>1, <1>2, FeedKept DEF DayInv, FeedOK, FeedFields, nodeVars
<1> QED
  BY <1>1, <1>6, <1>7, <1>8, ThreadMoves

LEMMA WritesReserves_Inv ==
    ASSUME DayInv, NEW t \in story.threads, WritesReserves(t) PROVE DayInv'
<1>1. UNCHANGED <<nodeVars, feed>> /\ th[t].pc = "seek"
  BY DEF WritesReserves, Step
<1> DEFINE rec == [th[t] EXCEPT !.new = {}]
<1>2. LocalsOK(th[t])
  BY DEF DayInv, ThreadsOK
<1>3. DOMAIN rec = DOMAIN th[t] /\ \A f \in DOMAIN th[t] : f # "new" => rec[f] = th[t][f]
  OBVIOUS
<1>4. Local(t, rec)
  BY DEF WritesReserves
<1> HIDE DEF rec
<1>5. LocalsOK(rec)
  <2>1. rec.pc = th[t].pc /\ KeepsRead(th[t], rec)
    BY <1>1, <1>2, <1>3 DEF LocalsOK, Assembling, KeepsRead
  <2> QED
    BY <1>1, <1>2, <2>1, StillOK DEF Assembling
<1>6. FeedOK'
  BY <1>1, FeedKept DEF DayInv, FeedOK, nodeVars
<1> QED
  BY <1>1, <1>4, <1>5, <1>6, ThreadMoves DEF nodeVars

LEMMA Searches_Inv ==
    ASSUME DayInv, NEW t \in story.threads, Searches(t) PROVE DayInv'
<1>1. UNCHANGED <<nodeVars, feed>> /\ th[t].pc = "seek"
  BY DEF Searches, At, Step
<1>2. PICK needed, asset, found, unsought :
        Local(t, Updated(th[t], [pc |-> "found", needed |-> needed, asset |-> asset,
                                 found |-> found, unsought |-> unsought]))
  BY DEF Searches, SearchEnds, Put
<1> DEFINE new == [pc |-> "found", needed |-> needed, asset |-> asset, found |-> found,
                   unsought |-> unsought]
           rec == Updated(th[t], new)
<1>3. LocalsOK(th[t])
  BY DEF DayInv, ThreadsOK
<1>4. {"pc", "moment", "rows", "retry", "routes"} \subseteq DOMAIN th[t]
  BY <1>1, <1>3 DEF LocalsOK, Assembling
<1>5. KeepsRead(th[t], rec) /\ rec.pc = "found"
  <2>1. DOMAIN new = {"pc", "needed", "asset", "found", "unsought"} /\ new.pc = "found"
    OBVIOUS
  <2> HIDE DEF new
  <2>2. /\ DOMAIN rec = DOMAIN th[t] \cup DOMAIN new
        /\ \A f \in DOMAIN new : rec[f] = new[f]
        /\ \A f \in DOMAIN th[t] \ DOMAIN new : rec[f] = th[t][f]
    BY UpdatedLocals
  <2> HIDE DEF rec
  <2> QED
    BY <1>4, <2>1, <2>2 DEF KeepsRead
<1>6. Local(t, rec)
  BY <1>2
<1> HIDE DEF rec
<1>7. LocalsOK(rec)
  BY <1>1, <1>3, <1>5, StillOK DEF Assembling
<1>8. FeedOK'
  BY <1>1, FeedKept DEF DayInv, FeedOK, nodeVars
<1> QED
  BY <1>1, <1>6, <1>7, <1>8, ThreadMoves DEF nodeVars

LEMMA NotesFound_Inv ==
    ASSUME DayInv, NEW t \in story.threads, NotesFound(t) PROVE DayInv'
<1>1. UNCHANGED nodeVars /\ th[t].pc = "found"
  BY DEF NotesFound, Step
<1>2. PICK misses, res, new :
        /\ feed' = [feed EXCEPT !.misses = misses]
        /\ Local(t, [th[t] EXCEPT !.pc = "seek", !.asset = NoAsset, !.found = NoAddr,
                                  !.res = res, !.new = new])
  BY DEF NotesFound
<1> DEFINE rec == [th[t] EXCEPT !.pc = "seek", !.asset = NoAsset, !.found = NoAddr,
                                !.res = res, !.new = new]
<1>3. LocalsOK(th[t])
  BY DEF DayInv, ThreadsOK
<1>4. {"pc", "moment", "rows", "retry", "routes"} \subseteq DOMAIN th[t]
  BY <1>1, <1>3 DEF LocalsOK, Assembling
<1>5. KeepsRead(th[t], rec) /\ rec.pc = "seek"
  BY <1>4 DEF KeepsRead
<1>6. Local(t, rec)
  BY <1>2
<1> HIDE DEF rec
<1>7. LocalsOK(rec)
  BY <1>1, <1>3, <1>5, StillOK DEF Assembling
<1>8. FeedOK'
  BY <1>1, <1>2, FeedKept DEF DayInv, FeedOK, FeedFields, nodeVars
<1> QED
  BY <1>1, <1>6, <1>7, <1>8, ThreadMoves

\* What is judged again is of the day that the transactions are of.
LEMMA JudgedOfDay ==
    ASSUME NEW ids, NEW res, NEW fees, NEW d, OfDay(ids, d)
    PROVE  RowsOfDay(Judged(ids, res, fees), d)
<1>1. \A row \in Judged(ids, res, fees) : "tx" \in DOMAIN row /\ row.tx \in ids
  BY DEF Judged, Row
<1> QED
  BY <1>1 DEF RowsOfDay, OfDay

LEMMA JudgesSells_Inv ==
    ASSUME DayInv, NEW t \in story.threads, JudgesSells(t) PROVE DayInv'
<1> DEFINE rows == th[t].rows \cup Judged(th[t].retry, th[t].res, {})
<1>1. UNCHANGED <<nodeVars, feed>> /\ th[t].pc = "seek"
  BY DEF JudgesSells, At, Step
<1>2. PICK fees, unsought, needed :
        Local(t, [th[t] EXCEPT !.rows = rows, !.fees = fees, !.phase = "routes",
                               !.unsought = unsought, !.needed = needed])
  BY DEF JudgesSells, SellsJudged
<1>3. LocalsOK(th[t])
  BY DEF DayInv, ThreadsOK
<1>4. RowsOfDay(rows, th[t].moment)
  <2>1. RowsOfDay(th[t].rows, th[t].moment) /\ OfDay(th[t].retry, th[t].moment)
    BY <1>1, <1>3 DEF LocalsOK, Assembling
  <2>2. RowsOfDay(Judged(th[t].retry, th[t].res, {}), th[t].moment)
    BY <2>1, JudgedOfDay
  <2> QED
    BY <2>1, <2>2 DEF RowsOfDay
<1> HIDE DEF rows
<1> DEFINE rec == [th[t] EXCEPT !.rows = rows, !.fees = fees, !.phase = "routes",
                                !.unsought = unsought, !.needed = needed]
<1>5. {"pc", "moment", "rows", "retry", "routes"} \subseteq DOMAIN th[t]
  BY <1>1, <1>3 DEF LocalsOK, Assembling
<1>6. /\ {"pc", "moment", "rows", "retry", "routes"} \subseteq DOMAIN rec
      /\ rec.pc = th[t].pc /\ rec.moment = th[t].moment /\ rec.rows = rows
      /\ rec.retry = th[t].retry /\ rec.routes = th[t].routes
  BY <1>5
<1>7. Local(t, rec)
  BY <1>2
<1> HIDE DEF rec
<1>8. LocalsOK(rec)
  BY <1>1, <1>3, <1>4, <1>6 DEF LocalsOK, Assembling
<1>9. FeedOK'
  BY <1>1, FeedKept DEF DayInv, FeedOK, nodeVars
<1> QED
  BY <1>1, <1>7, <1>8, <1>9, ThreadMoves DEF nodeVars

\* The steps of the search for a fee address, which leave what was read alone.
FeeLocals == {"phase", "sells", "needed", "fees"}

LEMMA FeeRecords ==
    ASSUME NEW sells, NEW needed, NEW fees
    PROVE  /\ DOMAIN [phase |-> "fees", sells |-> sells, needed |-> needed] \subseteq FeeLocals
           /\ DOMAIN [phase |-> "last", needed |-> needed] \subseteq FeeLocals
           /\ DOMAIN [phase |-> "last", needed |-> needed, fees |-> fees] \subseteq FeeLocals
           /\ DOMAIN [sells |-> sells, needed |-> needed] \subseteq FeeLocals
  BY DEF FeeLocals

LEMMA FeeStepPuts ==
    ASSUME NEW t, SeeksFee(t) \/ TriesSell(t)
    PROVE  /\ UNCHANGED nodeVars /\ th[t].pc = "seek"
           /\ \E new : Put(t, new) /\ DOMAIN new \subseteq FeeLocals
           /\ feed' = feed \/ feed' = [feed EXCEPT !.feeMiss = TRUE]
<1>1. CASE SeeksFee(t)
  <2>1. UNCHANGED nodeVars /\ UNCHANGED feed /\ th[t].pc = "seek"
    BY <1>1 DEF SeeksFee, At, Step
  <2>2. \/ \E sells, needed : Put(t, [phase |-> "fees", sells |-> sells, needed |-> needed])
        \/ Put(t, [phase |-> "last", needed |-> {}])
    BY <1>1 DEF SeeksFee
  <2>3. \E new : Put(t, new) /\ DOMAIN new \subseteq FeeLocals
    BY <2>2, FeeRecords
  <2> QED
    BY <2>1, <2>3
<1>2. CASE TriesSell(t)
  <2>1. UNCHANGED nodeVars /\ th[t].pc = "seek"
    BY <1>2 DEF TriesSell, At, Step
  <2>2. /\ \/ \E fees : Put(t, [phase |-> "last", needed |-> {}, fees |-> fees])
           \/ \E sells, needed : Put(t, [sells |-> sells, needed |-> needed])
           \/ Put(t, [phase |-> "last", needed |-> {}])
        /\ feed' = feed \/ feed' = [feed EXCEPT !.feeMiss = TRUE]
    BY <1>2 DEF TriesSell, FeeFound, FeeNotFound, FeeSoughtInVain
  <2>3. \E new : Put(t, new) /\ DOMAIN new \subseteq FeeLocals
    BY <2>2, FeeRecords
  <2> QED
    BY <2>1, <2>2, <2>3
<1> QED
  BY <1>1, <1>2

LEMMA FeeStep_Inv ==
    ASSUME DayInv, NEW t \in story.threads, SeeksFee(t) \/ TriesSell(t) PROVE DayInv'
<1>1. /\ UNCHANGED nodeVars /\ th[t].pc = "seek"
      /\ feed' = feed \/ feed' = [feed EXCEPT !.feeMiss = TRUE]
  BY FeeStepPuts
<1>2. PICK new : Put(t, new) /\ DOMAIN new \subseteq FeeLocals
  BY FeeStepPuts
<1> DEFINE rec == Updated(th[t], new)
<1>3. Local(t, rec)
  BY <1>2 DEF Put
<1>4. LocalsOK(th[t])
  BY DEF DayInv, ThreadsOK
<1>5. LocalsOK(rec)
  <2>1. {"pc", "moment", "rows", "retry", "routes"} \subseteq DOMAIN th[t] \ DOMAIN new
    BY <1>1, <1>2, <1>4 DEF LocalsOK, Assembling, FeeLocals
  <2>2. /\ DOMAIN rec = DOMAIN th[t] \cup DOMAIN new
        /\ \A f \in DOMAIN th[t] \ DOMAIN new : rec[f] = th[t][f]
    BY UpdatedLocals
  <2> HIDE DEF rec
  <2>3. KeepsRead(th[t], rec) /\ rec.pc = "seek"
    BY <1>1, <2>1, <2>2 DEF KeepsRead
  <2> QED
    BY <1>1, <1>4, <2>3, StillOK DEF Assembling
<1>6. FeedOK'
  BY <1>1, FeedKept DEF DayInv, FeedOK, FeedFields, nodeVars
<1> HIDE DEF rec
<1> QED
  BY <1>1, <1>3, <1>5, <1>6, ThreadMoves

LEMMA JudgesRoutes_Inv ==
    ASSUME DayInv, NEW t \in story.threads, JudgesRoutes(t) PROVE DayInv'
<1>1. UNCHANGED <<nodeVars, feed>> /\ th[t].pc = "seek"
  BY DEF JudgesRoutes, At, Step
<1> DEFINE gen  == labels'.gen
           rows == th[t].rows \cup Judged(th[t].routes, th[t].res, th[t].fees)
           shown == {[row EXCEPT !.gen = gen] : row \in rows}
           rec == [pc |-> "store", moment |-> th[t].moment, pending |-> th[t].pending,
                   upto |-> th[t].upto, unsought |-> th[t].unsought, rows |-> shown]
<1>2. Local(t, rec)
  BY DEF JudgesRoutes, DayJudged
<1>3. LocalsOK(th[t])
  BY DEF DayInv, ThreadsOK
<1>4. RowsOfDay(rows, th[t].moment)
  <2>1. RowsOfDay(th[t].rows, th[t].moment) /\ OfDay(th[t].routes, th[t].moment)
    BY <1>1, <1>3 DEF LocalsOK, Assembling
  <2>2. RowsOfDay(Judged(th[t].routes, th[t].res, th[t].fees), th[t].moment)
    BY <2>1, JudgedOfDay
  <2> QED
    BY <2>1, <2>2 DEF RowsOfDay
<1> HIDE DEF rows, gen
<1>5. RowsOfDay(shown, th[t].moment)
  <2>1. \A row \in shown : "tx" \in DOMAIN row /\ \E r \in rows : row.tx = r.tx
    BY <1>4 DEF RowsOfDay
  <2> QED
    BY <1>4, <2>1 DEF RowsOfDay
<1> HIDE DEF shown
<1>7. LocalsOK(rec)
  BY <1>5 DEF LocalsOK, Assembling
<1>8. FeedOK'
  BY <1>1, FeedKept DEF DayInv, FeedOK, nodeVars
<1> HIDE DEF rec
<1> QED
  BY <1>1, <1>2, <1>7, <1>8, ThreadMoves DEF nodeVars

LEMMA StoresDay_Inv ==
    ASSUME DayInv, NEW t \in story.threads, StoresDay(t) PROVE DayInv'
<1> DEFINE kept == feed.key = th[t].moment
           rec == [pc |-> "merge", moment |-> th[t].moment, pending |-> th[t].pending,
                   rows |-> IF kept THEN th[t].rows ELSE {}]
<1>1. UNCHANGED nodeVars /\ Local(t, rec)
      /\ feed' = IF kept THEN [feed EXCEPT !.trades = th[t].rows, !.age = 0, !.gen = labels.gen]
                 ELSE feed
  BY DEF StoresDay
<1>2. RowsOfDay(th[t].rows, th[t].moment)
  BY DEF StoresDay, Step, DayInv, ThreadsOK, LocalsOK
<1>3. FeedOK'
  <2>1. CASE kept
    <3>1. /\ feed'.trades = th[t].rows /\ feed'.key = th[t].moment
          /\ FeedFields \subseteq DOMAIN feed'
      BY <1>1, <2>1 DEF DayInv, FeedOK, FeedFields
    <3> QED
      BY <1>1, <1>2, <3>1 DEF FeedOK, RowsOfDay, OfDay, nodeVars
  <2>2. CASE ~kept
    BY <1>1, <2>2, FeedKept DEF DayInv, FeedOK, nodeVars
  <2> QED
    BY <2>1, <2>2
<1>4. LocalsOK(rec)
  BY <1>2 DEF LocalsOK, Assembling, RowsOfDay
<1> HIDE DEF rec
<1> QED
  BY <1>1, <1>3, <1>4, ThreadMoves

\* The page takes another reading of the day, or is sent.
LEMMA PageGoes_Inv ==
    ASSUME DayInv, NEW t \in story.threads, CountsDay(t) \/ PageEnds(t) PROVE DayInv'
<1>1. UNCHANGED <<nodeVars, feed>>
  BY DEF CountsDay, PageEnds
<1>2. FeedOK'
  BY <1>1, FeedKept DEF DayInv, FeedOK, nodeVars
<1> DEFINE again == [pc |-> "check", moment |-> th[t].moment, pending |-> {}]
<1>3. LocalsOK(again) /\ LocalsOK(Idle)
  BY DEF LocalsOK, Assembling, Idle
<1>4. Local(t, again) \/ Local(t, Idle)
  BY DEF CountsDay, PageEnds
<1> HIDE DEF again
<1> QED
  BY <1>1, <1>2, <1>3, <1>4, ThreadMoves DEF nodeVars

LEMMA Next_DayInv == DayInv /\ [Next]_vars => DayInv'
<1> SUFFICES ASSUME DayInv, [Next]_vars PROVE DayInv'
  OBVIOUS
<1>1. CASE Broadcast
  BY <1>1, Broadcast_Inv
<1>2. CASE Mined
  BY <1>2, Mined_Inv
<1>3. CASE BlockIndexed \/ Midnight \/ CopiesAge \/ TodayFilled
  BY <1>3, WorldMoves_Inv
<1>4. ASSUME NEW t \in story.threads, PageBegins(t) PROVE DayInv'
  BY <1>4, PageBegins_Inv
<1>5. ASSUME NEW t \in story.threads, PageStep(t) PROVE DayInv'
  <2>1. CASE ReadsMempool(t)
    BY <2>1, ReadsMempool_Inv
  <2>2. CASE ChecksDay(t)
    BY <2>2, ChecksDay_Inv
  <2>3. CASE ReadsDay(t)
    BY <2>3, ReadsDay_Inv
  <2>4. CASE Learns(t)
    BY <2>4, Learns_Inv
  <2>5. CASE Searches(t)
    BY <2>5, Searches_Inv
  <2>6. CASE NotesFound(t)
    BY <2>6, NotesFound_Inv
  <2>7. CASE JudgesSells(t)
    BY <2>7, JudgesSells_Inv
  <2>8. CASE JudgesRoutes(t)
    BY <2>8, JudgesRoutes_Inv
  <2>12. CASE SeeksFee(t) \/ TriesSell(t)
    BY <2>12, FeeStep_Inv
  <2>9. CASE StoresDay(t)
    BY <2>9, StoresDay_Inv
  <2>11. CASE WritesReserves(t)
    BY <2>11, WritesReserves_Inv
  <2>10. CASE CountsDay(t) \/ PageEnds(t)
    BY <2>10, PageGoes_Inv
  <2> QED
    BY <1>5, <2>1, <2>2, <2>3, <2>4, <2>5, <2>6, <2>7, <2>8, <2>9, <2>10, <2>11, <2>12 DEF PageStep
<1>6. CASE UNCHANGED vars
  <2>1. UNCHANGED <<nodeVars, feed, th>>
    BY <1>6 DEF vars
  <2>2. UNCHANGED <<story, chain, mined, arrived, height, day>>
    BY <2>1 DEF nodeVars
  <2>3. ChainOK'
    BY <2>2 DEF DayInv, ChainOK, BlocksOf
  <2>4. FeedOK' /\ ThreadsOK'
    BY <2>1, <2>2, ListsStay DEF DayInv, FeedOK
  <2> QED
    BY <2>3, <2>4 DEF DayInv
<1> QED
  BY <1>1, <1>2, <1>3, <1>4, <1>5, <1>6 DEF Next

\* Whatever midnights, blocks, labels and other threads come between two steps
\* of a page: it shows as confirmed only trades of the day it was asked for, and
\* the list in memory is of the day it is kept under.
THEOREM Spec_OwnDay == Spec => []OwnDay
<1> QED
  BY Init_DayInv, Next_DayInv, DayInv_OwnDay, PTL DEF Spec

-----------------------------------------------------------------------------
(* What the transactions of the index are.                                 *)

LEMMA IndexHolds ==
    ASSUME ChainOK, NEW h \in 0 .. Len(chain)
    PROVE  /\ TxsUpTo(h) \in Seq(DOMAIN Txs)
           /\ \A k \in 1 .. h : k \in DOMAIN chain /\ ToSet(chain[k].txs) \subseteq DOMAIN Txs
           /\ \A id : id \in ToSet(TxsUpTo(h)) <=> \E k \in 1 .. h : id \in ToSet(chain[k].txs)
<1> DEFINE ss == [i \in 1 .. h |-> chain[i].txs]
<1>1. Len(chain) \in Nat /\ DOMAIN chain = 1 .. Len(chain) /\ h \in Nat
  BY DEF ChainOK
<1>2. \A i \in 1 .. h : i \in DOMAIN chain /\ chain[i].txs \in Seq(DOMAIN Txs)
  <2> TAKE i \in 1 .. h
  <2>1. i \in DOMAIN chain
    BY <1>1
  <2> DEFINE Blocks == [day : Nat, txs : Seq(DOMAIN Txs)]
  <2>2. chain \in Seq(Blocks)
    BY DEF ChainOK
  <2> HIDE DEF Blocks
  <2>3. chain[i] \in Blocks
    BY <1>1, <2>1, <2>2
  <2> QED
    BY <2>1, <2>3 DEF Blocks
<1>3. ss \in Seq(Seq(DOMAIN Txs)) /\ Len(ss) = h /\ \A i \in 1 .. h : ss[i] = chain[i].txs
  BY <1>1, <1>2
<1>4. TxsUpTo(h) = FlattenSeq(ss)
  BY DEF TxsUpTo
<1> HIDE DEF ss
<1>5. PICK a, b : FlatPlaces(ss, Len(ss), FlattenSeq(ss), a, b)
  BY <1>3, FlattenPlaces
<1>6. TxsUpTo(h) \in Seq(DOMAIN Txs)
  BY <1>3, <1>4, FlattenPlaces
<1> DEFINE ids == TxsUpTo(h)
<1> HIDE DEF ids
<1>7. /\ \A k \in 1 .. Len(ids) : /\ a[k] \in 1 .. h /\ b[k] \in 1 .. Len(ss[a[k]])
                                  /\ ids[k] = ss[a[k]][b[k]]
      /\ \A m \in 1 .. h : \A f \in 1 .. Len(ss[m]) : \E k \in 1 .. Len(ids) : a[k] = m /\ b[k] = f
  BY <1>3, <1>4, <1>5 DEF FlatPlaces, ids
<1>8. ASSUME NEW id \in ToSet(ids) PROVE \E m \in 1 .. h : id \in ToSet(ss[m])
  <2>1. PICK k \in 1 .. Len(ids) : id = ids[k]
    BY <1>6 DEF ToSet, ids
  <2> DEFINE m == a[k]
             f == b[k]
  <2>2. m \in 1 .. h /\ f \in 1 .. Len(ss[m]) /\ id = ss[m][f]
    BY <1>7, <2>1
  <2> HIDE DEF m, f
  <2>3. ss[m] \in Seq(DOMAIN Txs)
    BY <1>2, <1>3, <2>2
  <2>4. id \in ToSet(ss[m])
    BY <2>2, <2>3 DEF ToSet
  <2> QED
    BY <2>2, <2>4
<1>9. ASSUME NEW m \in 1 .. h, NEW id \in ToSet(ss[m]) PROVE id \in ToSet(ids)
  <2>1. PICK f \in 1 .. Len(ss[m]) : id = ss[m][f]
    BY <1>2, <1>3 DEF ToSet
  <2>2. PICK k \in 1 .. Len(ids) : a[k] = m /\ b[k] = f
    BY <1>7, <2>1
  <2>3. id = ids[k]
    BY <1>7, <2>1, <2>2
  <2> QED
    BY <1>6, <2>3 DEF ToSet, ids
<1>10. \A k \in 1 .. h : ToSet(chain[k].txs) \subseteq DOMAIN Txs
  BY <1>2 DEF ToSet
<1>11. \A id : id \in ToSet(ids) <=> \E k \in 1 .. h : id \in ToSet(chain[k].txs)
  BY <1>3, <1>8, <1>9
<1> QED
  BY <1>2, <1>6, <1>10, <1>11 DEF ids

LEMMA ChainTxs ==
    ASSUME ChainOK, NEW h \in 0 .. Len(chain)
    PROVE  /\ TxsUpTo(h) \in Seq(DOMAIN Txs)
           /\ ToSet(TxsUpTo(h)) \subseteq TxsOf(story)
           /\ \A k \in 1 .. h : ToSet(chain[k].txs) \subseteq DOMAIN Txs
<1>1. ASSUME NEW id \in ToSet(TxsUpTo(h)) PROVE id \in TxsOf(story)
  <2>1. PICK k \in 1 .. h : id \in ToSet(chain[k].txs)
    BY IndexHolds
  <2>2. id \in ToSet(BlocksOf(story)[k]) /\ k \in DOMAIN BlocksOf(story)
    BY <2>1, IndexHolds, ChainInStory DEF ChainOK
  <2>3. BlocksOf(story)[k] \in ToSet(BlocksOf(story))
    BY <2>2 DEF ToSet
  <2> QED
    BY <2>2, <2>3 DEF TxsOf, BlocksOf
<1> QED
  BY <1>1, IndexHolds

\* Those of a day are of the chain, and in its order.
LEMMA DayViewsAre ==
    ASSUME ChainOK, NEW h \in 0 .. Len(chain), NEW d
    PROVE  /\ DayTxs(h, d) \subseteq DOMAIN Txs
           /\ DayViews(h, d) \in Seq(DayTxs(h, d))
           /\ ToSet(DayViews(h, d)) \subseteq ToSet(TxsUpTo(h))
<1> DEFINE rows == DayTxs(h, d)
           ids  == TxsUpTo(h)
           ss   == [i \in DOMAIN ids |-> IF ids[i] \in rows THEN <<ids[i]>> ELSE <<>>]
<1>1. h \in 0 .. Len(chain)
  OBVIOUS
<1>2. rows \subseteq DOMAIN Txs
  <2>1. \A k \in 1 .. h : ToSet(chain[k].txs) \subseteq DOMAIN Txs
    BY <1>1, ChainTxs
  <2> QED
    BY <2>1 DEF DayTxs
<1>3. ids \in Seq(DOMAIN Txs)
  BY <1>1, ChainTxs
<1>4. DayViews(h, d) = FlattenSeq(ss)
  BY DEF DayViews
<1> HIDE DEF rows, ids
<1> DEFINE S == rows \cap ToSet(ids)
<1>5. \A i \in 1 .. Len(ids) : ids[i] \in ToSet(ids)
  BY <1>3 DEF ToSet
<1>6. ss \in Seq(Seq(S))
  <2>1. ASSUME NEW i \in 1 .. Len(ids) PROVE ss[i] \in Seq(S)
    <3>1. ss[i] = IF ids[i] \in rows THEN <<ids[i]>> ELSE <<>>
      BY <1>3
    <3>2. CASE ids[i] \in rows
      <4>1. ids[i] \in S
        BY <1>5, <3>2
      <4> HIDE DEF S
      <4>2. <<ids[i]>> \in Seq(S)
        BY <4>1
      <4> QED
        BY <3>1, <3>2, <4>2
    <3>3. CASE ids[i] \notin rows
      BY <3>1, <3>3
    <3> QED
      BY <3>2, <3>3
  <2>2. ss = [i \in 1 .. Len(ids) |-> ss[i]] /\ Len(ids) \in Nat
    BY <1>3
  <2> HIDE DEF ss
  <2> QED
    BY <2>1, <2>2
<1> HIDE DEF ss
<1>7. FlattenSeq(ss) \in Seq(S)
  BY <1>6, FlattenPlaces
<1>8. FlattenSeq(ss) \in Seq(rows) /\ ToSet(FlattenSeq(ss)) \subseteq ToSet(ids)
  BY <1>7 DEF ToSet
<1> QED
  BY <1>2, <1>4, <1>8 DEF rows, ids

LEMMA DayChainTxs ==
    ASSUME ChainOK, NEW d
    PROVE  /\ DayTxs(height, d) \subseteq DOMAIN Txs
           /\ DayViews(height, d) \in Seq(DayTxs(height, d))
           /\ ToSet(DayViews(height, d)) \subseteq ToSet(TxsUpTo(height))
  BY DayViewsAre DEF ChainOK

-----------------------------------------------------------------------------
(* What classify_launch_trade gives.                                       *)

TradeFields == {"side", "asset", "atoms", "xfer", "trader", "counterparty", "reserve", "pending",
                "feeAddress"}
IsTrade(trade) == DOMAIN trade = TradeFields

LEMMA FoundIs == ASSUME NEW trades PROVE FoundOf(trades) \in trades \cup {NoTrade}
  BY DEF FoundOf

\* A buy of a marker is of what it names, through some reserve, and has nothing
\* to do with what was learned; what is no such buy has no reserve.
MadeBuy(t, name) ==
    /\ IsTrade(t) /\ t.side = "buy" /\ t.asset = name
    /\ t.reserve # NoAddr /\ t.feeAddress = NoAddr
    /\ ~t.pending => name \in DOMAIN AliasOf

Bare(t) == IsTrade(t) /\ t.reserve = NoAddr /\ ~t.pending /\ t.feeAddress = NoAddr

LEMMA BuyMade ==
    ASSUME NEW memo, NEW tx, NEW xfer, NEW name, NEW atoms
    PROVE  LET t == BuyFromMemo(memo, tx, xfer, name, atoms)
           IN  t = NoTrade \/ MadeBuy(t, name)
<1>1. NoAddr \notin ReserveOutput(tx, memo.value)
  BY DEF ReserveOutput
<1>2. ASSUME NEW gross, NEW buyer, NEW reserve \in ReserveOutput(tx, memo.value)
      PROVE  MadeBuy(BuyBy(tx, name, atoms, gross, buyer, reserve), name)
  <2> DEFINE given == DeliveredInTx(tx, name, atoms, buyer)
             t == BuyBy(tx, name, atoms, gross, buyer, reserve)
  <2>1. given => name \in DOMAIN AliasOf
    BY DEF DeliveredInTx, FromLaunch, SameAsset
  <2>2. t = Trade("buy", name, atoms, gross, buyer, reserve, reserve, ~given, NoAddr)
    BY DEF BuyBy
  <2> HIDE DEF given
  <2>3. /\ DOMAIN t = TradeFields /\ t.side = "buy" /\ t.asset = name /\ t.reserve = reserve
        /\ t.feeAddress = NoAddr /\ t.pending = ~given
    BY <2>2 DEF Trade, TradeFields
  <2> HIDE DEF t
  <2>4. MadeBuy(t, name)
    BY <1>1, <2>1, <2>3 DEF MadeBuy, IsTrade
  <2> QED
    BY <2>4 DEF t
<1>3. \E S : /\ BuyFromMemo(memo, tx, xfer, name, atoms) = FoundOf(S)
             /\ \A t \in S : \E gross, buyer : \E reserve \in ReserveOutput(tx, memo.value) :
                    t = BuyBy(tx, name, atoms, gross, buyer, reserve)
  <2> DEFINE losers == {a \in DOMAIN xfer : xfer[a] < 0}
             off(a, cost) == AbsOf(-xfer[a] - cost)
             buyer(cost)  == CHOOSE a \in losers : \A b \in losers :
                                \/ off(a, cost) < off(b, cost)
                                \/ off(a, cost) = off(b, cost) /\ xfer[a] <= xfer[b]
             grosses == {g \in FairGross(memo.value) : losers # {} /\ PaysPlatformFee(tx, g)}
             S == {BuyBy(tx, name, atoms, gross, buyer(gross + NetworkFee(xfer)), reserve) :
                      gross \in grosses, reserve \in ReserveOutput(tx, memo.value)}
  <2>1. BuyFromMemo(memo, tx, xfer, name, atoms) = FoundOf(S)
    BY DEF BuyFromMemo
  <2> HIDE DEF buyer, grosses
  <2>2. \A t \in S : \E gross : \E reserve \in ReserveOutput(tx, memo.value) :
           t = BuyBy(tx, name, atoms, gross, buyer(gross + NetworkFee(xfer)), reserve)
    OBVIOUS
  <2> HIDE DEF S
  <2> QED
    BY <2>1, <2>2
<1>4. PICK S : /\ BuyFromMemo(memo, tx, xfer, name, atoms) = FoundOf(S)
               /\ \A t \in S : MadeBuy(t, name)
  BY <1>2, <1>3
<1>5. FoundOf(S) \in S \cup {NoTrade}
  BY FoundIs
<1> QED
  BY <1>4, <1>5

LEMMA SellMade ==
    ASSUME NEW memo, NEW tx, NEW xfer, NEW name, NEW atoms, NEW moved, NEW payers
    PROVE  LET t == SellFromMemo(memo, tx, xfer, name, atoms, moved, payers)
           IN  t = NoTrade \/ (IsTrade(t) /\ t.side = "sell")
<1> DEFINE gains == {m \in moved : m.amount = atoms /\ m.addr \in Proceeds}
           gain  == CHOOSE m \in gains : TRUE
           paid  == /\ \E row \in ToSet(tx.vin) : row.addr \in payers
                    /\ \E a \in payers \cap DOMAIN xfer : -xfer[a] = memo.value
           fee(seller) == PlatformFeeOutput(tx, memo.value,
                              {seller} \cup payers \cup {m.addr : m \in gains})
           sellers == {a \in SellTrader(tx, name, atoms, moved, payers \cup {Treasury}) :
                          gains # {} /\ paid}
           made(seller) == Trade("sell", gain.held, atoms, memo.value, seller, gain.addr, NoAddr,
                                 FALSE, fee(seller))
           S == {made(seller) : seller \in sellers}
<1>1. SellFromMemo(memo, tx, xfer, name, atoms, moved, payers) = FoundOf(S)
  BY ZenonT(60) DEF SellFromMemo
<1> HIDE DEF fee, gain, sellers
<1>2. \A seller : IsTrade(made(seller)) /\ made(seller).side = "sell"
  BY DEF Trade, IsTrade, TradeFields
<1> HIDE DEF made
<1>3. FoundOf(S) \in S \cup {NoTrade}
  BY FoundIs
<1> QED
  BY <1>1, <1>2, <1>3

LEMMA FoundOfKind ==
    ASSUME NEW trades,
           \A t \in trades : Bare(t)
    PROVE  LET t == FoundOf(trades)
           IN  t = NoTrade \/ Bare(t)
<1>1. FoundOf(trades) \in trades \cup {NoTrade}
  BY FoundIs
<1> QED
  BY <1>1

LEMMA RouteMade ==
    ASSUME NEW memo, NEW tx, NEW xfer, NEW name, NEW moved, NEW launch
    PROVE  LET t == RouteTrade(memo, tx, xfer, name, moved, launch)
           IN  t = NoTrade \/ Bare(t)
<1> DEFINE losers == {m \in moved : m.amount < 0 /\ m.addr \notin launch}
           taker  == IF memo.side = "sell" /\ losers # {}
                     THEN (CHOOSE m \in losers : \A o \in losers : m.amount <= o.amount).addr
                     ELSE IF tx.vin # <<>> THEN tx.vin[1].addr ELSE NoAddr
           held   == IF moved = {} THEN name ELSE (CHOOSE m \in moved : TRUE).held
           enough(fee) == fee > 0 /\ fee * 10000 >= memo.value * RouteMinFeeBps
           S == {Trade(memo.side, held, Scale(memo.tokens, RouteUnits(memo, name, moved)),
                       memo.value, a, NoAddr, NoAddr, FALSE, NoAddr) :
                    a \in {b \in {taker} \ (launch \cup {NoAddr}) : enough(GainedBy(xfer, launch))}}
<1>1. RouteTrade(memo, tx, xfer, name, moved, launch) = FoundOf(S)
  BY DEF RouteTrade
<1>2. \A t \in S : Bare(t)
  <2> HIDE DEF losers, taker, held, enough
  <2> QED
    BY DEF Trade, Bare, IsTrade, TradeFields
<1> HIDE DEF S
<1> QED
  BY <1>1, <1>2, FoundOfKind

LEMMA SwapMade ==
    ASSUME NEW tx
    PROVE  LET t == TradeFromSwap(tx)
           IN  t = NoTrade \/ Bare(t)
<1> DEFINE xfer == XferNets(tx)
           held == AssetNets(tx)
           swaps == Swaps(tx, xfer, held)
<1>1. TradeFromSwap(tx) = IF Cardinality(swaps) = 1 THEN FoundOf(swaps) ELSE NoTrade
  BY DEF TradeFromSwap
<1> HIDE DEF xfer, held
<1>2. ASSUME NEW t \in swaps PROVE Bare(t)
  <2>3. \E at : t \in SwapsOf(xfer, held, at[1], at[2])
    BY <1>2, Zenon DEF Swaps
  <2>1. PICK party, name : t \in SwapsOf(xfer, held, party, name)
    BY <2>3, Zenon
  <2>2. PICK given, taken, trader : t \in SwapBetween(xfer, given, taken, party, trader, name)
    BY <2>1, Zenon DEF SwapsOf
  <2> QED
    BY <2>2 DEF SwapBetween, Trade, Bare, IsTrade, TradeFields
<1> HIDE DEF swaps
<1>3. FoundOf(swaps) \in swaps \cup {NoTrade}
  BY FoundIs
<1> QED
  BY <1>1, <1>2, <1>3

\* With a marker XL1.
LEMMA MemoMade ==
    ASSUME NEW memo, NEW tx, NEW res
    PROVE  LET t == TradeFromMemo(memo, tx, res)
           IN  /\ t = NoTrade \/ IsTrade(t)
               /\ t.side = "buy" => /\ MadeBuy(t, MarkedAsset(memo))
                                    /\ \A other : TradeFromMemo(memo, tx, other) = t
               /\ t # NoTrade /\ t.side # "buy" => t.side = "sell"
<1> DEFINE name == MarkedAsset(memo)
           moved == Moved(tx, name)
           inferred == UNION {InferUnits(memo.tokens, AbsOf(m.amount)) : m \in moved}
           units == IF UnitsFor(name) # {} THEN UnitsFor(name) ELSE inferred
           atoms == Scale(memo.tokens, CHOOSE u \in units : TRUE)
           buy == BuyFromMemo(memo, tx, XferNets(tx), name, atoms)
           sell(r) == SellFromMemo(memo, tx, XferNets(tx), name, atoms, moved,
                                   Proceeds \cup LearnedFor(name, r))
<1>1. \A r : TradeFromMemo(memo, tx, r) =
             IF units = {} THEN NoTrade ELSE IF memo.side = "buy" THEN buy ELSE sell(r)
  BY ZenonT(60) DEF TradeFromMemo, MemoTrade
<1>2. buy = NoTrade \/ MadeBuy(buy, name)
  BY BuyMade
<1>3. \A r : sell(r) = NoTrade \/ (IsTrade(sell(r)) /\ sell(r).side = "sell")
  BY SellMade
<1> HIDE DEF units, buy, sell, name
<1>4. NoTrade.side = "none"
  BY DEF NoTrade
<1> QED
  BY <1>1, <1>2, <1>3, <1>4 DEF MadeBuy, name

LEMMA ClassifyMade ==
    ASSUME NEW tx, NEW res, NEW fees
    PROVE  LET t == Classify(tx, res, fees)
           IN  /\ t = NoTrade \/ IsTrade(t)
               /\ t.side = "buy" /\ (t.pending \/ t.reserve # NoAddr) => FillMemos(tx) # <<>>
               /\ t.side = "buy" /\ FillMemos(tx) # <<>> =>
                     /\ MadeBuy(t, MarkedAsset(FillMemos(tx)[1]))
                     /\ \A r, f : Classify(tx, r, f) = t
               /\ IsTrade(t) /\ t.feeAddress # NoAddr =>
                     /\ t.side = "sell" /\ FillMemos(tx) # <<>>
               /\ FillMemos(tx) # <<>> =>
                     /\ t.side \in {"none", "buy", "sell"} /\ \A f : Classify(tx, res, f) = t
<1> DEFINE fills  == FillMemos(tx)
           routes == RouteMemos(tx)
           route(r, f) == TradeFromRoute(routes[1], tx, r, f)
           memo(r) == TradeFromMemo(fills[1], tx, r)
           none == Proceeds = {} \/ Len(fills) + Len(routes) > 1
           swap == TradeFromSwap(tx)
           named == MarkedAsset(fills[1])
           t == Classify(tx, res, fees)
<1>1. \A r, f : Classify(tx, r, f) = IF none THEN NoTrade
                                     ELSE IF fills # <<>> THEN memo(r)
                                     ELSE IF routes # <<>> THEN route(r, f) ELSE swap
  BY DEF Classify
<1>2. \A r, f : route(r, f) = NoTrade \/ Bare(route(r, f))
  BY RouteMade DEF TradeFromRoute
<1>3. swap = NoTrade \/ Bare(swap)
  BY SwapMade
<1>4. /\ memo(res) = NoTrade \/ IsTrade(memo(res))
      /\ memo(res).side = "buy" => MadeBuy(memo(res), named) /\ \A r : memo(r) = memo(res)
      /\ memo(res) # NoTrade /\ memo(res).side # "buy" => memo(res).side = "sell"
  BY MemoMade
<1> HIDE DEF memo, route, swap, none, fills, routes, named
<1>5. NoTrade.side = "none" /\ ~IsTrade(NoTrade)
  <2>1. NoTrade.side = "none" /\ DOMAIN NoTrade = {"side"}
    BY DEF NoTrade
  <2> QED
    BY <2>1 DEF IsTrade, TradeFields
<1>6. t = IF none THEN NoTrade ELSE IF fills # <<>> THEN memo(res)
          ELSE IF routes # <<>> THEN route(res, fees) ELSE swap
  BY <1>1
<1> HIDE DEF t
<1>7. t = NoTrade \/ IsTrade(t)
  BY <1>2, <1>3, <1>4, <1>6 DEF Bare
<1>8. t.side = "buy" /\ (t.pending \/ t.reserve # NoAddr) => fills # <<>>
  BY <1>2, <1>3, <1>5, <1>6 DEF Bare
<1>9. t.side = "buy" /\ fills # <<>> =>
         MadeBuy(t, named) /\ \A r, f : Classify(tx, r, f) = t
  BY <1>1, <1>4, <1>5, <1>6
<1>10. IsTrade(t) /\ t.feeAddress # NoAddr => t.side = "sell" /\ fills # <<>>
  BY <1>2, <1>3, <1>4, <1>5, <1>6 DEF Bare, MadeBuy
<1>11. fills # <<>> => t.side \in {"none", "buy", "sell"} /\ \A f : Classify(tx, res, f) = t
  BY <1>1, <1>4, <1>5, <1>6
<1> QED
  BY <1>7, <1>8, <1>9, <1>10, <1>11 DEF t, fills, named

-----------------------------------------------------------------------------
(* The chain only grows, and with it what it tells.                        *)

\* The chain only grows.
Grows ==
    /\ ChainOK /\ ChainOK' /\ UNCHANGED story /\ height <= height'
    /\ \A k \in DOMAIN chain : k \in DOMAIN chain' /\ chain'[k] = chain[k]

LEMMA HeightsStay ==
    ASSUME Grows, NEW k \in DOMAIN chain, NEW id \in ToSet(chain[k].txs)
    PROVE  HeightOf(id) = k /\ HeightOf(id)' = k
<1>1. HeightOf(id) = k
  BY HeightIs DEF Grows
<1>2. ASSUME NEW j \in DOMAIN chain' PROVE j \in DOMAIN BlocksOf(story) /\ chain'[j].txs = BlocksOf(story)[j]
  <2> DEFINE n == Len(story.past)
             m == Len(story.new)
  <2>1. n \in Nat /\ m \in Nat /\ DOMAIN BlocksOf(story) = 1 .. n + m
    BY StoryBlocks DEF Grows, ChainOK
  <2>2. ChainOK' /\ story' = story
    BY DEF Grows
  <2>3. /\ mined' \in Nat /\ arrived' \in Nat /\ mined' <= arrived' /\ arrived' <= m
        /\ Len(chain') = n + mined'
    BY <2>2 DEF ChainOK
  <2>4. /\ DOMAIN chain' = 1 .. n + mined'
        /\ mined' \in Nat /\ arrived' \in Nat /\ mined' <= arrived' /\ arrived' <= m
    <3>1. DOMAIN chain' = 1 .. Len(chain')
      <4> DEFINE Blocks == [day : Nat, txs : Seq(DOMAIN Txs)]
      <4>1. chain' \in Seq(Blocks)
        BY <2>2 DEF ChainOK
      <4> HIDE DEF Blocks
      <4> QED
        BY <4>1
    <3> QED
      BY <2>3, <3>1
  <2> HIDE DEF n, m
  <2>5. j \in DOMAIN BlocksOf(story)
    BY <2>1, <2>4
  <2>6. chain'[j].txs = BlocksOf(story)'[j] /\ BlocksOf(story)' = BlocksOf(story)
    BY DEF Grows, ChainOK, BlocksOf
  <2> QED
    BY <2>5, <2>6
<1>3. k \in DOMAIN chain' /\ id \in ToSet(chain'[k].txs) /\ story \in Stories
  BY DEF Grows, ChainOK
<1>4. \A h \in DOMAIN chain' : id \in ToSet(chain'[h].txs) => h = k
  BY <1>2, <1>3, StoryBlocks
<1> QED
  BY <1>1, <1>3, <1>4 DEF HeightOf

IndexHasBlocks == ChainOK => \A k \in 1 .. height : ToSet(chain[k].txs) \subseteq InIndex
LEMMA IndexHasThem == IndexHasBlocks
<1> SUFFICES ASSUME ChainOK PROVE \A k \in 1 .. height : ToSet(chain[k].txs) \subseteq InIndex
  BY DEF IndexHasBlocks
<1>1. height \in 0 .. Len(chain)
  BY DEF ChainOK
<1> QED
  BY <1>1, IndexHolds DEF InIndex

LEMMA IndexGrows ==
    ASSUME Grows
    PROVE  InIndex \subseteq InIndex' /\ \A id \in InIndex : HeightOf(id)' = HeightOf(id)
<1>1. /\ Len(chain) \in Nat /\ height \in 0 .. Len(chain) /\ DOMAIN chain = 1 .. Len(chain)
      /\ Len(chain') \in Nat /\ height' \in 0 .. Len(chain') /\ height <= height'
  BY DEF Grows, ChainOK
<1>2. \A k \in 1 .. height : k \in DOMAIN chain /\ chain'[k] = chain[k] /\ k \in 1 .. height'
  BY <1>1 DEF Grows
<1>4. \A k \in 1 .. height' : ToSet(chain'[k].txs) \subseteq InIndex'
  <2>1. IndexHasBlocks'
    BY IndexHasThem, PTL
  <2> QED
    BY <2>1 DEF IndexHasBlocks, Grows
<1>3. ASSUME NEW id \in InIndex PROVE id \in InIndex' /\ HeightOf(id)' = HeightOf(id)
  <2>1. PICK k \in 1 .. height : id \in ToSet(chain[k].txs)
    BY <1>1, IndexHolds DEF Grows, InIndex
  <2>2. k \in 1 .. height' /\ id \in ToSet(chain'[k].txs)
    BY <1>2, <2>1
  <2>3. id \in InIndex'
    BY <1>4, <2>2
  <2>4. HeightOf(id)' = HeightOf(id)
    BY <1>2, <2>1, HeightsStay
  <2> QED
    BY <2>3, <2>4
<1> QED
  BY <1>3

-----------------------------------------------------------------------------
(* What is learned.                                                        *)

\* The reserves and fee addresses of the verified buys.
SoundRows ==
    {row \in [asset : DOMAIN AliasOf, addr : {BuyOf[b].reserve : b \in VerifiedBuys}] :
        row.addr \in ReservesBy(VerifiedBuys, row.asset)}
Known == KnownBy(VerifiedBuys)
VerifiedFees == FeesBy(VerifiedBuys, InIndex)

\* What a pass knows: what it has yet to write has one row of a name, and is known.
Knowledge ==
    {k \in [res : Known, new : SUBSET SoundRows] :
        /\ \A r \in k.new : LearnedFor(r.asset, k.res) # {}
        /\ \A r, s \in k.new : r.asset = s.asset => r = s}

\* Names of one asset have the same reserves.
LEMMA OneReserve ==
    ASSUME NEW buys, NEW n \in DOMAIN AliasOf, NEW m \in DOMAIN AliasOf, n \in AliasOf[m]
    PROVE  ReservesBy(buys, n) = ReservesBy(buys, m)
<1>1. AliasOf[n] = AliasOf[m]
  BY LaunchAssumption
<1>2. \A a : SameAsset(a, n) <=> SameAsset(a, m)
  BY <1>1 DEF SameAsset
<1> QED
  BY <1>2 DEF ReservesBy

LEMMA ReservesAreSome ==
    ASSUME NEW n PROVE NoAddr \notin ReservesBy(VerifiedBuys, n)
<1>1. \A b \in VerifiedBuys : BuyOf[b].reserve # NoAddr
  BY DEF VerifiedBuys, NamesReserve
<1> QED
  BY <1>1 DEF ReservesBy

LEMMA SoundRow ==
    ASSUME NEW row \in SoundRows
    PROVE  /\ row.asset \in DOMAIN AliasOf /\ row.addr \in ReservesBy(VerifiedBuys, row.asset)
           /\ row.addr # NoAddr
  BY ReservesAreSome DEF SoundRows

LEMMA MakesRow ==
    ASSUME NEW asset \in DOMAIN AliasOf, NEW addr \in ReservesBy(VerifiedBuys, asset)
    PROVE  [asset |-> asset, addr |-> addr] \in SoundRows
<1>1. addr \in {BuyOf[b].reserve : b \in VerifiedBuys}
  BY DEF ReservesBy
<1> QED
  BY <1>1 DEF SoundRows

LEMMA KnownAre ==
    ASSUME NEW buys, NEW res \in KnownBy(buys)
    PROVE  /\ DOMAIN res = DOMAIN AliasOf /\ res = [n \in DOMAIN AliasOf |-> res[n]]
           /\ \A n \in DOMAIN AliasOf : res[n] \in ReservesBy(buys, n) \cup {NoAddr}
<1> DEFINE of == [n \in DOMAIN AliasOf |-> ReservesBy(buys, n) \cup {NoAddr}]
<1>1. res \in [DOMAIN AliasOf -> UNION Range(of)] /\ \A n \in DOMAIN AliasOf : res[n] \in of[n]
  BY DEF KnownBy
<1> QED
  BY <1>1

LEMMA MakesKnown ==
    ASSUME NEW buys, NEW f, f = [n \in DOMAIN AliasOf |-> f[n]],
           \A n \in DOMAIN AliasOf : f[n] \in ReservesBy(buys, n) \cup {NoAddr}
    PROVE  f \in KnownBy(buys)
<1> DEFINE of == [n \in DOMAIN AliasOf |-> ReservesBy(buys, n) \cup {NoAddr}]
<1>1. \A n \in DOMAIN AliasOf : of[n] \in Range(of) /\ f[n] \in of[n]
  BY DEF Range
<1>2. KnownBy(buys) = {res \in [DOMAIN AliasOf -> UNION Range(of)] : \A n \in DOMAIN AliasOf : res[n] \in of[n]}
  BY DEF KnownBy
<1> HIDE DEF of
<1>3. f \in [DOMAIN AliasOf -> UNION Range(of)]
  BY <1>1
<1> QED
  BY <1>1, <1>2, <1>3

LEMMA NothingKnown == ASSUME NEW buys PROVE NoReserves \in KnownBy(buys)
  BY MakesKnown DEF NoReserves

\* The fee address of a sell.
LEMMA FeeAmong ==
    ASSUME NEW buys, NEW sells, NEW id \in sells, NEW res \in KnownBy(buys),
           Classify(Txs[id], res, {}).side = "sell", Classify(Txs[id], res, {}).feeAddress # NoAddr
    PROVE  Classify(Txs[id], res, {}).feeAddress \in FeesBy(buys, sells)
  BY DEF FeesBy

\* More buys, and more sells, tell more.
LEMMA MoreBuys ==
    ASSUME NEW buys, NEW more, buys \subseteq more, NEW sells, NEW others, sells \subseteq others
    PROVE  /\ \A n : ReservesBy(buys, n) \subseteq ReservesBy(more, n)
           /\ KnownBy(buys) \subseteq KnownBy(more)
           /\ FeesBy(buys, sells) \subseteq FeesBy(more, others)
<1>1. \A n : ReservesBy(buys, n) \subseteq ReservesBy(more, n)
  BY DEF ReservesBy
<1>2. ASSUME NEW res \in KnownBy(buys) PROVE res \in KnownBy(more)
  <2>1. /\ res = [n \in DOMAIN AliasOf |-> res[n]]
        /\ \A n \in DOMAIN AliasOf : res[n] \in ReservesBy(buys, n) \cup {NoAddr}
    BY KnownAre
  <2> QED
    BY <1>1, <2>1, MakesKnown
<1>3. FeesBy(buys, sells) \subseteq FeesBy(more, others)
  BY <1>2 DEF FeesBy
<1> QED
  BY <1>1, <1>2, <1>3

\* What is verified now can be verified in some story.
LEMMA VerifiedCan ==
    ASSUME ChainOK PROVE Known \subseteq Knowable /\ VerifiedFees \subseteq KnowableFees
<1>1. height \in 0 .. Len(chain) /\ story \in Stories
  BY DEF ChainOK
<1>2. InIndex \subseteq TxsOf(story) /\ InIndex \subseteq DOMAIN Txs
  <2>1. TxsUpTo(height) \in Seq(DOMAIN Txs) /\ ToSet(TxsUpTo(height)) \subseteq TxsOf(story)
    BY <1>1, ChainTxs
  <2> QED
    BY <2>1 DEF InIndex, ToSet
<1>3. VerifiedBuys \subseteq DeliverableBuys
  BY <1>1, <1>2 DEF VerifiedBuys, DeliverableBuys
<1> QED
  BY <1>2, <1>3, MoreBuys DEF Known, VerifiedFees, Knowable, KnowableFees

\* A step of a page tells nothing of buys; a block may tell more.
LEMMA TheyStay ==
    ASSUME UNCHANGED nodeVars
    PROVE  /\ VerifiedBuys' = VerifiedBuys /\ InIndex' = InIndex
           /\ SoundRows' = SoundRows /\ Known' = Known /\ VerifiedFees' = VerifiedFees
<1>1. UNCHANGED <<chain, height>>
  BY DEF nodeVars
<1>2. InIndex' = InIndex /\ \A id : HeightOf(id)' = HeightOf(id)
  BY <1>1 DEF InIndex, TxsUpTo, HeightOf
<1>3. VerifiedBuys' = VerifiedBuys
  BY <1>2 DEF VerifiedBuys
<1> QED
  BY <1>2, <1>3 DEF SoundRows, Known, VerifiedFees

LEMMA TheyGrow ==
    ASSUME Grows
    PROVE  /\ VerifiedBuys \subseteq VerifiedBuys' /\ InIndex \subseteq InIndex'
           /\ \A n : ReservesBy(VerifiedBuys, n) \subseteq ReservesBy(VerifiedBuys', n)
           /\ SoundRows \subseteq SoundRows' /\ Known \subseteq Known'
           /\ VerifiedFees \subseteq VerifiedFees'
<1>1. InIndex \subseteq InIndex' /\ \A id \in InIndex : HeightOf(id)' = HeightOf(id)
  BY IndexGrows
<1>2. VerifiedBuys \subseteq VerifiedBuys'
  BY <1>1 DEF VerifiedBuys
<1>3. /\ \A n : ReservesBy(VerifiedBuys, n) \subseteq ReservesBy(VerifiedBuys', n)
      /\ KnownBy(VerifiedBuys) \subseteq KnownBy(VerifiedBuys')
      /\ FeesBy(VerifiedBuys, InIndex) \subseteq FeesBy(VerifiedBuys', InIndex')
  BY <1>1, <1>2, MoreBuys
<1>4. SoundRows \subseteq SoundRows'
  BY <1>2, <1>3 DEF SoundRows
<1> QED
  BY <1>1, <1>2, <1>3, <1>4 DEF Known, VerifiedFees

\* The table, read by every name of each asset.
LEMMA LoadsKnown ==
    ASSUME table \subseteq SoundRows PROVE LoadReserves \in Known
<1> DEFINE hits(n) == {row.addr : row \in {r \in table : n \in AliasOf[r.asset]}}
           load(n) == IF hits(n) = {} THEN NoAddr ELSE CHOOSE a \in hits(n) : TRUE
<1>1. LoadReserves = [n \in DOMAIN AliasOf |-> load(n)]
  BY DEF LoadReserves
<1>2. ASSUME NEW n \in DOMAIN AliasOf PROVE hits(n) \subseteq ReservesBy(VerifiedBuys, n)
  <2>1. \A r \in table : r.asset \in DOMAIN AliasOf /\ r.addr \in ReservesBy(VerifiedBuys, r.asset)
    BY SoundRow
  <2>2. \A r \in table : n \in AliasOf[r.asset] =>
           ReservesBy(VerifiedBuys, n) = ReservesBy(VerifiedBuys, r.asset)
    BY <2>1, OneReserve
  <2> QED
    BY <2>1, <2>2
<1> HIDE DEF hits
<1>3. \A n \in DOMAIN AliasOf : load(n) \in ReservesBy(VerifiedBuys, n) \cup {NoAddr}
  BY <1>2
<1> HIDE DEF load
<1> QED
  BY <1>1, <1>3, MakesKnown DEF Known

\* One more reserve; what was known stays known.
LEMMA RemembersKnown ==
    ASSUME table \subseteq SoundRows, NEW res \in Known, NEW asset \in DOMAIN AliasOf,
           NEW addr \in ReservesBy(VerifiedBuys, asset)
    PROVE  LET new == Remembered(res, asset, addr)
           IN  /\ new \in Known /\ LearnedFor(asset, new) # {}
               /\ \A a : LearnedFor(a, res) # {} => LearnedFor(a, new) # {}
<1> DEFINE R == ReservesBy(VerifiedBuys, asset)
           stored == {r.addr : r \in {x \in table : x.asset \in AliasOf[asset]}}
           learned == LearnedFor(asset, res)
           known == IF learned # {} THEN learned ELSE stored
           put == IF known # {} THEN CHOOSE a \in known : TRUE ELSE addr
           fresh(n) == IF n \in AliasOf[asset] /\ res[n] = NoAddr THEN put ELSE res[n]
           new == Remembered(res, asset, addr)
<1>1. new = [n \in DOMAIN res |-> fresh(n)]
  BY DEF Remembered
<1>2. stored \subseteq R
  <2>1. \A r \in table : r.asset \in DOMAIN AliasOf /\ r.addr \in ReservesBy(VerifiedBuys, r.asset)
    BY SoundRow
  <2>2. \A r \in table : r.asset \in AliasOf[asset] => ReservesBy(VerifiedBuys, r.asset) = R
    BY <2>1, OneReserve
  <2> QED
    BY <2>1, <2>2
<1>3. /\ DOMAIN res = DOMAIN AliasOf
      /\ \A n \in DOMAIN AliasOf : res[n] \in ReservesBy(VerifiedBuys, n) \cup {NoAddr}
  BY KnownAre DEF Known
<1>4. \A n \in DOMAIN AliasOf : n \in AliasOf[asset] => ReservesBy(VerifiedBuys, n) = R
  BY OneReserve
<1>5. learned \subseteq R
  BY <1>3, <1>4 DEF LearnedFor
<1>6. NoAddr \notin R /\ addr \in R
  BY ReservesAreSome
<1> HIDE DEF stored, learned, R
<1>7. put \in R
  BY <1>2, <1>5, <1>6
<1> HIDE DEF put
<1>8. \A n \in DOMAIN AliasOf : fresh(n) \in ReservesBy(VerifiedBuys, n) \cup {NoAddr}
  BY <1>3, <1>4, <1>7
<1>9. /\ \A n \in DOMAIN AliasOf : res[n] # NoAddr => fresh(n) # NoAddr
      /\ asset \in AliasOf[asset] /\ fresh(asset) # NoAddr
  BY <1>6, <1>7, LaunchAssumption
<1> HIDE DEF fresh, new
<1>10. new \in Known
  BY <1>1, <1>3, <1>8, MakesKnown DEF Known
<1>11. LearnedFor(asset, new) # {}
  <2>1. new[asset] \in LearnedFor(asset, new)
    BY <1>1, <1>3, <1>9 DEF LearnedFor
  <2> QED
    BY <2>1
<1>12. ASSUME NEW a, LearnedFor(a, res) # {} PROVE LearnedFor(a, new) # {}
  <2>1. PICK n \in AliasOf[a] \cap DOMAIN res : res[n] # NoAddr
    BY <1>12 DEF LearnedFor
  <2>2. new[n] \in LearnedFor(a, new)
    BY <1>1, <1>3, <1>9, <2>1 DEF LearnedFor
  <2> QED
    BY <2>2
<1> QED
  BY <1>10, <1>11, <1>12 DEF new

LEMMA LearnsKnown ==
    ASSUME table \subseteq SoundRows, NEW acc \in Knowledge, NEW asset \in DOMAIN AliasOf,
           NEW addr \in ReservesBy(VerifiedBuys, asset)
    PROVE  LET end == Learned(acc, asset, addr)
           IN  /\ end \in Knowledge /\ LearnedFor(asset, end.res) # {}
               /\ \A a : LearnedFor(a, acc.res) # {} => LearnedFor(a, end.res) # {}
<1> DEFINE res == Remembered(acc.res, asset, addr)
           row == [asset |-> asset, addr |-> addr]
           new == IF IsNew(acc.res, asset) THEN acc.new \cup {row} ELSE acc.new
           end == Learned(acc, asset, addr)
<1>1. end = [res |-> res, new |-> new]
  BY DEF Learned
<1>2. /\ acc.res \in Known /\ acc.new \subseteq SoundRows
      /\ \A r \in acc.new : LearnedFor(r.asset, acc.res) # {}
      /\ \A r, s \in acc.new : r.asset = s.asset => r = s
  BY DEF Knowledge
<1>3. /\ res \in Known /\ LearnedFor(asset, res) # {}
      /\ \A a : LearnedFor(a, acc.res) # {} => LearnedFor(a, res) # {}
  BY <1>2, RemembersKnown
<1>4. row \in SoundRows /\ row.asset = asset
  BY MakesRow
<1>5. IsNew(acc.res, asset) => LearnedFor(asset, acc.res) = {}
  BY DEF IsNew
<1> HIDE DEF res, row
<1>6. /\ new \subseteq SoundRows
      /\ \A r \in new : LearnedFor(r.asset, res) # {}
      /\ \A r, s \in new : r.asset = s.asset => r = s
  BY <1>2, <1>3, <1>4, <1>5
<1> HIDE DEF new, end
<1>7. end \in Knowledge /\ end.res = res
  BY <1>1, <1>3, <1>6 DEF Knowledge
<1> QED
  BY <1>3, <1>7 DEF end

\* A pass over the transactions, in chain order.
LEMMA AllLearnsKnown ==
    ASSUME table \subseteq SoundRows, NEW res \in Known, NEW taught,
           NEW ids, Len(ids) \in Nat,
           \A row \in taught : /\ row.trade.asset \in DOMAIN AliasOf
                               /\ row.trade.reserve \in ReservesBy(VerifiedBuys, row.trade.asset)
    PROVE  AllLearned(taught, ids, res) \in Knowledge
<1> DEFINE N == Len(ids)
           of(id) == (CHOOSE row \in taught : row.tx = id).trade
           step(n, acc) == IF \E row \in taught : row.tx = ids[n]
                           THEN Learned(acc, of(ids[n]).asset, of(ids[n]).reserve)
                           ELSE acc
           a == [res |-> res, new |-> {}]
           IsAfter(f) == f = [n \in 0 .. N |-> IF n = 0 THEN a ELSE step(n, f[n - 1])]
           after == CHOOSE f : IsAfter(f)
           G == [n \in 1 .. N |-> [acc \in Knowledge |-> step(n, acc)]]
<1>1. AllLearned(taught, ids, res) = after[N]
  BY DEF AllLearned
<1>2. a \in Knowledge
  BY DEF Knowledge
<1>3. ASSUME NEW n, NEW acc \in Knowledge PROVE step(n, acc) \in Knowledge
  <2>2. CASE \E row \in taught : row.tx = ids[n]
    <3> DEFINE t == of(ids[n])
    <3>1. t.asset \in DOMAIN AliasOf /\ t.reserve \in ReservesBy(VerifiedBuys, t.asset)
      BY <2>2
    <3>2. step(n, acc) = Learned(acc, t.asset, t.reserve)
      BY <2>2
    <3> HIDE DEF t, step
    <3>3. Learned(acc, t.asset, t.reserve) \in Knowledge
      BY <3>1, LearnsKnown
    <3> QED
      BY <3>2, <3>3
  <2>3. CASE ~ \E row \in taught : row.tx = ids[n]
    BY <2>3
  <2> QED
    BY <2>2, <2>3
<1> HIDE DEF step, a, N
<1>4. IsAfter(after)
  <2>1. G \in Steps(Knowledge, N)
    BY <1>3 DEF Steps
  <2> HIDE DEF G
  <2>2. N \in Nat
    BY DEF N
  <2>3. PICK f \in [0 .. N -> Knowledge] : BySteps(f, a, N, G)
    BY <1>2, <2>1, <2>2, RecursionExists
  <2>4. \A n \in 1 .. N : G[n][f[n - 1]] = step(n, f[n - 1])
    <3> TAKE n \in 1 .. N
    <3>1. n - 1 \in 0 .. N
      BY <2>2
    <3>2. f[n - 1] \in Knowledge
      BY <2>3, <3>1
    <3> QED
      BY <3>2 DEF G
  <2>5. \A n \in 0 .. N : (IF n = 0 THEN a ELSE G[n][f[n - 1]]) = (IF n = 0 THEN a ELSE step(n, f[n - 1]))
    BY <2>2, <2>4
  <2>6. IsAfter(f)
    BY <2>3, <2>5 DEF BySteps
  <2> QED
    BY <2>6
<1> HIDE DEF after
<1>5. after[N] \in Knowledge
  <2>1. N \in Nat
    BY DEF N
  <2>2. after[0] = a /\ \A n \in 1 .. N : after[n] = step(n, after[n - 1])
    BY <1>4, <2>1
  <2>3. \A n \in 1 .. N : after[n - 1] \in Knowledge => after[n] \in Knowledge
    BY <1>3, <2>2
  <2>4. \A n \in 0 .. N : after[n] \in Knowledge
    BY <1>2, <2>1, <2>2, <2>3, RecursionStays
  <2> QED
    BY <2>1, <2>4
<1> QED
  BY <1>1, <1>5

-----------------------------------------------------------------------------
(* Deliveries.                                                             *)

\* A transaction hands out what a pending buy bought.
Fits(buys, views, id, c) ==
    /\ id \in DOMAIN buys /\ buys[id].pending /\ c \in ToSet(views) /\ c # id
    /\ HeightOf(c) >= HeightOf(id)
    /\ TokenDelivery(View(c), buys[id].asset, buys[id].atoms, buys[id].trader) # {}

\* What a buy may take of what is left, and what is taken with the first of it.
Fitting(buys, views, taken, id) ==
    {i \in DOMAIN views : Fits(buys, views, id, views[i]) /\ views[i] \notin {d.by : d \in taken}}
Taken(buys, views, taken, id) ==
    taken \cup {[buy |-> id, by |-> views[i]] : i \in FirstOf(Fitting(buys, views, taken, id))}

\* Buy after buy takes its delivery.
TakenByTurns(f, buys, views) ==
    /\ f[0] = {}
    /\ \A n \in 1 .. Len(views) : f[n] = Taken(buys, views, f[n - 1], views[n])
    /\ f[Len(views)] = Deliveries(buys, views)

LEMMA DeliveriesByTurns ==
    ASSUME NEW buys, NEW views, Len(views) \in Nat, DOMAIN views = 1 .. Len(views)
    PROVE  \E f : TakenByTurns(f, buys, views)
<1> DEFINE N == Len(views)
           fits(id, taken) ==
               {i \in DOMAIN views :
                   /\ id \in DOMAIN buys /\ buys[id].pending
                   /\ views[i] # id /\ views[i] \notin {d.by : d \in taken}
                   /\ HeightOf(views[i]) >= HeightOf(id)
                   /\ TokenDelivery(View(views[i]), buys[id].asset, buys[id].atoms,
                                    buys[id].trader) # {}}
           take(taken, id) ==
               taken \cup {[buy |-> id, by |-> views[i]] : i \in FirstOf(fits(id, taken))}
           none == {}
           IsMatched(f) == f = [n \in 0 .. N |-> IF n = 0 THEN none ELSE take(f[n - 1], views[n])]
           matched == CHOOSE f : IsMatched(f)
           Matchings == SUBSET [buy : ToSet(views), by : ToSet(views)]
           G == [n \in 1 .. N |-> [taken \in Matchings |-> take(taken, views[n])]]
<1>1. Deliveries(buys, views) = matched[N]
  BY DEF Deliveries
<1>2. ASSUME NEW id \in ToSet(views), NEW taken \in Matchings PROVE take(taken, id) \in Matchings
  <2>1. ASSUME NEW i \in FirstOf(fits(id, taken)) PROVE views[i] \in ToSet(views)
    BY DEF FirstOf, ToSet
  <2> HIDE DEF fits
  <2> QED
    BY <2>1
<1>3. \A taken, id : take(taken, id) = Taken(buys, views, taken, id)
  <2> TAKE taken, id
  <2>1. ASSUME NEW i \in DOMAIN views PROVE views[i] \in ToSet(views)
    BY DEF ToSet
  <2>2. fits(id, taken) = Fitting(buys, views, taken, id)
    BY <2>1 DEF Fitting, Fits
  <2> HIDE DEF fits
  <2> QED
    BY <2>2 DEF Taken
<1>4. \A n \in 1 .. N : views[n] \in ToSet(views)
  BY DEF ToSet
<1> HIDE DEF take, Matchings, N
<1>5. none \in Matchings
  BY DEF Matchings
<1> HIDE DEF none
<1>6. N \in Nat
  BY DEF N
<1>7. IsMatched(matched)
  <2>1. G \in Steps(Matchings, N)
    BY <1>2, <1>4 DEF Steps
  <2> HIDE DEF G
  <2>2. PICK f \in [0 .. N -> Matchings] : BySteps(f, none, N, G)
    BY <1>5, <1>6, <2>1, RecursionExists
  <2>3. \A n \in 1 .. N : G[n][f[n - 1]] = take(f[n - 1], views[n])
    <3> TAKE n \in 1 .. N
    <3>1. n - 1 \in 0 .. N
      BY <1>6
    <3>2. f[n - 1] \in Matchings
      BY <2>2, <3>1
    <3> QED
      BY <3>2 DEF G
  <2>4. \A n \in 0 .. N : (IF n = 0 THEN none ELSE G[n][f[n - 1]])
                              = (IF n = 0 THEN none ELSE take(f[n - 1], views[n]))
    BY <1>6, <2>3
  <2>5. IsMatched(f)
    BY <2>2, <2>4 DEF BySteps
  <2> QED
    BY <2>5
<1> HIDE DEF matched
<1>8. matched[0] = none /\ \A n \in 1 .. N : matched[n] = take(matched[n - 1], views[n])
  BY <1>6, <1>7
<1>9. TakenByTurns(matched, buys, views)
  BY <1>1, <1>3, <1>8 DEF TakenByTurns, N, none
<1> QED
  BY <1>9

LEMMA DeliveriesFit ==
    ASSUME NEW buys, NEW views, Len(views) \in Nat, DOMAIN views = 1 .. Len(views)
    PROVE  \A d \in Deliveries(buys, views) : Fits(buys, views, d.buy, d.by)
<1> DEFINE Pairs == SUBSET {p \in [buy : DOMAIN buys, by : ToSet(views)] :
                               Fits(buys, views, p.buy, p.by)}
<1>1. PICK f : TakenByTurns(f, buys, views)
  BY DeliveriesByTurns
<1>2. ASSUME NEW n \in 1 .. Len(views), f[n - 1] \in Pairs PROVE f[n] \in Pairs
  <2> DEFINE id == views[n]
  <2>1. f[n] = Taken(buys, views, f[n - 1], id)
    BY <1>1 DEF TakenByTurns
  <2> HIDE DEF id
  <2>2. ASSUME NEW i \in FirstOf(Fitting(buys, views, f[n - 1], id))
        PROVE  /\ [buy |-> id, by |-> views[i]] \in [buy : DOMAIN buys, by : ToSet(views)]
               /\ Fits(buys, views, id, views[i])
    BY DEF FirstOf, Fitting, Fits
  <2> QED
    BY <1>2, <2>1, <2>2 DEF Taken
<1>3. f[0] \in Pairs
  BY <1>1 DEF TakenByTurns
<1> HIDE DEF Pairs
<1>4. \A n \in 0 .. Len(views) : f[n] \in Pairs
  BY <1>2, <1>3, RecursionStays
<1>5. Deliveries(buys, views) \in Pairs
  BY <1>1, <1>4 DEF TakenByTurns
<1> QED
  BY <1>5 DEF Pairs

-----------------------------------------------------------------------------
(* What a pass may learn from a transaction.                               *)

\* It is read in one of the ways that the assumptions are about.
LEMMA ReadAsSeen ==
    ASSUME NEW id \in DOMAIN Txs
    PROVE  Txs[id] \in SeenAs(id) /\ View(id) \in SeenAs(id) /\ MempoolView(id) \in SeenAs(id)
<1>1. Txs[id] \in SeenAs(id) /\ View(id) \in SeenAs(id)
  BY DEF SeenAs, View
<1>2. MempoolView(id) \in SeenAs(id)
  <2> DEFINE vin == Txs[id].vin
             spent == {row.prev : row \in ToSet(vin)}
             parents == InIndex \cap spent
  <2>1. \A i \in DOMAIN vin : vin[i].prev \in spent
    BY DEF ToSet
  <2> HIDE DEF spent
  <2>2. \A i \in DOMAIN vin : vin[i].prev \in parents <=> vin[i].prev \in InIndex
    BY <2>1
  <2> HIDE DEF parents
  <2>3. WithParents(id, parents) = WithParents(id, InIndex)
    <3> DEFINE seen(P) == [i \in DOMAIN vin |-> IF vin[i].prev = NoTx \/ vin[i].prev \in P
                                                THEN vin[i] ELSE UnknownRow]
    <3>1. seen(parents) = seen(InIndex)
      BY <2>2
    <3>2. \A P : WithParents(id, P) = [Txs[id] EXCEPT !.vin = seen(P)]
      BY DEF WithParents
    <3> HIDE DEF seen
    <3> QED
      BY <3>1, <3>2
  <2>4. parents \in SUBSET spent
    BY DEF parents
  <2> QED
    BY <2>3, <2>4 DEF SeenAs, MempoolView, spent
<1> QED
  BY <1>1, <1>2

\* What View leaves out are markers.
LEMMA NoneMarked ==
    ASSUME NEW id \in DOMAIN Txs PROVE FillMemos(NoMarkers(Txs[id])) = <<>>
<1> DEFINE tx == NoMarkers(Txs[id])
           vout == Txs[id].vout
           marked(m) == m # NoMemo /\ m.tag = "XL1" /\ m.value > 0 /\ m.tokens > 0
           memo(i) == tx.vout[i].memo
           ss == [i \in DOMAIN tx.vout |-> IF marked(memo(i)) THEN <<memo(i)>> ELSE <<>>]
           bare == [i \in DOMAIN vout |-> [vout[i] EXCEPT !.memo = NoMemo]]
<1>1. FillMemos(tx) = FlattenSeq(ss)
  BY DEF FillMemos, MarkersOf
<1>2. /\ "vout" \in DOMAIN Txs[id] /\ vout \in Seq(ToSet(vout))
      /\ \A row \in ToSet(vout) : "memo" \in DOMAIN row
  BY TxsAssumption DEF UnknownRow
<1>3. tx.vout = bare
  BY <1>2 DEF NoMarkers
<1>4. \A i \in DOMAIN vout : vout[i] \in ToSet(vout)
  BY DEF ToSet
<1>5. Len(vout) \in Nat /\ DOMAIN vout = 1 .. Len(vout)
  BY <1>2
<1>6. DOMAIN bare = 1 .. Len(vout) /\ \A i \in 1 .. Len(vout) : bare[i].memo = NoMemo
  BY <1>2, <1>4, <1>5
<1> HIDE DEF bare, vout, tx
<1>7. \A i \in 1 .. Len(vout) : ss[i] = <<>>
  BY <1>3, <1>6
<1>8. DOMAIN ss = 1 .. Len(vout) /\ ss = [i \in 1 .. Len(vout) |-> ss[i]]
  BY <1>3, <1>6
<1> HIDE DEF ss
<1> DEFINE S == {}
<1> HIDE DEF S
<1>9. <<>> \in Seq(S) /\ \A i \in 1 .. Len(vout) : ss[i] \in Seq(S)
  <2>1. <<>> \in Seq(S)
    OBVIOUS
  <2> QED
    BY <1>7, <2>1, Zenon
<1>10. ss \in Seq(Seq(S))
  BY <1>5, <1>8, <1>9
<1>11. FlattenSeq(ss) \in Seq(S)
  BY <1>10, FlattenPlaces
<1>12. FlattenSeq(ss) = <<>>
  <2>1. ASSUME NEW s \in Seq(S) PROVE s = <<>>
    <3>1. Len(s) \in Nat /\ \A i \in 1 .. Len(s) : s[i] \in S
      OBVIOUS
    <3>2. Len(s) = 0
      BY <3>1 DEF S
    <3> QED
      BY <3>2
  <2> QED
    BY <1>11, <2>1
<1> QED
  BY <1>1, <1>12 DEF tx

LEMMA ReadMarked ==
    ASSUME NEW id \in DOMAIN Txs, FillMemos(View(id)) # <<>> PROVE View(id) = Txs[id]
  BY NoneMarked DEF View

LEMMA ViewRows ==
    ASSUME NEW c \in DOMAIN Txs
    PROVE  /\ View(c).vin = Txs[c].vin
           /\ \A row \in ToSet(View(c).vout) : \E r \in ToSet(Txs[c].vout) :
                 row.addr = r.addr /\ row.asset = r.asset /\ row.amount = r.amount
<1>1. /\ {"vin", "vout"} \subseteq DOMAIN Txs[c]
      /\ \A r \in ToSet(Txs[c].vout) : {"addr", "asset", "amount", "memo"} \subseteq DOMAIN r
  BY TxsAssumption DEF UnknownRow
<1>2. CASE c \in unread
  <2> DEFINE vout == Txs[c].vout
             bare == [i \in DOMAIN vout |-> [vout[i] EXCEPT !.memo = NoMemo]]
  <2>1. View(c) = [Txs[c] EXCEPT !.vout = bare]
    BY <1>2 DEF View, NoMarkers
  <2>2. \A i \in DOMAIN vout : vout[i] \in ToSet(vout)
    BY DEF ToSet
  <2>3. \A i \in DOMAIN vout : /\ bare[i].addr = vout[i].addr /\ bare[i].asset = vout[i].asset
                               /\ bare[i].amount = vout[i].amount
    BY <1>1, <2>2
  <2>4. DOMAIN bare = DOMAIN vout
    OBVIOUS
  <2> HIDE DEF bare
  <2>5. View(c).vin = Txs[c].vin /\ View(c).vout = bare
    BY <1>1, <2>1
  <2>6. \A row \in ToSet(bare) : \E i \in DOMAIN vout : row = bare[i]
    BY <2>4 DEF ToSet
  <2> HIDE DEF vout
  <2>7. \A row \in ToSet(bare) : \E r \in ToSet(vout) :
                 row.addr = r.addr /\ row.asset = r.asset /\ row.amount = r.amount
    BY <2>2, <2>3, <2>6
  <2> QED
    BY <2>5, <2>7 DEF vout
<1>3. CASE c \notin unread
  BY <1>3 DEF View
<1> QED
  BY <1>2, <1>3

\* A buy that is read, and waits or names a reserve, is one by its own marker.
LEMMA BuyIsBought ==
    ASSUME NEW id \in DOMAIN Txs, NEW res, NEW fees, NEW t, t = Classify(View(id), res, fees),
           t.side = "buy", t.pending \/ t.reserve # NoAddr
    PROVE  BuyOf[id] = t /\ NamesReserve(id)
<1>1. FillMemos(View(id)) # <<>> /\ t.reserve # NoAddr
      /\ \A r, f : Classify(View(id), r, f) = t
  BY ClassifyMade DEF MadeBuy
<1>2. BuyOf[id] = t
  BY <1>1, ReadMarked DEF BuyOf
<1> QED
  BY <1>1, <1>2 DEF NamesReserve

\* If it is delivered, it teaches the reserve of its asset.
LEMMA BuyTeaches ==
    ASSUME NEW id \in InIndex, id \in DOMAIN Txs, NamesReserve(id),
           BuyOf[id].pending => \E c \in InIndex : HandsOut(c, id) /\ HeightOf(c) >= HeightOf(id),
           NEW name, name = BuyOf[id].asset \/ SameAsset(BuyOf[id].asset, name)
    PROVE  name \in DOMAIN AliasOf /\ BuyOf[id].reserve \in ReservesBy(VerifiedBuys, name)
<1> DEFINE buy == BuyOf[id]
<1>1. id \in VerifiedBuys
  BY DEF VerifiedBuys
<1>2. buy.asset \in DOMAIN AliasOf
  <2>1. CASE buy.pending
    <3>1. PICK c \in InIndex : HandsOut(c, id)
      BY <2>1
    <3> QED
      BY <3>1 DEF HandsOut, FromLaunch, SameAsset
  <2>2. CASE ~buy.pending
    <3>1. buy.side = "buy" /\ buy.reserve # NoAddr /\ buy = Classify(Txs[id], NoReserves, {})
      BY DEF NamesReserve, BuyOf
    <3>2. MadeBuy(buy, MarkedAsset(FillMemos(Txs[id])[1]))
      BY <3>1, ClassifyMade
    <3> QED
      BY <2>2, <3>2 DEF MadeBuy
  <2> QED
    BY <2>1, <2>2
<1>3. SameAsset(buy.asset, buy.asset)
  BY <1>2, LaunchAssumption DEF SameAsset
<1>4. SameAsset(buy.asset, name)
  BY <1>3
<1> QED
  BY <1>1, <1>4 DEF ReservesBy, SameAsset

\* One of the trades that a transaction may be taken for by who knows only what
\* can be verified; by TruthAssumption, which PagesSound alone needs, there is
\* one at most.
TakenFor(id, side, trader) ==
    side # "none" /\ \E trade \in TradesOf(id) : trade.side = side /\ trade.trader = trader

LEMMA TradeIsTaken ==
    ASSUME ChainOK, NEW id \in DOMAIN Txs, NEW view \in SeenAs(id), NEW res \in Known,
           NEW fees \in SUBSET VerifiedFees, Classify(view, res, fees).side # "none"
    PROVE  LET t == Classify(view, res, fees)
           IN  TakenFor(id, t.side, t.trader)
<1> DEFINE t == Classify(view, res, fees)
<1>1. res \in Knowable /\ fees \in SUBSET KnowableFees
  BY VerifiedCan
<1>2. t \in TradesOf(id)
  BY <1>1 DEF TradesOf
<1>3. t.side # "none"
  OBVIOUS
<1> HIDE DEF t
<1>4. TakenFor(id, t.side, t.trader)
  BY <1>2, <1>3 DEF TakenFor
<1> QED
  BY <1>4 DEF t

\* A fee address is read from a sell.
LEMMA ReadFee ==
    ASSUME NEW id \in InIndex, id \in DOMAIN Txs, NEW view \in {View(id), Txs[id]}, NEW res \in Known,
           NEW fees, NEW t, t = Classify(view, res, fees), IsTrade(t), t.feeAddress # NoAddr
    PROVE  t.feeAddress \in VerifiedFees
<1>1. t.side = "sell" /\ FillMemos(view) # <<>>
  BY ClassifyMade
<1>2. view = Txs[id]
  BY <1>1, ReadMarked
<1>3. t = Classify(Txs[id], res, {})
  BY <1>1, <1>2, ClassifyMade
<1> QED
  BY <1>1, <1>3, FeeAmong DEF Known, VerifiedFees

\* A delivery that is read hands out what was bought.
LEMMA DeliveryHandsOver ==
    ASSUME NEW id, NEW c \in DOMAIN Txs, c # id, NEW trade, trade = BuyOf[id],
           TokenDelivery(View(c), trade.asset, trade.atoms, trade.trader) # {}
    PROVE  /\ HandsOut(c, id)
           /\ \A held \in TokenDelivery(View(c), trade.asset, trade.atoms, trade.trader) :
                 SameAsset(held, trade.asset)
<1> DEFINE v == View(c)
<1>1. /\ FromLaunch(v, trade.asset, Proceeds \cup {Treasury})
      /\ TokenDelivery(v, trade.asset, trade.atoms, trade.trader)
             = {row.asset : row \in ToBuyer(v, trade.asset, trade.atoms, trade.trader)}
  BY Zenon DEF TokenDelivery
<1>2. v.vin = Txs[c].vin
      /\ \A row \in ToSet(v.vout) : \E r \in ToSet(Txs[c].vout) :
            row.addr = r.addr /\ row.asset = r.asset /\ row.amount = r.amount
  BY ViewRows
<1> HIDE DEF v
<1>3. FromLaunch(Txs[c], trade.asset, Proceeds \cup {Treasury})
  BY <1>1, <1>2 DEF FromLaunch
<1>4. PICK row \in ToBuyer(v, trade.asset, trade.atoms, trade.trader) : TRUE
  BY <1>1 DEF v
<1>5. ToBuyer(Txs[c], trade.asset, trade.atoms, trade.trader) # {}
  BY <1>2, <1>4 DEF ToBuyer
<1>6. \A r \in ToBuyer(v, trade.asset, trade.atoms, trade.trader) : SameAsset(r.asset, trade.asset)
  BY DEF ToBuyer
<1>7. HandsOut(c, id)
  BY <1>3, <1>5 DEF HandsOut
<1> QED
  BY <1>1, <1>6, <1>7 DEF v

-----------------------------------------------------------------------------
(* What the searches of the index find.                                    *)

\* A verified reserve of the asset, or none.
FoundTrue(asset, addr) ==
    addr = NoAddr \/ (asset \in DOMAIN AliasOf /\ addr \in ReservesBy(VerifiedBuys, asset))

\* The rows that are joined are those of a delivery.
LEMMA RowsHandOut ==
    ASSUME NEW id, NEW c, c # id, DeliveryRows(Txs[c], BuyOf[id]) # {}
    PROVE  HandsOut(c, id)
<1> DEFINE tx == Txs[c]
           buy == BuyOf[id]
<1>1. PICK at \in (DOMAIN tx.vout) \X (DOMAIN tx.vin) :
         /\ tx.vout[at[1]].addr = buy.trader /\ tx.vout[at[1]].amount = buy.atoms
         /\ SameAsset(tx.vout[at[1]].asset, buy.asset)
         /\ tx.vin[at[2]].addr = Treasury /\ tx.vin[at[2]].amount > 0
         /\ SameAsset(tx.vin[at[2]].asset, buy.asset)
  BY DEF DeliveryRows
<1>2. tx.vout[at[1]] \in ToSet(tx.vout) /\ tx.vin[at[2]] \in ToSet(tx.vin)
  BY <1>1 DEF ToSet
<1> HIDE DEF tx, buy
<1>3. FromLaunch(tx, buy.asset, Proceeds \cup {Treasury})
  BY <1>1, <1>2 DEF FromLaunch
<1>4. ToBuyer(tx, buy.asset, buy.atoms, buy.trader) # {}
  BY <1>1, <1>2 DEF ToBuyer
<1> QED
  BY <1>3, <1>4 DEF HandsOut, tx, buy

LEMMA IndexTeaches ==
    ASSUME ChainOK, NEW asset, NEW seen
    PROVE  FoundTrue(asset, ReserveFromIndex(asset, seen))
<1> DEFINE ids == TxsUpTo(height)
           teaching == {i \in DOMAIN ids : ids[i] \in seen /\ Teaches(ids, ids[i], asset)}
           first == CHOOSE i \in FirstOf(teaching) : TRUE
<1>1. ReserveFromIndex(asset, seen) = IF teaching = {} THEN NoAddr ELSE BuyOf[ids[first]].reserve
  BY DEF ReserveFromIndex
<1>2. height \in 0 .. Len(chain)
  BY DEF ChainOK
<1>3. ids \in Seq(DOMAIN Txs) /\ ToSet(ids) = InIndex
  BY <1>2, ChainTxs DEF InIndex
<1>4. ASSUME NEW id \in ToSet(ids), Teaches(ids, id, asset)
      PROVE  FoundTrue(asset, BuyOf[id].reserve)
  <2>1. NamesReserve(id) /\ SameAsset(BuyOf[id].asset, asset) /\ DeliveredAmong(ids, BuyOf[id], id)
    BY <1>4 DEF Teaches, NamesReserve
  <2>2. PICK k \in DOMAIN ids :
           /\ DeliveryRows(Txs[ids[k]], BuyOf[id]) # {}
           /\ ids[k] # id /\ HeightOf(ids[k]) >= HeightOf(id)
    BY <2>1 DEF DeliveredAmong
  <2>3. ids[k] \in InIndex /\ id \in InIndex /\ id \in DOMAIN Txs
    BY <1>3 DEF ToSet
  <2>4. HandsOut(ids[k], id)
    BY <2>2, RowsHandOut
  <2>5. asset \in DOMAIN AliasOf /\ BuyOf[id].reserve \in ReservesBy(VerifiedBuys, asset)
    BY <2>1, <2>2, <2>3, <2>4, BuyTeaches
  <2> QED
    BY <2>5 DEF FoundTrue
<1>5. CASE teaching # {}
  <2>1. teaching \subseteq Nat /\ teaching \subseteq DOMAIN ids
    BY <1>3
  <2>2. \E m \in teaching : \A k \in teaching : m <= k
    BY <1>5, <2>1, LeastNumber
  <2>3. first \in teaching
    <3> HIDE DEF teaching
    <3> QED
      BY <2>2 DEF FirstOf
  <2>4. ids[first] \in ToSet(ids) /\ Teaches(ids, ids[first], asset)
    BY <2>1, <2>3 DEF ToSet
  <2> HIDE DEF teaching
  <2> QED
    BY <1>1, <1>4, <1>5, <2>4
<1>6. CASE teaching = {}
  BY <1>1, <1>6 DEF FoundTrue
<1> QED
  BY <1>5, <1>6

\* Markers are read again block by block.
BlockWise(old) ==
    /\ old \subseteq story.unread
    /\ \A u, v \in story.unread : u \in old /\ HeightOf(u) = HeightOf(v) => v \in old
Fewer(some, old) == some \subseteq old /\ (BlockWise(old) => BlockWise(some))

\* What was never read is of the blocks that were there.
LEMMA UnreadPlaces ==
    ASSUME ChainOK, NEW u \in story.unread
    PROVE  HeightOf(u) \in DOMAIN chain /\ u \in ToSet(chain[HeightOf(u)].txs)
<1>1. PICK k \in DOMAIN story.past : u \in ToSet(story.past[k])
  <2>1. story.unread \subseteq UNION {ToSet(story.past[i]) : i \in DOMAIN story.past}
    BY StoriesAssumption DEF ChainOK
  <2> QED
    BY <2>1
<1>2. k \in 1 .. Len(story.past) /\ BlocksOf(story)[k] = story.past[k]
  BY <1>1, StoryBlocks DEF ChainOK
<1>3. k \in DOMAIN chain
  BY <1>2, StoryBlocks DEF ChainOK
<1>4. u \in ToSet(chain[k].txs)
  BY <1>1, <1>2, <1>3 DEF ChainOK
<1> QED
  BY <1>3, <1>4 DEF HeightOf

LEMMA FillsBlocks ==
    ASSUME ChainOK, NEW asset, NEW old, NEW reach PROVE Fewer(FilledMemos(asset, old, reach), old)
<1> DEFINE again == HeightsOf({id \in old : Touches(id, asset)}) \cap reach
           some == FilledMemos(asset, old, reach)
<1>1. some = old \ UNION {ToSet(chain[h].txs) : h \in again}
  BY DEF FilledMemos
<1>2. \A h \in again : \E w \in old : h = HeightOf(w)
  BY DEF HeightsOf
<1> HIDE DEF some, again
<1>3. ASSUME BlockWise(old), NEW u \in story.unread, NEW v \in story.unread,
             u \in some, HeightOf(u) = HeightOf(v)
      PROVE  v \in some
  <2>1. v \in old
    BY <1>1, <1>3 DEF BlockWise
  <2>2. ASSUME NEW h \in again, v \in ToSet(chain[h].txs) PROVE FALSE
    <3>1. PICK w \in old : h = HeightOf(w)
      BY <1>2
    <3>2. w \in story.unread
      BY <1>3 DEF BlockWise
    <3>3. HeightOf(v) = h
      BY <2>2, <3>1, <3>2, UnreadPlaces, HeightIs
    <3>4. u \in ToSet(chain[HeightOf(u)].txs)
      BY UnreadPlaces
    <3> QED
      BY <1>1, <1>3, <3>3, <3>4
  <2> QED
    BY <1>1, <2>1, <2>2
<1>4. BlockWise(old) => BlockWise(some)
  BY <1>1, <1>3 DEF BlockWise
<1> QED
  BY <1>1, <1>4 DEF Fewer, some

\* How a search ends.
LEMMA SoughtIs ==
    ASSUME NEW asset, NEW first, NEW old, NEW reach, NEW sought \in Sought(asset, first, old, reach)
    PROVE  LET less == FilledMemos(asset, old, reach)
           IN  /\ first # NoAddr => sought.addr = first /\ sought.old = old
               /\ first = NoAddr =>
                     /\ \E seen \in Seen(asset, less) : sought.addr = ReserveFromIndex(asset, seen)
                     /\ sought.old = less
                     /\ sought.cut <=> \E id \in less : Touches(id, asset)
<1> DEFINE less == FilledMemos(asset, old, reach)
           cut  == \E id \in less : Touches(id, asset)
<1>1. CASE first # NoAddr
  BY <1>1 DEF Sought
<1>2. CASE first = NoAddr
  <2>1. sought \in Repeated(asset, less)
    BY <1>2 DEF Sought
  <2>2. PICK seen \in Seen(asset, less) :
           sought = [addr |-> ReserveFromIndex(asset, seen), old |-> less, cut |-> cut]
    BY <2>1 DEF Repeated
  <2>3. cut \in BOOLEAN
    OBVIOUS
  <2> HIDE DEF less, cut
  <2>4. sought.addr = ReserveFromIndex(asset, seen) /\ sought.old = less /\ (sought.cut <=> cut)
    BY <2>2, <2>3
  <2> QED
    BY <1>2, <2>4 DEF less, cut
<1> QED
  BY <1>1, <1>2

LEMMA SoughtTrue ==
    ASSUME ChainOK, NEW asset, NEW seen, NEW old, NEW reach,
           NEW sought \in Sought(asset, ReserveFromIndex(asset, seen), old, reach)
    PROVE  FoundTrue(asset, sought.addr) /\ Fewer(sought.old, old)
<1> DEFINE first == ReserveFromIndex(asset, seen)
           less == FilledMemos(asset, old, reach)
<1>1. \A any : FoundTrue(asset, ReserveFromIndex(asset, any))
  BY IndexTeaches
<1>2. Fewer(less, old) /\ Fewer(old, old)
  BY FillsBlocks DEF Fewer
<1>3. \/ sought.addr = first /\ sought.old = old
      \/ sought.old = less /\ \E any : sought.addr = ReserveFromIndex(asset, any)
  BY SoughtIs
<1> HIDE DEF less
<1> QED
  BY <1>1, <1>2, <1>3

\* Rows that are trades of these transactions, each once.
RowFields == {"tx", "trade", "gen"}
TradeRow(row) ==
    /\ RowFields \subseteq DOMAIN row /\ row.tx \in DOMAIN Txs
    /\ TakenFor(row.tx, row.trade.side, row.trade.trader)
TradeRows(rows, ids) ==
    /\ \A row \in rows : TradeRow(row) /\ row.tx \in ids
    /\ \A r, s \in rows : r.tx = s.tx => r = s

LEMMA JudgedAre ==
    ASSUME NEW ids, NEW res, NEW fees, NEW row \in Judged(ids, res, fees)
    PROVE  LET t == Classify(Txs[row.tx], res, fees)
           IN  /\ RowFields \subseteq DOMAIN row /\ row.tx \in ids
               /\ row = Row(row.tx, t, 0) /\ row.trade = t /\ t.side # "none"
<1> DEFINE t(id) == Classify(Txs[id], res, fees)
<1>1. Judged(ids, res, fees) = {r \in {Row(id, t(id), 0) : id \in ids} : r.trade.side # "none"}
  BY DEF Judged
<1> HIDE DEF t
<1>2. PICK id \in ids : row = Row(id, t(id), 0) /\ row.trade.side # "none"
  BY <1>1
<1>3. RowFields \subseteq DOMAIN row /\ row.tx = id /\ row.trade = t(id)
  BY <1>2 DEF Row, RowFields
<1>4. row = Row(row.tx, t(row.tx), 0) /\ row.trade = t(row.tx) /\ t(row.tx).side # "none"
  BY <1>2, <1>3
<1> QED
  BY <1>3, <1>4 DEF t

LEMMA JudgedTrue ==
    ASSUME ChainOK, NEW ids, ids \subseteq DOMAIN Txs, NEW res \in Known, NEW fees \in SUBSET VerifiedFees
    PROVE  TradeRows(Judged(ids, res, fees), ids)
<1> DEFINE t(id) == Classify(Txs[id], res, fees)
<1>1. ASSUME NEW row \in Judged(ids, res, fees)
      PROVE  TradeRow(row) /\ row.tx \in ids /\ row = Row(row.tx, t(row.tx), 0)
  <2>1. /\ RowFields \subseteq DOMAIN row /\ row.tx \in ids
        /\ row = Row(row.tx, t(row.tx), 0) /\ row.trade = t(row.tx) /\ t(row.tx).side # "none"
    BY JudgedAre
  <2>2. row.tx \in DOMAIN Txs /\ Txs[row.tx] \in SeenAs(row.tx)
    BY <2>1, ReadAsSeen
  <2>3. TakenFor(row.tx, t(row.tx).side, t(row.tx).trader)
    BY <2>1, <2>2, TradeIsTaken
  <2> HIDE DEF t
  <2> QED
    BY <2>1, <2>2, <2>3 DEF TradeRow
<1> HIDE DEF t
<1> QED
  BY <1>1 DEF TradeRows

\* The fee addresses that the sells among them pay.
LEMMA JudgedFees ==
    ASSUME NEW ids, ids \subseteq InIndex, InIndex \subseteq DOMAIN Txs, NEW res \in Known, NEW fees
    PROVE  FeesOf(Judged(ids, res, fees)) \subseteq VerifiedFees
<1>1. ASSUME NEW row \in Judged(ids, res, fees), row.trade.feeAddress # NoAddr
      PROVE  row.trade.feeAddress \in VerifiedFees
  <2> DEFINE t == Classify(Txs[row.tx], res, fees)
  <2>1. row.tx \in InIndex /\ row.trade = t /\ t.side # "none"
    BY JudgedAre
  <2>2. IsTrade(t)
    BY <2>1, ClassifyMade DEF NoTrade
  <2>3. t.feeAddress # NoAddr
    BY <1>1, <2>1
  <2>4. t.feeAddress \in VerifiedFees
    <3> DEFINE id == row.tx
               u == t
    <3>1. id \in InIndex /\ id \in DOMAIN Txs /\ u = Classify(Txs[id], res, fees)
      BY <2>1
    <3> HIDE DEF id, u
    <3>2. IsTrade(u) /\ u.feeAddress # NoAddr
      BY <2>2, <2>3 DEF u
    <3>3. u.feeAddress \in VerifiedFees
      BY <3>1, <3>2, ReadFee
    <3> QED
      BY <3>3 DEF u
  <2> QED
    BY <2>1, <2>4
<1> QED
  BY <1>1 DEF FeesOf

-----------------------------------------------------------------------------
(* The reading of a day.                                                   *)

LEMMA DayIndexed ==
    ASSUME ChainOK, NEW d
    PROVE  /\ DayTxs(height, d) \subseteq InIndex /\ ToSet(DayViews(height, d)) \subseteq InIndex
           /\ InIndex \subseteq DOMAIN Txs
<1>1. height \in 0 .. Len(chain)
  BY DEF ChainOK
<1>2. ASSUME NEW id \in DayTxs(height, d) PROVE id \in InIndex
  <2>1. PICK i \in 1 .. height : id \in ToSet(chain[i].txs)
    BY <1>2 DEF DayTxs
  <2> QED
    BY <2>1, IndexHasThem DEF IndexHasBlocks
<1>3. ToSet(DayViews(height, d)) \subseteq InIndex
  BY DayChainTxs DEF InIndex
<1>4. InIndex \subseteq DOMAIN Txs
  <2>1. TxsUpTo(height) \in Seq(DOMAIN Txs)
    BY <1>1, ChainTxs
  <2> QED
    BY <2>1 DEF InIndex, ToSet
<1> QED
  BY <1>2, <1>3, <1>4

\* A buy that is shown as delivered teaches a verified reserve.
TeachesTruth(trade) ==
    trade.side = "buy" /\ ~trade.pending /\ trade.reserve # NoAddr
    => trade.asset \in DOMAIN AliasOf /\ trade.reserve \in ReservesBy(VerifiedBuys, trade.asset)

LEMMA DeliveredTrue ==
    ASSUME ChainOK, NEW d, NEW buys, DOMAIN buys \subseteq DayTxs(height, d), NEW res, NEW fees,
           \A id \in DOMAIN buys : buys[id] = Classify(View(id), res, fees) /\ buys[id].side = "buy"
    PROVE  LET done == Delivered(buys, DayViews(height, d))
           IN  \A id \in DOMAIN buys :
                  /\ done[id].side = "buy" /\ done[id].trader = buys[id].trader
                  /\ done[id].feeAddress = buys[id].feeAddress
                  /\ TeachesTruth(done[id])
<1> DEFINE views == DayViews(height, d)
           matched == Deliveries(buys, views)
           by(id) == CHOOSE p \in matched : p.buy = id
           held(id) == CHOOSE n \in TokenDelivery(View(by(id).by), buys[id].asset,
                                   buys[id].atoms, buys[id].trader) : TRUE
           done == Delivered(buys, views)
<1>1. done = [id \in DOMAIN buys |->
                 IF \E p \in matched : p.buy = id
                 THEN [buys[id] EXCEPT !.pending = FALSE, !.asset = held(id)]
                 ELSE buys[id]]
  BY ZenonT(60) DEF Delivered
<1>2. /\ DayTxs(height, d) \subseteq DOMAIN Txs /\ DayTxs(height, d) \subseteq InIndex
      /\ views \in Seq(DayTxs(height, d))
  BY DayChainTxs, DayIndexed
<1>3. \A p \in matched : Fits(buys, views, p.buy, p.by)
  BY <1>2, DeliveriesFit
<1>4. ToSet(views) \subseteq DayTxs(height, d)
  BY <1>2 DEF ToSet
<1> HIDE DEF views, matched, done
<1> SUFFICES ASSUME NEW id \in DOMAIN buys
             PROVE  /\ done[id].side = "buy" /\ done[id].trader = buys[id].trader
                    /\ done[id].feeAddress = buys[id].feeAddress
                    /\ TeachesTruth(done[id])
  BY DEF done, views
<1> DEFINE b == buys[id]
<1>5. b = Classify(View(id), res, fees) /\ b.side = "buy" /\ id \in DOMAIN Txs /\ id \in InIndex
  BY <1>2
<1>6. IsTrade(b)
  <2>1. Classify(View(id), res, fees) = NoTrade \/ IsTrade(Classify(View(id), res, fees))
    BY ClassifyMade
  <2>2. NoTrade.side = "none"
    BY DEF NoTrade
  <2> QED
    BY <1>5, <2>1, <2>2
<1>7. b.pending \/ b.reserve # NoAddr => BuyOf[id] = b /\ NamesReserve(id)
  BY <1>5, BuyIsBought
<1>8. CASE \E p \in matched : p.buy = id
  <2> DEFINE c == by(id).by
             n == held(id)
  <2>1. by(id) \in matched /\ by(id).buy = id
    BY <1>8
  <2>2. Fits(buys, views, id, c)
    BY <1>3, <2>1
  <2>3. /\ c \in InIndex /\ c \in DOMAIN Txs /\ c # id /\ b.pending /\ HeightOf(c) >= HeightOf(id)
        /\ TokenDelivery(View(c), b.asset, b.atoms, b.trader) # {}
    BY <1>2, <1>4, <2>2 DEF Fits
  <2>4. n \in TokenDelivery(View(c), b.asset, b.atoms, b.trader)
    BY <2>3
  <2>5. done[id] = [b EXCEPT !.pending = FALSE, !.asset = n]
    BY <1>1, <1>8
  <2> HIDE DEF b, c, n, by, held
  <2>6. BuyOf[id] = b /\ NamesReserve(id)
    BY <1>7, <2>3
  <2>7. HandsOut(c, id) /\ SameAsset(n, b.asset)
    BY <2>3, <2>4, <2>6, DeliveryHandsOver
  <2>8. /\ done[id].side = b.side /\ done[id].trader = b.trader
        /\ done[id].feeAddress = b.feeAddress /\ done[id].reserve = b.reserve
        /\ done[id].asset = n
    BY <1>6, <2>5 DEF IsTrade, TradeFields
  <2>9. SameAsset(BuyOf[id].asset, n)
    BY <2>6, <2>7 DEF SameAsset
  <2>10. n \in DOMAIN AliasOf /\ b.reserve \in ReservesBy(VerifiedBuys, n)
    BY <1>5, <2>3, <2>6, <2>7, <2>9, BuyTeaches
  <2> QED
    BY <1>5, <2>8, <2>10 DEF TeachesTruth, b
<1>9. CASE ~ \E p \in matched : p.buy = id
  <2>1. done[id] = b
    BY <1>1, <1>9
  <2> HIDE DEF b
  <2>2. ASSUME ~b.pending, b.reserve # NoAddr
        PROVE  b.asset \in DOMAIN AliasOf /\ b.reserve \in ReservesBy(VerifiedBuys, b.asset)
    <3>1. BuyOf[id] = b /\ NamesReserve(id)
      BY <1>7, <2>2
    <3> QED
      BY <1>5, <2>2, <3>1, BuyTeaches
  <2> QED
    BY <1>5, <2>1, <2>2 DEF TeachesTruth, b
<1> QED
  BY <1>8, <1>9

-----------------------------------------------------------------------------
(* What is known and shown is true.                                        *)

KnownOK ==
    /\ table \subseteq SoundRows /\ \A r, s \in table : r.asset = s.asset => r = s
    /\ feeTable \subseteq VerifiedFees
CopiesOK == TradeRows(feed.trades, DOMAIN Txs) /\ TradeRows(feed.mem, DOMAIN Txs)

\* A pass knows only what is verified, and has each transaction once: as a row,
\* or among those that it will judge again.
AssemblyOK(l) ==
    /\ {"res", "fees", "upto", "unsought"} \subseteq DOMAIN l
    /\ l.res \in Known /\ l.fees \subseteq VerifiedFees /\ l.upto \in 0 .. Len(chain)
    /\ l.retry \subseteq InIndex /\ l.routes \subseteq DOMAIN Txs /\ l.retry \cap l.routes = {}
    /\ TradeRows(l.rows, DOMAIN Txs \ l.routes) /\ FeesOf(l.rows) \subseteq VerifiedFees
    /\ l.pc # "learn" => /\ "phase" \in DOMAIN l
                         /\ l.phase = "fees" => "sells" \in DOMAIN l /\ l.sells \in Seq(InIndex)
    /\ l.pc = "learn" \/ l.phase = "retry" => TradeRows(l.rows, DOMAIN Txs \ (l.retry \cup l.routes))

PassOK(l) ==
    /\ l.pc \notin {"idle", "mempool"} => "pending" \in DOMAIN l /\ TradeRows(l.pending, DOMAIN Txs)
    /\ l.pc \in {"store", "merge"} => TradeRows(l.rows, DOMAIN Txs)
    /\ l.pc \in {"seek", "found"} => "new" \in DOMAIN l /\ [res |-> l.res, new |-> l.new] \in Knowledge
    /\ l.pc \in Assembling => AssemblyOK(l)
    /\ l.pc = "learn" => \A row \in l.rows : TeachesTruth(row.trade)
    /\ l.pc = "found" => {"asset", "found"} \subseteq DOMAIN l /\ FoundTrue(l.asset, l.found)
PassesOK == \A t \in story.threads : PassOK(th[t])

TruthInv == DayInv /\ KnownOK /\ CopiesOK /\ PassesOK

LEMMA TruthInv_LearnedVerified == TruthInv => LearnedVerified
<1> SUFFICES ASSUME TruthInv PROVE LearnedVerified
  OBVIOUS
<1>1. \A row \in table : row.addr \in ReservesBy(VerifiedBuys, row.asset)
  BY SoundRow DEF TruthInv, KnownOK
<1> QED
  BY <1>1 DEF TruthInv, KnownOK, LearnedVerified, VerifiedFees

\* No rows, or fewer.
LEMMA FewerTrue ==
    ASSUME NEW rows, NEW ids, TradeRows(rows, ids), NEW some, some \subseteq rows, NEW more, ids \subseteq more
    PROVE  TradeRows(some, more)
  BY DEF TradeRows
LEMMA NoneTrue == ASSUME NEW ids PROVE TradeRows({}, ids)
  BY DEF TradeRows

\* Another label.
Relabelled(rows, gen) == {[row EXCEPT !.gen = gen] : row \in rows}

LEMMA RelabelledTrue ==
    ASSUME NEW rows, NEW ids, TradeRows(rows, ids), NEW gen
    PROVE  TradeRows(Relabelled(rows, gen), ids)
<1> DEFINE new(row) == [row EXCEPT !.gen = gen]
<1>1. \A row \in rows : RowFields \subseteq DOMAIN row
  BY DEF TradeRows, TradeRow
<1>2. \A row \in rows : /\ DOMAIN new(row) = DOMAIN row
                        /\ new(row).tx = row.tx /\ new(row).trade = row.trade
  BY <1>1 DEF RowFields
<1> HIDE DEF new
<1>3. TradeRows({new(row) : row \in rows}, ids)
  BY <1>2 DEF TradeRows, TradeRow
<1> QED
  BY <1>3 DEF new, Relabelled

\* The transactions of two sets.
LEMMA BothTrue ==
    ASSUME NEW a, NEW b, NEW ids, NEW more, TradeRows(a, ids), TradeRows(b, more), ids \cap more = {},
           NEW all, ids \cup more \subseteq all
    PROVE  TradeRows(a \cup b, all)
  BY DEF TradeRows

LEMMA Init_TruthInv == Init => TruthInv
<1> SUFFICES ASSUME Init PROVE TruthInv
  OBVIOUS
<1>1. DayInv
  BY Init_DayInv
<1>2. KnownOK /\ CopiesOK
  BY NoneTrue DEF Init, KnownOK, CopiesOK
<1>3. PassesOK
  BY DEF Init, Idle, PassesOK, PassOK, Assembling
<1> QED
  BY <1>1, <1>2, <1>3 DEF TruthInv

\* The world only adds to the chain.
LEMMA WorldGrows ==
    ASSUME DayInv, DayInv',
           Broadcast \/ Mined \/ BlockIndexed \/ Midnight \/ CopiesAge \/ TodayFilled \/ UNCHANGED vars
    PROVE  Grows
<1>1. /\ ChainOK /\ ChainOK' /\ height \in Nat /\ Len(chain) \in Nat
      /\ chain \in Seq([day : Nat, txs : Seq(DOMAIN Txs)])
  BY DEF DayInv, ChainOK
<1>2. UNCHANGED story
  BY DEF Broadcast, Mined, BlockIndexed, Midnight, CopiesAge, TodayFilled, vars, nodeVars
<1>3. height <= height'
  <2>1. height' \in {height, height + 1}
    BY DEF Broadcast, Mined, BlockIndexed, Midnight, CopiesAge, TodayFilled, vars, nodeVars
  <2> QED
    BY <1>1, <2>1
<1>4. \A k \in DOMAIN chain : k \in DOMAIN chain' /\ chain'[k] = chain[k]
  <2>1. CASE UNCHANGED chain
    BY <2>1
  <2>2. CASE Mined
    <3>1. chain' = Append(chain, [day |-> day, txs |-> story.new[mined + 1]])
      BY <2>2 DEF Mined
    <3> QED
      BY <1>1, <3>1
  <2> QED
    BY <2>1, <2>2 DEF Broadcast, BlockIndexed, Midnight, CopiesAge, TodayFilled, vars, nodeVars
<1> QED
  BY <1>1, <1>2, <1>3, <1>4 DEF Grows

\* What a pass knows is known of a longer chain.
LEMMA KnowledgeGrows ==
    ASSUME Grows, NEW k \in Knowledge PROVE k \in Knowledge'
<1>1. /\ k \in [res : Known, new : SUBSET SoundRows]
      /\ \A r \in k.new : LearnedFor(r.asset, k.res) # {}
      /\ \A r, s \in k.new : r.asset = s.asset => r = s
  BY DEF Knowledge
<1>2. k \in [res : Known', new : SUBSET SoundRows']
  <2>1. Known \subseteq Known' /\ SoundRows \subseteq SoundRows'
    BY TheyGrow
  <2>2. k = [res |-> k.res, new |-> k.new] /\ k.res \in Known /\ k.new \subseteq SoundRows
    BY <1>1
  <2> QED
    BY <2>1, <2>2
<1> QED
  BY <1>1, <1>2 DEF Knowledge

\* The world moves: nothing is unlearned, and no list is changed.
LEMMA WorldKeepsTruth ==
    ASSUME TruthInv, DayInv', Grows, UNCHANGED <<table, feeTable, th>>,
           feed'.trades = feed.trades, feed'.mem = feed.mem
    PROVE  TruthInv'
<1>1. /\ InIndex \subseteq InIndex' /\ SoundRows \subseteq SoundRows' /\ Known \subseteq Known'
      /\ VerifiedFees \subseteq VerifiedFees' /\ UNCHANGED story
      /\ \A n : ReservesBy(VerifiedBuys, n) \subseteq ReservesBy(VerifiedBuys', n)
  BY TheyGrow DEF Grows
<1>2. KnownOK' /\ CopiesOK'
  BY <1>1 DEF TruthInv, KnownOK, CopiesOK
<1>3. ASSUME NEW l, PassOK(l) PROVE PassOK(l)'
  <2>1. Len(chain) \in Nat /\ Len(chain') \in Nat /\ Len(chain) <= Len(chain')
    <3>1. /\ Len(chain) \in Nat /\ DOMAIN chain = 1 .. Len(chain)
          /\ Len(chain') \in Nat /\ DOMAIN chain' = 1 .. Len(chain')
      BY DEF Grows, ChainOK
    <3>2. \A k \in 1 .. Len(chain) : k \in 1 .. Len(chain')
      BY <3>1 DEF Grows
    <3> QED
      BY <3>1, <3>2
  <2>2. \A s : s \in Seq(InIndex) => s \in Seq(InIndex')
    BY <1>1
  <2>3. AssemblyOK(l) => AssemblyOK(l)'
    BY <1>1, <2>1, <2>2 DEF AssemblyOK
  <2>4. \A trade : TeachesTruth(trade) => TeachesTruth(trade)'
    BY <1>1 DEF TeachesTruth
  <2>5. FoundTrue(l.asset, l.found) => FoundTrue(l.asset, l.found)'
    BY <1>1 DEF FoundTrue
  <2>6. \A k : k \in Knowledge => k \in Knowledge'
    BY KnowledgeGrows
  <2> QED
    BY <1>3, <2>3, <2>4, <2>5, <2>6 DEF PassOK
<1> QED
  BY <1>1, <1>2, <1>3 DEF TruthInv, PassesOK

LEMMA World_TruthInv ==
    ASSUME TruthInv, DayInv',
           Broadcast \/ Mined \/ BlockIndexed \/ Midnight \/ CopiesAge \/ TodayFilled \/ UNCHANGED vars
    PROVE  TruthInv'
<1>1. UNCHANGED <<story, table, feeTable, th>>
  BY DEF Broadcast, Mined, BlockIndexed, Midnight, CopiesAge, TodayFilled, vars, nodeVars, dbVars
<1>2. feed'.trades = feed.trades /\ feed'.mem = feed.mem
  <2>1. CASE UNCHANGED feed
    BY <2>1
  <2>2. CASE CopiesAge
    <3>1. feed' = [feed EXCEPT !.age = Older(feed.age), !.memAge = Older(feed.memAge)]
      BY <2>2 DEF CopiesAge
    <3> QED
      BY <3>1 DEF TruthInv, DayInv, FeedOK, FeedFields
  <2> QED
    BY <2>1, <2>2 DEF Broadcast, Mined, BlockIndexed, Midnight, TodayFilled, vars
<1>3. Grows
  BY WorldGrows DEF TruthInv
<1> QED
  BY <1>1, <1>2, <1>3, WorldKeepsTruth

\* A step of a thread leaves what is verified as it is.
LEMMA KnownMoves ==
    ASSUME UNCHANGED nodeVars, table' \subseteq SoundRows, \A r, s \in table' : r.asset = s.asset => r = s,
           feeTable' \subseteq VerifiedFees
    PROVE  KnownOK'
  BY TheyStay DEF KnownOK

LEMMA KnownStays == ASSUME KnownOK, UNCHANGED <<nodeVars, table, feeTable>> PROVE KnownOK'
  BY KnownMoves DEF KnownOK

\* A thread moves.
LEMMA PassMoves ==
    ASSUME TruthInv, DayInv', NEW t \in story.threads, NEW rec, UNCHANGED nodeVars,
           Local(t, rec), PassOK(rec), KnownOK', CopiesOK'
    PROVE  TruthInv'
<1>1. UNCHANGED <<story, chain>>
  BY DEF nodeVars
<1>2. /\ th'[t] = rec
      /\ \A u \in story.threads : u # t => th'[u] = th[u]
  BY DEF TruthInv, DayInv, ThreadsOK, Local
<1>3. ASSUME NEW u \in story.threads PROVE PassOK(th'[u])
  BY <1>2 DEF TruthInv, PassesOK
<1>4. /\ VerifiedBuys' = VerifiedBuys /\ InIndex' = InIndex /\ Known' = Known
      /\ VerifiedFees' = VerifiedFees /\ Knowledge' = Knowledge
  BY TheyStay DEF Knowledge
<1>5. ASSUME NEW u \in story.threads PROVE PassOK(th[u])'
  BY <1>1, <1>3, <1>4 DEF PassOK, AssemblyOK, TeachesTruth, FoundTrue
<1> QED
  BY <1>1, <1>5 DEF TruthInv, PassesOK

\* What is in memory when a day begins.
LEMMA BegunTrue ==
    ASSUME TruthInv, NEW d
    PROVE  /\ TradeRows(DayBegun(feed, d).trades, DOMAIN Txs)
           /\ DayBegun(feed, d).mem = feed.mem
<1>1. FeedFields \subseteq DOMAIN feed /\ TradeRows(feed.trades, DOMAIN Txs)
  BY DEF TruthInv, DayInv, FeedOK, CopiesOK
<1> QED
  BY <1>1, NoneTrue DEF DayBegun, FeedFields

LEMMA PageBegins_Truth ==
    ASSUME TruthInv, DayInv', NEW t \in story.threads, PageBegins(t) PROVE TruthInv'
<1> DEFINE rec == [pc |-> "mempool", moment |-> day]
<1>1. UNCHANGED <<nodeVars, table, feeTable>> /\ feed' = DayBegun(feed, day) /\ Local(t, rec)
  BY DEF PageBegins, dbVars
<1>2. PassOK(rec)
  BY DEF PassOK, Assembling
<1>3. KnownOK' /\ CopiesOK'
  BY <1>1, BegunTrue, KnownStays DEF TruthInv, CopiesOK
<1> HIDE DEF rec
<1> QED
  BY <1>1, <1>2, <1>3, PassMoves

\* The rows of the mempool are trades of transactions that were broadcast.
LEMMA MempoolTrue ==
    ASSUME TruthInv, NEW seen, seen \subseteq MempoolIds
    PROVE  TradeRows({row \in {PendingRow(id, Classify(MempoolView(id), LoadReserves, feeTable)) :
                                 id \in seen} : row.trade.side # "none"}, DOMAIN Txs)
<1> DEFINE t(id) == Classify(MempoolView(id), LoadReserves, feeTable)
           rows == {row \in {PendingRow(id, t(id)) : id \in seen} : row.trade.side # "none"}
<1>1. MempoolIds \subseteq DOMAIN Txs
  <2>1. \A k \in 1 .. Len(story.new) : ToSet(story.new[k]) \subseteq DOMAIN Txs
    <3>1. \A k \in 1 .. Len(story.new) : story.new[k] \in Seq(DOMAIN Txs)
      BY StoryBlocks DEF TruthInv, DayInv, ChainOK
    <3> QED
      BY <3>1 DEF ToSet
  <2>2. \A k \in mined + 1 .. arrived : k \in 1 .. Len(story.new)
    <3>1. /\ mined \in Nat /\ arrived \in Nat /\ Len(story.new) \in Nat
          /\ arrived <= Len(story.new)
      BY StoryBlocks DEF TruthInv, DayInv, ChainOK
    <3> QED
      BY <3>1
  <2> QED
    BY <2>1, <2>2 DEF MempoolIds
<1>2. ChainOK /\ LoadReserves \in Known /\ feeTable \in SUBSET VerifiedFees
  BY LoadsKnown DEF TruthInv, DayInv, KnownOK
<1>3. ASSUME NEW id \in seen, t(id).side # "none"
      PROVE  id \in DOMAIN Txs /\ TakenFor(id, t(id).side, t(id).trader)
  <2>1. id \in DOMAIN Txs /\ MempoolView(id) \in SeenAs(id)
    BY <1>1, ReadAsSeen
  <2> QED
    BY <1>2, <1>3, <2>1, TradeIsTaken
<1> HIDE DEF t
<1>4. \A row \in rows : /\ RowFields \subseteq DOMAIN row /\ row.tx \in seen
                        /\ row = PendingRow(row.tx, t(row.tx)) /\ row.trade = t(row.tx)
                        /\ t(row.tx).side # "none"
  BY DEF PendingRow, RowFields
<1> HIDE DEF rows
<1>5. TradeRows(rows, DOMAIN Txs)
  BY <1>3, <1>4 DEF TradeRows, TradeRow
<1> QED
  BY <1>5 DEF rows, t

LEMMA ReadsMempool_Truth ==
    ASSUME TruthInv, DayInv', NEW t \in story.threads, ReadsMempool(t) PROVE TruthInv'
<1>1. UNCHANGED <<nodeVars, table, feeTable>>
  BY DEF ReadsMempool, dbVars
<1>2. \E rows : /\ TradeRows(rows, DOMAIN Txs) /\ Pending(t, rows)
                /\ feed'.trades = feed.trades /\ feed'.mem \in {feed.mem, rows}
  <2>1. CASE Pending(t, {}) /\ UNCHANGED <<feed, labels>>
    BY <2>1, NoneTrue
  <2>2. ASSUME NEW ids, ServesMempool(t, ids)
        PROVE  Pending(t, feed.mem) /\ UNCHANGED feed
    BY <2>2 DEF ServesMempool
  <2>3. ASSUME NEW ids \in {{}, MempoolIds}, ClassifiesMempool(t, ids)
        PROVE  \E rows : /\ TradeRows(rows, DOMAIN Txs) /\ Pending(t, rows)
                         /\ feed'.trades = feed.trades /\ feed'.mem = rows
    <3> DEFINE rows(seen) == {row \in {PendingRow(id, Classify(MempoolView(id), LoadReserves, feeTable)) :
                                 id \in seen} : row.trade.side # "none"}
    <3>1. PICK seen \in SUBSET ids : MempoolRead(t, ids, rows(seen))
      BY <2>3 DEF ClassifiesMempool
    <3>2. TradeRows(rows(seen), DOMAIN Txs)
      BY MempoolTrue
    <3> DEFINE read == rows(seen)
               gen == LabelsFor(read).gen
               shown == Relabelled(read, gen)
    <3>3. /\ feed' = [feed EXCEPT !.memAge = 0, !.memKey = ids, !.memGen = labels'.gen, !.mem = shown]
          /\ Pending(t, shown)
      BY <3>1 DEF MempoolRead, Relabelled
    <3> HIDE DEF gen, read
    <3>4. TradeRows(shown, DOMAIN Txs)
      <4>1. TradeRows(read, DOMAIN Txs)
        BY <3>2 DEF read
      <4> QED
        BY <4>1, RelabelledTrue
    <3> HIDE DEF shown
    <3>5. feed'.trades = feed.trades /\ feed'.mem = shown
      <4>1. {"trades", "mem"} \subseteq DOMAIN feed
        BY DEF TruthInv, DayInv, FeedOK, FeedFields
      <4> QED
        BY <3>3, <4>1
    <3> QED
      BY <3>3, <3>4, <3>5
  <2>4. TradeRows(feed.mem, DOMAIN Txs)
    BY DEF TruthInv, CopiesOK
  <2> QED
    BY <2>1, <2>2, <2>3, <2>4 DEF ReadsMempool
<1>3. PICK rows : /\ TradeRows(rows, DOMAIN Txs) /\ Pending(t, rows)
                  /\ feed'.trades = feed.trades /\ feed'.mem \in {feed.mem, rows}
  BY <1>2
<1> DEFINE today == {row \in rows : row.day = th[t].moment}
           rec == [pc |-> "check", moment |-> th[t].moment, pending |-> today]
<1>4. TradeRows(today, DOMAIN Txs)
  BY <1>3, FewerTrue
<1>5. Local(t, rec)
  BY <1>3 DEF Pending
<1> HIDE DEF today
<1>6. PassOK(rec)
  BY <1>4 DEF PassOK, Assembling
<1>7. KnownOK' /\ CopiesOK'
  BY <1>1, <1>3, KnownStays DEF TruthInv, CopiesOK
<1> HIDE DEF rec
<1> QED
  BY <1>1, <1>5, <1>6, <1>7, PassMoves

LEMMA ChecksDay_Truth ==
    ASSUME TruthInv, DayInv', NEW t \in story.threads, ChecksDay(t) PROVE TruthInv'
<1> DEFINE f == DayBegun(feed, th[t].moment)
           young == ~labels.stale /\ f.age = 0 /\ f.gen = labels.gen
           rows == IF young THEN f.trades ELSE {}
           rec == [pc |-> IF young THEN "merge" ELSE "read", moment |-> th[t].moment,
                   pending |-> th[t].pending, rows |-> rows]
<1>1. UNCHANGED <<nodeVars, table, feeTable>> /\ feed' = f /\ Local(t, rec) /\ th[t].pc = "check"
  BY DEF ChecksDay, Step, dbVars
<1>2. TradeRows(f.trades, DOMAIN Txs) /\ f.mem = feed.mem
  BY BegunTrue
<1> HIDE DEF f
<1>3. TradeRows(rows, DOMAIN Txs)
  BY <1>2, NoneTrue
<1>4. TradeRows(th[t].pending, DOMAIN Txs)
  BY <1>1 DEF TruthInv, PassesOK, PassOK
<1> HIDE DEF rows, young
<1>5. PassOK(rec)
  BY <1>3, <1>4 DEF PassOK, Assembling
<1>6. KnownOK' /\ CopiesOK'
  BY <1>1, <1>2, KnownStays DEF TruthInv, CopiesOK
<1> HIDE DEF rec
<1> QED
  BY <1>1, <1>5, <1>6, PassMoves

\* The first pass: buys, delivered or not, and sells, each a row; the others
\* wait to be judged again.
LEMMA SortedTrue ==
    ASSUME TruthInv, NEW d
    PROVE  LET base == [id \in DayTxs(height, d) |-> Classify(View(id), LoadReserves, feeTable)]
               ids(side) == {id \in DOMAIN base : base[id].side = side}
               done == Delivered([id \in ids("buy") |-> base[id]], DayViews(height, d))
               rows == {Row(id, done[id], 0) : id \in ids("buy")}
                          \cup {Row(id, base[id], 0) : id \in ids("sell")}
           IN  /\ TradeRows(rows, ids("buy") \cup ids("sell"))
               /\ \A row \in rows : TeachesTruth(row.trade)
               /\ FeesOf(rows) \subseteq VerifiedFees
               /\ ids("none") \subseteq InIndex /\ ids("buy") \cup ids("sell") \subseteq DOMAIN Txs
<1> DEFINE day0 == DayTxs(height, d)
           t(id) == Classify(View(id), LoadReserves, feeTable)
           base == [id \in day0 |-> t(id)]
           ids(side) == {id \in day0 : base[id].side = side}
           buys == [id \in ids("buy") |-> base[id]]
           done == Delivered(buys, DayViews(height, d))
           bought == {Row(id, done[id], 0) : id \in ids("buy")}
           sold == {Row(id, base[id], 0) : id \in ids("sell")}
<1>1. ChainOK /\ LoadReserves \in Known /\ feeTable \in SUBSET VerifiedFees
  BY LoadsKnown DEF TruthInv, DayInv, KnownOK
<1>2. day0 \subseteq DOMAIN Txs /\ day0 \subseteq InIndex
  BY <1>1, DayChainTxs, DayIndexed
<1>3. ASSUME NEW id \in day0, base[id].side # "none"
      PROVE  /\ TakenFor(id, base[id].side, base[id].trader)
             /\ base[id].feeAddress \in VerifiedFees \cup {NoAddr}
  <2>1. View(id) \in SeenAs(id) /\ id \in DOMAIN Txs
    BY <1>2, ReadAsSeen
  <2>2. TakenFor(id, base[id].side, base[id].trader)
    BY <1>1, <1>3, <2>1, TradeIsTaken
  <2> DEFINE b == base[id]
  <2>3. b = Classify(View(id), LoadReserves, feeTable) /\ b.side # "none"
    BY <1>3
  <2> HIDE DEF b
  <2>4. IsTrade(b)
    BY <2>3, ClassifyMade DEF NoTrade
  <2>5. b.feeAddress \in VerifiedFees \cup {NoAddr}
    BY <1>1, <1>2, <2>1, <2>3, <2>4, ReadFee
  <2> QED
    BY <2>2, <2>5 DEF b
<1>4. \A id \in DOMAIN buys : buys[id] = Classify(View(id), LoadReserves, feeTable) /\ buys[id].side = "buy"
  OBVIOUS
<1>5. DOMAIN buys = ids("buy") /\ \A id \in ids("buy") : buys[id] = base[id]
  OBVIOUS
<1>6. \A side : ids(side) \subseteq day0 /\ \A id \in ids(side) : base[id].side = side
  OBVIOUS
<1> HIDE DEF base, buys
<1>7. \A id \in ids("buy") : /\ done[id].side = "buy" /\ done[id].trader = base[id].trader
                             /\ done[id].feeAddress = base[id].feeAddress
                             /\ TeachesTruth(done[id])
  <2>1. \A id \in DOMAIN buys : /\ done[id].side = "buy" /\ done[id].trader = buys[id].trader
                                /\ done[id].feeAddress = buys[id].feeAddress
                                /\ TeachesTruth(done[id])
    BY <1>1, <1>4, <1>5, <1>6, DeliveredTrue
  <2> HIDE DEF done
  <2> QED
    BY <1>5, <2>1
<1> HIDE DEF ids, done, day0
<1>8. /\ \A row \in bought : RowFields \subseteq DOMAIN row /\ row.tx \in ids("buy") /\ row = Row(row.tx, done[row.tx], 0)
      /\ \A row \in sold : RowFields \subseteq DOMAIN row /\ row.tx \in ids("sell") /\ row = Row(row.tx, base[row.tx], 0)
  BY DEF Row, RowFields
<1>9. \A id, trade : Row(id, trade, 0).trade = trade
  BY DEF Row
<1>10. TradeRows(bought, ids("buy")) /\ \A row \in bought : TeachesTruth(row.trade)
  <2> HIDE DEF bought
  <2>1. \A row \in bought : row.trade = done[row.tx]
    BY <1>8, <1>9
  <2>2. \A row \in bought : TradeRow(row) /\ row.tx \in ids("buy")
    BY <1>2, <1>3, <1>6, <1>7, <1>8, <2>1 DEF TradeRow
  <2> QED
    BY <1>7, <1>8, <2>1, <2>2 DEF TradeRows
<1>11. TradeRows(sold, ids("sell")) /\ \A row \in sold : TeachesTruth(row.trade)
  <2> HIDE DEF sold
  <2>1. \A row \in sold : row.trade = base[row.tx]
    BY <1>8, <1>9
  <2>2. \A row \in sold : TradeRow(row) /\ row.tx \in ids("sell")
    BY <1>2, <1>3, <1>6, <1>8, <2>1 DEF TradeRow
  <2>3. \A row \in sold : TeachesTruth(row.trade)
    BY <1>6, <1>8, <2>1 DEF TeachesTruth
  <2> QED
    BY <1>8, <2>2, <2>3 DEF TradeRows
<1>15. FeesOf(bought \cup sold) \subseteq VerifiedFees
  <2>1. \A row \in bought : row.trade.feeAddress \in VerifiedFees \cup {NoAddr}
    <3>1. \A row \in bought : row.trade = done[row.tx] /\ row.tx \in ids("buy")
      BY <1>8, <1>9
    <3> HIDE DEF bought
    <3> QED
      BY <1>3, <1>6, <1>7, <3>1
  <2>2. \A row \in sold : row.trade.feeAddress \in VerifiedFees \cup {NoAddr}
    <3>1. \A row \in sold : row.trade = base[row.tx] /\ row.tx \in ids("sell")
      BY <1>8, <1>9
    <3> HIDE DEF sold
    <3> QED
      BY <1>3, <1>6, <3>1
  <2> HIDE DEF bought, sold
  <2> QED
    BY <2>1, <2>2 DEF FeesOf
<1>12. ids("buy") \cap ids("sell") = {}
  BY <1>6
<1> HIDE DEF bought, sold
<1>13. /\ TradeRows(bought \cup sold, ids("buy") \cup ids("sell"))
       /\ \A row \in bought \cup sold : TeachesTruth(row.trade)
  BY <1>10, <1>11, <1>12, BothTrue
<1>14. \A side : ids(side) \subseteq DOMAIN Txs /\ ids(side) \subseteq InIndex
  BY <1>2, <1>6
<1> QED
  BY <1>13, <1>14, <1>15 DEF bought, sold, done, buys, ids, base, day0

LEMMA ReadsDay_Truth ==
    ASSUME TruthInv, DayInv', NEW t \in story.threads, ReadsDay(t) PROVE TruthInv'
<1> DEFINE d    == th[t].moment
           base == [id \in DayTxs(height, d) |-> Classify(View(id), LoadReserves, feeTable)]
           ids(side) == {id \in DOMAIN base : base[id].side = side}
           done == Delivered([id \in ids("buy") |-> base[id]], DayViews(height, d))
           rows == {Row(id, done[id], 0) : id \in ids("buy")}
                      \cup {Row(id, base[id], 0) : id \in ids("sell")}
           retry == {id \in ids("none") : LoneSellMemo(View(id))}
           routes == {id \in ids("none") : ~LoneSellMemo(View(id)) /\ RouteMemos(View(id)) # <<>>}
           res  == LoadReserves
           new == [pc |-> "learn", upto |-> height, res |-> res, fees |-> feeTable,
                   unsought |-> {}, rows |-> rows, retry |-> retry, routes |-> routes]
           rec == Updated(th[t], new)
<1>1. UNCHANGED <<nodeVars, table, feeTable, feed>> /\ th[t].pc = "read" /\ Local(t, rec)
  BY DEF ReadsDay, Sorted, Put, Step, dbVars
<1>2. /\ TradeRows(rows, ids("buy") \cup ids("sell"))
      /\ \A row \in rows : TeachesTruth(row.trade)
      /\ FeesOf(rows) \subseteq VerifiedFees
      /\ ids("none") \subseteq InIndex /\ ids("none") \subseteq DOMAIN Txs /\ ids("buy") \cup ids("sell") \subseteq DOMAIN Txs
  <2>1. InIndex \subseteq DOMAIN Txs
    BY DayIndexed DEF TruthInv, DayInv
  <2>2. /\ TradeRows(rows, ids("buy") \cup ids("sell"))
        /\ \A row \in rows : TeachesTruth(row.trade)
        /\ FeesOf(rows) \subseteq VerifiedFees
        /\ ids("none") \subseteq InIndex /\ ids("buy") \cup ids("sell") \subseteq DOMAIN Txs
    BY SortedTrue
  <2> HIDE DEF rows, ids
  <2> QED
    BY <2>1, <2>2
<1>3. ids("none") \cap (ids("buy") \cup ids("sell")) = {}
  OBVIOUS
<1> HIDE DEF ids, rows, done, base, d
<1>4. retry \subseteq ids("none") /\ routes \subseteq ids("none") /\ retry \cap routes = {}
  OBVIOUS
<1> HIDE DEF retry, routes
<1>5. TradeRows(rows, DOMAIN Txs \ (retry \cup routes)) /\ TradeRows(rows, DOMAIN Txs \ routes)
  <2>1. /\ ids("buy") \cup ids("sell") \subseteq DOMAIN Txs \ (retry \cup routes)
        /\ ids("buy") \cup ids("sell") \subseteq DOMAIN Txs \ routes
    BY <1>2, <1>3, <1>4
  <2> QED
    BY <1>2, <2>1, FewerTrue
<1>6. /\ DOMAIN new = {"pc", "upto", "res", "fees", "unsought", "rows", "retry", "routes"}
      /\ new.pc = "learn" /\ new.rows = rows /\ new.retry = retry /\ new.routes = routes
      /\ new.res = res /\ new.fees = feeTable /\ new.upto = height
  OBVIOUS
<1>7. "pending" \in DOMAIN th[t] /\ TradeRows(th[t].pending, DOMAIN Txs)
  BY <1>1 DEF TruthInv, PassesOK, PassOK
<1>8. res \in Known /\ feeTable \subseteq VerifiedFees /\ height \in 0 .. Len(chain)
  BY LoadsKnown DEF TruthInv, DayInv, ChainOK, KnownOK
<1> HIDE DEF new, res
<1>9. /\ DOMAIN rec = DOMAIN th[t] \cup DOMAIN new
      /\ \A f \in DOMAIN new : rec[f] = new[f]
      /\ \A f \in DOMAIN th[t] \ DOMAIN new : rec[f] = th[t][f]
  BY UpdatedLocals
<1> HIDE DEF rec
<1>10. /\ rec.pc = "learn" /\ rec.rows = rows /\ rec.retry = retry /\ rec.routes = routes
       /\ rec.res = res /\ rec.fees = feeTable /\ rec.upto = height
       /\ rec.pending = th[t].pending /\ "pending" \in DOMAIN rec
       /\ {"res", "fees", "upto", "unsought"} \subseteq DOMAIN rec
  BY <1>6, <1>7, <1>9
<1>11. AssemblyOK(rec)
  BY <1>2, <1>4, <1>5, <1>8, <1>10 DEF AssemblyOK
<1>12. PassOK(rec)
  BY <1>2, <1>7, <1>10, <1>11 DEF PassOK, Assembling
<1>13. KnownOK' /\ CopiesOK'
  BY <1>1, KnownStays DEF TruthInv, CopiesOK
<1> QED
  BY <1>1, <1>12, <1>13, PassMoves

\* What a pass keeps from one step to the next.
KeepsKnown(l, k) ==
    /\ {"res", "fees", "upto", "unsought", "phase", "pending"} \subseteq DOMAIN k
    /\ k.fees = l.fees /\ k.upto = l.upto /\ k.pending = l.pending
    /\ k.rows = l.rows /\ k.retry = l.retry /\ k.routes = l.routes
    /\ "sells" \in DOMAIN l => "sells" \in DOMAIN k /\ k.sells = l.sells

\* It goes on with the rows it has, knowing more.
LEMMA StillTrue ==
    ASSUME NEW l, PassOK(l), l.pc \in Assembling, NEW k, KeepsKnown(l, k),
           k.pc \in {"seek", "found"}, "new" \in DOMAIN k,
           [res |-> k.res, new |-> k.new] \in Knowledge,
           IF l.pc = "learn" THEN k.phase = "retry" ELSE k.phase = l.phase,
           k.pc = "found" => {"asset", "found"} \subseteq DOMAIN k /\ FoundTrue(k.asset, k.found)
    PROVE  PassOK(k)
<1>1. AssemblyOK(l) /\ "pending" \in DOMAIN l /\ TradeRows(l.pending, DOMAIN Txs)
  BY DEF PassOK, Assembling
<1>2. k.res \in Known
  BY DEF Knowledge
<1>3. AssemblyOK(k)
  BY <1>1, <1>2 DEF AssemblyOK, KeepsKnown
<1> QED
  BY <1>1, <1>3 DEF PassOK, KeepsKnown, Assembling

LEMMA Learns_Truth ==
    ASSUME TruthInv, DayInv', NEW t \in story.threads, Learns(t) PROVE TruthInv'
<1> DEFINE taught == {row \in th[t].rows : /\ row.trade.side = "buy" /\ ~row.trade.pending
                                           /\ row.trade.reserve # NoAddr}
           ids == TxsUpTo(th[t].upto)
           end == AllLearned(taught, ids, th[t].res)
           needed == Needed({SellAsset(id) : id \in th[t].retry}, end.res)
           new == [pc |-> "seek", res |-> end.res, new |-> end.new, phase |-> "retry",
                   needed |-> needed]
           rec == Updated(th[t], new)
<1>1. /\ UNCHANGED <<nodeVars, table, feeTable>> /\ th[t].pc = "learn" /\ Local(t, rec)
      /\ \E misses : feed' = [feed EXCEPT !.misses = misses]
  BY DEF Learns, Put, Step, dbVars
<1>2. PassOK(th[t])
  BY DEF TruthInv, PassesOK
<1>3. AssemblyOK(th[t]) /\ \A row \in th[t].rows : TeachesTruth(row.trade)
  BY <1>1, <1>2 DEF PassOK, Assembling
<1>4. end \in Knowledge
  <2>1. \A row \in taught : /\ row.trade.asset \in DOMAIN AliasOf
                            /\ row.trade.reserve \in ReservesBy(VerifiedBuys, row.trade.asset)
    BY <1>3 DEF TeachesTruth
  <2>2. Len(ids) \in Nat
    <3>1. ids \in Seq(DOMAIN Txs)
      BY <1>3, ChainTxs DEF TruthInv, DayInv, AssemblyOK
    <3> QED
      BY <3>1
  <2>3. th[t].res \in Known /\ table \subseteq SoundRows
    BY <1>3 DEF AssemblyOK, TruthInv, KnownOK
  <2> HIDE DEF taught, ids
  <2> QED
    BY <2>1, <2>2, <2>3, AllLearnsKnown
<1> HIDE DEF end, needed
<1>12. end = [res |-> end.res, new |-> end.new]
  BY <1>4 DEF Knowledge
<1>5. /\ DOMAIN new = {"pc", "res", "new", "phase", "needed"} /\ new.pc = "seek"
      /\ new.res = end.res /\ new.new = end.new /\ new.phase = "retry"
  OBVIOUS
<1> HIDE DEF new
<1>6. /\ DOMAIN rec = DOMAIN th[t] \cup DOMAIN new
      /\ \A f \in DOMAIN new : rec[f] = new[f]
      /\ \A f \in DOMAIN th[t] \ DOMAIN new : rec[f] = th[t][f]
  BY UpdatedLocals
<1> HIDE DEF rec
<1>7. {"fees", "upto", "unsought", "rows", "retry", "routes", "pending"} \subseteq DOMAIN th[t]
  BY <1>1, <1>2, <1>3 DEF AssemblyOK, PassOK, TruthInv, DayInv, ThreadsOK, LocalsOK, Assembling
<1>8. KeepsKnown(th[t], rec) /\ rec.pc = "seek" /\ "new" \in DOMAIN rec
      /\ rec.new = end.new /\ rec.res = end.res /\ rec.phase = "retry"
  BY <1>5, <1>6, <1>7 DEF KeepsKnown
<1>9. PassOK(rec)
  BY <1>1, <1>2, <1>4, <1>8, <1>12, StillTrue DEF Assembling
<1>10. feed'.trades = feed.trades /\ feed'.mem = feed.mem
  <2>1. {"trades", "mem"} \subseteq DOMAIN feed
    BY DEF TruthInv, DayInv, FeedOK, FeedFields
  <2> QED
    BY <1>1, <2>1
<1>11. KnownOK' /\ CopiesOK'
  BY <1>1, <1>10, KnownStays DEF TruthInv, CopiesOK
<1> QED
  BY <1>1, <1>9, <1>11, PassMoves

LEMMA WritesReserves_Truth ==
    ASSUME TruthInv, DayInv', NEW t \in story.threads, WritesReserves(t) PROVE TruthInv'
<1> DEFINE rec == [th[t] EXCEPT !.new = {}]
           fresh == {r \in th[t].new : \A s \in table : s.asset # r.asset}
<1>1. /\ UNCHANGED <<nodeVars, feeTable, feed>> /\ th[t].pc = "seek" /\ Local(t, rec)
      /\ table' \in {table, table \cup fresh}
  BY DEF WritesReserves, Step
<1>2. PassOK(th[t])
  BY DEF TruthInv, PassesOK
<1>3. AssemblyOK(th[t]) /\ "new" \in DOMAIN th[t] /\ [res |-> th[t].res, new |-> th[t].new] \in Knowledge
  BY <1>1, <1>2 DEF PassOK, Assembling
<1>4. /\ DOMAIN rec = DOMAIN th[t] /\ rec.new = {}
      /\ \A f \in DOMAIN th[t] : f # "new" => rec[f] = th[t][f]
  BY <1>3
<1> HIDE DEF rec
<1>5. {"pc", "res", "fees", "upto", "unsought", "phase", "rows", "retry", "routes", "pending", "new"}
          \subseteq DOMAIN th[t]
  BY <1>1, <1>2, <1>3 DEF AssemblyOK, PassOK, TruthInv, DayInv, ThreadsOK, LocalsOK, Assembling
<1>6. /\ KeepsKnown(th[t], rec) /\ rec.res = th[t].res /\ rec.phase = th[t].phase
      /\ rec.pc = "seek" /\ "new" \in DOMAIN rec
  BY <1>1, <1>4, <1>5 DEF KeepsKnown
<1>7. [res |-> rec.res, new |-> rec.new] \in Knowledge
  BY <1>3, <1>4, <1>6 DEF Knowledge, AssemblyOK
<1>8. PassOK(rec)
  BY <1>1, <1>2, <1>6, <1>7, StillTrue DEF Assembling
<1>9. KnownOK'
  <2>1. /\ table \subseteq SoundRows /\ feeTable \subseteq VerifiedFees
        /\ \A r, s \in table : r.asset = s.asset => r = s
    BY DEF TruthInv, KnownOK
  <2>2. th[t].new \subseteq SoundRows /\ \A r, s \in th[t].new : r.asset = s.asset => r = s
    BY <1>3 DEF Knowledge
  <2>3. table' \subseteq SoundRows /\ \A r, s \in table' : r.asset = s.asset => r = s
    BY <1>1, <2>1, <2>2
  <2> QED
    BY <1>1, <2>1, <2>3, KnownMoves
<1>10. CopiesOK'
  BY <1>1 DEF TruthInv, CopiesOK
<1> QED
  BY <1>1, <1>8, <1>9, <1>10, PassMoves

LEMMA Searches_Truth ==
    ASSUME TruthInv, DayInv', NEW t \in story.threads, Searches(t) PROVE TruthInv'
<1>1. UNCHANGED <<nodeVars, table, feeTable, feed>> /\ th[t].pc = "seek"
  BY DEF Searches, At, Step
<1>2. PICK asset, seen, reach :
        \E sought \in Sought(asset, ReserveFromIndex(asset, seen), unread, reach) :
            SearchEnds(t, asset, sought)
  BY DEF Searches
<1>14. PICK sought \in Sought(asset, ReserveFromIndex(asset, seen), unread, reach) :
          SearchEnds(t, asset, sought)
  BY <1>2
<1> DEFINE needed == th[t].needed \ {asset}
           unsought == IF sought.cut THEN th[t].unsought \cup {asset} ELSE th[t].unsought
           new == [pc |-> "found", needed |-> needed, asset |-> asset, found |-> sought.addr,
                   unsought |-> unsought]
           rec == Updated(th[t], new)
<1>3. Local(t, rec)
  BY <1>14 DEF SearchEnds, Put
<1>4. FoundTrue(asset, sought.addr)
  BY SoughtTrue DEF TruthInv, DayInv
<1>5. PassOK(th[t])
  BY DEF TruthInv, PassesOK
<1>6. AssemblyOK(th[t]) /\ "new" \in DOMAIN th[t] /\ [res |-> th[t].res, new |-> th[t].new] \in Knowledge
  BY <1>1, <1>5 DEF PassOK, Assembling
<1>7. {"res", "fees", "upto", "phase", "rows", "retry", "routes", "pending", "new"} \subseteq DOMAIN th[t]
  BY <1>1, <1>5, <1>6 DEF AssemblyOK, PassOK, TruthInv, DayInv, ThreadsOK, LocalsOK, Assembling
<1> HIDE DEF needed, unsought
<1>8. /\ DOMAIN new = {"pc", "needed", "asset", "found", "unsought"} /\ new.pc = "found"
      /\ new.asset = asset /\ new.found = sought.addr
  OBVIOUS
<1> HIDE DEF new
<1>9. /\ DOMAIN rec = DOMAIN th[t] \cup DOMAIN new
      /\ \A f \in DOMAIN new : rec[f] = new[f]
      /\ \A f \in DOMAIN th[t] \ DOMAIN new : rec[f] = th[t][f]
  BY UpdatedLocals
<1> HIDE DEF rec
<1>10. /\ KeepsKnown(th[t], rec) /\ rec.pc = "found" /\ rec.phase = th[t].phase
       /\ rec.res = th[t].res /\ rec.new = th[t].new /\ rec.asset = asset /\ rec.found = sought.addr
       /\ {"new", "asset", "found"} \subseteq DOMAIN rec
  BY <1>7, <1>8, <1>9 DEF KeepsKnown
<1>11. [res |-> rec.res, new |-> rec.new] \in Knowledge
  BY <1>6, <1>10
<1>12. PassOK(rec)
  BY <1>1, <1>4, <1>5, <1>10, <1>11, StillTrue DEF Assembling
<1>13. KnownOK' /\ CopiesOK'
  BY <1>1, KnownStays DEF TruthInv, CopiesOK
<1> QED
  BY <1>1, <1>3, <1>12, <1>13, PassMoves

LEMMA NotesFound_Truth ==
    ASSUME TruthInv, DayInv', NEW t \in story.threads, NotesFound(t) PROVE TruthInv'
<1> DEFINE asset == th[t].asset
           found == th[t].found
           known == [res |-> th[t].res, new |-> {}]
           end   == IF found = NoAddr THEN known ELSE Learned(known, asset, found)
           rec   == [th[t] EXCEPT !.pc = "seek", !.asset = NoAsset, !.found = NoAddr,
                                  !.res = end.res, !.new = end.new]
<1>1. /\ UNCHANGED <<nodeVars, table, feeTable>> /\ th[t].pc = "found" /\ Local(t, rec)
      /\ \E misses : feed' = [feed EXCEPT !.misses = misses]
  BY DEF NotesFound, Step, dbVars
<1>2. PassOK(th[t])
  BY DEF TruthInv, PassesOK
<1>3. AssemblyOK(th[t]) /\ FoundTrue(asset, found) /\ {"new", "asset", "found"} \subseteq DOMAIN th[t]
  BY <1>1, <1>2 DEF PassOK, Assembling
<1>4. end \in Knowledge
  <2>1. known \in Knowledge
    BY <1>3 DEF AssemblyOK, Knowledge
  <2>2. CASE found # NoAddr
    <3>1. asset \in DOMAIN AliasOf /\ found \in ReservesBy(VerifiedBuys, asset)
      BY <1>3, <2>2 DEF FoundTrue
    <3>2. table \subseteq SoundRows
      BY DEF TruthInv, KnownOK
    <3> HIDE DEF known, asset, found
    <3>3. Learned(known, asset, found) \in Knowledge
      BY <2>1, <3>1, <3>2, LearnsKnown
    <3> QED
      BY <2>2, <3>3
  <2>3. CASE found = NoAddr
    BY <2>1, <2>3
  <2> QED
    BY <2>2, <2>3
<1> HIDE DEF end
<1>10. end = [res |-> end.res, new |-> end.new]
  BY <1>4 DEF Knowledge
<1>5. {"pc", "res", "fees", "upto", "unsought", "phase", "rows", "retry", "routes", "pending", "new"}
          \subseteq DOMAIN th[t]
  BY <1>1, <1>2, <1>3 DEF AssemblyOK, PassOK, TruthInv, DayInv, ThreadsOK, LocalsOK, Assembling
<1>6. /\ KeepsKnown(th[t], rec) /\ rec.pc = "seek" /\ rec.phase = th[t].phase
      /\ rec.res = end.res /\ rec.new = end.new /\ "new" \in DOMAIN rec
  BY <1>5 DEF KeepsKnown
<1> HIDE DEF rec
<1>7. PassOK(rec)
  BY <1>1, <1>2, <1>4, <1>6, <1>10, StillTrue DEF Assembling
<1>8. feed'.trades = feed.trades /\ feed'.mem = feed.mem
  <2>1. {"trades", "mem"} \subseteq DOMAIN feed
    BY DEF TruthInv, DayInv, FeedOK, FeedFields
  <2> QED
    BY <1>1, <2>1
<1>9. KnownOK' /\ CopiesOK'
  BY <1>1, <1>8, KnownStays DEF TruthInv, CopiesOK
<1> QED
  BY <1>1, <1>7, <1>9, PassMoves

LEMMA JudgesSells_Truth ==
    ASSUME TruthInv, DayInv', NEW t \in story.threads, JudgesSells(t) PROVE TruthInv'
<1> DEFINE retry == th[t].retry
           routes == th[t].routes
           judged == Judged(retry, th[t].res, {})
           rows == th[t].rows \cup judged
           fees == FeesOf(rows) \ th[t].fees
           all  == th[t].fees \cup fees
           unsought == th[t].unsought \cup Needed(th[t].needed, th[t].res)
           needed == NeededLast(t)
           rec == [th[t] EXCEPT !.rows = rows, !.fees = all, !.phase = "routes",
                                !.unsought = unsought, !.needed = needed]
<1>1. /\ UNCHANGED <<nodeVars, table, feed>> /\ th[t].pc = "seek" /\ th[t].phase = "retry"
      /\ Local(t, rec) /\ feeTable' \in {feeTable, feeTable \cup fees}
  BY DEF JudgesSells, SellsJudged, At, Step
<1>2. PassOK(th[t])
  BY DEF TruthInv, PassesOK
<1>3. /\ AssemblyOK(th[t]) /\ TradeRows(th[t].pending, DOMAIN Txs)
      /\ [res |-> th[t].res, new |-> th[t].new] \in Knowledge
  BY <1>1, <1>2 DEF PassOK, Assembling
<1>4. TradeRows(rows, DOMAIN Txs \ routes)
  <2>1. /\ TradeRows(th[t].rows, DOMAIN Txs \ (retry \cup routes))
        /\ retry \subseteq InIndex /\ retry \cap routes = {} /\ th[t].res \in Known
    BY <1>1, <1>3 DEF AssemblyOK
  <2>3. ChainOK /\ InIndex \subseteq DOMAIN Txs
    BY DayIndexed DEF TruthInv, DayInv
  <2>2. TradeRows(judged, retry)
    BY <2>1, <2>3, JudgedTrue
  <2> HIDE DEF judged, retry
  <2>4. retry \subseteq DOMAIN Txs /\ retry \subseteq DOMAIN Txs \ routes
    BY <1>3, <2>1, <2>3
  <2>5. TradeRows(judged, retry) /\ TradeRows(th[t].rows, DOMAIN Txs \ (retry \cup routes))
    BY <2>1, <2>2
  <2> HIDE DEF routes
  <2> QED
    BY <2>4, <2>5, BothTrue
<1>11. FeesOf(rows) \subseteq VerifiedFees
  <2>1. FeesOf(judged) \subseteq VerifiedFees
    <3>1. retry \subseteq InIndex /\ th[t].res \in Known /\ InIndex \subseteq DOMAIN Txs
      BY <1>3, DayIndexed DEF AssemblyOK, TruthInv, DayInv
    <3> QED
      BY <3>1, JudgedFees
  <2>2. FeesOf(th[t].rows) \subseteq VerifiedFees
    BY <1>3 DEF AssemblyOK
  <2> HIDE DEF judged
  <2> QED
    BY <2>1, <2>2 DEF FeesOf
<1> HIDE DEF rows
<1>5. fees \subseteq VerifiedFees /\ all \subseteq VerifiedFees
  BY <1>3, <1>11 DEF AssemblyOK
<1> HIDE DEF all, fees, unsought, needed
<1>6. {"pc", "res", "fees", "upto", "unsought", "phase", "rows", "retry", "routes", "pending", "new"}
          \subseteq DOMAIN th[t]
  BY <1>1, <1>2, <1>3 DEF AssemblyOK, PassOK, TruthInv, DayInv, ThreadsOK, LocalsOK, Assembling
<1>7. /\ {"res", "fees", "upto", "unsought", "phase", "pending", "new"} \subseteq DOMAIN rec
      /\ rec.pc = "seek" /\ rec.rows = rows /\ rec.fees = all /\ rec.phase = "routes"
      /\ rec.res = th[t].res /\ rec.upto = th[t].upto /\ rec.retry = retry /\ rec.routes = routes
      /\ rec.pending = th[t].pending /\ rec.new = th[t].new
  BY <1>1, <1>6
<1> HIDE DEF rec
<1>8. AssemblyOK(rec)
  BY <1>3, <1>4, <1>5, <1>7, <1>11 DEF AssemblyOK
<1>9. PassOK(rec)
  BY <1>3, <1>7, <1>8 DEF PassOK, Assembling
<1>10. KnownOK' /\ CopiesOK'
  BY <1>1, <1>5, KnownMoves DEF TruthInv, KnownOK, CopiesOK
<1> QED
  BY <1>1, <1>9, <1>10, PassMoves

\* The search for a fee address: nothing else of the pass is changed.
LEMMA StillTrueOnFees ==
    ASSUME NEW l, PassOK(l), l.pc = "seek", l.phase # "retry",
           {"pc", "res", "fees", "upto", "unsought", "phase", "rows", "retry", "routes", "pending", "new"}
               \subseteq DOMAIN l,
           NEW new, DOMAIN new \subseteq FeeLocals,
           "fees" \in DOMAIN new => new.fees \subseteq VerifiedFees,
           "sells" \in DOMAIN new => new.sells \in Seq(InIndex),
           "phase" \in DOMAIN new => new.phase \in {"fees", "last"},
           "phase" \in DOMAIN new /\ new.phase = "fees" => "sells" \in DOMAIN new
    PROVE  PassOK(Updated(l, new))
<1> DEFINE k == Updated(l, new)
<1>1. /\ DOMAIN k = DOMAIN l \cup DOMAIN new
      /\ \A f \in DOMAIN new : k[f] = new[f]
      /\ \A f \in DOMAIN l \ DOMAIN new : k[f] = l[f]
  BY UpdatedLocals
<1> HIDE DEF k
<1>2. /\ AssemblyOK(l) /\ TradeRows(l.pending, DOMAIN Txs)
      /\ [res |-> l.res, new |-> l.new] \in Knowledge
  BY DEF PassOK, Assembling
<1>3. /\ k.pc = "seek" /\ k.res = l.res /\ k.upto = l.upto /\ k.rows = l.rows
      /\ k.retry = l.retry /\ k.routes = l.routes /\ k.pending = l.pending /\ k.new = l.new
      /\ {"pc", "res", "fees", "upto", "unsought", "phase", "pending", "new"} \subseteq DOMAIN k
  BY <1>1 DEF FeeLocals
<1>4. k.fees \subseteq VerifiedFees
  BY <1>1, <1>2 DEF AssemblyOK
<1>5. k.phase # "retry" /\ (k.phase = "fees" => "sells" \in DOMAIN k /\ k.sells \in Seq(InIndex))
  BY <1>1, <1>2 DEF AssemblyOK
<1>6. AssemblyOK(k)
  BY <1>2, <1>3, <1>4, <1>5 DEF AssemblyOK
<1>7. PassOK(k)
  BY <1>2, <1>3, <1>6 DEF PassOK, Assembling
<1> QED
  BY <1>7 DEF k

\* The marked sells that are tried are of the index.
LEMMA SellsAreIndexed ==
    ASSUME ChainOK, NEW seen PROVE SellsToTry(seen) \in Seq(InIndex)
<1> DEFINE past == TxsUpTo(height)
           ids == Reverse(past)
           tried(id) == id \in seen /\ Len(FillMemos(Txs[id])) = 1
           ss == [i \in DOMAIN ids |-> IF tried(ids[i]) THEN <<ids[i]>> ELSE <<>>]
           S == InIndex
<1>1. SellsToTry(seen) = FlattenSeq(ss)
  BY DEF SellsToTry
<1>2. past \in Seq(S)
  <2>1. height \in 0 .. Len(chain)
    BY DEF ChainOK
  <2>2. past \in Seq(DOMAIN Txs)
    BY <2>1, ChainTxs
  <2>3. Len(past) \in Nat /\ DOMAIN past = 1 .. Len(past) /\ S = ToSet(past)
    BY <2>2 DEF InIndex
  <2> HIDE DEF past, S
  <2>4. \A i \in 1 .. Len(past) : past[i] \in S
    BY <2>3 DEF ToSet
  <2> QED
    BY <2>2, <2>3, <2>4
<1> HIDE DEF past, S
<1>3. DOMAIN ids = 1 .. Len(past) /\ Len(past) \in Nat /\ \A i \in 1 .. Len(past) : ids[i] \in S
  <2>1. ids = [i \in 1 .. Len(past) |-> past[Len(past) - i + 1]] /\ Len(past) \in Nat
    BY <1>2 DEF Reverse
  <2>2. \A i \in 1 .. Len(past) : Len(past) - i + 1 \in 1 .. Len(past)
    BY <2>1
  <2>3. \A i \in 1 .. Len(past) : past[i] \in S
    BY <1>2
  <2> HIDE DEF ids
  <2> QED
    BY <2>1, <2>2, <2>3
<1> HIDE DEF ids, tried
<1>4. \A i \in 1 .. Len(past) : ss[i] \in Seq(S)
  <2> TAKE i \in 1 .. Len(past)
  <2>1. <<ids[i]>> \in Seq(S) /\ <<>> \in Seq(S)
    BY <1>3
  <2> QED
    BY <1>3, <2>1
<1>5. ss \in Seq(Seq(S))
  <2>1. ss = [i \in 1 .. Len(past) |-> ss[i]]
    BY <1>3
  <2> HIDE DEF ss
  <2> QED
    BY <1>3, <1>4, <2>1
<1> HIDE DEF ss
<1>6. FlattenSeq(ss) \in Seq(S)
  BY <1>5, FlattenPlaces
<1> QED
  BY <1>1, <1>6 DEF S

\* What a step of it tells: fee addresses of verified reserves, sells of the index.
LEMMA FeeStepIs ==
    ASSUME TruthInv, NEW t \in story.threads, SeeksFee(t) \/ TriesSell(t)
    PROVE  /\ th[t].phase # "retry" /\ UNCHANGED table
           /\ \E fees : fees \subseteq VerifiedFees /\ feeTable' \in {feeTable, feeTable \cup fees}
           /\ \E new : /\ Put(t, new) /\ DOMAIN new \subseteq FeeLocals
                       /\ "fees" \in DOMAIN new => new.fees \subseteq VerifiedFees
                       /\ "sells" \in DOMAIN new => new.sells \in Seq(InIndex)
                       /\ "phase" \in DOMAIN new => new.phase \in {"fees", "last"}
                       /\ "phase" \in DOMAIN new /\ new.phase = "fees" => "sells" \in DOMAIN new
<1>1. AssemblyOK(th[t]) /\ th[t].pc = "seek"
  <2>1. th[t].pc = "seek"
    BY DEF SeeksFee, TriesSell, At, Step
  <2> QED
    BY <2>1 DEF TruthInv, PassesOK, PassOK, Assembling
<1>2. CASE SeeksFee(t)
  <2>1. th[t].phase = "routes" /\ UNCHANGED <<table, feeTable>>
    BY <1>2 DEF SeeksFee, dbVars
  <2>2. \/ \E seen : Put(t, [phase |-> "fees", sells |-> SellsToTry(seen),
                             needed |-> NeededFor(SellsToTry(seen))])
        \/ Put(t, [phase |-> "last", needed |-> {}])
    BY <1>2 DEF SeeksFee
  <2>3. CASE Put(t, [phase |-> "last", needed |-> {}])
    <3> DEFINE new == [phase |-> "last", needed |-> {}]
    <3>1. DOMAIN new = {"phase", "needed"} /\ new.phase = "last"
      OBVIOUS
    <3>2. Put(t, new) /\ DOMAIN new \subseteq FeeLocals
      BY <2>3, <3>1 DEF FeeLocals
    <3> HIDE DEF new
    <3> QED
      BY <2>1, <3>1, <3>2
  <2>4. ASSUME NEW seen, Put(t, [phase |-> "fees", sells |-> SellsToTry(seen),
                                 needed |-> NeededFor(SellsToTry(seen))])
        PROVE  \E new : /\ Put(t, new) /\ DOMAIN new \subseteq FeeLocals
                        /\ DOMAIN new = {"phase", "sells", "needed"} /\ new.phase = "fees"
                        /\ new.sells \in Seq(InIndex)
    <3> DEFINE sells == SellsToTry(seen)
               needed == NeededFor(sells)
               new == [phase |-> "fees", sells |-> sells, needed |-> needed]
    <3>1. sells \in Seq(InIndex)
      BY SellsAreIndexed DEF TruthInv, DayInv
    <3>2. Put(t, new)
      BY <2>4
    <3> HIDE DEF sells, needed
    <3>3. DOMAIN new = {"phase", "sells", "needed"} /\ new.phase = "fees" /\ new.sells = sells
      OBVIOUS
    <3> HIDE DEF new
    <3> QED
      BY <3>1, <3>2, <3>3 DEF FeeLocals
  <2> QED
    BY <2>1, <2>2, <2>3, <2>4
<1>3. CASE TriesSell(t)
  <2>1. th[t].phase = "fees" /\ UNCHANGED table /\ th[t].sells \in Seq(InIndex) /\ th[t].fees \subseteq VerifiedFees
    BY <1>1, <1>3 DEF TriesSell, AssemblyOK
  <2>2. th[t].sells # <<>> => FeesTried(t) \subseteq VerifiedFees
    <3>1. th[t].sells # <<>> => {th[t].sells[1]} \subseteq InIndex
      BY <2>1
    <3>2. InIndex \subseteq DOMAIN Txs /\ th[t].res \in Known
      BY <1>1, DayIndexed DEF TruthInv, DayInv, AssemblyOK
    <3> QED
      BY <3>1, <3>2, JudgedFees DEF FeesTried
  <2>3. CASE FeeFound(t)
    <3> DEFINE fees == th[t].fees \cup FeesTried(t)
               new == [phase |-> "last", needed |-> {}, fees |-> fees]
    <3>1. Put(t, new) /\ feeTable' \in {feeTable, feeTable \cup FeesTried(t)} /\ th[t].sells # <<>>
      BY <2>3 DEF FeeFound
    <3>2. fees \subseteq VerifiedFees
      BY <2>1, <2>2, <3>1
    <3> HIDE DEF fees
    <3>3. DOMAIN new = {"phase", "needed", "fees"} /\ new.phase = "last" /\ new.fees = fees
      OBVIOUS
    <3> HIDE DEF new
    <3>4. DOMAIN new \subseteq FeeLocals
      BY <3>3 DEF FeeLocals
    <3> QED
      BY <2>1, <2>2, <3>1, <3>2, <3>3, <3>4
  <2>4. CASE FeeNotFound(t)
    <3> DEFINE sells == Tail(th[t].sells)
               needed == NeededFor(sells)
               new == [sells |-> sells, needed |-> needed]
    <3>1. Put(t, new) /\ UNCHANGED feeTable /\ th[t].sells # <<>>
      BY <2>4 DEF FeeNotFound
    <3>2. sells \in Seq(InIndex)
      BY <2>1, <3>1
    <3> HIDE DEF sells, needed
    <3>3. DOMAIN new = {"sells", "needed"} /\ new.sells = sells
      OBVIOUS
    <3> HIDE DEF new
    <3>4. DOMAIN new \subseteq FeeLocals
      BY <3>3 DEF FeeLocals
    <3> QED
      BY <2>1, <3>1, <3>2, <3>3, <3>4
  <2>5. CASE FeeSoughtInVain(t)
    <3> DEFINE new == [phase |-> "last", needed |-> {}]
    <3>1. Put(t, new) /\ UNCHANGED feeTable
      BY <2>5 DEF FeeSoughtInVain
    <3>2. DOMAIN new = {"phase", "needed"} /\ new.phase = "last"
      OBVIOUS
    <3> HIDE DEF new
    <3>3. DOMAIN new \subseteq FeeLocals
      BY <3>2 DEF FeeLocals
    <3> QED
      BY <2>1, <3>1, <3>2, <3>3
  <2> QED
    BY <1>3, <2>3, <2>4, <2>5 DEF TriesSell
<1> QED
  BY <1>2, <1>3

LEMMA FeeStep_Truth ==
    ASSUME TruthInv, DayInv', NEW t \in story.threads, SeeksFee(t) \/ TriesSell(t) PROVE TruthInv'
<1>1. /\ UNCHANGED nodeVars /\ th[t].pc = "seek"
      /\ feed' = feed \/ feed' = [feed EXCEPT !.feeMiss = TRUE]
  BY FeeStepPuts
<1>2. /\ th[t].phase # "retry" /\ UNCHANGED table
      /\ \E fees : fees \subseteq VerifiedFees /\ feeTable' \in {feeTable, feeTable \cup fees}
  BY FeeStepIs
<1>3. PICK new :
         /\ Put(t, new) /\ DOMAIN new \subseteq FeeLocals
         /\ "fees" \in DOMAIN new => new.fees \subseteq VerifiedFees
         /\ "sells" \in DOMAIN new => new.sells \in Seq(InIndex)
         /\ "phase" \in DOMAIN new => new.phase \in {"fees", "last"}
         /\ "phase" \in DOMAIN new /\ new.phase = "fees" => "sells" \in DOMAIN new
  BY FeeStepIs
<1> DEFINE rec == Updated(th[t], new)
<1>4. Local(t, rec)
  BY <1>3 DEF Put
<1>5. PassOK(th[t])
  BY DEF TruthInv, PassesOK
<1>6. {"pc", "res", "fees", "upto", "unsought", "phase", "rows", "retry", "routes", "pending", "new"}
          \subseteq DOMAIN th[t]
  <2>1. AssemblyOK(th[t])
    BY <1>1, <1>5 DEF PassOK, Assembling
  <2> QED
    BY <1>1, <1>5, <2>1 DEF AssemblyOK, PassOK, TruthInv, DayInv, ThreadsOK, LocalsOK, Assembling
<1>7. PassOK(rec)
  BY <1>1, <1>2, <1>3, <1>5, <1>6, StillTrueOnFees
<1>8. feed'.trades = feed.trades /\ feed'.mem = feed.mem
  <2>1. {"trades", "mem"} \subseteq DOMAIN feed
    BY DEF TruthInv, DayInv, FeedOK, FeedFields
  <2> QED
    BY <1>1, <2>1
<1>9. KnownOK'
  BY <1>1, <1>2, KnownMoves DEF TruthInv, KnownOK
<1>10. CopiesOK'
  BY <1>1, <1>8 DEF TruthInv, CopiesOK
<1> HIDE DEF rec
<1> QED
  BY <1>1, <1>4, <1>7, <1>9, <1>10, PassMoves

LEMMA JudgesRoutes_Truth ==
    ASSUME TruthInv, DayInv', NEW t \in story.threads, JudgesRoutes(t) PROVE TruthInv'
<1> DEFINE routes == th[t].routes
           judged == Judged(routes, th[t].res, th[t].fees)
           rows == th[t].rows \cup judged
           gen  == labels'.gen
           shown == Relabelled(rows, gen)
           rec == [pc |-> "store", moment |-> th[t].moment,
                   pending |-> th[t].pending, upto |-> th[t].upto, unsought |-> th[t].unsought, rows |-> shown]
<1>1. UNCHANGED <<nodeVars, table, feeTable, feed>> /\ th[t].pc = "seek" /\ DayJudged(t, rows)
  BY DEF JudgesRoutes, At, Step, dbVars
<1>2. PassOK(th[t])
  BY DEF TruthInv, PassesOK
<1>3. AssemblyOK(th[t]) /\ TradeRows(th[t].pending, DOMAIN Txs)
  BY <1>1, <1>2 DEF PassOK, Assembling
<1>4. TradeRows(rows, DOMAIN Txs)
  <2>1. /\ TradeRows(th[t].rows, DOMAIN Txs \ routes) /\ routes \subseteq DOMAIN Txs
        /\ th[t].res \in Known /\ th[t].fees \in SUBSET VerifiedFees /\ ChainOK
    BY <1>3 DEF AssemblyOK, TruthInv, DayInv
  <2>2. TradeRows(judged, routes)
    BY <2>1, JudgedTrue
  <2> HIDE DEF judged, routes
  <2> QED
    BY <2>1, <2>2, BothTrue
<1> HIDE DEF rows, gen
<1>5. TradeRows(shown, DOMAIN Txs)
  BY <1>4, RelabelledTrue
<1>6. Local(t, rec)
  BY <1>1 DEF DayJudged, gen, Relabelled
<1> HIDE DEF shown
<1>7. PassOK(rec)
  BY <1>3, <1>5 DEF PassOK, Assembling
<1>8. KnownOK' /\ CopiesOK'
  BY <1>1, KnownStays DEF TruthInv, CopiesOK
<1> HIDE DEF rec
<1> QED
  BY <1>1, <1>6, <1>7, <1>8, PassMoves

LEMMA StoresDay_Truth ==
    ASSUME TruthInv, DayInv', NEW t \in story.threads, StoresDay(t) PROVE TruthInv'
<1> DEFINE kept == feed.key = th[t].moment
           rows == IF kept THEN th[t].rows ELSE {}
           rec == [pc |-> "merge", moment |-> th[t].moment, pending |-> th[t].pending, rows |-> rows]
<1>1. /\ UNCHANGED <<nodeVars, table, feeTable>> /\ th[t].pc = "store" /\ Local(t, rec)
      /\ feed' = IF kept THEN [feed EXCEPT !.trades = th[t].rows, !.age = 0, !.gen = labels.gen]
                 ELSE feed
  BY DEF StoresDay, Step, dbVars
<1>2. TradeRows(th[t].rows, DOMAIN Txs) /\ TradeRows(th[t].pending, DOMAIN Txs)
  BY <1>1 DEF TruthInv, PassesOK, PassOK
<1>3. TradeRows(rows, DOMAIN Txs)
  BY <1>2, NoneTrue
<1>4. feed'.trades \in {feed.trades, th[t].rows} /\ feed'.mem = feed.mem
  <2>1. {"trades", "mem"} \subseteq DOMAIN feed
    BY DEF TruthInv, DayInv, FeedOK, FeedFields
  <2> QED
    BY <1>1, <2>1
<1> HIDE DEF rows
<1>5. PassOK(rec)
  BY <1>2, <1>3 DEF PassOK, Assembling
<1>6. KnownOK' /\ CopiesOK'
  BY <1>1, <1>2, <1>4, KnownStays DEF TruthInv, CopiesOK
<1> HIDE DEF rec
<1> QED
  BY <1>1, <1>5, <1>6, PassMoves

LEMMA PageGoes_Truth ==
    ASSUME TruthInv, DayInv', NEW t \in story.threads, CountsDay(t) \/ PageEnds(t) PROVE TruthInv'
<1> DEFINE again == [pc |-> "check", moment |-> th[t].moment, pending |-> {}]
<1>1. UNCHANGED <<nodeVars, table, feeTable, feed>> /\ (Local(t, again) \/ Local(t, Idle))
  BY DEF CountsDay, PageEnds, dbVars
<1>2. PassOK(again) /\ PassOK(Idle)
  BY NoneTrue DEF PassOK, Assembling, Idle
<1>3. KnownOK' /\ CopiesOK'
  BY <1>1, KnownStays DEF TruthInv, CopiesOK
<1> HIDE DEF again
<1> QED
  BY <1>1, <1>2, <1>3, PassMoves

LEMMA Next_TruthInv == TruthInv /\ [Next]_vars => TruthInv'
<1> SUFFICES ASSUME TruthInv, [Next]_vars PROVE TruthInv'
  OBVIOUS
<1>1. DayInv'
  BY Next_DayInv DEF TruthInv
<1>2. CASE Broadcast \/ Mined \/ BlockIndexed \/ Midnight \/ CopiesAge \/ TodayFilled \/ UNCHANGED vars
  BY <1>1, <1>2, World_TruthInv
<1>3. ASSUME NEW t \in story.threads, PageBegins(t) PROVE TruthInv'
  BY <1>1, <1>3, PageBegins_Truth
<1>4. ASSUME NEW t \in story.threads, PageStep(t) PROVE TruthInv'
  <2>1. CASE ReadsMempool(t)
    BY <1>1, <2>1, ReadsMempool_Truth
  <2>2. CASE ChecksDay(t)
    BY <1>1, <2>2, ChecksDay_Truth
  <2>3. CASE ReadsDay(t)
    BY <1>1, <2>3, ReadsDay_Truth
  <2>4. CASE Learns(t)
    BY <1>1, <2>4, Learns_Truth
  <2>5. CASE WritesReserves(t)
    BY <1>1, <2>5, WritesReserves_Truth
  <2>6. CASE Searches(t)
    BY <1>1, <2>6, Searches_Truth
  <2>7. CASE NotesFound(t)
    BY <1>1, <2>7, NotesFound_Truth
  <2>8. CASE JudgesSells(t)
    BY <1>1, <2>8, JudgesSells_Truth
  <2>12. CASE SeeksFee(t) \/ TriesSell(t)
    BY <1>1, <2>12, FeeStep_Truth
  <2>9. CASE JudgesRoutes(t)
    BY <1>1, <2>9, JudgesRoutes_Truth
  <2>10. CASE StoresDay(t)
    BY <1>1, <2>10, StoresDay_Truth
  <2>11. CASE CountsDay(t) \/ PageEnds(t)
    BY <1>1, <2>11, PageGoes_Truth
  <2> QED
    BY <1>4, <2>1, <2>2, <2>3, <2>4, <2>5, <2>6, <2>7, <2>8, <2>9, <2>10, <2>11, <2>12 DEF PageStep
<1> QED
  BY <1>2, <1>3, <1>4 DEF Next

\* Whoever reads, writes and searches at the same time: no reserve is learned but
\* of a buy that paid the fee and that the chain shows delivered, no fee address
\* but of a sell of such a reserve, and an asset never gets two.
THEOREM Spec_LearnedVerified == Spec => []LearnedVerified
<1> QED
  BY Init_TruthInv, Next_TruthInv, TruthInv_LearnedVerified, PTL DEF Spec

-----------------------------------------------------------------------------
(* The page.                                                               *)

RelayFields == {"txid", "side", "trader"}

\* The rows of the relay, one after another.
LEMMA RelayRowsAre ==
    ASSUME NEW m \in 0 .. Len(RelayStates), NEW a \in 0 .. Len(RelayStates)
    PROVE  LET rows == RowsOf([markets |-> m, auctions |-> a])
           IN  /\ Len(rows) \in Nat /\ DOMAIN rows = 1 .. Len(rows)
               /\ \A i \in DOMAIN rows : RelayFields \subseteq DOMAIN rows[i]
<1> DEFINE markets == MarketsAt(m)
           auctions == AuctionsAt(a)
           rows == RowsOf([markets |-> m, auctions |-> a])
<1>1. /\ Len(markets) \in Nat /\ DOMAIN markets = 1 .. Len(markets)
      /\ \A k \in DOMAIN markets : /\ Len(markets[k].fills) \in Nat
                                   /\ DOMAIN markets[k].fills = 1 .. Len(markets[k].fills)
  <2>1. CASE m = 0
    BY <2>1 DEF MarketsAt
  <2>2. CASE m # 0
    <3> DEFINE s == RelayStates[m]
    <3>1. RelayStates \in Seq(ToSet(RelayStates))
      BY RelayAssumption
    <3>2. s \in ToSet(RelayStates)
      BY <2>2, <3>1
    <3>3. /\ s.markets \in Seq(ToSet(s.markets))
          /\ \A k \in DOMAIN s.markets : s.markets[k].fills \in Seq(ToSet(s.markets[k].fills))
      BY <3>2, RelayAssumption
    <3>4. markets = s.markets
      BY <2>2 DEF MarketsAt
    <3> HIDE DEF s, markets
    <3> QED
      BY <3>3, <3>4
  <2> QED
    BY <2>1, <2>2
<1>2. /\ Len(auctions) \in Nat /\ DOMAIN auctions = 1 .. Len(auctions)
  <2>1. CASE a = 0
    BY <2>1 DEF AuctionsAt
  <2>2. CASE a # 0
    <3> DEFINE s == RelayStates[a]
    <3>1. RelayStates \in Seq(ToSet(RelayStates))
      BY RelayAssumption
    <3>2. s \in ToSet(RelayStates)
      BY <2>2, <3>1
    <3>3. s.auctions \in Seq(ToSet(s.auctions))
      BY <3>2, RelayAssumption
    <3>4. auctions = s.auctions
      BY <2>2 DEF AuctionsAt
    <3> HIDE DEF s, auctions
    <3> QED
      BY <3>3, <3>4
  <2> QED
    BY <2>1, <2>2
<1>3. rows = TradesFromMarkets(markets) \o TradesFromAuctions(auctions)
  BY DEF RowsOf
<1> HIDE DEF markets, auctions, rows
<1>4. \E S : /\ TradesFromMarkets(markets) \in Seq(S)
             /\ \A row \in S : RelayFields \subseteq DOMAIN row
  <2> DEFINE of(k) == [f \in DOMAIN markets[k].fills |-> FillRow(markets[k], markets[k].fills[f])]
             ss == [k \in DOMAIN markets |-> of(k)]
             S == UNION {ToSet(of(k)) : k \in DOMAIN markets}
  <2>1. ASSUME NEW k \in DOMAIN markets PROVE of(k) \in Seq(S)
    <3> DEFINE one == of(k)
               n == Len(markets[k].fills)
    <3>1. n \in Nat /\ DOMAIN markets[k].fills = 1 .. n
      BY <1>1
    <3>2. one = [f \in 1 .. n |-> one[f]]
      BY <3>1
    <3>4. ToSet(one) \subseteq S
      BY <2>1
    <3>3. \A f \in 1 .. n : one[f] \in ToSet(one)
      BY <3>1 DEF ToSet
    <3> HIDE DEF one, n, S
    <3>5. one \in Seq(S)
      BY <3>1, <3>2, <3>3, <3>4
    <3> QED
      BY <3>5 DEF one
  <2>2. \A row \in S : RelayFields \subseteq DOMAIN row
    <3>1. \A row \in S : \E k \in DOMAIN markets : \E f \in DOMAIN markets[k].fills :
             row = FillRow(markets[k], markets[k].fills[f])
      BY DEF ToSet
    <3>2. \A market, fill : RelayFields \subseteq DOMAIN FillRow(market, fill)
      BY DEF FillRow, RelayFields
    <3> QED
      BY <3>1, <3>2
  <2>3. ss \in Seq(Seq(S))
    <3>1. ss = [k \in 1 .. Len(markets) |-> ss[k]] /\ Len(markets) \in Nat
          /\ \A k \in 1 .. Len(markets) : ss[k] \in Seq(S)
      BY <1>1, <2>1
    <3> HIDE DEF ss, S
    <3> QED
      BY <3>1
  <2>4. TradesFromMarkets(markets) = FlattenSeq(ss)
    BY DEF TradesFromMarkets
  <2> HIDE DEF ss, S
  <2>5. FlattenSeq(ss) \in Seq(S)
    BY <2>3, FlattenPlaces
  <2> QED
    BY <2>2, <2>4, <2>5
<1>5. \E S : /\ TradesFromAuctions(auctions) \in Seq(S)
             /\ \A row \in S : RelayFields \subseteq DOMAIN row
  <2> DEFINE row(i) == [txid |-> auctions[i].txid, side |-> "buy", asset |-> auctions[i].name,
                        trader |-> auctions[i].winner, pending |-> FALSE, venue |-> "auction"]
             of(i) == IF auctions[i].txid = NoTx THEN <<>> ELSE <<row(i)>>
             ss == [i \in DOMAIN auctions |-> of(i)]
             S == {row(i) : i \in DOMAIN auctions}
  <2>1. ASSUME NEW i \in DOMAIN auctions PROVE of(i) \in Seq(S)
    <3>1. row(i) \in S
      OBVIOUS
    <3> HIDE DEF row, S
    <3>2. <<row(i)>> \in Seq(S) /\ <<>> \in Seq(S)
      BY <3>1
    <3> QED
      BY <3>2
  <2>2. \A r \in S : RelayFields \subseteq DOMAIN r
    BY DEF RelayFields
  <2>3. ss \in Seq(Seq(S))
    <3>1. ss = [k \in 1 .. Len(auctions) |-> ss[k]] /\ Len(auctions) \in Nat
          /\ \A k \in 1 .. Len(auctions) : ss[k] \in Seq(S)
      BY <1>2, <2>1
    <3> HIDE DEF ss, S
    <3> QED
      BY <3>1
  <2>4. TradesFromAuctions(auctions) = FlattenSeq(ss)
    BY DEF TradesFromAuctions
  <2> HIDE DEF ss, S
  <2>5. FlattenSeq(ss) \in Seq(S)
    BY <2>3, FlattenPlaces
  <2> QED
    BY <2>2, <2>4, <2>5
<1>6. PICK S : TradesFromMarkets(markets) \in Seq(S) /\ \A row \in S : RelayFields \subseteq DOMAIN row
  BY <1>4
<1>7. PICK U : TradesFromAuctions(auctions) \in Seq(U) /\ \A row \in U : RelayFields \subseteq DOMAIN row
  BY <1>5
<1>8. rows \in Seq(S \cup U)
  <2>1. TradesFromMarkets(markets) \in Seq(S \cup U) /\ TradesFromAuctions(auctions) \in Seq(S \cup U)
    BY <1>6, <1>7
  <2> QED
    BY <1>3, <2>1
<1>9. \A i \in DOMAIN rows : rows[i] \in S \cup U
  BY <1>8
<1>10. Len(rows) \in Nat /\ DOMAIN rows = 1 .. Len(rows)
  BY <1>8
<1> QED
  BY <1>6, <1>7, <1>9, <1>10 DEF rows

\* What is shown of the relay is not what the page has already, and each
\* transaction once.
LEMMA PageRowsAre ==
    ASSUME NEW pending, NEW confirmed, NEW relay, Len(relay) \in Nat, DOMAIN relay = 1 .. Len(relay),
           \A r, s \in pending : r.tx = s.tx => r = s,
           \A r, s \in confirmed : r.tx = s.tx => r = s
    PROVE  LET page == PageOf(pending, confirmed, relay)
           IN  /\ \A row \in page : \/ row \in pending \cup confirmed
                                    \/ row.gen = -1 /\ \E i \in DOMAIN relay :
                                          row.tx = relay[i].txid /\ row.trade = relay[i]
               /\ \A row, other \in page : row.tx = other.tx => row = other
<1> DEFINE chainIds == {row.tx : row \in pending \cup confirmed}
           newest(i) == \A j \in 1 .. i - 1 : relay[j].txid # relay[i].txid
           of(i) == [tx |-> relay[i].txid, trade |-> relay[i], gen |-> -1]
           later == {row \in confirmed : row.tx \notin {p.tx : p \in pending}}
           places == {j \in DOMAIN relay : newest(j) /\ relay[j].txid \notin chainIds}
           listed == {of(i) : i \in places}
           page == PageOf(pending, confirmed, relay)
<1>1. page = pending \cup later \cup listed
  BY Zenon DEF PageOf
<1>2. \A i, j \in places : relay[i].txid = relay[j].txid => i = j
  <2> SUFFICES ASSUME NEW i \in places, NEW j \in places, relay[i].txid = relay[j].txid, i # j
               PROVE  FALSE
    OBVIOUS
  <2>1. i \in Nat /\ j \in Nat /\ i >= 1 /\ j >= 1 /\ newest(i) /\ newest(j)
    OBVIOUS
  <2>2. i \in 1 .. j - 1 \/ j \in 1 .. i - 1
    BY <2>1
  <2> QED
    BY <2>1, <2>2
<1>3. \A i : of(i).tx = relay[i].txid /\ of(i).trade = relay[i] /\ of(i).gen = -1
  OBVIOUS
<1> HIDE DEF of, newest
<1>4. \A row \in listed : \E i \in places : row = of(i) /\ row.tx = relay[i].txid
                                            /\ row.trade = relay[i] /\ row.gen = -1
  BY <1>3
<1>5. \A i \in places : i \in DOMAIN relay /\ relay[i].txid \notin chainIds
  OBVIOUS
<1>6. \A row \in pending \cup later : row.tx \in chainIds
  OBVIOUS
<1>7. \A row, other \in pending \cup later : row.tx = other.tx => row = other
  OBVIOUS
<1>8. later \subseteq confirmed
  OBVIOUS
<1> HIDE DEF listed, later, chainIds, places, page
<1>9. \A row, other \in listed : row.tx = other.tx => row = other
  BY <1>2, <1>4
<1>10. \A row \in listed : row.tx \notin chainIds
  BY <1>4, <1>5
<1>11. \A row, other \in page : row.tx = other.tx => row = other
  BY <1>1, <1>6, <1>7, <1>9, <1>10
<1>12. \A row \in page : \/ row \in pending \cup confirmed
                         \/ row.gen = -1 /\ \E i \in DOMAIN relay :
                               row.tx = relay[i].txid /\ row.trade = relay[i]
  BY <1>1, <1>4, <1>5, <1>8
<1> QED
  BY <1>11, <1>12 DEF page

LEMMA TruthInv_PagesSound == TruthInv => PagesSound
<1> SUFFICES ASSUME TruthInv, NEW t \in story.threads, th[t].pc = "merge",
                    NEW m \in 0 .. Len(RelayStates), NEW a \in 0 .. Len(RelayStates)
             PROVE  LET page == {row \in Page(t, [markets |-> m, auctions |-> a]) :
                                    row.gen # -1 \/ (row.tx \in InIndex /\ TrueSide[row.tx] # "none")}
                    IN  /\ \A row \in page : /\ TrueSide[row.tx] = row.trade.side
                                             /\ TrueTrader[row.tx] = row.trade.trader
                        /\ \A row, other \in page : row.tx = other.tx => row = other
  BY DEF PagesSound
<1> DEFINE rows == RowsOf([markets |-> m, auctions |-> a])
           relay == Resolved(rows)
           all == Page(t, [markets |-> m, auctions |-> a])
           page == {row \in all : row.gen # -1 \/ (row.tx \in InIndex /\ TrueSide[row.tx] # "none")}
<1>1. all = PageOf(th[t].pending, th[t].rows, relay)
  BY DEF Page
<1>2. /\ Len(rows) \in Nat /\ DOMAIN rows = 1 .. Len(rows)
      /\ \A i \in DOMAIN rows : RelayFields \subseteq DOMAIN rows[i]
  BY RelayRowsAre
<1>3. \A i \in DOMAIN rows : rows[i].txid \in DOMAIN Txs /\ TrueSide[rows[i].txid] # "none"
               => /\ rows[i].side = TrueSide[rows[i].txid]
                  /\ TraderOf(rows[i]) = TrueTrader[rows[i].txid]
  BY RelayTruthAssumption
<1> HIDE DEF rows
<1>4. /\ Len(relay) \in Nat /\ DOMAIN relay = 1 .. Len(relay) /\ DOMAIN relay = DOMAIN rows
      /\ \A i \in DOMAIN rows : relay[i] = [rows[i] EXCEPT !.trader = ResolveTrader(rows[i])]
  BY <1>2 DEF Resolved
<1>5. \A i \in DOMAIN relay : /\ relay[i].txid = rows[i].txid /\ relay[i].side = rows[i].side
                              /\ relay[i].trader = ResolveTrader(rows[i])
  BY <1>2, <1>4 DEF RelayFields
<1>6. TradeRows(th[t].pending, DOMAIN Txs) /\ TradeRows(th[t].rows, DOMAIN Txs)
  BY DEF TruthInv, PassesOK, PassOK
<1>7. InIndex \subseteq DOMAIN Txs
  <2>1. height \in 0 .. Len(chain)
    BY DEF TruthInv, DayInv, ChainOK
  <2>2. TxsUpTo(height) \in Seq(DOMAIN Txs)
    BY <2>1, ChainTxs DEF TruthInv, DayInv
  <2> QED
    BY <2>2 DEF InIndex, ToSet
<1> HIDE DEF relay, all
<1>8. /\ \A row \in all : \/ row \in th[t].pending \cup th[t].rows
                          \/ row.gen = -1 /\ \E i \in DOMAIN relay :
                                row.tx = relay[i].txid /\ row.trade = relay[i]
      /\ \A row, other \in all : row.tx = other.tx => row = other
  BY <1>1, <1>4, <1>6, PageRowsAre DEF TradeRows
<1>9. ASSUME NEW row \in page
      PROVE  TrueSide[row.tx] = row.trade.side /\ TrueTrader[row.tx] = row.trade.trader
  <2>1. CASE row \in th[t].pending \cup th[t].rows
    <3>1. row.tx \in DOMAIN Txs /\ TakenFor(row.tx, row.trade.side, row.trade.trader)
      BY <1>6, <2>1 DEF TradeRows, TradeRow
    <3>2. PICK trade \in TradesOf(row.tx) : trade.side = row.trade.side /\ trade.trader = row.trade.trader
      BY <3>1 DEF TakenFor
    <3>3. trade.side # "none"
      BY <3>1, <3>2 DEF TakenFor
    <3> QED
      BY <3>1, <3>2, <3>3, TruthAssumption
  <2>2. ASSUME row.gen = -1, NEW i \in DOMAIN relay, row.tx = relay[i].txid, row.trade = relay[i]
        PROVE  TrueSide[row.tx] = row.trade.side /\ TrueTrader[row.tx] = row.trade.trader
    <3>1. row.tx \in InIndex /\ TrueSide[row.tx] # "none" /\ row.tx = rows[i].txid
      BY <1>5, <2>2
    <3>2. ResolveTrader(rows[i]) = TraderOf(rows[i])
      BY <3>1 DEF ResolveTrader
    <3> QED
      BY <1>3, <1>4, <1>5, <1>7, <2>2, <3>1, <3>2
  <2> QED
    BY <1>8, <2>1, <2>2
<1> QED
  BY <1>8, <1>9 DEF all

\* Whatever thread, day, label or copy of the relay a page is put together
\* from: a transaction is on it once, as what it is, by who traded.
THEOREM Spec_PagesSound == Spec => []PagesSound
<1> QED
  BY Init_TruthInv, Next_TruthInv, TruthInv_PagesSound, PTL DEF Spec

-----------------------------------------------------------------------------
(* The order of the chain.                                                 *)

\* No transaction comes twice, and none before one of an earlier block.
InChainOrder(ids) ==
    /\ \A k \in 1 .. Len(ids) : HeightOf(ids[k]) \in Nat
    /\ \A j, k \in 1 .. Len(ids) :
          j < k => ids[j] # ids[k] /\ HeightOf(ids[j]) <= HeightOf(ids[k])

LEMMA IndexInOrder ==
    ASSUME ChainOK
    PROVE  InChainOrder(TxsUpTo(height))
<1> DEFINE ss == [i \in 1 .. height |-> chain[i].txs]
           ids == TxsUpTo(height)
<1>1. Len(chain) \in Nat /\ DOMAIN chain = 1 .. Len(chain) /\ height \in 0 .. Len(chain)
  BY DEF ChainOK
<1>2. \A i \in 1 .. height : i \in DOMAIN chain /\ chain[i].txs \in Seq(DOMAIN Txs)
  <2> TAKE i \in 1 .. height
  <2>1. i \in DOMAIN chain
    BY <1>1
  <2> DEFINE Blocks == [day : Nat, txs : Seq(DOMAIN Txs)]
  <2>2. chain \in Seq(Blocks)
    BY DEF ChainOK
  <2> HIDE DEF Blocks
  <2>3. chain[i] \in Blocks
    BY <1>1, <2>1, <2>2
  <2> QED
    BY <2>1, <2>3 DEF Blocks
<1>3. ss \in Seq(Seq(DOMAIN Txs)) /\ Len(ss) = height /\ \A i \in 1 .. height : ss[i] = chain[i].txs
  BY <1>1, <1>2
<1>4. ids = FlattenSeq(ss)
  BY DEF TxsUpTo
<1>5. \A i \in 1 .. height : \A j, k \in 1 .. Len(ss[i]) : ss[i][j] = ss[i][k] => j = k
  <2> TAKE i \in 1 .. height
  <2>1. ss[i] = BlocksOf(story)[i] /\ i \in DOMAIN BlocksOf(story) /\ ss[i] \in Seq(DOMAIN Txs)
    BY <1>2, <1>3, ChainInStory DEF ChainOK
  <2>2. \A j, k \in DOMAIN BlocksOf(story)[i] : BlocksOf(story)[i][j] = BlocksOf(story)[i][k] => j = k
    BY <2>1, StoriesAssumption DEF ChainOK, BlocksOf
  <2> HIDE DEF ss
  <2> QED
    BY <2>1, <2>2
<1> HIDE DEF ss, ids
<1>6. PICK a, b : FlatPlaces(ss, Len(ss), ids, a, b)
  BY <1>3, <1>4, FlattenPlaces
<1>7. Len(ids) \in Nat
  <2>1. ids \in Seq(DOMAIN Txs)
    BY <1>3, <1>4, FlattenPlaces
  <2> QED
    BY <2>1
<1>8. \A k \in 1 .. Len(ids) : /\ a[k] \in 1 .. height /\ b[k] \in 1 .. Len(ss[a[k]])
                               /\ ids[k] = ss[a[k]][b[k]]
  BY <1>3, <1>6 DEF FlatPlaces
<1>9. ASSUME NEW k \in 1 .. Len(ids) PROVE HeightOf(ids[k]) = a[k]
  <2> DEFINE i == a[k]
             j == b[k]
  <2>1. i \in 1 .. height /\ j \in 1 .. Len(ss[i]) /\ ids[k] = ss[i][j]
    BY <1>8
  <2> HIDE DEF i, j
  <2>2. ids[k] \in ToSet(chain[i].txs) /\ i \in DOMAIN chain
    <3>1. i \in DOMAIN chain /\ chain[i].txs \in Seq(DOMAIN Txs) /\ chain[i].txs = ss[i]
      BY <1>2, <1>3, <2>1
    <3>2. DOMAIN chain[i].txs = 1 .. Len(ss[i])
      BY <3>1
    <3> QED
      BY <2>1, <3>1, <3>2 DEF ToSet
  <2>3. HeightOf(ids[k]) = i
    BY <2>2, HeightIs
  <2> QED
    BY <2>3 DEF i
<1>10. ASSUME NEW j \in 1 .. Len(ids), NEW k \in 1 .. Len(ids), j < k
       PROVE  ids[j] # ids[k] /\ HeightOf(ids[j]) <= HeightOf(ids[k])
  <2>1. a[j] < a[k] \/ (a[j] = a[k] /\ b[j] < b[k])
    BY <1>6, <1>10 DEF FlatPlaces, InOrder
  <2> DEFINE i == a[k]
  <2>2. a[j] \in Nat /\ i \in Nat /\ a[j] <= i
    BY <1>8, <2>1
  <2>3. ids[j] = ids[k] => a[j] = i
    BY <1>9
  <2>4. CASE a[j] = i
    <3> DEFINE p == b[j]
               q == b[k]
    <3>1. p \in 1 .. Len(ss[i]) /\ q \in 1 .. Len(ss[i]) /\ p < q
      <4>1. b[j] \in 1 .. Len(ss[a[j]]) /\ b[k] \in 1 .. Len(ss[i])
        BY <1>8
      <4>2. b[j] < b[k]
        BY <2>1, <2>2, <2>4
      <4> QED
        BY <2>4, <4>1, <4>2
    <3>2. ids[j] = ss[i][p] /\ ids[k] = ss[i][q] /\ i \in 1 .. height
      BY <1>8, <2>4
    <3> HIDE DEF p, q, i
    <3>3. p # q
      BY <3>1
    <3>4. ids[j] # ids[k]
      BY <1>5, <3>1, <3>2, <3>3
    <3> QED
      BY <1>9, <2>2, <3>4 DEF i
  <2> QED
    BY <1>9, <2>2, <2>3, <2>4
<1>11. \A k \in 1 .. Len(ids) : HeightOf(ids[k]) \in Nat
  BY <1>8, <1>9
<1> QED
  BY <1>10, <1>11 DEF InChainOrder, ids

\* The rows of a day keep that order.
LEMMA DayInOrder ==
    ASSUME ChainOK, NEW d
    PROVE  InChainOrder(DayViews(height, d))
<1> DEFINE rows == DayTxs(height, d)
           ids  == TxsUpTo(height)
           ss   == [i \in DOMAIN ids |-> IF ids[i] \in rows THEN <<ids[i]>> ELSE <<>>]
           views == DayViews(height, d)
<1>1. ids \in Seq(DOMAIN Txs) /\ InChainOrder(ids)
  BY IndexInOrder, ChainTxs DEF ChainOK
<1>2. views = FlattenSeq(ss)
  BY DEF DayViews
<1>3. Len(ids) \in Nat /\ DOMAIN ids = 1 .. Len(ids)
  BY <1>1
<1> HIDE DEF rows, ids, views
<1>4. \A i \in 1 .. Len(ids) : ids[i] \in DOMAIN Txs
  BY <1>1
<1>5. \A i \in 1 .. Len(ids) : /\ ss[i] \in Seq(DOMAIN Txs)
                               /\ \A k \in 1 .. Len(ss[i]) : k = 1 /\ ss[i][k] = ids[i]
  <2> TAKE i \in 1 .. Len(ids)
  <2>1. ss[i] = IF ids[i] \in rows THEN <<ids[i]>> ELSE <<>>
    BY <1>3
  <2> QED
    <3>1. CASE ids[i] \in rows
      <4>1. ss[i] = <<ids[i]>>
        BY <2>1, <3>1
      <4> HIDE DEF ss
      <4> DEFINE id == ids[i]
      <4>2. id \in DOMAIN Txs
        BY <1>4
      <4> HIDE DEF id
      <4>3. <<id>> \in Seq(DOMAIN Txs) /\ \A k \in 1 .. Len(<<id>>) : k = 1 /\ <<id>>[k] = id
        BY <4>2
      <4> QED
        BY <4>1, <4>3 DEF id
    <3>2. CASE ids[i] \notin rows
      <4>1. ss[i] = <<>>
        BY <2>1, <3>2
      <4> HIDE DEF ss
      <4> QED
        BY <4>1
    <3> QED
      BY <3>1, <3>2
<1>6. ss \in Seq(Seq(DOMAIN Txs)) /\ Len(ss) = Len(ids)
  <2>1. ss = [i \in 1 .. Len(ids) |-> ss[i]]
    BY <1>3
  <2> HIDE DEF ss
  <2> QED
    BY <1>3, <1>5, <2>1
<1> HIDE DEF ss
<1>7. PICK a, b : FlatPlaces(ss, Len(ss), views, a, b)
  BY <1>2, <1>6, FlattenPlaces
<1>8. Len(views) \in Nat
  <2>1. views \in Seq(DOMAIN Txs)
    BY <1>2, <1>6, FlattenPlaces
  <2> QED
    BY <2>1
<1>9. \A k \in 1 .. Len(views) : a[k] \in 1 .. Len(ids) /\ b[k] = 1 /\ views[k] = ids[a[k]]
  <2> TAKE k \in 1 .. Len(views)
  <2> DEFINE i == a[k]
             j == b[k]
  <2>1. i \in 1 .. Len(ids) /\ j \in 1 .. Len(ss[i]) /\ views[k] = ss[i][j]
    BY <1>6, <1>7 DEF FlatPlaces
  <2> HIDE DEF i, j
  <2>2. j = 1 /\ views[k] = ids[i]
    BY <1>5, <2>1
  <2> QED
    BY <2>1, <2>2 DEF i, j
<1>10. \A j, k \in 1 .. Len(views) : j < k => a[j] < a[k]
  <2> TAKE j, k \in 1 .. Len(views)
  <2>1. j < k => a[j] < a[k] \/ (a[j] = a[k] /\ b[j] < b[k])
    BY <1>7 DEF FlatPlaces, InOrder
  <2> QED
    BY <1>9, <2>1
<1>11. /\ \A k \in 1 .. Len(ids) : HeightOf(ids[k]) \in Nat
       /\ \A j, k \in 1 .. Len(ids) :
             j < k => ids[j] # ids[k] /\ HeightOf(ids[j]) <= HeightOf(ids[k])
  BY <1>1 DEF InChainOrder
<1>12. InChainOrder(views)
  <2>1. ASSUME NEW k \in 1 .. Len(views) PROVE HeightOf(views[k]) \in Nat
    BY <1>9, <1>11
  <2>2. ASSUME NEW j \in 1 .. Len(views), NEW k \in 1 .. Len(views), j < k
        PROVE  views[j] # views[k] /\ HeightOf(views[j]) <= HeightOf(views[k])
    <3> DEFINE x == a[j]
               y == a[k]
    <3>1. /\ x \in 1 .. Len(ids) /\ y \in 1 .. Len(ids) /\ x < y
          /\ views[j] = ids[x] /\ views[k] = ids[y]
      BY <1>9, <1>10, <2>2
    <3> HIDE DEF x, y
    <3> QED
      BY <1>11, <3>1
  <2> QED
    BY <2>1, <2>2 DEF InChainOrder
<1> QED
  BY <1>12 DEF views

-----------------------------------------------------------------------------
(* The pairing of buys and deliveries.                                     *)

\* After the first n of the views: who has a delivery is one of them, has one
\* that is its own, and who could take what is left has taken one no later.
Paired(taken, buys, views, n) ==
    /\ \A d \in taken : /\ d \in [buy : ToSet(views), by : ToSet(views)]
                        /\ Fits(buys, views, d.buy, d.by)
                        /\ \E k \in 1 .. n : d.buy = views[k]
    /\ \A d, e \in taken : d.buy = e.buy \/ d.by = e.by => d = e
    /\ \A k \in 1 .. n : \A i \in 1 .. Len(views) :
          Fits(buys, views, views[k], views[i]) /\ views[i] \notin {d.by : d \in taken} =>
             \E d \in taken : \E j \in 1 .. i : d.buy = views[k] /\ d.by = views[j]

LEMMA OneMorePaired ==
    ASSUME NEW buys, NEW views, Len(views) \in Nat, DOMAIN views = 1 .. Len(views),
           InChainOrder(views), NEW n \in 1 .. Len(views), NEW taken,
           Paired(taken, buys, views, n - 1)
    PROVE  Paired(Taken(buys, views, taken, views[n]), buys, views, n)
<1> DEFINE id == views[n]
           F == Fitting(buys, views, taken, id)
           pair(i) == [buy |-> id, by |-> views[i]]
           more == Taken(buys, views, taken, id)
<1>1. more = taken \cup {pair(i) : i \in FirstOf(F)}
  BY DEF Taken
<1>2. F \subseteq 1 .. Len(views) /\ \A i \in F : Fits(buys, views, id, views[i]) /\ views[i] \notin {d.by : d \in taken}
  BY DEF Fitting
<1>3. \A i \in FirstOf(F) : i \in F /\ \A j \in F : i <= j
  BY DEF FirstOf
<1>4. \A k \in 1 .. n - 1 : k \in 1 .. Len(views) /\ views[k] # id /\ k \in 1 .. n
  BY DEF InChainOrder
<1>5. \A i \in 1 .. Len(views) : views[i] \in ToSet(views)
  BY DEF ToSet
<1>6. \A i \in 1 .. Len(views) : Fits(buys, views, id, views[i]) /\ views[i] \notin {d.by : d \in taken} => i \in F
  BY DEF Fitting
<1> HIDE DEF F, more
<1>7. \A i : pair(i).buy = id /\ pair(i).by = views[i]
  OBVIOUS
<1>8. ASSUME NEW d \in more
      PROVE  /\ d \in [buy : ToSet(views), by : ToSet(views)]
             /\ Fits(buys, views, d.buy, d.by) /\ \E k \in 1 .. n : d.buy = views[k]
  <2>1. CASE d \in taken
    BY <1>4, <2>1 DEF Paired
  <2>2. CASE d \notin taken
    <3>1. PICK i \in FirstOf(F) : d = pair(i)
      BY <1>1, <2>2
    <3>2. i \in 1 .. Len(views) /\ Fits(buys, views, id, views[i])
      BY <1>2, <1>3
    <3>3. id \in ToSet(views) /\ views[i] \in ToSet(views) /\ n \in 1 .. n
      BY <1>5, <3>2
    <3> QED
      BY <3>1, <3>2, <3>3
  <2> QED
    BY <2>1, <2>2
<1>9. ASSUME NEW d \in taken PROVE d.buy # id
  BY <1>4, <1>9 DEF Paired
<1>10. ASSUME NEW d \in more, NEW e \in more, d.buy = e.buy \/ d.by = e.by PROVE d = e
  <2> HIDE DEF id, pair
  <2>1. ASSUME NEW x \in taken, NEW i \in FirstOf(F) PROVE x.buy # pair(i).buy /\ x.by # pair(i).by
    <3>1. i \in F
      BY <1>3
    <3>2. views[i] \notin {p.by : p \in taken}
      BY <1>2, <3>1
    <3> QED
      BY <1>7, <1>9, <3>2
  <2>2. ASSUME NEW i \in FirstOf(F), NEW j \in FirstOf(F) PROVE i = j
    <3>1. i \in F /\ j \in F /\ i <= j /\ j <= i
      BY <1>3
    <3>2. i \in Int /\ j \in Int
      BY <1>2, <3>1
    <3> QED
      BY <3>1, <3>2
  <2>3. \A x, y \in taken : x.buy = y.buy \/ x.by = y.by => x = y
    BY DEF Paired
  <2>4. CASE d \in taken /\ e \in taken
    BY <1>10, <2>3, <2>4
  <2>5. CASE d \in taken /\ e \notin taken
    BY <1>1, <1>10, <2>1, <2>5
  <2>6. CASE d \notin taken /\ e \in taken
    BY <1>1, <1>10, <2>1, <2>6
  <2>7. CASE d \notin taken /\ e \notin taken
    BY <1>1, <2>2, <2>7
  <2> QED
    BY <2>4, <2>5, <2>6, <2>7
<1>11. ASSUME NEW k \in 1 .. n, NEW i \in 1 .. Len(views), Fits(buys, views, views[k], views[i]),
              views[i] \notin {d.by : d \in more}
       PROVE  \E d \in more : \E j \in 1 .. i : d.buy = views[k] /\ d.by = views[j]
  <2>1. views[i] \notin {d.by : d \in taken}
    BY <1>1, <1>11
  <2>2. CASE k # n
    <3>1. k \in 1 .. n - 1
      BY <2>2
    <3>2. \E d \in taken : \E j \in 1 .. i : d.buy = views[k] /\ d.by = views[j]
      BY <1>11, <2>1, <3>1 DEF Paired
    <3> QED
      BY <1>1, <3>2
  <2>3. CASE k = n
    <3>1. i \in F
      BY <1>6, <1>11, <2>1, <2>3
    <3>2. F \subseteq Nat /\ F # {}
      BY <1>2, <3>1
    <3>3. PICK j \in F : \A x \in F : j <= x
      BY <3>2, LeastNumber
    <3>4. j \in FirstOf(F) /\ j \in 1 .. i
      BY <1>2, <3>1, <3>3 DEF FirstOf
    <3>5. pair(j) \in more /\ pair(j).buy = views[k] /\ pair(j).by = views[j]
      BY <1>1, <2>3, <3>4
    <3> QED
      BY <3>4, <3>5
  <2> QED
    BY <2>2, <2>3
<1>12. Paired(more, buys, views, n)
  <2> HIDE DEF pair, id
  <2> QED
    BY <1>8, <1>10, <1>11 DEF Paired
<1> QED
  BY <1>12 DEF more

LEMMA AllPaired ==
    ASSUME NEW buys, NEW views, Len(views) \in Nat, DOMAIN views = 1 .. Len(views),
           InChainOrder(views)
    PROVE  Paired(Deliveries(buys, views), buys, views, Len(views))
<1>1. PICK f : TakenByTurns(f, buys, views)
  BY DeliveriesByTurns
<1> DEFINE T == {n \in Nat : n <= Len(views) => Paired(f[n], buys, views, n)}
<1>2. 0 \in T
  BY <1>1 DEF TakenByTurns, Paired
<1>3. ASSUME NEW m \in T PROVE m + 1 \in T
  <2> DEFINE n == m + 1
  <2> SUFFICES ASSUME n <= Len(views) PROVE Paired(f[n], buys, views, n)
    OBVIOUS
  <2>1. n \in 1 .. Len(views) /\ n - 1 = m /\ m <= Len(views) /\ m \in Nat
    OBVIOUS
  <2>2. Paired(f[m], buys, views, m)
    BY <2>1
  <2> HIDE DEF n, T
  <2>3. f[n] = Taken(buys, views, f[m], views[n])
    BY <1>1, <2>1 DEF TakenByTurns
  <2> QED
    BY <2>1, <2>2, <2>3, OneMorePaired
<1>4. T = Nat
  <2>1. T \subseteq Nat
    OBVIOUS
  <2> HIDE DEF T
  <2> QED
    BY <1>2, <1>3, <2>1, AllNumbers
<1>5. Paired(f[Len(views)], buys, views, Len(views))
  BY <1>4
<1> QED
  BY <1>1, <1>5 DEF TakenByTurns

\* Each has one; nobody is left with something it could have had, unless it has
\* something that is no later; what is left to one is left to another with
\* which it shares one that is no later.
OneEach(pairs) == \A p, q \in pairs : p.buy = q.buy \/ p.by = q.by => p = q
NothingLeft(G, R) ==
    \A r \in R : r.by \notin {g.by : g \in G} =>
       \E g \in G : g.buy = r.buy /\ HeightOf(g.by) <= HeightOf(r.by)
Shares(R) ==
    \A p, q, r \in R : p.by = q.by /\ p.buy = r.buy /\ HeightOf(p.by) <= HeightOf(r.by) =>
       \E s \in R : s.buy = q.buy /\ s.by = r.by

\* No pairing has more than the one in which every buy takes the first that is
\* left, when a later delivery to a buy that could also have had another's
\* would have done for that other as well.  A pair is sent to its own buy if
\* something is left that this buy could take (then it has taken something),
\* and else to the buy that took its delivery.
LEMMA NoMorePairs ==
    ASSUME NEW R, NEW G, G \subseteq R, NEW served, served = {g.buy : g \in G},
           IsFiniteSet(served), \A r \in R : HeightOf(r.by) \in Nat,
           OneEach(G), NothingLeft(G, R), Shares(R), NEW pairs \in SUBSET R, OneEach(pairs)
    PROVE  Cardinality(pairs) <= Cardinality(served)
<1> USE DEF OneEach, NothingLeft, Shares
<1> DEFINE used == {g.by : g \in G}
           free(b) == \E r \in R : r.buy = b /\ r.by \notin used
           taker(c) == CHOOSE g \in G : g.by = c
           f == [p \in pairs |-> IF free(p.buy) THEN p.buy ELSE taker(p.by).buy]
<1>1. ASSUME NEW p \in pairs, ~free(p.buy) PROVE taker(p.by) \in G /\ taker(p.by).by = p.by
  <2>1. p.by \in used
    BY <1>1
  <2> QED
    BY <2>1
<1> HIDE DEF taker
<1>2. ASSUME NEW p \in pairs PROVE f[p] \in served
  <2>1. CASE free(p.buy)
    <3>1. f[p] = p.buy
      BY <2>1
    <3>2. PICK r \in R : r.buy = p.buy /\ r.by \notin used
      BY <2>1
    <3>3. \E g \in G : g.buy = r.buy
      BY <3>2
    <3> HIDE DEF f
    <3> QED
      BY <3>1, <3>2, <3>3
  <2>2. CASE ~free(p.buy)
    <3>1. f[p] = taker(p.by).buy
      BY <2>2
    <3> HIDE DEF f
    <3> QED
      BY <1>1, <2>2, <3>1
  <2> QED
    BY <2>1, <2>2
<1>3. ASSUME NEW p \in pairs, NEW q \in pairs, free(p.buy), ~free(q.buy)
      PROVE  p.buy # taker(q.by).buy
  <2> SUFFICES ASSUME p.buy = taker(q.by).buy PROVE FALSE
    OBVIOUS
  <2> DEFINE g == taker(q.by)
  <2>1. g \in G /\ g.by = q.by /\ g.buy = p.buy
    BY <1>1, <1>3
  <2> HIDE DEF g
  <2>2. PICK r \in R : r.buy = p.buy /\ r.by \notin used
    BY <1>3
  <2>3. PICK h \in G : h.buy = r.buy /\ HeightOf(h.by) <= HeightOf(r.by)
    BY <2>2
  <2>4. h = g
    BY <2>1, <2>2, <2>3
  <2>5. \E s \in R : s.buy = q.buy /\ s.by = r.by
    BY <2>1, <2>2, <2>3, <2>4
  <2> QED
    BY <1>3, <2>2, <2>5
<1>4. \A p \in pairs : f[p] = IF free(p.buy) THEN p.buy ELSE taker(p.by).buy
  OBVIOUS
<1>5. f = [p \in pairs |-> f[p]] /\ DOMAIN f = pairs
  OBVIOUS
<1> HIDE DEF f, free
<1>6. ASSUME NEW p \in pairs, NEW q \in pairs, f[p] = f[q] PROVE p = q
  <2>1. CASE free(p.buy) /\ free(q.buy)
    BY <1>4, <1>6, <2>1
  <2>2. CASE free(p.buy) /\ ~free(q.buy)
    BY <1>3, <1>4, <1>6, <2>2
  <2>3. CASE ~free(p.buy) /\ free(q.buy)
    BY <1>3, <1>4, <1>6, <2>3
  <2>4. CASE ~free(p.buy) /\ ~free(q.buy)
    <3>1. taker(p.by).buy = taker(q.by).buy
      BY <1>4, <1>6, <2>4
    <3>2. taker(p.by) = taker(q.by)
      BY <1>1, <2>4, <3>1
    <3>3. p.by = q.by
      BY <1>1, <2>4, <3>2
    <3> QED
      BY <3>3
  <2> QED
    BY <2>1, <2>2, <2>3, <2>4
<1>7. f \in Injection(pairs, served)
  <2>1. f \in [pairs -> served]
    BY <1>2, <1>5
  <2> QED
    BY <1>5, <1>6, <2>1 DEF Injection, IsInjective
<1> QED
  BY <1>7, FS_Injection

\* What waits, and what it could take, in the words of the property.
LEMMA PairsAre ==
    ASSUME NEW views, NEW buys, NEW ids, ToSet(views) \subseteq ids,
           buys = [id \in {i \in ids : AsRead(i).side = "buy"} |-> AsRead(id)]
    PROVE  {p \in [buy : Waiting(views), by : ToSet(views)] :
               /\ p.by # p.buy /\ HeightOf(p.by) >= HeightOf(p.buy)
               /\ Hands(View(p.by), AsRead(p.buy))}
           = {p \in [buy : ToSet(views), by : ToSet(views)] : Fits(buys, views, p.buy, p.by)}
<1> DEFINE Can(p) == /\ p.by # p.buy /\ HeightOf(p.by) >= HeightOf(p.buy)
                     /\ Hands(View(p.by), AsRead(p.buy))
<1>1. ASSUME NEW id \in ToSet(views)
      PROVE  id \in Waiting(views) <=> id \in DOMAIN buys /\ buys[id].pending
  BY DEF Waiting
<1>2. \A id \in DOMAIN buys : buys[id] = AsRead(id)
  OBVIOUS
<1>3. Waiting(views) \subseteq ToSet(views)
  BY DEF Waiting
<1>4. ASSUME NEW p \in [buy : ToSet(views), by : ToSet(views)]
      PROVE  p.buy \in Waiting(views) /\ Can(p) <=> Fits(buys, views, p.buy, p.by)
  <2> DEFINE b == p.buy
             c == p.by
  <2>1. b \in ToSet(views) /\ c \in ToSet(views)
    OBVIOUS
  <2>2. Can(p) <=> c # b /\ HeightOf(c) >= HeightOf(b) /\ Hands(View(c), AsRead(b))
    OBVIOUS
  <2> HIDE DEF b, c, Can
  <2>3. b \in Waiting(views) /\ Can(p) <=> Fits(buys, views, b, c)
    BY <1>1, <1>2, <2>1, <2>2 DEF Fits, Hands
  <2> QED
    BY <2>3 DEF b, c
<1> HIDE DEF Can
<1>5. {p \in [buy : Waiting(views), by : ToSet(views)] : Can(p)}
      = {p \in [buy : ToSet(views), by : ToSet(views)] : Fits(buys, views, p.buy, p.by)}
  BY <1>3, <1>4
<1> QED
  BY <1>5 DEF Can

\* A delivery that is left to one buy is left to another with which it shares
\* one that comes no later.
LEMMA SharedDeliveries ==
    ASSUME TruthInv, NEW views, ToSet(views) \subseteq DOMAIN Txs,
           NEW b \in Waiting(views), NEW other \in Waiting(views),
           NEW c \in ToSet(views), NEW late \in ToSet(views),
           HeightOf(b) \in Nat, HeightOf(c) \in Nat, HeightOf(late) \in Nat,
           HeightOf(c) >= HeightOf(b), HeightOf(c) <= HeightOf(late),
           Hands(View(c), AsRead(b)), Hands(View(c), AsRead(other)), Hands(View(late), AsRead(other))
    PROVE  late # b /\ HeightOf(late) >= HeightOf(b) /\ Hands(View(late), AsRead(b))
<1> DEFINE Views == UNION {{Txs[id], NoMarkers(Txs[id])} : id \in DOMAIN Txs}
           Buys  == {trade \in UNION {TradesOf(id) : id \in DOMAIN Txs} :
                        trade.side = "buy" /\ trade.pending}
<1>1. ASSUME NEW id \in ToSet(views) PROVE View(id) \in Views
  <2>1. id \in DOMAIN Txs /\ View(id) \in {Txs[id], NoMarkers(Txs[id])}
    BY DEF View
  <2> QED
    BY <2>1
<1>2. ASSUME NEW id \in Waiting(views) PROVE AsRead(id) \in Buys /\ FillMemos(View(id)) # <<>>
  <2>1. id \in DOMAIN Txs /\ AsRead(id).side = "buy" /\ AsRead(id).pending
    BY DEF Waiting
  <2>2. LoadReserves \in Knowable /\ feeTable \in SUBSET KnowableFees
    BY LoadsKnown, VerifiedCan DEF TruthInv, KnownOK, DayInv
  <2>3. View(id) \in SeenAs(id)
    BY <2>1, ReadAsSeen
  <2>4. AsRead(id) \in TradesOf(id)
    BY <2>2, <2>3 DEF TradesOf, AsRead
  <2>5. FillMemos(View(id)) # <<>>
    BY <2>1, ClassifyMade DEF AsRead
  <2> QED
    BY <2>1, <2>4, <2>5
<1> HIDE DEF Views, Buys
<1>3. \A v, w \in Views : \A x, y \in Buys : Hands(v, x) /\ Hands(v, y) /\ Hands(w, x) => Hands(w, y)
  BY DeliveryAssumption DEF Views, Buys
<1>4. Hands(View(late), AsRead(b))
  <2> DEFINE v == View(c)
             w == View(late)
             x == AsRead(other)
             y == AsRead(b)
  <2>1. v \in Views /\ w \in Views /\ x \in Buys /\ y \in Buys
    BY <1>1, <1>2
  <2>2. Hands(v, x) /\ Hands(v, y) /\ Hands(w, x)
    OBVIOUS
  <2> HIDE DEF v, w, x, y
  <2>3. Hands(w, y)
    BY <1>3, <2>1, <2>2
  <2> QED
    BY <2>3 DEF w, y
<1>5. FillMemos(View(late)) = <<>>
  BY <1>4 DEF Hands, TokenDelivery
<1>6. FillMemos(View(b)) # <<>>
  BY <1>2
<1>7. late # b
  BY <1>5, <1>6
<1> QED
  BY <1>4, <1>7

\* The rows that a reading makes of its buys and sells.
Reading(ids, views, matched, buys, done, rows) ==
    /\ ToSet(views) \subseteq ids
    /\ buys = [id \in {i \in ids : AsRead(i).side = "buy"} |-> AsRead(id)]
    /\ \A id \in DOMAIN buys : IF \E d \in matched : d.buy = id
                               THEN done[id].side = "buy" /\ ~done[id].pending
                               ELSE done[id] = buys[id]
    /\ \A d \in matched : d.buy \in Waiting(views)
    /\ rows = {Row(id, done[id], 0) : id \in DOMAIN buys}
                 \cup {Row(id, AsRead(id), 0) : id \in {i \in ids : AsRead(i).side = "sell"}}

LEMMA ServedAre ==
    ASSUME NEW ids, NEW views, NEW matched, NEW buys, NEW done, NEW rows,
           Reading(ids, views, matched, buys, done, rows)
    PROVE  {id \in Waiting(views) : \E row \in rows :
                row.tx = id /\ row.trade.side = "buy" /\ ~row.trade.pending}
           = {d.buy : d \in matched}
<1> USE DEF Reading
<1>1. \A id, trade : Row(id, trade, 0).tx = id /\ Row(id, trade, 0).trade = trade
  BY DEF Row
<1>2. ASSUME NEW id \in Waiting(views) PROVE id \in DOMAIN buys /\ buys[id].pending
  BY DEF Waiting
<1>3. ASSUME NEW id \in Waiting(views), NEW row \in rows, row.tx = id, row.trade.side = "buy", ~row.trade.pending
      PROVE  id \in {d.buy : d \in matched}
  <2>1. CASE \E i \in DOMAIN buys : row = Row(i, done[i], 0)
    <3>1. row.trade = done[id]
      BY <1>1, <1>3, <2>1
    <3>2. done[id] # buys[id]
      BY <1>2, <1>3, <3>1
    <3>3. \E d \in matched : d.buy = id
      BY <1>2, <3>2
    <3> QED
      BY <3>3
  <2>2. CASE \E i \in {j \in ids : AsRead(j).side = "sell"} : row = Row(i, AsRead(i), 0)
    <3>1. PICK i : AsRead(i).side = "sell" /\ row = Row(i, AsRead(i), 0)
      BY <2>2
    <3>2. row.trade = AsRead(i)
      BY <1>1, <3>1
    <3> QED
      BY <1>3, <3>1, <3>2
  <2> QED
    BY <2>1, <2>2
<1>4. ASSUME NEW d \in matched
      PROVE  \E row \in rows : row.tx = d.buy /\ row.trade.side = "buy" /\ ~row.trade.pending
  <2> DEFINE id == d.buy
             row == Row(id, done[id], 0)
  <2>1. id \in DOMAIN buys
    BY <1>2
  <2>2. row \in rows
    BY <2>1
  <2>3. row.tx = id /\ row.trade = done[id]
    BY <1>1
  <2>4. done[id].side = "buy" /\ ~done[id].pending
    BY <2>1
  <2> HIDE DEF row
  <2> QED
    BY <2>2, <2>3, <2>4
<1> QED
  BY <1>3, <1>4

\* What one step of a thread promises of the reading it makes.
Matched(t) ==
    LET views  == DayViews(height, th[t].moment)
        served == {id \in Waiting(views) : \E row \in th'[t].rows :
                      row.tx = id /\ row.trade.side = "buy" /\ ~row.trade.pending}
    IN  /\ \E pairs \in Pairings(views) : served = {p.buy : p \in pairs}
        /\ \A pairs \in Pairings(views) : Cardinality(pairs) <= Cardinality(served)

LEMMA ReadsDay_Matched ==
    ASSUME TruthInv, NEW t \in story.threads, ReadsDay(t)
    PROVE  Matched(t)
<1> DEFINE d     == th[t].moment
           ids   == DayTxs(height, d)
           views == DayViews(height, d)
           base  == [id \in ids |-> Classify(View(id), LoadReserves, feeTable)]
           of(side) == {id \in DOMAIN base : base[id].side = side}
           buys  == [id \in of("buy") |-> base[id]]
           done  == Delivered(buys, views)
           rows  == {Row(id, done[id], 0) : id \in of("buy")}
                       \cup {Row(id, base[id], 0) : id \in of("sell")}
           G     == Deliveries(buys, views)
           R     == {p \in [buy : ToSet(views), by : ToSet(views)] : Fits(buys, views, p.buy, p.by)}
           served == {id \in Waiting(views) : \E row \in th'[t].rows :
                         row.tx = id /\ row.trade.side = "buy" /\ ~row.trade.pending}
<1>1. ChainOK /\ t \in DOMAIN th
  BY DEF TruthInv, DayInv, ThreadsOK
<1>2. /\ ids \subseteq DOMAIN Txs /\ views \in Seq(ids) /\ InChainOrder(views)
  BY <1>1, DayChainTxs, DayInOrder
<1>3. th'[t].rows = rows
  <2> DEFINE retry == {id \in of("none") : LoneSellMemo(View(id))}
             routes == {id \in of("none") : ~LoneSellMemo(View(id)) /\ RouteMemos(View(id)) # <<>>}
             new == [pc |-> "learn", upto |-> height, res |-> LoadReserves, fees |-> feeTable,
                     unsought |-> {}, rows |-> rows, retry |-> retry, routes |-> routes]
             rec == Updated(th[t], new)
  <2>1. Local(t, rec)
    BY DEF ReadsDay, Sorted, Put
  <2>2. "rows" \in DOMAIN new /\ new.rows = rows
    OBVIOUS
  <2> HIDE DEF new, rows
  <2>3. \A f \in DOMAIN new : rec[f] = new[f]
    BY UpdatedLocals
  <2> HIDE DEF rec
  <2>4. rec.rows = rows
    BY <2>2, <2>3
  <2> QED
    BY <1>1, <2>1, <2>4 DEF Local
<1>4. buys = [id \in {i \in ids : AsRead(i).side = "buy"} |-> AsRead(id)]
  BY DEF AsRead
<1>5. rows = {Row(id, done[id], 0) : id \in DOMAIN buys}
                 \cup {Row(id, AsRead(id), 0) : id \in {i \in ids : AsRead(i).side = "sell"}}
  <2>1. \A id \in ids : base[id] = AsRead(id)
    BY DEF AsRead
  <2>2. of("buy") = DOMAIN buys /\ of("sell") = {i \in ids : AsRead(i).side = "sell"}
    BY DEF AsRead
  <2> HIDE DEF done, buys, base
  <2> QED
    BY <2>1, <2>2
<1>6. \A id \in DOMAIN buys : IF \E p \in G : p.buy = id
                              THEN done[id].side = "buy" /\ ~done[id].pending
                              ELSE done[id] = buys[id]
  <2> DEFINE by(id) == CHOOSE p \in G : p.buy = id
             held(id) == CHOOSE n \in TokenDelivery(View(by(id).by), buys[id].asset,
                                     buys[id].atoms, buys[id].trader) : TRUE
  <2>1. done = [id \in DOMAIN buys |->
                   IF \E p \in G : p.buy = id
                   THEN [buys[id] EXCEPT !.pending = FALSE, !.asset = held(id)]
                   ELSE buys[id]]
    BY ZenonT(60) DEF Delivered
  <2>2. \A id \in DOMAIN buys : buys[id].side = "buy" /\ IsTrade(buys[id])
    <3> TAKE id \in DOMAIN buys
    <3>1. buys[id] = AsRead(id) /\ AsRead(id).side = "buy"
      BY <1>4
    <3>2. AsRead(id) = NoTrade \/ IsTrade(AsRead(id))
      BY ClassifyMade DEF AsRead
    <3>3. NoTrade.side # "buy"
      BY DEF NoTrade
    <3> HIDE DEF buys
    <3> QED
      BY <3>1, <3>2, <3>3
  <2> HIDE DEF done, buys, held, G
  <2>3. \A id \in DOMAIN buys : LET b == [buys[id] EXCEPT !.pending = FALSE, !.asset = held(id)]
                                IN  b.side = "buy" /\ ~b.pending
    BY <2>2 DEF IsTrade, TradeFields
  <2> QED
    BY <2>1, <2>3
<1> HIDE DEF base, buys, done, rows, ids, views, d
<1>7. Len(views) \in Nat /\ DOMAIN views = 1 .. Len(views) /\ ToSet(views) \subseteq ids
  BY <1>2 DEF ToSet
<1>8. Paired(G, buys, views, Len(views))
  BY <1>2, <1>7, AllPaired
<1>9. R = {p \in [buy : Waiting(views), by : ToSet(views)] :
              /\ p.by # p.buy /\ HeightOf(p.by) >= HeightOf(p.buy)
              /\ Hands(View(p.by), AsRead(p.buy))}
  BY <1>4, <1>7, PairsAre
<1>10. G \subseteq R
  BY <1>8 DEF Paired
<1>11. \A p \in R : /\ p.buy \in Waiting(views) /\ p.buy \in ToSet(views) /\ p.by \in ToSet(views)
                    /\ HeightOf(p.by) >= HeightOf(p.buy) /\ p.by # p.buy
                    /\ Hands(View(p.by), AsRead(p.buy)) /\ Fits(buys, views, p.buy, p.by)
  <2>1. \A p \in R : p \in [buy : ToSet(views), by : ToSet(views)] /\ Fits(buys, views, p.buy, p.by)
    OBVIOUS
  <2> HIDE DEF R
  <2> QED
    BY <1>9, <2>1
<1>12. \A x \in ToSet(views) : HeightOf(x) \in Nat /\ \E k \in 1 .. Len(views) : x = views[k]
  BY <1>2, <1>7 DEF ToSet, InChainOrder
<1>13. served = {p.buy : p \in G}
  <2>1. \A p \in G : p.buy \in Waiting(views)
    BY <1>10, <1>11
  <2> HIDE DEF G, R, served, of
  <2>2. Reading(ids, views, G, buys, done, rows)
    BY <1>4, <1>5, <1>6, <1>7, <2>1 DEF Reading
  <2>3. {id \in Waiting(views) : \E row \in rows :
             row.tx = id /\ row.trade.side = "buy" /\ ~row.trade.pending} = {p.buy : p \in G}
    BY <2>2, ServedAre
  <2> QED
    BY <1>3, <2>3 DEF served
<1>14. IsFiniteSet(served)
  <2>1. \A x \in ToSet(views) : \E n \in 1 .. Len(views) : views[n] = x
    BY <1>12
  <2>2. views \in Seq(ToSet(views))
    BY <1>2, <1>7 DEF ToSet
  <2>3. IsFiniteSet(ToSet(views))
    BY <2>1, <2>2 DEF IsFiniteSet
  <2>4. served \subseteq ToSet(views)
    BY DEF Waiting
  <2> QED
    BY <2>3, <2>4, FS_Subset
<1>15. Pairings(views) = {pairs \in SUBSET R : \A p, q \in pairs : p.buy = q.buy \/ p.by = q.by => p = q}
  BY <1>9 DEF Pairings
<1> HIDE DEF R, G, served
<1>16. G \in Pairings(views)
  BY <1>8, <1>10, <1>15 DEF Paired
<1>17. ASSUME NEW r \in R, r.by \notin {g.by : g \in G}
       PROVE  \E g \in G : g.buy = r.buy /\ HeightOf(g.by) <= HeightOf(r.by)
  <2>1. PICK k, i \in 1 .. Len(views) : r.buy = views[k] /\ r.by = views[i]
    BY <1>11, <1>12
  <2>2. PICK g \in G : \E j \in 1 .. i : g.buy = views[k] /\ g.by = views[j]
    BY <1>8, <1>11, <1>17, <2>1 DEF Paired
  <2>3. PICK j \in 1 .. i : g.buy = views[k] /\ g.by = views[j]
    BY <2>2
  <2>4. HeightOf(views[j]) <= HeightOf(views[i])
    <3>1. j \in 1 .. Len(views) /\ (j = i \/ j < i)
      BY <2>1, <2>3
    <3> QED
      BY <1>2, <2>1, <3>1 DEF InChainOrder
  <2> QED
    BY <2>1, <2>2, <2>3, <2>4
<1>18. ASSUME NEW p \in R, NEW q \in R, NEW r \in R, p.by = q.by, p.buy = r.buy,
              HeightOf(p.by) <= HeightOf(r.by)
       PROVE  \E s \in R : s.buy = q.buy /\ s.by = r.by
  <2> DEFINE b == q.buy
             other == p.buy
             c == p.by
             late == r.by
             s == [buy |-> b, by |-> late]
  <2>1. /\ b \in Waiting(views) /\ other \in Waiting(views) /\ b \in ToSet(views)
        /\ c \in ToSet(views) /\ late \in ToSet(views)
        /\ HeightOf(c) >= HeightOf(b) /\ HeightOf(c) <= HeightOf(late)
        /\ Hands(View(c), AsRead(b)) /\ Hands(View(c), AsRead(other)) /\ Hands(View(late), AsRead(other))
    BY <1>11, <1>18
  <2>2. s \in [buy : Waiting(views), by : ToSet(views)] /\ s.buy = b /\ s.by = late
    BY <2>1
  <2> HIDE DEF b, other, c, late, s
  <2>3. HeightOf(b) \in Nat /\ HeightOf(c) \in Nat /\ HeightOf(late) \in Nat
    BY <1>12, <2>1
  <2>4. late # b /\ HeightOf(late) >= HeightOf(b) /\ Hands(View(late), AsRead(b))
    BY <1>2, <1>7, <2>1, <2>3, SharedDeliveries
  <2>5. s \in R
    BY <1>9, <2>2, <2>4
  <2> QED
    BY <2>2, <2>5 DEF b, late
<1>19. ASSUME NEW pairs \in Pairings(views) PROVE Cardinality(pairs) <= Cardinality(served)
  <2>1. pairs \in SUBSET R /\ OneEach(pairs)
    BY <1>15 DEF OneEach
  <2>2. OneEach(G) /\ NothingLeft(G, R) /\ Shares(R)
    BY <1>8, <1>17, <1>18 DEF Paired, OneEach, NothingLeft, Shares
  <2>3. \A r \in R : HeightOf(r.by) \in Nat
    BY <1>11, <1>12
  <2> QED
    BY <1>10, <1>13, <1>14, <2>1, <2>2, <2>3, NoMorePairs
<1>20. (\E pairs \in Pairings(views) : served = {p.buy : p \in pairs})
       /\ \A pairs \in Pairings(views) : Cardinality(pairs) <= Cardinality(served)
  BY <1>13, <1>16, <1>19
<1> QED
  BY <1>20 DEF Matched, served, views, d

\* A step that makes a thread go from reading to learning is that reading.
LEMMA Next_Matched ==
    ASSUME TruthInv, Next, NEW t \in story.threads, th[t].pc = "read", th'[t].pc = "learn"
    PROVE  Matched(t)
<1>1. t \in DOMAIN th
  BY DEF TruthInv, DayInv, ThreadsOK
<1>2. th' # th
  OBVIOUS
<1>3. PICK o \in story.threads : PageBegins(o) \/ PageStep(o)
  BY <1>2 DEF Next, Broadcast, Mined, BlockIndexed, Midnight, CopiesAge, TodayFilled
<1>4. \E rec : Local(o, rec)
  BY <1>3 DEF PageBegins, PageStep, ReadsMempool, ServesMempool, ClassifiesMempool, MempoolRead,
              Pending, ChecksDay, ReadsDay, Sorted, Learns, WritesReserves, Searches, SearchEnds,
              NotesFound, JudgesSells, SellsJudged, SeeksFee, TriesSell, FeeFound, FeeNotFound,
              FeeSoughtInVain, JudgesRoutes, DayJudged, StoresDay, CountsDay, PageEnds, Put
<1>5. o = t
  <2>1. PICK rec : Local(o, rec)
    BY <1>4
  <2> QED
    BY <1>1, <2>1 DEF Local
<1>6. ReadsDay(t)
  BY <1>3, <1>5 DEF PageBegins, PageStep, ReadsMempool, ChecksDay, Learns, WritesReserves, Searches,
                   NotesFound, JudgesSells, SeeksFee, TriesSell, JudgesRoutes, StoresDay, CountsDay,
                   PageEnds, Step, At
<1> QED
  BY <1>6, ReadsDay_Matched

\* For any buys and deliveries of a day, each delivery to one buyer and of one
\* amount: taking the first that is left, buy after buy, serves as many buys
\* as any other way to give the deliveries out.
THEOREM Spec_DeliveriesMatched == Spec => DeliveriesMatched
<1> DEFINE A == \A t \in story.threads : th[t].pc = "read" /\ th'[t].pc = "learn" => Matched(t)
<1>1. TruthInv /\ [Next]_vars => [A]_vars
  BY Next_Matched
<1>2. DeliveriesMatched <=> [][A]_vars
  BY DEF DeliveriesMatched, Matched
<1> HIDE DEF A
<1> QED
  BY Init_TruthInv, Next_TruthInv, <1>1, <1>2, PTL DEF Spec

-----------------------------------------------------------------------------
(* The sells of a day.                                                     *)

\* Those of the first h blocks, whose markers were always stored.
DaySells(h, d) ==
    {s \in DOMAIN Txs \ story.unread :
        /\ LoneSellMemo(Txs[s])
        /\ \/ \E row \in ToSet(Txs[s].vin) \cup ToSet(Txs[s].vout) : row.addr \in Proceeds
           \/ RouteMemos(Txs[s]) # <<>>
        /\ \E k \in 1 .. h : s \in ToSet(chain[k].txs) /\ chain[k].day = d}

ShownIn(rows, s) == \E row \in rows : row.tx = s

\* Some buy that can be come upon teaches the reserve of an asset.
Taught(ids, asset) == \E b \in Findable(asset) \cap ToSet(ids) : Teaches(ids, b, asset)

\* The search may leave it out: it was cut short, it does not look at all, or
\* nothing teaches the reserve; and the reserve that is known may be another.
Excused(l, s) ==
    \/ SellAsset(s) \in l.unsought
    \/ ~AllSeen(SellAsset(s))
    \/ ~Taught(TxsUpTo(l.upto), SellAsset(s))
    \/ ~Recognized(s)

\* Its reserve is known, or will be sought, or was just found.
Awaited(l, s) ==
    \/ LearnedFor(SellAsset(s), l.res) # {}
    \/ SellAsset(s) \in l.needed
    \/ l.pc = "found" /\ l.asset = SellAsset(s) /\ l.found # NoAddr

\* A pass has shown each sell of its day, will judge it again with a reserve,
\* or may leave it out.
SellsOK(l) ==
    /\ l.pc \in Assembling \cup {"store"} =>
          {"upto", "unsought"} \subseteq DOMAIN l /\ l.upto \in 0 .. height
    /\ l.pc \in {"seek", "found"} => "needed" \in DOMAIN l
    /\ l.pc = "learn" =>
          \A s \in DaySells(l.upto, l.moment) : ShownIn(l.rows, s) \/ s \in l.retry
    /\ l.pc \in {"seek", "found"} /\ l.phase = "retry" =>
          \A s \in DaySells(l.upto, l.moment) :
             ShownIn(l.rows, s) \/ (s \in l.retry /\ (Awaited(l, s) \/ Excused(l, s)))
    /\ l.pc = "store" \/ (l.pc \in {"seek", "found"} /\ l.phase # "retry") =>
          \A s \in DaySells(l.upto, l.moment) : ShownIn(l.rows, s) \/ Excused(l, s)

SellsInv == TruthInv /\ BlockWise(unread) /\ \A t \in story.threads : SellsOK(th[t])

-----------------------------------------------------------------------------
(* Which they are does not change.                                         *)

\* What a day's reading gives has them all, and no others.
LEMMA SellsRead ==
    ASSUME ChainOK, BlockWise(unread), NEW h \in 0 .. Len(chain), NEW d
    PROVE  /\ XL1Sells(DayViews(h, d)) \subseteq DaySells(h, d)
           /\ DaySells(h, d) \subseteq DayTxs(h, d)
           /\ \A s \in DaySells(h, d) : s \in DOMAIN Txs /\ View(s) = Txs[s]
<1>1. \A s : s \notin story.unread => View(s) = Txs[s]
  BY DEF View, BlockWise
<1>2. ASSUME NEW s, NEW k \in 1 .. h, s \in ToSet(chain[k].txs)
      PROVE  s \in DOMAIN Txs /\ DayOf(s) = chain[k].day
  <2>1. k \in DOMAIN chain /\ s \in DOMAIN Txs
    BY <1>2, IndexHolds
  <2>2. HeightOf(s) = k
    BY <1>2, <2>1, HeightIs
  <2> QED
    BY <2>1, <2>2 DEF DayOf
<1>3. ASSUME NEW s \in XL1Sells(DayViews(h, d)) PROVE s \in DaySells(h, d)
  <2>1. /\ s \in ToSet(DayViews(h, d)) /\ s \notin story.unread
        /\ LoneSellMemo(Txs[s])
    BY DEF XL1Sells
  <2>2. s \in DayTxs(h, d)
    BY <2>1, DayViewsAre DEF ToSet
  <2>3. PICK k \in 1 .. h : s \in ToSet(chain[k].txs)
    BY <2>2 DEF DayTxs
  <2> QED
    BY <1>1, <1>2, <2>1, <2>2, <2>3 DEF DayTxs, DaySells
<1>4. ASSUME NEW s \in DaySells(h, d) PROVE s \in DayTxs(h, d)
  <2>1. PICK k \in 1 .. h : s \in ToSet(chain[k].txs) /\ chain[k].day = d
    BY DEF DaySells
  <2> QED
    BY <1>1, <1>2, <2>1 DEF DayTxs, DaySells
<1> QED
  BY <1>1, <1>3, <1>4 DEF DaySells

LEMMA IndexStays ==
    ASSUME Grows, NEW h \in 0 .. height
    PROVE  /\ TxsUpTo(h)' = TxsUpTo(h) /\ h \in 0 .. Len(chain) /\ h \in 0 .. height'
           /\ \A d : DaySells(h, d)' = DaySells(h, d)
           /\ \A id \in ToSet(TxsUpTo(h)) \cup story.unread : HeightOf(id)' = HeightOf(id)
<1>1. /\ Len(chain) \in Nat /\ height \in 0 .. Len(chain) /\ height' \in Nat /\ height <= height'
  BY DEF Grows, ChainOK
<1>2. h \in 0 .. Len(chain) /\ h \in 0 .. height'
  BY <1>1
<1>3. \A k \in 1 .. h : k \in DOMAIN chain /\ chain'[k] = chain[k]
  BY <1>2, IndexHolds DEF Grows
<1>4. TxsUpTo(h)' = TxsUpTo(h)
  BY <1>3 DEF TxsUpTo
<1>5. ASSUME NEW d PROVE DaySells(h, d)' = DaySells(h, d)
  BY <1>3 DEF DaySells, Grows
<1>6. ASSUME NEW id \in ToSet(TxsUpTo(h)) PROVE HeightOf(id)' = HeightOf(id)
  <2>1. PICK k \in 1 .. h : id \in ToSet(chain[k].txs)
    BY <1>2, IndexHolds DEF Grows
  <2> QED
    BY <1>3, <2>1, HeightsStay
<1>7. ASSUME NEW id \in story.unread PROVE HeightOf(id)' = HeightOf(id)
  BY UnreadPlaces, HeightsStay DEF Grows
<1> QED
  BY <1>2, <1>4, <1>5, <1>6, <1>7

LEMMA BlocksStay ==
    ASSUME Grows, NEW old, BlockWise(old) PROVE BlockWise(old)'
<1>1. \A u \in story.unread : HeightOf(u)' = HeightOf(u)
  <2>1. 0 \in 0 .. height
    BY DEF Grows, ChainOK
  <2> QED
    BY <2>1, IndexStays
<1> QED
  BY <1>1 DEF BlockWise, Grows

\* What the first blocks teach, they taught before.
LEMMA TaughtBefore ==
    ASSUME Grows, NEW h \in 0 .. height, NEW asset, Taught(TxsUpTo(h), asset)'
    PROVE  Taught(TxsUpTo(h), asset)
<1> DEFINE ids == TxsUpTo(h)
<1>1. /\ ids' = ids
      /\ \A id \in ToSet(ids) \cup story.unread : HeightOf(id)' = HeightOf(id)
  BY IndexStays
<1>2. story' = story
  BY DEF Grows
<1>3. Taught(ids, asset)'
  OBVIOUS
<1> HIDE DEF ids
<1>4. PICK b \in (Findable(asset) \cap ToSet(ids))' : Teaches(ids, b, asset)'
  BY <1>3 DEF Taught
<1>5. /\ b \in DOMAIN Txs /\ MarkedWith(b, "buy", AliasOf[asset])
      /\ b \in story.unread => \E u \in story.unread : HeightOf(u)' = HeightOf(b)' /\ Touches(u, asset)
  BY <1>2, <1>4 DEF Findable
<1>6. b \in Findable(asset) /\ b \in ToSet(ids)
  BY <1>1, <1>4, <1>5 DEF Findable
<1>7. \A k \in DOMAIN ids : ids[k] \in ToSet(ids)
  BY DEF ToSet
<1>8. DeliveredAmong(ids, BuyOf[b], b)' => DeliveredAmong(ids, BuyOf[b], b)
  BY <1>1, <1>6, <1>7 DEF DeliveredAmong
<1>9. Teaches(ids, b, asset)
  BY <1>4, <1>8 DEF Teaches
<1>10. Taught(ids, asset)
  BY <1>6, <1>9 DEF Taught
<1> QED
  BY <1>10 DEF ids

\* What carries the markers of an asset is finite, and does not get less.
LEMMA MarkedFinite ==
    ASSUME ChainOK, NEW n, NEW skipped
    PROVE  IsFiniteSet(BuysMarked(n, skipped))
<1>1. height \in 0 .. Len(chain)
  BY DEF ChainOK
<1>2. TxsUpTo(height) \in Seq(DOMAIN Txs)
  BY <1>1, IndexHolds
<1>3. IsFiniteSet(InIndex)
  <2> DEFINE ids == TxsUpTo(height)
  <2>1. Len(ids) \in Nat /\ DOMAIN ids = 1 .. Len(ids)
    BY <1>2
  <2> HIDE DEF ids
  <2>2. ids \in Seq(ToSet(ids)) /\ \A x \in ToSet(ids) : \E k \in 1 .. Len(ids) : ids[k] = x
    <3>1. ids = [k \in 1 .. Len(ids) |-> ids[k]]
      BY <1>2 DEF ids
    <3>2. \A k \in 1 .. Len(ids) : ids[k] \in ToSet(ids)
      BY <2>1 DEF ToSet
    <3>3. ids \in Seq(ToSet(ids))
      BY <2>1, <3>1, <3>2
    <3> QED
      BY <2>1, <3>3 DEF ToSet
  <2>3. IsFiniteSet(ToSet(ids))
    BY <2>2 DEF IsFiniteSet
  <2> QED
    BY <2>3 DEF InIndex, ids
<1>4. BuysMarked(n, skipped) \subseteq InIndex
  BY DEF BuysMarked
<1> QED
  BY <1>3, <1>4, FS_Subset

AllMarkedFinite == ChainOK => \A n : IsFiniteSet(BuysMarked(n, {}))
LEMMA AllAreFinite == AllMarkedFinite
  BY MarkedFinite DEF AllMarkedFinite

LEMMA SeenBefore ==
    ASSUME Grows, NEW asset, AllSeen(asset)' PROVE AllSeen(asset)
<1>1. ASSUME NEW n \in AliasOf[asset] PROVE Cardinality(BuysMarked(n, {})) <= MarkLimit
  <2> DEFINE now == BuysMarked(n, {})
             then == BuysMarked(n, {})'
  <2>1. now \subseteq then
    BY IndexGrows DEF BuysMarked
  <2>2. IsFiniteSet(then)
    <3>1. AllMarkedFinite'
      BY AllAreFinite, PTL
    <3> QED
      BY <3>1 DEF AllMarkedFinite, Grows
  <2>3. Cardinality(then) <= MarkLimit
    BY <1>1 DEF AllSeen
  <2> HIDE DEF now, then
  <2>4. /\ Cardinality(now) <= Cardinality(then)
        /\ Cardinality(now) \in Nat /\ Cardinality(then) \in Nat
    BY <2>1, <2>2, FS_Subset, FS_CardinalityType
  <2>5. Cardinality(now) <= MarkLimit
    BY <2>3, <2>4, LimitsAssumption
  <2> QED
    BY <2>5 DEF now
<1> QED
  BY <1>1 DEF AllSeen

LEMMA ExcuseStays ==
    ASSUME Grows, NEW l, l.upto \in 0 .. height, NEW s, Excused(l, s) PROVE Excused(l, s)'
<1> DEFINE asset == SellAsset(s)
<1>1. Taught(TxsUpTo(l.upto), asset)' => Taught(TxsUpTo(l.upto), asset)
  BY TaughtBefore
<1>2. AllSeen(asset)' => AllSeen(asset)
  BY SeenBefore
<1>3. Recognized(s)' => Recognized(s)
  <2>1. KnownBy(VerifiedBuys) \subseteq KnownBy(VerifiedBuys')
    BY TheyGrow DEF Known
  <2> QED
    BY <2>1 DEF Recognized
<1> QED
  BY <1>1, <1>2, <1>3 DEF Excused

LEMMA SellsStay ==
    ASSUME Grows, NEW l, SellsOK(l) PROVE SellsOK(l)'
<1>1. CASE l.pc \notin Assembling \cup {"store"}
  BY <1>1 DEF SellsOK, Assembling
<1>2. CASE l.pc \in Assembling \cup {"store"}
  <2>1. l.upto \in 0 .. height
    BY <1>2 DEF SellsOK
  <2>2. l.upto \in 0 .. height' /\ DaySells(l.upto, l.moment)' = DaySells(l.upto, l.moment)
    BY <2>1, IndexStays
  <2>3. \A s : Excused(l, s) => Excused(l, s)'
    BY <2>1, ExcuseStays
  <2>4. \A s : Awaited(l, s) => Awaited(l, s)'
    BY DEF Awaited, SellAsset
  <2> QED
    BY <1>2, <2>2, <2>3, <2>4 DEF SellsOK, ShownIn
<1> QED
  BY <1>1, <1>2

-----------------------------------------------------------------------------
(* What a search finds.                                                    *)

\* What teaches among the first blocks teaches among all.
LEMMA TeachesStill ==
    ASSUME ChainOK, NEW h \in 0 .. height, NEW id, NEW asset, Teaches(TxsUpTo(h), id, asset)
    PROVE  Teaches(TxsUpTo(height), id, asset)
<1> DEFINE few == TxsUpTo(h)
           all == TxsUpTo(height)
           some == [i \in 1 .. h |-> chain[i].txs]
           each == [i \in 1 .. height |-> chain[i].txs]
<1>1. Len(chain) \in Nat /\ height \in 0 .. Len(chain) /\ h \in 0 .. Len(chain) /\ h <= height
  BY DEF ChainOK
<1>2. \A i \in 1 .. height : chain[i].txs \in Seq(DOMAIN Txs)
  <2> TAKE i \in 1 .. height
  <2> DEFINE Blocks == [day : Nat, txs : Seq(DOMAIN Txs)]
  <2>1. chain \in Seq(Blocks)
    BY DEF ChainOK
  <2> HIDE DEF Blocks
  <2>2. chain[i] \in Blocks
    BY <1>1, <2>1
  <2> QED
    BY <2>2 DEF Blocks
<1>3. some \in Seq(Seq(DOMAIN Txs)) /\ each \in Seq(Seq(DOMAIN Txs)) /\ Begins(some, each)
  BY <1>1, <1>2 DEF Begins
<1>4. few = FlattenSeq(some) /\ all = FlattenSeq(each)
  BY DEF TxsUpTo
<1>5. few \in Seq(DOMAIN Txs) /\ all \in Seq(DOMAIN Txs)
  BY <1>1, IndexHolds
<1> HIDE DEF few, all, some, each
<1>6. Begins(few, all)
  BY <1>3, <1>4, FlattenBegins
<1>7. \A k \in DOMAIN few : /\ k \in DOMAIN all /\ few[k] = all[k]
                            /\ \A j \in 1 .. k - 1 : few[j] = all[j]
  BY <1>5, <1>6 DEF Begins
<1>8. DeliveredAmong(few, BuyOf[id], id) => DeliveredAmong(all, BuyOf[id], id)
  <2> SUFFICES ASSUME DeliveredAmong(few, BuyOf[id], id) PROVE DeliveredAmong(all, BuyOf[id], id)
    OBVIOUS
  <2> DEFINE rows(ids, k) == UNION {{j} \X DeliveryRows(Txs[ids[j]], BuyOf[id]) : j \in 1 .. k - 1}
  <2>1. PICK k \in DOMAIN few :
           /\ DeliveryRows(Txs[few[k]], BuyOf[id]) # {} /\ Cardinality(rows(few, k)) < DeliveryLimit
           /\ few[k] # id /\ HeightOf(few[k]) >= HeightOf(id)
    BY DEF DeliveredAmong
  <2>2. rows(few, k) = rows(all, k)
    BY <1>7
  <2> HIDE DEF rows
  <2>3. /\ k \in DOMAIN all /\ DeliveryRows(Txs[all[k]], BuyOf[id]) # {}
        /\ Cardinality(rows(all, k)) < DeliveryLimit
        /\ all[k] # id /\ HeightOf(all[k]) >= HeightOf(id)
    BY <1>7, <2>1, <2>2
  <2> QED
    BY <2>3 DEF DeliveredAmong, rows
<1>9. Teaches(few, id, asset)
  BY DEF few
<1>10. Teaches(all, id, asset)
  BY <1>8, <1>9 DEF Teaches
<1> QED
  BY <1>10 DEF all

\* What is looked at is all there is, if the limit allows it.
LEMMA SeesAll ==
    ASSUME ChainOK, NEW asset, AllSeen(asset), NEW skipped, NEW seen \in Seen(asset, skipped),
           NEW n \in AliasOf[asset], NEW b \in BuysMarked(n, skipped)
    PROVE  b \in seen
<1> DEFINE limited(m) == Limited(BuysMarked(m, skipped))
           picks == [AliasOf[asset] -> UNION {limited(m) : m \in AliasOf[asset]}]
<1>1. PICK pick \in picks : seen = UNION Range(pick) /\ \A m \in AliasOf[asset] : pick[m] \in limited(m)
  BY DEF Seen
<1>2. limited(n) = {BuysMarked(n, skipped)}
  <2> DEFINE some == BuysMarked(n, skipped)
             all == BuysMarked(n, {})
  <2>1. some \subseteq all /\ IsFiniteSet(all) /\ Cardinality(all) <= MarkLimit
    BY MarkedFinite DEF BuysMarked, AllSeen
  <2> HIDE DEF some, all
  <2>2. Cardinality(some) <= Cardinality(all) /\ Cardinality(some) \in Nat /\ Cardinality(all) \in Nat
    BY <2>1, FS_Subset, FS_CardinalityType
  <2>3. Cardinality(some) <= MarkLimit
    BY <2>1, <2>2, LimitsAssumption
  <2> QED
    BY <2>3 DEF Limited, some
<1>3. pick[n] = BuysMarked(n, skipped) /\ n \in DOMAIN pick
  BY <1>1, <1>2
<1>4. pick[n] \in Range(pick)
  BY <1>3 DEF Range
<1> QED
  BY <1>1, <1>3, <1>4

\* When a search that skips none of the blocks in question fails, though it
\* looks at all, nothing teaches the reserve.
LEMMA SearchFails ==
    ASSUME ChainOK, NEW h \in 0 .. height, NEW asset, NEW skipped, BlockWise(skipped),
           \A id \in skipped : ~Touches(id, asset), AllSeen(asset),
           NEW seen \in Seen(asset, skipped), ReserveFromIndex(asset, seen) = NoAddr
    PROVE  ~Taught(TxsUpTo(h), asset)
<1> DEFINE ids == TxsUpTo(height)
           teaching == {i \in DOMAIN ids : ids[i] \in seen /\ Teaches(ids, ids[i], asset)}
           first == CHOOSE i \in FirstOf(teaching) : TRUE
<1>1. ReserveFromIndex(asset, seen) = IF teaching = {} THEN NoAddr ELSE BuyOf[ids[first]].reserve
  BY DEF ReserveFromIndex
<1>2. height \in 0 .. Len(chain) /\ h \in 0 .. Len(chain) /\ \A k \in 1 .. h : k \in 1 .. height
  BY DEF ChainOK
<1>3. ids \in Seq(DOMAIN Txs)
  BY <1>2, IndexHolds
<1>4. teaching = {}
  <2> SUFFICES ASSUME teaching # {} PROVE FALSE
    OBVIOUS
  <2>1. teaching \subseteq Nat
    BY <1>3
  <2>2. \E m \in teaching : \A k \in teaching : m <= k
    BY <2>1, LeastNumber
  <2>3. first \in teaching
    <3> HIDE DEF teaching
    <3> QED
      BY <2>2 DEF FirstOf
  <2>4. Teaches(ids, ids[first], asset)
    BY <2>3
  <2> HIDE DEF first, teaching, ids
  <2>5. BuyOf[ids[first]].reserve # NoAddr
    BY <2>4 DEF Teaches
  <2> QED
    BY <1>1, <2>5
<1> SUFFICES ASSUME NEW b \in Findable(asset) \cap ToSet(TxsUpTo(h)), Teaches(TxsUpTo(h), b, asset)
             PROVE  FALSE
  BY DEF Taught
<1>5. Teaches(ids, b, asset)
  BY TeachesStill
<1>6. b \in ToSet(ids)
  BY <1>2, IndexHolds
<1>7. b \notin skipped
  <2> SUFFICES ASSUME b \in skipped PROVE FALSE
    OBVIOUS
  <2>1. b \in story.unread
    BY DEF BlockWise
  <2>2. PICK u \in story.unread : HeightOf(u) = HeightOf(b) /\ Touches(u, asset)
    BY <2>1 DEF Findable
  <2>3. u \in skipped
    BY <2>1, <2>2 DEF BlockWise
  <2> QED
    BY <2>2, <2>3
<1>8. \E n \in AliasOf[asset] : b \in BuysMarked(n, skipped)
  <2>1. b \in InIndex \ skipped /\ MarkedWith(b, "buy", AliasOf[asset])
    BY <1>6, <1>7 DEF InIndex, Findable
  <2> QED
    BY <2>1 DEF MarkedWith, BuysMarked
<1>9. b \in seen
  BY <1>8, SeesAll
<1>10. PICK i \in DOMAIN ids : b = ids[i]
  BY <1>6 DEF ToSet
<1> QED
  BY <1>4, <1>5, <1>9, <1>10

\* A sell whose reserve is known is found when it is judged.
LEMMA SellJudged ==
    ASSUME NEW ids, NEW s \in ids, Recognized(s), NEW res \in Known, LearnedFor(SellAsset(s), res) # {}
    PROVE  ShownIn(Judged(ids, res, {}), s)
<1> DEFINE row == Row(s, Classify(Txs[s], res, {}), 0)
<1>1. Classify(Txs[s], res, {}).side = "sell"
  BY DEF Recognized, Known
<1>2. row \in Judged(ids, res, {}) /\ row.tx = s
  BY <1>1 DEF Judged, Row
<1> QED
  BY <1>2 DEF ShownIn

-----------------------------------------------------------------------------
(* Each sell is shown, awaited or excused, at every step.                  *)

LEMMA SellsInv_SellsComplete == SellsInv => SellsComplete
<1> SUFFICES ASSUME SellsInv, NEW t \in story.threads, th[t].pc = "store",
                    NEW s \in XL1Sells(DayViews(th[t].upto, th[t].moment)),
                    Taught(TxsUpTo(th[t].upto), SellAsset(s)), AllSeen(SellAsset(s)),
                    SellAsset(s) \notin th[t].unsought
             PROVE  \E row \in th[t].rows : row.tx = s
  BY DEF SellsComplete, Taught
<1>1. SellsOK(th[t]) /\ ChainOK /\ BlockWise(unread)
  BY DEF SellsInv, TruthInv, DayInv
<1>2. th[t].upto \in 0 .. Len(chain)
  BY <1>1 DEF SellsOK, ChainOK
<1>3. s \in DaySells(th[t].upto, th[t].moment)
  BY <1>1, <1>2, SellsRead
<1>4. ShownIn(th[t].rows, s) \/ Excused(th[t], s)
  BY <1>1, <1>3 DEF SellsOK
<1>5. Recognized(s)
  BY DEF XL1Sells
<1> QED
  BY <1>4, <1>5 DEF ShownIn, Excused

LEMMA Init_SellsInv == Init => SellsInv
<1> SUFFICES ASSUME Init PROVE SellsInv
  OBVIOUS
<1>1. TruthInv
  BY Init_TruthInv
<1>2. BlockWise(unread)
  BY DEF Init, BlockWise
<1>3. \A t \in story.threads : th[t].pc = "idle"
  BY DEF Init, Idle
<1>4. \A t \in story.threads : SellsOK(th[t])
  BY <1>3 DEF SellsOK, Assembling
<1> QED
  BY <1>1, <1>2, <1>4 DEF SellsInv

\* The world moves.
LEMMA World_SellsInv ==
    ASSUME SellsInv, TruthInv',
           Broadcast \/ Mined \/ BlockIndexed \/ Midnight \/ CopiesAge \/ TodayFilled \/ UNCHANGED vars
    PROVE  SellsInv'
<1>1. Grows /\ UNCHANGED <<story, th>>
  <2>1. Grows
    BY WorldGrows DEF SellsInv, TruthInv
  <2> QED
    BY <2>1 DEF Broadcast, Mined, BlockIndexed, Midnight, CopiesAge, TodayFilled, vars, nodeVars
<1>2. BlockWise(unread)'
  <2>1. CASE UNCHANGED unread
    <3>1. BlockWise(unread) => BlockWise(unread)'
      <4>1. ASSUME NEW old, BlockWise(old) PROVE BlockWise(old)'
        BY <1>1, <4>1, BlocksStay
      <4> QED
        BY <2>1, <4>1
    <3> QED
      BY <3>1 DEF SellsInv
  <2>2. CASE TodayFilled
    <3>1. PICK skipped :
            unread' = {id \in unread : DayOf(id) # day \/ HeightOf(id) \in skipped}
      BY <2>2 DEF TodayFilled
    <3>2. UNCHANGED <<story, chain>> /\ BlockWise(unread)
      BY <2>2 DEF TodayFilled, nodeVars, SellsInv
    <3>3. \A u, v : HeightOf(u) = HeightOf(v) => DayOf(u) = DayOf(v)
      BY DEF DayOf
    <3>4. \A u : HeightOf(u)' = HeightOf(u)
      BY <3>2 DEF HeightOf
    <3> QED
      BY <3>1, <3>2, <3>3, <3>4 DEF BlockWise
  <2> QED
    BY <2>1, <2>2 DEF Broadcast, Mined, BlockIndexed, Midnight, CopiesAge, vars, dbVars
<1>3. ASSUME NEW l, SellsOK(l) PROVE SellsOK(l)'
  BY <1>1, <1>3, SellsStay
<1> QED
  BY <1>1, <1>2, <1>3 DEF SellsInv

\* A thread moves.
LEMMA SellsMove ==
    ASSUME SellsInv, TruthInv', NEW t \in story.threads, NEW rec, UNCHANGED nodeVars,
           Local(t, rec), SellsOK(rec), BlockWise(unread')
    PROVE  SellsInv'
<1>1. UNCHANGED <<story, chain, height>>
  BY DEF nodeVars
<1>2. /\ th'[t] = rec
      /\ \A u \in story.threads : u # t => th'[u] = th[u]
  BY DEF SellsInv, TruthInv, DayInv, ThreadsOK, Local
<1>3. ASSUME NEW u \in story.threads PROVE SellsOK(th'[u])
  BY <1>2 DEF SellsInv
<1>4. BlockWise(unread)'
  BY <1>1 DEF BlockWise, HeightOf
<1>5. \A u \in story.threads : SellsOK(th[u])'
  <2>1. /\ \A h, d : DaySells(h, d)' = DaySells(h, d)
        /\ \A rows, s : ShownIn(rows, s)' = ShownIn(rows, s)
    BY <1>1 DEF DaySells, ShownIn
  <2>2. /\ \A ids, asset : Taught(ids, asset)' = Taught(ids, asset)
        /\ \A h : TxsUpTo(h)' = TxsUpTo(h)
    <3>1. \A id : HeightOf(id)' = HeightOf(id)
      BY <1>1 DEF HeightOf
    <3>2. \A ids, buy, id : DeliveredAmong(ids, buy, id)' = DeliveredAmong(ids, buy, id)
      BY <3>1 DEF DeliveredAmong
    <3>3. /\ \A ids, id, asset : Teaches(ids, id, asset)' = Teaches(ids, id, asset)
          /\ \A asset : Findable(asset)' = Findable(asset)
      BY <1>1, <3>1, <3>2 DEF Teaches, Findable
    <3> QED
      BY <1>1, <3>3 DEF Taught, TxsUpTo
  <2>3. /\ \A asset : AllSeen(asset)' = AllSeen(asset)
        /\ \A s : Recognized(s)' = Recognized(s)
    <3>1. VerifiedBuys' = VerifiedBuys /\ InIndex' = InIndex
      BY TheyStay
    <3> QED
      BY <3>1 DEF AllSeen, BuysMarked, Recognized
  <2>4. \A l, s : /\ Excused(l, s)' = Excused(l, s)
                  /\ Awaited(l, s)' = Awaited(l, s)
    BY <2>2, <2>3 DEF Excused, Awaited
  <2> QED
    BY <1>1, <1>3, <2>1, <2>4 DEF SellsOK
<1> QED
  BY <1>1, <1>4, <1>5 DEF SellsInv

\* Before a day is read, and once it is stored, there is nothing to show.
LEMMA SellsIdle ==
    ASSUME SellsInv, TruthInv', NEW t \in story.threads,
           PageBegins(t) \/ ReadsMempool(t) \/ ChecksDay(t) \/ StoresDay(t) \/ CountsDay(t) \/ PageEnds(t)
    PROVE  SellsInv'
<1>1. /\ UNCHANGED <<nodeVars, unread>>
      /\ \E rec : Local(t, rec) /\ rec.pc \notin Assembling \cup {"store"}
  <2>1. CASE PageBegins(t)
    BY <2>1 DEF PageBegins, dbVars, Assembling
  <2>2. CASE ReadsMempool(t)
    <3>1. UNCHANGED <<nodeVars, unread>> /\ \E rows : Pending(t, rows)
      BY <2>2 DEF ReadsMempool, ServesMempool, ClassifiesMempool, MempoolRead, dbVars
    <3> QED
      BY <3>1 DEF Pending, Assembling
  <2>3. CASE ChecksDay(t)
    <3>1. \E pc \in {"merge", "read"} : \E rows :
             Local(t, [pc |-> pc, moment |-> th[t].moment, pending |-> th[t].pending, rows |-> rows])
      BY <2>3 DEF ChecksDay
    <3> QED
      BY <2>3, <3>1 DEF ChecksDay, dbVars, Assembling
  <2>4. CASE StoresDay(t)
    BY <2>4 DEF StoresDay, dbVars, Assembling
  <2>5. CASE CountsDay(t) \/ PageEnds(t)
    BY <2>5 DEF CountsDay, PageEnds, dbVars, Assembling, Idle
  <2> QED
    BY <2>1, <2>2, <2>3, <2>4, <2>5
<1>2. PICK rec : Local(t, rec) /\ rec.pc \notin Assembling \cup {"store"}
  BY <1>1
<1>3. SellsOK(rec)
  BY <1>2 DEF SellsOK, Assembling
<1>4. BlockWise(unread')
  BY <1>1 DEF SellsInv
<1> QED
  BY <1>1, <1>2, <1>3, <1>4, SellsMove

\* What a day's reading does not show is judged again.
LEMMA ReadsDay_Sells ==
    ASSUME SellsInv, TruthInv', NEW t \in story.threads, ReadsDay(t) PROVE SellsInv'
<1> DEFINE d    == th[t].moment
           base == [id \in DayTxs(height, d) |-> Classify(View(id), LoadReserves, feeTable)]
           ids(side) == {id \in DOMAIN base : base[id].side = side}
           done == Delivered([id \in ids("buy") |-> base[id]], DayViews(height, d))
           rows == {Row(id, done[id], 0) : id \in ids("buy")}
                      \cup {Row(id, base[id], 0) : id \in ids("sell")}
           retry == {id \in ids("none") : LoneSellMemo(View(id))}
           routes == {id \in ids("none") : ~LoneSellMemo(View(id)) /\ RouteMemos(View(id)) # <<>>}
           new == [pc |-> "learn", upto |-> height, res |-> LoadReserves, fees |-> feeTable,
                   unsought |-> {}, rows |-> rows, retry |-> retry, routes |-> routes]
           rec == Updated(th[t], new)
<1>1. UNCHANGED <<nodeVars, unread>> /\ th[t].pc = "read" /\ Local(t, rec)
  BY DEF ReadsDay, Sorted, Put, Step, dbVars
<1>2. ChainOK /\ BlockWise(unread) /\ height \in 0 .. height /\ height \in 0 .. Len(chain)
  BY DEF SellsInv, TruthInv, DayInv, ChainOK
<1>3. ASSUME NEW s \in DaySells(height, d) PROVE ShownIn(rows, s) \/ s \in retry
  <2>1. /\ s \in DayTxs(height, d) /\ s \in DOMAIN Txs /\ View(s) = Txs[s]
        /\ LoneSellMemo(View(s)) /\ FillMemos(View(s)) # <<>>
    BY <1>2, SellsRead DEF DaySells, LoneSellMemo
  <2>2. base[s] = Classify(View(s), LoadReserves, feeTable) /\ s \in DOMAIN base
    BY <2>1
  <2>3. base[s].side \in {"none", "buy", "sell"}
    BY <2>1, <2>2, ClassifyMade
  <2>4. CASE base[s].side = "none"
    <3> HIDE DEF base
    <3> QED
      BY <2>1, <2>2, <2>4
  <2> HIDE DEF base, done
  <2>5. CASE base[s].side = "sell"
    <3>1. Row(s, base[s], 0) \in rows
      BY <2>2, <2>5
    <3>2. Row(s, base[s], 0).tx = s
      BY DEF Row
    <3> QED
      BY <3>1, <3>2 DEF ShownIn
  <2>6. CASE base[s].side = "buy"
    <3>1. Row(s, done[s], 0) \in rows
      BY <2>2, <2>6
    <3>2. Row(s, done[s], 0).tx = s
      BY DEF Row
    <3> QED
      BY <3>1, <3>2 DEF ShownIn
  <2> QED
    BY <2>3, <2>4, <2>5, <2>6
<1> HIDE DEF rows, retry, routes
<1>4. /\ DOMAIN new = {"pc", "upto", "res", "fees", "unsought", "rows", "retry", "routes"}
      /\ new.pc = "learn" /\ new.rows = rows /\ new.retry = retry /\ new.upto = height
  OBVIOUS
<1> HIDE DEF new
<1>5. "moment" \in DOMAIN th[t]
  BY <1>1 DEF SellsInv, TruthInv, DayInv, ThreadsOK, LocalsOK
<1>6. /\ DOMAIN rec = DOMAIN th[t] \cup DOMAIN new
      /\ \A f \in DOMAIN new : rec[f] = new[f]
      /\ \A f \in DOMAIN th[t] \ DOMAIN new : rec[f] = th[t][f]
  BY UpdatedLocals
<1> HIDE DEF rec
<1>7. /\ rec.pc = "learn" /\ rec.rows = rows /\ rec.retry = retry /\ rec.upto = height
      /\ rec.moment = d /\ {"upto", "unsought"} \subseteq DOMAIN rec
  BY <1>4, <1>5, <1>6
<1>8. SellsOK(rec)
  BY <1>2, <1>3, <1>7 DEF SellsOK
<1>9. BlockWise(unread')
  BY <1>1, <1>2
<1> QED
  BY <1>1, <1>8, <1>9, SellsMove

\* What a pass keeps of the sells from one step to the next.
KeepsSells(l, k) ==
    /\ {"upto", "unsought"} \subseteq DOMAIN k /\ k.upto = l.upto /\ k.moment = l.moment
    /\ l.unsought \subseteq k.unsought
    /\ \A s : ShownIn(l.rows, s) => ShownIn(k.rows, s)

LEMMA ExcusesKept ==
    ASSUME NEW l, NEW k, KeepsSells(l, k), NEW s, Excused(l, s) PROVE Excused(k, s)
  BY DEF KeepsSells, Excused

\* Once the sells were judged again.
LEMMA JudgedSellsKept ==
    ASSUME NEW l, NEW k, SellsOK(l), KeepsSells(l, k),
           l.pc = "store" \/ (l.pc \in {"seek", "found"} /\ l.phase # "retry"),
           k.pc = "store" \/ (k.pc \in {"seek", "found"} /\ k.phase # "retry" /\ "needed" \in DOMAIN k)
    PROVE  SellsOK(k)
<1>1. l.upto \in 0 .. height
  BY DEF SellsOK, Assembling
<1>2. \A s \in DaySells(l.upto, l.moment) : ShownIn(l.rows, s) \/ Excused(l, s)
  BY DEF SellsOK
<1>3. \A s \in DaySells(k.upto, k.moment) : ShownIn(k.rows, s) \/ Excused(k, s)
  BY <1>2, ExcusesKept DEF KeepsSells
<1> QED
  BY <1>1, <1>3 DEF SellsOK, KeepsSells

\* Before they are.
LEMMA AwaitedSellsKept ==
    ASSUME NEW l, NEW k, SellsOK(l), KeepsSells(l, k),
           l.pc \in {"seek", "found"}, l.phase = "retry",
           k.pc \in {"seek", "found"}, k.phase = "retry", "needed" \in DOMAIN k, k.retry = l.retry,
           \A s \in l.retry : Awaited(l, s) => Awaited(k, s) \/ Excused(k, s)
    PROVE  SellsOK(k)
<1>1. l.upto \in 0 .. height
  BY DEF SellsOK, Assembling
<1>2. \A s \in DaySells(l.upto, l.moment) :
        ShownIn(l.rows, s) \/ (s \in l.retry /\ (Awaited(l, s) \/ Excused(l, s)))
  BY DEF SellsOK
<1>3. \A s \in DaySells(k.upto, k.moment) :
        ShownIn(k.rows, s) \/ (s \in k.retry /\ (Awaited(k, s) \/ Excused(k, s)))
  BY <1>2, ExcusesKept DEF KeepsSells
<1> QED
  BY <1>1, <1>3 DEF SellsOK, KeepsSells

\* The fields that a thread which assembles a day has.
LEMMA PassHas ==
    ASSUME SellsInv, NEW t \in story.threads, th[t].pc \in Assembling
    PROVE  /\ {"pc", "moment", "rows", "retry", "routes", "res", "fees", "upto", "unsought"}
                  \subseteq DOMAIN th[t]
           /\ AssemblyOK(th[t]) /\ SellsOK(th[t]) /\ th[t].upto \in 0 .. height
           /\ th[t].pc # "learn" => {"phase", "new", "needed"} \subseteq DOMAIN th[t]
           /\ th[t].pc = "found" => {"asset", "found"} \subseteq DOMAIN th[t]
<1>1. LocalsOK(th[t]) /\ PassOK(th[t]) /\ SellsOK(th[t])
  BY DEF SellsInv, TruthInv, DayInv, ThreadsOK, PassesOK
<1>2. AssemblyOK(th[t])
  BY <1>1 DEF PassOK
<1> QED
  BY <1>1, <1>2 DEF LocalsOK, PassOK, SellsOK, AssemblyOK, Assembling

LEMMA Learns_Sells ==
    ASSUME SellsInv, TruthInv', NEW t \in story.threads, Learns(t) PROVE SellsInv'
<1> DEFINE taught == {row \in th[t].rows : /\ row.trade.side = "buy" /\ ~row.trade.pending
                                           /\ row.trade.reserve # NoAddr}
           end == AllLearned(taught, TxsUpTo(th[t].upto), th[t].res)
           needed == Needed({SellAsset(id) : id \in th[t].retry}, end.res)
           new == [pc |-> "seek", res |-> end.res, new |-> end.new, phase |-> "retry",
                   needed |-> needed]
           rec == Updated(th[t], new)
<1>1. UNCHANGED <<nodeVars, unread>> /\ th[t].pc = "learn" /\ Local(t, rec)
  BY DEF Learns, Put, Step, dbVars
<1>2. /\ {"moment", "rows", "retry", "upto", "unsought"} \subseteq DOMAIN th[t]
      /\ SellsOK(th[t]) /\ th[t].upto \in 0 .. height
  BY <1>1, PassHas DEF Assembling
<1> HIDE DEF end
<1>3. \A s \in th[t].retry : LearnedFor(SellAsset(s), end.res) # {} \/ SellAsset(s) \in needed
  BY DEF Needed
<1> HIDE DEF needed
<1>4. /\ DOMAIN new = {"pc", "res", "new", "phase", "needed"} /\ new.pc = "seek"
      /\ new.res = end.res /\ new.needed = needed /\ new.phase = "retry"
  OBVIOUS
<1> HIDE DEF new
<1>5. /\ DOMAIN rec = DOMAIN th[t] \cup DOMAIN new
      /\ \A f \in DOMAIN new : rec[f] = new[f]
      /\ \A f \in DOMAIN th[t] \ DOMAIN new : rec[f] = th[t][f]
  BY UpdatedLocals
<1> HIDE DEF rec
<1>6. /\ rec.pc = "seek" /\ rec.phase = "retry" /\ rec.res = end.res /\ rec.needed = needed
      /\ rec.rows = th[t].rows /\ rec.retry = th[t].retry
      /\ rec.upto = th[t].upto /\ rec.moment = th[t].moment
      /\ {"upto", "unsought", "needed"} \subseteq DOMAIN rec
  BY <1>2, <1>4, <1>5
<1>7. \A s \in rec.retry : Awaited(rec, s)
  BY <1>3, <1>6 DEF Awaited
<1>8. \A s \in DaySells(rec.upto, rec.moment) : ShownIn(rec.rows, s) \/ s \in rec.retry
  BY <1>1, <1>2, <1>6 DEF SellsOK
<1>9. SellsOK(rec)
  BY <1>2, <1>6, <1>7, <1>8 DEF SellsOK
<1>10. BlockWise(unread')
  BY <1>1 DEF SellsInv
<1> QED
  BY <1>1, <1>9, <1>10, SellsMove

LEMMA WritesReserves_Sells ==
    ASSUME SellsInv, TruthInv', NEW t \in story.threads, WritesReserves(t) PROVE SellsInv'
<1> DEFINE rec == [th[t] EXCEPT !.new = {}]
<1>1. UNCHANGED <<nodeVars, unread>> /\ th[t].pc = "seek" /\ Local(t, rec)
  BY DEF WritesReserves, Step
<1>2. /\ DOMAIN rec = DOMAIN th[t]
      /\ \A f \in DOMAIN th[t] : f # "new" => rec[f] = th[t][f]
  OBVIOUS
<1> HIDE DEF rec
<1>3. /\ {"pc", "moment", "rows", "retry", "res", "upto", "unsought", "phase", "needed"}
             \subseteq DOMAIN th[t]
      /\ SellsOK(th[t])
  BY <1>1, PassHas DEF Assembling
<1>4. /\ KeepsSells(th[t], rec) /\ rec.pc = "seek" /\ rec.phase = th[t].phase
      /\ rec.retry = th[t].retry /\ rec.res = th[t].res /\ rec.needed = th[t].needed
      /\ "needed" \in DOMAIN rec
  BY <1>1, <1>2, <1>3 DEF KeepsSells
<1>5. \A s : Awaited(th[t], s) => Awaited(rec, s)
  BY <1>1, <1>4 DEF Awaited
<1>6. SellsOK(rec)
  BY <1>1, <1>3, <1>4, <1>5, JudgedSellsKept, AwaitedSellsKept
<1>7. BlockWise(unread')
  BY <1>1 DEF SellsInv
<1> QED
  BY <1>1, <1>6, <1>7, SellsMove

\* A search finds the reserve, or is cut short, or there is none to find.
LEMMA SearchEnded ==
    ASSUME ChainOK, BlockWise(unread), NEW h \in 0 .. height, NEW asset, NEW reach, NEW seen,
           NEW sought \in Sought(asset, ReserveFromIndex(asset, seen), unread, reach)
    PROVE  \/ sought.addr # NoAddr \/ sought.cut
           \/ ~AllSeen(asset) \/ ~Taught(TxsUpTo(h), asset)
<1> DEFINE first == ReserveFromIndex(asset, seen)
           less == FilledMemos(asset, unread, reach)
<1> SUFFICES ASSUME sought.addr = NoAddr, ~sought.cut, AllSeen(asset)
             PROVE  ~Taught(TxsUpTo(h), asset)
  OBVIOUS
<1>1. BlockWise(less)
  BY FillsBlocks DEF Fewer
<1>2. /\ first # NoAddr => sought.addr = first
      /\ first = NoAddr => /\ \E any \in Seen(asset, less) : sought.addr = ReserveFromIndex(asset, any)
                           /\ sought.cut <=> \E id \in less : Touches(id, asset)
  BY SoughtIs
<1> HIDE DEF first, less
<1>3. first = NoAddr
  BY <1>2
<1>4. PICK any \in Seen(asset, less) : ReserveFromIndex(asset, any) = NoAddr
  BY <1>2, <1>3
<1>5. \A id \in less : ~Touches(id, asset)
  BY <1>2, <1>3
<1> QED
  BY <1>1, <1>4, <1>5, SearchFails

LEMMA Searches_Sells ==
    ASSUME SellsInv, TruthInv', NEW t \in story.threads, Searches(t) PROVE SellsInv'
<1>1. UNCHANGED nodeVars /\ th[t].pc = "seek"
  BY DEF Searches, At, Step
<1>2. PICK asset, reach, seen : \E sought \in Sought(asset, ReserveFromIndex(asset, seen), unread, reach) :
        SearchEnds(t, asset, sought)
  BY DEF Searches
<1>3. PICK sought \in Sought(asset, ReserveFromIndex(asset, seen), unread, reach) :
        SearchEnds(t, asset, sought)
  BY <1>2
<1> DEFINE needed == th[t].needed \ {asset}
           unsought == IF sought.cut THEN th[t].unsought \cup {asset} ELSE th[t].unsought
           new == [pc |-> "found", needed |-> needed, asset |-> asset, found |-> sought.addr,
                   unsought |-> unsought]
           rec == Updated(th[t], new)
<1>4. Local(t, rec) /\ unread' = sought.old
  BY <1>3 DEF SearchEnds, Put
<1>5. /\ {"pc", "moment", "rows", "retry", "res", "upto", "unsought", "phase", "needed"}
             \subseteq DOMAIN th[t]
      /\ SellsOK(th[t]) /\ th[t].upto \in 0 .. height
  BY <1>1, PassHas DEF Assembling
<1>6. BlockWise(unread) /\ ChainOK
  BY DEF SellsInv, TruthInv, DayInv
<1>7. BlockWise(unread')
  BY <1>4, <1>6, SoughtTrue DEF Fewer
<1>8. \/ sought.addr # NoAddr \/ sought.cut
      \/ ~AllSeen(asset) \/ ~Taught(TxsUpTo(th[t].upto), asset)
  BY <1>5, <1>6, SearchEnded
<1>9. th[t].unsought \subseteq unsought /\ (sought.cut => asset \in unsought)
  OBVIOUS
<1> HIDE DEF unsought
<1>10. /\ DOMAIN new = {"pc", "needed", "asset", "found", "unsought"} /\ new.pc = "found"
       /\ new.asset = asset /\ new.found = sought.addr /\ new.needed = needed /\ new.unsought = unsought
  OBVIOUS
<1> HIDE DEF new
<1>11. /\ DOMAIN rec = DOMAIN th[t] \cup DOMAIN new
       /\ \A f \in DOMAIN new : rec[f] = new[f]
       /\ \A f \in DOMAIN th[t] \ DOMAIN new : rec[f] = th[t][f]
  BY UpdatedLocals
<1> HIDE DEF rec
<1>12. /\ rec.pc = "found" /\ rec.phase = th[t].phase /\ rec.retry = th[t].retry
       /\ rec.res = th[t].res /\ rec.needed = needed /\ rec.asset = asset /\ rec.found = sought.addr
       /\ rec.unsought = unsought /\ rec.upto = th[t].upto /\ rec.moment = th[t].moment
       /\ rec.rows = th[t].rows /\ {"upto", "unsought", "needed"} \subseteq DOMAIN rec
  BY <1>5, <1>10, <1>11
<1>13. KeepsSells(th[t], rec)
  BY <1>9, <1>12 DEF KeepsSells
<1>14. ASSUME NEW s, Awaited(th[t], s) PROVE Awaited(rec, s) \/ Excused(rec, s)
  <2>1. LearnedFor(SellAsset(s), th[t].res) # {} \/ SellAsset(s) \in th[t].needed
    BY <1>1, <1>14 DEF Awaited
  <2>2. CASE SellAsset(s) = asset
    BY <1>8, <1>9, <1>12, <2>2 DEF Awaited, Excused
  <2>3. CASE SellAsset(s) # asset
    BY <1>12, <2>1, <2>3 DEF Awaited
  <2> QED
    BY <2>2, <2>3
<1>15. SellsOK(rec)
  BY <1>1, <1>5, <1>12, <1>13, <1>14, JudgedSellsKept, AwaitedSellsKept
<1> QED
  BY <1>1, <1>4, <1>7, <1>15, SellsMove

LEMMA NotesFound_Sells ==
    ASSUME SellsInv, TruthInv', NEW t \in story.threads, NotesFound(t) PROVE SellsInv'
<1> DEFINE asset == th[t].asset
           found == th[t].found
           known == [res |-> th[t].res, new |-> {}]
           end   == IF found = NoAddr THEN known ELSE Learned(known, asset, found)
           rec   == [th[t] EXCEPT !.pc = "seek", !.asset = NoAsset, !.found = NoAddr,
                                  !.res = end.res, !.new = end.new]
<1>1. UNCHANGED <<nodeVars, unread>> /\ th[t].pc = "found" /\ Local(t, rec)
  BY DEF NotesFound, Step, dbVars
<1>2. /\ {"pc", "moment", "rows", "retry", "res", "upto", "unsought", "phase", "needed", "new",
          "asset", "found"} \subseteq DOMAIN th[t]
      /\ AssemblyOK(th[t]) /\ SellsOK(th[t])
  BY <1>1, PassHas DEF Assembling
<1>3. FoundTrue(asset, found)
  BY <1>1 DEF SellsInv, TruthInv, PassesOK, PassOK
<1>4. /\ \A a : LearnedFor(a, th[t].res) # {} => LearnedFor(a, end.res) # {}
      /\ found # NoAddr => LearnedFor(asset, end.res) # {}
  <2>1. CASE found = NoAddr
    BY <2>1
  <2>2. CASE found # NoAddr
    <3>1. asset \in DOMAIN AliasOf /\ found \in ReservesBy(VerifiedBuys, asset)
      BY <1>3, <2>2 DEF FoundTrue
    <3>2. table \subseteq SoundRows /\ known \in Knowledge /\ known.res = th[t].res
      <4>1. th[t].res \in Known
        BY <1>2 DEF AssemblyOK
      <4> QED
        BY <4>1 DEF SellsInv, TruthInv, KnownOK, Knowledge
    <3>3. end = Learned(known, asset, found)
      BY <2>2
    <3> HIDE DEF known, asset, found, end
    <3>4. /\ LearnedFor(asset, Learned(known, asset, found).res) # {}
          /\ \A a : LearnedFor(a, known.res) # {}
                    => LearnedFor(a, Learned(known, asset, found).res) # {}
      BY <3>1, <3>2, LearnsKnown
    <3> QED
      BY <3>2, <3>3, <3>4
  <2> QED
    BY <2>1, <2>2
<1> HIDE DEF end
<1>5. /\ rec.pc = "seek" /\ rec.phase = th[t].phase /\ rec.retry = th[t].retry
      /\ rec.res = end.res /\ rec.needed = th[t].needed
      /\ rec.unsought = th[t].unsought /\ rec.upto = th[t].upto /\ rec.moment = th[t].moment
      /\ rec.rows = th[t].rows /\ {"upto", "unsought", "needed"} \subseteq DOMAIN rec
  <2>1. "needed" \in DOMAIN th[t]
    BY <1>1, PassHas DEF Assembling
  <2> QED
    BY <1>2, <2>1
<1> HIDE DEF rec
<1>6. KeepsSells(th[t], rec)
  BY <1>5 DEF KeepsSells
<1>7. \A s : Awaited(th[t], s) => Awaited(rec, s)
  BY <1>4, <1>5 DEF Awaited
<1>8. SellsOK(rec)
  BY <1>1, <1>2, <1>5, <1>6, <1>7, JudgedSellsKept, AwaitedSellsKept
<1>9. BlockWise(unread')
  BY <1>1 DEF SellsInv
<1> QED
  BY <1>1, <1>8, <1>9, SellsMove

\* Judged again, a sell is shown, or its reserve was not to be had.
LEMMA JudgesSells_Sells ==
    ASSUME SellsInv, TruthInv', NEW t \in story.threads, JudgesSells(t) PROVE SellsInv'
<1> DEFINE retry == th[t].retry
           judged == Judged(retry, th[t].res, {})
           rows == th[t].rows \cup judged
           fees == th[t].fees \cup (FeesOf(rows) \ th[t].fees)
           unsought == th[t].unsought \cup Needed(th[t].needed, th[t].res)
           needed == NeededLast(t)
           rec == [th[t] EXCEPT !.rows = rows, !.fees = fees, !.phase = "routes",
                                !.unsought = unsought, !.needed = needed]
<1>1. /\ UNCHANGED <<nodeVars, unread>> /\ th[t].pc = "seek" /\ th[t].phase = "retry"
      /\ Local(t, rec)
  BY DEF JudgesSells, SellsJudged, At, Step
<1>2. /\ {"pc", "moment", "rows", "retry", "res", "fees", "upto", "unsought", "phase", "needed"}
             \subseteq DOMAIN th[t]
      /\ AssemblyOK(th[t]) /\ SellsOK(th[t]) /\ th[t].upto \in 0 .. height
  BY <1>1, PassHas DEF Assembling
<1>3. ASSUME NEW s \in DaySells(th[t].upto, th[t].moment)
      PROVE  \/ ShownIn(rows, s) \/ SellAsset(s) \in unsought
             \/ ~AllSeen(SellAsset(s)) \/ ~Taught(TxsUpTo(th[t].upto), SellAsset(s))
             \/ ~Recognized(s)
  <2>1. ShownIn(th[t].rows, s) \/ (s \in retry /\ (Awaited(th[t], s) \/ Excused(th[t], s)))
    BY <1>1, <1>2 DEF SellsOK
  <2>2. CASE ShownIn(th[t].rows, s)
    BY <2>2 DEF ShownIn
  <2>3. CASE Excused(th[t], s)
    BY <2>3 DEF Excused
  <2>4. CASE s \in retry /\ LearnedFor(SellAsset(s), th[t].res) # {}
    <3>1. th[t].res \in Known
      BY <1>2 DEF AssemblyOK
    <3>2. Recognized(s) => ShownIn(judged, s)
      BY <2>4, <3>1, SellJudged
    <3> QED
      BY <3>2 DEF ShownIn
  <2>5. CASE SellAsset(s) \in th[t].needed /\ LearnedFor(SellAsset(s), th[t].res) = {}
    BY <2>5 DEF Needed
  <2> QED
    BY <1>1, <2>1, <2>2, <2>3, <2>4, <2>5 DEF Awaited
<1> HIDE DEF rows, fees, unsought, needed, retry
<1>4. /\ rec.pc = "seek" /\ rec.phase = "routes" /\ rec.rows = rows /\ rec.unsought = unsought
      /\ rec.upto = th[t].upto /\ rec.moment = th[t].moment
      /\ {"upto", "unsought", "needed"} \subseteq DOMAIN rec
  BY <1>1, <1>2
<1> HIDE DEF rec
<1>5. \A s \in DaySells(rec.upto, rec.moment) : ShownIn(rec.rows, s) \/ Excused(rec, s)
  BY <1>3, <1>4 DEF Excused
<1>6. SellsOK(rec)
  BY <1>2, <1>4, <1>5 DEF SellsOK
<1>7. BlockWise(unread')
  BY <1>1 DEF SellsInv
<1> QED
  BY <1>1, <1>6, <1>7, SellsMove

\* The search for a fee address leaves the sells alone.
LEMMA FeeStep_Sells ==
    ASSUME SellsInv, TruthInv', NEW t \in story.threads, SeeksFee(t) \/ TriesSell(t) PROVE SellsInv'
<1>1. UNCHANGED <<nodeVars, unread>> /\ th[t].pc = "seek"
  BY DEF SeeksFee, TriesSell, At, Step, dbVars
<1>2. th[t].phase # "retry"
  BY FeeStepIs DEF SellsInv
<1>3. PICK new : /\ Put(t, new) /\ DOMAIN new \subseteq FeeLocals
                 /\ "phase" \in DOMAIN new => new.phase \in {"fees", "last"}
  BY FeeStepIs DEF SellsInv
<1> DEFINE rec == Updated(th[t], new)
<1>4. Local(t, rec)
  BY <1>3 DEF Put
<1>5. /\ {"pc", "moment", "rows", "upto", "unsought", "phase", "needed"} \subseteq DOMAIN th[t]
      /\ SellsOK(th[t])
  BY <1>1, PassHas DEF Assembling
<1>6. /\ DOMAIN rec = DOMAIN th[t] \cup DOMAIN new
      /\ \A f \in DOMAIN new : rec[f] = new[f]
      /\ \A f \in DOMAIN th[t] \ DOMAIN new : rec[f] = th[t][f]
  BY UpdatedLocals
<1> HIDE DEF rec
<1>7. /\ rec.pc = "seek" /\ rec.rows = th[t].rows /\ rec.unsought = th[t].unsought
      /\ rec.upto = th[t].upto /\ rec.moment = th[t].moment
      /\ {"upto", "unsought", "needed"} \subseteq DOMAIN rec
  BY <1>1, <1>3, <1>5, <1>6 DEF FeeLocals
<1>8. rec.phase # "retry"
  BY <1>2, <1>3, <1>5, <1>6
<1>9. KeepsSells(th[t], rec)
  BY <1>7 DEF KeepsSells
<1>10. SellsOK(rec)
  BY <1>1, <1>2, <1>5, <1>7, <1>8, <1>9, JudgedSellsKept
<1>11. BlockWise(unread')
  BY <1>1 DEF SellsInv
<1> QED
  BY <1>1, <1>4, <1>10, <1>11, SellsMove

LEMMA JudgesRoutes_Sells ==
    ASSUME SellsInv, TruthInv', NEW t \in story.threads, JudgesRoutes(t)
    PROVE  SellsInv'
<1> DEFINE rows == th[t].rows \cup Judged(th[t].routes, th[t].res, th[t].fees)
           shown == Relabelled(rows, labels'.gen)
           rec == [pc |-> "store", moment |-> th[t].moment, pending |-> th[t].pending,
                   upto |-> th[t].upto, unsought |-> th[t].unsought, rows |-> shown]
<1>1. /\ UNCHANGED <<nodeVars, unread>> /\ th[t].pc = "seek" /\ th[t].phase = "last"
      /\ DayJudged(t, rows)
  BY DEF JudgesRoutes, At, Step, dbVars
<1>2. AssemblyOK(th[t]) /\ SellsOK(th[t])
  BY <1>1, PassHas DEF Assembling
<1>3. BlockWise(unread')
  BY <1>1 DEF SellsInv
<1>4. ASSUME NEW s, ShownIn(th[t].rows, s) PROVE ShownIn(shown, s)
  <2>1. PICK row \in th[t].rows : row.tx = s
    BY <1>4 DEF ShownIn
  <2>2. RowFields \subseteq DOMAIN row
    BY <1>2 DEF AssemblyOK, TradeRows, TradeRow
  <2> DEFINE labelled == [row EXCEPT !.gen = labels'.gen]
  <2>3. labelled.tx = s
    BY <2>1, <2>2 DEF RowFields
  <2>4. labelled \in shown
    BY <2>1 DEF Relabelled
  <2> HIDE DEF labelled, shown
  <2> QED
    BY <2>3, <2>4 DEF ShownIn
<1>5. Local(t, rec)
  BY <1>1 DEF DayJudged, Relabelled
<1> HIDE DEF shown
<1>6. KeepsSells(th[t], rec) /\ rec.pc = "store"
  BY <1>4 DEF KeepsSells
<1> HIDE DEF rec
<1>7. SellsOK(rec)
  BY <1>1, <1>2, <1>6, JudgedSellsKept
<1> QED
  BY <1>1, <1>3, <1>5, <1>7, SellsMove

LEMMA Next_SellsInv == SellsInv /\ [Next]_vars => SellsInv'
<1> SUFFICES ASSUME SellsInv, [Next]_vars PROVE SellsInv'
  OBVIOUS
<1>1. TruthInv'
  BY Next_TruthInv DEF SellsInv
<1>2. CASE Broadcast \/ Mined \/ BlockIndexed \/ Midnight \/ CopiesAge \/ TodayFilled \/ UNCHANGED vars
  BY <1>1, <1>2, World_SellsInv
<1>3. ASSUME NEW t \in story.threads, PageBegins(t) PROVE SellsInv'
  BY <1>1, <1>3, SellsIdle
<1>4. ASSUME NEW t \in story.threads, PageStep(t) PROVE SellsInv'
  <2>1. CASE ReadsMempool(t) \/ ChecksDay(t) \/ StoresDay(t) \/ CountsDay(t) \/ PageEnds(t)
    BY <1>1, <2>1, SellsIdle
  <2>2. CASE ReadsDay(t)
    BY <1>1, <2>2, ReadsDay_Sells
  <2>3. CASE Learns(t)
    BY <1>1, <2>3, Learns_Sells
  <2>4. CASE WritesReserves(t)
    BY <1>1, <2>4, WritesReserves_Sells
  <2>5. CASE Searches(t)
    BY <1>1, <2>5, Searches_Sells
  <2>6. CASE NotesFound(t)
    BY <1>1, <2>6, NotesFound_Sells
  <2>7. CASE JudgesSells(t)
    BY <1>1, <2>7, JudgesSells_Sells
  <2>8. CASE SeeksFee(t) \/ TriesSell(t)
    BY <1>1, <2>8, FeeStep_Sells
  <2>9. CASE JudgesRoutes(t)
    BY <1>1, <2>9, JudgesRoutes_Sells
  <2> QED
    BY <1>4, <2>1, <2>2, <2>3, <2>4, <2>5, <2>6, <2>7, <2>8, <2>9 DEF PageStep
<1> QED
  BY <1>2, <1>3, <1>4 DEF Next

\* A sell is on the page of its day when a delivered buy in the index teaches
\* its reserve, whichever thread reads it and whatever is mined, indexed or
\* learned meanwhile.  The exceptions of SellsComplete are part of it: asset by
\* asset, no more markers than MarkLimit, and a delivery among the first
\* DeliveryLimit rows; an asset not sought in vain before; a marker that could
\* be read; a sell that any verified reserve of the asset would show.
THEOREM Spec_SellsComplete == Spec => []SellsComplete
<1> QED
  BY Init_SellsInv, Next_SellsInv, SellsInv_SellsComplete, PTL DEF Spec
=============================================================================
