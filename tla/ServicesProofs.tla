--------------------------- MODULE ServicesProofs ---------------------------
(***************************************************************************)
(* Theorems about the smaller services: the cache of IPFS objects, for any *)
(* number of objects, readers and gateways and any limit; the rebuilds of  *)
(* derived tables, for every chain and every number of old blocks; the     *)
(* supply page, for every schedule and whatever is burned; the database's  *)
(* connections, for any number of threads; the copy of the relay, whatever *)
(* it publishes.  Each has an invariant of its own.                        *)
(***************************************************************************)
EXTENDS Services, DbConnections, EmissionProofs, FiniteSetTheorems

-----------------------------------------------------------------------------
(* The cache of IPFS objects.  The invariant adds the locals: the object a  *)
(* reader is about to put, and to answer with, is the one it asked for.     *)

\* What the cache is: a finite function to entries that hold their object.
CacheKept ==
    /\ IsFiniteSet(DOMAIN cache)
    /\ CacheBounded
    /\ \A c \in DOMAIN cache : cache[c].object.of = c

\* What a reader's locals are.
LocalsOK(r) ==
    \/ /\ reader[r].pc = "idle" /\ reader[r].answer.of = reader[r].cid
    \/ reader[r].pc = "fetch"
    \/ /\ reader[r].pc \in {"put", "look"} /\ reader[r].object.of = reader[r].cid

ReadersKept ==
    /\ DOMAIN reader = Readers
    /\ \A r \in Readers : LocalsOK(r)

CacheInv == CacheKept /\ ReadersKept

\* Entries that stay or go keep the cache within its limit.
LEMMA SmallerCache ==
    ASSUME CacheKept, NEW cids \in SUBSET DOMAIN cache, cache' = Kept(cids)
    PROVE  CacheKept'
<1>1. /\ DOMAIN cache' = cids
      /\ \A c \in cids : cache'[c] = cache[c]
  BY DEF Kept
<1>2. IsFiniteSet(cids) /\ Cardinality(cids) <= Cardinality(DOMAIN cache)
  BY FS_Subset DEF CacheKept
<1>3. Cardinality(cids) \in Nat /\ Cardinality(DOMAIN cache) \in Nat
  BY <1>2, FS_CardinalityType DEF CacheKept
<1>4. Cardinality(cids) <= CacheMax
  BY <1>2, <1>3, CacheAssumption DEF CacheKept, CacheBounded
<1>. QED BY <1>1, <1>2, <1>4 DEF CacheKept, CacheBounded

\* _cache_get leaves the cache in order.
LEMMA LookKeepsCache ==
    ASSUME CacheKept, NEW cid, DropsOutdated(cid)
    PROVE  CacheKept'
<1>1. CASE IsFresh(cid)
  <2>1. cache' = cache
    BY <1>1 DEF DropsOutdated
  <2>. QED BY <2>1 DEF CacheKept, CacheBounded
<1>2. CASE ~IsFresh(cid)
  <2>1. cache' = Kept(DOMAIN cache \ {cid})
    BY <1>2 DEF DropsOutdated
  <2>. QED BY <2>1, SmallerCache
<1>. QED BY <1>1, <1>2

\* An entry put next to entries that leave room for it.
LEMMA PutKeepsCache ==
    ASSUME CacheKept, NEW cid, NEW entry, NEW kept \in SUBSET DOMAIN cache,
           cid \in kept \/ Cardinality(kept) < CacheMax,
           entry.object.of = cid,
           cache' = [c \in kept \cup {cid} |-> IF c = cid THEN entry ELSE cache[c]]
    PROVE  CacheKept'
<1>1. /\ DOMAIN cache' = kept \cup {cid}
      /\ cache'[cid] = entry
      /\ \A c \in kept \ {cid} : cache'[c] = cache[c]
  OBVIOUS
<1>2. /\ IsFiniteSet(kept) /\ Cardinality(kept) <= Cardinality(DOMAIN cache)
      /\ Cardinality(kept) \in Nat /\ Cardinality(DOMAIN cache) \in Nat
  BY FS_Subset, FS_CardinalityType DEF CacheKept
<1>3. Cardinality(kept) <= CacheMax
  BY <1>2, CacheAssumption DEF CacheKept, CacheBounded
<1>4. /\ IsFiniteSet(kept \cup {cid})
      /\ \/ cid \in kept /\ Cardinality(kept \cup {cid}) = Cardinality(kept)
         \/ cid \notin kept /\ Cardinality(kept \cup {cid}) = Cardinality(kept) + 1
  BY <1>2, FS_AddElement
<1>5. Cardinality(kept \cup {cid}) <= CacheMax
  BY <1>2, <1>3, <1>4, CacheAssumption
<1>6. \A c \in kept \cup {cid} : cache'[c].object.of = c
  BY <1>1 DEF CacheKept
<1>. QED BY <1>1, <1>4, <1>5, <1>6 DEF CacheKept, CacheBounded

\* The invariant holds of the empty cache and of readers that rest.
THEOREM InitCacheInv == CacheInit => CacheInv
<1>. SUFFICES ASSUME CacheInit PROVE CacheInv
  OBVIOUS
<1>1. DOMAIN cache = {}
  BY DEF CacheInit
<1>2. CacheKept
  BY <1>1, FS_EmptySet, CacheAssumption DEF CacheKept, CacheBounded
<1>3. ReadersKept
  BY DEF CacheInit, ReadersKept, LocalsOK, NoObject
<1>. QED BY <1>2, <1>3 DEF CacheInv

\* A step of one reader leaves the others' locals alone.
LEMMA OneReaderGoes ==
    ASSUME ReadersKept, NEW r \in Readers, NEW rec, ReaderGoes(r, rec),
           \/ rec.pc = "idle" /\ rec.answer.of = rec.cid
           \/ rec.pc = "fetch"
           \/ rec.pc \in {"put", "look"} /\ rec.object.of = rec.cid
    PROVE  ReadersKept'
<1>1. DOMAIN reader' = Readers /\ reader'[r] = rec
  BY DEF ReaderGoes, ReadersKept
<1>2. \A q \in Readers \ {r} : reader'[q] = reader[q]
  BY DEF ReaderGoes, ReadersKept
<1>. QED BY <1>1, <1>2 DEF ReadersKept, LocalsOK

\* Every step of a reader, a gateway or the clock keeps it: a put beyond the limit
\* drops the oldest entry, and a reader is answered from the fetch it made.
THEOREM StepCacheInv == CacheInv /\ [CacheNext]_cacheVars => CacheInv'
<1>. SUFFICES ASSUME CacheInv, [CacheNext]_cacheVars PROVE CacheInv'
  OBVIOUS
<1>. USE DEF CacheInv
<1>1. ASSUME UNCHANGED <<cache, reader>> PROVE CacheInv'
  BY <1>1 DEF CacheKept, CacheBounded, ReadersKept, LocalsOK
<1>2. CASE CacheTicks \/ UNCHANGED cacheVars
  BY <1>1, <1>2 DEF CacheTicks, cacheVars
<1>3. ASSUME NEW r \in Readers, NEW cid \in Cids, Inspects(r, cid) PROVE CacheInv'
  <2>1. CacheKept'
    BY <1>3, LookKeepsCache DEF Inspects
  <2>2. CASE IsFresh(cid)
    <3>1. ReaderGoes(r, Served(cid, cache[cid].object))
      BY <1>3, <2>2 DEF Inspects
    <3>2. Served(cid, cache[cid].object).pc = "idle"
      BY DEF Served
    <3>3. Served(cid, cache[cid].object).answer.of = Served(cid, cache[cid].object).cid
      BY <2>2 DEF Served, IsFresh, CacheKept
    <3>. QED BY <2>1, <3>1, <3>2, <3>3, OneReaderGoes
  <2>3. CASE ~IsFresh(cid)
    <3>1. ReaderGoes(r, [pc |-> "fetch", cid |-> cid, gateway |-> 1])
      BY <1>3, <2>3 DEF Inspects
    <3>. QED BY <2>1, <3>1, OneReaderGoes
  <2>. QED BY <2>2, <2>3
<1>4. ASSUME NEW r \in Readers, GatewayAnswers(r) PROVE CacheInv'
  <2>1. CacheKept'
    BY <1>4 DEF GatewayAnswers, CacheKept, CacheBounded
  <2>2. ReaderGoes(r, [pc |-> "put", cid |-> reader[r].cid, object |-> [of |-> reader[r].cid]])
    BY <1>4 DEF GatewayAnswers
  <2>. QED BY <2>1, <2>2, OneReaderGoes
<1>5. ASSUME NEW r \in Readers, GatewayMisses(r) PROVE CacheInv'
  <2>1. CacheKept'
    BY <1>5 DEF GatewayMisses, CacheKept, CacheBounded
  <2>2. ReaderGoes(r, [pc |-> "fetch", cid |-> reader[r].cid, gateway |-> reader[r].gateway + 1])
    BY <1>5 DEF GatewayMisses
  <2>. QED BY <2>1, <2>2, OneReaderGoes
<1>6. ASSUME NEW r \in Readers, FetchFailed(r) PROVE CacheInv'
  <2>1. CacheKept'
    BY <1>6 DEF FetchFailed, CacheKept, CacheBounded
  <2>2. ReaderGoes(r, [pc |-> "idle", cid |-> "none", answer |-> NoObject])
    BY <1>6 DEF FetchFailed
  <2>. QED BY <2>1, <2>2, OneReaderGoes DEF NoObject
<1>7. ASSUME NEW r \in Readers, Puts(r) PROVE CacheInv'
  <2>. DEFINE cid == reader[r].cid
              entry == [at |-> cacheNow, object |-> reader[r].object]
  <2>1. reader[r].pc = "put" /\ reader[r].object.of = cid
    BY <1>7 DEF Puts, Reads, ReadersKept, LocalsOK
  <2>2. PICK kept \in SUBSET DOMAIN cache :
          /\ cid \in kept \/ Cardinality(kept) < CacheMax
          /\ cache' = [c \in kept \cup {cid} |-> IF c = cid THEN entry ELSE cache[c]]
    <3>1. Cardinality(DOMAIN cache) \in Nat
      BY FS_CardinalityType DEF CacheKept
    <3>2. CASE cid \notin DOMAIN cache /\ Cardinality(DOMAIN cache) >= CacheMax
      <4>1. PICK old \in DOMAIN cache :
              cache' = [c \in (DOMAIN cache \ {old}) \cup {cid} |->
                           IF c = cid THEN entry ELSE cache[c]]
        BY <1>7, <3>2 DEF Puts
      <4>2. Cardinality(DOMAIN cache \ {old}) = Cardinality(DOMAIN cache) - 1
        BY FS_RemoveElement DEF CacheKept
      <4>3. Cardinality(DOMAIN cache \ {old}) < CacheMax
        BY <3>1, <4>2, CacheAssumption DEF CacheKept, CacheBounded
      <4>. QED BY <4>1, <4>3
    <3>3. CASE ~(cid \notin DOMAIN cache /\ Cardinality(DOMAIN cache) >= CacheMax)
      <4>1. cache' = [c \in DOMAIN cache \cup {cid} |-> IF c = cid THEN entry ELSE cache[c]]
        BY <1>7, <3>3 DEF Puts
      <4>2. cid \in DOMAIN cache \/ Cardinality(DOMAIN cache) < CacheMax
        BY <3>1, <3>3, CacheAssumption
      <4>. QED BY <4>1, <4>2
    <3>. QED BY <3>2, <3>3
  <2>3. CacheKept'
    <3>1. entry.object.of = cid
      BY <2>1
    <3>. QED BY <2>2, <3>1, PutKeepsCache
  <2>4. ReaderGoes(r, [pc |-> "look", cid |-> cid, object |-> reader[r].object])
    BY <1>7 DEF Puts
  <2>. QED BY <2>1, <2>3, <2>4, OneReaderGoes
<1>8. ASSUME NEW r \in Readers, LooksAgain(r) PROVE CacheInv'
  <2>. DEFINE cid == reader[r].cid
              object == IF IsFresh(cid) THEN cache[cid].object ELSE reader[r].object
  <2>1. CacheKept'
    BY <1>8, LookKeepsCache DEF LooksAgain
  <2>2. object.of = cid
    BY <1>8 DEF LooksAgain, Reads, ReadersKept, LocalsOK, IsFresh, CacheKept
  <2>3. ReaderGoes(r, Served(cid, object))
    BY <1>8 DEF LooksAgain
  <2>4. /\ Served(cid, object).pc = "idle"
        /\ Served(cid, object).answer.of = Served(cid, object).cid
    BY <2>2 DEF Served
  <2>. QED BY <2>1, <2>3, <2>4, OneReaderGoes
<1>. QED BY <1>2, <1>3, <1>4, <1>5, <1>6, <1>7, <1>8 DEF CacheNext, ReaderStep

\* Whatever the readers do between each other's looks and puts, the cache keeps
\* to META_CACHE_MAX and every reader is answered with the object it asked for
\* (_cache_put, inspect_cid).
THEOREM CacheSpec_MetadataSound == CacheSpec => []MetadataSound
<1>1. CacheInv => MetadataSound
  BY DEF CacheInv, CacheKept, ReadersKept, LocalsOK, MetadataSound, ReadersAnswered, Reads
<1>2. CacheSpec => []CacheInv
  BY InitCacheInv, StepCacheInv, PTL DEF CacheSpec
<1>. QED BY <1>1, <1>2, PTL

-----------------------------------------------------------------------------
(* The rebuilds.                                                           *)

Heights == DOMAIN SharedBy
Versions == UNION {[H -> {"old", "new"}] : H \in SUBSET Heights}
Database == [indexed : Heights \cup {0}, lotteryV : BOOLEAN, shareV : BOOLEAN,
             wins : Versions, shares : Versions, missed : SUBSET Heights, early : SUBSET Heights]

\* Every win below a height is there in its new form, or was missed.
WinsNew(db, below) ==
    \A h \in 1..below : IF h \in DOMAIN db.wins THEN db.wins[h] = "new" ELSE h \in db.missed

\* The shares agree with the wins, but for spends that were judged too early.
SharesAgree(db) ==
    \A h \in 1..db.indexed \ db.early :
        IF SharedBy[h] \in DOMAIN db.wins
        THEN h \in DOMAIN db.shares /\ db.shares[h] = "new"
        ELSE h \notin DOMAIN db.shares

\* The promise of the versions, and what makes up for shares that were rebuilt
\* before the wins: all of them count as judged too early.
RowsOK(db) ==
    /\ db \in Database
    /\ DOMAIN db.wins \subseteq 1..db.indexed /\ DOMAIN db.shares \subseteq 1..db.indexed
    /\ db.lotteryV => WinsNew(db, db.indexed) /\ (db.shareV => SharesAgree(db))
    /\ db.shareV /\ ~db.lotteryV => 1..db.indexed \subseteq db.early

\* The same of what is committed and of the open transaction; and how far the
\* rebuild of the wins has come.
RebuildInv ==
    /\ reachable \in Heights \cup {0}
    /\ ticker \in [pc : {"rest", "lottery", "shares", "batch"}, at : Nat, stop : BOOLEAN]
    /\ RowsOK(stored) /\ RowsOK(opened)
    /\ Ticks("lottery") =>
         /\ ~opened.lotteryV
         /\ ticker.at \in 1..opened.indexed + 1
         /\ DOMAIN opened.wins \subseteq 1..ticker.at - 1
         /\ WinsNew(opened, ticker.at - 1)

LEMMA VersionsMade ==
  ASSUME NEW f, f \in [DOMAIN f -> {"old", "new"}], DOMAIN f \subseteq Heights
  PROVE  f \in Versions
  BY DEF Versions

LEMMA VersionsRead ==
  ASSUME NEW f \in Versions
  PROVE  f \in [DOMAIN f -> {"old", "new"}] /\ DOMAIN f \subseteq Heights
  BY DEF Versions

\* How many blocks are indexed is a number, and their heights are heights.
LEMMA IndexedHeights ==
  ASSUME NEW n \in Heights \cup {0}
  PROVE  n \in Nat /\ 1..n \subseteq Heights
  BY RebuildsAssumption DEF Heights

\* What is tagged, and that tags are rows like the wins they are taken from.
AreTags(tags, heights, wins) ==
    /\ DOMAIN tags \subseteq heights
    /\ \A h \in heights : h \in DOMAIN tags <=> SharedBy[h] \in DOMAIN wins
    /\ \A h \in DOMAIN tags : tags[h] = wins[SharedBy[h]] /\ SharedBy[h] \in DOMAIN wins

LEMMA TagsAre ==
  ASSUME NEW heights, NEW wins
  PROVE  AreTags(Tags(heights, wins), heights, wins)
  BY DEF Tags, AreTags

LEMMA TagsTyped ==
  ASSUME NEW heights, NEW wins \in Versions, heights \subseteq Heights
  PROVE  Tags(heights, wins) \in Versions
<1>1. wins \in [DOMAIN wins -> {"old", "new"}]
  BY VersionsRead
<1>2. Tags(heights, wins) \in [DOMAIN Tags(heights, wins) -> {"old", "new"}]
  BY <1>1 DEF Tags
<1>3. DOMAIN Tags(heights, wins) \subseteq Heights
  BY TagsAre DEF AreTags
<1> QED
  BY <1>2, <1>3, VersionsMade

LEMMA RebuildInit_Inv == RebuildInit => RebuildInv
<1> SUFFICES ASSUME RebuildInit PROVE RebuildInv
  OBVIOUS
<1>1. OldBlocks \in Heights \cup {0} /\ 1..OldBlocks \subseteq Heights
  BY RebuildsAssumption DEF Heights
<1>2. ASSUME NEW v \in BOOLEAN PROVE RowsOK(OldRows(v))
  <2> DEFINE wins   == [h \in 1..OldBlocks |-> "old"]
             shares == [h \in {b \in 1..OldBlocks : SharedBy[b] # 0} |-> "old"]
             early  == IF v THEN 1..OldBlocks ELSE {}
  <2>1. wins \in Versions /\ DOMAIN wins \subseteq 1..OldBlocks
    BY <1>1, VersionsMade
  <2>2. shares \in Versions /\ DOMAIN shares \subseteq 1..OldBlocks
    BY <1>1, VersionsMade
  <2>3. OldRows(v) = [indexed |-> OldBlocks, lotteryV |-> FALSE, shareV |-> v, wins |-> wins,
                      shares |-> shares, missed |-> {}, early |-> early]
    BY DEF OldRows
  <2>4. early \subseteq Heights /\ (v => 1..OldBlocks \subseteq early)
    BY <1>1
  <2> HIDE DEF wins, shares, early
  <2> QED
    BY <1>1, <2>1, <2>2, <2>3, <2>4 DEF RowsOK, Database
<1> QED
  BY <1>1, <1>2 DEF RebuildInit, RebuildInv, Ticks

LEMMA NodeMoves_Inv == RebuildInv /\ NodeMoves => RebuildInv'
  BY DEF RebuildInv, NodeMoves, Heights, Ticks, WinsNew

LEMMA TickBegins_Inv == RebuildInv /\ TickBegins => RebuildInv'
<1> SUFFICES ASSUME RebuildInv, TickBegins PROVE RebuildInv'
  OBVIOUS
<1>1. RowsOK(stored')
  BY DEF RebuildInv, TickBegins
<1>2. CASE /\ ~opened.lotteryV
           /\ opened' = [opened EXCEPT !.wins = [h \in {} |-> "old"], !.missed = {}]
           /\ ticker' = [ticker EXCEPT !.pc = "lottery", !.at = 1]
  <2> DEFINE none == [h \in {} |-> "old"]
  <2>1. none \in Versions /\ DOMAIN none = {}
    BY VersionsMade
  <2> HIDE DEF none
  <2>2. opened \in Database /\ opened' = [opened EXCEPT !.wins = none, !.missed = {}]
    BY <1>2 DEF RebuildInv, RowsOK, none
  <2>3. /\ opened'.wins = none /\ opened'.missed = {}
        /\ opened'.indexed = opened.indexed /\ opened'.lotteryV = opened.lotteryV
        /\ opened'.shareV = opened.shareV /\ opened'.shares = opened.shares
        /\ opened'.early = opened.early
    BY <2>2 DEF Database
  <2>4. opened' \in Database
    BY <2>1, <2>2 DEF Database
  <2>5. RowsOK(opened')
    BY <1>2, <2>1, <2>3, <2>4 DEF RebuildInv, RowsOK
  <2>6. ticker' = [ticker EXCEPT !.pc = "lottery", !.at = 1] /\ opened'.indexed \in Nat
    BY <1>2, <2>4, IndexedHeights DEF Database
  <2>7. WinsNew(opened', 0)
    BY DEF WinsNew
  <2>8. ticker'.pc = "lottery" /\ ticker'.at = 1 /\ ticker'.at - 1 = 0
    BY <2>6 DEF RebuildInv
  <2>9. /\ ticker' \in [pc : {"rest", "lottery", "shares", "batch"}, at : Nat, stop : BOOLEAN]
        /\ reachable' \in Heights \cup {0}
    BY <2>6 DEF RebuildInv, TickBegins
  <2> QED
    BY <1>1, <1>2, <2>1, <2>3, <2>5, <2>6, <2>7, <2>8, <2>9 DEF RebuildInv, Ticks
<1>3. CASE TickGoes("shares") /\ UNCHANGED opened
  BY <1>1, <1>3 DEF RebuildInv, TickBegins, TickGoes, Ticks
<1> QED
  BY <1>2, <1>3 DEF TickBegins

LEMMA RereadsBlock_Inv == RebuildInv /\ RereadsBlock => RebuildInv'
<1> SUFFICES ASSUME RebuildInv, RereadsBlock PROVE RebuildInv'
  OBVIOUS
<1> DEFINE h == ticker.at
<1>1. /\ h \in 1..opened.indexed /\ h \in Heights /\ ticker'.at = h + 1 /\ ticker'.pc = "lottery"
      /\ ~opened.lotteryV /\ opened.indexed \in Nat
      /\ ticker' = [ticker EXCEPT !.at = h + 1]
  BY RebuildsAssumption DEF RebuildInv, RereadsBlock, Ticks, RowsOK, Database, Heights
<1>2. opened \in Database /\ opened.wins \in Versions
  BY DEF RebuildInv, RowsOK, Database
<1>3. CASE opened' = [opened EXCEPT !.wins = [x \in DOMAIN @ \cup {h} |-> "new"]]
  <2> DEFINE wins == [x \in DOMAIN opened.wins \cup {h} |-> "new"]
  <2>1. wins \in Versions
    BY <1>1, <1>2, VersionsMade, VersionsRead
  <2>2. opened' = [opened EXCEPT !.wins = wins]
    BY <1>2, <1>3 DEF Database
  <2>9. DOMAIN wins = DOMAIN opened.wins \cup {h} /\ \A x \in DOMAIN wins : wins[x] = "new"
    OBVIOUS
  <2> HIDE DEF wins
  <2>10. opened' \in Database
    BY <1>2, <2>1, <2>2 DEF Database
  <2>3. /\ opened'.wins = wins
        /\ opened'.indexed = opened.indexed /\ opened'.lotteryV = opened.lotteryV
        /\ opened'.shareV = opened.shareV /\ opened'.shares = opened.shares
        /\ opened'.early = opened.early /\ opened'.missed = opened.missed
    BY <1>2, <2>2 DEF Database
  <2>4. RowsOK(opened')
    BY <1>1, <2>3, <2>9, <2>10 DEF RebuildInv, RowsOK
  <2>5. WinsNew(opened', h)
    BY <1>1, <2>3, <2>9 DEF RebuildInv, WinsNew, RereadsBlock
  <2> QED
    BY <1>1, <2>3, <2>4, <2>5, <2>9 DEF RebuildInv, RereadsBlock, Ticks
<1>4. CASE opened' = [opened EXCEPT !.missed = @ \cup {h}]
  <2>2. opened' \in Database
    BY <1>1, <1>2, <1>4 DEF Database
  <2>3. /\ opened'.missed = opened.missed \cup {h} /\ opened'.wins = opened.wins
        /\ opened'.indexed = opened.indexed /\ opened'.lotteryV = opened.lotteryV
        /\ opened'.shareV = opened.shareV /\ opened'.shares = opened.shares
        /\ opened'.early = opened.early
    BY <1>2, <1>4 DEF Database
  <2>4. RowsOK(opened')
    BY <1>1, <2>2, <2>3 DEF RebuildInv, RowsOK
  <2>5. WinsNew(opened', h)
    BY <1>1, <2>3 DEF RebuildInv, WinsNew, RereadsBlock
  <2> QED
    BY <1>1, <2>3, <2>4, <2>5 DEF RebuildInv, RereadsBlock, Ticks
<1> QED
  BY <1>3, <1>4 DEF RereadsBlock

LEMMA RebuildCut_Inv == RebuildInv /\ RebuildCut => RebuildInv'
  BY DEF RebuildInv, RebuildCut, TickGoes, Ticks

LEMMA LotteryRebuilt_Inv == RebuildInv /\ LotteryRebuilt => RebuildInv'
<1> SUFFICES ASSUME RebuildInv, LotteryRebuilt PROVE RebuildInv'
  OBVIOUS
<1>1. /\ opened \in Database /\ opened' = [opened EXCEPT !.lotteryV = TRUE] /\ stored' = opened'
      /\ ticker.at = opened.indexed + 1 /\ ~opened.lotteryV /\ WinsNew(opened, ticker.at - 1)
      /\ opened.indexed \in Nat
  <2>1. opened \in Database /\ opened.indexed \in Nat
    BY IndexedHeights DEF RebuildInv, RowsOK, Database
  <2>2. ticker.at \in 1..opened.indexed + 1 /\ ticker.at > opened.indexed
    BY DEF RebuildInv, LotteryRebuilt
  <2>3. ticker.at = opened.indexed + 1
    BY <2>1, <2>2
  <2> QED
    BY <2>1, <2>3 DEF RebuildInv, LotteryRebuilt
<1>2. opened' \in Database
  BY <1>1 DEF Database
<1>3. /\ opened'.missed = opened.missed /\ opened'.wins = opened.wins
      /\ opened'.indexed = opened.indexed /\ opened'.lotteryV = TRUE
      /\ opened'.shareV = opened.shareV /\ opened'.shares = opened.shares
      /\ opened'.early = opened.early
  BY <1>1 DEF Database
<1>4. WinsNew(opened', opened'.indexed)
  BY <1>1, <1>3 DEF WinsNew
<1>5. opened'.shareV => SharesAgree(opened')
  BY <1>1, <1>3 DEF RebuildInv, RowsOK, SharesAgree
<1>6. RowsOK(opened')
  BY <1>2, <1>3, <1>4, <1>5 DEF RebuildInv, RowsOK
<1> QED
  BY <1>1, <1>6 DEF RebuildInv, LotteryRebuilt, TickGoes, Ticks

LEMMA SharesRebuilt_Inv == RebuildInv /\ SharesRebuilt => RebuildInv'
<1> SUFFICES ASSUME RebuildInv, SharesRebuilt PROVE RebuildInv'
  OBVIOUS
<1> DEFINE all  == 1..opened.indexed
           tags == Tags(all, opened.wins)
<1>1. RowsOK(opened')
  <2>1. CASE opened.shareV
    BY <2>1 DEF RebuildInv, SharesRebuilt
  <2>2. CASE ~opened.shareV
    <3>1. opened \in Database /\ all \subseteq Heights
      BY RebuildsAssumption DEF RebuildInv, RowsOK, Database, Heights
    <3>2. opened' = [opened EXCEPT !.shares = tags, !.shareV = TRUE,
                                   !.early = IF opened.lotteryV THEN {} ELSE all]
      BY <2>2 DEF SharesRebuilt
    <3>3. AreTags(tags, all, opened.wins)
      BY TagsAre
    <3>6. tags \in Versions
      BY <3>1, TagsTyped DEF Database
    <3> HIDE DEF tags
    <3>7. opened' \in Database
      BY <3>1, <3>2, <3>6 DEF Database
    <3>8. /\ opened'.missed = opened.missed /\ opened'.wins = opened.wins
          /\ opened'.indexed = opened.indexed /\ opened'.lotteryV = opened.lotteryV
          /\ opened'.shareV = TRUE /\ opened'.shares = tags
          /\ opened'.early = IF opened.lotteryV THEN {} ELSE all
      BY <3>1, <3>2 DEF Database
    <3>9. opened.lotteryV => WinsNew(opened', opened'.indexed) /\ SharesAgree(opened')
      BY <3>3, <3>8 DEF RebuildInv, RowsOK, WinsNew, SharesAgree, AreTags
    <3> QED
      BY <3>3, <3>7, <3>8, <3>9 DEF RebuildInv, RowsOK, AreTags
  <2> QED
    BY <2>1, <2>2
<1> QED
  BY <1>1 DEF RebuildInv, SharesRebuilt, TickGoes, Ticks

LEMMA IndexesBlocks_Inv == RebuildInv /\ IndexesBlocks => RebuildInv'
<1> SUFFICES ASSUME RebuildInv, IndexesBlocks PROVE RebuildInv'
  OBVIOUS
<1>1. PICK n \in opened.indexed..IF ticker.stop \/ reachable < opened.indexed
                                 THEN opened.indexed ELSE reachable :
        LET new  == opened.indexed + 1..n
            wins == [h \in DOMAIN opened.wins \cup new |->
                        IF h \in new THEN "new" ELSE opened.wins[h]]
            tags == Tags(new, wins)
        IN  /\ opened' = [opened EXCEPT !.indexed = n, !.wins = wins,
                  !.shares = [h \in DOMAIN @ \cup DOMAIN tags |->
                                 IF h \in new THEN tags[h] ELSE @[h]],
                  !.early = IF opened.lotteryV THEN @ ELSE @ \cup new]
            /\ stored' \in {stored, opened'}
  BY DEF IndexesBlocks
<1> DEFINE new    == opened.indexed + 1..n
           wins   == [h \in DOMAIN opened.wins \cup new |->
                         IF h \in new THEN "new" ELSE opened.wins[h]]
           tags   == Tags(new, wins)
           shares == [h \in DOMAIN opened.shares \cup DOMAIN tags |->
                         IF h \in new THEN tags[h] ELSE opened.shares[h]]
           early  == IF opened.lotteryV THEN opened.early ELSE opened.early \cup new
<1>2. /\ opened \in Database /\ n \in Heights \cup {0} /\ opened.indexed \in Nat /\ n \in Nat
      /\ opened.indexed <= n /\ new \subseteq Heights /\ 1..opened.indexed \subseteq Heights
  BY RebuildsAssumption DEF RebuildInv, RowsOK, Database, Heights
<1>3. /\ \A h \in DOMAIN opened.wins : opened.wins[h] \in {"old", "new"} /\ h \in 1..opened.indexed
      /\ \A h \in DOMAIN opened.shares : opened.shares[h] \in {"old", "new"} /\ h \in 1..opened.indexed
  BY <1>2, VersionsRead DEF RebuildInv, RowsOK, Database
<1>4. wins \in [DOMAIN opened.wins \cup new -> {"old", "new"}]
  BY <1>3
<1>5. wins \in Versions
  BY <1>2, <1>3, <1>4, VersionsMade
<1>6. AreTags(tags, new, wins)
  BY TagsAre
<1>7. /\ DOMAIN wins = DOMAIN opened.wins \cup new
      /\ \A h \in new : wins[h] = "new"
      /\ \A h \in DOMAIN opened.wins : wins[h] = opened.wins[h]
  BY <1>3, <1>2
<1>20. \A h \in DOMAIN tags : tags[h] \in {"old", "new"}
  BY <1>2, <1>5, TagsTyped, VersionsRead
<1> HIDE DEF wins, tags
<1>21. DOMAIN tags \subseteq new
  BY <1>6 DEF AreTags
<1>8. shares \in [DOMAIN opened.shares \cup DOMAIN tags -> {"old", "new"}]
  <2>1. \A h \in DOMAIN opened.shares : h \notin new /\ opened.shares[h] \in {"old", "new"}
    BY <1>2, <1>3
  <2> QED
    BY <1>20, <1>21, <2>1
<1>9. shares \in Versions
  BY <1>2, <1>3, <1>21, <1>8, VersionsMade
<1>10. /\ DOMAIN shares = DOMAIN opened.shares \cup DOMAIN tags
       /\ \A h \in DOMAIN tags : shares[h] = tags[h]
       /\ \A h \in DOMAIN opened.shares : shares[h] = opened.shares[h]
  BY <1>2, <1>3, <1>21
<1>11. opened' = [opened EXCEPT !.indexed = n, !.wins = wins, !.shares = shares, !.early = early]
  BY <1>1, <1>2 DEF Database, wins, tags
<1> HIDE DEF shares
<1>12. opened' \in Database
  BY <1>2, <1>5, <1>9, <1>11 DEF Database
<1>13. /\ opened'.missed = opened.missed /\ opened'.wins = wins /\ opened'.indexed = n
       /\ opened'.lotteryV = opened.lotteryV /\ opened'.shareV = opened.shareV
       /\ opened'.shares = shares /\ opened'.early = early
  BY <1>2, <1>11 DEF Database
<1>14. opened.lotteryV => WinsNew(opened', n)
  BY <1>2, <1>7, <1>13 DEF RebuildInv, RowsOK, WinsNew
<1>15. ASSUME opened.lotteryV, opened.shareV PROVE SharesAgree(opened')
  <2>1. ASSUME NEW h \in 1..n \ opened.early
        PROVE  IF SharedBy[h] \in DOMAIN wins
               THEN h \in DOMAIN shares /\ shares[h] = "new" ELSE h \notin DOMAIN shares
    <3>1. CASE h \in new
      <4>1. h \notin DOMAIN opened.shares
        BY <1>2, <1>3, <3>1
      <4>2. SharedBy[h] \in DOMAIN wins => wins[SharedBy[h]] = "new"
        BY <1>2, <1>3, <1>7, <1>15 DEF RebuildInv, RowsOK, WinsNew
      <4> QED
        BY <1>6, <1>10, <3>1, <4>1, <4>2 DEF AreTags
    <3>2. CASE h \in 1..opened.indexed
      <4>1. SharedBy[h] \notin new
        BY <1>2, <3>2, RebuildsAssumption DEF Heights
      <4>2. h \notin DOMAIN tags
        BY <1>2, <1>21, <3>2
      <4>3. IF SharedBy[h] \in DOMAIN opened.wins
            THEN h \in DOMAIN opened.shares /\ opened.shares[h] = "new"
            ELSE h \notin DOMAIN opened.shares
        BY <1>15, <2>1, <3>2 DEF RebuildInv, RowsOK, SharesAgree
      <4> QED
        BY <1>7, <1>10, <4>1, <4>2, <4>3
    <3> QED
      BY <1>2, <3>1, <3>2
  <2> QED
    BY <1>13, <1>15, <2>1 DEF SharesAgree
<1>16. DOMAIN wins \subseteq 1..n /\ DOMAIN shares \subseteq 1..n
  BY <1>2, <1>3, <1>21, <1>7, <1>10
<1>17. opened.shareV /\ ~opened.lotteryV => 1..n \subseteq early
  BY <1>2 DEF RebuildInv, RowsOK
<1>18. RowsOK(opened')
  BY <1>12, <1>13, <1>14, <1>15, <1>16, <1>17 DEF RowsOK
<1>19. RowsOK(stored')
  BY <1>1, <1>18 DEF RebuildInv
<1> QED
  BY <1>18, <1>19 DEF RebuildInv, IndexesBlocks, TickGoes, Ticks

LEMMA Pauses_Inv == RebuildInv /\ (TickBreaks \/ StopAsked \/ ExplorerRestarts) => RebuildInv'
<1> SUFFICES ASSUME RebuildInv, TickBreaks \/ StopAsked \/ ExplorerRestarts PROVE RebuildInv'
  OBVIOUS
<1>1. CASE TickBreaks
  BY <1>1 DEF RebuildInv, TickBreaks, TickGoes, Ticks
<1>2. CASE StopAsked
  BY <1>2 DEF RebuildInv, StopAsked, Ticks
<1>3. CASE ExplorerRestarts
  BY <1>3 DEF RebuildInv, ExplorerRestarts, Ticks
<1> QED
  BY <1>1, <1>2, <1>3

LEMMA RebuildNext_Inv == RebuildInv /\ [RebuildNext]_rebuildVars => RebuildInv'
<1>1. RebuildInv /\ UNCHANGED rebuildVars => RebuildInv'
  BY DEF RebuildInv, rebuildVars, Ticks
<1> QED
  BY <1>1, NodeMoves_Inv, TickBegins_Inv, RereadsBlock_Inv, RebuildCut_Inv, LotteryRebuilt_Inv,
     SharesRebuilt_Inv, IndexesBlocks_Inv, Pauses_Inv DEF RebuildNext

\* What the versions promise of the committed tables holds however the rebuilds,
\* ticks, stops, failed calls and crashes come, for every chain and every number
\* of blocks an older explorer has indexed (_maybe_rebuild_lottery,
\* _rebuild_shares and the commits between them).
THEOREM RebuildSpec_Exact == RebuildSpec => []RebuildsExact
<1>1. RebuildInit => RebuildInv
  BY RebuildInit_Inv
<1>2. RebuildInv /\ [RebuildNext]_rebuildVars => RebuildInv'
  BY RebuildNext_Inv
<1>3. RebuildInv => RebuildsExact
  BY DEF RebuildInv, RowsOK, WinsNew, SharesAgree, RebuildsExact
<1> QED
  BY <1>1, <1>2, <1>3, PTL DEF RebuildSpec

-----------------------------------------------------------------------------
(* The supply page.                                                        *)

\* At no height is more burned than was issued.
BurnsKept ==
    /\ burns \in Seq(Nat)
    /\ \A n \in 0 .. Len(burns) : Total(SubSeq(burns, 1, n)) <= Circulating(n, Interval)

\* What is noted at the height of a reading: at least what is left of it now,
\* unless a rewind has fallen into the reading.
ReadingKept ==
    \/ reading = NotReading
    \/ /\ reading \in [pc : {"burned"}, now : Nat, height : Nat, spoilt : BOOLEAN, left : Nat]
       /\ reading.spoilt \/ Circulating(reading.height, Interval) - Total(burns) <= reading.left

\* Figures that can be shown.
Sound(figures) ==
    figures # NoFigures =>
        /\ 0 <= figures.total /\ figures.issued <= figures.max
        /\ figures.total + figures.burned = figures.issued
        /\ figures.spoilt \/ figures.total <= figures.left

SupplyInv ==
    /\ BurnsKept /\ ReadingKept
    /\ supplyNow \in Nat
    /\ Sound(supply.value) /\ Sound(supplyShown)

LEMMA IssuedTyped == \A n \in Nat : Circulating(n, Interval) \in Nat
  BY CirculatingTyped, SupplyAssumption

\* The whole of what is burned.
LEMMA AllBurned ==
    ASSUME BurnsKept
    PROVE  /\ Total(burns) \in Int /\ Len(burns) \in Nat
           /\ Total(burns) <= Circulating(Len(burns), Interval)
<1>1. burns \in Seq(Int) /\ burns \in Seq(Nat) /\ Len(burns) \in Nat
  BY DEF BurnsKept
<1>2. Total(burns) \in Int
  BY <1>1, SumAppended
<1>3. SubSeq(burns, 1, Len(burns)) = burns
  BY <1>1
<1>4. Len(burns) \in 0 .. Len(burns)
  BY <1>1
<1> QED
  BY <1>1, <1>2, <1>3, <1>4 DEF BurnsKept

LEMMA BlockBurnsCoins_Inv ==
    ASSUME SupplyInv, NEW b \in BlockBurns, BlockBurnsCoins(b)
    PROVE  SupplyInv'
<1>1. b \in Nat /\ burns \in Seq(Nat) /\ burns \in Seq(Int) /\ burns' = Append(burns, b)
  BY SupplyAssumption DEF SupplyInv, BurnsKept, BlockBurnsCoins
<1>2. /\ burns' \in Seq(Nat) /\ Len(burns) \in Nat /\ Len(burns') = Len(burns) + 1
      /\ SubSeq(burns', 1, Len(burns')) = burns'
      /\ \A n \in 0 .. Len(burns) : SubSeq(burns', 1, n) = SubSeq(burns, 1, n)
  BY <1>1
<1>3. Total(burns') = Total(burns) + b /\ Total(burns) \in Int
  BY <1>1, SumAppended
<1>4. Total(burns') <= Circulating(Len(burns'), Interval)
  BY <1>2, <1>3 DEF BlockBurnsCoins
<1>5. BurnsKept'
  <2>1. ASSUME NEW n \in 0 .. Len(burns') PROVE Total(SubSeq(burns', 1, n)) <= Circulating(n, Interval)
    <3>1. CASE n = Len(burns')
      BY <1>2, <1>4, <3>1
    <3>2. CASE n # Len(burns')
      <4>1. n \in 0 .. Len(burns)
        BY <1>2, <3>2
      <4> QED
        BY <1>2, <4>1 DEF SupplyInv, BurnsKept
    <3> QED
      BY <3>1, <3>2
  <2> QED
    BY <1>2, <2>1 DEF BurnsKept
<1>6. ReadingKept'
  <2>1. reading' = reading
    BY DEF BlockBurnsCoins
  <2>2. CASE reading = NotReading
    BY <2>1, <2>2 DEF ReadingKept
  <2>3. CASE reading # NotReading
    <3>1. /\ reading \in [pc : {"burned"}, now : Nat, height : Nat, spoilt : BOOLEAN, left : Nat]
          /\ reading.spoilt \/ Circulating(reading.height, Interval) - Total(burns) <= reading.left
      BY <2>3 DEF SupplyInv, ReadingKept
    <3>2. reading.height \in Nat /\ reading.left \in Nat
      BY <3>1
    <3> DEFINE c == Circulating(reading.height, Interval)
               l == reading.left
               x == Total(burns)
    <3>3. c \in Nat /\ l \in Nat /\ x \in Int
      BY <1>3, <3>2, IssuedTyped
    <3>4. reading.spoilt \/ c - x <= l
      BY <3>1
    <3> HIDE DEF c, l, x
    <3>5. reading.spoilt \/ c - (x + b) <= l
      BY <1>1, <3>3, <3>4
    <3>6. reading.spoilt \/ Circulating(reading.height, Interval) - Total(burns') <= reading.left
      BY <1>3, <3>5 DEF c, l, x
    <3> QED
      BY <2>1, <3>1, <3>6 DEF ReadingKept
  <2> QED
    BY <2>2, <2>3
<1> QED
  BY <1>5, <1>6 DEF SupplyInv, BlockBurnsCoins

LEMMA BurnsRewound_Inv ==
    ASSUME SupplyInv, NEW n \in 0 .. SupplyBlocks, BurnsRewound(n)
    PROVE  SupplyInv'
<1>1. /\ n \in Nat /\ burns \in Seq(Nat) /\ burns' = SubSeq(burns, 1, n) /\ n < Len(burns)
      /\ Len(burns) \in Nat
  BY SupplyAssumption DEF SupplyInv, BurnsKept, BurnsRewound
<1>2. /\ burns' \in Seq(Nat) /\ Len(burns') = n
      /\ \A k \in 0 .. n : SubSeq(burns', 1, k) = SubSeq(burns, 1, k) /\ k \in 0 .. Len(burns)
  BY <1>1
<1>3. BurnsKept'
  BY <1>1, <1>2 DEF SupplyInv, BurnsKept
<1>4. ReadingKept'
  <2>1. CASE reading = NotReading
    BY <2>1 DEF BurnsRewound, ReadingKept, NotReading
  <2>2. CASE reading # NotReading
    <3>1. reading \in [pc : {"burned"}, now : Nat, height : Nat, spoilt : BOOLEAN, left : Nat]
      BY <2>2 DEF SupplyInv, ReadingKept
    <3>2. reading' = [reading EXCEPT !.spoilt = TRUE]
      BY <3>1 DEF BurnsRewound
    <3>3. /\ reading' \in [pc : {"burned"}, now : Nat, height : Nat, spoilt : BOOLEAN, left : Nat]
          /\ reading'.spoilt
      BY <3>1, <3>2
    <3> QED
      BY <3>3 DEF ReadingKept
  <2> QED
    BY <2>1, <2>2
<1> QED
  BY <1>3, <1>4 DEF SupplyInv, BurnsRewound

LEMMA ReadsHeight_Inv == SupplyInv /\ ReadsHeight => SupplyInv'
<1> SUFFICES ASSUME SupplyInv, ReadsHeight PROVE SupplyInv'
  OBVIOUS
<1> DEFINE h == Len(burns)
           c == Circulating(h, Interval)
           x == Total(burns)
<1>1. h \in Nat /\ x \in Int /\ x <= c
  BY AllBurned DEF SupplyInv
<1>2. c \in Nat
  BY <1>1, IssuedTyped
<1>3. reading' = [pc |-> "burned", now |-> supplyNow, height |-> h, spoilt |-> FALSE, left |-> c - x]
  BY DEF ReadsHeight
<1>4. burns' = burns
  BY DEF ReadsHeight
<1>5. ReadingKept'
  <2> HIDE DEF x, h, c
  <2>1. c - x \in Nat
    BY <1>1, <1>2
  <2>2. reading' \in [pc : {"burned"}, now : Nat, height : Nat, spoilt : BOOLEAN, left : Nat]
    BY <1>1, <1>3, <2>1 DEF SupplyInv
  <2>3. reading'.height = h /\ reading'.left = c - x
    BY <1>3
  <2>4. Circulating(reading'.height, Interval) - Total(burns') <= reading'.left
    <3>1. c - x <= c - x
      BY <1>1, <1>2
    <3> QED
      BY <1>4, <2>3, <3>1 DEF c, x
  <2> QED
    BY <2>2, <2>4 DEF ReadingKept
<1> QED
  BY <1>5 DEF SupplyInv, ReadsHeight, BurnsKept

LEMMA ReadsBurned_Inv == SupplyInv /\ ReadsBurned => SupplyInv'
<1> SUFFICES ASSUME SupplyInv, ReadsBurned PROVE SupplyInv'
  OBVIOUS
<1> DEFINE h == reading.height
           c == Circulating(h, Interval)
           x == Total(burns)
           least == IF x < c THEN x ELSE c
           value == FiguresOf(reading, x)
<1>1. /\ reading \in [pc : {"burned"}, now : Nat, height : Nat, spoilt : BOOLEAN, left : Nat]
      /\ reading.spoilt \/ c - x <= reading.left
  BY DEF SupplyInv, ReadingKept, ReadsBurned, NotReading
<1>2. h \in Nat /\ reading.left \in Nat /\ c \in Nat /\ x \in Int /\ Len(burns) \in Nat
  <2>1. h \in Nat /\ reading.left \in Nat
    BY <1>1
  <2> QED
    BY <2>1, IssuedTyped, AllBurned DEF SupplyInv
<1>3. c <= LifetimeSupply(Interval)
  BY <1>2, SupplyAssumption, LifetimeReached
<1>4. /\ value.left = reading.left /\ value.spoilt = reading.spoilt
      /\ value.issued = c /\ value.burned = least /\ value.total = c - least
      /\ value.max = LifetimeSupply(Interval)
  BY DEF FiguresOf
<1>5. supplyShown' = value /\ supply'.value = value /\ reading' = NotReading
      /\ UNCHANGED <<burns, supplyNow>>
  BY DEF ReadsBurned
<1> HIDE DEF value
<1>6. Sound(value)
  <2> HIDE DEF c, x
  <2>1. 0 <= c - least /\ (c - least) + least = c
    BY <1>2
  <2>2. reading.spoilt \/ c - least <= reading.left
    BY <1>1, <1>2
  <2> QED
    BY <1>3, <1>4, <2>1, <2>2 DEF Sound
<1> QED
  BY <1>5, <1>6 DEF SupplyInv, BurnsKept, ReadingKept, Sound

LEMMA SupplyStep == SupplyInv /\ [SupplyNext]_supplyVars => SupplyInv'
<1> SUFFICES ASSUME SupplyInv, [SupplyNext]_supplyVars PROVE SupplyInv'
  OBVIOUS
<1>1. CASE UNCHANGED supplyVars
  BY <1>1 DEF SupplyInv, BurnsKept, ReadingKept, Sound, supplyVars
<1>2. CASE SupplyTicks
  BY <1>2 DEF SupplyInv, BurnsKept, ReadingKept, Sound, SupplyTicks
<1>3. CASE ServesSnapshot
  BY <1>3 DEF SupplyInv, BurnsKept, ReadingKept, Sound, ServesSnapshot
<1>4. CASE SupplyReadFails
  BY <1>4 DEF SupplyInv, BurnsKept, ReadingKept, Sound, SupplyReadFails
<1>5. CASE ReadsHeight
  BY <1>5, ReadsHeight_Inv
<1>6. CASE ReadsBurned
  BY <1>6, ReadsBurned_Inv
<1>7. ASSUME NEW b \in BlockBurns, BlockBurnsCoins(b) PROVE SupplyInv'
  BY <1>7, BlockBurnsCoins_Inv
<1>8. ASSUME NEW n \in 0 .. SupplyBlocks, BurnsRewound(n) PROVE SupplyInv'
  BY <1>8, BurnsRewound_Inv
<1> QED
  BY <1>1, <1>2, <1>3, <1>4, <1>5, <1>6, <1>7, <1>8 DEF SupplyNext

LEMMA SupplyInit_Inv == SupplyInit => SupplyInv
<1> SUFFICES ASSUME SupplyInit PROVE SupplyInv
  OBVIOUS
<1>1. burns = <<>> /\ burns \in Seq(Nat) /\ Len(burns) = 0 /\ SubSeq(burns, 1, 0) = <<>>
  BY DEF SupplyInit
<1>2. Total(<<>>) = 0
  <2>1. PICK f : AreSums(f, <<>>, 0) /\ Total(<<>>) = f[0]
    BY TotalIsSum
  <2> QED
    BY <2>1, SumSteps
<1>3. BurnsKept
  <2>1. \A n \in 0 .. Len(burns) : n = 0
    BY <1>1
  <2>2. Circulating(0, Interval) = 0 /\ Total(SubSeq(burns, 1, 0)) = 0
    BY <1>1, <1>2, SupplyAssumption, CirculatingBegins
  <2>3. \A n \in 0 .. Len(burns) : Total(SubSeq(burns, 1, n)) <= Circulating(n, Interval)
    BY <2>1, <2>2
  <2> QED
    BY <1>1, <2>3 DEF BurnsKept
<1> QED
  BY <1>3 DEF SupplyInit, SupplyInv, ReadingKept, Sound

\* Whatever is committed or cut back between the two statements of a snapshot,
\* the supply page never shows more coins than there were at the height it names,
\* nor more than the schedule will ever issue (compute_supply, SupplyCache.get).
THEOREM SupplySpec_Sound == SupplySpec => []SupplySound
<1>1. SupplyInv => SupplySound
  BY DEF SupplyInv, Sound, SupplySound
<1> QED
  BY <1>1, SupplyInit_Inv, SupplyStep, PTL DEF SupplySpec

-----------------------------------------------------------------------------
(* Rows and fills of the relay's markets.                                  *)

MarketsOK(markets) ==
    LET fills(m) == markets[m].fills
    IN  /\ markets \in Seq(ToSet(markets))
        /\ \A m \in DOMAIN markets : fills(m) \in Seq(ToSet(fills(m)))
        /\ \A m, l \in DOMAIN markets : \A f \in DOMAIN fills(m), g \in DOMAIN fills(l) :
              fills(m)[f].source = "refund" /\ fills(l)[g].source # "refund"
              => fills(m)[f].txid # fills(l)[g].txid

ViewOf(market, fill) ==
    [side |-> fill.side, asset |-> market.name,
     payment |-> fill.txid, delivery |-> fill.delivery,
     delivering |-> OnTheWay(fill), venue |-> Venue(fill)]

\* Each row is of the b[k]-th fill of the a[k]-th market.
RowsAt(markets, rows, a, b) ==
    /\ \A k \in 1 .. Len(rows) :
          /\ a[k] \in DOMAIN markets /\ b[k] \in DOMAIN markets[a[k]].fills
          /\ rows[k] = FillRow(markets[a[k]], markets[a[k]].fills[b[k]])
    /\ \A m \in DOMAIN markets : \A f \in DOMAIN markets[m].fills :
          \E k \in 1 .. Len(rows) : a[k] = m /\ b[k] = f
    /\ InOrder(a, b, Len(rows))

\* Each view is of such a fill that is no refund.
ViewsAt(markets, views, a, b) ==
    /\ \A k \in 1 .. Len(views) :
          /\ a[k] \in DOMAIN markets /\ b[k] \in DOMAIN markets[a[k]].fills
          /\ markets[a[k]].fills[b[k]].source # "refund"
          /\ views[k] = ViewOf(markets[a[k]], markets[a[k]].fills[b[k]])
    /\ \A m \in DOMAIN markets : \A f \in DOMAIN markets[m].fills :
          markets[m].fills[f].source # "refund"
          => \E k \in 1 .. Len(views) : a[k] = m /\ b[k] = f
    /\ InOrder(a, b, Len(views))

LEMMA RowPlaces ==
    ASSUME NEW markets, MarketsOK(markets)
    PROVE  /\ TradesFromMarkets(markets) \in Seq(ToSet(TradesFromMarkets(markets)))
           /\ \E a, b : RowsAt(markets, TradesFromMarkets(markets), a, b)
<1> DEFINE n == Len(markets)
           R == [m \in DOMAIN markets |->
                    [f \in DOMAIN markets[m].fills |-> FillRow(markets[m], markets[m].fills[f])]]
           S == {FillRow(markets[m], markets[m].fills[f]) :
                    m \in DOMAIN markets, f \in UNION {DOMAIN markets[l].fills : l \in DOMAIN markets}}
<1>1. n \in Nat /\ DOMAIN markets = 1 .. n
  BY DEF MarketsOK
<1>2. ASSUME NEW m \in 1 .. n
      PROVE  /\ Len(markets[m].fills) \in Nat
             /\ DOMAIN markets[m].fills = 1 .. Len(markets[m].fills)
  <2>1. markets[m].fills \in Seq(ToSet(markets[m].fills))
    BY <1>1 DEF MarketsOK
  <2> QED
    BY <2>1
<1>3. ASSUME NEW m \in 1 .. n
      PROVE  /\ R[m] \in Seq(S) /\ Len(R[m]) = Len(markets[m].fills)
             /\ \A f \in 1 .. Len(R[m]) : R[m][f] = FillRow(markets[m], markets[m].fills[f])
  <2> DEFINE r == [f \in 1 .. Len(markets[m].fills) |-> FillRow(markets[m], markets[m].fills[f])]
  <2>1. \A f \in 1 .. Len(markets[m].fills) : FillRow(markets[m], markets[m].fills[f]) \in S
    BY <1>1, <1>2
  <2> HIDE DEF S
  <2>2. r \in Seq(S) /\ Len(r) = Len(markets[m].fills)
        /\ \A f \in 1 .. Len(r) : r[f] = FillRow(markets[m], markets[m].fills[f])
    BY <1>2, <2>1
  <2>3. R[m] = r
    BY <1>1, <1>2
  <2> QED
    BY <2>2, <2>3
<1> HIDE DEF S
<1>4. R \in Seq(Seq(S)) /\ Len(R) = n
  <2>1. R = [m \in 1 .. n |-> R[m]]
    BY <1>1
  <2> HIDE DEF R, n
  <2> QED
    BY <1>1, <1>3, <2>1
<1>5. TradesFromMarkets(markets) = FlattenSeq(R)
  BY DEF TradesFromMarkets
<1> HIDE DEF R, n
<1>6. FlattenSeq(R) \in Seq(S)
  BY <1>4, FlattenPlaces
<1>7. PICK a, b : FlatPlaces(R, n, FlattenSeq(R), a, b)
  BY <1>4, FlattenPlaces
<1>8. RowsAt(markets, FlattenSeq(R), a, b)
  <2> DEFINE F == FlattenSeq(R)
  <2> HIDE DEF F
  <2>1. /\ \A k \in 1 .. Len(F) :
              a[k] \in 1 .. n /\ b[k] \in 1 .. Len(R[a[k]]) /\ F[k] = R[a[k]][b[k]]
        /\ \A m \in 1 .. n : \A f \in 1 .. Len(R[m]) : \E k \in 1 .. Len(F) : a[k] = m /\ b[k] = f
        /\ InOrder(a, b, Len(F))
    BY <1>7 DEF FlatPlaces, F
  <2>2. ASSUME NEW k \in 1 .. Len(F)
        PROVE  /\ a[k] \in DOMAIN markets /\ b[k] \in DOMAIN markets[a[k]].fills
               /\ F[k] = FillRow(markets[a[k]], markets[a[k]].fills[b[k]])
    BY <1>1, <1>2, <1>3, <2>1
  <2>3. \A m \in DOMAIN markets : \A f \in DOMAIN markets[m].fills :
           \E k \in 1 .. Len(F) : a[k] = m /\ b[k] = f
    <3> TAKE m \in DOMAIN markets
    <3> TAKE f \in DOMAIN markets[m].fills
    <3>1. m \in 1 .. n /\ f \in 1 .. Len(R[m])
      BY <1>1, <1>2, <1>3
    <3> QED
      BY <2>1, <3>1
  <2>4. RowsAt(markets, F, a, b)
    BY <2>1, <2>2, <2>3 DEF RowsAt
  <2> QED
    BY <2>4 DEF F
<1>9. FlattenSeq(R) \in Seq(ToSet(FlattenSeq(R)))
  BY <1>6 DEF ToSet
<1> QED
  BY <1>5, <1>8, <1>9

LEMMA ViewPlaces ==
    ASSUME NEW markets, MarketsOK(markets)
    PROVE  /\ FillViews(markets) \in Seq(ToSet(FillViews(markets)))
           /\ \E a, b : ViewsAt(markets, FillViews(markets), a, b)
<1> DEFINE n == Len(markets)
           W(m) == [f \in DOMAIN markets[m].fills |-> FillView(markets[m], markets[m].fills[f])]
           V == [m \in DOMAIN markets |-> FlattenSeq(W(m))]
           S == {ViewOf(markets[m], markets[m].fills[f]) :
                    m \in DOMAIN markets, f \in UNION {DOMAIN markets[l].fills : l \in DOMAIN markets}}
<1>1. n \in Nat /\ DOMAIN markets = 1 .. n
  BY DEF MarketsOK
<1>2. ASSUME NEW m \in 1 .. n
      PROVE  /\ Len(markets[m].fills) \in Nat
             /\ DOMAIN markets[m].fills = 1 .. Len(markets[m].fills)
  <2>1. markets[m].fills \in Seq(ToSet(markets[m].fills))
    BY <1>1 DEF MarketsOK
  <2> QED
    BY <2>1
<1>3. ASSUME NEW m \in 1 .. n
      PROVE  /\ W(m) \in Seq(Seq(S)) /\ Len(W(m)) = Len(markets[m].fills)
             /\ \A f \in 1 .. Len(W(m)) : W(m)[f] = FillView(markets[m], markets[m].fills[f])
  <2> DEFINE r == [f \in 1 .. Len(markets[m].fills) |-> FillView(markets[m], markets[m].fills[f])]
  <2>1. \A f \in 1 .. Len(markets[m].fills) : FillView(markets[m], markets[m].fills[f]) \in Seq(S)
    <3>1. \A f \in 1 .. Len(markets[m].fills) : ViewOf(markets[m], markets[m].fills[f]) \in S
      BY <1>1, <1>2
    <3> HIDE DEF S
    <3> QED
      BY <3>1 DEF FillView, ViewOf
  <2> HIDE DEF S
  <2>2. r \in Seq(Seq(S)) /\ Len(r) = Len(markets[m].fills)
        /\ \A f \in 1 .. Len(r) : r[f] = FillView(markets[m], markets[m].fills[f])
    BY <1>2, <2>1
  <2>3. W(m) = r
    BY <1>1, <1>2
  <2> QED
    BY <2>2, <2>3
<1> HIDE DEF S
<1> DEFINE inner(m, c) == /\ \A k \in 1 .. Len(V[m]) :
                               /\ c[k] \in DOMAIN markets[m].fills
                               /\ markets[m].fills[c[k]].source # "refund"
                               /\ V[m][k] = ViewOf(markets[m], markets[m].fills[c[k]])
                          /\ \A f \in DOMAIN markets[m].fills :
                               markets[m].fills[f].source # "refund"
                               => \E k \in 1 .. Len(V[m]) : c[k] = f
                          /\ \A j, k \in 1 .. Len(V[m]) : j < k => c[j] < c[k]
           C == [m \in 1 .. n |-> CHOOSE c : inner(m, c)]
<1>4. ASSUME NEW m \in 1 .. n
      PROVE  V[m] \in Seq(S) /\ inner(m, C[m])
  <2> DEFINE w == W(m)
             v == FlattenSeq(w)
  <2>1. V[m] = v
    BY <1>1
  <2>2. w \in Seq(Seq(S)) /\ Len(w) = Len(markets[m].fills)
        /\ \A f \in 1 .. Len(w) : w[f] = FillView(markets[m], markets[m].fills[f])
    BY <1>3
  <2> HIDE DEF w
  <2>3. v \in Seq(S)
    BY <2>2, FlattenPlaces
  <2>4. PICK c, d : FlatPlaces(w, Len(w), v, c, d)
    BY <2>2, FlattenPlaces
  <2> HIDE DEF v
  <2>5. ASSUME NEW k \in 1 .. Len(v)
        PROVE  /\ c[k] \in DOMAIN markets[m].fills /\ d[k] = 1
               /\ markets[m].fills[c[k]].source # "refund"
               /\ v[k] = ViewOf(markets[m], markets[m].fills[c[k]])
    <3>1. c[k] \in 1 .. Len(w) /\ d[k] \in 1 .. Len(w[c[k]]) /\ v[k] = w[c[k]][d[k]]
      BY <2>4 DEF FlatPlaces
    <3>2. w[c[k]] = FillView(markets[m], markets[m].fills[c[k]])
      BY <2>2, <3>1
    <3>3. c[k] \in DOMAIN markets[m].fills
      BY <1>2, <2>2, <3>1
    <3>4. markets[m].fills[c[k]].source # "refund"
      <4> SUFFICES ASSUME markets[m].fills[c[k]].source = "refund" PROVE FALSE
        OBVIOUS
      <4>1. w[c[k]] = <<>>
        BY <3>2 DEF FillView
      <4> QED
        BY <3>1, <4>1
    <3>5. w[c[k]] = <<ViewOf(markets[m], markets[m].fills[c[k]])>>
      BY <3>2, <3>4 DEF FillView, ViewOf
    <3> HIDE DEF ViewOf
    <3>6. d[k] = 1
      BY <3>1, <3>5
    <3> QED
      BY <3>1, <3>3, <3>4, <3>5, <3>6
  <2>6. ASSUME NEW f \in DOMAIN markets[m].fills, markets[m].fills[f].source # "refund"
        PROVE  \E k \in 1 .. Len(v) : c[k] = f
    <3>0. w[f] = <<ViewOf(markets[m], markets[m].fills[f])>> /\ f \in 1 .. Len(w)
      BY <1>2, <2>2, <2>6 DEF FillView, ViewOf
    <3>1. f \in 1 .. Len(w) /\ Len(w[f]) = 1
      BY <3>0
    <3>2. 1 \in 1 .. Len(w[f])
      BY <3>1
    <3> QED
      BY <2>4, <3>1, <3>2 DEF FlatPlaces
  <2>7. \A j, k \in 1 .. Len(v) : j < k => c[j] < c[k]
    BY <2>4, <2>5 DEF FlatPlaces, InOrder
  <2> HIDE DEF V
  <2>8. inner(m, c)
    BY <2>1, <2>5, <2>6, <2>7
  <2> HIDE DEF inner
  <2>9. inner(m, CHOOSE x : inner(m, x))
    BY <2>8
  <2> QED
    BY <2>1, <2>3, <2>9
<1>5. V \in Seq(Seq(S)) /\ Len(V) = n
  <2>1. V = [m \in 1 .. n |-> V[m]]
    BY <1>1
  <2> HIDE DEF V, n, C
  <2> QED
    BY <1>1, <1>4, <2>1
<1>6. FillViews(markets) = FlattenSeq(V)
  BY DEF FillViews
<1> HIDE DEF V, C, n
<1>7. FlattenSeq(V) \in Seq(S)
  BY <1>5, FlattenPlaces
<1>8. PICK a, b : FlatPlaces(V, n, FlattenSeq(V), a, b)
  BY <1>5, FlattenPlaces
<1> DEFINE F == FlattenSeq(V)
           q == Len(F)
           e == [k \in 1 .. q |-> C[a[k]][b[k]]]
<1>9. q \in Nat
  BY <1>7
<1> HIDE DEF F, inner
<1>10. ViewsAt(markets, F, a, e)
  <2>1. ASSUME NEW k \in 1 .. q
        PROVE  /\ a[k] \in 1 .. n /\ b[k] \in 1 .. Len(V[a[k]]) /\ F[k] = V[a[k]][b[k]]
               /\ e[k] = C[a[k]][b[k]] /\ inner(a[k], C[a[k]])
    BY <1>4, <1>8 DEF FlatPlaces, F
  <2>2. \A m \in 1 .. n : inner(m, C[m])
    BY <1>4
  <2>3. \A m \in 1 .. n : \A x \in 1 .. Len(V[m]) : \E k \in 1 .. q : a[k] = m /\ b[k] = x
    BY <1>8 DEF FlatPlaces, F
  <2>4. InOrder(a, b, q)
    BY <1>8 DEF FlatPlaces, F
  <2> HIDE DEF e, q
  <2>5. ASSUME NEW k \in 1 .. q
        PROVE  /\ a[k] \in DOMAIN markets /\ e[k] \in DOMAIN markets[a[k]].fills
               /\ markets[a[k]].fills[e[k]].source # "refund"
               /\ F[k] = ViewOf(markets[a[k]], markets[a[k]].fills[e[k]])
    <3>1. /\ C[a[k]][b[k]] \in DOMAIN markets[a[k]].fills
          /\ markets[a[k]].fills[C[a[k]][b[k]]].source # "refund"
          /\ V[a[k]][b[k]] = ViewOf(markets[a[k]], markets[a[k]].fills[C[a[k]][b[k]]])
      BY <2>1 DEF inner
    <3> QED
      BY <1>1, <2>1, <3>1
  <2>6. ASSUME NEW m \in DOMAIN markets, NEW f \in DOMAIN markets[m].fills,
               markets[m].fills[f].source # "refund"
        PROVE  \E k \in 1 .. q : a[k] = m /\ e[k] = f
    <3>1. PICK x \in 1 .. Len(V[m]) : C[m][x] = f
      BY <1>1, <2>2, <2>6 DEF inner
    <3>2. PICK k \in 1 .. q : a[k] = m /\ b[k] = x
      BY <1>1, <2>3
    <3> QED
      BY <2>1, <3>1, <3>2
  <2>7. InOrder(a, e, q)
    <3> SUFFICES ASSUME NEW j \in 1 .. q, NEW k \in 1 .. q, j < k
                 PROVE  a[j] < a[k] \/ (a[j] = a[k] /\ e[j] < e[k])
      BY DEF InOrder
    <3>1. a[j] < a[k] \/ (a[j] = a[k] /\ b[j] < b[k])
      BY <2>4 DEF InOrder
    <3>2. ASSUME a[j] = a[k], b[j] < b[k] PROVE e[j] < e[k]
      BY <2>1, <3>2 DEF inner
    <3> QED
      BY <3>1, <3>2
  <2> QED
    BY <2>5, <2>6, <2>7 DEF ViewsAt, q
<1>11. F \in Seq(ToSet(F))
  BY <1>7 DEF ToSet, F
<1> QED
  BY <1>6, <1>10, <1>11 DEF F

\* The first fill paid by a transaction, and the first one it delivers.
LEMMA FirstPaid ==
    ASSUME NEW views, Len(views) \in Nat, DOMAIN views = 1 .. Len(views), NEW txid,
           NEW k \in 1 .. Len(views), views[k].payment = txid,
           \A j \in 1 .. Len(views) : views[j].payment = txid => k <= j
    PROVE  FillOf(views, txid) = {[role |-> "payment", fill |-> views[k]]}
<1> DEFINE hits == {i \in DOMAIN views : views[i].payment = txid}
           least == {j \in hits : \A i \in hits : j <= i}
<1>1. least = {k}
  OBVIOUS
<1>2. FirstWith(views, LAMBDA v : v.payment = txid) = {views[i] : i \in least}
  BY DEF FirstWith
<1> HIDE DEF least
<1>3. FirstWith(views, LAMBDA v : v.payment = txid) = {views[k]}
  BY <1>1, <1>2
<1> QED
  BY <1>3 DEF FillOf

LEMMA FirstDelivered ==
    ASSUME NEW views, Len(views) \in Nat, DOMAIN views = 1 .. Len(views), NEW txid,
           \A j \in 1 .. Len(views) : views[j].payment # txid,
           NEW i \in 1 .. Len(views), views[i].delivery = txid
    PROVE  \E k \in 1 .. Len(views) :
              /\ views[k].delivery = txid
              /\ FillOf(views, txid) =
                    {[role |-> "delivery", fill |-> [views[k] EXCEPT !.delivering = FALSE]]}
<1> DEFINE hits == {j \in DOMAIN views : views[j].delivery = txid /\ views[j].delivery # views[j].payment}
           least == {j \in hits : \A h \in hits : j <= h}
<1>1. hits \subseteq Nat /\ hits # {}
  OBVIOUS
<1> HIDE DEF hits
<1>2. PICK k \in hits : \A h \in hits : k <= h
  BY <1>1, LeastNumber
<1>3. least = {k}
  <2>1. \A j \in least : j \in Nat /\ k \in Nat /\ j <= k /\ k <= j
    BY <1>1, <1>2
  <2>2. k \in least
    BY <1>2
  <2> HIDE DEF least
  <2>3. \A j \in least : j = k
    BY <2>1
  <2> QED
    BY <2>2, <2>3
<1>4. k \in 1 .. Len(views) /\ views[k].delivery = txid
  BY DEF hits
<1>5. FirstWith(views, LAMBDA v : v.delivery = txid /\ v.delivery # v.payment) = {views[j] : j \in least}
  BY DEF FirstWith, hits
<1>6. FirstWith(views, LAMBDA v : v.payment = txid) = {}
  BY DEF FirstWith
<1> HIDE DEF least
<1>7. FirstWith(views, LAMBDA v : v.delivery = txid /\ v.delivery # v.payment) = {views[k]}
  BY <1>3, <1>5
<1> QED
  BY <1>4, <1>6, <1>7 DEF FillOf

\* What is shown of a transaction is a fill it pays or delivers.
LEMMA FoundIsOf ==
    ASSUME NEW views, NEW txid, NEW f \in FillOf(views, txid),
           \A i \in DOMAIN views : "payment" \in DOMAIN views[i] /\ "delivery" \in DOMAIN views[i]
    PROVE  txid \in {f.fill.payment, f.fill.delivery}
<1> DEFINE paid == FirstWith(views, LAMBDA v : v.payment = txid)
           gone == FirstWith(views, LAMBDA v : v.delivery = txid /\ v.delivery # v.payment)
<1>1. \A v \in paid : v.payment = txid
  BY DEF FirstWith
<1>2. \A v \in gone : [v EXCEPT !.delivering = FALSE].delivery = txid
  BY DEF FirstWith
<1>3. FillOf(views, txid) = IF paid # {} THEN {[role |-> "payment", fill |-> v] : v \in paid}
                            ELSE {[role |-> "delivery", fill |-> [v EXCEPT !.delivering = FALSE]] : v \in gone}
  BY DEF FillOf
<1> HIDE DEF paid, gone
<1>4. \/ \E v \in paid : f = [role |-> "payment", fill |-> v]
      \/ \E v \in gone : f = [role |-> "delivery", fill |-> [v EXCEPT !.delivering = FALSE]]
  BY <1>3
<1>5. ASSUME NEW v \in paid, f = [role |-> "payment", fill |-> v]
      PROVE  f.fill.payment = txid
  BY <1>1, <1>5
<1>6. ASSUME NEW v \in gone, f = [role |-> "delivery", fill |-> [v EXCEPT !.delivering = FALSE]]
      PROVE  f.fill.delivery = txid
  <2>1. f.fill = [v EXCEPT !.delivering = FALSE]
    BY <1>6
  <2> QED
    BY <1>2, <2>1
<1> QED
  BY <1>4, <1>5, <1>6

\* The first row of a fill's payment and the first view of it are of one fill.
LEMMA RowAndView ==
    ASSUME NEW markets, MarketsOK(markets),
           NEW i \in 1 .. Len(TradesFromMarkets(markets)),
           \A j \in 1 .. i - 1 :
               TradesFromMarkets(markets)[j].txid # TradesFromMarkets(markets)[i].txid,
           NEW v \in 1 .. Len(FillViews(markets)),
           FillViews(markets)[v].payment = TradesFromMarkets(markets)[i].txid
    PROVE  LET row == TradesFromMarkets(markets)[i]
           IN  \E k \in 1 .. Len(FillViews(markets)) :
                  LET view == FillViews(markets)[k]
                  IN  /\ FillOf(FillViews(markets), row.txid) = {[role |-> "payment", fill |-> view]}
                      /\ view.side = row.side /\ view.asset = row.asset
                      /\ view.delivering = row.pending
<1> DEFINE rows == TradesFromMarkets(markets)
           views == FillViews(markets)
           txid == rows[i].txid
           T == {k \in 1 .. Len(views) : views[k].payment = txid}
<1> HIDE DEF rows, views
<1>1. PICK a, b : RowsAt(markets, rows, a, b)
  BY RowPlaces DEF rows
<1>2. PICK c, d : ViewsAt(markets, views, c, d)
  BY ViewPlaces DEF views
<1>3. Len(views) \in Nat /\ DOMAIN views = 1 .. Len(views) /\ Len(rows) \in Nat
  <2>1. views \in Seq(ToSet(views)) /\ rows \in Seq(ToSet(rows))
    BY RowPlaces, ViewPlaces DEF rows, views
  <2> QED
    BY <2>1
<1>i. /\ i \in 1 .. Len(rows) /\ v \in 1 .. Len(views) /\ views[v].payment = txid
      /\ \A j \in 1 .. i - 1 : rows[j].txid # txid
  BY DEF rows, views
<1>4. PICK k \in T : \A j \in T : k <= j
  <2>1. T \subseteq Nat /\ T # {}
    BY <1>3, <1>i
  <2> HIDE DEF T
  <2> QED
    BY <2>1, LeastNumber
<1> DEFINE fill(m, f) == markets[m].fills[f]
           isFill(m, f) == m \in DOMAIN markets /\ f \in DOMAIN markets[m].fills
<1> HIDE DEF txid
<1>5. /\ isFill(a[i], b[i]) /\ rows[i] = FillRow(markets[a[i]], fill(a[i], b[i]))
      /\ fill(a[i], b[i]).txid = txid
  <2>1. isFill(a[i], b[i]) /\ rows[i] = FillRow(markets[a[i]], fill(a[i], b[i]))
    BY <1>1, <1>i DEF RowsAt
  <2> QED
    BY <2>1 DEF txid, FillRow
<1>6. /\ isFill(c[k], d[k]) /\ views[k] = ViewOf(markets[c[k]], fill(c[k], d[k]))
      /\ fill(c[k], d[k]).txid = txid /\ fill(c[k], d[k]).source # "refund"
  <2>1. /\ isFill(c[k], d[k]) /\ views[k] = ViewOf(markets[c[k]], fill(c[k], d[k]))
        /\ fill(c[k], d[k]).source # "refund" /\ views[k].payment = txid
    BY <1>2, <1>4 DEF ViewsAt
  <2> QED
    BY <2>1 DEF ViewOf
<1>7. fill(a[i], b[i]).source # "refund"
  <2>1. \A m, l \in DOMAIN markets :
          \A f \in DOMAIN markets[m].fills, g \in DOMAIN markets[l].fills :
             fill(m, f).source = "refund" /\ fill(l, g).source # "refund"
             => fill(m, f).txid # fill(l, g).txid
    BY DEF MarketsOK
  <2> QED
    BY <1>5, <1>6, <2>1
<1>8. PICK x \in 1 .. Len(views) : c[x] = a[i] /\ d[x] = b[i]
  BY <1>2, <1>5, <1>7 DEF ViewsAt
<1>9. PICK j \in 1 .. Len(rows) : a[j] = c[k] /\ b[j] = d[k]
  BY <1>1, <1>6 DEF RowsAt
<1>10. x \in T
  <2>1. views[x] = ViewOf(markets[a[i]], fill(a[i], b[i]))
    BY <1>2, <1>8 DEF ViewsAt
  <2> QED
    BY <1>5, <2>1 DEF ViewOf
<1>11. rows[j].txid = txid
  <2>1. rows[j] = FillRow(markets[c[k]], fill(c[k], d[k]))
    BY <1>1, <1>9 DEF RowsAt
  <2> QED
    BY <1>6, <2>1 DEF FillRow
<1>12. ~(j < i) /\ j \in Nat /\ i \in Nat
  BY <1>3, <1>i, <1>11
<1>13. k <= x /\ k \in 1 .. Len(views)
  BY <1>4, <1>10
<1>t. /\ \A m \in DOMAIN markets : m \in Nat /\ \A f \in DOMAIN markets[m].fills : f \in Nat
  <2>1. ASSUME NEW m \in DOMAIN markets
        PROVE  m \in Nat /\ \A f \in DOMAIN markets[m].fills : f \in Nat
    <3>1. markets \in Seq(ToSet(markets)) /\ markets[m].fills \in Seq(ToSet(markets[m].fills))
      BY DEF MarketsOK
    <3> QED
      BY <3>1
  <2> QED
    BY <2>1
<1>14. a[i] = c[k] /\ b[i] = d[k]
  <2>1. a[i] \in Nat /\ b[i] \in Nat /\ c[k] \in Nat /\ d[k] \in Nat
    BY <1>5, <1>6, <1>t
  <2>2. k < x => c[k] < a[i] \/ (c[k] = a[i] /\ d[k] < b[i])
    BY <1>2, <1>8, <1>13 DEF ViewsAt, InOrder
  <2>3. i < j => a[i] < c[k] \/ (a[i] = c[k] /\ b[i] < d[k])
    BY <1>1, <1>i, <1>9 DEF RowsAt, InOrder
  <2>4. CASE k = x
    BY <1>8, <2>4
  <2>5. CASE i = j
    BY <1>9, <2>5
  <2>6. CASE k # x /\ i # j
    <3>1. k < x /\ i < j
      BY <1>3, <1>12, <1>13, <2>6
    <3> QED
      BY <2>1, <2>2, <2>3, <3>1
  <2> QED
    BY <2>4, <2>5, <2>6
<1>15. FillOf(views, txid) = {[role |-> "payment", fill |-> views[k]]}
  <2>1. views[k].payment = txid /\ \A y \in 1 .. Len(views) : views[y].payment = txid => k <= y
    BY <1>4
  <2> QED
    BY <1>3, <1>13, <2>1, FirstPaid
<1>16. views[k].side = rows[i].side /\ views[k].asset = rows[i].asset
       /\ views[k].delivering = rows[i].pending
  BY <1>5, <1>6, <1>14 DEF ViewOf, FillRow
<1> QED
  BY <1>13, <1>15, <1>16 DEF rows, views, txid
-----------------------------------------------------------------------------
(* The copy of the relay.                                                  *)

ShownIsAsked ==
    \A l \in Lookers :
        /\ {"pc", "txid", "shown"} \subseteq DOMAIN looker[l]
        /\ \A f \in looker[l].shown : looker[l].txid \in {f.fill.payment, f.fill.delivery}

\* The rows and the fills of the copy are always of one state of the relay.
CopyOK ==
    /\ {"markets", "auctions", "fills", "young", "ok"} \subseteq DOMAIN copy
    /\ copy.markets = copy.fills /\ copy.markets \in 0 .. Len(RelayStates)

RelayInv ==
    /\ published \in 1 .. Len(RelayStates)
    /\ CopyOK
    /\ DOMAIN looker = Lookers /\ ShownIsAsked

LEMMA MarketsAtOK ==
    ASSUME NEW i \in 0 .. Len(RelayStates)
    PROVE  MarketsOK(MarketsAt(i))
<1>1. CASE i = 0
  BY <1>1 DEF MarketsAt, MarketsOK
<1>2. CASE i # 0
  <2> DEFINE s == RelayStates[i]
  <2>1. RelayStates \in Seq(ToSet(RelayStates))
    BY RelayAssumption
  <2>2. s \in ToSet(RelayStates)
    BY <1>2, <2>1 DEF ToSet
  <2> HIDE DEF s
  <2>3. MarketsOK(s.markets)
    BY <2>2, RelayAssumption DEF MarketsOK
  <2> QED
    BY <1>2, <2>3 DEF MarketsAt, s
<1> QED
  BY <1>1, <1>2

LEMMA RelayInit_Inv == RelayInit => RelayInv
<1> SUFFICES ASSUME RelayInit PROVE RelayInv
  OBVIOUS
<1>1. 1 \in 1 .. Len(RelayStates) /\ 0 \in 0 .. Len(RelayStates)
  BY RelayAssumption
<1> QED
  BY <1>1 DEF RelayInit, RelayInv, CopyOK, ShownIsAsked

LEMMA RelayNext_Inv == RelayInv /\ [RelayNext]_relayVars => RelayInv'
<1> SUFFICES ASSUME RelayInv, [RelayNext]_relayVars PROVE RelayInv'
  OBVIOUS
<1>0. Len(RelayStates) \in Nat
  BY RelayAssumption
<1>1. \A m, a \in BOOLEAN : copy' = RowsCopied(m, a) => CopyOK'
  BY <1>0 DEF RowsCopied, RelayInv, CopyOK
<1>2. CASE RelayMoves
  BY <1>0, <1>2 DEF RelayMoves, RelayInv, CopyOK, ShownIsAsked
<1>3. CASE CopyAges
  BY <1>3 DEF CopyAges, RelayInv, CopyOK, ShownIsAsked
<1>4. CASE ReadsRows
  BY <1>1, <1>4 DEF ReadsRows, RelayInv, ShownIsAsked
<1>5. ASSUME NEW l \in Lookers, NEW txid \in TxsNamed, AsksFill(l, txid) PROVE RelayInv'
  BY <1>1, <1>5 DEF AsksFill, RelayInv, ShownIsAsked
<1>6. ASSUME NEW l \in Lookers, FindsFill(l) PROVE RelayInv'
  <2> DEFINE views == FillViews(MarketsAt(copy.fills))
             txid == looker[l].txid
  <2>1. \A i \in DOMAIN views : "payment" \in DOMAIN views[i] /\ "delivery" \in DOMAIN views[i]
    <3>1. MarketsOK(MarketsAt(copy.fills))
      BY MarketsAtOK DEF RelayInv, CopyOK
    <3> DEFINE markets == MarketsAt(copy.fills)
    <3> HIDE DEF markets
    <3>2. PICK a, b : ViewsAt(markets, views, a, b)
      BY <3>1, ViewPlaces DEF markets
    <3>3. views \in Seq(ToSet(views))
      BY <3>1, ViewPlaces
    <3> HIDE DEF views
    <3>4. DOMAIN views = 1 .. Len(views)
      BY <3>3
    <3> QED
      BY <3>2, <3>4 DEF ViewsAt, ViewOf
  <2>2. \A f \in LaunchFill(copy, txid) : txid \in {f.fill.payment, f.fill.delivery}
    BY <2>1, FoundIsOf DEF LaunchFill
  <2>3. UNCHANGED <<published, copy>>
        /\ looker' = [looker EXCEPT ![l].pc = "idle", ![l].shown = LaunchFill(copy, txid)]
    BY <1>6 DEF FindsFill
  <2> HIDE DEF views
  <2>4. ShownIsAsked'
    BY <2>2, <2>3 DEF RelayInv, ShownIsAsked
  <2> QED
    BY <2>3, <2>4 DEF RelayInv, CopyOK
<1>7. CASE UNCHANGED relayVars
  BY <1>7 DEF relayVars, RelayInv, CopyOK, ShownIsAsked
<1> QED
  BY <1>2, <1>3, <1>4, <1>5, <1>6, <1>7 DEF RelayNext

LEMMA RelayInv_FillsAgree == RelayInv => FillsAgree
<1> SUFFICES ASSUME RelayInv PROVE FillsAgree
  OBVIOUS
<1> DEFINE markets == MarketsAt(copy.markets)
           rows == TradesFromMarkets(markets)
           views == FillViews(markets)
<1>1. MarketsOK(markets) /\ copy.fills = copy.markets
  BY MarketsAtOK DEF RelayInv, CopyOK
<1>2. /\ rows \in Seq(ToSet(rows)) /\ views \in Seq(ToSet(views))
  BY <1>1, RowPlaces, ViewPlaces
<1>3. \A txid : LaunchFill(copy, txid) = FillOf(views, txid)
  BY <1>1 DEF LaunchFill
<1> HIDE DEF markets
<1>4. ASSUME NEW i \in DOMAIN rows,
             \A j \in 1 .. i - 1 : rows[j].txid # rows[i].txid,
             \E v \in ToSet(views) : v.payment = rows[i].txid
      PROVE  \E f \in FillOf(views, rows[i].txid) :
                /\ f.role = "payment" /\ f.fill.side = rows[i].side
                /\ f.fill.asset = rows[i].asset /\ f.fill.delivering = rows[i].pending
  <2>1. i \in 1 .. Len(rows)
    <3> HIDE DEF rows
    <3> QED BY <1>2
  <2>2. PICK v \in 1 .. Len(views) : views[v].payment = rows[i].txid
    <3> HIDE DEF rows, views
    <3>1. PICK u \in ToSet(views) : u.payment = rows[i].txid
      BY <1>4
    <3>2. PICK x \in DOMAIN views : u = views[x]
      BY DEF ToSet
    <3> QED
      BY <1>2, <3>1, <3>2
  <2>3. PICK k \in 1 .. Len(views) :
           /\ FillOf(views, rows[i].txid) = {[role |-> "payment", fill |-> views[k]]}
           /\ views[k].side = rows[i].side /\ views[k].asset = rows[i].asset
           /\ views[k].delivering = rows[i].pending
    BY <1>1, <1>4, <2>1, <2>2, RowAndView
  <2> HIDE DEF rows, views
  <2> QED
    BY <2>3
<1>5. ASSUME NEW v \in ToSet(views), v.delivery # NoTx,
             \A u \in ToSet(views) : u.payment # v.delivery
      PROVE  \E f \in FillOf(views, v.delivery) :
                /\ f.role = "delivery" /\ ~f.fill.delivering /\ f.fill.delivery = v.delivery
  <2>0. \A i \in DOMAIN views : {"delivery", "delivering"} \subseteq DOMAIN views[i]
    <3>1. PICK a, b : ViewsAt(markets, views, a, b)
      BY <1>1, ViewPlaces
    <3> HIDE DEF views
    <3>2. DOMAIN views = 1 .. Len(views)
      BY <1>2
    <3>3. \A i \in 1 .. Len(views) : views[i] = ViewOf(markets[a[i]], markets[a[i]].fills[b[i]])
      BY <3>1 DEF ViewsAt
    <3> QED
      BY <3>2, <3>3 DEF ViewOf
  <2> HIDE DEF views
  <2>1. Len(views) \in Nat /\ DOMAIN views = 1 .. Len(views)
        /\ \A j \in 1 .. Len(views) : views[j] \in ToSet(views)
    BY <1>2 DEF ToSet
  <2>2. PICK i \in 1 .. Len(views) : views[i].delivery = v.delivery
    BY <1>5, <2>1 DEF ToSet
  <2>3. PICK k \in 1 .. Len(views) :
           /\ views[k].delivery = v.delivery
           /\ FillOf(views, v.delivery) =
                 {[role |-> "delivery", fill |-> [views[k] EXCEPT !.delivering = FALSE]]}
    BY <1>5, <2>1, <2>2, FirstDelivered
  <2>4. ~[views[k] EXCEPT !.delivering = FALSE].delivering
        /\ [views[k] EXCEPT !.delivering = FALSE].delivery = v.delivery
    BY <2>0, <2>1, <2>3
  <2> DEFINE f == [role |-> "delivery", fill |-> [views[k] EXCEPT !.delivering = FALSE]]
  <2>5. f \in FillOf(views, v.delivery) /\ f.role = "delivery"
        /\ f.fill = [views[k] EXCEPT !.delivering = FALSE]
    BY <2>3
  <2> HIDE DEF f
  <2> QED
    BY <2>4, <2>5
<1> HIDE DEF rows, views
<1>6. \A l \in Lookers : \A f \in looker[l].shown : looker[l].txid \in {f.fill.payment, f.fill.delivery}
  BY DEF RelayInv, ShownIsAsked
<1>7. TradesFromMarkets(MarketsAt(copy.markets)) = rows /\ FillViews(MarketsAt(copy.fills)) = views
  BY <1>1 DEF rows, views, markets
<1> QED
  BY <1>3, <1>4, <1>5, <1>6, <1>7 DEF FillsAgree

\* Whatever the relay publishes and whichever of its requests fail: the
\* trades page and the transactions' pages tell one story of each fill.
THEOREM RelaySpec_FillsAgree == RelaySpec => []FillsAgree
<1> QED
  BY RelayInit_Inv, RelayNext_Inv, RelayInv_FillsAgree, PTL DEF RelaySpec

-----------------------------------------------------------------------------
(* The services side by side.                                              *)

\* A behaviour of the services is one of each of them: they share no state.
LEMMA EachService == Spec => CacheSpec /\ RebuildSpec /\ SupplySpec /\ RelaySpec
<1>1. Init => CacheInit /\ RebuildInit /\ SupplyInit /\ RelayInit
  BY DEF Init
<1>2. [Next]_vars => [CacheNext]_cacheVars
  BY DEF Next, vars
<1>3. [Next]_vars => [RebuildNext]_rebuildVars
  BY DEF Next, vars
<1>4. [Next]_vars => [SupplyNext]_supplyVars
  BY DEF Next, vars
<1>5. [Next]_vars => [RelayNext]_relayVars
  BY DEF Next, vars
<1> QED
  BY <1>1, <1>2, <1>3, <1>4, <1>5, PTL DEF Spec, CacheSpec, RebuildSpec, SupplySpec, RelaySpec

\* The four promises in any behaviour of the services together, as they are run.
THEOREM Spec_ServicesSound == Spec => [](SupplySound /\ MetadataSound /\ RebuildsExact /\ FillsAgree)
<1> QED
  BY EachService, SupplySpec_Sound, CacheSpec_MetadataSound, RebuildSpec_Exact,
     RelaySpec_FillsAgree, PTL

-----------------------------------------------------------------------------
(* The connections of the database.  The invariant says, for every place a *)
(* thread may be at, whether its connection is listed, open and its own.   *)

\* Where a thread may be.
Places == {"idle", "connect", "register", "own", "unlist", "unlist_end", "shut", "shut_end",
           "take", "close", "ended"}

\* The places at which a thread has a connection in hand, and those of them at
\* which that connection is on the list.
Handling == {"register", "own", "unlist", "unlist_end", "shut", "shut_end"}
Listed == {"own", "unlist", "unlist_end"}

\* Until `close': a thread that opens or drops a connection owns no other, the
\* connection is on the list from Register to Unlist, no two threads have the
\* same connection, and every open one is some thread's.
Shape ==
    /\ \A t \in Thread : pc[t] \notin {"take", "close"}
    /\ \A t \in Thread : pc[t] \in Handling => hand[t] # NoConn /\ owner[t] = NoConn
    /\ \A t \in Thread : pc[t] \notin Handling => hand[t] = NoConn
    /\ \A t \in Thread : pc[t] \in {"connect", "ended"} => owner[t] = NoConn
OnList ==
    /\ conns \subseteq open /\ NoConn \notin open
    /\ \A t \in Thread : owner[t] # NoConn => owner[t] \in conns
    /\ \A t \in Thread : hand[t] # NoConn => hand[t] \in open
    /\ \A t \in Thread : hand[t] # NoConn => (hand[t] \in conns <=> pc[t] \in Listed)
OneUser ==
    \A t, u \in Thread : t # u =>
        /\ owner[t] # NoConn => owner[t] # owner[u] /\ owner[t] # hand[u]
        /\ hand[t] # NoConn => hand[t] # hand[u]
SomeUser == \A c \in open : \E t \in Thread : owner[t] = c \/ hand[t] = c

ConnInv ==
    /\ owner \in [Thread -> Conn \cup {NoConn}]
    /\ hand \in [Thread -> Conn \cup {NoConn}]
    /\ pc \in [Thread -> Places]
    /\ closed \in BOOLEAN
    /\ ~closed => Shape /\ OnList /\ OneUser /\ SomeUser

\* At first there are no connections.
LEMMA ConnInit_Inv == ConnInit => ConnInv
  BY ConnAssumption DEF ConnInit, ConnInv, Shape, OnList, OneUser, SomeUser, Places, Handling

\* The invariant implies the property ...
LEMMA ConnInv_Counted == ConnInv => Counted
  BY DEF ConnInv, OnList, SomeUser, Counted

\* ... and every step keeps it.
LEMMA ConnNext_Inv == ConnInv /\ [ConnNext]_connVars => ConnInv'
<1> SUFFICES ASSUME ConnInv, [ConnNext]_connVars PROVE ConnInv'
  OBVIOUS
<1> USE ConnAssumption DEF ConnInv, Shape, OnList, OneUser, SomeUser, Places, Handling, Listed, Goto, Hold, Own
<1>1. ASSUME NEW t \in Thread, Want(t) PROVE ConnInv'
  BY <1>1 DEF Want
<1>2. ASSUME NEW t \in Thread, Connect(t) PROVE ConnInv'
  BY <1>2 DEF Connect, InUse
<1>3. ASSUME NEW t \in Thread, ConnectFails(t) PROVE ConnInv'
  BY <1>3 DEF ConnectFails
<1>4. ASSUME NEW t \in Thread, Register(t) PROVE ConnInv'
  BY <1>4 DEF Register
<1>5. ASSUME NEW t \in Thread, TakeOver(t) PROVE ConnInv'
  BY <1>5 DEF TakeOver
<1>6. ASSUME NEW t \in Thread, Discard(t) PROVE ConnInv'
  BY <1>6 DEF Discard
<1>7. ASSUME NEW t \in Thread, ThreadEnds(t) PROVE ConnInv'
  BY <1>7 DEF ThreadEnds
<1>8. ASSUME NEW t \in Thread, ThreadStarts(t) PROVE ConnInv'
  BY <1>8 DEF ThreadStarts
<1>9. ASSUME NEW t \in Thread, Unlist(t) PROVE ConnInv'
  BY <1>9 DEF Unlist
<1>10. ASSUME NEW t \in Thread, Shut(t) PROVE ConnInv'
  BY <1>10 DEF Shut
<1>11. CASE Close
  BY <1>11 DEF Close
<1>12. CASE TakeList \/ CloseOne \/ Closed
  BY <1>12 DEF TakeList, CloseOne, Closed
<1>13. CASE UNCHANGED connVars
  BY <1>13 DEF connVars
<1> QED
  BY <1>1, <1>2, <1>3, <1>4, <1>5, <1>6, <1>7, <1>8, <1>9, <1>10, <1>11, <1>12, <1>13
  DEF ConnNext, Work

\* Whatever threads open, discard and lose: until shutdown no thread has a
\* closed connection, and none is open that no thread has.
THEOREM ConnSpec_Counted == ConnSpec => []Counted
<1> QED
  BY ConnInit_Inv, ConnNext_Inv, ConnInv_Counted, PTL DEF ConnSpec
===============================================================================
