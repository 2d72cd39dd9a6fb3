--------------------------- MODULE MetadataCache ---------------------------
(***************************************************************************)
(* What the explorer keeps of the objects it reads from IPFS (ipfs.py):    *)
(* inspect_cid looks in the cache, asks one gateway after another, stores  *)
(* what it got and looks in the cache again.  The lock of the cache is     *)
(* held in each of these looks, not between them.                          *)
(***************************************************************************)
EXTENDS Integers, FiniteSets

CONSTANTS Cids,
          Readers,
          Gateways,      \* how many gateways there are
          CacheMax,      \* META_CACHE_MAX
          CacheTtl,      \* META_CACHE_TTL, in ticks
          CacheTime      \* bound on the ticks

ASSUME CacheAssumption ==
    CacheMax \in Nat \ {0} /\ CacheTtl \in Nat /\ CacheTime \in Nat /\ Gateways \in Nat

VARIABLES cacheNow,      \* the clock
          cache,         \* _META_CACHE: cid -> when it was put, and the object
          reader         \* the locals of each inspect_cid, and its last answer

cacheVars == <<cacheNow, cache, reader>>

NoObject == [of |-> "none"]
Served(cid, object) == [pc |-> "idle", cid |-> cid, answer |-> object]

CacheInit ==
    /\ cacheNow = 0
    /\ cache = [c \in {} |-> [at |-> 0, object |-> NoObject]]
    /\ reader = [r \in Readers |-> [pc |-> "idle", cid |-> "none", answer |-> NoObject]]

CacheTicks ==
    /\ cacheNow < CacheTime
    /\ cacheNow' = cacheNow + 1
    /\ UNCHANGED <<cache, reader>>

Reads(r, pc) == reader[r].pc = pc
ReaderGoes(r, rec) == reader' = [reader EXCEPT ![r] = rec]
Kept(cids) == [c \in cids |-> cache[c]]

\* _cache_get: an entry past its time is dropped.
IsFresh(cid) == cid \in DOMAIN cache /\ cacheNow - cache[cid].at <= CacheTtl
DropsOutdated(cid) ==
    cache' = IF IsFresh(cid) THEN cache ELSE Kept(DOMAIN cache \ {cid})

\* inspect_cid: a fresh entry is the answer.
Inspects(r, cid) ==
    /\ Reads(r, "idle")
    /\ DropsOutdated(cid)
    /\ ReaderGoes(r, IF IsFresh(cid) THEN Served(cid, cache[cid].object)
                     ELSE [pc |-> "fetch", cid |-> cid, gateway |-> 1])
    /\ UNCHANGED cacheNow

\* _fetch: a gateway answers, or it fails or has not the object and the next
\* one is asked; after the last the request fails.
GatewayAnswers(r) ==
    /\ Reads(r, "fetch") /\ reader[r].gateway <= Gateways
    /\ ReaderGoes(r, [pc |-> "put", cid |-> reader[r].cid,
                      object |-> [of |-> reader[r].cid]])
    /\ UNCHANGED <<cacheNow, cache>>

GatewayMisses(r) ==
    /\ Reads(r, "fetch") /\ reader[r].gateway <= Gateways
    /\ ReaderGoes(r, [pc |-> "fetch", cid |-> reader[r].cid, gateway |-> reader[r].gateway + 1])
    /\ UNCHANGED <<cacheNow, cache>>

FetchFailed(r) ==
    /\ Reads(r, "fetch") /\ reader[r].gateway > Gateways
    /\ ReaderGoes(r, [pc |-> "idle", cid |-> "none", answer |-> NoObject])
    /\ UNCHANGED <<cacheNow, cache>>

Oldest(c) == c \in DOMAIN cache /\ \A d \in DOMAIN cache : cache[c].at <= cache[d].at

\* _cache_put: a new entry of a full cache takes the place of an oldest one.
Puts(r) ==
    LET cid == reader[r].cid
        put(kept) == cache' = [c \in kept \cup {cid} |->
                        IF c = cid THEN [at |-> cacheNow, object |-> reader[r].object]
                        ELSE cache[c]]
    IN  /\ Reads(r, "put")
        /\ IF cid \notin DOMAIN cache /\ Cardinality(DOMAIN cache) >= CacheMax
           THEN \E old \in DOMAIN cache : Oldest(old) /\ put(DOMAIN cache \ {old})
           ELSE put(DOMAIN cache)
        /\ ReaderGoes(r, [pc |-> "look", cid |-> cid, object |-> reader[r].object])
        /\ UNCHANGED cacheNow

\* Mutant: what another reader's entry pushed out is not answered.
LooksOnly(r) ==
    LET cid == reader[r].cid
    IN  /\ Reads(r, "look")
        /\ DropsOutdated(cid)
        /\ ReaderGoes(r, Served(cid, IF IsFresh(cid) THEN cache[cid].object ELSE NoObject))
        /\ UNCHANGED cacheNow

\* The answer is what the cache has by now, or else what was read.
LooksAgain(r) ==
    LET cid == reader[r].cid
    IN  /\ Reads(r, "look")
        /\ DropsOutdated(cid)
        /\ ReaderGoes(r, Served(cid, IF IsFresh(cid) THEN cache[cid].object ELSE reader[r].object))
        /\ UNCHANGED cacheNow

ReaderStep(r) ==
    \/ \E cid \in Cids : Inspects(r, cid)
    \/ GatewayAnswers(r) \/ GatewayMisses(r) \/ FetchFailed(r) \/ Puts(r) \/ LooksAgain(r)

CacheNext == CacheTicks \/ \E r \in Readers : ReaderStep(r)
CacheSpec == CacheInit /\ [][CacheNext]_cacheVars
-----------------------------------------------------------------------------
\* The cache never holds more than META_CACHE_MAX objects, whoever puts one
\* between another's look and put.
CacheBounded == Cardinality(DOMAIN cache) <= CacheMax

\* Every request whose object was read is answered, and with the object it asked
\* for, though another thread may have pushed it out of the cache, or its time
\* may have passed, before it is looked up again.
ReadersAnswered ==
    /\ \A c \in DOMAIN cache : cache[c].object.of = c
    /\ \A r \in Readers : Reads(r, "idle") => reader[r].answer.of = reader[r].cid

MetadataSound == CacheBounded /\ ReadersAnswered
=============================================================================
