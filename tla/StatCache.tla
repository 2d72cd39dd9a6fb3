------------------------------ MODULE StatCache ------------------------------
(***************************************************************************)
(* StaleWhileRefreshCache of explorer/statcache.py: HTTP threads that ask   *)
(* for a heavy aggregate under a key.                                       *)
(*                                                                          *)
(* `data' is the state of the database the aggregates are computed from; a  *)
(* computation reads it when it starts and stores its result when it ends.  *)
(* A lock is an object of its own: a key whose lock was dropped gets        *)
(* another one, while a thread may still hold a reference to the first.     *)
(***************************************************************************)
EXTENDS Integers, FiniteSets, Functions

CONSTANTS
    Thread, Key,
    Lock,       \* lock objects; one that nothing refers to is used again
    NoLock, NoThread,
    MaxKeys,    \* max_keys: locks kept before idle ones are dropped
    TTL,        \* ttl: an answer younger than this is returned as it is
    MaxStale,   \* max_stale: ... and younger than this during a refresh
    MaxNow,     \* bound on the clock
    MaxData     \* bound on the changes of the database

ASSUME CacheAssumption ==
    /\ NoLock \notin Lock /\ NoThread \notin Thread
    /\ MaxKeys \in Nat \ {0}
    /\ TTL \in Nat \ {0} /\ MaxStale \in Nat /\ TTL <= MaxStale

VARIABLES
    now,        \* the clock
    data,       \* version of the database
    entries,    \* _entries: key -> [at, val], only of some keys
    locks,      \* _locks: key -> lock, only of some keys
    holder,     \* the thread that holds each lock
    pc,         \* where each thread is in get
    key,        \* the key it asks for
    entry,      \* the entry it has read: None or [at, val]
    now0,       \* the time it read with it
    lock,       \* the lock _lock_for gave it
    val,        \* what it is computing
    got         \* what get returned: None, an entry, or an exception

vars == <<now, data, entries, locks, holder, pc, key, entry, now0, lock, val, got>>
local == <<key, entry, now0, lock, val, got>>

None == [at |-> -1, val |-> -1]
Raised == [at |-> -2, val |-> -2]

Lookup(k) == IF k \in DOMAIN entries THEN entries[k] ELSE None

Init ==
    /\ now = 0 /\ data = 0
    /\ entries = [k \in {} |-> None]
    /\ locks = [k \in {} |-> NoLock]
    /\ holder = [l \in Lock |-> NoThread]
    /\ pc = [t \in Thread |-> "done"]
    /\ key = [t \in Thread |-> CHOOSE k \in Key : TRUE]
    /\ entry = [t \in Thread |-> None]
    /\ now0 = [t \in Thread |-> 0]
    /\ lock = [t \in Thread |-> NoLock]
    /\ val = [t \in Thread |-> 0]
    /\ got = [t \in Thread |-> None]

\* The clock ticks; a block is indexed.
Clock == now < MaxNow /\ now' = now + 1
         /\ UNCHANGED <<data, entries, locks, holder, pc, local>>
Change == data < MaxData /\ data' = data + 1
          /\ UNCHANGED <<now, entries, locks, holder, pc, local>>

Goto(t, place) == pc' = [pc EXCEPT ![t] = place]

\* get returns, and its local variables are gone.
Return(t, answer) ==
    /\ got' = [got EXCEPT ![t] = answer]
    /\ entry' = [entry EXCEPT ![t] = None]
    /\ now0' = [now0 EXCEPT ![t] = 0]
    /\ lock' = [lock EXCEPT ![t] = NoLock]
    /\ val' = [val EXCEPT ![t] = 0]
    /\ Goto(t, "done")

\* get, up to the first age test: the entry and the clock, and a fresh entry is
\* returned.
Get(t, k) ==
    /\ pc[t] = "done"
    /\ key' = [key EXCEPT ![t] = k]
    /\ IF Lookup(k) # None /\ now - Lookup(k).at < TTL
       THEN Return(t, Lookup(k))
       ELSE /\ entry' = [entry EXCEPT ![t] = Lookup(k)]
            /\ now0' = [now0 EXCEPT ![t] = now]
            /\ got' = [got EXCEPT ![t] = None]
            /\ Goto(t, "lock_for")
            /\ UNCHANGED <<lock, val>>
    /\ UNCHANGED <<now, data, entries, locks, holder>>

InUse == {locks[k] : k \in DOMAIN locks} \cup {lock[t] : t \in Thread}

\* Mistake: a new lock without a look at the one there is.
LockForAlwaysNew(t) ==
    /\ pc[t] = "lock_for"
    /\ \E l \in Lock \ InUse :
          /\ locks' = [j \in DOMAIN locks \cup {key[t]} |-> IF j = key[t] THEN l ELSE locks[j]]
          /\ lock' = [lock EXCEPT ![t] = l]
    /\ Goto(t, "acquire")
    /\ UNCHANGED <<now, data, entries, holder, key, entry, now0, val, got>>

\* len(_locks) >= max_keys.
Full == Cardinality(DOMAIN locks) >= MaxKeys

\* _lock_for: the lock of the key, or a new one.  A full table first drops the
\* keys whose lock nobody holds, with their entries.
LockFor(t) ==
    LET k == key[t]
        idle == IF Full THEN {j \in DOMAIN locks : holder[locks[j]] = NoThread} ELSE {}
    IN
    /\ pc[t] = "lock_for"
    /\ \/ /\ k \in DOMAIN locks
          /\ lock' = [lock EXCEPT ![t] = locks[k]]
          /\ UNCHANGED <<entries, locks>>
       \/ /\ k \notin DOMAIN locks
          /\ \E l \in Lock \ InUse :
                /\ locks' = [j \in (DOMAIN locks \ idle) \cup {k} |->
                                IF j = k THEN l ELSE locks[j]]
                /\ lock' = [lock EXCEPT ![t] = l]
          /\ entries' = Restrict(entries, DOMAIN entries \ idle)
    /\ Goto(t, "acquire")
    /\ UNCHANGED <<now, data, holder, key, entry, now0, val, got>>

Usable(t) == entry[t] # None /\ now0[t] - entry[t].at < MaxStale

\* lock.acquire: free, the thread has it.
Acquire(t) ==
    /\ pc[t] = "acquire"
    /\ holder[lock[t]] = NoThread
    /\ holder' = [holder EXCEPT ![lock[t]] = t]
    /\ Goto(t, "peek")
    /\ UNCHANGED <<now, data, entries, locks, local>>

\* Mistake: an entry of any age is served.
ServeAny(t) ==
    /\ pc[t] = "acquire"
    /\ holder[lock[t]] # NoThread
    /\ entry[t] # None
    /\ Return(t, entry[t])
    /\ UNCHANGED <<now, data, entries, locks, holder, key>>

\* Held: a thread whose entry is not too old returns it, another one waits.
ServeStale(t) ==
    /\ pc[t] = "acquire"
    /\ holder[lock[t]] # NoThread
    /\ Usable(t)
    /\ Return(t, entry[t])
    /\ UNCHANGED <<now, data, entries, locks, holder, key>>

\* Mistake: the lock is kept when the entry turns out to be fresh.
PeekKeepsLock(t) ==
    LET e == Lookup(key[t]) IN
    /\ pc[t] = "peek"
    /\ IF e # None /\ now - e.at < TTL
       THEN Return(t, e)
       ELSE /\ entry' = [entry EXCEPT ![t] = e]
            /\ val' = [val EXCEPT ![t] = data]
            /\ Goto(t, "compute")
            /\ UNCHANGED <<now0, lock, got>>
    /\ UNCHANGED <<now, data, entries, locks, holder, key>>

\* With the lock: a fresh entry is returned, otherwise the computation starts.
Peek(t) ==
    LET e == Lookup(key[t]) IN
    /\ pc[t] = "peek"
    /\ IF e # None /\ now - e.at < TTL
       THEN /\ Return(t, e)
            /\ holder' = [holder EXCEPT ![lock[t]] = NoThread]
       ELSE /\ entry' = [entry EXCEPT ![t] = e]
            /\ val' = [val EXCEPT ![t] = data]
            /\ Goto(t, "compute")
            /\ UNCHANGED <<holder, now0, lock, got>>
    /\ UNCHANGED <<now, data, entries, locks, key>>

\* compute ends with a result.
Store(t) ==
    LET e == [at |-> now, val |-> val[t]] IN
    /\ pc[t] = "compute"
    /\ entries' = [j \in DOMAIN entries \cup {key[t]} |-> IF j = key[t] THEN e ELSE entries[j]]
    /\ holder' = [holder EXCEPT ![lock[t]] = NoThread]
    /\ Return(t, e)
    /\ UNCHANGED <<now, data, locks, key>>

\* Mistake: the previous answer is dropped.
FailDrops(t) ==
    /\ pc[t] = "compute"
    /\ holder' = [holder EXCEPT ![lock[t]] = NoThread]
    /\ entries' = Restrict(entries, DOMAIN entries \ {key[t]})
    /\ Return(t, IF entry[t] # None THEN entry[t] ELSE Raised)
    /\ UNCHANGED <<now, data, locks, key>>

\* compute raises: the previous answer, however old, or the exception.
Fail(t) ==
    /\ pc[t] = "compute"
    /\ holder' = [holder EXCEPT ![lock[t]] = NoThread]
    /\ Return(t, IF entry[t] # None THEN entry[t] ELSE Raised)
    /\ UNCHANGED <<now, data, entries, locks, key>>

Step(t) == LockFor(t) \/ Acquire(t) \/ ServeStale(t) \/ Peek(t) \/ Store(t) \/ Fail(t)
Next == Clock \/ Change \/ \E t \in Thread : Step(t) \/ \E k \in Key : Get(t, k)

Spec == Init /\ [][Next]_vars

\* Threads run, and a computation that is tried again and again succeeds in the
\* end.  Nothing is assumed of which waiting thread a lock goes to.
FairSpec == /\ Spec
            /\ \A t \in Thread :
                  /\ WF_vars(LockFor(t) \/ Acquire(t) \/ ServeStale(t) \/ Peek(t) \/ Store(t) \/ Fail(t))
                  /\ SF_vars(Store(t))

-------------------------------------------------------------------------------
(* Properties.                                                             *)

\* The class docstring: "One computation at a time per key."  No two threads are
\* in compute() for the same key.
OneComputation ==
    \A t, u \in Thread :
        pc[t] = "compute" /\ pc[u] = "compute" /\ key[t] = key[u] => t = u

\* A slow computation never replaces the result of one that saw a later
\* database (the store at the end of get).
NoRegress ==
    [][\A k \in DOMAIN entries \cap DOMAIN entries' : entries'[k].val >= entries[k].val]_vars

\* Nobody has been given a later answer than the one stored for the key: with
\* NoRegress, a page that is asked for again never goes back in time, whichever
\* of the early returns of get answered.
NeverAhead ==
    \A t \in Thread : pc[t] = "done" /\ got[t] \notin {None, Raised} =>
        /\ key[t] \in DOMAIN entries
        /\ entries[key[t]].val >= got[t].val

\* An answer that get returns without an error of compute() was younger than
\* max_stale when the request began, or came after that.
AnswerRecent ==
    [][\A t \in Thread : pc[t] # "done" /\ pc'[t] = "done" /\ got'[t] # Raised =>
            now0[t] - got'[t].at < MaxStale \/ Fail(t)]_vars

\* Every request is answered, though threads wait for one another's computation
\* and the computation may fail.
Answered == \A t \in Thread : pc[t] = "lock_for" ~> pc[t] = "done"

===============================================================================
