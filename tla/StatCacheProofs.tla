--------------------------- MODULE StatCacheProofs ---------------------------
(***************************************************************************)
(* Theorems about StatCache.                                               *)
(***************************************************************************)
EXTENDS StatCache, FiniteSetTheorems, TLAPS

\* As long as the keys fit in the table of locks no lock is ever dropped.
KeysFit == IsFiniteSet(Key) /\ Cardinality(Key) <= MaxKeys

\* A thread past _lock_for has the lock of its key, and one past lock.acquire is
\* the holder of it.
LockInv ==
    /\ key \in [Thread -> Key]
    /\ pc \in [Thread -> {"done", "lock_for", "acquire", "peek", "compute"}]
    /\ lock \in [Thread -> Lock \cup {NoLock}]
    /\ holder \in [Lock -> Thread \cup {NoThread}]
    /\ DOMAIN locks \subseteq Key
    /\ \A k \in DOMAIN locks : locks[k] \in Lock
    /\ \A t \in Thread : pc[t] \in {"acquire", "peek", "compute"} =>
            key[t] \in DOMAIN locks /\ lock[t] = locks[key[t]]
    /\ \A t \in Thread : pc[t] \in {"peek", "compute"} => holder[lock[t]] = t

LEMMA Init_LockInv == Key # {} /\ Init => LockInv
  BY DEF Init, LockInv

\* With room for every key the table is never full when a key is missing.
LEMMA NotFull ==
  ASSUME KeysFit, LockInv, NEW k \in Key, k \notin DOMAIN locks
  PROVE  ~Full
<1>1. IsFiniteSet(DOMAIN locks) /\ Cardinality(DOMAIN locks) <= Cardinality(Key)
  BY FS_Subset DEF KeysFit, LockInv
<1>2. Cardinality(DOMAIN locks) # Cardinality(Key)
  BY FS_Subset DEF KeysFit, LockInv
<1>3. Cardinality(DOMAIN locks) \in Nat /\ Cardinality(Key) \in Nat
  BY <1>1, FS_CardinalityType DEF KeysFit
<1> QED
  BY <1>1, <1>2, <1>3, CacheAssumption DEF Full, KeysFit

LEMMA Get_LockInv ==
  ASSUME LockInv, NEW t \in Thread, NEW k \in Key, Get(t, k)
  PROVE  LockInv'
  BY CacheAssumption DEF LockInv, Get, Goto, Return

LEMMA LockFor_LockInv ==
  ASSUME KeysFit, LockInv, NEW t \in Thread, LockFor(t)
  PROVE  LockInv'
<1>1. CASE key[t] \in DOMAIN locks
  BY <1>1 DEF LockInv, LockFor, Goto
<1>2. CASE key[t] \notin DOMAIN locks
  <2>1. ~Full
    BY <1>2, NotFull DEF LockInv
  <2>2. PICK l \in Lock \ InUse :
           /\ locks' = [j \in DOMAIN locks \cup {key[t]} |-> IF j = key[t] THEN l ELSE locks[j]]
           /\ lock' = [lock EXCEPT ![t] = l]
    BY <1>2, <2>1 DEF LockFor
  <2> QED
    BY <1>2, <2>2 DEF LockInv, LockFor, Goto
<1> QED
  BY <1>1, <1>2

LEMMA Acquire_LockInv ==
  ASSUME LockInv, NEW t \in Thread, Acquire(t)
  PROVE  LockInv'
<1>1. lock[t] \in Lock /\ holder[lock[t]] = NoThread
  BY DEF LockInv, Acquire
<1>2. ASSUME NEW u \in Thread, pc'[u] \in {"peek", "compute"}
      PROVE  holder'[lock'[u]] = u
  <2>1. CASE u = t
    BY <1>1, <2>1 DEF LockInv, Acquire, local
  <2>2. CASE u # t
    <3>1. pc[u] \in {"peek", "compute"} /\ holder[lock[u]] = u
      BY <1>2, <2>2 DEF LockInv, Acquire, Goto
    <3>2. lock[u] # lock[t]
      BY <1>1, <3>1, CacheAssumption
    <3> QED
      BY <1>1, <3>1, <3>2 DEF LockInv, Acquire, local
  <2> QED
    BY <2>1, <2>2
<1> QED
  BY <1>1, <1>2 DEF LockInv, Acquire, Goto, local

LEMMA ServeStale_LockInv ==
  ASSUME LockInv, NEW t \in Thread, ServeStale(t)
  PROVE  LockInv'
  BY DEF LockInv, ServeStale, Goto, Return

\* A thread that lets go of its lock leaves the locks of the others alone.
LEMMA Release_LockInv ==
  ASSUME LockInv, NEW t \in Thread, pc[t] \in {"peek", "compute"},
         holder' = [holder EXCEPT ![lock[t]] = NoThread], pc' = [pc EXCEPT ![t] = "done"],
         lock' = [lock EXCEPT ![t] = NoLock], UNCHANGED <<key, locks>>
  PROVE  LockInv'
<1>1. lock[t] \in Lock /\ holder[lock[t]] = t
  BY DEF LockInv
<1>2. ASSUME NEW u \in Thread, pc'[u] \in {"peek", "compute"}
      PROVE  holder'[lock'[u]] = u
  <2>1. u # t /\ pc[u] \in {"peek", "compute"}
    BY <1>2 DEF LockInv
  <2>2. holder[lock[u]] = u
    BY <2>1 DEF LockInv
  <2> QED
    BY <1>1, <2>1, <2>2 DEF LockInv
<1> QED
  BY <1>1, <1>2 DEF LockInv

LEMMA Peek_LockInv ==
  ASSUME LockInv, NEW t \in Thread, Peek(t)
  PROVE  LockInv'
<1>1. CASE pc' = [pc EXCEPT ![t] = "compute"] /\ UNCHANGED <<holder, lock>>
  BY <1>1 DEF LockInv, Peek
<1>2. CASE /\ pc' = [pc EXCEPT ![t] = "done"]
           /\ holder' = [holder EXCEPT ![lock[t]] = NoThread]
           /\ lock' = [lock EXCEPT ![t] = NoLock]
  BY <1>2, Release_LockInv DEF Peek
<1> QED
  BY <1>1, <1>2 DEF Peek, Return, Goto

LEMMA Next_LockInv == KeysFit /\ LockInv /\ [Next]_vars => LockInv'
<1> SUFFICES ASSUME KeysFit, LockInv, [Next]_vars PROVE LockInv'
  OBVIOUS
<1>1. CASE Clock \/ Change
  BY <1>1 DEF LockInv, Clock, Change, local
<1>2. ASSUME NEW t \in Thread, NEW k \in Key, Get(t, k) PROVE LockInv'
  BY <1>2, Get_LockInv
<1>3. ASSUME NEW t \in Thread, LockFor(t) PROVE LockInv'
  BY <1>3, LockFor_LockInv
<1>4. ASSUME NEW t \in Thread, Acquire(t) PROVE LockInv'
  BY <1>4, Acquire_LockInv
<1>5. ASSUME NEW t \in Thread, ServeStale(t) PROVE LockInv'
  BY <1>5, ServeStale_LockInv
<1>6. ASSUME NEW t \in Thread, Peek(t) PROVE LockInv'
  BY <1>6, Peek_LockInv
<1>7. ASSUME NEW t \in Thread, Store(t) PROVE LockInv'
  BY <1>7, Release_LockInv DEF Store, Return, Goto
<1>8. ASSUME NEW t \in Thread, Fail(t) PROVE LockInv'
  BY <1>8, Release_LockInv DEF Fail, Return, Goto
<1>9. CASE UNCHANGED vars
  BY <1>9 DEF LockInv, vars
<1> QED
  BY <1>1, <1>2, <1>3, <1>4, <1>5, <1>6, <1>7, <1>8, <1>9 DEF Next, Step

LEMMA LockInv_OneComputation == LockInv => OneComputation
  BY DEF LockInv, OneComputation

\* "One computation at a time per key", for any number of threads, keys and
\* locks and any times, as long as the keys fit in the table of locks.
THEOREM Spec_OneComputation ==
  ASSUME KeysFit, Key # {}
  PROVE  Spec => []OneComputation
<1>1. Init => LockInv
  BY Init_LockInv
<1>2. LockInv /\ [Next]_vars => LockInv'
  BY Next_LockInv
<1>3. LockInv => OneComputation
  BY LockInv_OneComputation
<1> QED
  BY <1>1, <1>2, <1>3, PTL DEF Spec

-------------------------------------------------------------------------------
(* The ages of answers: nothing is assumed of the size of the table.       *)

Entry == [at : Nat, val : Nat]

\* Entries carry a time and a version, and no thread has read the clock in the
\* future.
AgesInv ==
    /\ now \in Nat /\ data \in Nat
    /\ pc \in [Thread -> {"done", "lock_for", "acquire", "peek", "compute"}]
    /\ \A k \in DOMAIN entries : entries[k] \in Entry
    /\ entry \in [Thread -> Entry \cup {None}]
    /\ now0 \in [Thread -> Nat]
    /\ val \in [Thread -> Nat]
    /\ got \in [Thread -> Entry \cup {None, Raised}]
    /\ \A t \in Thread : now0[t] <= now

LEMMA Lookup_Entry ==
  ASSUME AgesInv, NEW k
  PROVE  Lookup(k) \in Entry \cup {None}
  BY DEF AgesInv, Lookup

\* A returning thread gives an entry, or raises, and forgets what it had read.
LEMMA Return_AgesInv ==
  ASSUME AgesInv, NEW t \in Thread, NEW answer \in Entry \cup {None, Raised},
         Return(t, answer), UNCHANGED <<now, data>>,
         \A k \in DOMAIN entries' : entries'[k] \in Entry
  PROVE  AgesInv'
  BY DEF AgesInv, Return, Goto

LEMMA Next_AgesInv == AgesInv /\ [Next]_vars => AgesInv'
<1> SUFFICES ASSUME AgesInv, [Next]_vars PROVE AgesInv'
  OBVIOUS
<1>1. CASE Clock \/ Change
  BY <1>1 DEF AgesInv, Clock, Change, local
<1>2. ASSUME NEW t \in Thread, NEW k \in Key, Get(t, k) PROVE AgesInv'
  <2>1. Lookup(k) \in Entry \cup {None}
    BY Lookup_Entry
  <2>2. CASE Return(t, Lookup(k))
    BY <1>2, <2>1, <2>2, Return_AgesInv DEF Get, AgesInv
  <2>3. CASE ~Return(t, Lookup(k))
    BY <1>2, <2>1, <2>3 DEF Get, AgesInv, Goto
  <2> QED
    BY <2>2, <2>3
<1>3. ASSUME NEW t \in Thread, LockFor(t) PROVE AgesInv'
  <2>1. /\ UNCHANGED <<now, data, entry, now0, val, got>>
        /\ pc' = [pc EXCEPT ![t] = "acquire"]
    BY <1>3 DEF LockFor, Goto
  <2>2. \A k \in DOMAIN entries' : entries'[k] \in Entry
    BY <1>3 DEF LockFor, Restrict, AgesInv
  <2> QED
    BY <2>1, <2>2 DEF AgesInv
<1>4. ASSUME NEW t \in Thread, Acquire(t) PROVE AgesInv'
  BY <1>4 DEF AgesInv, Acquire, Goto, local
<1>5. ASSUME NEW t \in Thread, ServeStale(t) PROVE AgesInv'
  <2>1. entry[t] \in Entry \cup {None}
    BY DEF AgesInv
  <2> QED
    BY <1>5, <2>1, Return_AgesInv DEF ServeStale, AgesInv
<1>6. ASSUME NEW t \in Thread, Peek(t) PROVE AgesInv'
  <2>1. Lookup(key[t]) \in Entry \cup {None}
    BY Lookup_Entry
  <2>2. CASE Return(t, Lookup(key[t]))
    BY <1>6, <2>1, <2>2, Return_AgesInv DEF Peek, AgesInv
  <2>3. CASE ~Return(t, Lookup(key[t]))
    BY <1>6, <2>1, <2>3 DEF Peek, AgesInv, Goto
  <2> QED
    BY <2>2, <2>3
<1>7. ASSUME NEW t \in Thread, Store(t) PROVE AgesInv'
  <2> DEFINE e == [at |-> now, val |-> val[t]]
  <2>1. e \in Entry
    BY DEF AgesInv, Entry
  <2>2. /\ entries' = [j \in DOMAIN entries \cup {key[t]} |-> IF j = key[t] THEN e ELSE entries[j]]
        /\ Return(t, e) /\ UNCHANGED <<now, data>>
    BY <1>7 DEF Store
  <2>3. \A k \in DOMAIN entries' : entries'[k] \in Entry
    BY <2>1, <2>2 DEF AgesInv
  <2> QED
    BY <2>1, <2>2, <2>3, Return_AgesInv
<1>8. ASSUME NEW t \in Thread, Fail(t) PROVE AgesInv'
  <2>1. entry[t] \in Entry \cup {None}
    BY DEF AgesInv
  <2> QED
    BY <1>8, <2>1, Return_AgesInv DEF Fail, AgesInv
<1>9. CASE UNCHANGED vars
  BY <1>9 DEF AgesInv, vars
<1> QED
  BY <1>1, <1>2, <1>3, <1>4, <1>5, <1>6, <1>7, <1>8, <1>9 DEF Next, Step

LEMMA Init_AgesInv == Init => AgesInv
  BY DEF Init, AgesInv, None

\* What get returns on each of its ways out was young enough.
LEMMA Next_Recent ==
  ASSUME AgesInv, [Next]_vars, NEW t \in Thread, pc[t] # "done", pc'[t] = "done",
         got'[t] # Raised
  PROVE  now0[t] - got'[t].at < MaxStale \/ Fail(t)
<1>1. CASE ServeStale(t)
  BY <1>1 DEF AgesInv, ServeStale, Usable, Return
<1>2. CASE Peek(t)
  <2>1. Lookup(key[t]) \in Entry \cup {None}
    BY Lookup_Entry
  <2>2. /\ Lookup(key[t]) # None /\ now - Lookup(key[t]).at < TTL
        /\ Return(t, Lookup(key[t]))
    BY <1>2 DEF Peek, AgesInv, Goto
  <2>3. got'[t] = Lookup(key[t]) /\ got'[t].at \in Nat
    BY <2>1, <2>2 DEF Return, AgesInv, Entry
  <2> QED
    BY <2>2, <2>3, CacheAssumption DEF AgesInv
<1>3. CASE Store(t)
  <2>1. got'[t] = [at |-> now, val |-> val[t]]
    BY <1>3 DEF Store, Return, AgesInv
  <2> QED
    BY <2>1, CacheAssumption DEF AgesInv
<1>4. ASSUME NEW u \in Thread, NEW k \in Key, Get(u, k) PROVE FALSE
  <2>1. u # t
    BY <1>4 DEF Get
  <2> QED
    BY <1>4, <2>1 DEF Get, Return, Goto, AgesInv
<1>5. ASSUME NEW u \in Thread, u # t, Step(u) PROVE FALSE
  BY <1>5 DEF Step, LockFor, Acquire, ServeStale, Peek, Store, Fail, Return, Goto, AgesInv
<1>6. CASE LockFor(t) \/ Acquire(t)
  BY <1>6 DEF LockFor, Acquire, Goto, AgesInv
<1>7. CASE Clock \/ Change \/ UNCHANGED vars
  BY <1>7 DEF Clock, Change, vars
<1> QED
  BY <1>1, <1>2, <1>3, <1>4, <1>5, <1>6, <1>7 DEF Next, Step

\* The max_stale test of get and the three ways an answer is returned without an
\* error of compute(): whatever the threads do in between, and however full the
\* table is, the answer was younger than max_stale when the request began, or
\* came after that.
THEOREM Spec_AnswerRecent == Spec => AnswerRecent
<1>1. Init => AgesInv
  BY Init_AgesInv
<1>2. AgesInv /\ [Next]_vars => AgesInv'
  BY Next_AgesInv
<1>3. AgesInv /\ [Next]_vars =>
        [\A t \in Thread : pc[t] # "done" /\ pc'[t] = "done" /\ got'[t] # Raised =>
              now0[t] - got'[t].at < MaxStale \/ Fail(t)]_vars
  BY Next_Recent
<1> QED
  BY <1>1, <1>2, <1>3, PTL DEF Spec, AnswerRecent

-------------------------------------------------------------------------------
(* The versions of answers, where the keys fit in the table.               *)

\* What a thread has read or was given is not ahead of the entry of its key, and
\* what it is computing is not behind it.
VersionsInv ==
    /\ \A t \in Thread : entry[t] # None =>
            key[t] \in DOMAIN entries /\ entries[key[t]].val >= entry[t].val
    /\ \A t \in Thread : pc[t] = "compute" /\ key[t] \in DOMAIN entries =>
            val[t] >= entries[key[t]].val
    /\ \A t \in Thread : val[t] <= data
    /\ \A k \in DOMAIN entries : entries[k].val <= data
    /\ NeverAhead

\* Every key that has an entry keeps it, or gets a later one.
Grown(k) == k \in DOMAIN entries' /\ entries'[k].val >= entries[k].val

\* What holds of a thread that takes no step, while entries only grow.
LEMMA Others_Versions ==
  ASSUME AgesInv, VersionsInv, data' = data, \A k \in DOMAIN entries : Grown(k),
         \A k \in DOMAIN entries' : entries'[k] \in Entry,
         NEW u \in Thread, pc'[u] = pc[u], key'[u] = key[u], entry'[u] = entry[u],
         val'[u] = val[u], got'[u] = got[u]
  PROVE  /\ entry'[u] # None =>
               key'[u] \in DOMAIN entries' /\ entries'[key'[u]].val >= entry'[u].val
         /\ pc'[u] = "done" /\ got'[u] \notin {None, Raised} =>
               key'[u] \in DOMAIN entries' /\ entries'[key'[u]].val >= got'[u].val
<1>1. ASSUME NEW e \in Entry, key[u] \in DOMAIN entries, entries[key[u]].val >= e.val
      PROVE  key[u] \in DOMAIN entries' /\ entries'[key[u]].val >= e.val
  <2>1. Grown(key[u])
    BY <1>1
  <2> QED
    BY <1>1, <2>1 DEF Grown, AgesInv, Entry
<1>2. entry[u] \in Entry \cup {None} /\ got[u] \in Entry \cup {None, Raised}
  BY DEF AgesInv
<1> QED
  BY <1>1, <1>2 DEF VersionsInv, NeverAhead

\* A thread that returns what is stored under its key, or an exception.
LEMMA Return_VersionsInv ==
  ASSUME AgesInv, VersionsInv, NEW t \in Thread, NEW k, NEW answer \in Entry \cup {None, Raised},
         Return(t, answer), key' = [key EXCEPT ![t] = k],
         key \in [Thread -> Key], UNCHANGED <<entries, data>>,
         answer \in Entry => k \in DOMAIN entries /\ entries[k].val >= answer.val
  PROVE  VersionsInv'
<1>1. ASSUME NEW u \in Thread, u # t
      PROVE  /\ pc'[u] = pc[u] /\ key'[u] = key[u] /\ entry'[u] = entry[u]
             /\ val'[u] = val[u] /\ got'[u] = got[u]
  BY <1>1 DEF Return, Goto, AgesInv
<1>2. /\ pc'[t] = "done" /\ key'[t] = k /\ entry'[t] = None /\ val'[t] = 0 /\ got'[t] = answer
  BY DEF Return, Goto, AgesInv
<1> QED
  BY <1>1, <1>2 DEF VersionsInv, NeverAhead, AgesInv

\* No entry goes while the keys fit in the table.
LEMMA LockFor_KeepsEntries ==
  ASSUME KeysFit, LockInv, AgesInv, NEW t \in Thread, LockFor(t)
  PROVE  DOMAIN entries' = DOMAIN entries /\ \A k \in DOMAIN entries : entries'[k] = entries[k]
<1>1. CASE key[t] \in DOMAIN locks
  BY <1>1 DEF LockFor
<1>2. CASE key[t] \notin DOMAIN locks
  <2>1. ~Full
    BY <1>2, NotFull DEF LockInv
  <2> QED
    BY <1>2, <2>1 DEF LockFor, Restrict
<1> QED
  BY <1>1, <1>2

LEMMA Store_Grows ==
  ASSUME AgesInv, VersionsInv, NEW t \in Thread, Store(t)
  PROVE  \A k \in DOMAIN entries : Grown(k)
<1>1. pc[t] = "compute" /\ val[t] \in Nat
  BY DEF Store, AgesInv
<1>2. ASSUME NEW k \in DOMAIN entries PROVE Grown(k)
  <2>1. CASE k = key[t]
    BY <1>1, <2>1 DEF Store, Grown, VersionsInv
  <2>2. CASE k # key[t]
    <3>1. entries'[k] = entries[k] /\ entries[k].val \in Nat
      BY <2>2 DEF Store, AgesInv, Entry
    <3> QED
      BY <3>1 DEF Store, Grown
  <2> QED
    BY <2>1, <2>2
<1> QED
  BY <1>2

LEMMA Store_VersionsInv ==
  ASSUME LockInv, AgesInv, VersionsInv, NEW t \in Thread, Store(t)
  PROVE  VersionsInv'
<1> DEFINE e == [at |-> now, val |-> val[t]]
<1>1. /\ entries' = [j \in DOMAIN entries \cup {key[t]} |-> IF j = key[t] THEN e ELSE entries[j]]
      /\ Return(t, e) /\ pc[t] = "compute" /\ UNCHANGED <<now, data, key>>
  BY DEF Store
<1>2. e \in Entry /\ val[t] <= data
  BY DEF AgesInv, VersionsInv, Entry
<1>3. \A k \in DOMAIN entries' : entries'[k] \in Entry
  BY <1>1, <1>2 DEF AgesInv
<1>4. \A k \in DOMAIN entries : Grown(k)
  BY Store_Grows
<1>5. /\ pc'[t] = "done" /\ entry'[t] = None /\ val'[t] = 0 /\ got'[t] = e
      /\ key[t] \in DOMAIN entries' /\ entries'[key[t]] = e
  BY <1>1 DEF Return, Goto, AgesInv
<1>6. ASSUME NEW u \in Thread, u # t
      PROVE  /\ pc'[u] = pc[u] /\ key'[u] = key[u] /\ entry'[u] = entry[u]
             /\ val'[u] = val[u] /\ got'[u] = got[u]
  BY <1>1, <1>6 DEF Return, Goto, AgesInv
<1>7. \A u \in Thread : entry'[u] # None =>
            key'[u] \in DOMAIN entries' /\ entries'[key'[u]].val >= entry'[u].val
  BY <1>1, <1>3, <1>4, <1>5, <1>6, Others_Versions
<1>8. ASSUME NEW u \in Thread, pc'[u] = "compute", key'[u] \in DOMAIN entries'
      PROVE  val'[u] >= entries'[key'[u]].val
  <2>1. u # t /\ pc[u] = "compute"
    BY <1>5, <1>6, <1>8
  <2>2. key[u] # key[t]
    BY <1>1, <2>1, LockInv_OneComputation DEF OneComputation
  <2> QED
    BY <1>1, <1>6, <1>8, <2>1, <2>2 DEF VersionsInv
<1>9. \A u \in Thread : val'[u] <= data'
  BY <1>1, <1>5, <1>6 DEF VersionsInv, AgesInv
<1>10. \A k \in DOMAIN entries' : entries'[k].val <= data'
  BY <1>1, <1>2 DEF VersionsInv
<1>11. \A u \in Thread : pc'[u] = "done" /\ got'[u] \notin {None, Raised} =>
            key'[u] \in DOMAIN entries' /\ entries'[key'[u]].val >= got'[u].val
  <2>1. \A u \in Thread \ {t} : pc'[u] = "done" /\ got'[u] \notin {None, Raised} =>
            key'[u] \in DOMAIN entries' /\ entries'[key'[u]].val >= got'[u].val
    BY <1>1, <1>3, <1>4, <1>6, Others_Versions
  <2>2. key'[t] \in DOMAIN entries' /\ entries'[key'[t]].val >= got'[t].val
    BY <1>1, <1>2, <1>5 DEF Entry
  <2> QED
    BY <2>1, <2>2
<1> QED
  BY <1>7, <1>8, <1>9, <1>10, <1>11 DEF VersionsInv, NeverAhead

LEMMA Next_VersionsInv ==
  KeysFit /\ LockInv /\ AgesInv /\ VersionsInv /\ [Next]_vars => VersionsInv'
<1> SUFFICES ASSUME KeysFit, LockInv, AgesInv, VersionsInv, [Next]_vars PROVE VersionsInv'
  OBVIOUS
<1>1. CASE Clock \/ Change
  BY <1>1 DEF VersionsInv, NeverAhead, Clock, Change, local, AgesInv, Entry
<1>2. ASSUME NEW t \in Thread, NEW k \in Key, Get(t, k) PROVE VersionsInv'
  <2>1. /\ Lookup(k) \in Entry \cup {None}
        /\ Lookup(k) \in Entry => k \in DOMAIN entries /\ Lookup(k) = entries[k]
    BY Lookup_Entry DEF Lookup, None, Entry
  <2>2. Lookup(k) \in Entry => entries[k].val >= Lookup(k).val
    BY <2>1 DEF Entry
  <2>3. CASE Return(t, Lookup(k))
    BY <1>2, <2>1, <2>2, <2>3, Return_VersionsInv DEF Get, LockInv
  <2>4. CASE ~Return(t, Lookup(k))
    <3>1. /\ entry' = [entry EXCEPT ![t] = Lookup(k)] /\ key' = [key EXCEPT ![t] = k]
          /\ pc[t] = "done" /\ pc' = [pc EXCEPT ![t] = "lock_for"]
          /\ got' = [got EXCEPT ![t] = None] /\ UNCHANGED <<entries, data, val>>
      BY <1>2, <2>4 DEF Get, Goto
    <3> QED
      BY <2>1, <2>2, <3>1 DEF VersionsInv, NeverAhead, AgesInv, LockInv, Entry
  <2> QED
    BY <2>3, <2>4
<1>3. ASSUME NEW t \in Thread, LockFor(t) PROVE VersionsInv'
  <2>1. DOMAIN entries' = DOMAIN entries /\ \A k \in DOMAIN entries : entries'[k] = entries[k]
    BY <1>3, LockFor_KeepsEntries
  <2>2. /\ pc[t] = "lock_for" /\ pc' = [pc EXCEPT ![t] = "acquire"]
        /\ UNCHANGED <<data, key, entry, val, got>>
    BY <1>3 DEF LockFor, Goto
  <2> QED
    BY <2>1, <2>2 DEF VersionsInv, NeverAhead, AgesInv
<1>4. ASSUME NEW t \in Thread, Acquire(t) PROVE VersionsInv'
  BY <1>4 DEF VersionsInv, NeverAhead, AgesInv, Acquire, Goto, local
<1>5. ASSUME NEW t \in Thread, ServeStale(t) PROVE VersionsInv'
  <2>1. /\ entry[t] \in Entry \cup {None} /\ Return(t, entry[t])
        /\ key' = [key EXCEPT ![t] = key[t]] /\ UNCHANGED <<entries, data>>
    BY <1>5 DEF ServeStale, AgesInv, LockInv
  <2>2. entry[t] \in Entry =>
          key[t] \in DOMAIN entries /\ entries[key[t]].val >= entry[t].val
    BY DEF VersionsInv, Entry, None
  <2> QED
    BY <2>1, <2>2, Return_VersionsInv DEF LockInv
<1>6. ASSUME NEW t \in Thread, Peek(t) PROVE VersionsInv'
  <2> DEFINE k == key[t]
  <2>1. /\ Lookup(k) \in Entry \cup {None}
        /\ Lookup(k) \in Entry => k \in DOMAIN entries /\ Lookup(k) = entries[k]
    BY Lookup_Entry DEF Lookup, None, Entry
  <2>2. Lookup(k) \in Entry => entries[k].val >= Lookup(k).val
    BY <2>1 DEF Entry
  <2>3. key' = [key EXCEPT ![t] = k] /\ UNCHANGED <<entries, data>>
    BY <1>6 DEF Peek, LockInv
  <2>4. CASE Return(t, Lookup(k))
    BY <2>1, <2>2, <2>3, <2>4, Return_VersionsInv DEF LockInv
  <2>5. CASE ~Return(t, Lookup(k))
    <3>1. /\ entry' = [entry EXCEPT ![t] = Lookup(k)] /\ val' = [val EXCEPT ![t] = data]
          /\ pc' = [pc EXCEPT ![t] = "compute"] /\ UNCHANGED <<got, key>>
      BY <1>6, <2>5 DEF Peek, Goto
    <3> QED
      BY <2>1, <2>2, <2>3, <3>1 DEF VersionsInv, NeverAhead, AgesInv, LockInv, Entry
  <2> QED
    BY <2>4, <2>5
<1>7. ASSUME NEW t \in Thread, Store(t) PROVE VersionsInv'
  BY <1>7, Store_VersionsInv
<1>8. ASSUME NEW t \in Thread, Fail(t) PROVE VersionsInv'
  <2> DEFINE answer == IF entry[t] # None THEN entry[t] ELSE Raised
  <2>1. /\ answer \in Entry \cup {None, Raised} /\ Return(t, answer)
        /\ key' = [key EXCEPT ![t] = key[t]] /\ UNCHANGED <<entries, data>>
    BY <1>8 DEF Fail, AgesInv, LockInv
  <2>2. answer \in Entry => key[t] \in DOMAIN entries /\ entries[key[t]].val >= answer.val
    BY DEF VersionsInv, Entry, Raised, AgesInv
  <2> HIDE DEF answer
  <2> QED
    BY <2>1, <2>2, Return_VersionsInv DEF LockInv
<1>9. CASE UNCHANGED vars
  BY <1>9 DEF VersionsInv, NeverAhead, vars
<1> QED
  BY <1>1, <1>2, <1>3, <1>4, <1>5, <1>6, <1>7, <1>8, <1>9 DEF Next, Step

LEMMA Init_VersionsInv == Init => VersionsInv
  BY DEF Init, VersionsInv, NeverAhead

\* Nobody has been given a later answer than the one that is stored for the key,
\* whichever of the returns of get it came from, and whatever the other threads
\* did: for any number of threads and keys, as long as the keys fit in the table.
THEOREM Spec_NeverAhead ==
  ASSUME KeysFit, Key # {}
  PROVE  Spec => []NeverAhead
<1>1. Init => LockInv /\ AgesInv /\ VersionsInv
  BY Init_LockInv, Init_AgesInv, Init_VersionsInv
<1>2. LockInv /\ AgesInv /\ VersionsInv /\ [Next]_vars => LockInv' /\ AgesInv' /\ VersionsInv'
  BY Next_LockInv, Next_AgesInv, Next_VersionsInv
<1>3. VersionsInv => NeverAhead
  BY DEF VersionsInv
<1> QED
  BY <1>1, <1>2, <1>3, PTL DEF Spec

\* Only a store changes what is stored, and the store of a slow computation does
\* not replace the result of one that saw a later database.
LEMMA Next_Grows ==
  ASSUME KeysFit, LockInv, AgesInv, VersionsInv, [Next]_vars
  PROVE  \A k \in DOMAIN entries : Grown(k)
<1>1. CASE UNCHANGED entries
  BY <1>1 DEF Grown, AgesInv, Entry
<1>2. ASSUME NEW t \in Thread, LockFor(t) PROVE \A k \in DOMAIN entries : Grown(k)
  BY <1>2, LockFor_KeepsEntries DEF Grown, AgesInv, Entry
<1>3. ASSUME NEW t \in Thread, Store(t) PROVE \A k \in DOMAIN entries : Grown(k)
  BY <1>3, Store_Grows
<1>4. UNCHANGED entries \/ \E t \in Thread : LockFor(t) \/ Store(t)
  BY DEF Next, Step, Clock, Change, Get, Acquire, ServeStale, Peek, Fail, vars
<1> QED
  BY <1>1, <1>2, <1>3, <1>4

\* The store at the end of get, for any number of threads and keys, as long as
\* the keys fit in the table.
THEOREM Spec_NoRegress ==
  ASSUME KeysFit, Key # {}
  PROVE  Spec => NoRegress
<1>1. Init => LockInv /\ AgesInv /\ VersionsInv
  BY Init_LockInv, Init_AgesInv, Init_VersionsInv
<1>2. LockInv /\ AgesInv /\ VersionsInv /\ [Next]_vars => LockInv' /\ AgesInv' /\ VersionsInv'
  BY Next_LockInv, Next_AgesInv, Next_VersionsInv
<1>3. LockInv /\ AgesInv /\ VersionsInv /\ [Next]_vars =>
        [\A k \in DOMAIN entries \cap DOMAIN entries' : entries'[k].val >= entries[k].val]_vars
  BY Next_Grows DEF Grown
<1> QED
  BY <1>1, <1>2, <1>3, PTL DEF Spec, NoRegress
===============================================================================
