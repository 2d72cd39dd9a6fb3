--------------------------- MODULE IndexTablesProofs ---------------------------
(***************************************************************************)
(* Theorems about the tables that follow the blocks: after any sequence of  *)
(* batches, rewinds, failed calls, stops and crashes they hold exactly the  *)
(* transactions of the committed blocks.                                    *)
(***************************************************************************)
EXTENDS IndexerProofs, EmissionProofs

-------------------------------------------------------------------------------
(* What the operations on tables do to each table *)

Tables == {"blocks", "txs", "outs", "ins", "utxos", "assets", "activity", "wins", "active"}
HasTables(d) == Tables \subseteq DOMAIN d

\* The operations leave every table in place.
LEMMA KeepTables ==
    ASSUME NEW d, NEW b, NEW t, NEW h, HasTables(d)
    PROVE  /\ HasTables(RepairGenesis(d)) /\ HasTables(PutBlock(d, h, b))
           /\ HasTables(IndexTx(d, t, h)) /\ HasTables(DropAbove(d, h))
<1>1. HasTables(RepairGenesis(d))
  BY DEF HasTables, Tables, RepairGenesis
<1>2. HasTables(PutBlock(d, h, b))
  BY DEF HasTables, Tables, PutBlock
<1>3. HasTables(IndexTx(d, t, h))
  BY DEF HasTables, Tables, IndexTx
<1>4. HasTables(DropAbove(d, h))
  BY DEF HasTables, Tables, DropAbove
<1> QED BY <1>1, <1>2, <1>3, <1>4

\* A rewind drops what is above its height from every table.  The unspent
\* outputs are made again from what is left, or wiped.
LEMMA RewindTables ==
    ASSUME NEW d, NEW h, HasTables(d)
    PROVE  LET e == Rewind(d, h)
               c == DropAbove(d, h)
           IN  /\ HasTables(e)
               /\ e.txs = c.txs /\ e.outs = c.outs /\ e.ins = c.ins
               /\ e.activity = c.activity /\ e.wins = c.wins /\ e.active = c.active
               /\ e.utxos = IF h < 0 THEN EmptyTable ELSE RebuildUtxos(c).utxos
<1> DEFINE c == DropAbove(d, h)
           spent == {Ins[r[1]][r[2]] : r \in DOMAIN c.ins}
           rows == {o \in c.outs : o[1] \in DOMAIN c.txs /\ o \notin spent}
           table == [o \in rows |-> c.txs[o[1]]]
<1>1. HasTables(c)
  BY KeepTables
<1>2. RebuildUtxos(c) = [c EXCEPT !.utxos = table]
  BY Zenon DEF RebuildUtxos
<1>3. CASE h < 0
  <2>1. Rewind(d, h) = [c EXCEPT !.utxos = EmptyTable, !.assets = EmptyTable]
    BY <1>3 DEF Rewind
  <2> HIDE DEF c
  <2> QED BY <1>1, <1>3, <2>1 DEF HasTables, Tables, c
<1>4. CASE ~ (h < 0)
  <2>1. Rewind(d, h) = [c EXCEPT !.utxos = table] /\ Rewind(d, h) = RebuildUtxos(c)
    BY <1>2, <1>4 DEF Rewind
  <2> DEFINE e == Rewind(d, h)
  <2> HIDE DEF table, c
  <2>2. /\ HasTables(e) /\ e.utxos = table
        /\ e.txs = c.txs /\ e.outs = c.outs /\ e.ins = c.ins
        /\ e.activity = c.activity /\ e.wins = c.wins /\ e.active = c.active
    BY <1>1, <2>1 DEF HasTables, Tables
  <2> QED BY <1>4, <2>1, <2>2 DEF c
<1> QED BY <1>3, <1>4

-------------------------------------------------------------------------------
(* Tables txs and txio, row by row *)

\* The transactions mined up to a height.
Upto(M, r) == {m \in M : m[1] <= r}

LedgerRows(d, M) ==
    /\ \A h, t : <<h, t>> \in M <=> t \in DOMAIN d.txs /\ d.txs[t] = h
    /\ \A o : o \in d.outs <=> \E t \in DOMAIN d.txs : o \in Outpoint(t)
    /\ \A r : r \in DOMAIN d.ins <=> \E t \in DOMAIN d.txs : \E i \in DOMAIN Ins[t] : r = <<t, i>>

LEMMA LedgerByRows ==
    ASSUME NEW d, NEW M \in SUBSET (Nat \X Tx)
    PROVE  HoldsLedger(d, M) <=> LedgerRows(d, M)
<1> DEFINE txs == {m[2] : m \in M}
<1>1. ASSUME HoldsLedger(d, M) PROVE LedgerRows(d, M)
  <2>1. \A h, t : <<h, t>> \in M <=> t \in DOMAIN d.txs /\ d.txs[t] = h
    BY <1>1 DEF HoldsLedger
  <2>2. \A t : t \in txs <=> t \in DOMAIN d.txs
    <3>1. \A t \in txs : \E m \in M : t = m[2] /\ m = <<m[1], m[2]>>
      OBVIOUS
    <3>2. \A t \in DOMAIN d.txs : <<d.txs[t], t>> \in M /\ <<d.txs[t], t>>[2] = t
      BY <2>1
    <3>3. \A m \in M : m[2] \in DOMAIN d.txs
      BY <2>1, <3>1
    <3> QED BY <3>2, <3>3
  <2>3. d.outs = UNION {Outpoint(t) : t \in txs}
        /\ DOMAIN d.ins = UNION {{<<t, i>> : i \in DOMAIN Ins[t]} : t \in txs}
    BY <1>1 DEF HoldsLedger
  <2> HIDE DEF txs
  <2> QED BY <2>1, <2>2, <2>3 DEF LedgerRows
<1>2. ASSUME LedgerRows(d, M) PROVE HoldsLedger(d, M)
  <2>1. {<<d.txs[t], t>> : t \in DOMAIN d.txs} = M
    <3>1. \A m \in M : m = <<m[1], m[2]>>
      OBVIOUS
    <3>2. \A m \in M : m[2] \in DOMAIN d.txs /\ m = <<d.txs[m[2]], m[2]>>
      BY <1>2, <3>1 DEF LedgerRows
    <3> QED BY <1>2, <3>2 DEF LedgerRows
  <2>2. txs = DOMAIN d.txs
    <3>1. \A m \in M : m[2] \in DOMAIN d.txs
      BY <2>1
    <3>2. \A t \in DOMAIN d.txs : <<d.txs[t], t>> \in M /\ <<d.txs[t], t>>[2] = t
      BY <2>1
    <3> QED BY <3>1, <3>2
  <2>3. /\ d.outs = UNION {Outpoint(t) : t \in DOMAIN d.txs}
        /\ DOMAIN d.ins = UNION {{<<t, i>> : i \in DOMAIN Ins[t]} : t \in DOMAIN d.txs}
    BY <1>2 DEF LedgerRows
  <2> QED BY <2>1, <2>2, <2>3 DEF HoldsLedger
<1> QED BY <1>1, <1>2

\* A transaction that is not there yet is added.
LEMMA LedgerAdds ==
    ASSUME NEW d, NEW M, NEW t, NEW h, HasTables(d), LedgerRows(d, M), t \notin DOMAIN d.txs
    PROVE  LedgerRows(IndexTx(d, t, h), M \cup {<<h, t>>})
<1> DEFINE e == IndexTx(d, t, h)
<1>1. /\ e.txs = Upsert(d.txs, [x \in {t} |-> h])
      /\ e.outs = d.outs \cup Outpoint(t)
  BY DEF HasTables, Tables, IndexTx
<1>i. DOMAIN e.ins = DOMAIN d.ins \cup {<<t, i>> : i \in DOMAIN Ins[t]}
  <2>1. e.ins = Upsert(d.ins, [r \in {<<t, i>> : i \in DOMAIN Ins[t]} |->
                                  Ins[t][r[2]] \in DOMAIN d.utxos])
    BY DEF HasTables, Tables, IndexTx
  <2> QED BY <2>1 DEF Upsert
<1> HIDE DEF e
<1>2. /\ DOMAIN e.txs = DOMAIN d.txs \cup {t} /\ e.txs[t] = h
      /\ \A x \in DOMAIN d.txs : e.txs[x] = d.txs[x]
  BY <1>1 DEF Upsert
<1>3. ASSUME NEW g, NEW x
      PROVE  <<g, x>> \in M \cup {<<h, t>>} <=> x \in DOMAIN e.txs /\ e.txs[x] = g
  <2>1. <<g, x>> = <<h, t>> <=> g = h /\ x = t
    OBVIOUS
  <2> QED BY <1>2, <2>1 DEF LedgerRows
<1>4. \A o : o \in e.outs <=> \E x \in DOMAIN e.txs : o \in Outpoint(x)
  BY <1>1, <1>2 DEF LedgerRows
<1>5. \A r : r \in DOMAIN e.ins <=> \E x \in DOMAIN e.txs : \E i \in DOMAIN Ins[x] : r = <<x, i>>
  BY <1>i, <1>2 DEF LedgerRows
<1> QED BY <1>3, <1>4, <1>5 DEF LedgerRows, e

\* A rewind keeps what was mined up to its height.
LEMMA LedgerCuts ==
    ASSUME NEW d, NEW M \in SUBSET (Nat \X Tx), NEW r \in Int, HasTables(d), LedgerRows(d, M)
    PROVE  LedgerRows(Rewind(d, r), Upto(M, r))
<1> DEFINE e == Rewind(d, r)
           gone == {t \in DOMAIN d.txs : d.txs[t] > r}
<1>1. /\ e.txs = Without(d.txs, gone)
      /\ e.outs = {o \in d.outs : o[1] \notin gone}
      /\ e.ins = Without(d.ins, {i \in DOMAIN d.ins : i[1] \in gone})
  <2>1. /\ DropAbove(d, r).txs = Without(d.txs, gone)
        /\ DropAbove(d, r).outs = {o \in d.outs : o[1] \notin gone}
        /\ DropAbove(d, r).ins = Without(d.ins, {i \in DOMAIN d.ins : i[1] \in gone})
    BY DEF HasTables, Tables, DropAbove
  <2> HIDE DEF gone
  <2> QED BY <2>1, RewindTables
<1> HIDE DEF e
<1>2. \A t \in DOMAIN d.txs : d.txs[t] \in Nat
  <2>1. \A t \in DOMAIN d.txs : <<d.txs[t], t>> \in M
    BY DEF LedgerRows
  <2> QED BY <2>1
<1>3. /\ DOMAIN e.txs = {t \in DOMAIN d.txs : d.txs[t] <= r}
      /\ \A t \in DOMAIN e.txs : e.txs[t] = d.txs[t]
  BY <1>1, <1>2 DEF Without
<1>4. DOMAIN e.ins = {i \in DOMAIN d.ins : i[1] \notin gone}
  BY <1>1 DEF Without
<1>5. \A t \in DOMAIN d.txs : t \notin gone <=> t \in DOMAIN e.txs
  BY <1>2, <1>3
<1> HIDE DEF gone
<1>6. ASSUME NEW h, NEW t
      PROVE  <<h, t>> \in Upto(M, r) <=> t \in DOMAIN e.txs /\ e.txs[t] = h
  <2>1. <<h, t>> \in Upto(M, r) <=> <<h, t>> \in M /\ h <= r
    BY DEF Upto
  <2> QED BY <1>3, <2>1 DEF LedgerRows
<1>7. \A o : o \in e.outs <=> \E x \in DOMAIN e.txs : o \in Outpoint(x)
  <2>1. \A t : \A o \in Outpoint(t) : o[1] = t
    BY DEF Outpoint
  <2> QED BY <1>1, <1>3, <1>5, <2>1 DEF LedgerRows
<1>8. \A q : q \in DOMAIN e.ins <=> \E x \in DOMAIN e.txs : \E i \in DOMAIN Ins[x] : q = <<x, i>>
  <2>1. \A x, i, q : q = <<x, i>> => q[1] = x
    OBVIOUS
  <2> QED BY <1>3, <1>4, <1>5, <2>1 DEF LedgerRows
<1> QED BY <1>6, <1>7, <1>8 DEF LedgerRows, e

-------------------------------------------------------------------------------
(* Table utxos *)

\* The transactions of a genesis block only pay.
Genesis(M) == \A m \in M : m[1] = 0 => OnlyPays(m[2])

\* A row of utxos is an output of a stored transaction, with its height.
UtxoRows(d) ==
    \A o \in DOMAIN d.utxos :
        o \in Outpoint(o[1]) /\ o[1] \in DOMAIN d.txs /\ d.txs[o[1]] = d.utxos[o]

LEMMA OutpointOf ==
    ASSUME NEW t, NEW o \in Outpoint(t)
    PROVE  o[1] = t /\ o = <<t, o[2]>> /\ o[2] \in DOMAIN Outs[t]
  BY DEF Outpoint

LEMMA UnspentCarries ==
    ASSUME NEW t, NEW h, NEW o
    PROVE  o \in Unspent(t, h) <=> o \in Outpoint(t) /\ Carries(o, h)
  BY DEF Unspent, Carries

\* An output of the genesis block carries nothing.
LEMMA GenesisCarries ==
    ASSUME NEW t, OnlyPays(t), NEW o \in Outpoint(t)
    PROVE  ~ Carries(o, 0)
  BY OutpointOf DEF OnlyPays, Carries, StoredValue, Output

LEMMA CreatedMember ==
    ASSUME NEW M, NEW o
    PROVE  o \in Created(M) <=> \E m \in M : m[1] > 0 /\ o \in Unspent(m[2], m[1])
  BY DEF Created

LEMMA SpentMember ==
    ASSUME NEW M, NEW o
    PROVE  o \in Spent(M) <=> \E m \in M : o \in Spends(m[2])
  BY DEF Spent

\* One more transaction creates its outputs and spends its inputs.
LEMMA OneMore ==
    ASSUME NEW M, NEW h, NEW t, NEW o
    PROVE  /\ o \in Created(M \cup {<<h, t>>}) <=> o \in Created(M) \/ (h > 0 /\ o \in Unspent(t, h))
           /\ o \in Spent(M \cup {<<h, t>>}) <=> o \in Spent(M) \/ o \in Spends(t)
<1> DEFINE N == M \cup {<<h, t>>}
<1>1. o \in Created(N) <=> \E m \in N : m[1] > 0 /\ o \in Unspent(m[2], m[1])
  BY CreatedMember
<1>2. o \in Spent(N) <=> \E m \in N : o \in Spends(m[2])
  BY SpentMember
<1>3. <<h, t>>[1] = h /\ <<h, t>>[2] = t
  OBVIOUS
<1> QED BY <1>1, <1>2, <1>3, CreatedMember, SpentMember

LEMMA UtxosAdd ==
    ASSUME NEW d, NEW M, NEW t, NEW h \in Nat, HasTables(d), HoldsUtxos(d, M),
           Unspent(t, h) \cap (Spent(M) \cup Spends(t)) = {},
           h = 0 => OnlyPays(t)
    PROVE  HoldsUtxos(IndexTx(d, t, h), M \cup {<<h, t>>})
<1> DEFINE u == d.utxos
           v == IndexTx(d, t, h).utxos
           N == M \cup {<<h, t>>}
<1>1. v = Upsert(Without(u, Spends(t)), [o \in Unspent(t, h) |-> h])
  BY DEF HasTables, Tables, IndexTx
<1>2. \A o : o \in DOMAIN u /\ Carries(o, u[o]) <=> o \in Created(M) /\ o \notin Spent(M)
  BY DEF HoldsUtxos
<1>3. h = 0 => Unspent(t, h) = {}
  BY GenesisCarries, UnspentCarries
<1> HIDE DEF u, v
<1>4. /\ DOMAIN v = (DOMAIN u \ Spends(t)) \cup Unspent(t, h)
      /\ \A o \in Unspent(t, h) : v[o] = h
      /\ \A o \in DOMAIN u \ Spends(t) : o \notin Unspent(t, h) => v[o] = u[o]
  BY <1>1 DEF Upsert, Without
<1>5. ASSUME NEW o
      PROVE  o \in DOMAIN v /\ Carries(o, v[o]) <=> o \in Created(N) /\ o \notin Spent(N)
  <2>1. CASE o \in Unspent(t, h)
    <3>1. o \in DOMAIN v /\ Carries(o, v[o]) /\ h > 0
      BY <1>3, <1>4, <2>1, UnspentCarries
    <3> QED BY <2>1, <3>1, OneMore
  <2>2. CASE o \notin Unspent(t, h)
    <3>1. o \in DOMAIN v <=> o \in DOMAIN u /\ o \notin Spends(t)
      BY <1>4, <2>2
    <3>2. o \in DOMAIN v => v[o] = u[o]
      BY <1>4, <2>2, <3>1
    <3> QED BY <1>2, <2>2, <3>1, <3>2, OneMore
  <2> QED BY <2>1, <2>2
<1>6. {o \in DOMAIN v : Carries(o, v[o])} = Created(N) \ Spent(N)
  BY <1>5
<1> QED BY <1>6 DEF HoldsUtxos, v

LEMMA UtxoRowsAdd ==
    ASSUME NEW d, NEW t, NEW h, HasTables(d), UtxoRows(d), t \notin DOMAIN d.txs
    PROVE  UtxoRows(IndexTx(d, t, h))
<1> DEFINE u == d.utxos
           v == IndexTx(d, t, h).utxos
           e == IndexTx(d, t, h)
<1>1. v = Upsert(Without(u, Spends(t)), [o \in Unspent(t, h) |-> h])
      /\ e.txs = Upsert(d.txs, [x \in {t} |-> h])
  BY DEF HasTables, Tables, IndexTx
<1> HIDE DEF u, e
<1>2. /\ DOMAIN v = (DOMAIN u \ Spends(t)) \cup Unspent(t, h)
      /\ \A o \in Unspent(t, h) : v[o] = h
      /\ \A o \in DOMAIN u \ Spends(t) : o \notin Unspent(t, h) => v[o] = u[o]
  BY <1>1 DEF Upsert, Without
<1>3. /\ DOMAIN e.txs = DOMAIN d.txs \cup {t} /\ e.txs[t] = h
      /\ \A x \in DOMAIN d.txs : e.txs[x] = d.txs[x]
  BY <1>1 DEF Upsert
<1>4. ASSUME NEW o \in DOMAIN v
      PROVE  o \in Outpoint(o[1]) /\ o[1] \in DOMAIN e.txs /\ e.txs[o[1]] = v[o]
  <2>1. CASE o \in Unspent(t, h)
    <3>1. o \in Outpoint(t) /\ o[1] = t
      BY <2>1, UnspentCarries, OutpointOf
    <3> QED BY <1>2, <1>3, <2>1, <3>1
  <2>2. CASE o \notin Unspent(t, h)
    <3>1. o \in DOMAIN u /\ v[o] = u[o]
      BY <1>2, <2>2
    <3>2. o \in Outpoint(o[1]) /\ o[1] \in DOMAIN d.txs /\ d.txs[o[1]] = u[o]
      BY <3>1 DEF UtxoRows, u
    <3> QED BY <1>3, <3>1, <3>2
  <2> QED BY <2>1, <2>2
<1> QED BY <1>4 DEF UtxoRows, e

\* The genesis repair deletes no row that carries anything.
LEMMA UtxosRepair ==
    ASSUME NEW d, NEW M, HasTables(d), LedgerRows(d, M), Genesis(M), UtxoRows(d), HoldsUtxos(d, M)
    PROVE  HoldsUtxos(RepairGenesis(d), M) /\ UtxoRows(RepairGenesis(d))
<1> DEFINE u == d.utxos
           e == RepairGenesis(d)
           v == e.utxos
<1>1. v = Without(u, {o \in DOMAIN u : u[o] = 0}) /\ e.txs = d.txs
  BY DEF HasTables, Tables, RepairGenesis
<1> HIDE DEF e, u
<1>2. DOMAIN v = {o \in DOMAIN u : u[o] # 0} /\ \A o \in DOMAIN v : v[o] = u[o]
  BY <1>1 DEF Without
<1>3. ASSUME NEW o \in DOMAIN u, u[o] = 0 PROVE ~ Carries(o, u[o])
  <2>1. o \in Outpoint(o[1]) /\ o[1] \in DOMAIN d.txs /\ d.txs[o[1]] = 0
    BY <1>3 DEF UtxoRows, u
  <2>2. <<0, o[1]>> \in M
    BY <2>1 DEF LedgerRows
  <2>3. OnlyPays(o[1])
    BY <2>2 DEF Genesis
  <2> QED BY <1>3, <2>1, <2>3, GenesisCarries
<1>4. {o \in DOMAIN v : Carries(o, v[o])} = {o \in DOMAIN u : Carries(o, u[o])}
  BY <1>2, <1>3
<1>5. UtxoRows(e)
  BY <1>1, <1>2 DEF UtxoRows, u
<1> QED BY <1>4, <1>5 DEF HoldsUtxos, e, u

\* The rows made again are the outputs that carry something and are not spent.
LEMMA UtxosRebuilt ==
    ASSUME NEW c, NEW M \in SUBSET (Nat \X Tx), HasTables(c), LedgerRows(c, M), Genesis(M),
           NEW e, e.txs = c.txs, e.utxos = RebuildUtxos(c).utxos
    PROVE  HoldsUtxos(e, M) /\ UtxoRows(e)
<1> DEFINE spent == {Ins[r[1]][r[2]] : r \in DOMAIN c.ins}
           rows == {o \in c.outs : o[1] \in DOMAIN c.txs /\ o \notin spent}
           u == e.utxos
<1>1. u = [o \in rows |-> c.txs[o[1]]]
  <2> DEFINE table == [o \in rows |-> c.txs[o[1]]]
  <2>1. RebuildUtxos(c) = [c EXCEPT !.utxos = table]
    BY Zenon DEF RebuildUtxos
  <2> HIDE DEF table
  <2>2. RebuildUtxos(c).utxos = table
    BY <2>1 DEF HasTables, Tables
  <2> QED BY <2>2 DEF table
<1>2. ASSUME NEW o PROVE o \in spent <=> o \in Spent(M)
  <2>1. ASSUME o \in spent PROVE o \in Spent(M)
    <3>1. PICK r \in DOMAIN c.ins : o = Ins[r[1]][r[2]]
      BY <2>1
    <3>2. PICK t \in DOMAIN c.txs : \E i \in DOMAIN Ins[t] : r = <<t, i>>
      BY DEF LedgerRows
    <3>3. o \in Spends(t) /\ <<c.txs[t], t>> \in M /\ <<c.txs[t], t>>[2] = t
      BY <3>1, <3>2 DEF Spends, LedgerRows
    <3> QED BY <3>3, SpentMember
  <2>2. ASSUME o \in Spent(M) PROVE o \in spent
    <3>1. PICK m \in M : o \in Spends(m[2])
      BY <2>2, SpentMember
    <3>2. m = <<m[1], m[2]>>
      OBVIOUS
    <3>3. m[2] \in DOMAIN c.txs
      BY <3>2 DEF LedgerRows
    <3>4. PICK i \in DOMAIN Ins[m[2]] : o = Ins[m[2]][i]
      BY <3>1 DEF Spends
    <3>5. <<m[2], i>> \in DOMAIN c.ins
      BY <3>3, <3>4 DEF LedgerRows
    <3> QED BY <3>4, <3>5
  <2> QED BY <2>1, <2>2
<1> HIDE DEF spent
<1>3. ASSUME NEW o \in c.outs
      PROVE  /\ o[1] \in DOMAIN c.txs /\ o \in Outpoint(o[1])
             /\ <<c.txs[o[1]], o[1]>> \in M
             /\ c.txs[o[1]] \in Nat
  <2>1. PICK t \in DOMAIN c.txs : o \in Outpoint(t)
    BY DEF LedgerRows
  <2>2. o[1] = t /\ <<c.txs[t], t>> \in M
    BY <2>1, OutpointOf DEF LedgerRows
  <2> QED BY <2>1, <2>2
<1>4. DOMAIN u = rows /\ \A o \in rows : u[o] = c.txs[o[1]]
  BY <1>1
<1> HIDE DEF u
<1>5. ASSUME NEW o
      PROVE  o \in DOMAIN u /\ Carries(o, u[o]) <=> o \in Created(M) /\ o \notin Spent(M)
  <2>1. ASSUME o \in DOMAIN u, Carries(o, u[o]) PROVE o \in Created(M) /\ o \notin Spent(M)
    <3> DEFINE t == o[1]
               h == c.txs[t]
    <3>1. o \in c.outs /\ o \notin Spent(M) /\ Carries(o, h)
      BY <1>2, <1>4, <2>1
    <3>2. t \in DOMAIN c.txs /\ o \in Outpoint(t) /\ <<h, t>> \in M /\ h \in Nat
      BY <1>3, <3>1
    <3> HIDE DEF h, t
    <3>3. h # 0
      BY <3>1, <3>2, GenesisCarries DEF Genesis
    <3>4. h > 0 /\ o \in Unspent(t, h) /\ <<h, t>>[1] = h /\ <<h, t>>[2] = t
      BY <3>1, <3>2, <3>3, UnspentCarries
    <3> QED BY <3>1, <3>2, <3>4, CreatedMember
  <2>2. ASSUME o \in Created(M), o \notin Spent(M) PROVE o \in DOMAIN u /\ Carries(o, u[o])
    <3>1. PICK m \in M : m[1] > 0 /\ o \in Unspent(m[2], m[1])
      BY <2>2, CreatedMember
    <3>2. o \in Outpoint(m[2]) /\ Carries(o, m[1]) /\ o[1] = m[2]
      BY <3>1, UnspentCarries, OutpointOf
    <3>3. m = <<m[1], m[2]>>
      OBVIOUS
    <3>4. m[2] \in DOMAIN c.txs /\ c.txs[m[2]] = m[1]
      BY <3>3 DEF LedgerRows
    <3>5. o \in c.outs
      BY <3>2, <3>4 DEF LedgerRows
    <3> QED BY <1>2, <1>4, <2>2, <3>2, <3>4, <3>5
  <2> QED BY <2>1, <2>2
<1>6. {o \in DOMAIN u : Carries(o, u[o])} = Created(M) \ Spent(M)
  BY <1>5
<1>7. UtxoRows(e)
  BY <1>3, <1>4 DEF UtxoRows, u
<1> QED BY <1>6, <1>7 DEF HoldsUtxos, u

-------------------------------------------------------------------------------
(* The inputs in table txio *)

LEMMA InputsAdd ==
    ASSUME NEW d, NEW M, NEW t, NEW h, HasTables(d), HoldsUtxos(d, M), HoldsInputs(d, M),
           \A o \in Spends(t) \cup Spent(M) : o[1] # t,
           Spends(t) \cap Spent(M) = {},
           \A r \in DOMAIN d.ins : Ins[r[1]][r[2]] \in Spent(M)
    PROVE  HoldsInputs(IndexTx(d, t, h), M \cup {<<h, t>>})
<1> DEFINE f == IndexTx(d, t, h).ins
           N == M \cup {<<h, t>>}
           new == {<<t, i>> : i \in DOMAIN Ins[t]}
<1>1. f = Upsert(d.ins, [r \in new |-> Ins[t][r[2]] \in DOMAIN d.utxos])
  BY DEF HasTables, Tables, IndexTx
<1> HIDE DEF f
<1>2. /\ DOMAIN f = DOMAIN d.ins \cup new
      /\ \A r \in DOMAIN d.ins : r \notin new => f[r] = d.ins[r]
  BY <1>1 DEF Upsert
<1>3. \A r \in new : f[r] <=> Ins[t][r[2]] \in DOMAIN d.utxos
  BY <1>1 DEF Upsert
<1>4. ASSUME NEW o, o[1] # t, o \in Created(N) PROVE o \in Created(M)
  BY <1>4, OneMore, UnspentCarries, OutpointOf
<1>5. ASSUME NEW r \in new, Ins[r[1]][r[2]] \in Created(N) PROVE f[r]
  <2>1. r[1] = t /\ r[2] \in DOMAIN Ins[t]
    OBVIOUS
  <2> DEFINE o == Ins[t][r[2]]
  <2>2. o \in Spends(t) /\ o \in Created(N)
    BY <1>5, <2>1 DEF Spends
  <2> HIDE DEF o
  <2>3. o \in Created(M) /\ o \notin Spent(M)
    BY <1>4, <2>2
  <2>4. o \in DOMAIN d.utxos
    BY <2>3 DEF HoldsUtxos
  <2> QED BY <1>3, <2>4 DEF o
<1>6. ASSUME NEW r \in DOMAIN f, r \notin new, Ins[r[1]][r[2]] \in Created(N) PROVE f[r]
  <2>1. r \in DOMAIN d.ins /\ f[r] = d.ins[r]
    BY <1>2, <1>6
  <2>2. Ins[r[1]][r[2]] \in Created(M)
    BY <1>4, <1>6, <2>1
  <2>3. d.ins[r]
    BY <2>1, <2>2 DEF HoldsInputs
  <2> QED BY <2>1, <2>3
<1>7. \A r \in DOMAIN f : Ins[r[1]][r[2]] \in Created(N) => f[r]
  BY <1>5, <1>6
<1> QED BY <1>7 DEF HoldsInputs, f

LEMMA InputsCut ==
    ASSUME NEW d, NEW M, NEW r \in Int, HasTables(d), HoldsInputs(d, M)
    PROVE  HoldsInputs(Rewind(d, r), Upto(M, r))
<1> DEFINE f == Rewind(d, r).ins
<1>1. \E gone : f = Without(d.ins, gone)
  <2>1. \E gone : DropAbove(d, r).ins = Without(d.ins, gone)
    BY DEF HasTables, Tables, DropAbove
  <2> QED BY <2>1, RewindTables
<1> HIDE DEF f
<1>2. \A i \in DOMAIN f : i \in DOMAIN d.ins /\ f[i] = d.ins[i]
  BY <1>1 DEF Without
<1>3. Created(Upto(M, r)) \subseteq Created(M)
  BY CreatedMember DEF Upto
<1>4. ASSUME NEW i \in DOMAIN f, Ins[i[1]][i[2]] \in Created(Upto(M, r)) PROVE f[i]
  <2>1. d.ins[i]
    BY <1>2, <1>3, <1>4 DEF HoldsInputs
  <2> QED BY <1>2, <2>1
<1> QED BY <1>4 DEF HoldsInputs, f

\* The stored inputs spend what the stored transactions spend.
LEMMA InputsSpend ==
    ASSUME NEW d, NEW M, LedgerRows(d, M), NEW r \in DOMAIN d.ins
    PROVE  Ins[r[1]][r[2]] \in Spent(M)
<1>1. PICK t \in DOMAIN d.txs : \E i \in DOMAIN Ins[t] : r = <<t, i>>
  BY DEF LedgerRows
<1>2. Ins[r[1]][r[2]] \in Spends(t) /\ <<d.txs[t], t>> \in M /\ <<d.txs[t], t>>[2] = t
  BY <1>1 DEF Spends, LedgerRows
<1> QED BY <1>2, SpentMember

-------------------------------------------------------------------------------
(* Table asset_activity *)

LEMMA AssetOutputsMember ==
    ASSUME NEW M, NEW r
    PROVE  r \in AssetOutputs(M) <=>
              \E m \in M : \E k \in DOMAIN Outs[m[2]] :
                  Outs[m[2]][k].asset # NoAsset /\ r = <<m[1], m[2], k>>
  BY DEF AssetOutputs

LEMMA ActivityAdd ==
    ASSUME NEW d, NEW M, NEW t, NEW h, HasTables(d), HoldsActivity(d, M), \A m \in M : m[2] # t
    PROVE  HoldsActivity(IndexTx(d, t, h), M \cup {<<h, t>>})
<1> DEFINE f == IndexTx(d, t, h).activity
           N == M \cup {<<h, t>>}
           new == {<<h, t, o[2]>> : o \in {p \in Outpoint(t) : Output(p).asset # NoAsset}}
           row == [r \in new |-> IF r \in DOMAIN d.activity THEN d.activity[r] + 1 ELSE 1]
<1>1. f = Upsert(d.activity, row)
  BY DEF HasTables, Tables, IndexTx, NoteActivity
<1>2. ASSUME NEW r
      PROVE  r \in new <=> \E k \in DOMAIN Outs[t] : Outs[t][k].asset # NoAsset /\ r = <<h, t, k>>
  <2>1. ASSUME NEW o \in Outpoint(t), Output(o).asset # NoAsset, r = <<h, t, o[2]>>
        PROVE  \E k \in DOMAIN Outs[t] : Outs[t][k].asset # NoAsset /\ r = <<h, t, k>>
    BY <2>1, OutpointOf DEF Output
  <2>2. ASSUME NEW k \in DOMAIN Outs[t], Outs[t][k].asset # NoAsset, r = <<h, t, k>>
        PROVE  r \in new
    <3>1. <<t, k>> \in Outpoint(t) /\ <<t, k>>[1] = t /\ <<t, k>>[2] = k
      BY DEF Outpoint
    <3> QED BY <2>2, <3>1 DEF Output
  <2> QED BY <2>1, <2>2
<1> HIDE DEF new
<1>3. \A r \in new : r[2] = t
  BY <1>2
<1>4. \A r \in DOMAIN d.activity : r[2] # t
  BY AssetOutputsMember DEF HoldsActivity
<1>5. \A r \in new : r \notin DOMAIN d.activity
  BY <1>3, <1>4
<1>6. DOMAIN row = new /\ \A r \in new : row[r] = 1
  BY <1>5
<1> HIDE DEF f, row
<1>7. DOMAIN f = DOMAIN d.activity \cup new /\ \A r \in DOMAIN f : f[r] = 1
  BY <1>1, <1>6 DEF Upsert, HoldsActivity
<1>8. DOMAIN f = AssetOutputs(N)
  <2>1. ASSUME NEW r PROVE r \in AssetOutputs(N) <=> r \in AssetOutputs(M) \/ r \in new
    <3> DEFINE Of(m) == \E k \in DOMAIN Outs[m[2]] :
                            Outs[m[2]][k].asset # NoAsset /\ r = <<m[1], m[2], k>>
    <3>1. r \in new <=> Of(<<h, t>>)
      BY <1>2
    <3>2. /\ r \in AssetOutputs(N) <=> \E m \in N : Of(m)
          /\ r \in AssetOutputs(M) <=> \E m \in M : Of(m)
      BY AssetOutputsMember
    <3> HIDE DEF Of
    <3> QED BY <3>1, <3>2
  <2> QED BY <1>7, <2>1 DEF HoldsActivity
<1> QED BY <1>7, <1>8 DEF HoldsActivity, f

LEMMA ActivityCut ==
    ASSUME NEW d, NEW M \in SUBSET (Nat \X Tx), NEW r \in Int, HasTables(d), HoldsActivity(d, M)
    PROVE  HoldsActivity(Rewind(d, r), Upto(M, r))
<1> DEFINE f == Rewind(d, r).activity
<1>1. f = Without(d.activity, {a \in DOMAIN d.activity : a[1] > r})
  <2>1. DropAbove(d, r).activity = Without(d.activity, {a \in DOMAIN d.activity : a[1] > r})
    BY DEF HasTables, Tables, DropAbove
  <2> QED BY <2>1, RewindTables
<1> HIDE DEF f
<1>2. DOMAIN f = {a \in DOMAIN d.activity : ~ (a[1] > r)} /\ \A a \in DOMAIN f : f[a] = 1
  BY <1>1 DEF Without, HoldsActivity
<1>3. ASSUME NEW a PROVE a \in AssetOutputs(Upto(M, r)) <=> a \in AssetOutputs(M) /\ ~ (a[1] > r)
  <2>1. \A m \in M : m[1] \in Nat
    OBVIOUS
  <2>2. \A x, y, k : <<x, y, k>>[1] = x
    OBVIOUS
  <2> QED BY <2>1, <2>2, AssetOutputsMember DEF Upto
<1> QED BY <1>2, <1>3 DEF HoldsActivity, f

-------------------------------------------------------------------------------
(* Tables lottery_wins and lottery_active *)

\* The coinbases that pay.
Paid(M) == {m \in M : m[1] >= 1 /\ m[2] \in Coinbase}

LotteryRows(d, M) ==
    /\ \A r : r \in DOMAIN d.wins <=>
                 \E m \in Paid(M) : \E k \in DOMAIN Payees[m[2]] : r = <<m[1], k>>
    /\ \A m \in Paid(M) : \A k \in DOMAIN Payees[m[2]] : d.wins[<<m[1], k>>] = Payees[m[2]][k]
    /\ \A r : r \in d.active <=> \E m \in Paid(M) : \E a \in Active[m[2]] : r = <<m[1], a>>

LEMMA LotteryByRows ==
    ASSUME NEW d, NEW M
    PROVE  HoldsLottery(d, M) <=> LotteryRows(d, M)
<1>1. DOMAIN d.wins = UNION {{<<m[1], k>> : k \in DOMAIN Payees[m[2]]} : m \in Paid(M)} <=>
         \A r : r \in DOMAIN d.wins <=>
                 \E m \in Paid(M) : \E k \in DOMAIN Payees[m[2]] : r = <<m[1], k>>
  OBVIOUS
<1>2. d.active = UNION {{m[1]} \X Active[m[2]] : m \in Paid(M)} <=>
         \A r : r \in d.active <=> \E m \in Paid(M) : \E a \in Active[m[2]] : r = <<m[1], a>>
  OBVIOUS
<1> QED BY <1>1, <1>2 DEF HoldsLottery, LotteryRows, Paid

\* The genesis repair has nothing to delete.
LEMMA LotteryRepair ==
    ASSUME NEW d, NEW M, HasTables(d), LotteryRows(d, M)
    PROVE  LotteryRows(RepairGenesis(d), M)
<1> DEFINE e == RepairGenesis(d)
<1>1. /\ e.wins = Without(d.wins, {r \in DOMAIN d.wins : r[1] = 0})
      /\ e.active = {r \in d.active : r[1] # 0}
  BY DEF HasTables, Tables, RepairGenesis
<1> HIDE DEF e
<1>2. \A m \in Paid(M) : m[1] # 0
  BY DEF Paid
<1>3. (\A r \in DOMAIN d.wins : r[1] # 0) /\ (\A r \in d.active : r[1] # 0)
  BY <1>2 DEF LotteryRows
<1>4. DOMAIN e.wins = DOMAIN d.wins /\ (\A r \in DOMAIN d.wins : e.wins[r] = d.wins[r])
  BY <1>1, <1>3 DEF Without
<1>5. e.active = d.active
  BY <1>1, <1>3
<1> QED BY <1>4, <1>5 DEF LotteryRows, e

LEMMA LotteryAdd ==
    ASSUME NEW d, NEW M, NEW t, NEW h, HasTables(d), LotteryRows(d, M),
           t \in Coinbase => \A m \in M : ~ (m[1] = h /\ m[2] \in Coinbase)
    PROVE  LotteryRows(IndexTx(d, t, h), M \cup {<<h, t>>})
<1> DEFINE e == IndexTx(d, t, h)
           N == M \cup {<<h, t>>}
           new == {<<h, k>> : k \in DOMAIN Payees[t]}
<1>0. <<h, t>>[1] = h /\ <<h, t>>[2] = t
  OBVIOUS
<1>1. CASE ~ (t \in Coinbase /\ h >= 1)
  <2>1. e.wins = d.wins /\ e.active = d.active
    BY <1>1 DEF HasTables, Tables, IndexTx
  <2>2. Paid(N) = Paid(M)
    BY <1>0, <1>1 DEF Paid
  <2> HIDE DEF e, N
  <2>3. LotteryRows(e, N)
    BY <2>1, <2>2 DEF LotteryRows
  <2> QED BY <2>3 DEF e, N
<1>2. CASE t \in Coinbase /\ h >= 1
  <2>1. /\ e.wins = Upsert(d.wins, [r \in new |-> Payees[t][r[2]]])
        /\ e.active = d.active \cup ({h} \X Active[t])
    BY <1>2 DEF HasTables, Tables, IndexTx
  <2> HIDE DEF e
  <2>2. Paid(N) = Paid(M) \cup {<<h, t>>}
    BY <1>0, <1>2 DEF Paid
  <2>3. \A m \in Paid(M) : m[1] # h
    BY <1>2 DEF Paid
  <2>4. DOMAIN e.wins = DOMAIN d.wins \cup new
    BY <2>1 DEF Upsert
  <2>5. /\ \A k \in DOMAIN Payees[t] : e.wins[<<h, k>>] = Payees[t][k]
        /\ \A r \in DOMAIN d.wins : r \notin new => e.wins[r] = d.wins[r]
    BY <2>1 DEF Upsert
  <2>6. ASSUME NEW r
        PROVE  r \in DOMAIN e.wins <=>
                 \E m \in Paid(N) : \E k \in DOMAIN Payees[m[2]] : r = <<m[1], k>>
    <3> DEFINE Of(m) == \E k \in DOMAIN Payees[m[2]] : r = <<m[1], k>>
    <3>1. r \in new <=> Of(<<h, t>>)
      BY <1>0
    <3>2. r \in DOMAIN d.wins <=> \E m \in Paid(M) : Of(m)
      BY DEF LotteryRows
    <3> HIDE DEF Of, new
    <3>3. r \in DOMAIN e.wins <=> \E m \in Paid(N) : Of(m)
      BY <2>2, <2>4, <3>1, <3>2
    <3> QED BY <3>3 DEF Of
  <2>7. ASSUME NEW m \in Paid(N), NEW k \in DOMAIN Payees[m[2]]
        PROVE  e.wins[<<m[1], k>>] = Payees[m[2]][k]
    <3>1. CASE m \in Paid(M)
      <4>1. <<m[1], k>> \in DOMAIN d.wins /\ d.wins[<<m[1], k>>] = Payees[m[2]][k]
        BY <3>1 DEF LotteryRows
      <4>2. <<m[1], k>> \notin new
        BY <2>3, <3>1
      <4> QED BY <2>5, <4>1, <4>2
    <3>2. CASE m = <<h, t>>
      BY <1>0, <2>5, <3>2
    <3> QED BY <2>2, <3>1, <3>2
  <2>8. ASSUME NEW r
        PROVE  r \in e.active <=> \E m \in Paid(N) : \E a \in Active[m[2]] : r = <<m[1], a>>
    <3> DEFINE Of(m) == \E a \in Active[m[2]] : r = <<m[1], a>>
    <3>1. r \in {h} \X Active[t] <=> Of(<<h, t>>)
      BY <1>0
    <3>2. r \in d.active <=> \E m \in Paid(M) : Of(m)
      BY DEF LotteryRows
    <3>3. r \in e.active <=> r \in d.active \/ r \in {h} \X Active[t]
      BY <2>1
    <3> HIDE DEF Of
    <3>4. r \in e.active <=> \E m \in Paid(N) : Of(m)
      BY <2>2, <3>1, <3>2, <3>3
    <3> QED BY <3>4 DEF Of
  <2> QED BY <2>6, <2>7, <2>8 DEF LotteryRows, e
<1> QED BY <1>1, <1>2

LEMMA LotteryCut ==
    ASSUME NEW d, NEW M \in SUBSET (Nat \X Tx), NEW q \in Int, HasTables(d), LotteryRows(d, M)
    PROVE  LotteryRows(Rewind(d, q), Upto(M, q))
<1> DEFINE e == Rewind(d, q)
<1>1. /\ e.wins = Without(d.wins, {r \in DOMAIN d.wins : r[1] > q})
      /\ e.active = {r \in d.active : r[1] <= q}
  <2>1. /\ DropAbove(d, q).wins = Without(d.wins, {r \in DOMAIN d.wins : r[1] > q})
        /\ DropAbove(d, q).active = {r \in d.active : r[1] <= q}
    BY DEF HasTables, Tables, DropAbove
  <2> QED BY <2>1, RewindTables
<1> HIDE DEF e
<1>2. Paid(Upto(M, q)) = {m \in Paid(M) : m[1] <= q}
  BY DEF Paid, Upto
<1>3. \A m \in Paid(M) : m[1] \in Nat
  BY DEF Paid
<1>4. /\ DOMAIN e.wins = {r \in DOMAIN d.wins : ~ (r[1] > q)}
      /\ \A r \in DOMAIN e.wins : e.wins[r] = d.wins[r]
  BY <1>1 DEF Without
<1>5. \A x, k : <<x, k>>[1] = x
  OBVIOUS
<1>6. \A r : r \in DOMAIN e.wins <=>
               \E m \in Paid(Upto(M, q)) : \E k \in DOMAIN Payees[m[2]] : r = <<m[1], k>>
  BY <1>2, <1>3, <1>4, <1>5 DEF LotteryRows
<1>7. ASSUME NEW m \in Paid(Upto(M, q)), NEW k \in DOMAIN Payees[m[2]]
      PROVE  e.wins[<<m[1], k>>] = Payees[m[2]][k]
  <2>1. m \in Paid(M) /\ <<m[1], k>> \in DOMAIN e.wins
    BY <1>2, <1>6
  <2> QED BY <1>4, <2>1 DEF LotteryRows
<1>8. \A r : r \in e.active <=> \E m \in Paid(Upto(M, q)) : \E a \in Active[m[2]] : r = <<m[1], a>>
  BY <1>1, <1>2, <1>5 DEF LotteryRows
<1> QED BY <1>6, <1>7, <1>8 DEF LotteryRows, e

-------------------------------------------------------------------------------
(* All of them *)

\* The tables of d hold the transactions of M, and nothing else.
Holds(d, M) ==
    /\ HasTables(d)
    /\ LedgerRows(d, M)
    /\ HoldsUtxos(d, M) /\ UtxoRows(d) /\ HoldsInputs(d, M)
    /\ HoldsActivity(d, M)
    /\ LotteryRows(d, M)

\* Transaction t at height h is one that can follow those of M on a chain.
Follows(M, h, t) ==
    /\ \A m \in M : m[2] # t
    /\ Spends(t) \cap Spent(M) = {}
    /\ \A o \in Spends(t) \cup Spent(M) : o[1] # t
    /\ t \in Coinbase => \A m \in M : ~ (m[1] = h /\ m[2] \in Coinbase)
    /\ h = 0 => OnlyPays(t)

LEMMA NothingHeld == Holds(EmptyDb, {})
<1> DEFINE d == EmptyDb
<1>1. /\ HasTables(d)
      /\ d.txs = EmptyTable /\ d.outs = {} /\ d.ins = EmptyTable /\ d.utxos = EmptyTable
      /\ d.activity = EmptyTable /\ d.wins = EmptyTable /\ d.active = {}
  BY DEF HasTables, Tables, EmptyDb
<1>2. DOMAIN EmptyTable = {}
  BY DEF EmptyTable
<1> HIDE DEF d
<1>3. Created({}) = {} /\ AssetOutputs({}) = {} /\ Paid({}) = {}
  BY DEF Created, AssetOutputs, Paid
<1>4. LedgerRows(d, {}) /\ LotteryRows(d, {})
  BY <1>1, <1>2, <1>3 DEF LedgerRows, LotteryRows
<1>5. HoldsUtxos(d, {}) /\ UtxoRows(d) /\ HoldsInputs(d, {}) /\ HoldsActivity(d, {})
  BY <1>1, <1>2, <1>3 DEF HoldsUtxos, UtxoRows, HoldsInputs, HoldsActivity
<1> QED BY <1>1, <1>4, <1>5 DEF Holds, d

LEMMA RepairHolds ==
    ASSUME NEW d, NEW M, Holds(d, M), Genesis(M)
    PROVE  Holds(RepairGenesis(d), M)
<1> USE DEF Holds
<1> DEFINE e == RepairGenesis(d)
<1>1. e.txs = d.txs /\ e.outs = d.outs /\ e.ins = d.ins /\ e.activity = d.activity
  BY DEF HasTables, Tables, RepairGenesis
<1>2. HasTables(e)
  BY KeepTables
<1>3. HoldsUtxos(e, M) /\ UtxoRows(e) /\ LotteryRows(e, M)
  BY UtxosRepair, LotteryRepair
<1> HIDE DEF e
<1>4. LedgerRows(e, M) /\ HoldsInputs(e, M) /\ HoldsActivity(e, M)
  BY <1>1 DEF LedgerRows, HoldsInputs, HoldsActivity
<1> QED BY <1>2, <1>3, <1>4 DEF e

LEMMA PutBlockHolds ==
    ASSUME NEW d, NEW M, NEW h, NEW b, Holds(d, M)
    PROVE  Holds(PutBlock(d, h, b), M)
<1> USE DEF Holds
<1> DEFINE e == PutBlock(d, h, b)
<1>1. /\ e.txs = d.txs /\ e.outs = d.outs /\ e.ins = d.ins /\ e.utxos = d.utxos
      /\ e.activity = d.activity /\ e.wins = d.wins /\ e.active = d.active
  BY DEF HasTables, Tables, PutBlock
<1>2. HasTables(e)
  BY KeepTables
<1> HIDE DEF e
<1>3. LedgerRows(e, M) /\ LotteryRows(e, M)
  BY <1>1 DEF LedgerRows, LotteryRows
<1>4. HoldsUtxos(e, M) /\ UtxoRows(e) /\ HoldsInputs(e, M) /\ HoldsActivity(e, M)
  BY <1>1 DEF HoldsUtxos, UtxoRows, HoldsInputs, HoldsActivity
<1> QED BY <1>2, <1>3, <1>4 DEF e

LEMMA IndexTxHolds ==
    ASSUME NEW d, NEW M, NEW h \in Nat, NEW t, Holds(d, M), Follows(M, h, t)
    PROVE  Holds(IndexTx(d, t, h), M \cup {<<h, t>>})
<1> USE DEF Holds, Follows
<1> DEFINE e == IndexTx(d, t, h)
           N == M \cup {<<h, t>>}
<1>1. HasTables(e)
  BY KeepTables
<1>2. t \notin DOMAIN d.txs
  <2>1. t \in DOMAIN d.txs => <<d.txs[t], t>> \in M /\ <<d.txs[t], t>>[2] = t
    BY DEF LedgerRows
  <2> QED BY <2>1
<1>3. LedgerRows(e, N)
  BY <1>2, LedgerAdds
<1>4. Unspent(t, h) \cap (Spent(M) \cup Spends(t)) = {}
  BY UnspentCarries, OutpointOf
<1>5. HoldsUtxos(e, N)
  BY <1>4, UtxosAdd
<1>6. UtxoRows(e)
  BY <1>2, UtxoRowsAdd
<1>7. HoldsInputs(e, N)
  BY InputsAdd, InputsSpend
<1>8. HoldsActivity(e, N)
  BY ActivityAdd
<1>9. LotteryRows(e, N)
  BY LotteryAdd
<1> QED BY <1>1, <1>3, <1>5, <1>6, <1>7, <1>8, <1>9

LEMMA RewindHolds ==
    ASSUME NEW d, NEW M \in SUBSET (Nat \X Tx), NEW r \in Int, Holds(d, M), Genesis(M)
    PROVE  Holds(Rewind(d, r), Upto(M, r))
<1> USE DEF Holds
<1> DEFINE e == Rewind(d, r)
           c == DropAbove(d, r)
           N == Upto(M, r)
<1>1. HasTables(e) /\ HasTables(c)
  BY KeepTables, RewindTables
<1>2. LedgerRows(e, N) /\ HoldsInputs(e, N) /\ HoldsActivity(e, N) /\ LotteryRows(e, N)
  BY LedgerCuts, InputsCut, ActivityCut, LotteryCut
<1>3. /\ e.txs = c.txs /\ e.outs = c.outs /\ e.ins = c.ins
      /\ e.utxos = IF r < 0 THEN EmptyTable ELSE RebuildUtxos(c).utxos
  BY RewindTables
<1>4. N \in SUBSET (Nat \X Tx) /\ Genesis(N)
  BY DEF Upto, Genesis
<1> HIDE DEF c, e
<1>5. HoldsUtxos(e, N) /\ UtxoRows(e)
  <2>1. CASE r < 0
    <3>1. N = {}
      <4>1. \A m \in M : m[1] \in Nat
        OBVIOUS
      <4> QED BY <2>1, <4>1 DEF Upto
    <3>2. Created(N) = {} /\ DOMAIN e.utxos = {}
      BY <1>3, <2>1, <3>1, CreatedMember DEF EmptyTable
    <3> QED BY <3>2 DEF HoldsUtxos, UtxoRows
  <2>2. CASE ~ (r < 0)
    <3>1. LedgerRows(c, N)
      BY <1>2, <1>3 DEF LedgerRows
    <3>2. e.txs = c.txs /\ e.utxos = RebuildUtxos(c).utxos
      BY <1>3, <2>2
    <3> HIDE DEF N
    <3> QED BY <1>1, <1>4, <3>1, <3>2, UtxosRebuilt
  <2> QED BY <2>1, <2>2
<1> QED BY <1>1, <1>2, <1>5 DEF e

-------------------------------------------------------------------------------
(* The transactions of a chain *)

LEMMA MinedMember ==
    ASSUME NEW f, NEW m
    PROVE  m \in MinedIn(f) <=>
              \E h \in DOMAIN f : \E i \in DOMAIN Txs[f[h]] : m = <<h, Txs[f[h]][i]>>
  BY DEF MinedIn

\* The transactions of a table without a gap.
LEMMA MinedInRun ==
    ASSUME ConsensusRules, NEW f, NEW k \in Int, RunTo(f, k)
    PROVE  MinedIn(f) \in SUBSET (Nat \X Tx) /\ Genesis(MinedIn(f))
<1> SUFFICES ASSUME NEW m \in MinedIn(f)
             PROVE  m \in Nat \X Tx /\ (m[1] = 0 => OnlyPays(m[2]))
  BY DEF Genesis
<1>1. PICK h \in DOMAIN f : \E i \in DOMAIN Txs[f[h]] : m = <<h, Txs[f[h]][i]>>
  BY MinedMember
<1>2. PICK i \in DOMAIN Txs[f[h]] : m = <<h, Txs[f[h]][i]>>
  BY <1>1
<1>3. h \in Nat /\ f[h] \in Block /\ Height[f[h]] = h
  BY DEF RunTo
<1>4. Txs[f[h]] \in Seq(Tx)
  BY <1>3 DEF ConsensusRules
<1>5. Txs[f[h]][i] \in Tx
  BY <1>4
<1>6. h = 0 => OnlyPays(Txs[f[h]][i])
  BY <1>3 DEF ConsensusRules, GenesisOnlyPays
<1> QED BY <1>2, <1>3, <1>5, <1>6

\* The transactions below height h, and the first k of the block there.
Begun(f, h, k) == Upto(MinedIn(f), h - 1) \cup {<<h, Txs[f[h]][i]>> : i \in 1 .. k}

\* They are mined before the next one.
LEMMA BegunMember ==
    ASSUME ConsensusRules, NEW b \in Block, NEW k \in Nat, k <= Len(Txs[b]),
           NEW m \in Begun(Path[b], Height[b], k)
    PROVE  \E g \in 0 .. Height[b] : \E i \in DOMAIN Txs[Path[b][g]] :
              /\ m = <<g, TxAt(b, g, i)>>
              /\ g < Height[b] \/ (g = Height[b] /\ i <= k)
<1> DEFINE h == Height[b]
<1>1. h \in Nat /\ DOMAIN Path[b] = 0 .. h /\ Path[b][h] = b
  BY PathDomain
<1>2. Txs[b] \in Seq(Tx)
  BY DEF ConsensusRules
<1> HIDE DEF h
<1>3. CASE m \in Upto(MinedIn(Path[b]), h - 1)
  <2>1. m \in MinedIn(Path[b]) /\ m[1] <= h - 1
    BY <1>3 DEF Upto
  <2>2. PICK g \in 0 .. h : \E i \in DOMAIN Txs[Path[b][g]] : m = <<g, Txs[Path[b][g]][i]>>
    <3>1. \E g \in DOMAIN Path[b] : \E i \in DOMAIN Txs[Path[b][g]] : m = <<g, Txs[Path[b][g]][i]>>
      BY <2>1 DEF MinedIn
    <3> QED BY <1>1, <3>1
  <2>3. g < h
    BY <1>1, <2>1, <2>2
  <2> QED BY <2>2, <2>3 DEF TxAt, h
<1>4. CASE m \in {<<h, Txs[Path[b][h]][i]>> : i \in 1 .. k}
  <2>1. PICK i \in 1 .. k : m = <<h, Txs[Path[b][h]][i]>>
    BY <1>4
  <2>2. i \in DOMAIN Txs[Path[b][h]] /\ i <= k /\ h \in 0 .. h
    BY <1>1, <1>2
  <2> QED BY <2>1, <2>2 DEF TxAt, h
<1> QED BY <1>3, <1>4 DEF Begun, h

LEMMA NextFollows ==
    ASSUME ConsensusRules, NEW b \in Block, NEW k \in Nat, k < Len(Txs[b])
    PROVE  Follows(Begun(Path[b], Height[b], k), Height[b], Txs[b][k + 1])
<1> DEFINE h == Height[b]
           M == Begun(Path[b], h, k)
           t == Txs[b][k + 1]
<1>1. h \in Nat /\ h \in 0 .. h /\ Path[b][h] = b
  <2>1. h \in Nat /\ Path[b][h] = b
    BY PathAssumption
  <2> QED BY <2>1
<1>2. k + 1 \in DOMAIN Txs[Path[b][h]] /\ TxAt(b, h, k + 1) = t
  <2>1. Txs[b] \in Seq(Tx)
    BY DEF ConsensusRules
  <2> QED BY <1>1, <2>1 DEF TxAt
<1>3. ASSUME NEW m \in M
      PROVE  \E g \in 0 .. h : \E i \in DOMAIN Txs[Path[b][g]] :
                m = <<g, TxAt(b, g, i)>> /\ (g < h \/ (g = h /\ i <= k)) /\ i \in Nat
  <2>1. \A g \in 0 .. h : Txs[Path[b][g]] \in Seq(Tx)
    BY PathAssumption DEF ConsensusRules
  <2>2. \A g \in 0 .. h : \A i \in DOMAIN Txs[Path[b][g]] : i \in Nat
    BY <2>1
  <2> QED BY <1>3, <2>2, BegunMember
<1> HIDE DEF h, t, M
<1>4. ASSUME NEW m \in M
      PROVE  /\ m[2] # t /\ Spends(m[2]) \cap Spends(t) = {}
             /\ \A o \in Spends(m[2]) : o[1] # t
             /\ ~ (t \in Coinbase /\ m[1] = h /\ m[2] \in Coinbase)
  <2>1. PICK g \in 0 .. h : \E i \in DOMAIN Txs[Path[b][g]] :
           m = <<g, TxAt(b, g, i)>> /\ (g < h \/ (g = h /\ i <= k)) /\ i \in Nat
    BY <1>3
  <2>2. PICK i \in DOMAIN Txs[Path[b][g]] :
           m = <<g, TxAt(b, g, i)>> /\ (g < h \/ (g = h /\ i <= k)) /\ i \in Nat
    BY <2>1
  <2>3. m[1] = g /\ m[2] = TxAt(b, g, i)
    BY <2>2
  <2>4. ~ (g = h /\ i = k + 1)
    BY <1>1, <2>2
  <2>5. ~ (h < g \/ (h = g /\ k + 1 < i))
    BY <1>1, <2>2
  <2>6. m[2] # t
    BY <1>1, <1>2, <2>3, <2>4 DEF ConsensusRules, MinedOnce, h
  <2>7. Spends(m[2]) \cap Spends(t) = {}
    BY <1>1, <1>2, <2>3, <2>4 DEF ConsensusRules, SpentOnce, h
  <2>8. \A o \in Spends(m[2]) : o[1] # t
    BY <1>1, <1>2, <2>3, <2>5 DEF ConsensusRules, SpentLater, h
  <2>9. ASSUME t \in Coinbase, m[1] = h, m[2] \in Coinbase PROVE FALSE
    <3>1. g = h /\ i \in DOMAIN Txs[b] /\ k + 1 \in DOMAIN Txs[b] /\ t = Txs[b][k + 1]
          /\ m[2] = Txs[b][i]
      BY <1>1, <1>2, <2>3, <2>9 DEF TxAt
    <3> QED BY <2>4, <2>9, <3>1 DEF ConsensusRules, OneCoinbase
  <2> QED BY <2>6, <2>7, <2>8, <2>9
<1>5. \A o \in Spends(t) : o[1] # t
  <2>1. ~ (h < h \/ (h = h /\ k + 1 < k + 1))
    BY <1>1
  <2> QED BY <1>1, <1>2, <2>1 DEF ConsensusRules, SpentLater, h
<1>6. h = 0 => OnlyPays(t)
  BY <1>1, <1>2 DEF ConsensusRules, GenesisOnlyPays, h, TxAt
<1>7. Follows(M, h, t)
  BY <1>4, <1>5, <1>6, SpentMember DEF Follows
<1> QED BY <1>7 DEF M, h, t

-------------------------------------------------------------------------------
(* What a batch and a rewind do to the transactions *)

\* Nothing of the next block is written when its row is.
LEMMA BegunNone ==
    ASSUME NEW d, NEW k \in Nat, NEW b, IsDb(d), DOMAIN d.blocks = 0 .. k - 1
    PROVE  Begun(PutBlock(d, k, b).blocks, k, 0) = MinedIn(d.blocks)
<1> DEFINE f == d.blocks
           g == PutBlock(d, k, b).blocks
<1>1. g = [h \in DOMAIN f \cup {k} |-> IF h = k THEN b ELSE f[h]]
  BY DEF PutBlock, Upsert, IsDb
<1>0. DOMAIN f = 0 .. k - 1
  OBVIOUS
<1> HIDE DEF f, g
<1>2. DOMAIN g = DOMAIN f \cup {k} /\ \A h \in DOMAIN f : h # k => g[h] = f[h]
  BY <1>1
<1>3. ASSUME NEW m \in Upto(MinedIn(g), k - 1) PROVE m \in MinedIn(f)
  <2>1. m \in MinedIn(g) /\ m[1] <= k - 1
    BY DEF Upto
  <2>2. PICK h \in DOMAIN g : \E i \in DOMAIN Txs[g[h]] : m = <<h, Txs[g[h]][i]>>
    BY <2>1, MinedMember
  <2>3. h <= k - 1
    BY <2>1, <2>2
  <2>4. h \in DOMAIN f /\ h # k
    BY <1>0, <1>2, <2>3
  <2>5. g[h] = f[h]
    BY <1>2, <2>4
  <2> QED BY <2>2, <2>4, <2>5, MinedMember
<1>4. ASSUME NEW m \in MinedIn(f) PROVE m \in Upto(MinedIn(g), k - 1)
  <2>1. PICK h \in DOMAIN f : \E i \in DOMAIN Txs[f[h]] : m = <<h, Txs[f[h]][i]>>
    BY MinedMember
  <2>2. h # k /\ m[1] <= k - 1
    BY <1>0, <2>1
  <2>3. h \in DOMAIN g /\ g[h] = f[h]
    BY <1>2, <2>2
  <2>4. m \in MinedIn(g)
    BY <2>1, <2>3, MinedMember
  <2> QED BY <2>2, <2>4 DEF Upto
<1>5. {<<k, Txs[g[k]][i]>> : i \in 1 .. 0} = {}
  OBVIOUS
<1>6. Upto(MinedIn(g), k - 1) = MinedIn(f)
  BY <1>3, <1>4
<1> QED BY <1>5, <1>6 DEF Begun, f, g

\* One more of its transactions.
LEMMA BegunOneMore ==
    ASSUME NEW f, NEW h, NEW k \in Nat
    PROVE  Begun(f, h, k + 1) = Begun(f, h, k) \cup {<<h, Txs[f[h]][k + 1]>>}
<1>1. 1 .. k + 1 = (1 .. k) \cup {k + 1}
  OBVIOUS
<1>2. \A x : x \in {<<h, Txs[f[h]][i]>> : i \in 1 .. k + 1} <=>
          x \in {<<h, Txs[f[h]][i]>> : i \in 1 .. k} \/ x = <<h, Txs[f[h]][k + 1]>>
  BY <1>1
<1> QED BY <1>2 DEF Begun

\* All of them.
LEMMA BegunAll ==
    ASSUME NEW f, NEW h \in Nat, DOMAIN f = 0 .. h, Txs[f[h]] \in Seq(Tx)
    PROVE  Begun(f, h, Len(Txs[f[h]])) = MinedIn(f)
<1> DEFINE k == Len(Txs[f[h]])
           whole == {<<h, Txs[f[h]][i]>> : i \in 1 .. k}
<1>1. DOMAIN Txs[f[h]] = 1 .. k
  OBVIOUS
<1>2. ASSUME NEW m \in MinedIn(f) PROVE m \in Upto(MinedIn(f), h - 1) \/ m \in whole
  <2>1. PICK g \in DOMAIN f : \E i \in DOMAIN Txs[f[g]] : m = <<g, Txs[f[g]][i]>>
    BY MinedMember
  <2>2. m[1] = g /\ g \in 0 .. h
    BY <2>1
  <2>3. CASE g = h
    BY <1>1, <2>1, <2>3
  <2>4. CASE g # h
    BY <2>2, <2>4 DEF Upto
  <2> QED BY <2>3, <2>4
<1>3. ASSUME NEW m \in whole PROVE m \in MinedIn(f)
  <2>1. h \in DOMAIN f /\ \E i \in DOMAIN Txs[f[h]] : m = <<h, Txs[f[h]][i]>>
    BY <1>1
  <2> QED BY <2>1, MinedMember
<1>4. Upto(MinedIn(f), h - 1) \subseteq MinedIn(f)
  BY DEF Upto
<1> HIDE DEF whole
<1>5. Upto(MinedIn(f), h - 1) \cup whole = MinedIn(f)
  BY <1>2, <1>3, <1>4
<1> QED BY <1>5 DEF Begun, whole

\* The blocks that a rewind keeps hold what was mined up to its height.
LEMMA MinedRewound ==
    ASSUME NEW d, NEW k \in Int, NEW r \in Int, IsDb(d), RunTo(d.blocks, k), r >= -1, r <= k
    PROVE  MinedIn(Rewind(d, r).blocks) = Upto(MinedIn(d.blocks), r)
<1> DEFINE f == d.blocks
           g == Rewind(d, r).blocks
<1>1. g = [h \in 0 .. r |-> f[h]]
  BY RewindRun
<1>2. DOMAIN f = 0 .. k
  BY DEF RunTo
<1> HIDE DEF f, g
<1>3. ASSUME NEW m \in MinedIn(g) PROVE m \in Upto(MinedIn(f), r)
  <2>1. PICK h \in DOMAIN g : \E i \in DOMAIN Txs[g[h]] : m = <<h, Txs[g[h]][i]>>
    BY MinedMember
  <2>2. h \in DOMAIN f /\ g[h] = f[h] /\ h <= r
    BY <1>1, <1>2
  <2>3. m \in MinedIn(f) /\ m[1] <= r
    BY <2>1, <2>2, MinedMember
  <2> QED BY <2>3 DEF Upto
<1>4. ASSUME NEW m \in Upto(MinedIn(f), r) PROVE m \in MinedIn(g)
  <2>1. m \in MinedIn(f) /\ m[1] <= r
    BY DEF Upto
  <2>2. PICK h \in DOMAIN f : \E i \in DOMAIN Txs[f[h]] : m = <<h, Txs[f[h]][i]>>
    BY <2>1, MinedMember
  <2>3. h \in 0 .. r
    BY <1>2, <2>1, <2>2
  <2>4. h \in DOMAIN g /\ g[h] = f[h]
    BY <1>1, <2>3
  <2> QED BY <2>2, <2>4, MinedMember
<1>5. MinedIn(g) = Upto(MinedIn(f), r)
  BY <1>3, <1>4 DEF Upto
<1> QED BY <1>5 DEF f, g

-------------------------------------------------------------------------------
(* The invariant.  The committed tables hold the committed blocks.  Those of
   the open transaction hold its blocks, but of the last one, while it is being
   indexed, only the first n transactions. *)

Exact ==
    /\ Holds(saved, MinedIn(saved.blocks))
    /\ pc # "tx" => Holds(db, MinedIn(db.blocks))
    /\ pc = "tx" =>
          /\ db.blocks[next] = block /\ n <= Len(Txs[block])
          /\ Holds(db, Begun(db.blocks, next, n))

ExactInv == ChainInv /\ (Whole => Exact)

LEMMA ExactInit == Init => ExactInv
<1> SUFFICES ASSUME Init PROVE Exact
  BY ChainInit DEF ExactInv
<1>1. db = EmptyDb /\ saved = EmptyDb /\ pc = "down"
  BY DEF Init
<1>2. EmptyDb.blocks = EmptyTable /\ DOMAIN EmptyTable = {}
  BY DEF EmptyDb, EmptyTable
<1>3. MinedIn(EmptyTable) = {}
  BY <1>2, MinedMember
<1> QED BY <1>1, <1>2, <1>3, NothingHeld DEF Exact

\* Every step that is no disruptive fault and no aborted block keeps it.
LEMMA ExactStep ==
    ASSUME ConsensusRules, ShallowForks, ChainInv, Calm, Exact, Whole', [Next]_vars
    PROVE  Exact'
<1> USE DEF Exact
<1>c. ~ Fault("conndrop") /\ ~ Fault("abort")
  BY HasHappened DEF ChainInv, GaplessInv, StoreInv, Whole, Calm, Disruptive
<1>i. StoreInv /\ Gapless /\ Chained
  BY CalmKept DEF ChainInv, GaplessInv
<1>t. /\ best \in Block /\ block \in Block /\ next \in Nat /\ n \in Nat
      /\ IsDb(db) /\ IsDb(saved)
  BY <1>i DEF StoreInv, TypeOK
<1>k. PICK k \in Int : k >= -1 /\ RunTo(db.blocks, k)
  BY <1>i DEF Gapless, Run
<1>h. IndexedHeight(db.blocks) = k
  BY <1>k, HeightOfRun DEF RunTo
<1>m. MinedIn(db.blocks) \in SUBSET (Nat \X Tx) /\ Genesis(MinedIn(db.blocks))
  BY <1>k, MinedInRun
<1>1. CASE NodeNext \/ Stop \/ UNCHANGED vars
  <2>1. UNCHANGED <<db, saved, pc, next, block, n>>
    BY <1>1 DEF NodeNext, NodeGrows, NodeReorgs, NodeRetreats, Stop, vars, tickVars
  <2> QED BY <2>1
<1>2. CASE Start \/ TickHead
  <2>1. db' = RepairGenesis(db) /\ saved' = db' /\ pc \in {"down", "idle"} /\ pc' # "tx"
    BY <1>2 DEF Start, TickHead
  <2>2. Holds(db, MinedIn(db.blocks)) /\ db'.blocks = db.blocks
    BY <1>t, <2>1, RepairBlocks
  <2> QED BY <1>m, <2>1, <2>2, RepairHolds
<1>3. CASE Exit \/ Crash
  BY <1>3 DEF Exit, Crash
<1>4. CASE CheckAgrees \/ CheckFails
  <2>1. PlanBatch(k) /\ UNCHANGED <<db, saved>> /\ pc = "check"
    BY <1>4, <1>h DEF CheckAgrees, CheckFails
  <2>2. pc' \in {"block", "idle"}
    BY <1>i, <1>k, <2>1, PlanTypes DEF StoreInv
  <2> QED BY <2>1, <2>2
<1>5. CASE CheckRewinds
  <2> DEFINE r == RewindTo(k)
  <2>1. HasHeight(k) /\ db' = Rewind(db, r) /\ saved' = db' /\ pc = "check"
        /\ PlanBatch(IndexedHeight(db'.blocks))
    BY <1>5, <1>h DEF CheckRewinds
  <2>2. r \in Int /\ r >= -1 /\ r <= k
    <3>1. k \in Nat
      BY <1>t, <2>1, NodeAnswers
    <3> QED BY <3>1, RewindToRange
  <2> HIDE DEF r
  <2>3. pc' \in {"block", "idle"}
    BY <2>1 DEF PlanBatch
  <2>4. MinedIn(db'.blocks) = Upto(MinedIn(db.blocks), r)
    BY <1>k, <1>t, <2>1, <2>2, MinedRewound
  <2>5. Holds(db', MinedIn(db'.blocks))
    BY <1>m, <2>1, <2>2, <2>4, RewindHolds
  <2> QED BY <2>1, <2>3, <2>5
<1>6. CASE FetchBlock
  <2>1. /\ pc = "block" /\ pc' = "tx" /\ n' = 0 /\ UNCHANGED <<saved, next>>
        /\ db' = PutBlock(db, next, block') /\ HasHeight(next) /\ block' = BlockAt(next)
    BY <1>6 DEF FetchBlock
  <2>2. DOMAIN db.blocks = 0 .. next - 1
    BY <1>i, <2>1 DEF Gapless, RunTo
  <2>3. Begun(db'.blocks, next, 0) = MinedIn(db.blocks)
    BY <1>t, <2>1, <2>2, BegunNone
  <2>4. Holds(db', MinedIn(db.blocks))
    BY <2>1, PutBlockHolds
  <2>5. db'.blocks[next] = block'
    BY <1>t, <2>1 DEF PutBlock, Upsert, IsDb
  <2>6. 0 <= Len(Txs[block'])
    <3>1. block' \in Block
      BY <1>t, <2>1, NodeAnswers
    <3>2. Txs[block'] \in Seq(Tx)
      BY <3>1 DEF ConsensusRules
    <3> QED BY <3>2
  <2> QED BY <2>1, <2>3, <2>4, <2>5, <2>6
<1>7. CASE FetchFails \/ BatchStops \/ Commit
  <2>1. /\ UNCHANGED db /\ saved' \in {saved, db}
        /\ pc \in {"block", "commit"} /\ pc' \in {"idle", "commit"}
    BY <1>7 DEF FetchFails, BatchStops, Commit
  <2> QED BY <2>1
<1>8. CASE WriteTx
  <2> DEFINE t == Txs[block][n + 1]
             M == Begun(db.blocks, next, n)
  <2>1. /\ pc = "tx" /\ n < Len(Txs[block]) /\ n' = n + 1 /\ db' = IndexTx(db, t, next)
        /\ UNCHANGED <<saved, pc, next, block>>
    BY <1>8 DEF WriteTx
  <2>2. RunTo(db.blocks, next) /\ IsPath(db.blocks) /\ db.blocks[next] = block /\ Holds(db, M)
    BY <1>i, <2>1 DEF Gapless, Chained
  <2>3. db.blocks = Path[block] /\ Height[block] = next
    BY <1>t, <2>2, TopOfPath DEF RunTo
  <2>4. Follows(M, next, t)
    BY <1>t, <2>1, <2>3, NextFollows
  <2>5. Holds(db', M \cup {<<next, t>>})
    BY <1>t, <2>1, <2>2, <2>4, IndexTxHolds
  <2>6. db'.blocks = db.blocks
    BY <1>t, <2>1, IndexTxBlocks
  <2>7. Begun(db.blocks, next, n + 1) = M \cup {<<next, t>>}
    BY <1>t, <2>2, BegunOneMore
  <2>8. n + 1 <= Len(Txs[block])
    <3>1. Txs[block] \in Seq(Tx)
      BY <1>t DEF ConsensusRules
    <3> QED BY <1>t, <2>1, <3>1
  <2> HIDE DEF t, M
  <2> QED BY <2>1, <2>2, <2>5, <2>6, <2>7, <2>8
<1>9. CASE BlockDone
  <2>1. /\ pc = "tx" /\ n = Len(Txs[block]) /\ UNCHANGED <<db, saved>>
        /\ pc' \in {"block", "commit"}
    BY <1>9 DEF BlockDone
  <2>2. RunTo(db.blocks, next) /\ db.blocks[next] = block /\ Txs[block] \in Seq(Tx)
    BY <1>i, <1>t, <2>1 DEF Gapless, ConsensusRules
  <2>3. Begun(db.blocks, next, n) = MinedIn(db.blocks)
    BY <1>t, <2>1, <2>2, BegunAll DEF RunTo
  <2> QED BY <2>1, <2>3
<1>10. CASE TickAborts \/ ConnectionReplaced
  BY <1>10, <1>c DEF TickAborts, ConnectionReplaced
<1> QED
  BY <1>1, <1>2, <1>3, <1>4, <1>5, <1>6, <1>7, <1>8, <1>9, <1>10 DEF Next, Tick

LEMMA ExactInvariant ==
    ASSUME ConsensusRules, ShallowForks
    PROVE  Spec => []ExactInv
<1>1. ExactInv /\ [Next]_vars /\ ChainInv' => ExactInv'
  <2> SUFFICES ASSUME ExactInv, [Next]_vars, Whole' PROVE Exact'
    BY DEF ExactInv
  <2>1. Whole
    BY Remembers DEF Whole, Calm, ExactInv, ChainInv, GaplessInv, StoreInv
  <2> QED BY <2>1, ExactStep DEF ExactInv, Whole
<1> QED BY <1>1, ExactInit, ChainInvariant, PTL DEF Spec

-------------------------------------------------------------------------------
(* The theorems: after any sequence of batches, branch switches, rewinds,
   failed calls, stops and crashes, as long as no fault has left half a block
   or blocks of two branches. *)

\* txs and txio hold the transactions of the stored blocks, and no other.
THEOREM Spec_LedgerExact ==
    ASSUME ConsensusRules, ShallowForks
    PROVE  Spec => []LedgerExact
<1>1. ExactInv => LedgerExact
  <2> SUFFICES ASSUME ExactInv, Whole PROVE HoldsLedger(saved, Mined)
    BY DEF LedgerExact
  <2>1. LedgerRows(saved, Mined)
    BY DEF ExactInv, Exact, Mined, Holds
  <2>2. PICK k \in Int : RunTo(saved.blocks, k)
    BY CalmKept DEF ExactInv, ChainInv, GaplessInv, Gapless, Run, Whole
  <2>3. Mined \in SUBSET (Nat \X Tx)
    BY <2>2, MinedInRun DEF Mined
  <2> QED BY <2>1, <2>3, LedgerByRows
<1> QED BY <1>1, ExactInvariant, PTL

\* The rows of utxos that count are what the stored blocks create and do not
\* spend: the balances are those of the stored chain.
THEOREM Spec_UtxoExact ==
    ASSUME ConsensusRules, ShallowForks
    PROVE  Spec => []UtxoExact
<1>1. ExactInv => UtxoExact
  BY DEF ExactInv, Exact, Holds, Mined, UtxoExact
<1> QED BY <1>1, ExactInvariant, PTL

\* Every stored input found the output that it spends.
THEOREM Spec_InputsResolved ==
    ASSUME ConsensusRules, ShallowForks
    PROVE  Spec => []InputsResolved
<1>1. ExactInv => InputsResolved
  BY DEF ExactInv, Exact, Holds, Mined, InputsResolved
<1> QED BY <1>1, ExactInvariant, PTL

\* One row of asset_activity for each asset output of the stored blocks.
THEOREM Spec_ActivityExact ==
    ASSUME ConsensusRules, ShallowForks
    PROVE  Spec => []ActivityExact
<1>1. ExactInv => ActivityExact
  BY DEF ExactInv, Exact, Holds, Mined, ActivityExact
<1> QED BY <1>1, ExactInvariant, PTL

\* The lottery payouts are those of the stored coinbases.
THEOREM Spec_LotteryExact ==
    ASSUME ConsensusRules, ShallowForks
    PROVE  Spec => []LotteryExact
<1>1. ExactInv => LotteryExact
  BY LotteryByRows DEF ExactInv, Exact, Holds, Mined, LotteryExact
<1> QED BY <1>1, ExactInvariant, PTL

-------------------------------------------------------------------------------
(* Aborted blocks.  When exceptions leave blocks half written, the tables do
   not hold all of the transactions any more.  What they hold is of the stored
   blocks, and the number of blocks that lack any of theirs is bounded.  The
   block being indexed is not counted before its transactions are left out. *)

\* The stored transactions are of the stored blocks, at their heights.
TxRows(d) == \A t \in DOMAIN d.txs : <<d.txs[t], t>> \in MinedIn(d.blocks)

\* The heights of the blocks of d that lack a transaction.
Broken(d) == {m[1] : m \in {x \in MinedIn(d.blocks) : x[2] \notin DOMAIN d.txs}}
BrokenBelow == IF pc = "tx" THEN Broken(db) \ {next} ELSE Broken(db)

Damaged ==
    /\ HasTables(db) /\ HasTables(saved)
    /\ TxRows(db) /\ TxRows(saved)
    /\ Cardinality(Broken(saved)) <= Count("abort")
    /\ Cardinality(BrokenBelow) <= Count("abort")
    /\ pc = "tx" =>
          /\ db.blocks[next] = block /\ n <= Len(Txs[block])
          /\ \A i \in 1 .. n : Txs[block][i] \in DOMAIN db.txs

DamagedInv == ChainInv /\ (Calm => Damaged)

LEMMA BrokenMember ==
    ASSUME NEW d, NEW h
    PROVE  h \in Broken(d) <=>
              /\ h \in DOMAIN d.blocks
              /\ \E i \in DOMAIN Txs[d.blocks[h]] : Txs[d.blocks[h]][i] \notin DOMAIN d.txs
<1> DEFINE f == d.blocks
<1>1. ASSUME h \in Broken(d)
      PROVE  h \in DOMAIN f /\ \E i \in DOMAIN Txs[f[h]] : Txs[f[h]][i] \notin DOMAIN d.txs
  <2>1. PICK m \in MinedIn(f) : m[2] \notin DOMAIN d.txs /\ h = m[1]
    BY <1>1 DEF Broken
  <2> HIDE DEF f
  <2>2. PICK g \in DOMAIN f : \E i \in DOMAIN Txs[f[g]] : m = <<g, Txs[f[g]][i]>>
    BY MinedMember
  <2>3. PICK i \in DOMAIN Txs[f[g]] : m = <<g, Txs[f[g]][i]>>
    BY <2>2
  <2> QED BY <2>1, <2>3
<1>2. ASSUME h \in DOMAIN f, NEW i \in DOMAIN Txs[f[h]], Txs[f[h]][i] \notin DOMAIN d.txs
      PROVE  h \in Broken(d)
  <2> DEFINE m == <<h, Txs[f[h]][i]>>
  <2>1. m \in MinedIn(f)
    BY <1>2, MinedMember
  <2>2. m[1] = h /\ m[2] = Txs[f[h]][i]
    OBVIOUS
  <2> HIDE DEF m
  <2> QED BY <1>2, <2>1, <2>2 DEF Broken
<1> QED BY <1>1, <1>2

LEMMA BrokenFinite ==
    ASSUME NEW d, NEW k \in Int, RunTo(d.blocks, k)
    PROVE  IsFiniteSet(Broken(d))
<1>1. Broken(d) \subseteq 0 .. k
  BY BrokenMember DEF RunTo
<1>2. IsFiniteSet(0 .. k)
  BY FS_Interval
<1> QED BY <1>1, <1>2, PartOfFinite

\* Fewer broken blocks are within a bound that does not fall.
LEMMA FewerBroken ==
    ASSUME NEW T, IsFiniteSet(T), NEW S, S \subseteq T, NEW c \in Nat, NEW e \in Nat,
           Cardinality(T) <= c, c <= e
    PROVE  Cardinality(S) <= e
<1>1. Cardinality(S) <= Cardinality(T) /\ Cardinality(S) \in Nat /\ Cardinality(T) \in Nat
  BY PartOfFinite
<1> QED BY <1>1

LEMMA OneMoreBroken ==
    ASSUME NEW T, IsFiniteSet(T), NEW x, NEW c \in Nat, Cardinality(T) <= c
    PROVE  IsFiniteSet(T \cup {x}) /\ Cardinality(T \cup {x}) <= c + 1
<1>1. Cardinality(T) \in Nat
  BY FS_CardinalityType
<1>2. /\ IsFiniteSet(T \cup {x})
      /\ Cardinality(T \cup {x}) = IF x \in T THEN Cardinality(T) ELSE Cardinality(T) + 1
  BY FS_AddElement
<1> QED BY <1>1, <1>2

\* A rewind breaks no block.
LEMMA BrokenCut ==
    ASSUME ConsensusRules, NEW d, NEW b \in Block, d.blocks = Path[b], HasTables(d), TxRows(d),
           NEW r \in Int, r >= -1, r <= Height[b]
    PROVE  TxRows(Rewind(d, r)) /\ Broken(Rewind(d, r)) \subseteq Broken(d)
<1> DEFINE e == Rewind(d, r)
           k == Height[b]
           gone == {t \in DOMAIN d.txs : d.txs[t] > r}
<1>1. k \in Nat /\ DOMAIN d.blocks = 0 .. k
      /\ \A h \in 0 .. k : d.blocks[h] \in Block /\ Height[d.blocks[h]] = h
  BY PathAssumption
<1>2. e.txs = Without(d.txs, gone)
  <2>1. DropAbove(d, r).txs = Without(d.txs, gone)
    BY DEF HasTables, Tables, DropAbove
  <2> HIDE DEF gone
  <2> QED BY <2>1, RewindTables
<1>3. e.blocks = [h \in 0 .. r |-> d.blocks[h]] /\ MinedIn(e.blocks) = Upto(MinedIn(d.blocks), r)
  <2>1. RunTo(d.blocks, k) /\ IsDb(d)
    BY <1>1 DEF RunTo, HasTables, Tables, IsDb
  <2> QED BY <1>1, <2>1, RewindRun, MinedRewound
<1> HIDE DEF e, k
<1>4. \A t \in DOMAIN d.txs : d.txs[t] \in 0 .. k
  <2>1. ASSUME NEW t \in DOMAIN d.txs PROVE d.txs[t] \in DOMAIN d.blocks
    <3>1. <<d.txs[t], t>> \in MinedIn(d.blocks)
      BY DEF TxRows
    <3>2. PICK h \in DOMAIN d.blocks : \E i \in DOMAIN Txs[d.blocks[h]] :
             <<d.txs[t], t>> = <<h, Txs[d.blocks[h]][i]>>
      BY <3>1, MinedMember
    <3> QED BY <3>2
  <2> QED BY <1>1, <2>1
<1>5. /\ DOMAIN e.txs = {t \in DOMAIN d.txs : d.txs[t] <= r}
      /\ \A t \in DOMAIN e.txs : e.txs[t] = d.txs[t]
  BY <1>1, <1>2, <1>4 DEF Without
<1>6. TxRows(e)
  <2> SUFFICES ASSUME NEW t \in DOMAIN e.txs PROVE <<e.txs[t], t>> \in MinedIn(e.blocks)
    BY DEF TxRows
  <2>1. <<d.txs[t], t>> \in MinedIn(d.blocks) /\ <<d.txs[t], t>>[1] <= r
    BY <1>5 DEF TxRows
  <2> QED BY <1>3, <1>5, <2>1 DEF Upto
<1>7. ASSUME NEW h \in Broken(e) PROVE h \in Broken(d)
  <2>1. h \in DOMAIN e.blocks
        /\ \E i \in DOMAIN Txs[e.blocks[h]] : Txs[e.blocks[h]][i] \notin DOMAIN e.txs
    BY BrokenMember
  <2>2. h \in 0 .. r /\ h \in 0 .. k /\ e.blocks[h] = d.blocks[h]
    BY <1>1, <1>3, <2>1 DEF k
  <2>3. PICK i \in DOMAIN Txs[d.blocks[h]] : Txs[d.blocks[h]][i] \notin DOMAIN e.txs
    BY <2>1, <2>2
  <2> DEFINE t == Txs[d.blocks[h]][i]
  <2>4. ASSUME t \in DOMAIN d.txs PROVE FALSE
    <3>1. <<d.txs[t], t>> \in MinedIn(d.blocks)
      BY <2>4 DEF TxRows
    <3>2. PICK g \in DOMAIN d.blocks : \E j \in DOMAIN Txs[d.blocks[g]] :
             <<d.txs[t], t>> = <<g, Txs[d.blocks[g]][j]>>
      BY <3>1, MinedMember
    <3>3. PICK j \in DOMAIN Txs[d.blocks[g]] : <<d.txs[t], t>> = <<g, Txs[d.blocks[g]][j]>>
      BY <3>2
    <3>4. t = Txs[d.blocks[g]][j] /\ d.txs[t] = g
      BY <3>3
    <3> HIDE DEF t
    <3>5. g \in 0 .. k
      BY <1>1
    <3>6. g = h
      <4>1. TxAt(b, g, j) = TxAt(b, h, i)
        BY <3>4 DEF TxAt, t
      <4>2. j \in DOMAIN Txs[Path[b][g]] /\ i \in DOMAIN Txs[Path[b][h]]
        BY <2>3, <3>3
      <4> QED BY <2>2, <3>5, <4>1, <4>2 DEF ConsensusRules, MinedOnce, k
    <3>7. d.txs[t] <= r
      BY <2>2, <3>4, <3>6
    <3> QED BY <1>5, <2>3, <2>4, <3>7 DEF t
  <2>5. h \in DOMAIN d.blocks
    BY <1>1, <2>2
  <2> QED BY <2>3, <2>4, <2>5, BrokenMember
<1> QED BY <1>6, <1>7 DEF e

LEMMA DamagedInit == Init => DamagedInv
<1> SUFFICES ASSUME Init PROVE Damaged
  BY ChainInit DEF DamagedInv
<1>1. db = EmptyDb /\ saved = EmptyDb /\ pc = "down"
  BY DEF Init
<1>2. /\ HasTables(EmptyDb) /\ DOMAIN EmptyDb.txs = {} /\ DOMAIN EmptyDb.blocks = {}
  BY DEF HasTables, Tables, EmptyDb, EmptyTable
<1>3. Broken(EmptyDb) = {} /\ TxRows(EmptyDb)
  BY <1>2, BrokenMember DEF TxRows
<1>4. Cardinality({}) = 0
  BY FS_EmptySet
<1>5. Count("abort") \in Nat
  BY Counts, StoreInit DEF StoreInv
<1> QED BY <1>1, <1>2, <1>3, <1>4, <1>5 DEF Damaged, BrokenBelow

\* Every step that is no disruptive fault keeps it.
LEMMA DamagedStep ==
    ASSUME ConsensusRules, ShallowForks, ChainInv, Calm, Damaged, Calm', StoreInv', [Next]_vars
    PROVE  Damaged'
<1> USE DEF Damaged
<1> DEFINE c == Count("abort")
<1>c. ~ Fault("conndrop")
  BY HasHappened DEF ChainInv, GaplessInv, StoreInv, Calm, Disruptive
<1>i. StoreInv /\ Gapless /\ Chained /\ TypeOK
  BY CalmKept DEF ChainInv, GaplessInv, StoreInv
<1>t. /\ best \in Block /\ block \in Block /\ next \in Nat /\ n \in Nat
      /\ IsDb(db) /\ IsDb(saved)
  BY <1>i DEF StoreInv, TypeOK
<1>n. c \in Nat /\ c' \in Nat /\ c <= c'
  <2>1. c \in Nat /\ c' >= c
    BY <1>i, Counts, CountGrows
  <2>2. c' \in Nat
    <3>1. TypeOK'
      BY DEF StoreInv
    <3>2. c' = Cardinality({i \in DOMAIN faults' : faults'[i] = "abort"})
      BY DEF Count
    <3>3. faults' \in Seq(FaultNames)
      BY <3>1 DEF TypeOK
    <3>4. /\ {i \in DOMAIN faults' : faults'[i] = "abort"} \subseteq 1 .. Len(faults')
          /\ Len(faults') \in Nat
      BY <3>3
    <3>5. IsFiniteSet(1 .. Len(faults'))
      BY <3>4, FS_Interval
    <3> QED BY <3>2, <3>4, <3>5, PartOfFinite
  <2> QED BY <2>1, <2>2
<1> HIDE DEF c
<1>k. PICK k \in Int : k >= -1 /\ RunTo(db.blocks, k)
  BY <1>i DEF Gapless, Run
<1>h. IndexedHeight(db.blocks) = k
  BY <1>k, HeightOfRun DEF RunTo
<1>f. IsFiniteSet(Broken(db)) /\ IsFiniteSet(Broken(saved)) /\ IsFiniteSet(BrokenBelow)
  <2>1. IsFiniteSet(Broken(db)) /\ IsFiniteSet(Broken(saved))
    BY <1>i, <1>k, BrokenFinite DEF Gapless, Run
  <2>2. BrokenBelow \subseteq Broken(db)
    BY DEF BrokenBelow
  <2> QED BY <2>1, <2>2, PartOfFinite
<1>b. Cardinality(Broken(saved)) <= c /\ Cardinality(BrokenBelow) <= c
  BY DEF c
\* What is left to show of a step.
<1> DEFINE InTx == /\ db.blocks[next] = block /\ n <= Len(Txs[block])
                   /\ \A i \in 1 .. n : Txs[block][i] \in DOMAIN db.txs
<1>r. ASSUME HasTables(db'), HasTables(saved'), TxRows(db'), TxRows(saved'),
             Broken(saved') \subseteq Broken(saved) \/ Broken(saved') \subseteq BrokenBelow,
             \/ BrokenBelow' \subseteq BrokenBelow \/ BrokenBelow' \subseteq Broken(saved)
             \/ Cardinality(BrokenBelow') <= c',
             pc' = "tx" => InTx'
      PROVE  Damaged'
  <2>1. Cardinality(Broken(saved')) <= c'
    BY <1>r, <1>n, <1>f, <1>b, FewerBroken
  <2>2. Cardinality(BrokenBelow') <= c'
    BY <1>r, <1>n, <1>f, <1>b, FewerBroken
  <2> QED BY <1>r, <2>1, <2>2 DEF c
<1>p. pc # "tx" => BrokenBelow = Broken(db)
  BY DEF BrokenBelow
<1>q. pc' # "tx" => BrokenBelow' = Broken(db')
  BY DEF BrokenBelow
<1>1. CASE NodeNext \/ Stop \/ UNCHANGED vars
  <2>1. UNCHANGED <<db, saved, pc, next, block, n>>
    BY <1>1 DEF NodeNext, NodeGrows, NodeReorgs, NodeRetreats, Stop, vars, tickVars
  <2>2. BrokenBelow' = BrokenBelow
    BY <2>1 DEF BrokenBelow
  <2>3. InTx' <=> InTx
    BY <2>1
  <2> QED BY <2>1, <2>2, <2>3, <1>r
<1>2. CASE Start \/ TickHead
  <2>1. db' = RepairGenesis(db) /\ saved' = db' /\ pc \in {"down", "idle"} /\ pc' # "tx"
    BY <1>2 DEF Start, TickHead
  <2>2. HasTables(db') /\ db'.txs = db.txs /\ db'.blocks = db.blocks
    <3>1. HasTables(RepairGenesis(db))
      BY KeepTables
    <3>2. RepairGenesis(db).txs = db.txs /\ RepairGenesis(db).blocks = db.blocks
      BY DEF HasTables, Tables, RepairGenesis
    <3> QED BY <2>1, <3>1, <3>2
  <2>3. TxRows(db') /\ Broken(db') = Broken(db)
    BY <2>2 DEF TxRows, Broken
  <2> QED BY <1>p, <1>q, <1>r, <2>1, <2>2, <2>3
<1>3. CASE Exit \/ Crash
  <2>1. db' = saved /\ saved' = saved /\ pc' = "down"
    BY <1>3 DEF Exit, Crash
  <2> QED BY <1>q, <1>r, <2>1
<1>4. CASE CheckAgrees \/ CheckFails
  <2>1. UNCHANGED <<db, saved>> /\ pc = "check" /\ pc' # "tx"
    BY <1>4 DEF CheckAgrees, CheckFails, PlanBatch
  <2> QED BY <1>p, <1>q, <1>r, <2>1
<1>5. CASE CheckRewinds
  <2> DEFINE r == RewindTo(k)
  <2>1. HasHeight(k) /\ db' = Rewind(db, r) /\ saved' = db' /\ pc = "check" /\ pc' # "tx"
    BY <1>5, <1>h DEF CheckRewinds, PlanBatch
  <2>2. k \in Nat /\ r \in Int /\ r >= -1 /\ r <= k
    <3>1. k \in Nat
      BY <1>t, <2>1, NodeAnswers
    <3> QED BY <3>1, RewindToRange
  <2> HIDE DEF r
  <2>3. db.blocks[k] \in Block /\ Height[db.blocks[k]] = k /\ db.blocks = Path[db.blocks[k]]
    BY <1>i, <1>k, <2>2, TopOfPath DEF Chained, RunTo
  <2>4. TxRows(db') /\ Broken(db') \subseteq Broken(db)
    BY <2>1, <2>2, <2>3, BrokenCut
  <2>5. HasTables(db')
    BY <2>1, RewindTables
  <2> QED BY <1>p, <1>q, <1>r, <2>1, <2>4, <2>5
<1>6. CASE FetchBlock
  <2>1. /\ pc = "block" /\ pc' = "tx" /\ n' = 0 /\ UNCHANGED <<saved, next>>
        /\ db' = PutBlock(db, next, block') /\ HasHeight(next) /\ block' = BlockAt(next)
    BY <1>6 DEF FetchBlock
  <2>2. HasTables(db')
    BY <2>1, KeepTables
  <2>3. /\ db'.txs = db.txs /\ db'.blocks[next] = block'
        /\ DOMAIN db'.blocks = DOMAIN db.blocks \cup {next}
        /\ \A h \in DOMAIN db.blocks : h # next => db'.blocks[h] = db.blocks[h]
    <3>1. db'.blocks = Upsert(db.blocks, [h \in {next} |-> block']) /\ db'.txs = db.txs
      BY <2>1 DEF PutBlock, HasTables, Tables
    <3> QED BY <3>1 DEF Upsert
  <2>4. next \notin DOMAIN db.blocks
    BY <1>i, <1>t, <2>1 DEF Gapless, RunTo
  <2>5. TxRows(db')
    <3> SUFFICES ASSUME NEW t \in DOMAIN db'.txs PROVE <<db'.txs[t], t>> \in MinedIn(db'.blocks)
      BY DEF TxRows
    <3>1. <<db.txs[t], t>> \in MinedIn(db.blocks)
      BY <2>3 DEF TxRows
    <3>2. PICK h \in DOMAIN db.blocks : \E i \in DOMAIN Txs[db.blocks[h]] :
             <<db.txs[t], t>> = <<h, Txs[db.blocks[h]][i]>>
      BY <3>1, MinedMember
    <3>3. h \in DOMAIN db'.blocks /\ db'.blocks[h] = db.blocks[h]
      BY <2>3, <2>4
    <3> QED BY <2>3, <3>2, <3>3, MinedMember
  <2>6. BrokenBelow' \subseteq BrokenBelow
    <3> SUFFICES ASSUME NEW h \in Broken(db'), h # next PROVE h \in Broken(db)
      BY <1>p, <2>1 DEF BrokenBelow
    <3>1. /\ h \in DOMAIN db'.blocks
          /\ \E i \in DOMAIN Txs[db'.blocks[h]] : Txs[db'.blocks[h]][i] \notin DOMAIN db'.txs
      BY BrokenMember
    <3>2. h \in DOMAIN db.blocks /\ db'.blocks[h] = db.blocks[h]
      BY <2>3, <3>1
    <3> QED BY <2>3, <3>1, <3>2, BrokenMember
  <2>7. 0 <= Len(Txs[block'])
    <3>1. block' \in Block
      BY <1>t, <2>1, NodeAnswers
    <3>2. Txs[block'] \in Seq(Tx)
      BY <3>1 DEF ConsensusRules
    <3> QED BY <3>2
  <2>8. InTx'
    BY <2>1, <2>3, <2>7
  <2> HIDE DEF InTx
  <2> QED BY <1>r, <2>1, <2>2, <2>5, <2>6, <2>8
<1>7. CASE FetchFails \/ BatchStops \/ Commit
  <2>1. /\ UNCHANGED db /\ saved' \in {saved, db}
        /\ pc \in {"block", "commit"} /\ pc' \in {"idle", "commit"}
    BY <1>7 DEF FetchFails, BatchStops, Commit
  <2> QED BY <1>p, <1>q, <1>r, <2>1
<1>8. CASE WriteTx
  <2> DEFINE t == Txs[block][n + 1]
  <2>1. /\ pc = "tx" /\ n < Len(Txs[block]) /\ n' = n + 1 /\ db' = IndexTx(db, t, next)
        /\ UNCHANGED <<saved, pc, next, block>>
    BY <1>8 DEF WriteTx
  <2>2. Txs[block] \in Seq(Tx)
    BY <1>t DEF ConsensusRules
  <2>3. HasTables(db') /\ db'.blocks = db.blocks
    BY <1>t, <2>1, KeepTables, IndexTxBlocks
  <2>4. DOMAIN db'.txs = DOMAIN db.txs \cup {t} /\ db'.txs[t] = next
        /\ \A x \in DOMAIN db.txs : x # t => db'.txs[x] = db.txs[x]
    <3>1. db'.txs = Upsert(db.txs, [x \in {t} |-> next])
      BY <2>1 DEF IndexTx, HasTables, Tables
    <3> QED BY <3>1 DEF Upsert
  <2>5. <<next, t>> \in MinedIn(db.blocks)
    <3>1. next \in DOMAIN db.blocks /\ db.blocks[next] = block
      BY <1>i, <1>t, <2>1 DEF Gapless, RunTo
    <3>2. n + 1 \in DOMAIN Txs[block]
      BY <1>t, <2>1, <2>2
    <3> QED BY <3>1, <3>2, MinedMember
  <2>6. InTx'
    <3>1. n + 1 <= Len(Txs[block]) /\ db'.blocks[next] = block
      BY <1>t, <2>1, <2>2, <2>3
    <3>2. ASSUME NEW i \in 1 .. n + 1 PROVE Txs[block][i] \in DOMAIN db'.txs
      <4>1. i \in 1 .. n \/ i = n + 1
        BY <1>t
      <4> QED BY <2>1, <2>4, <4>1
    <3> QED BY <2>1, <3>1, <3>2
  <2> HIDE DEF t, InTx
  <2>7. TxRows(db')
    BY <2>3, <2>4, <2>5 DEF TxRows
  <2>8. Broken(db') \subseteq Broken(db)
    BY <2>3, <2>4 DEF Broken
  <2>9. BrokenBelow' \subseteq BrokenBelow
    BY <2>1, <2>8 DEF BrokenBelow
  <2> QED BY <1>r, <2>1, <2>3, <2>6, <2>7, <2>9
<1>9. CASE BlockDone
  <2>1. /\ pc = "tx" /\ n = Len(Txs[block]) /\ UNCHANGED <<db, saved>> /\ pc' # "tx"
    BY <1>9 DEF BlockDone
  <2>2. Txs[block] \in Seq(Tx)
    BY <1>t DEF ConsensusRules
  <2>3. next \notin Broken(db)
    BY <2>1, <2>2, BrokenMember
  <2>4. BrokenBelow' \subseteq BrokenBelow
    BY <1>q, <2>1, <2>3 DEF BrokenBelow
  <2> QED BY <1>r, <2>1, <2>4
<1>10. CASE TickAborts
  <2>1. pc = "tx" /\ pc' # "tx" /\ UNCHANGED <<db, saved>> /\ Fault("abort")
    BY <1>10 DEF TickAborts
  <2>2. c' = c + 1
    BY <1>i, <2>1, Counts DEF c
  <2>3. BrokenBelow' \subseteq BrokenBelow \cup {next}
    BY <1>q, <2>1 DEF BrokenBelow
  <2>4. IsFiniteSet(BrokenBelow \cup {next}) /\ Cardinality(BrokenBelow \cup {next}) <= c'
    BY <1>b, <1>f, <1>n, <2>2, OneMoreBroken
  <2>5. Cardinality(BrokenBelow') <= c'
    BY <1>n, <2>3, <2>4, FewerBroken
  <2> QED BY <1>r, <2>1, <2>5
<1>11. CASE ConnectionReplaced
  BY <1>11, <1>c DEF ConnectionReplaced
<1> QED
  BY <1>1, <1>2, <1>3, <1>4, <1>5, <1>6, <1>7, <1>8, <1>9, <1>10, <1>11 DEF Next, Tick

LEMMA DamagedInvariant ==
    ASSUME ConsensusRules, ShallowForks
    PROVE  Spec => []DamagedInv
<1>1. DamagedInv /\ [Next]_vars /\ ChainInv' => DamagedInv'
  <2> SUFFICES ASSUME DamagedInv, [Next]_vars, Calm', ChainInv' PROVE Damaged'
    BY DEF DamagedInv
  <2>1. Calm
    BY Remembers DEF Calm, DamagedInv, ChainInv, GaplessInv, StoreInv
  <2>2. StoreInv'
    BY DEF ChainInv, GaplessInv
  <2> QED BY <2>1, <2>2, DamagedStep DEF DamagedInv
<1> QED BY <1>1, DamagedInit, ChainInvariant, PTL DEF Spec

\* An exception within a block costs that block, and no other block any of its
\* transactions, whatever is rewound, retried and restarted afterwards.
THEOREM Spec_DamageBounded ==
    ASSUME ConsensusRules, ShallowForks
    PROVE  Spec => []DamageBounded
<1>1. DamagedInv => DamageBounded
  BY DEF DamagedInv, Damaged, Broken, Mined, DamageBounded
<1> QED BY <1>1, DamagedInvariant, PTL

-------------------------------------------------------------------------------
(* Asset amounts.  They are added up, so that a rewind cannot undo them: the
   invariant is of a chain that has only grown.  Sums come from EmissionProofs. *)

\* What the first h blocks and m transactions of the next one issue.
IssuedSoFar(f, h, m, a) ==
    Total([k \in 1 .. h |-> IssuedIn(f[k - 1], a)])
        + Total([i \in 1 .. m |-> IssuedBy(Txs[f[h]][i], a)])

\* An asset has a row with that amount as soon as an output has named it, and
\* the row knows where it was issued; without a row nothing of it was issued.
AmountsTo(assets, f, h, m) ==
    \A a \in KeepsAmount :
        /\ a \in DOMAIN assets <=> NamedBefore(f, h, m + 1, a)
        /\ a \in DOMAIN assets =>
              assets[a].created # None /\ assets[a].amount = IssuedSoFar(f, h, m, a)
        /\ a \notin DOMAIN assets => IssuedSoFar(f, h, m, a) = 0
AmountsWhole(d) == AmountsTo(d.assets, d.blocks, IndexedHeight(d.blocks) + 1, 0)

OnlyGrows == Whole /\ ~ Happened({"reorg", "retreat"})

\* The tables have blocks of the node only, so that nothing is rewound.
Amounts ==
    /\ NodesRows(db.blocks)
    /\ AmountsWhole(saved)
    /\ pc # "tx" => AmountsWhole(db)
    /\ pc = "tx" =>
          /\ db.blocks[next] = block /\ n <= Len(Txs[block])
          /\ AmountsTo(db.assets, db.blocks, next, n)

AmountsInv == ExactInv /\ (OnlyGrows => Amounts)

\* Nothing adds up to nothing; a list one longer adds up to one amount more.
LEMMA TotalOfNone ==
    ASSUME NEW s, Len(s) = 0
    PROVE  Total(s) = 0
<1>1. PICK f : AreSums(f, s, Len(s)) /\ Total(s) = f[Len(s)]
  BY TotalIsSum
<1>2. f[0] = 0
  BY <1>1, SumSteps
<1> QED BY <1>1, <1>2

LEMMA TotalOneMore ==
    ASSUME NEW s, NEW u, NEW k \in Nat, Len(s) = k, Len(u) = k + 1,
           \A j \in 1 .. k : u[j] = s[j]
    PROVE  Total(u) = Total(s) + u[k + 1]
<1>1. PICK f : AreSums(f, u, k + 1) /\ Total(u) = f[k + 1]
  BY TotalIsSum
<1>2. f[0] = 0 /\ \A j \in 1 .. k + 1 : f[j] = f[j - 1] + u[j]
  BY <1>1, SumSteps
<1>3. \A j \in 1 .. k : j \in 1 .. k + 1
  OBVIOUS
<1>4. \A j \in 1 .. k : f[j] = f[j - 1] + s[j]
  BY <1>2, <1>3
<1>5. Total(s) = f[k]
  BY <1>2, <1>4, SumBySteps
<1>6. k + 1 \in 1 .. k + 1 /\ (k + 1) - 1 = k
  OBVIOUS
<1> QED BY <1>1, <1>2, <1>5, <1>6

\* What transactions and blocks of the tree issue are numbers.
LEMMA IssuedTyped ==
    ASSUME ConsensusRules, AssetRules, NEW a
    PROVE  /\ \A t \in Tx : IssuedBy(t, a) \in Int
           /\ \A b \in Block : IssuedIn(b, a) \in Int
<1>1. ASSUME NEW t \in Tx PROVE IssuedBy(t, a) \in Int
  <2> DEFINE s == [k \in 1 .. Len(Outs[t]) |->
                     IF Adds(Outs[t][k], a) THEN Outs[t][k].amount ELSE 0]
  <2>1. Len(Outs[t]) \in Nat /\ \A k \in 1 .. Len(Outs[t]) : Outs[t][k].amount \in Int
    BY DEF AssetRules
  <2>2. Len(s) = Len(Outs[t]) /\ \A k \in 1 .. Len(Outs[t]) : s[k] \in Int
    BY <2>1
  <2> HIDE DEF s
  <2>3. Total(s) \in Int
    BY <2>1, <2>2, TotalTyped
  <2> QED BY <2>3 DEF IssuedBy, s
<1>2. ASSUME NEW b \in Block PROVE IssuedIn(b, a) \in Int
  <2> DEFINE s == [i \in 1 .. Len(Txs[b]) |-> IssuedBy(Txs[b][i], a)]
  <2>1. Len(Txs[b]) \in Nat /\ \A i \in 1 .. Len(Txs[b]) : Txs[b][i] \in Tx
    BY DEF ConsensusRules
  <2>2. Len(s) = Len(Txs[b]) /\ \A i \in 1 .. Len(Txs[b]) : s[i] \in Int
    BY <1>1, <2>1
  <2> HIDE DEF s
  <2>3. Total(s) \in Int
    BY <2>1, <2>2, TotalTyped
  <2> QED BY <2>3 DEF IssuedIn, s
<1> QED BY <1>1, <1>2

\* _index_tx notes the outputs one after the other.
NotedIn(g, assets, t, h, m) ==
    g = [k \in 0 .. m |->
            IF k = 0 THEN assets
            ELSE IF Outs[t][k].asset = NoAsset THEN g[k - 1]
            ELSE NoteAsset(g[k - 1], Outs[t][k], h)]

LEMMA NotedExists ==
    ASSUME NEW assets, NEW t, NEW h, NEW m \in Nat
    PROVE  \E g : NotedIn(g, assets, t, h, m)
<1> DEFINE T == {k \in Nat : \E g : NotedIn(g, assets, t, h, k)}
<1>1. 0 \in T
  <2>1. NotedIn([k \in 0 .. 0 |-> assets], assets, t, h, 0)
    BY DEF NotedIn
  <2> QED BY <2>1
<1>2. ASSUME NEW k \in T PROVE k + 1 \in T
  <2>1. PICK g : NotedIn(g, assets, t, h, k)
    OBVIOUS
  <2>2. k \in Nat
    OBVIOUS
  <2> DEFINE top == IF Outs[t][k + 1].asset = NoAsset THEN g[k]
                    ELSE NoteAsset(g[k], Outs[t][k + 1], h)
             f == [j \in 0 .. k + 1 |-> IF j = k + 1 THEN top ELSE g[j]]
  <2>3. ASSUME NEW j \in 0 .. k + 1
        PROVE  f[j] = IF j = 0 THEN assets
                      ELSE IF Outs[t][j].asset = NoAsset THEN f[j - 1]
                      ELSE NoteAsset(f[j - 1], Outs[t][j], h)
    <3> HIDE DEF top
    <3>1. CASE j = k + 1
      <4>1. j # 0 /\ j - 1 = k /\ f[j] = top /\ f[j - 1] = g[k]
        BY <2>2, <3>1
      <4> QED BY <3>1, <4>1 DEF top
    <3>2. CASE j # k + 1
      <4>1. j \in 0 .. k /\ f[j] = g[j]
        BY <2>2, <3>2
      <4>2. j # 0 => f[j - 1] = g[j - 1]
        BY <2>2, <3>2
      <4> HIDE DEF f
      <4>3. g[j] = IF j = 0 THEN assets
                   ELSE IF Outs[t][j].asset = NoAsset THEN g[j - 1]
                   ELSE NoteAsset(g[j - 1], Outs[t][j], h)
        BY <2>1, <4>1 DEF NotedIn
      <4> QED BY <4>1, <4>2, <4>3
    <3> QED BY <3>1, <3>2
  <2>4. f = [j \in 0 .. k + 1 |-> f[j]]
    OBVIOUS
  <2> HIDE DEF f
  <2>5. NotedIn(f, assets, t, h, k + 1)
    BY <2>3, <2>4 DEF NotedIn
  <2> QED BY <2>2, <2>5
<1> HIDE DEF T
<1>3. T = Nat
  <2>1. T \subseteq Nat
    BY DEF T
  <2> QED BY <1>1, <1>2, <2>1, AllNumbers
<1> QED BY <1>3 DEF T

LEMMA NotedSteps ==
    ASSUME NEW assets, NEW t, NEW h, Len(Outs[t]) \in Nat
    PROVE  \E g : /\ g[0] = assets
                  /\ \A k \in 1 .. Len(Outs[t]) :
                        g[k] = IF Outs[t][k].asset = NoAsset THEN g[k - 1]
                               ELSE NoteAsset(g[k - 1], Outs[t][k], h)
                  /\ NoteAssets(assets, t, h) = g[Len(Outs[t])]
<1> DEFINE m == Len(Outs[t])
           g == CHOOSE f : NotedIn(f, assets, t, h, m)
<1>1. NotedIn(g, assets, t, h, m)
  BY NotedExists
<1>2. NoteAssets(assets, t, h) = g[m]
  BY DEF NoteAssets, NotedIn
<1> HIDE DEF g, m
<1>3. m \in Nat
  BY DEF m
<1>4. g[0] = assets
  BY <1>1, <1>3 DEF NotedIn
<1>5. ASSUME NEW k \in 1 .. m
      PROVE  g[k] = IF Outs[t][k].asset = NoAsset THEN g[k - 1]
                    ELSE NoteAsset(g[k - 1], Outs[t][k], h)
  BY <1>1, <1>3 DEF NotedIn
<1> QED BY <1>2, <1>4, <1>5 DEF m

\* One output: another asset's row stays; the first output of an asset makes its
\* row; a later one adds to it what it reissues.
OneNotes(e, assets, out, a) ==
    /\ DOMAIN e = DOMAIN assets \cup {out.asset}
    /\ a # out.asset /\ a \in DOMAIN assets => e[a] = assets[a]
    /\ a = out.asset /\ a \notin DOMAIN assets /\ out.kind \in {"new", "owner"} =>
          e[a].created # None /\ e[a].amount = out.amount
    /\ a = out.asset /\ a \in DOMAIN assets /\ assets[a].created # None =>
          /\ e[a].created # None
          /\ e[a].amount = assets[a].amount
                              + (IF out.kind = "reissue" THEN out.amount ELSE 0)

LEMMA OneNoted ==
    ASSUME NEW assets, NEW out, out.amount \in Int, NEW h \in Nat, NEW a \in KeepsAmount
    PROVE  OneNotes(NoteAsset(assets, out, h), assets, out, a)
<1> DEFINE known == out.asset \in DOMAIN assets
           kept == known /\ out.asset \in KeepsAmount /\ assets[out.asset].created # None
           created == IF out.kind \in {"new", "owner"} THEN h ELSE None
           added == IF out.kind = "reissue" THEN out.amount ELSE 0
           base == IF kept THEN assets[out.asset].amount ELSE out.amount
           new == [x \in {out.asset} |->
                     [amount |-> base + added,
                      created |-> IF known THEN assets[x].created ELSE created]]
<1> DEFINE e == NoteAsset(assets, out, h)
<1>1. e = Upsert(assets, new)
  BY DEF NoteAsset
<1>2. DOMAIN new = {out.asset}
      /\ new[out.asset].amount = base + added
      /\ new[out.asset].created = IF known THEN assets[out.asset].created ELSE created
  OBVIOUS
<1> HIDE DEF new, e
<1>3. e = [x \in DOMAIN assets \cup {out.asset} |->
             IF x \in {out.asset} THEN new[x] ELSE assets[x]]
  BY <1>1, <1>2 DEF Upsert
<1>4. DOMAIN e = DOMAIN assets \cup {out.asset} /\ e[out.asset] = new[out.asset]
  BY <1>3
<1>5. a # out.asset /\ a \in DOMAIN assets => e[a] = assets[a]
  BY <1>3
<1>6. ASSUME a = out.asset, a \notin DOMAIN assets, out.kind \in {"new", "owner"}
      PROVE  e[a].created # None /\ e[a].amount = out.amount
  <2>1. ~ known /\ ~ kept /\ created = h /\ added = 0 /\ base = out.amount /\ h # None
    BY <1>6 DEF None
  <2> QED BY <1>2, <1>4, <1>6, <2>1
<1>7. ASSUME a = out.asset, a \in DOMAIN assets, assets[a].created # None
      PROVE  /\ e[a].created # None
             /\ e[a].amount = assets[a].amount
                                 + (IF out.kind = "reissue" THEN out.amount ELSE 0)
  <2>1. known /\ kept /\ base = assets[a].amount
    BY <1>7
  <2> QED BY <1>2, <1>4, <1>7, <2>1
<1> QED BY <1>4, <1>5, <1>6, <1>7 DEF OneNotes, e

\* The next transaction of a block is noted with all that it issues.
LEMMA NextNoted ==
    ASSUME ConsensusRules, AssetRules, NEW b \in Block, NEW m \in Nat, m < Len(Txs[b]),
           NEW assets, AmountsTo(assets, Path[b], Height[b], m)
    PROVE  AmountsTo(NoteAssets(assets, Txs[b][m + 1], Height[b]), Path[b], Height[b], m + 1)
<1> DEFINE h == Height[b]
           t == Txs[b][m + 1]
           size == Len(Outs[t])
<1>1. /\ Txs[b] \in Seq(Tx) /\ m + 1 \in DOMAIN Txs[b] /\ t \in Tx
      /\ Path[b][h] = b /\ h \in Nat
  BY PathAssumption DEF ConsensusRules
<1>2. size \in Nat /\ DOMAIN Outs[t] = 1 .. size
  BY <1>1 DEF AssetRules
<1>3. PICK g : /\ g[0] = assets
               /\ \A k \in 1 .. size : g[k] = IF Outs[t][k].asset = NoAsset THEN g[k - 1]
                                              ELSE NoteAsset(g[k - 1], Outs[t][k], h)
               /\ NoteAssets(assets, t, h) = g[size]
  BY <1>2, NotedSteps
<1> SUFFICES ASSUME NEW a \in KeepsAmount
             PROVE  /\ a \in DOMAIN g[size] <=> NamedBefore(Path[b], h, m + 2, a)
                    /\ a \in DOMAIN g[size] =>
                          /\ g[size][a].created # None
                          /\ g[size][a].amount = IssuedSoFar(Path[b], h, m + 1, a)
                    /\ a \notin DOMAIN g[size] => IssuedSoFar(Path[b], h, m + 1, a) = 0
  BY <1>3 DEF AmountsTo
<1> DEFINE x == IssuedSoFar(Path[b], h, m, a)
           s == [k \in 1 .. size |-> IF Adds(Outs[t][k], a) THEN Outs[t][k].amount ELSE 0]
           before == NamedBefore(Path[b], h, m + 1, a)
           named(k) == \E q \in 1 .. k : Outs[t][q].asset = a
<1>4. /\ a \in DOMAIN assets <=> before
      /\ a \in DOMAIN assets => assets[a].created # None /\ assets[a].amount = x
      /\ a \notin DOMAIN assets => x = 0
  BY DEF AmountsTo
<1>5. Len(s) = size /\ \A k \in 1 .. size : s[k] \in Int
  BY <1>1, <1>2 DEF AssetRules
<1>6. PICK f : AreSums(f, s, size) /\ IssuedBy(t, a) = f[size]
  BY <1>2, <1>5, TotalIsSum DEF IssuedBy
<1>7. \A k \in 0 .. size : f[k] \in Int
  BY <1>2, <1>5, <1>6, SumsTyped
<1>8. f[0] = 0 /\ \A k \in 1 .. size : f[k] = f[k - 1] + s[k]
  BY <1>2, <1>6, SumSteps
<1>9. x \in Int /\ IssuedSoFar(Path[b], h, m + 1, a) = x + IssuedBy(t, a)
  <2> DEFINE whole == [k \in 1 .. h |-> IssuedIn(Path[b][k - 1], a)]
             part == [i \in 1 .. m |-> IssuedBy(Txs[b][i], a)]
             more == [i \in 1 .. m + 1 |-> IssuedBy(Txs[b][i], a)]
  <2>1. \A k \in 1 .. h : Path[b][k - 1] \in Block
    <3>1. \A k \in 1 .. h : k - 1 \in 0 .. h
      BY <1>1
    <3> QED BY <3>1, PathAssumption
  <2>a. /\ \A u \in Tx : IssuedBy(u, a) \in Int
        /\ \A c \in Block : IssuedIn(c, a) \in Int
    BY IssuedTyped
  <2>2. Len(whole) = h /\ \A k \in 1 .. h : whole[k] \in Int
    BY <1>1, <2>1, <2>a
  <2>3. \A i \in 1 .. m + 1 : Txs[b][i] \in Tx
    BY <1>1
  <2>4. Len(part) = m /\ Len(more) = m + 1 /\ \A i \in 1 .. m : part[i] \in Int /\ more[i] = part[i]
    BY <2>3, <2>a
  <2>5. more[m + 1] = IssuedBy(t, a) /\ IssuedBy(t, a) \in Int
    <3>1. m + 1 \in 1 .. m + 1
      OBVIOUS
    <3> QED BY <1>1, <2>a, <3>1
  <2>6. x = Total(whole) + Total(part)
        /\ IssuedSoFar(Path[b], h, m + 1, a) = Total(whole) + Total(more)
    BY <1>1 DEF IssuedSoFar
  <2> HIDE DEF whole, part, more, x, h
  <2>7. Total(whole) \in Int /\ Total(part) \in Int
    BY <1>1, <2>2, <2>4, TotalTyped
  <2>8. Total(more) = Total(part) + IssuedBy(t, a)
    BY <2>4, <2>5, TotalOneMore
  <2> HIDE DEF t
  <2> QED BY <2>5, <2>6, <2>7, <2>8
<1>10. NamedBefore(Path[b], h, m + 2, a) <=> before \/ named(size)
  <2>1. 1 .. (m + 2) - 1 = (1 .. (m + 1) - 1) \cup {m + 1}
    OBVIOUS
  <2>2. Names(t, a) <=> named(size)
    BY <1>2 DEF Names
  <2> QED BY <1>1, <2>1, <2>2 DEF NamedBefore
<1>11. ASSUME NEW k \in 1 .. size, Outs[t][k].asset = a
       PROVE  /\ Outs[t][k].kind \in {"new", "owner", "reissue", "transfer"}
              /\ Outs[t][k].kind \in {"new", "owner"} <=> ~ (before \/ named(k - 1))
              /\ a # NoAsset
  <2>1. Outs[t][k].kind \in {"new", "owner", "reissue", "transfer"} /\ a # NoAsset
    BY <1>1, <1>2, <1>11 DEF AssetRules
  <2>2. Outs[t][k].kind \in {"new", "owner"} <=>
           ~ before /\ \A q \in 1 .. k - 1 : Outs[t][q].asset # a
    <3>1. /\ b \in Block /\ m + 1 \in DOMAIN Txs[b] /\ Txs[b][m + 1] = t
          /\ k \in DOMAIN Outs[t] /\ Outs[t][k].asset = a /\ a \in KeepsAmount
      BY <1>1, <1>2, <1>11
    <3>2. IssuedFirst
      BY DEF AssetRules
    <3> HIDE DEF t, size
    <3> QED BY <3>1, <3>2 DEF IssuedFirst, h
  <2> HIDE DEF before
  <2> QED BY <2>1, <2>2
<1>12. ASSUME NEW k \in 1 .. size, Outs[t][k].asset # a PROVE s[k] = 0
  BY <1>12 DEF Adds
<1>13. ASSUME NEW k \in 1 .. size, Outs[t][k].asset = a
       PROVE  s[k] = IF Outs[t][k].kind # "transfer" THEN Outs[t][k].amount ELSE 0
  BY <1>13 DEF Adds
<1> DEFINE T == {k \in Nat : k <= size =>
                    /\ a \in DOMAIN g[k] <=> before \/ named(k)
                    /\ a \in DOMAIN g[k] =>
                          g[k][a].created # None /\ g[k][a].amount = x + f[k]
                    /\ a \notin DOMAIN g[k] => x + f[k] = 0}
<1>14. 0 \in T
  <2>1. ~ named(0)
    OBVIOUS
  <2> HIDE DEF before, x, named
  <2> QED BY <1>3, <1>4, <1>8, <1>9, <2>1
<1>15. ASSUME NEW j \in T PROVE j + 1 \in T
  <2> DEFINE k == j + 1
             out == Outs[t][k]
  <2>1. j \in Nat
    OBVIOUS
  <2> SUFFICES ASSUME k <= size
               PROVE  /\ a \in DOMAIN g[k] <=> before \/ named(k)
                      /\ a \in DOMAIN g[k] =>
                            g[k][a].created # None /\ g[k][a].amount = x + f[k]
                      /\ a \notin DOMAIN g[k] => x + f[k] = 0
    BY <2>1
  <2>2. k \in 1 .. size /\ k - 1 = j /\ j \in 0 .. size
    BY <1>2, <2>1
  <2>3. /\ a \in DOMAIN g[j] <=> before \/ named(j)
        /\ a \in DOMAIN g[j] => g[j][a].created # None /\ g[j][a].amount = x + f[j]
        /\ a \notin DOMAIN g[j] => x + f[j] = 0
    BY <1>2, <2>2
  <2>4. g[k] = IF out.asset = NoAsset THEN g[j] ELSE NoteAsset(g[j], out, h)
    BY <1>3, <2>2
  <2>5. f[k] = f[j] + s[k] /\ f[j] \in Int /\ s[k] \in Int /\ x \in Int
    BY <1>5, <1>7, <1>8, <1>9, <2>2
  <2>6. named(k) <=> named(j) \/ out.asset = a
    <3>1. 1 .. k = (1 .. j) \cup {k}
      BY <2>1
    <3> QED BY <3>1
  <2>9. out.asset # NoAsset =>
           /\ DOMAIN g[k] = DOMAIN g[j] \cup {out.asset}
           /\ a # out.asset /\ a \in DOMAIN g[j] => g[k][a] = g[j][a]
           /\ a = out.asset /\ a \notin DOMAIN g[j] /\ out.kind \in {"new", "owner"} =>
                 g[k][a].created # None /\ g[k][a].amount = out.amount
           /\ a = out.asset /\ a \in DOMAIN g[j] /\ g[j][a].created # None =>
                 /\ g[k][a].created # None
                 /\ g[k][a].amount = g[j][a].amount
                                        + (IF out.kind = "reissue" THEN out.amount ELSE 0)
    <3>1. h \in Nat /\ out.amount \in Int /\ a \in KeepsAmount
      BY <1>1, <1>2, <2>2 DEF AssetRules
    <3>2. out.asset # NoAsset => OneNotes(NoteAsset(g[j], out, h), g[j], out, a)
      <4> HIDE DEF out, h
      <4> QED BY <3>1, OneNoted
    <3>3. out.asset # NoAsset => OneNotes(g[k], g[j], out, a)
      <4> HIDE DEF out, h, k
      <4> QED BY <2>4, <3>2
    <3> HIDE DEF out, h, k
    <3> QED BY <3>3 DEF OneNotes
  <2>7. CASE out.asset # a
    <3>1. s[k] = 0
      BY <1>12, <2>2, <2>7
    <3>2. a \in DOMAIN g[k] <=> a \in DOMAIN g[j]
      BY <2>4, <2>7, <2>9
    <3>3. a \in DOMAIN g[j] => g[k][a] = g[j][a]
      BY <2>4, <2>7, <2>9
    <3>4. f[k] = f[j]
      <4> HIDE DEF s, k
      <4> QED BY <2>5, <3>1
    <3> HIDE DEF x, s, before, named, out, k
    <3> QED BY <2>3, <2>6, <2>7, <3>2, <3>3, <3>4
  <2>8. CASE out.asset = a
    <3>1. /\ out.kind \in {"new", "owner", "reissue", "transfer"}
          /\ out.kind \in {"new", "owner"} <=> ~ (before \/ named(j))
          /\ a # NoAsset
      BY <1>11, <2>2, <2>8
    <3>2. s[k] = IF out.kind # "transfer" THEN out.amount ELSE 0
      BY <1>13, <2>2, <2>8
    <3>4. a \in DOMAIN g[k]
      BY <2>8, <2>9, <3>1
    <3>5. CASE a \notin DOMAIN g[j]
      <4>1. out.kind \in {"new", "owner"} /\ ~ before /\ ~ named(j)
        BY <2>3, <3>1, <3>5
      <4>2. g[k][a].created # None /\ g[k][a].amount = out.amount
        BY <2>8, <2>9, <3>1, <3>5, <4>1
      <4>3. x + f[j] = 0
        BY <2>3, <3>5
      <4>4. s[k] = out.amount
        BY <3>2, <4>1
      <4> HIDE DEF x, s, before, named, out, k
      <4> QED BY <2>5, <2>6, <2>8, <3>4, <4>2, <4>3, <4>4
    <3>6. CASE a \in DOMAIN g[j]
      <4>1. out.kind \in {"reissue", "transfer"}
        BY <2>3, <3>1, <3>6
      <4>2. /\ g[k][a].created # None
            /\ g[k][a].amount = g[j][a].amount + (IF out.kind = "reissue" THEN out.amount ELSE 0)
        BY <2>3, <2>8, <2>9, <3>1, <3>6
      <4>3. s[k] = IF out.kind = "reissue" THEN out.amount ELSE 0
        BY <3>2, <4>1
      <4> HIDE DEF x, s, before, named, out, k
      <4> QED BY <2>3, <2>5, <2>6, <2>8, <3>4, <3>6, <4>2, <4>3
    <3> QED BY <3>5, <3>6
  <2> QED BY <2>7, <2>8
<1> HIDE DEF T
<1>16. T = Nat
  <2>1. T \subseteq Nat
    BY DEF T
  <2> QED BY <1>14, <1>15, <2>1, AllNumbers
<1>17. size \in T
  BY <1>2, <1>16
<1>18. /\ a \in DOMAIN g[size] <=> before \/ named(size)
       /\ a \in DOMAIN g[size] => g[size][a].created # None /\ g[size][a].amount = x + f[size]
       /\ a \notin DOMAIN g[size] => x + f[size] = 0
  BY <1>2, <1>17 DEF T
<1> HIDE DEF x, s, before, named, size, h, t
<1> QED BY <1>6, <1>9, <1>10, <1>18

\* Nothing is issued before the first block.
LEMMA NothingIssued == AmountsTo(EmptyTable, EmptyTable, 0, 0)
<1> SUFFICES ASSUME NEW a \in KeepsAmount
             PROVE  /\ a \in DOMAIN EmptyTable <=> NamedBefore(EmptyTable, 0, 1, a)
                    /\ IssuedSoFar(EmptyTable, 0, 0, a) = 0
  BY DEF AmountsTo, EmptyTable
<1> DEFINE s == [k \in 1 .. 0 |-> IssuedIn(EmptyTable[k - 1], a)]
           u == [i \in 1 .. 0 |-> IssuedBy(Txs[EmptyTable[0]][i], a)]
<1>1. Len(s) = 0 /\ Len(u) = 0
  OBVIOUS
<1>2. IssuedSoFar(EmptyTable, 0, 0, a) = Total(s) + Total(u)
  BY DEF IssuedSoFar
<1> HIDE DEF s, u
<1>3. Total(s) = 0 /\ Total(u) = 0
  BY <1>1, TotalOfNone
<1>4. ~ NamedBefore(EmptyTable, 0, 1, a) /\ a \notin DOMAIN EmptyTable
  BY DEF NamedBefore, EmptyTable
<1> QED BY <1>2, <1>3, <1>4

\* What is issued below a height depends on the rows below it only.
LEMMA SameIssued ==
    ASSUME NEW assets, NEW f, NEW g, NEW h \in Nat, \A k \in 0 .. h - 1 : g[k] = f[k],
           AmountsTo(assets, f, h, 0)
    PROVE  AmountsTo(assets, g, h, 0)
<1> SUFFICES ASSUME NEW a \in KeepsAmount
             PROVE  /\ NamedBefore(g, h, 1, a) <=> NamedBefore(f, h, 1, a)
                    /\ IssuedSoFar(g, h, 0, a) = IssuedSoFar(f, h, 0, a)
  BY DEF AmountsTo
<1>1. NamedBefore(g, h, 1, a) <=> NamedBefore(f, h, 1, a)
  BY DEF NamedBefore
<1>2. \A k \in 1 .. h : g[k - 1] = f[k - 1]
  <2>1. \A k \in 1 .. h : k - 1 \in 0 .. h - 1
    OBVIOUS
  <2> QED BY <2>1
<1>3. [k \in 1 .. h |-> IssuedIn(g[k - 1], a)] = [k \in 1 .. h |-> IssuedIn(f[k - 1], a)]
  BY <1>2
<1>4. [i \in 1 .. 0 |-> IssuedBy(Txs[g[h]][i], a)] = [i \in 1 .. 0 |-> IssuedBy(Txs[f[h]][i], a)]
  <2>1. 1 .. 0 = {}
    OBVIOUS
  <2> QED BY <2>1
<1>5. IssuedSoFar(g, h, 0, a) = IssuedSoFar(f, h, 0, a)
  BY <1>3, <1>4 DEF IssuedSoFar
<1> QED BY <1>1, <1>5

\* What the first h blocks issue.
LEMMA IssuedBelow ==
    ASSUME ConsensusRules, AssetRules, NEW f, NEW h \in Nat, \A k \in 0 .. h - 1 : f[k] \in Block,
           NEW a
    PROVE  /\ Total([k \in 1 .. h |-> IssuedIn(f[k - 1], a)]) \in Int
           /\ IssuedSoFar(f, h, 0, a) = Total([k \in 1 .. h |-> IssuedIn(f[k - 1], a)])
<1> DEFINE s == [k \in 1 .. h |-> IssuedIn(f[k - 1], a)]
           u == [i \in 1 .. 0 |-> IssuedBy(Txs[f[h]][i], a)]
<1>1. \A k \in 1 .. h : IssuedIn(f[k - 1], a) \in Int
  <2>1. \A k \in 1 .. h : k - 1 \in 0 .. h - 1
    OBVIOUS
  <2>2. \A b \in Block : IssuedIn(b, a) \in Int
    BY IssuedTyped
  <2> QED BY <2>1, <2>2
<1>2. Len(s) = h /\ (\A k \in 1 .. h : s[k] \in Int) /\ Len(u) = 0
  BY <1>1
<1>3. IssuedSoFar(f, h, 0, a) = Total(s) + Total(u)
  BY DEF IssuedSoFar
<1> HIDE DEF s, u
<1>4. Total(s) \in Int /\ Total(u) = 0
  BY <1>2, TotalTyped, TotalOfNone
<1>5. IssuedSoFar(f, h, 0, a) = Total(s)
  BY <1>3, <1>4
<1> QED BY <1>4, <1>5 DEF s

\* When all transactions of a block are noted, the block is.
LEMMA BlockIssued ==
    ASSUME ConsensusRules, AssetRules, NEW f, NEW h \in Nat, \A k \in 0 .. h : f[k] \in Block,
           NEW assets, AmountsTo(assets, f, h, Len(Txs[f[h]]))
    PROVE  AmountsTo(assets, f, h + 1, 0)
<1> DEFINE m == Len(Txs[f[h]])
<1>1. h \in 0 .. h /\ f[h] \in Block /\ Txs[f[h]] \in Seq(Tx)
  BY DEF ConsensusRules
<1>2. m \in Nat /\ DOMAIN Txs[f[h]] = 1 .. m
  BY <1>1
<1> SUFFICES ASSUME NEW a \in KeepsAmount
             PROVE  /\ NamedBefore(f, h + 1, 1, a) <=> NamedBefore(f, h, m + 1, a)
                    /\ IssuedSoFar(f, h + 1, 0, a) = IssuedSoFar(f, h, m, a)
  BY DEF AmountsTo
<1>3. NamedBefore(f, h + 1, 1, a) <=> NamedBefore(f, h, m + 1, a)
  <2>1. 0 .. (h + 1) - 1 = (0 .. h - 1) \cup {h} /\ 1 .. 1 - 1 = {} /\ 1 .. (m + 1) - 1 = 1 .. m
    BY <1>2
  <2> HIDE DEF m
  <2> QED BY <1>2, <2>1 DEF NamedBefore
<1> DEFINE s == [k \in 1 .. h |-> IssuedIn(f[k - 1], a)]
           u == [k \in 1 .. h + 1 |-> IssuedIn(f[k - 1], a)]
<1>4. Len(s) = h /\ Len(u) = h + 1 /\ (\A k \in 1 .. h : u[k] = s[k]) /\ u[h + 1] = IssuedIn(f[h], a)
  <2>1. (h + 1) - 1 = h /\ h + 1 \in 1 .. h + 1
    OBVIOUS
  <2> QED BY <2>1
<1>5. IssuedSoFar(f, h + 1, 0, a) = Total(u)
  <2>1. h + 1 \in Nat /\ \A k \in 0 .. (h + 1) - 1 : f[k] \in Block
    OBVIOUS
  <2> QED BY <2>1, IssuedBelow
<1>6. IssuedSoFar(f, h, m, a) = Total(s) + IssuedIn(f[h], a)
  BY DEF IssuedSoFar, IssuedIn
<1> HIDE DEF s, u, m
<1>7. Total(u) = Total(s) + u[h + 1]
  BY <1>4, TotalOneMore
<1> QED BY <1>3, <1>4, <1>5, <1>6, <1>7

\* Only a transaction and a rewind change table assets.
LEMMA KeepAssets ==
    ASSUME NEW d, HasTables(d), NEW h, NEW b, NEW t
    PROVE  /\ RepairGenesis(d).assets = d.assets
           /\ PutBlock(d, h, b).assets = d.assets
           /\ IndexTx(d, t, h).assets = NoteAssets(d.assets, t, h)
<1>1. RepairGenesis(d).assets = d.assets
  BY DEF HasTables, Tables, RepairGenesis
<1>2. PutBlock(d, h, b).assets = d.assets
  BY DEF HasTables, Tables, PutBlock
<1>3. IndexTx(d, t, h).assets = NoteAssets(d.assets, t, h)
  BY DEF HasTables, Tables, IndexTx
<1> QED BY <1>1, <1>2, <1>3

LEMMA AmountsInit == Init => AmountsInv
<1> SUFFICES ASSUME Init PROVE Amounts
  BY ExactInit DEF AmountsInv
<1>1. db = EmptyDb /\ saved = EmptyDb /\ pc = "down"
  BY DEF Init
<1>2. EmptyDb.blocks = EmptyTable /\ EmptyDb.assets = EmptyTable /\ DOMAIN EmptyTable = {}
  BY DEF EmptyDb, EmptyTable
<1>3. IndexedHeight(EmptyTable) + 1 = 0
  BY <1>2 DEF IndexedHeight
<1>4. AmountsWhole(EmptyDb)
  BY <1>2, <1>3, NothingIssued DEF AmountsWhole
<1>5. NodesRows(db.blocks)
  BY <1>1, <1>2 DEF NodesRows
<1> QED BY <1>1, <1>4, <1>5 DEF Amounts

\* While the node's chain only grows, every step keeps the amounts.
LEMMA AmountsStep ==
    ASSUME ConsensusRules, AssetRules, ExactInv, OnlyGrows, Amounts, OnlyGrows', [Next]_vars
    PROVE  Amounts'
<1> USE DEF Amounts
<1>i. StoreInv /\ Gapless /\ Chained /\ Exact
  BY CalmKept DEF ExactInv, ChainInv, GaplessInv, OnlyGrows, Whole
<1>c. /\ ~ Fault("conndrop") /\ ~ Fault("abort") /\ ~ Fault("midreorg")
      /\ ~ Fault("reorg") /\ ~ Fault("retreat")
  BY <1>i, HasHappened DEF StoreInv, OnlyGrows, Whole, Calm, Disruptive
<1>t. /\ best \in Block /\ block \in Block /\ next \in Nat /\ n \in Nat
      /\ IsDb(db) /\ HasTables(db)
  BY <1>i DEF StoreInv, TypeOK, Exact, Holds
<1>k. PICK k \in Int : k >= -1 /\ RunTo(db.blocks, k)
  BY <1>i DEF Gapless, Run
<1>h. IndexedHeight(db.blocks) = k
  BY <1>k, HeightOfRun DEF RunTo
<1>u. ASSUME best' = best, NEW f, NodesRows(f) PROVE NodesRows(f)'
  BY <1>u DEF NodesRows, HasHeight, BlockAt
<1>1. CASE NodeNext
  <2>1. Mine /\ UNCHANGED <<db, saved, pc, next, block, n>>
    BY <1>1, <1>c DEF NodeNext, NodeGrows, NodeReorgs, NodeRetreats, tickVars
  <2>2. best' \in Block /\ OnChain(best, best')
    BY <1>t, <2>1, NodeType DEF Mine
  <2>3. NodesRows(db.blocks)'
    BY <1>t, <2>1, <2>2, GrowthKeeps DEF NodesRows, BlockAt
  <2> QED BY <2>1, <2>3 DEF AmountsWhole
<1>2. CASE Stop \/ UNCHANGED vars
  <2>1. UNCHANGED <<best, db, saved, pc, next, block, n>>
    BY <1>2 DEF Stop, vars, tickVars
  <2> QED BY <2>1 DEF NodesRows, HasHeight, BlockAt, AmountsWhole
<1>3. CASE Start \/ TickHead
  <2>1. /\ db' = RepairGenesis(db) /\ saved' = db' /\ best' = best
        /\ pc \in {"down", "idle"} /\ pc' # "tx"
    BY <1>3 DEF Start, TickHead
  <2>2. db'.blocks = db.blocks /\ db'.assets = db.assets
    BY <1>t, <2>1, RepairBlocks, KeepAssets
  <2> QED BY <2>1, <2>2 DEF NodesRows, HasHeight, BlockAt, AmountsWhole
<1>4. CASE Exit \/ Crash
  <2>1. db' = saved /\ saved' = saved /\ best' = best /\ pc' # "tx"
    BY <1>4 DEF Exit, Crash
  <2>2. NodesRows(saved.blocks)
    BY <1>i DEF Chained, Index!IsPrefix, NodesRows
  <2> QED BY <2>1, <2>2 DEF NodesRows, HasHeight, BlockAt, AmountsWhole
<1>5. CASE CheckAgrees \/ CheckFails
  <2>1. PlanBatch(k) /\ UNCHANGED <<best, db, saved>> /\ pc = "check"
    BY <1>5, <1>h DEF CheckAgrees, CheckFails, PlanBatch
  <2>2. pc' \in {"block", "idle"}
    BY <1>i, <1>k, <2>1, PlanTypes DEF StoreInv
  <2> QED BY <2>1, <2>2 DEF NodesRows, HasHeight, BlockAt, AmountsWhole
<1>6. ASSUME CheckRewinds PROVE FALSE
  <2>1. HasHeight(k) /\ db.blocks[k] # BlockAt(k)
    BY <1>6, <1>h DEF CheckRewinds
  <2>2. k \in DOMAIN db.blocks
    <3>1. k \in Nat
      BY <1>t, <2>1, NodeAnswers
    <3> QED BY <1>k, <3>1 DEF RunTo
  <2> QED BY <2>1, <2>2 DEF NodesRows
<1>7. CASE FetchBlock
  <2>1. /\ pc = "block" /\ pc' = "tx" /\ n' = 0 /\ UNCHANGED <<best, saved, next>>
        /\ db' = PutBlock(db, next, block') /\ HasHeight(next) /\ block' = BlockAt(next)
    BY <1>7 DEF FetchBlock
  <2>2. RunTo(db.blocks, next - 1)
    BY <1>i, <2>1 DEF Gapless
  <2>3. IndexedHeight(db.blocks) + 1 = next
    <3>1. next - 1 \in Int /\ next - 1 >= -1 /\ DOMAIN db.blocks = 0 .. next - 1
      BY <1>t, <2>2 DEF RunTo
    <3>2. IndexedHeight(db.blocks) = next - 1
      BY <3>1, HeightOfRun
    <3> QED BY <1>t, <3>2
  <2>4. db'.blocks = [j \in DOMAIN db.blocks \cup {next} |->
                        IF j = next THEN block' ELSE db.blocks[j]]
        /\ db'.assets = db.assets
    BY <1>t, <2>1, PutBlockBlocks, KeepAssets
  <2>5. db'.blocks[next] = block' /\ \A j \in 0 .. next - 1 : db'.blocks[j] = db.blocks[j]
    BY <1>t, <2>2, <2>4 DEF RunTo
  <2>6. AmountsTo(db'.assets, db'.blocks, next, 0)
    <3>1. AmountsTo(db.assets, db.blocks, next, 0)
      BY <2>1, <2>3 DEF AmountsWhole
    <3> QED BY <1>t, <2>4, <2>5, <3>1, SameIssued
  <2>7. NodesRows(db.blocks)'
    BY <2>1, <2>4 DEF NodesRows, HasHeight, BlockAt
  <2>8. 0 <= Len(Txs[block'])
    <3>1. block' \in Block
      BY <1>t, <2>1, NodeAnswers
    <3>2. Txs[block'] \in Seq(Tx)
      BY <3>1 DEF ConsensusRules
    <3> QED BY <3>2
  <2>9. AmountsWhole(saved)'
    BY <2>1 DEF AmountsWhole
  <2> QED BY <2>1, <2>5, <2>6, <2>7, <2>8, <2>9 DEF NodesRows, HasHeight, BlockAt
<1>8. CASE FetchFails \/ BatchStops \/ Commit
  <2>1. /\ UNCHANGED <<best, db>> /\ saved' \in {saved, db}
        /\ pc \in {"block", "commit"} /\ pc' \in {"idle", "commit"}
    BY <1>8 DEF FetchFails, BatchStops, Commit
  <2> QED BY <2>1 DEF NodesRows, HasHeight, BlockAt, AmountsWhole
<1>9. CASE WriteTx
  <2> DEFINE t == Txs[block][n + 1]
  <2>1. /\ pc = "tx" /\ n < Len(Txs[block]) /\ n' = n + 1 /\ db' = IndexTx(db, t, next)
        /\ UNCHANGED <<best, saved, pc, next, block>>
    BY <1>9 DEF WriteTx
  <2>2. RunTo(db.blocks, next) /\ IsPath(db.blocks) /\ db.blocks[next] = block
    BY <1>i, <2>1 DEF Gapless, Chained
  <2>3. db.blocks = Path[block] /\ Height[block] = next
    BY <1>t, <2>2, TopOfPath DEF RunTo
  <2>4. AmountsTo(NoteAssets(db.assets, t, next), db.blocks, next, n + 1)
    <3>1. AmountsTo(db.assets, Path[block], Height[block], n)
      BY <2>1, <2>3
    <3>2. AmountsTo(NoteAssets(db.assets, t, Height[block]), Path[block], Height[block], n + 1)
      BY <1>t, <2>1, <3>1, NextNoted
    <3> QED BY <2>3, <3>2
  <2>5. db'.blocks = db.blocks /\ db'.assets = NoteAssets(db.assets, t, next)
    BY <1>t, <2>1, IndexTxBlocks, KeepAssets
  <2>6. n + 1 <= Len(Txs[block])
    <3>1. Txs[block] \in Seq(Tx)
      BY <1>t DEF ConsensusRules
    <3> QED BY <1>t, <2>1, <3>1
  <2> HIDE DEF t
  <2> QED BY <2>1, <2>2, <2>4, <2>5, <2>6 DEF NodesRows, HasHeight, BlockAt, AmountsWhole
<1>10. CASE BlockDone
  <2>1. /\ pc = "tx" /\ n = Len(Txs[block]) /\ UNCHANGED <<best, db, saved>>
        /\ pc' \in {"block", "commit"}
    BY <1>10 DEF BlockDone
  <2>2. RunTo(db.blocks, next) /\ db.blocks[next] = block
    BY <1>i, <2>1 DEF Gapless
  <2>3. AmountsTo(db.assets, db.blocks, next + 1, 0)
    <3>1. AmountsTo(db.assets, db.blocks, next, Len(Txs[db.blocks[next]]))
      BY <2>1, <2>2
    <3> QED BY <1>t, <2>2, <3>1, BlockIssued DEF RunTo
  <2>4. IndexedHeight(db.blocks) = next
    BY <1>t, <2>2, HeightOfRun DEF RunTo
  <2> QED BY <2>1, <2>3, <2>4 DEF NodesRows, HasHeight, BlockAt, AmountsWhole
<1>11. CASE TickAborts \/ ConnectionReplaced
  BY <1>11, <1>c DEF TickAborts, ConnectionReplaced
<1> QED
  BY <1>1, <1>2, <1>3, <1>4, <1>5, <1>6, <1>7, <1>8, <1>9, <1>10, <1>11 DEF Next, Tick

LEMMA AmountsInvariant ==
    ASSUME ConsensusRules, AssetRules, ShallowForks
    PROVE  Spec => []AmountsInv
<1>1. AmountsInv /\ [Next]_vars /\ ExactInv' => AmountsInv'
  <2> SUFFICES ASSUME AmountsInv, [Next]_vars, OnlyGrows' PROVE Amounts'
    BY DEF AmountsInv
  <2>1. OnlyGrows
    BY Remembers DEF OnlyGrows, Whole, Calm, AmountsInv, ExactInv, ChainInv, GaplessInv, StoreInv
  <2> QED BY <2>1, AmountsStep DEF AmountsInv
<1> QED BY <1>1, AmountsInit, ExactInvariant, PTL DEF Spec

\* A stored amount is what the stored blocks issued and reissued of the asset: as
\* long as the node's chain has only grown, and no fault has left half a block,
\* nothing is added twice or forgotten.
THEOREM Spec_AmountsExact ==
    ASSUME ConsensusRules, AssetRules, ShallowForks
    PROVE  Spec => []AmountsExact
<1>1. AmountsInv => AmountsExact
  <2> SUFFICES ASSUME AmountsInv, OnlyGrows,
                      NEW a \in DOMAIN saved.assets \cap KeepsAmount
               PROVE  saved.assets[a].amount = Issued(saved.blocks, a)
    BY DEF AmountsExact, AmountsMatch, OnlyGrows
  <2> DEFINE f == saved.blocks
             h == IndexedHeight(f) + 1
  <2>1. saved.assets[a].amount = IssuedSoFar(f, h, 0, a)
    BY DEF AmountsInv, Amounts, AmountsWhole, AmountsTo
  <2>2. PICK k \in Int : k >= -1 /\ RunTo(f, k)
    BY CalmKept DEF AmountsInv, ExactInv, ChainInv, GaplessInv, Gapless, Run, OnlyGrows, Whole
  <2>3. IndexedHeight(f) = k
    BY <2>2, HeightOfRun DEF RunTo
  <2>4. h \in Nat /\ \A j \in 0 .. h - 1 : f[j] \in Block
    BY <2>2, <2>3 DEF RunTo
  <2>5. IssuedSoFar(f, h, 0, a) = Issued(f, a)
    BY <2>4, IssuedBelow DEF Issued
  <2> QED BY <2>1, <2>5
<1> QED BY <1>1, AmountsInvariant, PTL
===============================================================================
