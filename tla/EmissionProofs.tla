--------------------------- MODULE EmissionProofs ---------------------------
(***************************************************************************)
(* The arithmetic of Emission for every initial subsidy, number of eras,   *)
(* halving interval and height.  Sums and halvings are recursive functions *)
(* of numbers: what they are is proved by the least counterexample.        *)
(***************************************************************************)
EXTENDS Emission, SequencesExt, WellFoundedInduction, TLAPS

-----------------------------------------------------------------------------
(* Induction, for the sets of numbers a statement holds of.                *)

LEMMA LeastNumber ==
    ASSUME NEW T, T \subseteq Nat, T # {}
    PROVE  \E m \in T : \A k \in T : m <= k
<1> DEFINE R == {p \in Nat \X Nat : p[1] < p[2]}
<1>1. R = OpToRel(<, Nat)
  BY DEF OpToRel
<1>2. IsWellFoundedOn(R, Nat)
  BY <1>1, NatLessThanWellFounded
<1> HIDE DEF R
<1>3. PICK m \in T : \A k \in T : ~ <<k, m>> \in R
  BY <1>2, WFMin
<1>4. ASSUME NEW k \in T PROVE m <= k
  <2>1. m \in Nat /\ k \in Nat /\ <<k, m>> \in Nat \X Nat
    OBVIOUS
  <2>2. ~ (k < m)
    BY <1>3, <2>1 DEF R
  <2> QED
    BY <2>1, <2>2
<1> QED
  BY <1>4

LEMMA AllNumbers ==
    ASSUME NEW T, T \subseteq Nat, 0 \in T, \A k \in T : k + 1 \in T
    PROVE  T = Nat
<1> SUFFICES ASSUME Nat \ T # {} PROVE FALSE
  OBVIOUS
<1>1. PICK m \in Nat \ T : \A k \in Nat \ T : m <= k
  <2> DEFINE U == Nat \ T
  <2>1. U \subseteq Nat /\ U # {}
    OBVIOUS
  <2> HIDE DEF U
  <2>2. \E m \in U : \A k \in U : m <= k
    BY <2>1, LeastNumber
  <2> QED
    BY <2>2 DEF U
<1>2. m # 0
  OBVIOUS
<1>3. m - 1 \in Nat /\ ~ (m <= m - 1)
  BY <1>2
<1>4. m - 1 \in T
  BY <1>1, <1>3
<1> QED
  BY <1>3, <1>4

\* What a step keeps within a set stays there.
LEMMA RecursionStays ==
    ASSUME NEW V, NEW N \in Nat, NEW f, f[0] \in V,
           \A n \in 1 .. N : f[n - 1] \in V => f[n] \in V
    PROVE  \A n \in 0 .. N : f[n] \in V
<1> DEFINE T == {k \in Nat : k <= N => f[k] \in V}
<1>1. 0 \in T
  OBVIOUS
<1>2. ASSUME NEW k \in T PROVE k + 1 \in T
  <2>1. CASE k + 1 <= N
    <3>1. k + 1 \in 1 .. N /\ (k + 1) - 1 = k /\ k <= N
      BY <2>1
    <3>2. f[k] \in V
      BY <3>1
    <3>3. f[k + 1] \in V
      BY <3>1, <3>2
    <3> QED
      BY <3>3
  <2> QED
    BY <2>1
<1>3. T = Nat
  <2>1. T \subseteq Nat
    OBVIOUS
  <2> HIDE DEF T
  <2> QED
    BY <1>1, <1>2, <2>1, AllNumbers
<1> QED
  BY <1>3

\* A function that is defined by its value one below.
Steps(V, N) == [1 .. N -> [V -> V]]
BySteps(f, a, N, G) == f = [n \in 0 .. N |-> IF n = 0 THEN a ELSE G[n][f[n - 1]]]

LEMMA RecursionExists ==
    ASSUME NEW V, NEW a \in V, NEW N \in Nat, NEW G \in Steps(V, N)
    PROVE  \E f \in [0 .. N -> V] : BySteps(f, a, N, G)
<1> USE DEF Steps, BySteps
<1> DEFINE IsRec(f, m) == /\ f \in [0 .. m -> V] /\ f[0] = a
                          /\ \A n \in 1 .. m : f[n] = G[n][f[n - 1]]
           T == {k \in Nat : k <= N => \E f : IsRec(f, k)}
<1>1. 0 \in T
  <2>1. IsRec([n \in 0 .. 0 |-> a], 0)
    OBVIOUS
  <2> QED
    BY <2>1
<1>2. ASSUME NEW k \in T PROVE k + 1 \in T
  <2> SUFFICES ASSUME k + 1 <= N PROVE \E f : IsRec(f, k + 1)
    OBVIOUS
  <2>1. PICK f : IsRec(f, k)
    BY DEF T
  <2> DEFINE g == [n \in 0 .. k + 1 |-> IF n = k + 1 THEN G[n][f[k]] ELSE f[n]]
  <2>2. f[k] \in V /\ k + 1 \in 1 .. N
    BY <2>1
  <2>3. G[k + 1][f[k]] \in V
    BY <2>2
  <2>4. \A n \in 0 .. k : g[n] = f[n] /\ g[n] \in V
    BY <2>1
  <2>5. g[k + 1] = G[k + 1][f[k]]
    OBVIOUS
  <2>6. g \in [0 .. k + 1 -> V]
    BY <2>1, <2>3
  <2> HIDE DEF g
  <2>7. ASSUME NEW n \in 1 .. k + 1 PROVE g[n] = G[n][g[n - 1]]
    <3>1. CASE n = k + 1
      <4>1. n - 1 = k /\ k \in 0 .. k
        BY <3>1
      <4> QED
        BY <2>4, <2>5, <3>1, <4>1
    <3>2. CASE n # k + 1
      <4>1. n \in 1 .. k /\ n \in 0 .. k /\ n - 1 \in 0 .. k
        BY <3>2
      <4> QED
        BY <2>1, <2>4, <4>1
    <3> QED
      BY <3>1, <3>2
  <2>8. g[0] = a
    BY <2>1, <2>4
  <2>9. IsRec(g, k + 1)
    BY <2>6, <2>7, <2>8
  <2> QED
    BY <2>9
<1>3. T = Nat
  <2>1. T \subseteq Nat
    OBVIOUS
  <2> HIDE DEF T
  <2> QED
    BY <1>1, <1>2, <2>1, AllNumbers
<1>4. PICK f : IsRec(f, N)
  BY <1>3
<1>5. f = [n \in 0 .. N |-> f[n]]
  BY <1>4
<1>6. \A n \in 0 .. N : f[n] = IF n = 0 THEN a ELSE G[n][f[n - 1]]
  <2> TAKE n \in 0 .. N
  <2>1. CASE n = 0
    BY <1>4, <2>1
  <2>2. CASE n # 0
    BY <1>4, <2>2
  <2> QED
    BY <2>1, <2>2
<1>7. f = [n \in 0 .. N |-> IF n = 0 THEN a ELSE G[n][f[n - 1]]]
  BY <1>5, <1>6
<1> QED
  BY <1>4, <1>7

LEMMA GreatestNumber ==
    ASSUME NEW n \in Nat, NEW T, T \subseteq 0 .. n, T # {}
    PROVE  \E m \in T : \A k \in T : k <= m
<1> DEFINE U == {d \in Nat : n - d \in T}
<1>1. U \subseteq Nat /\ U # {}
  <2>1. PICK k \in T : TRUE
    OBVIOUS
  <2>2. n - k \in Nat /\ n - (n - k) = k
    OBVIOUS
  <2> QED
    BY <2>1, <2>2
<1> HIDE DEF U
<1>2. PICK d \in U : \A c \in U : d <= c
  BY <1>1, LeastNumber
<1>3. d \in Nat /\ n - d \in T
  BY DEF U
<1>4. ASSUME NEW k \in T PROVE k <= n - d
  <2>1. n - k \in Nat /\ n - (n - k) = k
    OBVIOUS
  <2>2. n - k \in U
    BY <2>1 DEF U
  <2>3. d <= n - k
    BY <1>2, <2>2
  <2> QED
    BY <1>3, <2>1, <2>3
<1> QED
  BY <1>3, <1>4

-----------------------------------------------------------------------------
(* The sequences of a sequence, one after another.                        *)

\* The k-th element of flat is the b[k]-th of the a[k]-th of the first n
\* sequences, and the elements are taken in that order.
InOrder(a, b, len) ==
    \A j, k \in 1 .. len : j < k => a[j] < a[k] \/ (a[j] = a[k] /\ b[j] < b[k])
FlatPlaces(ss, n, flat, a, b) ==
    /\ \A k \in 1 .. Len(flat) :
          /\ a[k] \in 1 .. n /\ b[k] \in 1 .. Len(ss[a[k]]) /\ flat[k] = ss[a[k]][b[k]]
    /\ \A m \in 1 .. n : \A f \in 1 .. Len(ss[m]) :
          \E k \in 1 .. Len(flat) : a[k] = m /\ b[k] = f
    /\ InOrder(a, b, Len(flat))

IsFlatten(f, ss, n) ==
    f = [i \in 1 .. n |-> IF i = 1 THEN ss[i] ELSE f[i - 1] \o ss[i]]

LEMMA FlattenExists ==
    ASSUME NEW ss, NEW n \in Nat
    PROVE  \E f : IsFlatten(f, ss, n)
<1> DEFINE T == {m \in Nat : \E f : IsFlatten(f, ss, m)}
<1>1. 0 \in T
  <2>1. IsFlatten([i \in 1 .. 0 |-> 0], ss, 0)
    BY DEF IsFlatten
  <2> QED
    BY <2>1
<1>2. ASSUME NEW m \in T PROVE m + 1 \in T
  <2>1. PICK f : IsFlatten(f, ss, m)
    OBVIOUS
  <2>2. m \in Nat
    OBVIOUS
  <2> DEFINE g == [i \in 1 .. m + 1 |-> IF i = 1 THEN ss[i]
                                       ELSE IF i = m + 1 THEN f[m] \o ss[i] ELSE f[i]]
  <2>3. ASSUME NEW i \in 1 .. m + 1, i # 1 PROVE g[i] = g[i - 1] \o ss[i]
    <3>1. i - 1 \in 1 .. m
      BY <2>2, <2>3
    <3>2. g[i - 1] = f[i - 1]
      BY <2>1, <2>2, <3>1 DEF IsFlatten
    <3>3. CASE i = m + 1
      <4>1. i - 1 = m
        BY <2>2, <3>3
      <4>2. g[i] = f[m] \o ss[i]
        BY <2>3, <3>3, Zenon
      <4> HIDE DEF g
      <4> QED
        BY <3>2, <4>1, <4>2
    <3>4. CASE i # m + 1
      <4>1. i \in 1 .. m
        BY <2>2, <3>4
      <4>2. f[i] = f[i - 1] \o ss[i]
        BY <2>1, <2>3, <4>1 DEF IsFlatten
      <4>3. g[i] = f[i]
        BY <2>3, <3>4
      <4> QED
        BY <3>2, <4>2, <4>3
    <3> QED
      BY <3>3, <3>4
  <2>4. \A i \in 1 .. m + 1 : i = 1 => g[i] = ss[i]
    OBVIOUS
  <2>5. g = [i \in 1 .. m + 1 |-> g[i]]
    OBVIOUS
  <2> HIDE DEF g
  <2>6. IsFlatten(g, ss, m + 1)
    BY <2>3, <2>4, <2>5 DEF IsFlatten
  <2> QED
    BY <2>2, <2>6
<1> HIDE DEF T
<1>3. T = Nat
  <2>1. T \subseteq Nat
    BY DEF T
  <2> QED
    BY <1>1, <1>2, <2>1, AllNumbers
<1> QED
  BY <1>3 DEF T

\* FlattenSeq takes the elements of the sequences one after another.
LEMMA FlattenPlaces ==
    ASSUME NEW S, NEW ss \in Seq(Seq(S))
    PROVE  /\ FlattenSeq(ss) \in Seq(S)
           /\ \E a, b : FlatPlaces(ss, Len(ss), FlattenSeq(ss), a, b)
<1> DEFINE N == Len(ss)
<1>1. N \in Nat /\ \A m \in 1 .. N : ss[m] \in Seq(S)
  OBVIOUS
<1>2. CASE N = 0
  <2>1. ss = <<>> /\ FlattenSeq(ss) = <<>>
    BY <1>2 DEF FlattenSeq
  <2>2. FlatPlaces(ss, Len(ss), <<>>, <<>>, <<>>)
    BY <2>1 DEF FlatPlaces, InOrder
  <2>3. FlatPlaces(ss, Len(ss), FlattenSeq(ss), <<>>, <<>>)
    BY <2>1, <2>2
  <2>4. FlattenSeq(ss) \in Seq(S)
    <3>1. <<>> \in Seq(S)
      OBVIOUS
    <3> QED
      BY <2>1, <3>1, Zenon
  <2>5. \E a, b : FlatPlaces(ss, Len(ss), FlattenSeq(ss), a, b)
    BY <2>3
  <2> QED
    BY <2>4, <2>5
<1>3. CASE N # 0
  <2> DEFINE f == CHOOSE g : IsFlatten(g, ss, N)
  <2>1. IsFlatten(f, ss, N)
    <3>1. \E g : IsFlatten(g, ss, N)
      BY <1>1, FlattenExists
    <3> QED
      BY <3>1
  <2>2. FlattenSeq(ss) = f[N]
    BY <1>3, Zenon DEF FlattenSeq, IsFlatten
  <2> HIDE DEF f, N
  <2>3. /\ 1 \in 1 .. N => f[1] = ss[1]
        /\ \A i \in 1 .. N : i # 1 => f[i] = f[i - 1] \o ss[i]
    BY <1>1, <2>1 DEF IsFlatten
  <2> DEFINE Good(m) == f[m] \in Seq(S) /\ \E a, b : FlatPlaces(ss, m, f[m], a, b)
             T == {k \in Nat : k + 1 \in 1 .. N => Good(k + 1)}
  <2>4. Good(1)
    <3> DEFINE a1 == [k \in 1 .. Len(ss[1]) |-> 1]
               b1 == [k \in 1 .. Len(ss[1]) |-> k]
    <3>1. 1 \in 1 .. N
      BY <1>1, <1>3
    <3>2. f[1] = ss[1] /\ ss[1] \in Seq(S) /\ Len(ss[1]) \in Nat
      BY <1>1, <2>3, <3>1
    <3>3. FlatPlaces(ss, 1, f[1], a1, b1)
      BY <3>2 DEF FlatPlaces, InOrder
    <3> QED
      BY <3>2, <3>3
  <2>5. ASSUME NEW m \in Nat, m >= 1, m + 1 \in 1 .. N, Good(m) PROVE Good(m + 1)
    <3>1. PICK a, b : FlatPlaces(ss, m, f[m], a, b)
      BY <2>5
    <3> DEFINE u == f[m]
               v == ss[m + 1]
               q == Len(u)
    <3>2. f[m + 1] = u \o v
      <4>1. m + 1 # 1 /\ (m + 1) - 1 = m
        BY <2>5
      <4> QED
        BY <2>3, <2>5, <4>1
    <3>3. u \in Seq(S) /\ v \in Seq(S)
      BY <1>1, <2>5
    <3> HIDE DEF u, v
    <3> DEFINE w == u \o v
    <3>4. /\ w \in Seq(S) /\ q \in Nat /\ Len(v) \in Nat /\ Len(w) = q + Len(v)
          /\ \A k \in 1 .. q : w[k] = u[k]
          /\ \A k \in 1 .. Len(v) : w[q + k] = v[k]
          /\ \A k \in 1 .. Len(w) : k > q => w[k] = v[k - q]
      BY <3>3
    <3> HIDE DEF w, q
    <3> DEFINE a2 == [k \in 1 .. Len(w) |-> IF k <= q THEN a[k] ELSE m + 1]
               b2 == [k \in 1 .. Len(w) |-> IF k <= q THEN b[k] ELSE k - q]
    <3>5. FlatPlaces(ss, m, u, a, b) /\ Len(u) = q /\ ss[m + 1] = v
      BY <3>1 DEF u, v, q
    <3>6. FlatPlaces(ss, m + 1, w, a2, b2)
      <4>1. ASSUME NEW k \in 1 .. Len(w)
            PROVE  /\ a2[k] \in 1 .. m + 1 /\ b2[k] \in 1 .. Len(ss[a2[k]])
                   /\ w[k] = ss[a2[k]][b2[k]]
        <5>1. CASE k <= q
          <6>1. a2[k] = a[k] /\ b2[k] = b[k] /\ k \in 1 .. q
            BY <3>4, <5>1
          <6>2. a[k] \in 1 .. m /\ b[k] \in 1 .. Len(ss[a[k]]) /\ u[k] = ss[a[k]][b[k]]
            BY <3>5, <6>1 DEF FlatPlaces
          <6>3. a[k] \in 1 .. m + 1 /\ w[k] = u[k]
            <7>1. w[k] = u[k]
              BY <3>4, <6>1
            <7>2. \A x \in 1 .. m : x \in 1 .. m + 1
              OBVIOUS
            <7>3. a[k] \in 1 .. m + 1
              BY <6>2, <7>2, Zenon
            <7> QED
              BY <7>1, <7>3
          <6>4. b2[k] \in 1 .. Len(ss[a2[k]]) /\ w[k] = ss[a2[k]][b2[k]] /\ a2[k] \in 1 .. m + 1
            <7> DEFINE i == a2[k]
                       j == b2[k]
            <7>1. i = a[k] /\ j = b[k]
              BY <6>1
            <7> HIDE DEF i, j
            <7>2. j \in 1 .. Len(ss[i]) /\ w[k] = ss[i][j] /\ i \in 1 .. m + 1
              BY <6>2, <6>3, <7>1
            <7> QED
              BY <7>2 DEF i, j
          <6> QED
            BY <6>4
        <5>2. CASE ~(k <= q)
          <6>1. a2[k] = m + 1 /\ b2[k] = k - q /\ k - q \in 1 .. Len(v) /\ w[k] = v[k - q]
            BY <3>4, <5>2
          <6> QED
            BY <3>5, <6>1
        <5> QED
          BY <5>1, <5>2
      <4>2. ASSUME NEW x \in 1 .. m + 1, NEW y \in 1 .. Len(ss[x])
            PROVE  \E k \in 1 .. Len(w) : a2[k] = x /\ b2[k] = y
        <5>1. CASE x = m + 1
          <6>1. q + y \in 1 .. Len(w) /\ ~(q + y <= q) /\ (q + y) - q = y
            BY <3>4, <3>5, <5>1
          <6> HIDE DEF w
          <6>2. a2[q + y] = x /\ b2[q + y] = y
            BY <5>1, <6>1
          <6> QED
            BY <6>1, <6>2
        <5>2. CASE x # m + 1
          <6>1. x \in 1 .. m
            BY <5>2
          <6>2. PICK k \in 1 .. q : a[k] = x /\ b[k] = y
            BY <3>5, <6>1 DEF FlatPlaces
          <6>3. k \in 1 .. Len(w) /\ a2[k] = a[k] /\ b2[k] = b[k]
            BY <3>4
          <6> QED
            BY <6>2, <6>3
        <5> QED
          BY <5>1, <5>2
      <4>3. InOrder(a2, b2, Len(w))
        <5> SUFFICES ASSUME NEW j \in 1 .. Len(w), NEW k \in 1 .. Len(w), j < k
                     PROVE  a2[j] < a2[k] \/ (a2[j] = a2[k] /\ b2[j] < b2[k])
          BY DEF InOrder
        <5>1. CASE k <= q
          <6>1. j \in 1 .. q /\ k \in 1 .. q
            BY <3>4, <5>1
          <6>2. a2[j] = a[j] /\ a2[k] = a[k] /\ b2[j] = b[j] /\ b2[k] = b[k]
            BY <6>1
          <6> QED
            BY <3>5, <6>1, <6>2 DEF FlatPlaces, InOrder
        <5>2. CASE ~(k <= q) /\ j <= q
          <6>1. j \in 1 .. q /\ a2[j] = a[j] /\ a2[k] = m + 1
            BY <3>4, <5>2
          <6>2. a[j] \in 1 .. m
            BY <3>5, <6>1 DEF FlatPlaces
          <6> QED
            BY <6>1, <6>2
        <5>3. CASE ~(k <= q) /\ ~(j <= q)
          <6>1. a2[j] = m + 1 /\ a2[k] = m + 1 /\ b2[j] = j - q /\ b2[k] = k - q
            BY <5>3
          <6> QED
            BY <3>4, <6>1
        <5> QED
          BY <3>4, <5>1, <5>2, <5>3
      <4> HIDE DEF a2, b2
      <4> QED
        BY <4>1, <4>2, <4>3 DEF FlatPlaces
    <3>7. f[m + 1] = w
      BY <3>2 DEF w
    <3> HIDE DEF a2, b2
    <3> QED
      BY <3>4, <3>6, <3>7
  <2>6. 0 \in T
    BY <2>4
  <2>7. ASSUME NEW k \in T PROVE k + 1 \in T
    <3> DEFINE m == k + 1
    <3>1. m \in Nat /\ m >= 1
      OBVIOUS
    <3>2. m + 1 \in 1 .. N => m \in 1 .. N
      BY <1>1, <3>1
    <3>3. m \in 1 .. N => Good(m)
      BY DEF T
    <3> HIDE DEF m, Good, T
    <3>4. m + 1 \in 1 .. N => Good(m + 1)
      BY <2>5, <3>1, <3>2, <3>3
    <3>5. m \in T
      BY <3>1, <3>4 DEF T
    <3> QED
      BY <3>5 DEF m
  <2> HIDE DEF Good
  <2>8. T = Nat
    <3>1. T \subseteq Nat
      OBVIOUS
    <3> HIDE DEF T
    <3> QED
      BY <2>6, <2>7, <3>1, AllNumbers
  <2>9. Good(N)
    <3>1. N - 1 \in Nat /\ (N - 1) + 1 = N /\ N \in 1 .. N
      BY <1>1, <1>3
    <3> HIDE DEF T
    <3>2. N - 1 \in T
      BY <2>8, <3>1
    <3> QED
      BY <3>1, <3>2 DEF T
  <2> QED
    BY <2>2, <2>9 DEF Good, N
<1> QED
  BY <1>2, <1>3

\* It is built up one sequence after another.
LEMMA FlattenSteps ==
    ASSUME NEW S, NEW ss \in Seq(Seq(S)), Len(ss) # 0
    PROVE  \E f : /\ FlattenSeq(ss) = f[Len(ss)] /\ f[1] = ss[1]
                  /\ \A i \in 1 .. Len(ss) : i # 1 => f[i] = f[i - 1] \o ss[i]
                  /\ \A i \in 1 .. Len(ss) : f[i] \in Seq(S)
<1> DEFINE N == Len(ss)
           f == CHOOSE g : IsFlatten(g, ss, N)
<1>1. N \in Nat /\ 1 \in 1 .. N /\ \A m \in 1 .. N : ss[m] \in Seq(S)
  OBVIOUS
<1>2. IsFlatten(f, ss, N)
  <2>1. \E g : IsFlatten(g, ss, N)
    BY <1>1, FlattenExists
  <2> QED
    BY <2>1
<1>3. FlattenSeq(ss) = f[N]
  BY Zenon DEF FlattenSeq, IsFlatten
<1> HIDE DEF f, N
<1>4. f[1] = ss[1] /\ \A i \in 1 .. N : i # 1 => f[i] = f[i - 1] \o ss[i]
  BY <1>1, <1>2 DEF IsFlatten
<1> DEFINE T == {k \in Nat : k + 1 \in 1 .. N => f[k + 1] \in Seq(S)}
<1>5. 0 \in T
  BY <1>1, <1>4
<1>6. ASSUME NEW m \in T PROVE m + 1 \in T
  <2> SUFFICES ASSUME (m + 1) + 1 \in 1 .. N PROVE f[(m + 1) + 1] \in Seq(S)
    OBVIOUS
  <2>1. m \in Nat /\ m + 1 \in 1 .. N /\ ((m + 1) + 1) - 1 = m + 1 /\ (m + 1) + 1 # 1
    BY <1>1
  <2>2. f[m + 1] \in Seq(S)
    BY <2>1
  <2>3. f[(m + 1) + 1] = f[m + 1] \o ss[(m + 1) + 1] /\ ss[(m + 1) + 1] \in Seq(S)
    BY <1>1, <1>4, <2>1
  <2> QED
    BY <2>2, <2>3
<1>7. T = Nat
  <2>1. T \subseteq Nat
    OBVIOUS
  <2> HIDE DEF T
  <2> QED
    BY <1>5, <1>6, <2>1, AllNumbers
<1>8. ASSUME NEW i \in 1 .. N PROVE f[i] \in Seq(S)
  <2> DEFINE k == i - 1
  <2>1. k \in Nat /\ k + 1 = i
    BY <1>1
  <2>2. k \in T
    BY <1>7, <2>1
  <2> QED
    BY <2>1, <2>2
<1> QED
  BY <1>3, <1>4, <1>8 DEF N

\* More sequences after those add elements after theirs.
Begins(u, v) == Len(u) <= Len(v) /\ \A k \in 1 .. Len(u) : u[k] = v[k]

LEMMA FlattenBegins ==
    ASSUME NEW S, NEW ss \in Seq(Seq(S)), NEW tt \in Seq(Seq(S)), Begins(ss, tt)
    PROVE  Begins(FlattenSeq(ss), FlattenSeq(tt))
<1> DEFINE N == Len(ss)
           M == Len(tt)
<1>1. /\ N \in Nat /\ M \in Nat /\ N <= M /\ \A i \in 1 .. N : i \in 1 .. M /\ ss[i] = tt[i]
      /\ \A i \in 1 .. M : tt[i] \in Seq(S)
  BY DEF Begins
<1>2. CASE N = 0
  <2>1. FlattenSeq(ss) = <<>>
    BY <1>2 DEF FlattenSeq
  <2>2. Len(FlattenSeq(tt)) \in Nat
    <3>1. FlattenSeq(tt) \in Seq(S)
      BY FlattenPlaces
    <3> QED
      BY <3>1
  <2> QED
    BY <2>1, <2>2 DEF Begins
<1>3. CASE N # 0
  <2>1. PICK f : /\ FlattenSeq(ss) = f[N] /\ f[1] = ss[1]
                 /\ \A i \in 1 .. N : i # 1 => f[i] = f[i - 1] \o ss[i]
    <3>1. N # 0 => \E f : /\ FlattenSeq(ss) = f[N] /\ f[1] = ss[1]
                          /\ \A i \in 1 .. N : i # 1 => f[i] = f[i - 1] \o ss[i]
                          /\ \A i \in 1 .. N : f[i] \in Seq(S)
      BY FlattenSteps
    <3> HIDE DEF N
    <3> QED
      BY <1>3, <3>1, Zenon
  <2>2. PICK g : /\ FlattenSeq(tt) = g[M] /\ g[1] = tt[1]
                 /\ \A i \in 1 .. M : i # 1 => g[i] = g[i - 1] \o tt[i]
                 /\ \A i \in 1 .. M : g[i] \in Seq(S)
    <3>1. M # 0 => \E g : /\ FlattenSeq(tt) = g[M] /\ g[1] = tt[1]
                          /\ \A i \in 1 .. M : i # 1 => g[i] = g[i - 1] \o tt[i]
                          /\ \A i \in 1 .. M : g[i] \in Seq(S)
      BY FlattenSteps
    <3>2. M # 0
      BY <1>1, <1>3
    <3> HIDE DEF M
    <3> QED
      BY <3>1, <3>2, Zenon
  <2> DEFINE T == {k \in Nat : k + 1 \in 1 .. N => f[k + 1] = g[k + 1]}
             U == {k \in Nat : N + k \in 1 .. M => Begins(g[N], g[N + k])}
  <2> HIDE DEF N, M
  <2>3. 0 \in T
    BY <1>1, <1>3, <2>1, <2>2
  <2>4. ASSUME NEW m \in T PROVE m + 1 \in T
    <3> SUFFICES ASSUME (m + 1) + 1 \in 1 .. N PROVE f[(m + 1) + 1] = g[(m + 1) + 1]
      OBVIOUS
    <3>1. m \in Nat /\ m + 1 \in 1 .. N /\ ((m + 1) + 1) - 1 = m + 1 /\ (m + 1) + 1 # 1
      BY <1>1
    <3> QED
      BY <1>1, <2>1, <2>2, <3>1
  <2>5. T = Nat
    <3>1. T \subseteq Nat
      OBVIOUS
    <3> HIDE DEF T
    <3> QED
      BY <2>3, <2>4, <3>1, AllNumbers
  <2>6. f[N] = g[N]
    <3> DEFINE k == N - 1
    <3>1. k \in Nat /\ k + 1 = N /\ N \in 1 .. N
      BY <1>1, <1>3
    <3>2. k \in T
      BY <2>5, <3>1
    <3> QED
      BY <3>1, <3>2
  <2> HIDE DEF T
  <2>7. 0 \in U
    BY <1>1 DEF Begins
  <2>8. ASSUME NEW m \in U PROVE m + 1 \in U
    <3> DEFINE i == N + (m + 1)
    <3> SUFFICES ASSUME i \in 1 .. M PROVE Begins(g[N], g[i])
      OBVIOUS
    <3>1. m \in Nat /\ N + m \in 1 .. M /\ N \in 1 .. M /\ i # 1 /\ i - 1 = N + m
      BY <1>1, <1>3
    <3>2. Begins(g[N], g[i - 1])
      BY <3>1
    <3>3. g[i] = g[i - 1] \o tt[i] /\ g[i - 1] \in Seq(S) /\ tt[i] \in Seq(S) /\ g[N] \in Seq(S)
      BY <1>1, <2>2, <3>1
    <3> DEFINE u == g[N]
               v == g[i - 1]
               w == tt[i]
    <3> HIDE DEF u, v, w
    <3>4. Begins(u, v) /\ u \in Seq(S) /\ v \in Seq(S) /\ w \in Seq(S) => Begins(u, v \o w)
      BY DEF Begins
    <3>5. Begins(u, v) /\ u \in Seq(S) /\ v \in Seq(S) /\ w \in Seq(S) /\ g[i] = v \o w
      BY <3>2, <3>3 DEF u, v, w
    <3> QED
      BY <3>4, <3>5 DEF u
  <2>9. U = Nat
    <3>1. U \subseteq Nat
      OBVIOUS
    <3> HIDE DEF U
    <3> QED
      BY <2>7, <2>8, <3>1, AllNumbers
  <2>10. Begins(g[N], g[M])
    <3> DEFINE k == M - N
    <3>1. k \in Nat /\ N + k = M /\ M \in 1 .. M
      BY <1>1, <1>3
    <3>2. k \in U
      BY <2>9, <3>1
    <3> QED
      BY <3>1, <3>2
  <2> QED
    BY <2>1, <2>2, <2>6, <2>10
<1> QED
  BY <1>2, <1>3

-----------------------------------------------------------------------------
(* Sums.                                                                   *)

\* f holds the sums of the first 0, 1, ..., n amounts of s.
AreSums(f, s, n) == f = [k \in 0 .. n |-> IF k = 0 THEN 0 ELSE f[k - 1] + s[k]]

LEMMA SumsExist ==
    ASSUME NEW s, NEW n \in Nat
    PROVE  \E f : AreSums(f, s, n)
<1> DEFINE T == {m \in Nat : \E f : AreSums(f, s, m)}
<1>1. 0 \in T
  <2>1. AreSums([k \in 0 .. 0 |-> 0], s, 0)
    BY DEF AreSums
  <2> QED
    BY <2>1
<1>2. ASSUME NEW m \in T PROVE m + 1 \in T
  <2>1. PICK f : AreSums(f, s, m)
    OBVIOUS
  <2> DEFINE g == [k \in 0 .. m + 1 |-> IF k = m + 1 THEN f[m] + s[m + 1] ELSE f[k]]
  <2>2. m \in Nat
    OBVIOUS
  <2>3. ASSUME NEW k \in 0 .. m + 1 PROVE g[k] = IF k = 0 THEN 0 ELSE g[k - 1] + s[k]
    BY <2>1, <2>2 DEF AreSums
  <2>4. g = [k \in 0 .. m + 1 |-> g[k]]
    OBVIOUS
  <2> HIDE DEF g
  <2>5. AreSums(g, s, m + 1)
    BY <2>3, <2>4 DEF AreSums
  <2> QED
    BY <2>2, <2>5
<1> HIDE DEF T
<1>3. T = Nat
  <2>1. T \subseteq Nat
    BY DEF T
  <2> QED
    BY <1>1, <1>2, <2>1, AllNumbers
<1> QED
  BY <1>3 DEF T

LEMMA TotalIsSum ==
    ASSUME NEW s, Len(s) \in Nat
    PROVE  \E f : AreSums(f, s, Len(s)) /\ Total(s) = f[Len(s)]
<1> DEFINE f == CHOOSE g : AreSums(g, s, Len(s))
<1>1. AreSums(f, s, Len(s))
  BY SumsExist
<1>2. Total(s) = f[Len(s)]
  BY DEF Total, AreSums
<1> QED
  BY <1>1, <1>2

LEMMA SumSteps ==
    ASSUME NEW s, NEW n \in Nat, NEW f, AreSums(f, s, n)
    PROVE  f[0] = 0 /\ \A k \in 1 .. n : f[k] = f[k - 1] + s[k]
  BY DEF AreSums

LEMMA SumsTyped ==
    ASSUME NEW s, NEW n \in Nat, NEW f, AreSums(f, s, n), \A k \in 1 .. n : s[k] \in Int
    PROVE  \A k \in 0 .. n : f[k] \in Int
<1> DEFINE T == {m \in Nat : m <= n => f[m] \in Int}
<1>1. 0 \in T
  BY DEF AreSums
<1>2. ASSUME NEW m \in T PROVE m + 1 \in T
  BY DEF AreSums
<1> HIDE DEF T
<1>3. T = Nat
  <2>1. T \subseteq Nat
    BY DEF T
  <2> QED
    BY <1>1, <1>2, <2>1, AllNumbers
<1>4. ASSUME NEW k \in 0 .. n PROVE f[k] \in Int
  <2>1. k \in T
    BY <1>3
  <2> QED
    BY <2>1 DEF T
<1> QED
  BY <1>4

LEMMA TotalTyped ==
    ASSUME NEW s, Len(s) \in Nat, \A k \in 1 .. Len(s) : s[k] \in Int
    PROVE  Total(s) \in Int
<1>1. PICK f : AreSums(f, s, Len(s)) /\ Total(s) = f[Len(s)]
  BY TotalIsSum
<1>2. f[Len(s)] \in Int
  BY <1>1, SumsTyped
<1> QED
  BY <1>1, <1>2

\* A sum is known by its steps.
LEMMA SumBySteps ==
    ASSUME NEW s, Len(s) \in Nat, NEW g, g[0] = 0,
           \A k \in 1 .. Len(s) : g[k] = g[k - 1] + s[k]
    PROVE  Total(s) = g[Len(s)]
<1>1. PICK f : AreSums(f, s, Len(s)) /\ Total(s) = f[Len(s)]
  BY TotalIsSum
<1> DEFINE T == {m \in Nat : m <= Len(s) => f[m] = g[m]}
<1>2. 0 \in T
  BY <1>1 DEF AreSums
<1>3. ASSUME NEW m \in T PROVE m + 1 \in T
  <2>1. m \in Nat
    OBVIOUS
  <2>2. CASE m + 1 <= Len(s)
    <3>1. f[m + 1] = f[m] + s[m + 1]
      BY <1>1, <2>1, <2>2 DEF AreSums
    <3>2. f[m] = g[m] /\ g[m + 1] = g[m] + s[m + 1]
      BY <2>1, <2>2
    <3> QED
      BY <2>1, <3>1, <3>2
  <2> QED
    BY <2>1, <2>2
<1> HIDE DEF T
<1>4. T = Nat
  <2>1. T \subseteq Nat
    BY DEF T
  <2> QED
    BY <1>2, <1>3, <2>1, AllNumbers
<1>5. Len(s) \in T
  BY <1>4
<1> QED
  BY <1>1, <1>5 DEF T

\* Sums of amounts that differ in one place.
LEMMA SumChanged ==
    ASSUME NEW s, NEW t, Len(s) \in Nat, Len(t) = Len(s), NEW p \in 1 .. Len(s), NEW d \in Int,
           \A k \in 1 .. Len(s) : s[k] \in Int /\ t[k] = s[k] + IF k = p THEN d ELSE 0
    PROVE  Total(t) = Total(s) + d
<1>1. PICK f : AreSums(f, s, Len(s)) /\ Total(s) = f[Len(s)]
  BY TotalIsSum
<1>2. \A k \in 0 .. Len(s) : f[k] \in Int
  BY <1>1, SumsTyped
<1> DEFINE g == [k \in 0 .. Len(s) |-> f[k] + IF p <= k THEN d ELSE 0]
<1>3. g[0] = 0
  BY <1>1 DEF AreSums
<1>4. ASSUME NEW k \in 1 .. Len(s) PROVE g[k] = g[k - 1] + t[k]
  <2>1. f[k] = f[k - 1] + s[k] /\ k - 1 \in 0 .. Len(s) /\ k \in 0 .. Len(s)
    BY <1>1, SumSteps
  <2>2. g[k] = f[k] + (IF p <= k THEN d ELSE 0) /\ g[k - 1] = f[k - 1] + IF p <= k - 1 THEN d ELSE 0
    BY <2>1
  <2> HIDE DEF g
  <2>3. f[k - 1] \in Int /\ s[k] \in Int /\ t[k] = s[k] + IF k = p THEN d ELSE 0
    BY <1>2, <2>1
  <2>4. CASE k = p
    BY <2>1, <2>2, <2>3, <2>4
  <2>5. CASE k < p
    BY <2>1, <2>2, <2>3, <2>5
  <2>6. CASE k > p
    BY <2>1, <2>2, <2>3, <2>6
  <2> QED
    BY <2>4, <2>5, <2>6
<1>5. g[Len(s)] = f[Len(s)] + d
  OBVIOUS
<1> HIDE DEF g
<1>6. Total(t) = g[Len(t)]
  BY <1>3, <1>4, SumBySteps
<1> QED
  BY <1>1, <1>5, <1>6

\* The same amounts have the same sum.
LEMMA SumSame ==
    ASSUME NEW s, NEW t, Len(s) \in Nat, Len(t) = Len(s), \A k \in 1 .. Len(s) : t[k] = s[k]
    PROVE  Total(t) = Total(s)
<1>1. PICK f : AreSums(f, s, Len(s)) /\ Total(s) = f[Len(s)]
  BY TotalIsSum
<1>2. f[0] = 0 /\ \A k \in 1 .. Len(t) : f[k] = f[k - 1] + t[k]
  BY <1>1 DEF AreSums
<1> QED
  BY <1>1, <1>2, SumBySteps

\* One amount more.
LEMMA SumAppended ==
    ASSUME NEW s \in Seq(Int), NEW b \in Int
    PROVE  Total(s) \in Int /\ Total(Append(s, b)) = Total(s) + b
<1> DEFINE n == Len(s)
           t == Append(s, b)
<1>1. n \in Nat /\ Len(t) = n + 1 /\ t[n + 1] = b /\ \A k \in 1 .. n : t[k] = s[k] /\ s[k] \in Int
  OBVIOUS
<1>2. PICK f : AreSums(f, s, n) /\ Total(s) = f[n]
  BY <1>1, TotalIsSum
<1>3. f[n] \in Int /\ f[0] = 0 /\ \A k \in 1 .. n : f[k] = f[k - 1] + s[k]
  BY <1>1, <1>2, SumsTyped, SumSteps
<1> HIDE DEF n, t
<1> DEFINE g == [k \in 0 .. n + 1 |-> IF k = n + 1 THEN f[n] + b ELSE f[k]]
<1>4. g[0] = 0 /\ g[n + 1] = f[n] + b
  BY <1>1, <1>3
<1>5. ASSUME NEW k \in 1 .. n + 1 PROVE g[k] = g[k - 1] + t[k]
  <2>1. CASE k = n + 1
    <3>1. g[k] = f[n] + b /\ g[k - 1] = f[n] /\ t[k] = b
      BY <1>1, <2>1
    <3> QED
      BY <3>1
  <2>2. CASE k # n + 1
    <3>1. k \in 1 .. n /\ k \in 0 .. n + 1 /\ k - 1 \in 0 .. n + 1 /\ k - 1 # n + 1
      BY <1>1, <2>2
    <3>2. g[k] = f[k] /\ g[k - 1] = f[k - 1] /\ t[k] = s[k]
      BY <1>1, <2>2, <3>1
    <3> HIDE DEF g
    <3> QED
      BY <1>3, <3>1, <3>2
  <2> QED
    BY <2>1, <2>2
<1> HIDE DEF g
<1>6. Len(t) \in Nat /\ \A k \in 1 .. Len(t) : g[k] = g[k - 1] + t[k]
  BY <1>1, <1>5
<1>7. Total(t) = g[Len(t)]
  BY <1>4, <1>6, SumBySteps
<1> QED
  BY <1>1, <1>2, <1>3, <1>4, <1>7 DEF t

-----------------------------------------------------------------------------
(* Division.                                                               *)

LEMMA Product ==
    ASSUME NEW x \in Nat, NEW y \in Nat
    PROVE  x * y \in Nat
  OBVIOUS

LEMMA Quotient ==
    ASSUME NEW h \in Nat, NEW i \in Nat \ {0}
    PROVE  /\ h \div i \in Nat /\ h % i \in 0 .. i - 1
           /\ h = i * (h \div i) + (h % i)
  OBVIOUS

LEMMA MoreTimes ==
    ASSUME NEW x \in Nat, NEW y \in Nat, x < y, NEW i \in Nat
    PROVE  /\ i * x \in Nat /\ i * y \in Nat
           /\ i * x + i <= i * y
<1>1. y - x - 1 \in Nat
  OBVIOUS
<1>2. i * y = i * x + i + i * (y - x - 1)
  OBVIOUS
<1>3. i * (y - x - 1) \in Nat /\ i * x \in Nat /\ i * y \in Nat
  BY <1>1, Product
<1> QED
  BY <1>2, <1>3

LEMMA QuotientIs ==
    ASSUME NEW h \in Nat, NEW i \in Nat \ {0}, NEW q \in Nat, i * q <= h, h < i * q + i
    PROVE  h \div i = q
<1> DEFINE d == h \div i
           r == h % i
<1>1. d \in Nat /\ r \in 0 .. i - 1 /\ h = i * d + r
  BY Quotient
<1> HIDE DEF d, r
<1>2. i * d \in Nat /\ i * q \in Nat
  BY <1>1, Product
<1>3. ~ (q < d)
  BY <1>1, <1>2, MoreTimes
<1>4. ~ (d < q)
  BY <1>1, <1>2, MoreTimes
<1> QED
  BY <1>1, <1>3, <1>4 DEF d

\* The heights of an era are those of its quotient.
LEMMA EraEnds ==
    ASSUME NEW h \in Nat, NEW e \in Nat, NEW i \in Nat \ {0}
    PROVE  /\ h \div i \in Nat /\ EraEnd(e, i) \in Nat
           /\ h \div i <= e <=> h <= EraEnd(e, i)
<1> DEFINE d == h \div i
           r == h % i
<1>1. d \in Nat /\ r \in 0 .. i - 1 /\ h = i * d + r
  BY Quotient
<1> HIDE DEF r
<1> HIDE DEF d
<1>2. i * d \in Nat /\ i * e \in Nat /\ (e + 1) * i = i * e + i
  BY <1>1, Product
<1>3. d < e => i * d + i <= i * e
  BY <1>1, MoreTimes
<1>4. e < d => i * e + i <= i * d
  BY <1>1, MoreTimes
<1>5. d <= e <=> h <= EraEnd(e, i)
  BY <1>1, <1>2, <1>3, <1>4 DEF EraEnd
<1>6. EraEnd(e, i) \in Nat
  BY <1>2 DEF EraEnd
<1> QED
  BY <1>1, <1>5, <1>6 DEF d

LEMMA EraStarts ==
    ASSUME NEW h \in Nat \ {0}, NEW e \in Nat, NEW i \in Nat \ {0}
    PROVE  /\ EraStart(e, i) \in Nat \ {0}
           /\ e <= h \div i <=> EraStart(e, i) <= h
<1> DEFINE d == h \div i
           r == h % i
<1>1. d \in Nat /\ r \in 0 .. i - 1 /\ h = i * d + r
  BY Quotient
<1> HIDE DEF r
<1> HIDE DEF d
<1>2. i * d \in Nat /\ i * e \in Nat /\ e * i = i * e
  BY <1>1, Product
<1>3. d < e => i * d + i <= i * e
  BY <1>1, MoreTimes
<1>4. e < d => i * e + i <= i * d
  BY <1>1, MoreTimes
<1>5. e # 0 => e * i # 0
  <2>1. e # 0 => i * 0 + i <= i * e
    BY MoreTimes
  <2> QED
    BY <1>2, <2>1
<1>6. e <= d <=> EraStart(e, i) <= h
  BY <1>1, <1>2, <1>3, <1>4 DEF EraStart
<1>7. EraStart(e, i) \in Nat \ {0}
  BY <1>2, <1>5 DEF EraStart
<1> QED
  BY <1>6, <1>7 DEF d

-----------------------------------------------------------------------------
(* Halvings.                                                               *)

\* f holds the subsidies of the eras up to n.
AreHalvings(f, n) == f = [k \in 0 .. n |-> IF k = 0 THEN InitialSubsidy ELSE f[k - 1] \div 2]

LEMMA HalvingsExist ==
    ASSUME NEW n \in Nat
    PROVE  \E f : AreHalvings(f, n)
<1> DEFINE T == {m \in Nat : \E f : AreHalvings(f, m)}
<1>1. 0 \in T
  <2>1. AreHalvings([k \in 0 .. 0 |-> InitialSubsidy], 0)
    BY DEF AreHalvings
  <2> QED
    BY <2>1
<1>2. ASSUME NEW m \in T PROVE m + 1 \in T
  <2>1. PICK f : AreHalvings(f, m)
    OBVIOUS
  <2> DEFINE g == [k \in 0 .. m + 1 |-> IF k = m + 1 THEN f[m] \div 2 ELSE f[k]]
  <2>2. m \in Nat
    OBVIOUS
  <2>3. ASSUME NEW k \in 0 .. m + 1
        PROVE  g[k] = IF k = 0 THEN InitialSubsidy ELSE g[k - 1] \div 2
    <3>1. CASE k = m + 1
      <4>1. g[k] = f[m] \div 2 /\ k - 1 = m /\ k # 0 /\ g[m] = f[m]
        BY <2>2, <3>1
      <4> QED
        BY <4>1
    <3>2. CASE k # m + 1
      <4>1. k \in 0 .. m /\ (k # 0 => k - 1 \in 0 .. m)
        BY <2>2, <3>2
      <4>2. f[k] = IF k = 0 THEN InitialSubsidy ELSE f[k - 1] \div 2
        BY <2>1, <4>1 DEF AreHalvings
      <4>3. g[k] = f[k] /\ (k # 0 => g[k - 1] = f[k - 1])
        BY <2>2, <4>1
      <4> HIDE DEF g
      <4> QED
        BY <4>2, <4>3
    <3> QED
      BY <3>1, <3>2
  <2>4. g = [k \in 0 .. m + 1 |-> g[k]]
    OBVIOUS
  <2> HIDE DEF g
  <2>5. AreHalvings(g, m + 1)
    BY <2>3, <2>4 DEF AreHalvings
  <2> QED
    BY <2>2, <2>5
<1> HIDE DEF T
<1>3. T = Nat
  <2>1. T \subseteq Nat
    BY DEF T
  <2> QED
    BY <1>1, <1>2, <2>1, AllNumbers
<1> QED
  BY <1>3 DEF T

LEMMA HalvingsAgree ==
    ASSUME NEW n \in Nat, NEW m \in Nat, NEW f, NEW g, AreHalvings(f, n), AreHalvings(g, m),
           NEW e \in Nat, e <= n, e <= m
    PROVE  f[e] = g[e]
<1> DEFINE T == {k \in Nat : k <= n /\ k <= m => f[k] = g[k]}
<1>1. 0 \in T
  BY DEF AreHalvings
<1>2. ASSUME NEW k \in T PROVE k + 1 \in T
  <2>1. k \in Nat
    OBVIOUS
  <2>2. CASE k + 1 <= n /\ k + 1 <= m
    <3>1. f[k + 1] = f[k] \div 2 /\ g[k + 1] = g[k] \div 2
      BY <2>1, <2>2 DEF AreHalvings
    <3>2. f[k] = g[k]
      BY <2>1, <2>2
    <3> QED
      BY <2>1, <3>1, <3>2
  <2> QED
    BY <2>1, <2>2
<1> HIDE DEF T
<1>3. T = Nat
  <2>1. T \subseteq Nat
    BY DEF T
  <2> QED
    BY <1>1, <1>2, <2>1, AllNumbers
<1>4. e \in T
  BY <1>3
<1> QED
  BY <1>4 DEF T

\* The recursive definition defines: the subsidy of each era is half the last one.
LEMMA HalvedIs ==
    Halved = [k \in Nat |-> IF k = 0 THEN InitialSubsidy ELSE Halved[k - 1] \div 2]
<1> DEFINE UpTo(n) == CHOOSE f : AreHalvings(f, n)
           H == [k \in Nat |-> UpTo(k)[k]]
<1>1. ASSUME NEW n \in Nat PROVE AreHalvings(UpTo(n), n)
  BY HalvingsExist
<1> HIDE DEF UpTo
<1>2. ASSUME NEW k \in Nat PROVE H[k] = IF k = 0 THEN InitialSubsidy ELSE H[k - 1] \div 2
  <2>1. CASE k = 0
    BY <1>1, <2>1 DEF AreHalvings
  <2>2. CASE k # 0
    <3>1. k - 1 \in Nat /\ k - 1 <= k
      BY <2>2
    <3>2. UpTo(k)[k] = UpTo(k)[k - 1] \div 2
      <4>1. AreHalvings(UpTo(k), k)
        BY <1>1
      <4> QED
        BY <4>1, <2>2 DEF AreHalvings
    <3>3. UpTo(k)[k - 1] = UpTo(k - 1)[k - 1]
      BY <1>1, <3>1, HalvingsAgree
    <3> QED
      BY <2>2, <3>1, <3>2, <3>3
  <2> QED
    BY <2>1, <2>2
<1>3. H = [k \in Nat |-> H[k]]
  OBVIOUS
<1> HIDE DEF H
<1>4. H = [k \in Nat |-> IF k = 0 THEN InitialSubsidy ELSE H[k - 1] \div 2]
  BY <1>2, <1>3
<1> QED
  BY <1>4 DEF Halved

LEMMA HalvedSteps ==
    /\ Halved[0] = InitialSubsidy
    /\ \A k \in Nat : Halved[k + 1] = Halved[k] \div 2
<1>1. Halved[0] = InitialSubsidy
  BY HalvedIs
<1>2. ASSUME NEW k \in Nat PROVE Halved[k + 1] = Halved[k] \div 2
  <2>1. k + 1 \in Nat /\ k + 1 # 0 /\ k + 1 - 1 = k
    OBVIOUS
  <2> QED
    BY <2>1, HalvedIs
<1> QED
  BY <1>1, <1>2

LEMMA HalvedTyped == \A k \in Nat : Halved[k] \in Nat
<1> DEFINE T == {k \in Nat : Halved[k] \in Nat}
<1>1. 0 \in T
  BY HalvedSteps, EmissionAssumption
<1>2. ASSUME NEW k \in T PROVE k + 1 \in T
  <2>1. k \in Nat /\ Halved[k] \in Nat
    OBVIOUS
  <2>2. Halved[k] \div 2 \in Nat
    BY <2>1
  <2> QED
    BY <2>1, <2>2, HalvedSteps
<1> HIDE DEF T
<1>3. T = Nat
  <2>1. T \subseteq Nat
    BY DEF T
  <2> QED
    BY <1>1, <1>2, <2>1, AllNumbers
<1> QED
  BY <1>3 DEF T

\* Once the subsidy is nothing, it stays so.
LEMMA HalvedToNothing ==
    ASSUME NEW e \in Nat, Halved[e] = 0, NEW f \in Nat, e <= f
    PROVE  Halved[f] = 0
<1> DEFINE T == {d \in Nat : Halved[e + d] = 0}
<1>1. 0 \in T
  OBVIOUS
<1>2. ASSUME NEW d \in T PROVE d + 1 \in T
  <2>1. d \in Nat /\ Halved[e + d] = 0 /\ e + d \in Nat /\ e + (d + 1) = (e + d) + 1
    OBVIOUS
  <2>2. Halved[(e + d) + 1] = Halved[e + d] \div 2
    BY <2>1, HalvedSteps
  <2>3. 0 \div 2 = 0
    OBVIOUS
  <2> QED
    BY <2>1, <2>2, <2>3
<1> HIDE DEF T
<1>3. T = Nat
  <2>1. T \subseteq Nat
    BY DEF T
  <2> QED
    BY <1>1, <1>2, <2>1, AllNumbers
<1>4. f - e \in T /\ e + (f - e) = f
  BY <1>3
<1> QED
  BY <1>4 DEF T

-----------------------------------------------------------------------------
(* The coins in circulation.                                               *)

LEMMA SubsidyTyped ==
    ASSUME NEW h \in Nat, NEW i \in Nat \ {0}
    PROVE  SubsidyAt(h, i) \in Nat
<1>1. h \div i \in Nat
  BY Quotient
<1> QED
  BY <1>1, HalvedTyped DEF SubsidyAt

\* The first block of an era pays what each of its blocks pays.
LEMMA StartPays ==
    ASSUME NEW h \in Nat \ {0}, NEW i \in Nat \ {0}
    PROVE  SubsidyAt(EraStart(h \div i, i), i) = SubsidyAt(h, i)
<1> SUFFICES ASSUME NEW e \in Nat, e = h \div i
             PROVE  SubsidyAt(EraStart(e, i), i) = SubsidyAt(h, i)
  BY Quotient
<1> DEFINE s == EraStart(e, i)
<1>1. h <= EraEnd(e, i) /\ EraEnd(e, i) \in Nat
  BY EraEnds
<1>2. s \in Nat \ {0} /\ s <= h
  <2>1. e <= h \div i
    OBVIOUS
  <2> QED
    BY <2>1, EraStarts
<1> HIDE DEF s
<1>3. s \div i \in Nat /\ e <= s \div i
  <2>1. s \div i \in Nat
    BY <1>2, EraEnds
  <2>2. s <= s
    BY <1>2
  <2> QED
    BY <1>2, <2>1, <2>2, EraStarts DEF s
<1>4. s \div i <= e
  <2>1. s \in Nat /\ s <= EraEnd(e, i)
    BY <1>1, <1>2
  <2> QED
    BY <2>1, EraEnds
<1>5. s \div i = e
  BY <1>3, <1>4
<1>6. ~ (s < 1) /\ ~ (h < 1)
  BY <1>2
<1>7. SubsidyAt(s, i) = SubsidyAt(h, i)
  BY <1>5, <1>6 DEF SubsidyAt
<1> QED
  BY <1>7 DEF s

\* One block more adds its subsidy to what its era pays.
LEMMA EraGrows ==
    ASSUME NEW e \in Nat, NEW h \in Nat, NEW i \in Nat \ {0}
    PROVE  /\ EraPays(e, h, i) \in Int
           /\ EraPays(e, h + 1, i)
                = EraPays(e, h, i) + IF e = (h + 1) \div i THEN SubsidyAt(h + 1, i) ELSE 0
<1> DEFINE s == EraStart(e, i)
           z == EraEnd(e, i)
           c == SubsidyAt(s, i)
           end(x) == IF x < z THEN x ELSE z
<1>1. s \in Nat \ {0} /\ z \in Nat /\ c \in Nat
  <2>1. s \in Nat \ {0} /\ z \in Nat
    BY EraStarts, EraEnds
  <2> QED
    BY <2>1, SubsidyTyped
<1>2. e = (h + 1) \div i <=> s <= h + 1 /\ h + 1 <= z
  <2>1. (h + 1) \div i \in Nat /\ ((h + 1) \div i <= e <=> h + 1 <= z)
    BY EraEnds
  <2>2. h + 1 \in Nat \ {0}
    OBVIOUS
  <2>3. e <= (h + 1) \div i <=> s <= h + 1
    BY <2>2, EraStarts
  <2> HIDE DEF s, z
  <2>4. ASSUME NEW q \in Nat PROVE e = q <=> q <= e /\ e <= q
    OBVIOUS
  <2> QED
    BY <2>1, <2>3, <2>4
<1>3. e = (h + 1) \div i => c = SubsidyAt(h + 1, i)
  <2>1. h + 1 \in Nat \ {0}
    OBVIOUS
  <2> QED
    BY <2>1, StartPays
<1>4. ASSUME NEW x \in Nat
      PROVE  EraPays(e, x, i) = IF s > end(x) THEN 0 ELSE c * (end(x) - s + 1)
  BY DEF EraPays
<1> HIDE DEF s, z, c
<1>5. ASSUME NEW x \in Nat PROVE EraPays(e, x, i) \in Int
  BY <1>1, <1>4
<1>6. h + 1 \in Nat
  OBVIOUS
<1>7. CASE e = (h + 1) \div i
  <2>1. s <= h + 1 /\ h + 1 <= z /\ end(h) = h /\ end(h + 1) = h + 1
    BY <1>1, <1>2, <1>7
  <2>2. CASE s = h + 1
    <3>1. EraPays(e, h, i) = 0
      BY <1>1, <1>4, <2>1, <2>2
    <3>2. EraPays(e, h + 1, i) = c * (h + 1 - s + 1)
      BY <1>1, <1>4, <1>6, <2>1, <2>2
    <3>3. EraPays(e, h + 1, i) = c
      BY <1>1, <2>2, <3>2
    <3> QED
      BY <1>1, <1>3, <1>5, <1>7, <3>1, <3>3
  <2>3. CASE s # h + 1
    <3>1. EraPays(e, h, i) = c * (h - s + 1)
      BY <1>1, <1>4, <2>1, <2>3
    <3>2. EraPays(e, h + 1, i) = c * (h + 1 - s + 1)
      BY <1>1, <1>4, <1>6, <2>1, <2>3
    <3>3. c * (h + 1 - s + 1) = c * (h - s + 1) + c
      BY <1>1
    <3> QED
      BY <1>3, <1>5, <1>7, <3>1, <3>2, <3>3
  <2> QED
    BY <2>2, <2>3
<1>8. CASE e # (h + 1) \div i
  <2>1. CASE s > h + 1
    <3>1. s > end(h) /\ s > end(h + 1)
      BY <1>1, <2>1
    <3>2. EraPays(e, h, i) = 0 /\ EraPays(e, h + 1, i) = 0
      BY <1>4, <1>6, <3>1
    <3> QED
      BY <1>8, <3>2
  <2>2. CASE ~ (s > h + 1)
    <3>1. end(h) = z /\ end(h + 1) = z
      BY <1>1, <1>2, <1>8, <2>2
    <3>2. EraPays(e, h + 1, i) = EraPays(e, h, i)
      BY <1>4, <1>6, <3>1
    <3> QED
      BY <1>5, <1>8, <3>2
  <2> QED
    BY <2>1, <2>2
<1> QED
  BY <1>5, <1>7, <1>8

\* The closed form grows by the subsidy of the block.
LEMMA CirculatingGrows ==
    ASSUME NEW h \in Nat, NEW i \in Nat \ {0}
    PROVE  /\ Circulating(h, i) \in Int
           /\ Circulating(h + 1, i) = Circulating(h, i) + SubsidyAt(h + 1, i)
<1> DEFINE s == [n \in 1 .. Eras |-> EraPays(n - 1, h, i)]
           t == [n \in 1 .. Eras |-> EraPays(n - 1, h + 1, i)]
           e == (h + 1) \div i
           d == SubsidyAt(h + 1, i)
<1>1. Eras \in Nat /\ Len(s) = Eras /\ Len(t) = Eras
  BY EmissionAssumption
<1>2. Circulating(h, i) = Total(s) /\ Circulating(h + 1, i) = Total(t)
  BY DEF Circulating
<1>3. e \in Nat /\ d \in Nat
  BY Quotient, SubsidyTyped
<1>4. ASSUME NEW n \in 1 .. Eras
      PROVE  s[n] \in Int /\ t[n] = s[n] + IF n = e + 1 THEN d ELSE 0
  <2>1. n - 1 \in Nat
    BY EmissionAssumption
  <2>2. EraPays(n - 1, h, i) \in Int
    BY <2>1, EraGrows
  <2>3. EraPays(n - 1, h + 1, i) = EraPays(n - 1, h, i) + IF n - 1 = e THEN d ELSE 0
    BY <2>1, EraGrows
  <2>4. n - 1 = e <=> n = e + 1
    BY <1>3, <2>1
  <2> QED
    BY <2>2, <2>3, <2>4
<1>5. d = SubsidyAt(h + 1, i) /\ (e >= Eras => d = 0)
  BY DEF SubsidyAt
<1> HIDE DEF s, t, e, d
<1>6. Total(s) \in Int
  BY <1>1, <1>4, TotalTyped
<1>7. CASE e >= Eras
  <2>1. d = 0
    BY <1>5, <1>7
  <2>2. \A n \in 1 .. Len(s) : t[n] = s[n]
    BY <1>1, <1>3, <1>4, <1>7
  <2>3. Len(s) \in Nat /\ Len(t) = Len(s)
    BY <1>1
  <2>4. Total(t) = Total(s)
    BY <2>2, <2>3, SumSame
  <2> QED
    BY <1>2, <1>5, <1>6, <2>1, <2>4
<1>8. CASE e < Eras
  <2> DEFINE p == e + 1
  <2>1. p \in 1 .. Len(s) /\ d \in Int /\ Len(s) \in Nat /\ Len(t) = Len(s)
    BY <1>1, <1>3, <1>8
  <2>2. \A n \in 1 .. Len(s) : s[n] \in Int /\ t[n] = s[n] + IF n = p THEN d ELSE 0
    BY <1>1, <1>4
  <2> HIDE DEF p
  <2>3. Total(t) = Total(s) + d
    BY <2>1, <2>2, SumChanged
  <2> QED
    BY <1>2, <1>5, <1>6, <2>3
<1> QED
  BY <1>1, <1>3, <1>7, <1>8

LEMMA CirculatingBegins ==
    ASSUME NEW i \in Nat \ {0}
    PROVE  Circulating(0, i) = 0
<1> DEFINE s == [n \in 1 .. Eras |-> EraPays(n - 1, 0, i)]
           g == [k \in 0 .. Eras |-> 0]
<1>1. Eras \in Nat /\ Len(s) = Eras
  BY EmissionAssumption
<1>2. ASSUME NEW n \in 1 .. Eras PROVE s[n] = 0
  <2>1. n - 1 \in Nat
    BY EmissionAssumption
  <2>2. EraStart(n - 1, i) \in Nat \ {0} /\ EraEnd(n - 1, i) \in Nat
    BY <2>1, EraStarts, EraEnds
  <2> QED
    BY <2>2 DEF EraPays
<1>3. g[0] = 0 /\ g[Eras] = 0 /\ \A n \in 1 .. Eras : g[n] = g[n - 1] + s[n]
  BY <1>1, <1>2
<1>4. Circulating(0, i) = Total(s)
  BY DEF Circulating
<1> HIDE DEF s, g
<1>5. g[0] = 0 /\ Len(s) \in Nat /\ \A n \in 1 .. Len(s) : g[n] = g[n - 1] + s[n]
  BY <1>1, <1>3
<1>6. Total(s) = g[Len(s)]
  BY <1>5, SumBySteps
<1> QED
  BY <1>1, <1>3, <1>4, <1>6

LEMMA CirculatingTyped ==
    ASSUME NEW h \in Nat, NEW i \in Nat \ {0}
    PROVE  Circulating(h, i) \in Nat
<1> DEFINE T == {k \in Nat : Circulating(k, i) \in Nat}
<1>1. 0 \in T
  BY CirculatingBegins
<1>2. ASSUME NEW k \in T PROVE k + 1 \in T
  <2>1. k \in Nat /\ k + 1 \in Nat /\ Circulating(k, i) \in Nat
    OBVIOUS
  <2>2. Circulating(k + 1, i) = Circulating(k, i) + SubsidyAt(k + 1, i)
    BY <2>1, CirculatingGrows
  <2>3. SubsidyAt(k + 1, i) \in Nat
    BY <2>1, SubsidyTyped
  <2> QED
    BY <2>1, <2>2, <2>3
<1> HIDE DEF T
<1>3. T = Nat
  <2>1. T \subseteq Nat
    BY DEF T
  <2> QED
    BY <1>1, <1>2, <2>1, AllNumbers
<1>4. h \in T
  BY <1>3
<1> QED
  BY <1>4 DEF T

LEMMA CirculatingMonotone ==
    ASSUME NEW a \in Nat, NEW b \in Nat, a <= b, NEW i \in Nat \ {0}
    PROVE  Circulating(a, i) <= Circulating(b, i)
<1> DEFINE T == {d \in Nat : Circulating(a, i) <= Circulating(a + d, i)}
<1>1. 0 \in T
  BY CirculatingTyped
<1>2. ASSUME NEW d \in T PROVE d + 1 \in T
  <2>1. d \in Nat /\ a + d \in Nat /\ a + (d + 1) = (a + d) + 1 /\ (a + d) + 1 \in Nat
    OBVIOUS
  <2>2. Circulating((a + d) + 1, i) = Circulating(a + d, i) + SubsidyAt((a + d) + 1, i)
    BY <2>1, CirculatingGrows
  <2>3. /\ SubsidyAt((a + d) + 1, i) \in Nat
        /\ Circulating(a, i) \in Nat /\ Circulating(a + d, i) \in Nat
    BY <2>1, SubsidyTyped, CirculatingTyped
  <2>4. Circulating(a, i) <= Circulating(a + d, i)
    OBVIOUS
  <2>5. Circulating(a, i) <= Circulating((a + d) + 1, i)
    BY <2>2, <2>3, <2>4
  <2> QED
    BY <2>1, <2>5
<1> HIDE DEF T
<1>3. T = Nat
  <2>1. T \subseteq Nat
    BY DEF T
  <2> QED
    BY <1>1, <1>2, <2>1, AllNumbers
<1>4. b - a \in T /\ a + (b - a) = b
  BY <1>3
<1> QED
  BY <1>4 DEF T

-----------------------------------------------------------------------------
(* The last height that pays.                                              *)

LEMMA PaysByEra ==
    ASSUME NEW h \in Nat \ {0}, NEW i \in Nat \ {0}
    PROVE  SubsidyAt(h, i) = IF h \div i >= Eras THEN 0 ELSE Halved[h \div i]
  BY DEF SubsidyAt

\* After an era that pays nothing none does.
LEMMA PaysNoMore ==
    ASSUME NEW a \in Nat \ {0}, NEW b \in Nat \ {0}, NEW i \in Nat \ {0},
           SubsidyAt(a, i) = 0, a \div i <= b \div i
    PROVE  SubsidyAt(b, i) = 0
<1>1. a \div i \in Nat /\ b \div i \in Nat
  <2>1. a \in Nat /\ b \in Nat
    OBVIOUS
  <2> QED
    BY <2>1, Quotient
<1>2. CASE a \div i >= Eras
  <2>1. b \div i >= Eras
    BY <1>1, <1>2, EmissionAssumption
  <2> QED
    BY <2>1, PaysByEra
<1>3. CASE ~ (a \div i >= Eras)
  <2>1. Halved[a \div i] = 0
    BY <1>3, PaysByEra
  <2>2. Halved[b \div i] = 0
    BY <1>1, <2>1, HalvedToNothing
  <2> QED
    BY <2>2, PaysByEra
<1> QED
  BY <1>2, <1>3

\* The height last_paying_height finds is the last that pays.
THEOREM PayingHeights ==
    ASSUME NEW i \in Nat \ {0}, NEW h \in Nat \ {0}
    PROVE  /\ LastPayingHeight(i) \in Nat
           /\ SubsidyAt(h, i) > 0 <=> h <= LastPayingHeight(i)
<1> DEFINE paying == {e \in 0 .. Eras - 1 : \A f \in 0 .. e : SubsidyAt(EraStart(f, i), i) > 0}
           q == h \div i
<1>1. /\ q \in Nat /\ h \in Nat /\ Eras \in Nat \ {0} /\ Eras - 1 \in Nat
      /\ SubsidyAt(h, i) \in Nat /\ SubsidyAt(EraStart(q, i), i) = SubsidyAt(h, i)
  BY Quotient, SubsidyTyped, StartPays, EmissionAssumption
<1>2. \A e \in Nat : EraStart(e, i) \in Nat \ {0}
  BY EraStarts
<1>3. \A e \in Nat : SubsidyAt(EraStart(e, i), i) \in Nat
  BY <1>2, SubsidyTyped
<1>4. LastPayingHeight(i) = IF paying = {} THEN 0
                            ELSE EraEnd(CHOOSE e \in paying : \A f \in paying : f <= e, i)
  BY DEF LastPayingHeight
<1>5. \A e \in 0 .. Eras - 1 :
         e \in paying <=> \A f \in 0 .. e : SubsidyAt(EraStart(f, i), i) > 0
  OBVIOUS
<1>6. paying \subseteq 0 .. Eras - 1
  OBVIOUS
<1> HIDE DEF paying
<1>7. CASE paying = {}
  <2>1. SubsidyAt(1, i) = 0
    <3>1. 0 \notin paying /\ 0 \in 0 .. Eras - 1
      BY <1>1, <1>7
    <3>2. PICK f \in 0 .. 0 : ~ (SubsidyAt(EraStart(f, i), i) > 0)
      BY <1>5, <3>1
    <3>3. f = 0 /\ EraStart(f, i) = 1
      BY <3>2 DEF EraStart
    <3>4. SubsidyAt(1, i) \in Nat
      BY SubsidyTyped
    <3> QED
      BY <3>2, <3>3, <3>4
  <2>2. 1 \div i <= q
    <3>1. 1 \div i \in Nat /\ 1 = i * (1 \div i) + (1 % i) /\ 1 % i \in 0 .. i - 1
      BY Quotient
    <3>2. CASE i = 1
      <4>1. 1 \div 1 = 1 /\ h \div 1 = h
        BY <1>1
      <4> QED
        BY <1>1, <3>2, <4>1
    <3>3. CASE i # 1
      <4>1. i * 0 <= 1 /\ 1 < i * 0 + i
        BY <3>3
      <4>2. 1 \div i = 0
        BY <4>1, QuotientIs
      <4> QED
        BY <1>1, <4>2
    <3> QED
      BY <3>2, <3>3
  <2>3. SubsidyAt(h, i) = 0
    BY <2>1, <2>2, PaysNoMore
  <2> QED
    BY <1>1, <1>4, <1>7, <2>3
<1>8. CASE paying # {}
  <2> DEFINE m == CHOOSE e \in paying : \A f \in paying : f <= e
  <2>1. m \in paying /\ \A f \in paying : f <= m
    BY <1>1, <1>6, <1>8, GreatestNumber
  <2>2. LastPayingHeight(i) = EraEnd(m, i)
    BY <1>4, <1>8
  <2> HIDE DEF m
  <2>3. m \in 0 .. Eras - 1 /\ \A f \in 0 .. m : SubsidyAt(EraStart(f, i), i) > 0
    BY <1>5, <1>6, <2>1
  <2>4. EraEnd(m, i) \in Nat /\ (q <= m <=> h <= EraEnd(m, i))
    <3>1. m \in Nat
      BY <1>1, <2>3
    <3> QED
      BY <1>1, <3>1, EraEnds
  <2>5. CASE q <= m
    <3>1. SubsidyAt(EraStart(q, i), i) > 0
      BY <1>1, <2>3, <2>5
    <3> QED
      BY <1>1, <2>2, <2>4, <2>5, <3>1
  <2>6. CASE ~ (q <= m)
    <3> DEFINE a == EraStart(m + 1, i)
    <3>1. m + 1 \in Nat /\ m + 1 <= q
      BY <1>1, <2>3, <2>6
    <3>2. a \in Nat \ {0} /\ a \in Nat
      BY <1>2, <3>1
    <3>3. a \div i <= q
      <4>1. a <= h
        BY <3>1, EraStarts
      <4>2. h <= EraEnd(q, i) /\ EraEnd(q, i) \in Nat
        <5>1. q <= q
          BY <1>1
        <5> QED
          BY <1>1, <5>1, EraEnds
      <4>3. a <= EraEnd(q, i)
        BY <1>1, <3>2, <4>1, <4>2
      <4> HIDE DEF a
      <4> QED
        BY <1>1, <3>2, <4>3, EraEnds
    <3>4. m + 1 <= a \div i /\ a \div i \in Nat
      <4>1. a <= a
        BY <3>2
      <4>2. m + 1 <= a \div i
        BY <3>1, <3>2, <4>1, EraStarts
      <4> HIDE DEF a
      <4> QED
        BY <3>2, <4>2, Quotient
    <3>5. SubsidyAt(a, i) = 0
      <4>1. CASE m + 1 >= Eras
        <5>1. a \div i >= Eras
          BY <1>1, <3>1, <3>4, <4>1
        <5> HIDE DEF a
        <5> QED
          BY <3>2, <5>1, PaysByEra
      <4>2. CASE ~ (m + 1 >= Eras)
        <5>1. m + 1 \in 0 .. Eras - 1 /\ m + 1 \notin paying
          BY <1>1, <2>1, <2>3, <4>2
        <5>2. PICK f \in 0 .. m + 1 : ~ (SubsidyAt(EraStart(f, i), i) > 0)
          BY <1>5, <5>1
        <5>3. f = m + 1
          BY <2>3, <5>2
        <5> QED
          BY <1>3, <3>1, <5>2, <5>3
      <4> QED
        BY <4>1, <4>2
    <3> HIDE DEF a
    <3>6. SubsidyAt(h, i) = 0
      BY <3>2, <3>3, <3>5, PaysNoMore
    <3> QED
      BY <1>1, <2>2, <2>4, <2>6, <3>6
  <2> QED
    BY <2>5, <2>6
<1> QED
  BY <1>7, <1>8

\* The lifetime supply is reached at the last height that pays, and only then:
\* it is never passed, before it less is paid, and after it no more.
THEOREM LifetimeReached ==
    ASSUME NEW i \in Nat \ {0}, NEW h \in Nat
    PROVE  /\ LifetimeSupply(i) \in Nat
           /\ Circulating(h, i) <= LifetimeSupply(i)
           /\ h >= LastPayingHeight(i) <=> Circulating(h, i) = LifetimeSupply(i)
<1> DEFINE last == LastPayingHeight(i)
<1>1. last \in Nat /\ \A k \in Nat \ {0} : SubsidyAt(k, i) > 0 <=> k <= last
  <2>1. 1 \in Nat \ {0}
    OBVIOUS
  <2> QED
    BY <2>1, PayingHeights
<1> HIDE DEF last
<1>2. LifetimeSupply(i) = Circulating(last, i)
  BY DEF LifetimeSupply, last
<1>3. \A k \in Nat : Circulating(k, i) \in Nat
  BY CirculatingTyped
<1>4. ASSUME h < last PROVE Circulating(h, i) < Circulating(last, i)
  <2>1. last - 1 \in Nat /\ h <= last - 1 /\ (last - 1) + 1 = last /\ last \in Nat \ {0}
    BY <1>1, <1>4
  <2>2. Circulating(h, i) <= Circulating(last - 1, i)
    BY <2>1, CirculatingMonotone
  <2>3. Circulating((last - 1) + 1, i) = Circulating(last - 1, i) + SubsidyAt((last - 1) + 1, i)
    BY <2>1, CirculatingGrows
  <2>4. SubsidyAt(last, i) \in Nat /\ SubsidyAt(last, i) > 0
    BY <1>1, <2>1, SubsidyTyped
  <2>5. Circulating(last, i) = Circulating(last - 1, i) + SubsidyAt(last, i)
    BY <2>1, <2>3
  <2>6. Circulating(h, i) \in Nat /\ Circulating(last - 1, i) \in Nat /\ Circulating(last, i) \in Nat
    BY <1>1, <1>3, <2>1
  <2> QED
    BY <2>2, <2>4, <2>5, <2>6
<1>5. ASSUME h >= last PROVE Circulating(h, i) = Circulating(last, i)
  <2> DEFINE T == {d \in Nat : Circulating(last + d, i) = Circulating(last, i)}
  <2>1. 0 \in T
    BY <1>1
  <2>2. ASSUME NEW d \in T PROVE d + 1 \in T
    <3>1. /\ d \in Nat /\ last + d \in Nat /\ last + (d + 1) = (last + d) + 1
          /\ (last + d) + 1 \in Nat \ {0} /\ ~ ((last + d) + 1 <= last)
      BY <1>1
    <3>2. Circulating((last + d) + 1, i) = Circulating(last + d, i) + SubsidyAt((last + d) + 1, i)
      BY <3>1, CirculatingGrows
    <3>3. SubsidyAt((last + d) + 1, i) \in Nat /\ ~ (SubsidyAt((last + d) + 1, i) > 0)
      BY <1>1, <3>1, SubsidyTyped
    <3>4. Circulating(last + d, i) = Circulating(last, i) /\ Circulating(last, i) \in Nat
      BY <1>1, <1>3
    <3>5. Circulating((last + d) + 1, i) = Circulating(last, i)
      BY <3>2, <3>3, <3>4
    <3> QED
      BY <3>1, <3>5
  <2> HIDE DEF T
  <2>3. T = Nat
    <3>1. T \subseteq Nat
      BY DEF T
    <3> QED
      BY <2>1, <2>2, <3>1, AllNumbers
  <2>4. h - last \in T /\ last + (h - last) = h
    BY <1>1, <1>5, <2>3
  <2> QED
    BY <2>4 DEF T
<1>6. Circulating(h, i) \in Nat /\ Circulating(last, i) \in Nat
  BY <1>1, <1>3
<1>7. h < last \/ h >= last
  BY <1>1
<1> QED
  BY <1>1, <1>2, <1>4, <1>5, <1>6, <1>7 DEF last
===============================================================================
