---------------------------- MODULE PayoutsProofs ----------------------------
(***************************************************************************)
(* Theorems about the wallet's arithmetic of HostShare, and about Payouts   *)
(* for every initial subsidy, interval, percentage, number of guests and    *)
(* height: what is issued, how a subsidy is divided, and what a tag says.   *)
(***************************************************************************)
EXTENDS Payouts, EmissionProofs, FiniteSetTheorems

-----------------------------------------------------------------------------
(* The pot and the percentage.                                             *)

LEMMA Hundreds ==
  ASSUME NEW n \in Nat
  PROVE  /\ n \div 100 \in Nat /\ n % 100 \in 0 .. 99
         /\ n - 100 * (n \div 100) = n % 100
  OBVIOUS

\* Whole hundreds may be taken out of a division by 100.
LEMMA TakeOut ==
  ASSUME NEW a \in Nat, NEW b \in Nat
  PROVE  (100 * a + b) \div 100 = a + b \div 100
  OBVIOUS

\* guest_pot, in its overflow-free form, is p percent of n rounded down, for any
\* amount and percentage.
THEOREM GuestPotExact ==
  ASSUME NEW n \in Nat, NEW p \in Nat
  PROVE  GuestPot(n, p) = (n * p) \div 100
<1> DEFINE q == n \div 100
           r == n % 100
<1>1. q \in Nat /\ r \in Nat /\ n - 100 * q = r
  BY Hundreds
<1> HIDE DEF q, r
<1>2. q * p \in Nat /\ r * p \in Nat
  BY <1>1
<1>3. n * p = 100 * (q * p) + r * p
  BY <1>1
<1>4. (n * p) \div 100 = q * p + (r * p) \div 100
  BY <1>2, <1>3, TakeOut
<1> QED
  BY <1>4 DEF GuestPot, q, r

\* For a win of at least 100 units a greater percentage gives a greater pot, so
\* that the pot tells the percentage and percent_for_pot finds the host's.
THEOREM GuestPotIncreasing ==
  ASSUME NEW n \in Nat, n >= 100, NEW p \in Nat, NEW s \in Nat, p < s
  PROVE  GuestPot(n, p) < GuestPot(n, s)
<1>1. n * p \in Nat /\ n * s \in Nat
  OBVIOUS
<1>2. n * s = n * p + n * (s - p)
  OBVIOUS
<1>3. n * (s - p) >= 100
  <2>1. s - p \in Nat /\ s - p >= 1
    OBVIOUS
  <2> QED
    BY <2>1
<1>4. n * s >= n * p + 100
  BY <1>1, <1>2, <1>3
<1> DEFINE x == n * p
           y == n * s
<1>5. x \in Nat /\ y \in Nat /\ y >= x + 100
  BY <1>1, <1>4
<1> HIDE DEF x, y
<1>6. x \div 100 < y \div 100
  BY <1>5
<1> QED
  BY <1>6, GuestPotExact DEF x, y

\* percent_for_pot undoes guest_pot: from the pot of a win of at least 100 units
\* it recovers the percentage the host chose.
THEOREM PercentRecovered ==
  ASSUME NEW n \in Nat, n >= 100, NEW p \in 1 .. 100
  PROVE  PercentForPot(n, GuestPot(n, p)) = p
<1>1. GuestPot(n, 0) = 0 /\ GuestPot(n, 100) = n
  <2>1. n * 0 = 0 /\ 0 \div 100 = 0
    OBVIOUS
  <2>2. n * 100 = 100 * n + 0 /\ (100 * n + 0) \div 100 = n + 0 \div 100
    BY TakeOut
  <2>3. GuestPot(n, 0) = (n * 0) \div 100 /\ GuestPot(n, 100) = (n * 100) \div 100
    BY GuestPotExact
  <2>4. GuestPot(n, 0) = 0
    BY <2>1, <2>3
  <2>5. GuestPot(n, 100) = n
    BY <2>1, <2>2, <2>3
  <2> QED
    BY <2>4, <2>5
<1>2. GuestPot(n, p) > 0
  BY <1>1, GuestPotIncreasing
<1>3. GuestPot(n, p) <= n
  <2>1. CASE p = 100
    BY <1>1, <2>1
  <2>2. CASE p < 100
    <3>1. GuestPot(n, p) \in Int
      BY DEF GuestPot
    <3>2. GuestPot(n, p) < GuestPot(n, 100)
      BY <2>2, GuestPotIncreasing
    <3> QED
      BY <1>1, <3>1, <3>2
  <2> QED
    BY <2>1, <2>2
<1>4. {s \in 1 .. 100 : GuestPot(n, s) = GuestPot(n, p)} = {p}
  <2>1. ASSUME NEW s \in 1 .. 100, GuestPot(n, s) = GuestPot(n, p), s # p
        PROVE  FALSE
    <3>1. GuestPot(n, s) \in Int /\ GuestPot(n, p) \in Int
      BY DEF GuestPot
    <3>2. CASE s < p
      BY <2>1, <3>1, <3>2, GuestPotIncreasing
    <3>3. CASE p < s
      BY <2>1, <3>1, <3>3, GuestPotIncreasing
    <3> QED
      BY <2>1, <3>2, <3>3
  <2> QED
    BY <2>1
<1>5. (CHOOSE s \in {p} : \A u \in {p} : s <= u) = p
  OBVIOUS
<1>6. ~(GuestPot(n, p) <= 0 \/ GuestPot(n, p) > n)
  <2>1. GuestPot(n, p) \in Int
    BY DEF GuestPot
  <2> QED
    BY <1>2, <1>3, <2>1
<1> QED
  BY <1>4, <1>5, <1>6 DEF PercentForPot

-----------------------------------------------------------------------------
(* The division of a subsidy.                                              *)

\* The parts make up the whole, and differ by at most one.
LEMMA SplitWhole ==
    ASSUME NEW total \in Nat, NEW k \in Nat, SplitReward(total, k) # <<>>
    PROVE  LET parted == SplitReward(total, k) IN
           /\ Total(parted) = total
           /\ DOMAIN parted = 1 .. k
           /\ \A n \in 1 .. k : parted[n] \in Nat
           /\ \A m, n \in 1 .. k : parted[m] - parted[n] <= 1
<1> DEFINE q == total \div k
           r == total % k
           s == [n \in 1 .. k |-> q + (IF n <= r THEN 1 ELSE 0)]
           g == [n \in 0 .. k |-> n * q + (IF n <= r THEN n ELSE r)]
<1>1. total > 0 /\ k > 0 /\ k \in Nat \ {0} /\ SplitReward(total, k) = s
  BY DEF SplitReward
<1>2. q \in Nat /\ r \in 0 .. k - 1 /\ total = k * q + r
  BY <1>1, Quotient
<1> HIDE DEF q, r
<1>3. DOMAIN s = 1 .. k /\ Len(s) = k /\ \A n \in 1 .. k : s[n] = q + (IF n <= r THEN 1 ELSE 0)
  BY <1>1
<1>4. ASSUME NEW n \in 1 .. k PROVE g[n] = g[n - 1] + s[n]
  <2>1. n \in Nat /\ n - 1 \in Nat /\ n \in 0 .. k /\ n - 1 \in 0 .. k
    BY <1>1
  <2>2. n * q = (n - 1) * q + q
    BY <1>2, <2>1
  <2>3. (n - 1) * q \in Nat /\ n * q \in Nat
    BY <1>2, <2>1, Product
  <2>4. /\ g[n] = n * q + (IF n <= r THEN n ELSE r)
        /\ g[n - 1] = (n - 1) * q + (IF n - 1 <= r THEN n - 1 ELSE r)
    BY <2>1
  <2> DEFINE x == n * q
             y == (n - 1) * q
  <2>5. x = y + q /\ x \in Nat /\ y \in Nat /\ s[n] = q + (IF n <= r THEN 1 ELSE 0)
    BY <1>3, <2>2, <2>3
  <2>6. g[n] = x + (IF n <= r THEN n ELSE r) /\ g[n - 1] = y + (IF n - 1 <= r THEN n - 1 ELSE r)
    BY <2>4
  <2> HIDE DEF x, y, g, s
  <2>7. CASE n <= r
    BY <1>2, <2>1, <2>5, <2>6, <2>7
  <2>8. CASE n > r
    BY <1>2, <2>1, <2>5, <2>6, <2>8
  <2> QED
    BY <1>2, <2>1, <2>7, <2>8
<1>5. g[0] = 0 /\ g[k] = total
  <2>1. g[0] = 0 * q + (IF 0 <= r THEN 0 ELSE r) /\ 0 * q = 0
    BY <1>1, <1>2
  <2>2. g[k] = k * q + r
    BY <1>1, <1>2
  <2> QED
    BY <1>2, <2>1, <2>2
<1> HIDE DEF s, g
<1>6. Total(s) = g[Len(s)]
  <2>1. Len(s) \in Nat /\ \A n \in 1 .. Len(s) : g[n] = g[n - 1] + s[n]
    BY <1>3, <1>4
  <2> QED
    BY <1>5, <2>1, SumBySteps
<1> QED
  BY <1>1, <1>2, <1>3, <1>5, <1>6

-----------------------------------------------------------------------------
(* Tags.                                                                   *)

\* The sum of amounts that are all alike in the places of P, and nothing elsewhere.
LEMMA SumOfEqual ==
    ASSUME NEW s, Len(s) \in Nat, NEW P \in SUBSET (1 .. Len(s)), NEW c \in Int,
           \A n \in 1 .. Len(s) : s[n] = IF n \in P THEN c ELSE 0
    PROVE  /\ IsFiniteSet(P) /\ Cardinality(P) \in Nat
           /\ Total(s) = c * Cardinality(P)
<1> DEFINE upTo(n) == P \cap (1 .. n)
           g == [n \in 0 .. Len(s) |-> c * Cardinality(upTo(n))]
<1>1. ASSUME NEW n \in Nat PROVE IsFiniteSet(upTo(n)) /\ Cardinality(upTo(n)) \in Nat
  <2>1. IsFiniteSet(1 .. n)
    BY FS_Interval
  <2>2. upTo(n) \subseteq 1 .. n
    OBVIOUS
  <2> HIDE DEF upTo
  <2> QED
    BY <2>1, <2>2, FS_Subset, FS_CardinalityType
<1>2. upTo(0) = {} /\ upTo(Len(s)) = P
  <2>1. \A n \in 1 .. 0 : FALSE
    OBVIOUS
  <2>2. upTo(0) = {}
    BY <2>1
  <2>3. upTo(Len(s)) = P
    OBVIOUS
  <2> QED
    BY <2>2, <2>3
<1>3. ASSUME NEW n \in 1 .. Len(s) PROVE g[n] = g[n - 1] + s[n]
  <2>1. n \in Nat /\ n - 1 \in Nat /\ n \in 0 .. Len(s) /\ n - 1 \in 0 .. Len(s)
    OBVIOUS
  <2>2. upTo(n) = IF n \in P THEN upTo(n - 1) \cup {n} ELSE upTo(n - 1)
    BY <2>1
  <2>3. n \notin upTo(n - 1)
    BY <2>1
  <2> DEFINE a == upTo(n - 1)
             b == upTo(n)
  <2>4. IsFiniteSet(a) /\ Cardinality(a) \in Nat
    BY <1>1, <2>1
  <2>5. b = (IF n \in P THEN a \cup {n} ELSE a) /\ n \notin a
    BY <2>2, <2>3
  <2>6. g[n] = c * Cardinality(b) /\ g[n - 1] = c * Cardinality(a)
    BY <2>1
  <2> HIDE DEF a, b, g
  <2>7. Cardinality(b) = Cardinality(a) + IF n \in P THEN 1 ELSE 0
    <3>1. Cardinality(a \cup {n}) = Cardinality(a) + 1
      BY <2>4, <2>5, FS_AddElement
    <3> QED
      BY <2>4, <2>5, <3>1
  <2>8. c * (Cardinality(a) + 1) = c * Cardinality(a) + c /\ c * Cardinality(a) \in Int
    BY <2>4
  <2>9. CASE n \in P
    BY <2>6, <2>7, <2>8, <2>9
  <2>10. CASE n \notin P
    BY <2>4, <2>6, <2>7, <2>8, <2>10
  <2> QED
    BY <2>9, <2>10
<1>4. g[0] = 0
  <2>1. g[0] = c * Cardinality(upTo(0))
    OBVIOUS
  <2> QED
    BY <1>2, <2>1, FS_EmptySet
<1>5. g[Len(s)] = c * Cardinality(P)
  <2>1. g[Len(s)] = c * Cardinality(upTo(Len(s)))
    OBVIOUS
  <2> QED
    BY <1>2, <2>1
<1>6. IsFiniteSet(P) /\ Cardinality(P) \in Nat
  BY <1>1, <1>2
<1> HIDE DEF g
<1>7. Total(s) = g[Len(s)]
  BY <1>3, <1>4, SumBySteps
<1> QED
  BY <1>5, <1>6, <1>7

\* A percentage that percent_for_pot finds gives the pot; it finds one where
\* there is one.
LEMMA PercentFound ==
    ASSUME NEW n \in Nat, NEW pot \in Int
    PROVE  /\ PercentForPot(n, pot) # 0 =>
                /\ PercentForPot(n, pot) \in 1 .. 100 /\ pot > 0 /\ pot <= n
                /\ GuestPot(n, PercentForPot(n, pot)) = pot
           /\ \A p \in 1 .. 100 :
                GuestPot(n, p) = pot /\ pot > 0 /\ pot <= n => PercentForPot(n, pot) # 0
<1> DEFINE P == {p \in 1 .. 100 : GuestPot(n, p) = pot}
           least == CHOOSE p \in P : \A q \in P : p <= q
<1>1. PercentForPot(n, pot) = IF pot <= 0 \/ pot > n \/ P = {} THEN 0 ELSE least
  BY DEF PercentForPot
<1>2. P \subseteq Nat /\ \A p \in P : p \in 1 .. 100 /\ GuestPot(n, p) = pot
  OBVIOUS
<1>3. \A p \in 1 .. 100 : GuestPot(n, p) = pot => P # {}
  OBVIOUS
<1> HIDE DEF P
<1>4. P # {} => least \in P
  BY <1>2, LeastNumber
<1> HIDE DEF least
<1>5. ASSUME PercentForPot(n, pot) # 0
      PROVE  /\ PercentForPot(n, pot) \in 1 .. 100 /\ pot > 0 /\ pot <= n
             /\ GuestPot(n, PercentForPot(n, pot)) = pot
  <2>1. ~ (pot <= 0 \/ pot > n \/ P = {}) /\ PercentForPot(n, pot) = least
    BY <1>1, <1>5
  <2>2. PercentForPot(n, pot) \in P
    BY <1>4, <2>1
  <2>3. pot > 0 /\ pot <= n
    BY <2>1
  <2>4. PercentForPot(n, pot) \in 1 .. 100
    BY <1>2, <2>2
  <2>5. GuestPot(n, PercentForPot(n, pot)) = pot
    BY <1>2, <2>2
  <2> QED
    BY <2>3, <2>4, <2>5
<1>6. ASSUME NEW p \in 1 .. 100, GuestPot(n, p) = pot, pot > 0, pot <= n
      PROVE  PercentForPot(n, pot) # 0
  <2>1. P # {} /\ ~ (pot <= 0) /\ ~ (pot > n)
    BY <1>3, <1>6
  <2>2. PercentForPot(n, pot) \in P
    BY <1>1, <1>4, <2>1
  <2> QED
    BY <1>2, <2>2
<1> QED
  BY <1>5, <1>6

\* What a tag says of any outputs of a spend of w.
LEMMA DetectSound ==
    ASSUME NEW w \in Nat, NEW outs, Len(outs) \in Nat, DOMAIN outs = 1 .. Len(outs),
           \A n \in 1 .. Len(outs) : outs[n][2] \in Nat,
           NEW amounts, Len(amounts) = Len(outs),
           \A n \in 1 .. Len(outs) : amounts[n] = IF outs[n][1] # Host THEN outs[n][2] ELSE 0,
           NEW said, said = Detect(w, outs), said # None
    PROVE  /\ said[2] = Total(amounts)
           /\ said[2] = said[3] * said[4]
           /\ said[2] = (w * said[1]) \div 100
           /\ said[2] <= w
<1> DEFINE paid == PaidToGuests(outs)
           each == outs[CHOOSE i \in paid : TRUE][2]
           count == Cardinality(paid)
           pot == each * count
           percent == PercentForPot(w, pot)
<1>1. /\ said = <<percent, pot, each, count>>
      /\ paid # {} /\ percent # 0 /\ \A i \in paid : outs[i][2] = each
  BY DEF Detect
<1>2. paid \in SUBSET (1 .. Len(outs))
  BY DEF PaidToGuests
<1>3. \A n \in 1 .. Len(outs) : n \in paid <=> outs[n][2] > 0 /\ outs[n][1] # Host
  BY DEF PaidToGuests
<1>4. each \in Nat
  BY <1>1, <1>2
<1> HIDE DEF paid, each
<1>5. \A n \in 1 .. Len(outs) : amounts[n] = IF n \in paid THEN each ELSE 0
  BY <1>1, <1>3
<1>6. count \in Nat /\ Total(amounts) = pot
  <2>1. /\ Len(amounts) \in Nat /\ paid \in SUBSET (1 .. Len(amounts)) /\ each \in Int
        /\ \A n \in 1 .. Len(amounts) : amounts[n] = IF n \in paid THEN each ELSE 0
    BY <1>2, <1>4, <1>5
  <2> QED
    BY <2>1, SumOfEqual
<1>7. pot \in Int
  BY <1>4, <1>6
<1>8. percent \in 1 .. 100 /\ pot <= w /\ GuestPot(w, percent) = pot
  BY <1>1, <1>7, PercentFound
<1>9. GuestPot(w, percent) = (w * percent) \div 100
  <2> HIDE DEF percent, pot, count
  <2>1. percent \in 1 .. 100
    BY <1>8
  <2>2. percent \in Nat
    BY <2>1
  <2> QED
    BY <2>2, GuestPotExact
<1> HIDE DEF percent, pot, count
<1>10. said[1] = percent /\ said[2] = pot /\ said[3] = each /\ said[4] = count
  BY <1>1
<1>11. pot = each * count
  BY DEF pot
<1> QED
  BY <1>6, <1>8, <1>9, <1>10, <1>11

\* The guests come first, each with its part; the change, if any, is the host's.
PaysEach(outs, each, k) ==
    /\ Len(outs) \in Nat /\ DOMAIN outs = 1 .. Len(outs) /\ k <= Len(outs)
    /\ \A n \in 1 .. k : outs[n] = <<n, each>>
    /\ \A n \in 1 .. Len(outs) : n > k => outs[n][1] = Host /\ outs[n][2] \in Nat

LEMMA PayOutputs ==
    ASSUME NEW w \in Nat, NEW each \in Nat, NEW k \in Nat
    PROVE  PaysEach(Pay(w, each, k), each, k)
<1> SUFFICES ASSUME NEW outs, outs = Pay(w, each, k) PROVE PaysEach(outs, each, k)
  OBVIOUS
<1> DEFINE change == w - each * k
           guests == [n \in 1 .. k |-> <<n, each>>]
           rest   == IF change > 0 THEN <<<<Host, change>>>> ELSE <<>>
<1>1. outs = guests \o rest
  BY DEF Pay
<1>2. change \in Int
  OBVIOUS
<1> HIDE DEF change
<1>3. guests \in Seq(Nat \X Int) /\ Len(guests) = k /\ \A n \in 1 .. k : guests[n] = <<n, each>>
  OBVIOUS
<1>4. /\ rest \in Seq(Nat \X Int) /\ Len(rest) \in 0 .. 1
      /\ Len(rest) = 1 => rest[1] = <<Host, change>> /\ change \in Nat
  BY <1>2 DEF Host
<1> HIDE DEF guests, rest
<1>5. /\ Len(outs) = k + Len(rest) /\ DOMAIN outs = 1 .. Len(outs)
      /\ \A n \in 1 .. Len(outs) : outs[n] = IF n <= k THEN guests[n] ELSE rest[n - k]
  BY <1>1, <1>3, <1>4
<1>6. ASSUME NEW n \in 1 .. Len(outs), n > k PROVE outs[n][1] = Host /\ outs[n][2] \in Nat
  <2>1. Len(rest) = 1 /\ n - k = 1
    <3> DEFINE l == Len(rest)
    <3>1. l \in 0 .. 1 /\ n \in 1 .. k + l
      BY <1>4, <1>5
    <3> HIDE DEF l
    <3>2. l = 1 /\ n - k = 1
      BY <1>6, <3>1
    <3> QED
      BY <3>2 DEF l
  <2>2. outs[n] = <<Host, change>> /\ change \in Nat
    BY <1>4, <1>5, <1>6, <2>1
  <2> QED
    BY <2>2
<1>7. k <= Len(outs)
  <2> DEFINE l == Len(rest)
  <2>1. l \in Nat
    BY <1>4
  <2> HIDE DEF l
  <2> QED
    BY <1>5, <2>1 DEF l
<1>8. Len(outs) \in Nat
  BY <1>4, <1>5
<1>9. \A n \in 1 .. k : outs[n] = <<n, each>>
  BY <1>3, <1>5, <1>7, <1>8
<1> QED
  BY <1>5, <1>6, <1>7, <1>8, <1>9 DEF PaysEach

\* EvenShareTagged, of any spend.
KnowsShare(w, share, said) ==
    share # None =>
        LET pot == GuestPot(w, share[1]) IN
        pot % share[2] = 0 /\ share[2] <= MaxGuests =>
            /\ said # None /\ said[2] = pot /\ said[4] = share[2]
            /\ w >= 100 => said[1] = share[1]

\* A share that divides evenly among few enough guests is recognised.
LEMMA ShareTagged ==
    ASSUME NEW w \in Nat, NEW p \in 1 .. 100, NEW k \in Nat \ {0},
           GuestShare(GuestPot(w, p), k) > 0
    PROVE  KnowsShare(w, <<p, k>>, Detect(w, Pay(w, GuestShare(GuestPot(w, p), k), k)))
<1> SUFFICES ASSUME k <= MaxGuests, GuestPot(w, p) % k = 0,
                    NEW outs, outs = Pay(w, GuestShare(GuestPot(w, p), k), k)
             PROVE  /\ Detect(w, outs) # None
                    /\ Detect(w, outs)[2] = GuestPot(w, p) /\ Detect(w, outs)[4] = k
                    /\ w >= 100 => Detect(w, outs)[1] = p
  BY DEF KnowsShare
<1> DEFINE pot == GuestPot(w, p)
           part == GuestShare(pot, k)
           paid == PaidToGuests(outs)
           each == outs[CHOOSE i \in paid : TRUE][2]
           found == each * Cardinality(paid)
           percent == PercentForPot(w, found)
<1>1. pot = (w * p) \div 100
  <2>1. p \in Nat
    OBVIOUS
  <2> QED
    BY <2>1, GuestPotExact
<1>2. pot \in Nat /\ pot <= w
  <2>1. w * p \in Nat /\ w * p + w * (100 - p) = w * 100 /\ w * (100 - p) \in Nat
    BY Product
  <2> DEFINE x == w * p
  <2>2. x \in Nat /\ x <= 100 * w
    BY <2>1
  <2> HIDE DEF x
  <2>3. x \div 100 \in Nat /\ x \div 100 <= w
    BY <2>2
  <2> QED
    BY <1>1, <2>3 DEF x
<1>3. pot > 0 /\ part = pot \div k /\ part \in Nat /\ part > 0 /\ part * k = pot
  <2>1. pot > 0 /\ part = pot \div k
    BY <1>2 DEF GuestShare
  <2> HIDE DEF pot
  <2>2. pot \div k \in Nat /\ pot = k * (pot \div k) + (pot % k)
    BY <1>2, Quotient
  <2>3. pot % k = 0 /\ part > 0
    BY DEF pot
  <2> HIDE DEF part
  <2> QED
    BY <2>1, <2>2, <2>3
<1>4. outs = Pay(w, part, k)
  OBVIOUS
<1> HIDE DEF pot, part
<1>5. /\ Len(outs) \in Nat /\ DOMAIN outs = 1 .. Len(outs) /\ k <= Len(outs)
      /\ \A n \in 1 .. k : outs[n] = <<n, part>>
      /\ \A n \in 1 .. Len(outs) : n > k => outs[n][1] = Host
  <2>1. PaysEach(outs, part, k)
    BY <1>3, <1>4, PayOutputs
  <2> QED
    BY <2>1 DEF PaysEach
<1>6. paid = 1 .. k
  <2>1. ASSUME NEW n \in 1 .. Len(outs) PROVE n \in paid <=> n <= k
    <3>1. n <= k => outs[n][1] = n /\ outs[n][2] = part
      BY <1>5
    <3>2. n \in paid <=> outs[n][2] > 0 /\ outs[n][1] # Host
      BY <1>5 DEF PaidToGuests
    <3> QED
      BY <1>3, <1>5, <3>1, <3>2 DEF Host
  <2>2. paid \subseteq 1 .. Len(outs)
    BY <1>5 DEF PaidToGuests
  <2>3. \A n : n \in 1 .. k <=> n \in 1 .. Len(outs) /\ n <= k
    BY <1>5
  <2> HIDE DEF paid
  <2> QED
    BY <2>1, <2>2, <2>3
<1>7. Cardinality(paid) = k /\ paid # {}
  <2>1. 1 \in Int /\ k \in Int /\ ~ (1 > k) /\ k - 1 + 1 = k /\ 1 \in 1 .. k
    OBVIOUS
  <2>2. Cardinality(1 .. k) = k
    BY <2>1, FS_Interval
  <2> HIDE DEF paid
  <2> QED
    BY <1>6, <2>1, <2>2
<1>8. each = part /\ \A i \in paid : outs[i][2] = part
  <2>1. \A i \in paid : outs[i][2] = part
    BY <1>5, <1>6
  <2> HIDE DEF paid
  <2> QED
    BY <1>7, <2>1
<1>9. found = pot
  BY <1>3, <1>7, <1>8
<1>10. percent # 0 /\ (w >= 100 => percent = p)
  <2>1. percent = PercentForPot(w, pot)
    BY <1>9
  <2>2. PercentForPot(w, pot) # 0
    <3>1. GuestPot(w, p) = pot /\ pot \in Int
      BY <1>2 DEF pot
    <3> QED
      BY <1>2, <1>3, <3>1, PercentFound
  <2>3. w >= 100 => PercentForPot(w, pot) = p
    BY PercentRecovered DEF pot
  <2> QED
    BY <2>1, <2>2, <2>3
<1>11. Detect(w, outs) = <<percent, found, each, Cardinality(paid)>>
  <2>1. Detect(w, outs) = IF \/ paid = {} \/ Cardinality(paid) > MaxGuests
                             \/ \E i \in paid : outs[i][2] # each
                             \/ percent = 0
                          THEN None ELSE <<percent, found, each, Cardinality(paid)>>
    BY DEF Detect
  <2>2. ~ (Cardinality(paid) > MaxGuests)
    BY <1>7, GuestsAssumption
  <2> HIDE DEF paid, each, percent, found
  <2> QED
    BY <1>7, <1>8, <1>10, <2>1, <2>2
<1> HIDE DEF paid, each, percent, found
<1> QED
  BY <1>7, <1>9, <1>10, <1>11 DEF None, pot

-----------------------------------------------------------------------------
(* The invariant.                                                          *)

\* TagSound, of any spend.
SaysTrue(w, outs, said) ==
    LET toOthers(o) == IF o[1] # Host THEN o[2] ELSE 0 IN
    said # None =>
        /\ said[2] = Total([i \in DOMAIN outs |-> toOthers(outs[i])])
        /\ said[2] = said[3] * said[4]
        /\ said[2] = (w * said[1]) \div 100
        /\ said[2] <= w

LEMMA DetectSaysTrue ==
    ASSUME NEW w \in Nat, NEW outs, Len(outs) \in Nat, DOMAIN outs = 1 .. Len(outs),
           \A n \in 1 .. Len(outs) : outs[n][2] \in Nat
    PROVE  SaysTrue(w, outs, Detect(w, outs))
<1> SUFFICES ASSUME NEW said, said = Detect(w, outs), said # None
             PROVE  /\ said[2] = Total([i \in DOMAIN outs |->
                                          IF outs[i][1] # Host THEN outs[i][2] ELSE 0])
                    /\ said[2] = said[3] * said[4]
                    /\ said[2] = (w * said[1]) \div 100
                    /\ said[2] <= w
  BY DEF SaysTrue
<1> DEFINE amounts == [i \in DOMAIN outs |-> IF outs[i][1] # Host THEN outs[i][2] ELSE 0]
<1>1. /\ Len(amounts) = Len(outs)
      /\ \A n \in 1 .. Len(outs) : amounts[n] = IF outs[n][1] # Host THEN outs[n][2] ELSE 0
  OBVIOUS
<1> HIDE DEF amounts
<1>2. /\ said[2] = Total(amounts) /\ said[2] = said[3] * said[4]
      /\ said[2] = (w * said[1]) \div 100 /\ said[2] <= w
  BY <1>1, DetectSound
<1> QED
  BY <1>2 DEF amounts

PayoutsInv ==
    /\ interval \in Nat \ {0} /\ height \in Nat
    /\ issued = Circulating(height, interval)
    /\ parts # <<>> =>
         parts = SplitReward(SubsidyAt(height, interval), WinnerCount(height, interval))
    /\ win \in Nat /\ (win = 0 => sent = None)
    /\ SaysTrue(win, outputs, tag)
    /\ KnowsShare(win, sent, tag)

LEMMA WinnersCounted ==
    ASSUME NEW h \in Nat, NEW i \in Nat \ {0}
    PROVE  WinnerCount(h, i) \in Nat
<1>1. h \div i \in Nat
  BY Quotient
<1> QED
  BY <1>1 DEF WinnerCount

LEMMA PartsTyped ==
    ASSUME PayoutsInv, NEW m \in DOMAIN parts
    PROVE  parts[m] \in Nat
<1> DEFINE total == SubsidyAt(height, interval)
           k == WinnerCount(height, interval)
<1>1. total \in Nat /\ k \in Nat
  BY SubsidyTyped, WinnersCounted DEF PayoutsInv
<1>2. parts # <<>>
  OBVIOUS
<1>3. parts = SplitReward(total, k)
  BY <1>2 DEF PayoutsInv
<1> HIDE DEF total, k
<1> QED
  BY <1>1, <1>2, <1>3, SplitWhole

LEMMA PayoutsInit == Init => PayoutsInv
<1> SUFFICES ASSUME Init PROVE PayoutsInv
  OBVIOUS
<1>1. interval \in Nat \ {0}
  BY PayoutsAssumption DEF Init
<1>2. issued = Circulating(height, interval)
  BY <1>1, CirculatingBegins DEF Init
<1> QED
  BY <1>1, <1>2 DEF Init, PayoutsInv, SaysTrue, KnowsShare

LEMMA Block_Inv == PayoutsInv /\ Block => PayoutsInv'
<1> SUFFICES ASSUME PayoutsInv, Block PROVE PayoutsInv'
  OBVIOUS
<1>1. interval' = interval /\ height' = height + 1 /\ height \in Nat /\ interval \in Nat \ {0}
  BY DEF PayoutsInv, Block
<1>2. issued' = Circulating(height', interval')
  BY <1>1, CirculatingGrows DEF PayoutsInv, Block
<1> QED
  BY <1>1, <1>2 DEF Block, PayoutsInv, SaysTrue, KnowsShare

LEMMA SendShare_Inv ==
    ASSUME PayoutsInv, NEW m \in DOMAIN parts, NEW p \in Percents, NEW k \in Guests,
           SendShare(parts[m], p, k)
    PROVE  PayoutsInv'
<1> DEFINE w == parts[m]
           each == GuestShare(GuestPot(w, p), k)
<1>1. w \in Nat /\ p \in 1 .. 100 /\ p \in Nat /\ k \in Nat \ {0} /\ k \in Nat
  BY PartsTyped, PayoutsAssumption
<1>2. each > 0 /\ win' = w /\ sent' = <<p, k>> /\ outputs' = Pay(w, each, k)
      /\ tag' = Detect(w, outputs') /\ chain' = chain
  BY DEF SendShare
<1> HIDE DEF w
<1>3. GuestPot(w, p) \in Nat
  <2>1. (w * p) \in Nat
    BY <1>1, Product
  <2> DEFINE x == w * p
  <2> HIDE DEF x
  <2>2. x \in Nat => x \div 100 \in Nat
    OBVIOUS
  <2> QED
    BY <1>1, <2>1, <2>2, GuestPotExact DEF x
<1>4. each \in Nat
  <2> DEFINE pot == GuestPot(w, p)
  <2>1. pot \in Nat
    BY <1>3
  <2> HIDE DEF pot
  <2>2. pot \div k \in Nat
    BY <1>1, <2>1, Quotient
  <2> QED
    BY <2>2 DEF GuestShare, pot
<1>5. w # 0
  <2>1. CASE w = 0
    <3>1. GuestPot(0, p) = (0 * p) \div 100 /\ 0 * p = 0 /\ 0 \div 100 = 0
      BY <1>1, GuestPotExact
    <3>2. each = 0
      BY <2>1, <3>1 DEF GuestShare
    <3> QED
      BY <1>2, <3>2
  <2> QED
    BY <2>1
<1>6. SaysTrue(w, outputs', tag')
  <2> SUFFICES ASSUME NEW outs, outs = Pay(w, each, k)
               PROVE  SaysTrue(w, outs, Detect(w, outs))
    BY <1>2
  <2>1. PaysEach(outs, each, k)
    BY <1>1, <1>4, PayOutputs
  <2> HIDE DEF each
  <2>2. \A n \in 1 .. Len(outs) : outs[n][2] \in Nat
    BY <1>1, <1>4, <2>1 DEF PaysEach
  <2> QED
    BY <1>1, <2>1, <2>2, DetectSaysTrue DEF PaysEach
<1>7. KnowsShare(w, <<p, k>>, tag')
  BY <1>1, <1>2, ShareTagged
<1>8. KnowsShare(win', sent', tag') /\ SaysTrue(win', outputs', tag')
  BY <1>2, <1>6, <1>7
<1> HIDE DEF each
<1> QED
  BY <1>1, <1>2, <1>5, <1>8 DEF PayoutsInv, chain, SaysTrue, KnowsShare

LEMMA SpendWin_Inv ==
    ASSUME PayoutsInv, NEW m \in DOMAIN parts, NEW a \in Amounts, NEW b \in Amounts \cup {0},
           SpendWin(parts[m], a, b)
    PROVE  PayoutsInv'
<1> DEFINE w == parts[m]
           outs == <<<<1, a>>, <<2, b>>, <<Host, w - a - b>>>>
<1>1. w \in Nat /\ a \in Nat \ {0} /\ b \in Nat
  BY PartsTyped, PayoutsAssumption
<1>2. a + b <= w /\ win = 0 /\ win' = w /\ sent' = sent /\ outputs' = outs
      /\ tag' = Detect(w, outs) /\ chain' = chain
  BY DEF SpendWin
<1> HIDE DEF w
<1>3. w # 0 /\ w - a - b \in Nat
  BY <1>1, <1>2
<1>4. Len(outs) \in Nat /\ DOMAIN outs = 1 .. Len(outs) /\ \A n \in 1 .. Len(outs) : outs[n][2] \in Nat
  BY <1>1, <1>3
<1> HIDE DEF outs
<1>5. SaysTrue(w, outs, Detect(w, outs))
  BY <1>1, <1>4, DetectSaysTrue
<1>6. sent' = None
  BY <1>2 DEF PayoutsInv
<1>7. KnowsShare(win', sent', tag')
  BY <1>6 DEF KnowsShare
<1>8. SaysTrue(win', outputs', tag')
  BY <1>2, <1>5
<1> QED
  BY <1>1, <1>2, <1>3, <1>6, <1>7, <1>8 DEF PayoutsInv, chain, SaysTrue, KnowsShare

LEMMA PayoutsStep == PayoutsInv /\ [Next]_vars => PayoutsInv'
<1> SUFFICES ASSUME PayoutsInv, [Next]_vars PROVE PayoutsInv'
  OBVIOUS
<1>1. CASE UNCHANGED vars
  BY <1>1 DEF PayoutsInv, vars, chain, SaysTrue, KnowsShare
<1>2. CASE Block
  BY <1>2, Block_Inv
<1>3. ASSUME NEW m \in DOMAIN parts, NEW p \in Percents, NEW k \in Guests,
             SendShare(parts[m], p, k)
      PROVE  PayoutsInv'
  BY <1>3, SendShare_Inv
<1>4. ASSUME NEW m \in DOMAIN parts, NEW a \in Amounts, NEW b \in Amounts \cup {0},
             SpendWin(parts[m], a, b)
      PROVE  PayoutsInv'
  BY <1>4, SpendWin_Inv
<1> QED
  BY <1>1, <1>2, <1>3, <1>4 DEF Next

LEMMA PayoutsAlways == Spec => []PayoutsInv
  BY PayoutsInit, PayoutsStep, PTL DEF Spec

\* circulating_supply is at every height what subsidy_at has paid up to it, and
\* it is what will ever be paid from last_paying_height on and not before, for
\* every initial subsidy and halving interval.
THEOREM Spec_SupplyExact == Spec => []SupplyExact
<1>1. PayoutsInv => SupplyExact
  BY LifetimeReached DEF PayoutsInv, SupplyExact
<1> QED
  BY <1>1, PayoutsAlways, PTL

\* split_reward gives the winners the whole subsidy, in parts that differ by at
\* most one, for every subsidy and number of winners.
THEOREM Spec_SplitConserves == Spec => []SplitConserves
<1>1. ASSUME PayoutsInv, parts # <<>>
      PROVE  /\ Total(parts) = SubsidyAt(height, interval)
             /\ \A m, n \in DOMAIN parts : parts[m] - parts[n] <= 1
  <2> DEFINE total == SubsidyAt(height, interval)
             k == WinnerCount(height, interval)
  <2>1. total \in Nat /\ k \in Nat
    BY <1>1, SubsidyTyped, WinnersCounted DEF PayoutsInv
  <2>2. parts = SplitReward(total, k)
    BY <1>1 DEF PayoutsInv
  <2> HIDE DEF total, k
  <2>3. Total(parts) = total /\ \A m, n \in DOMAIN parts : parts[m] - parts[n] <= 1
    BY <1>1, <2>1, <2>2, SplitWhole
  <2> QED
    BY <2>3 DEF total
<1>2. PayoutsInv => SplitConserves
  BY <1>1 DEF SplitConserves
<1> QED
  BY <1>2, PayoutsAlways, PTL

\* What detect_host_share says of any spend is true of its outputs: the pot is all
\* that went to others, in equal parts, and is the tagged percentage of the win.
THEOREM Spec_TagSound == Spec => []TagSound
<1>1. PayoutsInv => TagSound
  BY DEF PayoutsInv, SaysTrue, TagSound
<1> QED
  BY <1>1, PayoutsAlways, PTL

\* A share the wallet's rule divides evenly is recognised by detect_host_share,
\* with the host's own percentage for a win of at least 100 units.
THEOREM Spec_EvenShareTagged == Spec => []EvenShareTagged
<1>1. PayoutsInv => EvenShareTagged
  BY DEF PayoutsInv, KnowsShare, EvenShareTagged
<1> QED
  BY <1>1, PayoutsAlways, PTL
===============================================================================
