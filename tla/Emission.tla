------------------------------ MODULE Emission ------------------------------
(***************************************************************************)
(* The issue of coins as explorer/chain.py computes it, for a block and in  *)
(* closed form, and the division of a subsidy among winners of              *)
(* explorer/decode.py.  The initial subsidy is 5000 * 10^8 in the code.     *)
(***************************************************************************)
EXTENDS Sums

CONSTANTS
    InitialSubsidy,     \* INITIAL_SUBSIDY
    Eras                \* 64: no subsidy from this halving on

ASSUME EmissionAssumption == InitialSubsidy \in Nat \ {0} /\ Eras \in Nat \ {0}

\* INITIAL_SUBSIDY >> k
Halved[k \in Nat] == IF k = 0 THEN InitialSubsidy ELSE Halved[k - 1] \div 2

\* subsidy_at
SubsidyAt(h, i) == IF h < 1 \/ h \div i >= Eras THEN 0 ELSE Halved[h \div i]

\* winner_count, for a height of the chain.
WinnerCount(h, i) == IF h \div i > 1023 THEN 1024 ELSE (h \div i) + 1

\* Mistake: the era ends a block late.
EraEndLate(e, i) == (e + 1) * i

\* First and last height of an era; the first era begins after the genesis block.
EraStart(e, i) == IF e = 0 THEN 1 ELSE e * i
EraEnd(e, i) == (e + 1) * i - 1

\* What the blocks of an era pay up to a height.
EraPays(e, h, i) ==
    LET end == IF h < EraEnd(e, i) THEN h ELSE EraEnd(e, i)
        start == EraStart(e, i)
    IN IF start > end THEN 0 ELSE SubsidyAt(start, i) * (end - start + 1)

\* circulating_supply: the loop ends early where an era adds nothing more.
Circulating(h, i) == Total([n \in 1 .. Eras |-> EraPays(n - 1, h, i)])

\* last_paying_height: the end of the last era whose first block pays.
LastPayingHeight(i) ==
    LET paying == {e \in 0 .. Eras - 1 : \A f \in 0 .. e : SubsidyAt(EraStart(f, i), i) > 0}
    IN IF paying = {} THEN 0 ELSE EraEnd(CHOOSE e \in paying : \A f \in paying : f <= e, i)

\* lifetime_supply
LifetimeSupply(i) == Circulating(LastPayingHeight(i), i)

\* Mistake: the remainder is lost.
SplitEvenly(total, k) == IF k <= 0 \/ total <= 0 THEN <<>> ELSE [n \in 1 .. k |-> total \div k]

\* split_reward: the first winners get one more.
SplitReward(total, k) ==
    IF k <= 0 \/ total <= 0 THEN <<>>
    ELSE [n \in 1 .. k |-> total \div k + (IF n <= total % k THEN 1 ELSE 0)]
===============================================================================
