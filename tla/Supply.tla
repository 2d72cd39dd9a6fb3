------------------------------- MODULE Supply -------------------------------
(***************************************************************************)
(* The supply page (supply.py): one snapshot of the figures, kept for a    *)
(* while.  The figures come from two statements, the height and the coins  *)
(* at the burn addresses, between which the indexer commits.  The lock is  *)
(* held over a whole reading, so there is one reader at a time.            *)
(***************************************************************************)
EXTENDS Emission

CONSTANTS Interval,      \* halving interval of the network
          SupplyTtl,     \* CACHE_SECONDS, in ticks
          BlockBurns,    \* what one block may send to the burn addresses
          SupplyTime,    \* bounds: ticks, blocks
          SupplyBlocks

ASSUME SupplyAssumption ==
    Interval \in Nat \ {0} /\ BlockBurns \subseteq Nat /\ SupplyBlocks \in Nat

VARIABLES burns,         \* the committed blocks after the genesis: coins burned by each
          supplyNow,     \* the clock
          supply,        \* SupplyCache: value and at, or NoFigures
          reading,       \* the locals of get() while it computes; and, for the
                         \* properties, left: the coins there were at that height,
                         \* spoilt: a rewind fell into the reading
          supplyShown    \* the last answer, or NoFigures

supplyVars == <<burns, supplyNow, supply, reading, supplyShown>>

NoFigures == [kind |-> "none"]
NotReading == [pc |-> "idle"]

\* Mutant: the burned sum is not limited by what was issued.
FiguresUncapped(r, burned) ==
    LET issued == Circulating(r.height, Interval)
    IN  [kind |-> "figures", height |-> r.height, issued |-> issued, burned |-> burned,
         total |-> issued - burned, max |-> LifetimeSupply(Interval),
         left |-> r.left, spoilt |-> r.spoilt]

\* compute_supply, at the height a reading r has read: total and circulating are
\* the same, nothing is locked.  What r notes for the properties stays with it.
FiguresOf(r, burned) ==
    LET issued == Circulating(r.height, Interval)
        least  == IF burned < issued THEN burned ELSE issued
    IN  [kind |-> "figures", height |-> r.height, issued |-> issued, burned |-> least,
         total |-> issued - least, max |-> LifetimeSupply(Interval),
         left |-> r.left, spoilt |-> r.spoilt]
-----------------------------------------------------------------------------
SupplyInit ==
    /\ burns = <<>> /\ supplyNow = 0
    /\ supply = [value |-> NoFigures, at |-> 0]
    /\ reading = NotReading /\ supplyShown = NoFigures

SupplyTicks ==
    /\ supplyNow < SupplyTime
    /\ supplyNow' = supplyNow + 1
    /\ UNCHANGED <<burns, supply, reading, supplyShown>>

\* The indexer commits a block, which burns coins that were issued.
BlockBurnsCoins(b) ==
    /\ Len(burns) < SupplyBlocks
    /\ Total(burns) + b <= Circulating(Len(burns) + 1, Interval)
    /\ burns' = Append(burns, b)
    /\ UNCHANGED <<supplyNow, supply, reading, supplyShown>>

\* A rewind, as the indexer commits it.
BurnsRewound(n) ==
    /\ n < Len(burns)
    /\ burns' = SubSeq(burns, 1, n)
    /\ reading' = IF reading.pc = "burned" THEN [reading EXCEPT !.spoilt = TRUE] ELSE reading
    /\ UNCHANGED <<supplyNow, supply, supplyShown>>

\* get(): a young snapshot is served.
ServesSnapshot ==
    /\ reading.pc = "idle"
    /\ supply.value # NoFigures /\ supplyNow - supply.at < SupplyTtl
    /\ supplyShown' = supply.value
    /\ UNCHANGED <<burns, supplyNow, supply, reading>>

ReadsHeight ==
    /\ reading.pc = "idle"
    /\ supply.value = NoFigures \/ supplyNow - supply.at >= SupplyTtl
    /\ reading' = [pc |-> "burned", now |-> supplyNow, height |-> Len(burns), spoilt |-> FALSE,
                    left |-> Circulating(Len(burns), Interval) - Total(burns)]
    /\ UNCHANGED <<burns, supplyNow, supply, supplyShown>>

\* The snapshot is dated by the beginning of the reading.
ReadsBurned ==
    LET value == FiguresOf(reading, Total(burns))
    IN  /\ reading.pc = "burned"
        /\ supply' = [value |-> value, at |-> reading.now]
        /\ supplyShown' = value
        /\ reading' = NotReading
        /\ UNCHANGED <<burns, supplyNow>>

\* A failed read serves the last figures, and the next request reads again;
\* without any it raises.
SupplyReadFails ==
    /\ \/ reading.pc = "burned"
       \/ /\ reading.pc = "idle"
          /\ supply.value = NoFigures \/ supplyNow - supply.at >= SupplyTtl
    /\ supplyShown' = IF supply.value = NoFigures THEN supplyShown ELSE supply.value
    /\ reading' = NotReading
    /\ UNCHANGED <<burns, supplyNow, supply>>

SupplyNext ==
    \/ SupplyTicks \/ ServesSnapshot \/ ReadsHeight \/ ReadsBurned \/ SupplyReadFails
    \/ \E b \in BlockBurns : BlockBurnsCoins(b)
    \/ \E n \in 0..SupplyBlocks : BurnsRewound(n)

SupplySpec == SupplyInit /\ [][SupplyNext]_supplyVars
-----------------------------------------------------------------------------
\* The figures shown are never those of more coins than there were: between 0
\* and what was issued, which is no more than ever will be, and, unless the
\* chain was cut back between the two statements, at most what was left at the
\* height they name (a commit between them only adds to the burned sum).
SupplySound ==
    supplyShown # NoFigures =>
        /\ 0 <= supplyShown.total /\ supplyShown.issued <= supplyShown.max
        /\ supplyShown.total + supplyShown.burned = supplyShown.issued
        /\ supplyShown.spoilt \/ supplyShown.total <= supplyShown.left
=============================================================================
