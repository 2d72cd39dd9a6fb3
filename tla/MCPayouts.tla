----------------------------- MODULE MCPayouts -----------------------------
(***************************************************************************)
(* Payouts with a subsidy that is halved down to nothing within the bound   *)
(* on heights, whose wins run from thousands, where a percentage is told by *)
(* its pot, to single units, where percentages collide.                     *)
(***************************************************************************)
EXTENDS Payouts

MCIntervals == {1, 2, 3, 5}
MCPercents == 1 .. 100
MCGuests == 1 .. 5
MCAmounts == {1, 2, 5, 10, 50, 100, 250, 1000}
===============================================================================
