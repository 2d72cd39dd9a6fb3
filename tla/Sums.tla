-------------------------------- MODULE Sums --------------------------------
(***************************************************************************)
(* sum() over a list, as a recursive function of how many are added up.    *)
(***************************************************************************)
EXTENDS Integers, Sequences

\* sum(): of the first k amounts, for every k.
Total(amounts) ==
    LET sum[k \in 0 .. Len(amounts)] == IF k = 0 THEN 0 ELSE sum[k - 1] + amounts[k]
    IN sum[Len(amounts)]
===============================================================================
