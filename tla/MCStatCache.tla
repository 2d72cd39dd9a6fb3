----------------------------- MODULE MCStatCache -----------------------------
(***************************************************************************)
(* Threads are interchangeable, and so are lock objects: the symmetry is    *)
(* used where no liveness is checked.                                       *)
(***************************************************************************)
EXTENDS StatCache, TLC

Symmetry == Permutations(Thread) \cup Permutations(Lock)
===============================================================================
