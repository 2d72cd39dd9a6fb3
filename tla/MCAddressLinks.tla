--------------------------- MODULE MCAddressLinks ---------------------------
(***************************************************************************)
(* Instances of AddressLinks; the HTTP threads are interchangeable.         *)
(***************************************************************************)
EXTENDS AddressLinks, TLC

Symmetry == Permutations(Http)
===============================================================================
