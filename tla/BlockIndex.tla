------------------------------ MODULE BlockIndex ------------------------------
(***************************************************************************)
(* What the index of blocks promises to every page that reads it: at any    *)
(* time it is the path of one block of the node's tree, whole from the      *)
(* genesis block to its tip, or it is empty.  A commit puts blocks on top   *)
(* of it, or drops blocks from its tip, and never both.                     *)
(***************************************************************************)
EXTENDS Integers

CONSTANTS Block, Height, Path

VARIABLE index  \* height -> block, the committed rows of table blocks

Empty == [h \in {} |-> -1]

\* The indexes there can be.
Chains == {Empty} \cup {Path[b] : b \in Block}

Init == index = Empty

IsPrefix(short, long) ==
    /\ DOMAIN short \subseteq DOMAIN long
    /\ \A h \in DOMAIN short : short[h] = long[h]

Extend == \E c \in Chains : IsPrefix(index, c) /\ index' = c
Truncate == \E c \in Chains : IsPrefix(c, index) /\ index' = c

Next == Extend \/ Truncate
Spec == Init /\ [][Next]_index
===============================================================================
