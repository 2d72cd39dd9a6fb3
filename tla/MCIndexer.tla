------------------------------ MODULE MCIndexer ------------------------------
(***************************************************************************)
(* A node with three branches, for TLC.                                     *)
(*                                                                          *)
(*     g -- a1 -- a2 -- a3            a1 is left by a branch from g, so     *)
(*     |     `--- b2 -- b3 -- b4      that a rewind can wipe the index, and *)
(*     `--- c1 -- c2                  the others leave within Depth = 2.    *)
(*                                                                          *)
(* `pay' spends the coinbase of its own block a1.  `issue' spends one of    *)
(* its outputs and makes an asset, `reissue' adds to it and spends the      *)
(* owner token.  These two are mined on branch a and again on branch b, at  *)
(* other heights.                                                           *)
(***************************************************************************)
EXTENDS IndexerProperties

MCBlock == {"g", "a1", "a2", "a3", "b2", "b3", "b4", "c1", "c2"}

Parent == [a1 |-> "g", a2 |-> "a1", a3 |-> "a2", b2 |-> "a1", b3 |-> "b2",
           b4 |-> "b3", c1 |-> "g", c2 |-> "c1"]

MCHeight == [g |-> 0, a1 |-> 1, a2 |-> 2, a3 |-> 3, b2 |-> 2, b3 |-> 3, b4 |-> 4,
             c1 |-> 1, c2 |-> 2]

MCPath ==
    LET chain[b \in MCBlock] ==
            IF b = "g" THEN [h \in {0} |-> b]
            ELSE [h \in 0 .. MCHeight[b] |->
                    IF h = MCHeight[b] THEN b ELSE chain[Parent[b]][h]]
    IN  chain

coinbases == {"cg", "ca1", "ca2", "ca3", "cb2", "cb3", "cb4", "cc1", "cc2"}
MCTx == coinbases \cup {"pay", "issue", "reissue"}
MCCoinbase == coinbases

MCTxs == [g |-> <<"cg">>, a1 |-> <<"ca1", "pay">>, a2 |-> <<"ca2", "issue">>,
          a3 |-> <<"ca3", "reissue">>, b2 |-> <<"cb2">>, b3 |-> <<"cb3", "issue">>,
          b4 |-> <<"cb4", "reissue">>, c1 |-> <<"cc1">>, c2 |-> <<"cc2">>]

MCNoAsset == "none"
MCKeepsAmount == {"RVN", "RVN!"}

coin(v) == [value |-> v, data |-> FALSE, asset |-> "none", kind |-> "none", amount |-> 0]
memo == [value |-> 0, data |-> TRUE, asset |-> "none", kind |-> "none", amount |-> 0]
token(a, k, q) == [value |-> 0, data |-> FALSE, asset |-> a, kind |-> k, amount |-> q]

MCIns == [t \in MCTx |->
    CASE t = "pay" -> << <<"ca1", 1>> >>
      [] t = "issue" -> << <<"pay", 1>> >>
      [] t = "reissue" -> << <<"issue", 3>>, <<"issue", 1>>, <<"issue", 4>> >>
      [] OTHER -> <<>>]

MCOuts == [t \in MCTx |->
    CASE t = "pay" -> <<coin(4), coin(1)>>
      [] t = "issue" -> <<coin(3), token("RVN", "new", 10), token("RVN!", "owner", 1), memo>>
      [] t = "reissue" -> <<coin(2), token("RVN", "reissue", 5), token("RVN!", "transfer", 1)>>
      [] OTHER -> <<coin(5), memo>>]

\* A block's lottery pays two of the nodes n1 and n2, or one.
MCPayees == [t \in coinbases |->
    IF t \in {"ca2", "cc1"} THEN <<"n1", "n2">> ELSE <<"n2">>]
MCActive == [t \in coinbases |-> IF t \in {"ca3", "cb2"} THEN {"n1"} ELSE {"n1", "n2"}]

\* What the theorems suppose of the tree and its transactions holds of these.
ASSUME MCRules == ConsensusRules /\ AssetRules /\ ShallowForks
===============================================================================
