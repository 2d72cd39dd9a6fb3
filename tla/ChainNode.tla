------------------------------ MODULE ChainNode ------------------------------
(***************************************************************************)
(* The XCoin node, as the explorer sees it through getblockchaininfo,       *)
(* getblockhash and getblock.  The node is outside the repository: it is    *)
(* modelled from the calls that explorer/indexer.py makes.                  *)
(*                                                                          *)
(* The blocks ever mined form a tree.  A block is known by its path from    *)
(* the genesis block, so the node's active chain is Path[best] and          *)
(* getblockhash(h) is Path[best][h].                                        *)
(***************************************************************************)
EXTENDS Integers

CONSTANTS
    Block,      \* every block of the tree, a block standing for its hash
    Height,     \* Height[b]: the height of block b
    Path        \* Path[b]: the chain that ends in b, by height

ASSUME PathAssumption ==
    /\ Height \in [Block -> Nat]
    /\ \A b \in Block :
          /\ Path[b] \in [0 .. Height[b] -> Block]
          /\ Path[b][Height[b]] = b
          /\ \A h \in 0 .. Height[b] :
                /\ Height[Path[b][h]] = h
                /\ \A k \in 0 .. h : Path[Path[b][h]][k] = Path[b][k]

VARIABLE best   \* the last block of the node's active chain

OnChain(b, tip) == Height[b] <= Height[tip] /\ Path[tip][Height[b]] = b

\* getblockhash(h) answers for h up to the tip; above it the node returns an
\* RPC error.
HasHeight(h) == h \in 0 .. Height[best]
BlockAt(h) == Path[best][h]

NodeInit == best \in {b \in Block : Height[b] = 0}

\* A block on top of the active chain.
Mine == \E b \in Block :
    /\ Height[b] = Height[best] + 1
    /\ OnChain(best, b)
    /\ best' = b

\* The node switches to a longer branch that leaves the active chain.
Reorg == \E b \in Block :
    /\ Height[b] > Height[best]
    /\ ~ OnChain(best, b)
    /\ best' = b

\* The node drops blocks from its tip: invalidateblock, or a restart with
\* -reindex, which reports a shorter chain until it has caught up.
Retreat == \E h \in 0 .. Height[best] - 1 : best' = BlockAt(h)
==============================================================================
